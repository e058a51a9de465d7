# EleanorBlank: specifications, model checking and proofs

EleanorBlank is a desktop application in C++: a window that shows web pages
through the Ultralight library, a TCP/UDP layer on Boost.Asio, settings in an XML
file on Boost.PropertyTree, and a log on Boost.Log. This directory holds TLA+
modules translated from that code, TLC configurations that model-check them, and
TLAPS proofs. Paths below are relative to `src/src/components` of the repository
unless they begin otherwise.

## 1. The system

| component | where | state it keeps | operations |
|---|---|---|---|
| TCP socket | `ipc_network/source/tcp/tcp_socket.*` | `_socket`, `_read_packet`, `_write_packets`, callbacks | `async_write`, `close`, the read loop, `handle_write`, `set_keep_alive` |
| TCP server | `.../tcp/tcp_server.*` | acceptor, filter, callback | `async_accept`, `handle_accept`, `set_socket` |
| TCP client | `.../tcp/tcp_client.*` | callback | constructor, `handle_connect` |
| UDP | `ipc_network/source/udp/*` | socket, one receive buffer, the sender's endpoint | `async_send_to`, `async_receive_from` and their handlers |
| settings | `config/source/config.*`, `document.*` | `_initialized`, `_mutex`, `_doc`, `_last_write_time`, and the XML file | `init`, `get_*`, `set_*`; `refresh`, `load`, `save`, `validate_file` |
| keep-alive data | `config/source/keep_alive_data.*`, `main.cpp` | four numbers | `load_keep_alive_data` |
| log | `logger/source/*` | `Settings`, the sinks and the filter of Boost.Log, a static locale | `init`, `default_setup`, `set_severity_level` |
| folders | `filesystem/source/*` | none | one query of a Windows folder |
| GPU driver | `ui/source/glfw/GPUDriverGL.*` | maps from ids to OpenGL objects, command list, counters | create, update, destroy; `UpdateCommandList`, `DrawCommandList`, `DrawGeometry` |
| window and engine | `ui/source/Window.*`, `Engine.*`, `glfw/RenderWindow.*` | two OpenGL contexts, the quad on which a page is shown | `run`, `Repaint`, `Render`, `Draw`, events |
| views, loader, shaders | rest of `ui/source` | a flag | forwards to the library |
| application | `application/source/main.cpp` | none | makes the window and runs it |

**How they interact.** `TcpServer` and `TcpClient` derive from `TcpSocket`; the
network, through an `io_context` that the application runs, and the application,
through calls and callbacks, act on the same object, which has neither mutex nor
strand. All threads of the process share the one `Config`, which serialises them
by a mutex and shares the file with other programs. The log and the keep-alive
data read their settings through `Config`, one call per setting. `UIWindow::run`
calls the library, which calls back into `GPUDriverGL` while it renders and leaves
a command list that the driver executes afterwards, in another context.

**What is hard, and what makes each component correct.**

* *TCP.* A completed operation waits in the `io_context` while the socket is closed
  or replaced; a callback may close the socket or throw from inside a handler;
  buffers, the queue, and starting an operation may fail; each later packet is
  started only by the completion of the one before. Right means: packets leave
  once and in order, the string being written stays in memory, frames arrive whole
  and in order, an open connection is always being read, every disconnect is
  reported once, and a server that wants connections is never deaf.
* *Settings.* The mutex does not stop other programs: they may change the file
  between any two file accesses, and a change shows only in a modification time of
  one second. Any access may fail, and the process may die in between. Right means:
  the cached tree is current when used, a set changes one setting and loses no
  other, what could not be read is kept, calls of threads are linearizable, and a
  call that fails releases the mutex.
* *Keep-alive.* Four settings are read one by one, pass through two changes of sign,
  and become options of each socket that is accepted. Right means: the values were in
  the settings, a failure leaves nothing, and a peer that vanishes is noticed.
* *UDP.* One buffer and one endpoint serve all receives, and the server listens
  before anyone can have set a callback. Right means: the callback gets what was
  received, in order, and the server listens until a receive fails.
* *Log.* Settings are read one at a time while others change them, sinks are
  registered before all of `init` is done, and one local variable is static.
* *GPU driver and window.* Commands name objects by id and are executed after the
  library has returned; two contexts share some kinds of objects and not others;
  OpenGL gives freed names out again; `Engine` remembers a texture for ever. Right
  means: no leak and no stale name, commands are drawn once, in order, with live
  objects, and the window shows the page.
* *Keyboard and mouse.* Several keys have one code, the modifiers come with the
  event, and a movement names one button. Right means: what the view is told agrees
  with what is held, as far as the codes can say.

Every one of these hazards is listed, at its line, in `PROJECT.json`.

## 2. The modules

| module | extends | implements |
|---|---|---|
| `TcpSocket` | | |
| `TcpServer` | `TcpSocket` | `PacketChannel` |
| `TcpClient` | `TcpSocket` | |
| `KeepAlive` | | |
| `KeepAliveServer` | `TcpServer`, `KeepAlive` | |
| `Document` | | |
| `Config` | `Document` | `SettingsStore` |
| `UdpServer`, `Logger`, `UIInput` | | |
| `GPUDriverGL` | | |
| `UIWindow` | `GPUDriverGL` | |
| `TcpServerProofs` | `TcpServer` | proofs |
| `TcpClientProofs` | `TcpClient` | proofs |
| `KeepAliveProofs` | `KeepAliveServer` | proofs |
| `ConfigProofs` | `Config` | proofs |
| `UdpServerProofs`, `LoggerProofs` | `UdpServer`, `Logger` | proofs |
| `UIWindowProofs`, `UIInputProofs` | `UIWindow`, `UIInput` | proofs |

"Implements" is a refinement: INSTANCE ... WITH, checked as a PROPERTY. `MCTcpServer`,
`MCTcpClient`, `MCKeepAliveServer`, `MCConfig`, `MCUIWindow`, `MCUIInput`, `MCUdpServer`
and `MCLogger` instantiate the modules for TLC.

An operator headed `Mutant:` is a plausible mistake in the definition that follows
it. Put in the place of that definition (`mutants` in `PROJECT.json` says which
for which property), it must make the property fail; this is how we know that no
property holds by the shape of its model alone.

### TcpSocket, TcpServer, TcpClient, PacketChannel

| in the model | in the code |
|---|---|
| `socket` | `_socket`: the connection it holds, 0 when not open |
| `ops` | operations started and not dispatched: each has its kind, connection, result, and for a write the packet |
| `writePackets`, `readPacket` | `_write_packets`, `_read_packet`: a frame is a header unit that tells the size, then a body unit |
| `HandleReadHeader`, `HandleReadData`, `HandleWrite`, `HandleAccept`, `HandleConnect` | the handlers, each with the callbacks it makes and the operations it starts, as one action |
| `AsyncWrite`, `Close`, `Destroy`, `AsyncAccept` | calls of the application |
| `Complete...`, `PeerSends`, `ConnectionLost` | asio, the kernel and the peer |
| `CloseThen(rest, started, t)` | `close()` inside a handler: it aborts what is pending on the connection, runs the disconnect callback, and does nothing on a closed socket |

Handlers run one at a time: the class has no mutex, so the `io_context` is run by
one thread. They may be dispatched in any order. A completed operation keeps its
result when the socket is closed under it, exactly because its handler cannot be
called back. `Abort` gives pending ones an error. Operations get a ticket, so that two of the
same kind on the same connection are two members of the set `ops`; a step takes
the least unused one.

The application is a parameter. `AcceptPolicy` says when it calls `async_accept`
again: never, from the disconnect callback, after the `io_context` has run out of
work, or whenever it likes. The code documents none of these; what it guarantees
depends on which one is chosen, and the runs say how. `Faults` lists the
misfortunes allowed.

Behaviour worth knowing, all of it in the code and in the model: a failed write
leaves its packet at the front, so that nothing is ever written again, not on the
next connection either (`StallIsPermanent`); an error of `async_accept` closes the
connection being served and nobody accepts again; when the read buffer cannot grow
the next header is read out of the middle of a frame; when `push_back` throws on an
empty queue the socket is closed and `front()` of the empty queue is written. The
last is undefined behaviour; the model takes the benign outcome, a write on a
closed socket that fails. A filter that throws leaves the accept handler, which has no
`try`: nobody accepts any more (`FilterThrows`). `async_write` has no time limit: to a
peer that does not read (`link = "full"`) a write stays under way for ever.

An application that accepts while it is connected makes two read loops share
`_read_packet`. So a read remembers the place it was told to fill (`at`): a header the
start of the buffer, a body the place behind what the buffer holds then, which after
another loop's header is not the second unit; the length check then fails, and the
frame is dropped. The buffer may move when it grows (`Grown`); a read that is pending
into it then fills freed memory, which is undefined: its bytes are lost in the model, and
the memory is nobody else's.

`PacketChannel` is what the write side promises: packets leave in the order in
which they were handed over, each at most once.

### KeepAlive, KeepAliveServer

`KeepAlive` is `load_keep_alive_data`. `settings` is what `Config` would answer at
this moment; that one get takes effect at one moment is what `ImplementsStore` shows
of `Config`, so the loader is modelled over the abstract store and not over every
file access again. `StartLoad` clears the data, each `ReadSetting` is one get, which
may fail, `FinishLoad` constructs the data, with `Unsigned` for the `static_cast`s.
`ChangeSettings` is another thread or program; it may change several settings at
once. `held` is history: what each setting was since loading began.

`KeepAliveServer` composes it with `TcpServer`: `Load` steps until the application
takes the data and constructs the server, then `Serve` steps. `AcceptConnection` is
the accept handler with the whole of `set_keep_alive` in it. `options` are those of
the socket held, `NoOptions` when it is closed, in the order in which the code sets
them. `setsockopt` takes its four bytes for an `int`, hence `Signed`; the kernel
takes `1..MaxOption` and may refuse `Unsupported` ones. `Vanish` is a peer that goes
without a word, after which only `Probe`, the kernel's keep-alive, can tell.

### Document, Config, SettingsStore

`Document` has one action per access to the file; `at` is the program counter of
the thread inside it, named by the step it is about to take: `validate`, `stat`,
`load`, `rename`, `remove`, `revalidate`, `reload`, `truncate`, `write`, and the
three places where the modification time is read. A file is missing, torn, or
holds a tree, which is a function from paths of settings to values; `Absent` is a
missing node. `Import` is `import_child_nodes`: what the tree lacks comes from the
template. `save_to` empties the file and then writes it; a crash between them
leaves an empty file (that parses, as an empty tree) or a torn one. `Config` adds
threads, the mutex and the calls. `World` is other programs and the clock.

Six variables are history. `base` is the file as the call found it, `Missing` if it
could not be read. `unsaved` holds the sets whose save failed: they stay in the tree,
and the next save that succeeds writes them. `unread` is the last file that could not
be loaded, and `refused` says that renaming it failed: then `Remove` deletes it, as the
code does, and there is no copy. `blind` says that a change happened that the times cannot
show: in the same second as the last known time or with an older one (`Foreign` stamps a
file with any second up to the present), or during a call; `spoilt`, that our
own save made it, by failing after it had emptied the file. Properties about freshness
are limited to `~blind`: the code cannot do better with times of one second, and the
limit is stated rather than hidden. `Over(c, t)` is the tree `c` laid over `t`.

`SettingsStore` is what a caller may think of: one map, each call takes effect at
one moment. `CurrentSettings` and `CurrentCalls` are the refinement mapping: a get
takes effect when it reads the tree, a set when it has changed the tree, from
which moment the store is what is going to be written.

### UdpServer, Logger

`UdpServer` has senders, the network (lost, duplicated, reordered datagrams), the
queue of the operating system, and `handle_receive_from` cut in two, before and
after the callback, so that a receive that started too early would show.

`Logger` has `init` cut at every call of `Config` and at every call that can throw.
The fault `"memory"` lets each of them but the reading of the settings throw, before or
after it has added its sink. The macros `CHECK_SC` only log, so that a missing folder is
not a failure of `init`. Two oddities of the code are in the model: the size for rotation is tested
before it is replaced, not after, and `get_file_rotation_size` does not return it.

### GPUDriverGL, UIWindow, UIInput

`texture_map`, `render_buffer_map`, `geometry_map`, `command_list` and `context`
are the driver's; `gl` is what OpenGL has: shared textures and buffers, and
framebuffers and vertex arrays per context. Fresh names are the least free ones, so
that a freed name comes back at once, which is the worst case. `UIWindow` is the
loop: `StartRender`, the library's calls (`LibraryCreates`, `LibraryDestroys`,
`LibrarySubmits`, `EndRender`), `CheckPending`, one `DrawCommandList` step per command,
`UpdateGeometry`, `DrawWindow`, `PollEvents`. What the code calls FATAL is a guard
(`CannotBind`) of the drawing steps; `DrawsLiveObjects` shows that it never blocks
one. `DestroyRenderBuffer` and `DestroyGeometry` delete the names of each context in that
context, as the code does by making one after the other current, and restore the one
that was current before.

The library is not in the repository. Assumed of it is that

* it refers only to objects that it has created and not destroyed;
* it never destroys the target of the view, the first render buffer it makes;
* in one `Render` it calls `UpdateCommandList` with commands at most once: a second list
  would overwrite the first (`GPUDriverGL.cpp:1044-1051`), and commands would be lost;
* after that, and until `Render` returns, it may create objects, and destroy those that the
  list does not name (`Named`). Before it submits it may destroy anything, since for all
  it knows every earlier list has been drawn; a driver that kept one would be caught.

`UIInput` has the callbacks that GLFW calls from `PollEvents`: `keys` and `buttons` are
what is held (GLFW knows that), `viewKeys` and `viewButtons` what the view has been
told. `VirtualKey` and `ViewModifiers` are the two translations; all that matters of
the first is which keys share a code (`Shared`), every other key standing for its own.
GLFW releases what is held, without modifiers, after a loss of focus, which the
focus callback does not report. `masked` is history: the keys that are held although the
view was told that their code is up, because another key with that code was released.
How far the wheel turns, and where the mouse is, are left out.

## 3. The runs

All bounds are constants of the cfg files. In the TCP runs
`MaxTickets = 5` never limits anything: in every state of each of them a ticket is free.

| run | what it asks | bounds |
|---|---|---|
| `TcpServerAny` (529 000 states) | the application accepts whenever it likes; allocations, initiations, accepts and filters fail. `WriteFifo`, `OneWriteFromFront`, `DisconnectedOnce`, and `ImplementsChannel` (refinement) | 2 connections, so one replaces the other; 2 packets, so one waits behind the other; no frames, the write side is independent of them |
| `TcpServerDrained` (2.3 million) | the application accepts again only when the `io_context` ran out of work: `NoStaleOperation`, `FramesInOrder`, `SentWhereWritten`, `QueueIsDriven`, `StallIsPermanent`, `TypeOK` | 2 connections, 2 packets, 2 frames each with or without body: a second frame shows what the first left in the buffer |
| `TcpServerCallback` (2.5 million) | it accepts from the disconnect callback: `ServingOrAccepting`, `OpenIsRead`, although late completions close the newer connection and two reads share a buffer that cannot always grow, moves, and is filled at the wrong place | 2 connections, 1 packet, 1 frame |
| `TcpServerLive` (76 000) | a server with keep-alive data that is loaded while the settings change, and peers that vanish or stop reading, for a while or for good: `LoadedWasThere`, `LossIsNoticed`, `PacketsAreSent`, `VanishedIsNoticed` | 2 connections, 2 packets, no frames, losses, an application that closes; integers of 4 bits, in which -1 and 15 differ as they do in 32; settings valid, with a negative count, with a timeout too large for the kernel, with a switch that is no truth value, and mixtures of these; the kernel accepts options up to 3 and may refuse `SO_KEEPALIVE` |
| `TcpClient` (30 000) | an application that closes, writes and throws at any moment: `DisconnectIsCaused`, `ConnectIsAnswered`, `LossIsReported`, `FramesArrive` | 2 packets, 2 frames with or without body; a client has one connection by construction |
| `ConfigEdits` (2.0 million) | other programs edit, spoil and delete the file; opening, renaming, removing, writing it and asking for it fail, the process dies: `RefreshedIsCurrent`, `FileMatchesTree`, `UnreadIsBackedUp`, `TypeOK` | 1 setting with a default, present, changed and absent; two seconds, so that files are stamped with times that are older, equal and newer than the one known; 1 thread, the mutex being another run's question |
| `ConfigWrites` (536 000) | others edit and delete the file, asking for it, creating, renaming, removing and writing it fail, the process dies: `WritesOnlyWhatWasSet`, `CallsReturn` | 2 settings, one of them with a default, so that there is one that a set must not touch; 1 value and absent, which is enough to tell what is lost from what is kept; one foreign file, that lacks the one and has the other; 1 thread, since the steps of a call that has the mutex do not depend on the others |
| `ConfigStore` (49 000) | two threads, nobody else: `MutexHeld`, `ImplementsStore` | 2 threads, 2 settings, 2 values |
| `UdpServer` (41 000) | `ReceivedAsTaken`, `SocketIsDrained` | 2 clients, 2 datagrams of 0 to 2 bytes and a buffer of 1: empty, fitting, too large; one duplicate, queue of 2 |
| `Logger` (65 000) | `FilesAreAlike`, `GoodInitLogs` | 2 calls, 1 change of the configuration between any two reads; levels absent, valid, invalid, sizes negative and positive, two formats |
| `UIWindow` (222 000) | `NoLeak`, `DrawsLiveObjects`, `WindowShowsView`, `EachCommandOnce`, `CommandsAreDrawn` | 3 textures (one name is given out again), 2 render buffers, 1 geometry besides the engine's, 2 lists of up to 2 commands |
| `UIInput` (179 000) | keys and buttons held in any combination, the focus lost: `KeysAgree`, `MovesAgree` | 7 keys: both shifts, both alts, both enters, and one that shares its code with none; all three buttons and a fourth |

What holds only under some policy or without some fault is as informative as what
holds: `FramesInOrder`, `NoStaleOperation` and `SentWhereWritten` need an application that
waits for the `io_context` to run out of work, because `set_socket` does not keep
completions of the old connection away from the new one. `QueueIsDriven` says "unless a write
failed" because `async_write` never restarts. `PacketsAreSent` says "if from some time on
the peer of the connection reads" because nothing else ends a write that does not move.
`ServingOrAccepting` is checked without accept errors and filters that throw, after which
nobody accepts again. `OpenIsRead` is all that is asked of two read loops on one buffer:
frames may be lost there. `VanishedIsNoticed` excepts a
connection on which the kernel refused `SO_KEEPALIVE`; a refused timeout, count or
interval only leaves the kernel's default. `LoadedWasThere` does not say that the four
values were there together: the code reads them one by one, and nothing stops a
mixture. `UnreadIsBackedUp` says "unless renaming it failed" because the file is then removed.
`WritesOnlyWhatWasSet` compares with the file as the call found it: an edit that comes
later, before the save, is overwritten, and nothing in the code prevents it.
`RefreshedIsCurrent` has the sets that could not be saved over the file,
because a later call returns them. `KeysAgree` says "unless a key with the same code
was released since one was last pressed or repeated" because the view then thinks that code is up.

CHECK_DEADLOCK is off where the system may stop: an object is destroyed, a window
closed, all datagrams dealt with, all the bounded inputs used up.

**Fairness.** `TcpServer`, `TcpClient`: the `io_context` is run, so handlers are
dispatched, and an operation that can complete does; a connect ends one way or the
other. A write can complete while the peer reads, or when the connection is lost; the
peer need not read, and owes nothing, nor do application and losses. `KeepAliveServer` adds the kernel's timers:
a connection whose peer is gone and that has `SO_KEEPALIVE` is given up in the end.
Loading owes nothing, it may fail for ever. `Config`: the thread that holds
the mutex runs on; nothing is assumed about who gets the mutex next, because
`std::mutex` promises nothing, hence `CallsReturn` speaks of calls that have it.
`UdpServer`: the `io_context` is run and the operating system serves a receive; no
datagram has to arrive. `UIWindow`: the one thread runs, and the library's `Render` returns; it need not submit
anything.

## 4. The proofs

Every invariant that a run checks, every property of steps, and both refinements are
theorems of `Spec`, for all values of the constants that the named assumptions allow:
any number of connections, packets, frames, threads, settings, textures, keys. Some
theorems have hypotheses about the application or the faults; they are no stronger than
what the cfg of the run says, and are explained below. Liveness is model-checked only (4.8).

Each module of proofs has the same shape. First lemmas about the helpers: what they return
and which part of the state they leave alone. Then the inductive invariant, which is
never the property alone; one lemma for each action; and the theorems, which put `Init`
and the steps together with `PTL`.

### 4.1 TcpServerProofs

Assumed are `BoundsAssumption`, `PolicyAssumption`, `FaultsAssumption` and
`OutstandingAssumption`: bounds are natural numbers and the options are the ones listed.

`IInv == TypeOK /\ WriteFifo /\ OneWriteFromFront` gives `TypeCorrect`, `WritesInOrder`
and `WriteBufferAlive`. None of the three is inductive alone:

* `HandleWrite` pops the queue. That the queue is not empty then (its type), and that
  the packet reported as sent is the one popped (`WriteFifo`), needs `OneWriteFromFront`.
* `AsyncWrite` starts a write only on an empty queue. That no live write is there
  already is `OneWriteFromFront` read the other way round: a live write implies a front.
* A handler that pops and starts the next write needs that there was no other.

Most actions are *quiet*: they leave the queue, the history of packets and the live
writes alone, except for aborting some (`QuietKeeps`). Aborting has a lemma of its own
(`AbortKeeps`): closing never turns an operation into a live one.

On `IInv` rest, with nothing more than the property itself as induction hypothesis,

* `ReportedOnce` (`DisconnectedOnce`), `QueueDriven` (`QueueIsDriven`) and
  `ConnectionRead` (`OpenIsRead`), for every policy and all faults;
* `QueueIsChannel` (`ImplementsChannel`): a successful `HandleWrite` delivers the next
  packet because of `WriteFifo` and `OneWriteFromFront`, `AsyncWrite` submits one, and
  every other step is a stutter for the channel.

The others need more:

* `NeverDeaf` (`ServingOrAccepting`), if `AcceptPolicy = "callback"`, accepting does not
  fail and the filter does not throw. It adds that a completed accept has a connection (`AcceptedHasConn`).
* `NoneStale` (`NoStaleOperation`) and `SentOnItsConnection` (`SentWhereWritten`), if the
  application is `OneAtATime`: it accepts when nothing is left to run, or never, and
  writes to open connections only. `ConnInv` adds that a server that accepts does
  nothing else (`AcceptsAlone`), so that `set_socket` finds no operations of an earlier
  connection, and that whatever is queued behind a live write was written for the same
  connection (`WrittenForIt`).
* `StallForever` (`StallIsPermanent`), if queueing never throws. `StallInv` says that at most
  one write is under way, live or not, over a queue that is not empty, and none after a
  failure. With `"alloc"` this is false: a packet that could not be queued is
  written nevertheless, from an empty queue, and when that has failed the next
  `async_write` finds the queue empty and writes.
* `FramesWhole` (`FramesInOrder`), if the application is `OneAtATime` and the read buffer
  can grow. This is the longest argument. `FramesInv` ties three things together: what is
  unread on a connection runs on without a gap to the end of a frame (`Unbroken`); the one
  read under way stands at the place that the number of frames delivered tells, with the
  right part of the frame in the buffer (`ReadsAtFrames`, by the kind and the result of
  the operation); and a connection that is not installed has no frames (`NewAreUntouched`).

### 4.2 TcpClientProofs

`DisconnectHasCause` (`DisconnectIsCaused`) excludes one pair of faults at once, `"alloc"` with
`"idle_write"`: a client that writes before it is connected, and whose queue cannot grow,
is disconnected although nothing was submitted. `ClientInv`: connecting is one operation
and is answered once; before the application is told that it is connected nothing is
read, and nothing is written that it has not submitted.

### 4.3 KeepAliveProofs

`DataWasThere` (`LoadedWasThere`) holds for `SystemSpec`, the loader together with the server.
`LoadedWasThere` is not inductive: `FinishLoad` makes it true out of the locals. `LoadInv`
adds that each local holds what the setting was at some moment since loading began
(`ReadSoFar`), which `ChangeSettings` keeps because `held` only grows, and that the first
local is a truth value. `CastsCancel` is the arithmetic, from `WidthAssumption` alone. Every
step of the composition is a step of the loader or leaves it alone (`SystemStepLoads`).

### 4.4 ConfigProofs

For any settings, values, threads, template, edits and faults, from the assumptions of
`Document` and `Config` (a setting exists, `Absent` is not a value, `NoThread` is not a thread):

* `ConfigTypes`, `OneThreadInside` (`MutexHeld`): `LockInv`, with what a save is for.
* `TreeIsCurrent` (`RefreshedIsCurrent`), `FileHoldsTree` (`FileMatchesTree`), `UnreadIsKept`
  (`UnreadIsBackedUp`), `OnlyWhatWasSet` (`WritesOnlyWhatWasSet`). All four properties speak
  about one moment; `DocInv` says what holds at each of the others, step by step through
  `refresh`, `load` and `save`:
  * `TimesInv`: from when the file was found to be newer until its time is read, it
    still is, which makes `stat` sound;
  * `CurrentInv`: from when the tree is loaded until it is used, it is current, and
    saving keeps it so, which makes it the tree to be written;
  * `LoadInv`: nothing is unsaved while the file is loaded or replaced, and a file that is
    replaced counts as missing; `SpoiltInv`: a file that our save spoilt is there;
  * `MatchInv`: a file that is not newer than the time known is the tree, but for the
    unsaved, at all times except while it is written;
  * `UnreadInv`: a file that could not be loaded is in the `.bak` file, or was refused its
    new name, or is still in its place: then it is about to be renamed, or the process
    died and will find it again. It stops counting once another program replaces it.
  What the times show (`TimesInv`, and what is said of the file in `CurrentInv` and
  `MatchInv`) is said under `~blind` only.
* `CallsLinearizable` (`ImplementsStore`), if `Faults = {}`: nothing fails and no other
  program changes the file. With a change by another program, or after a set that failed
  but stays in the tree, callers see what no sequence of their calls explains; that is
  why the store is promised for this case only. `QuietInv` says that nothing is blind or
  spoilt then, at which steps the file is missing, and that otherwise it holds the tree.
  The mapping is `CurrentSettings` and `CurrentCalls`; a get takes effect when it reads the
  tree, a set when it changes it, and every other step is a stutter.

### 4.5 UdpServerProofs, LoggerProofs

`ReceivedIsTaken` (`ReceivedAsTaken`): there is one buffer for all datagrams. `BufferIsLast` says
why that is enough: while the callback has not run, the buffer is the last one taken and
no receive is under way that could replace it.

`AllFilesAlike` (`FilesAreAlike`): files are named by the static `locale`, which is made
once, with the first file (`FilesHaveLocale`). `GoodInitHasLogged` (`GoodInitLogs`) counts sinks: the
invariant relates the number of files and collectors to how far the current call of
`init` has come. Assumed is that no configured
format is 0, which stands for a locale that was not made yet.

### 4.6 UIWindowProofs

For any number of textures, render buffers, geometries, commands and lists
(`UIBoundsAssumption`). One invariant, `IInv`, serves four theorems:

* `CommandsInOrder` (`EachCommandOnce`), `CommandsFindTheirObjects` (`DrawsLiveObjects`): `ListInv` says that
  the list holds what is submitted and not drawn, that there is none before the library
  submits, and that each of its commands can be executed (`Executable`), which
  `LibraryDestroys` keeps because it spares what is named (`NamedByCommand`).
* `ViewIsShown` (`WindowShowsView`): `TargetInv`, the engine's texture is the target and the
  target is alive.
* `NothingLeaks` (`NoLeak`): `TexturesInv`, `BuffersInv`, `FramebuffersInv`, `ArraysInv` say that the
  names the driver remembers and those that OpenGL has correspond one to one, and no two
  ids share one. It needs `IdsInv` (ids are never reused) and that the names in use are
  finite, since otherwise there need not be a fresh one. The numbers in `NoLeak` follow from
  the bijections.

What is assumed of the library is in the guards of its actions (section 2), and the
theorems are as good as that assumption.

### 4.7 UIInputProofs

`KeysToldAreHeld` (`KeysAgree`) and `MovesNameHeld` (`MovesAgree`) hold for any set of keys and
buttons. That a key is down for the view needs to be known of the keys that are not
`masked` only; a release masks all keys of its code that are still held, and a press
or a repetition unmasks them. `KeysInv` adds that only keys of the keyboard are held; `MovesInv` that the
view knows which of the three buttons are held (`ButtonsAgree`).

### 4.8 What is model-checked only

Liveness: `LossIsNoticed`, `FramesArrive`, `PacketsAreSent`, `VanishedIsNoticed`, `ConnectIsAnswered`,
`LossIsReported`, `CallsReturn`, `SocketIsDrained`, `CommandsAreDrawn`. Proofs under fairness need
`ENABLED`, which the prover does not support.

The bounds are part of the actions (a packet is handed over while there are fewer than
`MaxPackets`); a theorem holds for every value of them, hence for every finite
behaviour of an unbounded system. The least unused ticket and the least free
name are choices of the model; the proofs use only that the ticket is a ticket, and that
the name is free.

## 5. What is left out, and why

* TCP: `set_keep_alive` of a client, which is the same code as the server's, called
  once it is connected; setting callbacks, which has to happen before the `io_context` is run; the partial reads and writes
  inside asio's composed operations; handlers that run after the object is
  destroyed; several threads in one `io_context`, which the classes are not made for.
* UDP: an exception that leaves the callback ends the process, since
  `handle_receive_from` is `noexcept`; `UdpClient` adds nothing to `UdpSocket`.
* Settings: the syntax of XML, and values as numbers or truth values.
* Log: the layout of records, names of files, two threads in `init` at once.
* UI: contents of textures and geometries, shaders, multisampling (`Engine` switches
  it off), bitmaps of the offscreen mode (nobody sets one), coordinates of the mouse and
  the amount of scrolling,
  views and loader (they forward to the library). Destruction: whether its order does
  harm depends on which calls Ultralight makes from its destructors, and nothing in
  `src/` shows that.
* The Windows folder query, the application's `main`, macros and interfaces.

## 6. Plan

Done: TCP with keep-alive, settings with all their faults, UDP, log, driver, window,
keyboard and mouse; theorems for all that is not liveness. What is left, in this order:

1. Weaker hypotheses. What remains of `SentWhereWritten` and `FramesInOrder` under the
   other policies, for instance that bytes of two connections never make up one frame as
   long as no read of the old one is under way; what the settings promise callers
   while other programs edit the file (each get returns what the file stood for
   at some moment during the call, from `TreeIsCurrent`).
2. The client's counterparts of the server's theorems (`WriteFifo`, `OneWriteFromFront`,
   `QueueIsDriven`), from the same lemmas on `TcpSocket`, which would have to move into a
   module that both proofs extend.
3. The options of `KeepAliveServer` in the kernel as an invariant: what is set on a
   socket is what was loaded, or is refused.
