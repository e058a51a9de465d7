----------------------------- MODULE TcpSocket -----------------------------
(* The base class ipc_network::tcp::TcpSocket: one boost::asio socket, the  *)
(* read loop that cuts the byte stream into frames (header, then body), the *)
(* write queue, and close().  TcpServer and TcpClient extend this module    *)
(* the way the classes derive from TcpSocket; like the class, which has a   *)
(* protected constructor, the module has no Init and no Next of its own.    *)
(*                                                                          *)
(* The class has neither mutex nor strand, so its handlers and the calls of *)
(* the application are executed one at a time (one thread runs the          *)
(* io_context).  Each handler is one action, with the callbacks it makes.   *)
(* What asio and the network do in between - an operation completes, with   *)
(* success or with an error - is a separate action: a completed operation   *)
(* waits in the io_context until its handler is dispatched, and the socket  *)
(* may be closed or replaced while it waits.  Handlers may be dispatched in *)
(* any order.                                                               *)
EXTENDS Naturals, Sequences

CONSTANTS
  MaxConn,      \* connections are 1..MaxConn; 0 stands for "no open socket"
  MaxPackets,   \* bound: packets the application writes
  MaxFrames,    \* bound: frames the peer sends on one connection
  MaxTickets,   \* bound: names of operations outstanding at the same time
  AcceptPolicy, \* when the application of a server calls async_accept again
  Faults        \* the misfortunes that may happen

ASSUME BoundsAssumption ==
  {MaxConn, MaxPackets, MaxFrames, MaxTickets} \subseteq Nat

ASSUME PolicyAssumption ==
  AcceptPolicy \in {"never",     \* a client, or a server used once
                    "callback",  \* from the disconnect callback only
                    "drained",   \* once the io_context ran out of work
                    "any"}       \* whenever it likes

ASSUME FaultsAssumption ==
  Faults \subseteq {"alloc",      \* growing the write queue throws
                    "grow",       \* growing the read buffer throws
                    "initiate",   \* starting an asynchronous operation throws
                    "throw",      \* the read or connect callback throws
                    "app_close",  \* the application calls close()
                    "idle_write", \* it calls async_write while disconnected
                    "accept",     \* accepting a connection fails
                    "filter",     \* the filter of a server throws
                    "loss",       \* a connection is reset or times out
                    "stuck"}      \* a peer stops reading, for a while or for ever

VARIABLES
  alive,        \* the object is not destroyed yet
  socket,       \* _socket: the connection it holds, 0 when it is not open
  ops,          \* asynchronous operations started and not yet dispatched
  writePackets, \* _write_packets: the numbers of the queued packets
  readPacket,   \* _read_packet: the units (header, body) in the buffer
  link,         \* network: state of each connection
  frames,       \* network: sizes of the frames the peer sent, by connection
  unread,       \* network: units received and not yet read, by connection
  disconnects,  \* history: calls of _disconnect_callback
  submitted,    \* history: for each packet, _socket when it was written
  sent,         \* history: packets written to the wire, and on what
  delivered,    \* history: packets given to _read_callback, by connection
  writeFailed,  \* history: some write failed
  reading       \* history: the read loop runs: it was started, and no exception
                \* of a callback or of asio broke it off

sockVars  == <<socket, ops, disconnects>>
writeVars == <<writePackets, submitted, sent, writeFailed>>
readVars  == <<readPacket, delivered, reading>>
netVars   == <<link, frames, unread>>
vars      == <<alive, sockVars, writeVars, readVars, netVars>>

Conn    == 1..MaxConn
Packet  == 1..MaxPackets
Size    == {0, 1}        \* a frame's body: none, or one unit
Kinds   == {"header", "data", "write", "accept", "connect"}
Results == {"pending", "ok", "error"}
Tickets == 0..MaxTickets

\* A frame is a header, which tells the size of the body, and the body.
Unit == [frame : 0..MaxFrames, part : {"header", "body"}, size : Size]
Header(f, s) == [frame |-> f, part |-> "header", size |-> s]
Body(f)      == [frame |-> f, part |-> "body", size |-> 1]
Frame(f, s)  == IF s = 0 THEN <<Header(f, s)>> ELSE <<Header(f, s), Body(f)>>
NoUnit       == [frame |-> 0, part |-> "body", size |-> 0]  \* zeroed bytes

\* at: the place in _read_packet that a read was told to fill; 0 when that memory
\* is no longer the buffer's, and for operations that read nothing.
Operation == [kind : Kinds, conn : Conn \cup {0}, res : Results,
              pkt : Packet \cup {0}, ticket : Tickets, at : Nat]

Links   == {"none",  \* not established yet
            "up",
            "full",  \* up, but the peer does not read and the kernel's buffers
                     \* are full: what is written waits
            "lost"}  \* reset, closed by the peer or timed out

-----------------------------------------------------------------------------
(* Asynchronous operations.                                                 *)

\* A name for the operations a step starts: the least one not in use.  The
\* operations of one step differ in kind, so they may share it.
FreshTicket ==
  LET used == {o.ticket : o \in ops}
  IN  {t \in Tickets \ used : \A s \in Tickets \ used : t <= s}

\* Where a read started now puts what it gets: a header at the buffer's start, a
\* body behind what the buffer holds.
PlaceOf(kind) ==
  CASE kind = "header" -> 1
    [] kind = "data"   -> Len(readPacket) + 1
    [] OTHER           -> 0

\* An operation started on a socket that is not open, or not connected yet,
\* completes at once, with an error.
OpOn(kind, c, p, t) ==
  [kind |-> kind, conn |-> c, pkt |-> p, ticket |-> t, at |-> PlaceOf(kind),
   res |-> IF c \in Conn /\ link[c] # "none" THEN "pending" ELSE "error"]

AcceptOp(t) ==
  [kind |-> "accept", conn |-> 0, pkt |-> 0, ticket |-> t, at |-> 0, res |-> "pending"]

\* Closing a connection aborts what is pending on it.  What has completed
\* already keeps its result.
Abort(rest, c) ==
  {IF o.conn = c /\ o.res = "pending" THEN [o EXCEPT !.res = "error"] ELSE o :
     o \in rest}

IsRead(o) == o.kind \in {"header", "data"}

-----------------------------------------------------------------------------
(* close() and the disconnect callback.                                     *)

\* Mutant: close() itself accepts the next connection.
DisconnectCallbackAccepts(t) == {AcceptOp(t)}

\* What the application's disconnect callback starts.
DisconnectCallback(t) ==
  IF AcceptPolicy = "callback" THEN {AcceptOp(t)} ELSE {}

\* Mutant: close() does not ask whether the socket is open.
CloseThenAlways(rest, started, t) ==
  /\ socket' = 0
  /\ ops' = Abort(rest, socket) \cup DisconnectCallback(t) \cup started
  /\ disconnects' = disconnects + 1

\* close(), by a handler that leaves the operations `rest` and then starts the
\* operations `started`; it does nothing when the socket is not open.
CloseThen(rest, started, t) ==
  /\ socket' = 0
  /\ IF socket = 0
     THEN /\ ops' = rest \cup started
          /\ UNCHANGED disconnects
     ELSE /\ ops' = Abort(rest, socket) \cup DisconnectCallback(t) \cup started
          /\ disconnects' = disconnects + 1

\* The application calls close().
Close ==
  /\ alive /\ "app_close" \in Faults
  /\ socket # 0
  /\ \E t \in FreshTicket : CloseThen(ops, {}, t)
  /\ UNCHANGED <<alive, writeVars, readVars, netVars>>

\* ~TcpSocket: the callbacks are dropped first, then the socket is closed.
\* The io_context must not be run afterwards: its handlers refer to the object.
Destroy ==
  /\ alive
  /\ alive' = FALSE
  /\ socket' = 0
  /\ ops' = IF socket = 0 THEN ops ELSE Abort(ops, socket)
  /\ UNCHANGED <<disconnects, writeVars, readVars, netVars>>

-----------------------------------------------------------------------------
(* The read loop.                                                           *)

\* Mutant: what is new in the buffer is whatever the memory held.
ResizeUninitialised(n) ==
  [i \in 1..n |-> IF i <= Len(readPacket) THEN readPacket[i]
                  ELSE [NoUnit EXCEPT !.frame = MaxFrames + 1]]

\* _read_packet.resize: what is kept is kept as it is.
Resize(n) == [i \in 1..n |-> IF i <= Len(readPacket) THEN readPacket[i] ELSE NoUnit]

\* Growing the buffer may move it to other memory.  A read that is under way - of
\* another read loop - then fills memory that was freed.  That is undefined; here
\* its bytes are lost, and the memory is nobody else's.
Grown(rest) ==
  {rest, {IF IsRead(o) /\ o.res = "pending" THEN [o EXCEPT !.at = 0] ELSE o : o \in rest}}

\* async_read_header on connection c, after the operations `rest`.
AsyncReadHeader(rest, c, t) ==
  /\ readPacket' = Resize(1)
  /\ \/ /\ ops' = rest \cup {OpOn("header", c, 0, t)}
        /\ UNCHANGED reading
     \/ /\ "initiate" \in Faults
        /\ ops' = rest
        /\ reading' = FALSE

\* Mutant: the loop is not started.
StartReadingNever(rest, c, t) ==
  /\ readPacket' = Resize(1)
  /\ ops' = rest
  /\ reading' = TRUE

\* Mutant: what is left in the queue is written on the new connection.
StartReadingFlushes(rest, c, t) ==
  /\ readPacket' = Resize(1)
  /\ ops' = rest \cup {OpOn("header", c, 0, t)} \cup
             (IF writePackets = <<>> THEN {} ELSE {OpOn("write", c, Head(writePackets), t)})
  /\ reading' = TRUE

\* The first async_read_header of a connection.
StartReading(rest, c, t) ==
  /\ readPacket' = Resize(1)
  /\ \/ /\ ops' = rest \cup {OpOn("header", c, 0, t)}
        /\ reading' = TRUE
     \/ /\ "initiate" \in Faults
        /\ ops' = rest
        /\ reading' = FALSE

\* Mutant: the buffer is not resized.
AsyncReadDataUnsized(rest, t) ==
  /\ ops' = rest \cup {OpOn("data", socket, 0, t)}
  /\ UNCHANGED <<readPacket, reading>>

\* Mutant: when the buffer cannot grow, nothing is read any more.
AsyncReadDataGivesUp(rest, t) ==
  \/ /\ readPacket' = Resize(Len(readPacket) + 1)
     /\ \E others \in Grown(rest) : ops' = others \cup {OpOn("data", socket, 0, t)}
     /\ UNCHANGED reading
  \/ /\ "grow" \in Faults
     /\ ops' = rest
     /\ UNCHANGED <<readPacket, reading>>

\* async_read_data: the body is read behind what the buffer holds - the header,
\* and whatever another read loop on the same buffer has put there.  When the
\* buffer cannot grow, the next header is read although the body of this frame
\* is still in the stream.
AsyncReadData(rest, t) ==
  \/ /\ readPacket' = Resize(Len(readPacket) + 1)
     /\ \E others \in Grown(rest) :
          \/ /\ ops' = others \cup {OpOn("data", socket, 0, t)}
             /\ UNCHANGED reading
          \/ /\ "initiate" \in Faults
             /\ ops' = others
             /\ reading' = FALSE
  \/ /\ "grow" \in Faults
     /\ AsyncReadHeader(rest, socket, t)

\* The read callback is given the buffer; then the next header is read, unless
\* the callback threw.
Deliver(o, rest, t) ==
  /\ delivered' = [delivered EXCEPT ![o.conn] = Append(@, readPacket)]
  /\ \/ /\ AsyncReadHeader(rest, socket, t)
        /\ UNCHANGED <<socket, disconnects>>
     \/ /\ "throw" \in Faults
        /\ ops' = rest
        /\ reading' = FALSE
        /\ UNCHANGED <<socket, disconnects, readPacket>>
     \/ /\ "app_close" \in Faults
        /\ CloseThen(rest, {OpOn("header", 0, 0, t)}, t)
        /\ readPacket' = Resize(1)
        /\ UNCHANGED reading

\* header->get_size(): what the header in the buffer says.  The bytes are
\* arbitrary when they are a body, when the header went to memory that is no
\* longer the buffer's, or when another read uses the same buffer.
HeaderSizes(o) ==
  IF readPacket[1].part = "header" /\ o.at = 1 /\ ~\E r \in ops \ {o} : IsRead(r)
  THEN {readPacket[1].size}
  ELSE Size

HandleReadHeader(o) ==
  /\ alive /\ o \in ops /\ o.kind = "header"
  /\ \E t \in FreshTicket :
       \/ /\ o.res = "error"
          /\ CloseThen(ops \ {o}, {}, t)
          /\ UNCHANGED readVars
       \/ /\ o.res = "ok"
          /\ \E size \in HeaderSizes(o) :
               \/ /\ size > 0
                  /\ AsyncReadData(ops \ {o}, t)
                  /\ UNCHANGED <<socket, disconnects, delivered>>
               \/ /\ size = 0
                  /\ Deliver(o, ops \ {o}, t)
  /\ UNCHANGED <<alive, writeVars, netVars>>

\* The length check compares the operation with the buffer as it is now.
HandleReadData(o) ==
  /\ alive /\ o \in ops /\ o.kind = "data"
  /\ \E t \in FreshTicket :
       \/ /\ o.res = "error"
          /\ CloseThen(ops \ {o}, {}, t)
          /\ UNCHANGED readVars
       \/ /\ o.res = "ok"
          /\ Len(readPacket) - 1 # 1
          /\ AsyncReadHeader(ops \ {o}, socket, t)
          /\ UNCHANGED <<socket, disconnects, delivered>>
       \/ /\ o.res = "ok"
          /\ Len(readPacket) - 1 = 1
          /\ Deliver(o, ops \ {o}, t)
  /\ UNCHANGED <<alive, writeVars, netVars>>

-----------------------------------------------------------------------------
(* The write queue.                                                         *)

\* Mutant: the queue is asked after the packet was put in.
WriteInProgressLate == TRUE

\* Mutant: the queue is not asked.
WriteInProgressNever == FALSE

\* write_in_progress: the queue was not empty.
WriteInProgress == writePackets # <<>>

\* Mutant: push_front.
PushedInFront(p) == <<p>> \o writePackets

\* _write_packets after push_back, and after pop_front.
Pushed(p) == Append(writePackets, p)

\* Mutant: what was written stays in the queue.
PoppedNot == writePackets

Popped == Tail(writePackets)

\* async_write.  The packet is queued; a write is started only when the queue
\* was empty.  When queueing throws, the socket is closed, and the front of a
\* queue that may be empty is written all the same (packet 0: no packet).
AsyncWrite ==
  /\ alive
  /\ socket # 0 \/ "idle_write" \in Faults
  /\ Len(submitted) < MaxPackets
  /\ \E t \in FreshTicket :
       LET p == Len(submitted) + 1
       IN  \/ /\ writePackets' = Pushed(p)
              /\ submitted' = Append(submitted, socket)
              /\ \/ /\ ops' = IF WriteInProgress THEN ops
                              ELSE ops \cup {OpOn("write", socket, p, t)}
                    /\ UNCHANGED writeFailed
                 \/ /\ "initiate" \in Faults /\ ~WriteInProgress
                    /\ writeFailed' = TRUE
                    /\ UNCHANGED ops
              /\ UNCHANGED <<socket, disconnects>>
           \/ /\ "alloc" \in Faults
              /\ CloseThen(ops, IF WriteInProgress THEN {}
                                ELSE {OpOn("write", 0, 0, t)}, t)
              /\ UNCHANGED <<writePackets, submitted, writeFailed>>
  /\ UNCHANGED <<alive, sent, readVars, netVars>>

HandleWrite(o) ==
  /\ alive /\ o \in ops /\ o.kind = "write"
  /\ \E t \in FreshTicket :
       \/ /\ o.res = "ok"
          /\ writePackets' = Popped
          /\ sent' = Append(sent, [id |-> o.pkt, via |-> o.conn])
          /\ \/ /\ ops' = IF Len(writePackets) = 1 THEN ops \ {o}
                          ELSE (ops \ {o}) \cup
                               {OpOn("write", socket, writePackets[2], t)}
                /\ UNCHANGED writeFailed
             \/ /\ "initiate" \in Faults /\ Len(writePackets) > 1
                /\ ops' = ops \ {o}
                /\ writeFailed' = TRUE
          /\ UNCHANGED <<socket, disconnects>>
       \/ /\ o.res = "error"
          /\ CloseThen(ops \ {o}, {}, t)
          /\ writeFailed' = TRUE
          /\ UNCHANGED <<writePackets, sent>>
  /\ UNCHANGED <<alive, submitted, readVars, netVars>>

-----------------------------------------------------------------------------
(* The network: the peer's frames, losses, and completions of operations.   *)

Established(c) == link[c] \in {"up", "full"}

\* Frames and losses matter only on the connection the socket holds.
PeerSends(c, s) ==
  /\ socket = c /\ Established(c)
  /\ Len(frames[c]) < MaxFrames
  /\ frames' = [frames EXCEPT ![c] = Append(@, s)]
  /\ unread' = [unread EXCEPT ![c] = @ \o Frame(Len(frames[c]) + 1, s)]
  /\ UNCHANGED <<alive, sockVars, writeVars, readVars, link>>

\* The peer closes or resets the connection, or keep-alive gives it up.
ConnectionLost(c) ==
  /\ "loss" \in Faults
  /\ socket = c /\ Established(c)
  /\ link' = [link EXCEPT ![c] = "lost"]
  /\ UNCHANGED <<alive, sockVars, writeVars, readVars, frames, unread>>

\* The peer stops reading until the buffers are full, and may go on later.
PeerStopsReading(c) ==
  /\ "stuck" \in Faults
  /\ socket = c /\ link[c] = "up"
  /\ link' = [link EXCEPT ![c] = "full"]
  /\ UNCHANGED <<alive, sockVars, writeVars, readVars, frames, unread>>

PeerReadsOn(c) ==
  /\ socket = c /\ link[c] = "full"
  /\ link' = [link EXCEPT ![c] = "up"]
  /\ UNCHANGED <<alive, sockVars, writeVars, readVars, frames, unread>>

Complete(o, res) == ops' = (ops \ {o}) \cup {[o EXCEPT !.res = res]}

\* A read puts the next unit of the stream where it was told to, which is in the
\* buffer unless that was made smaller, or moved, since.
CompleteRead(o) ==
  /\ o \in ops /\ IsRead(o) /\ o.res = "pending" /\ o.conn \in Conn
  /\ \/ /\ unread[o.conn] # <<>>
        /\ readPacket' = [i \in DOMAIN readPacket |->
                            IF i = o.at THEN Head(unread[o.conn]) ELSE readPacket[i]]
        /\ unread' = [unread EXCEPT ![o.conn] = Tail(@)]
        /\ Complete(o, "ok")
     \/ /\ link[o.conn] = "lost"
        /\ Complete(o, "error")
        /\ UNCHANGED <<readPacket, unread>>
  /\ UNCHANGED <<alive, socket, disconnects, writeVars, delivered, reading,
                 link, frames>>

\* A write succeeds when the kernel takes the bytes, on a lost connection too; it
\* waits, for as long as that may be, for a peer that does not read.
CompleteWrite(o) ==
  /\ o \in ops /\ o.kind = "write" /\ o.res = "pending"
  /\ \/ link[o.conn] # "full" /\ Complete(o, "ok")
     \/ link[o.conn] = "lost" /\ Complete(o, "error")
  /\ UNCHANGED <<alive, socket, disconnects, writeVars, readVars, netVars>>

\* What happens on the wire after the object is gone is of no interest.
Network ==
  /\ alive
  /\ \/ \E c \in Conn : \/ ConnectionLost(c) \/ PeerStopsReading(c) \/ PeerReadsOn(c)
                        \/ \E s \in Size : PeerSends(c, s)
     \/ \E o \in ops : CompleteRead(o) \/ CompleteWrite(o)

Handlers == \E o \in ops : HandleReadHeader(o) \/ HandleReadData(o) \/ HandleWrite(o)

SocketInit ==
  /\ alive = TRUE
  /\ writePackets = <<>> /\ submitted = <<>> /\ sent = <<>> /\ writeFailed = FALSE
  /\ readPacket = <<>> /\ reading = FALSE
  /\ delivered = [c \in Conn |-> <<>>]
  /\ link = [c \in Conn |-> "none"]
  /\ frames = [c \in Conn |-> <<>>] /\ unread = [c \in Conn |-> <<>>]
  /\ disconnects = 0

-----------------------------------------------------------------------------
(* What both a server and a client promise.                                 *)

\* Every variable keeps its type.
SocketTypeOK ==
  /\ alive \in BOOLEAN
  /\ socket \in Conn \cup {0}
  /\ ops \subseteq Operation
  /\ writePackets \in Seq(Packet)
  /\ readPacket \in Seq(Unit)
  /\ link \in [Conn -> Links]
  /\ frames \in [Conn -> Seq(Size)]
  /\ unread \in [Conn -> Seq(Unit)]
  /\ disconnects \in Nat
  /\ submitted \in Seq(Conn \cup {0})
  /\ sent \in Seq([id : Packet \cup {0}, via : Conn \cup {0}])
  /\ delivered \in [Conn -> Seq(Seq(Unit))]
  /\ writeFailed \in BOOLEAN /\ reading \in BOOLEAN

\* Packets reach the wire in the order of the async_write calls, each once,
\* and none is dropped: what was not written yet is still queued - across
\* closed and replaced connections, late completions and failures.
WriteFifo ==
  /\ Len(sent) + Len(writePackets) = Len(submitted)
  /\ \A i \in 1..Len(sent) : sent[i].id = i
  /\ \A i \in 1..Len(writePackets) : writePackets[i] = Len(sent) + i

LiveWrites == {o \in ops : o.kind = "write" /\ o.res # "error"}

\* boost::asio::async_write is given the memory of the front of the queue: while
\* such a write is under way that string stays in the queue, at its front, and
\* no second write on the socket interleaves its bytes.
OneWriteFromFront ==
  \A o \in LiveWrites :
    /\ writePackets # <<>> /\ o.pkt = Head(writePackets)
    /\ \A p \in LiveWrites : p = o

\* A non-empty queue is being written, unless a write failed before: nothing
\* but the completion of a write starts the next one.
QueueIsDriven ==
  alive /\ writePackets # <<>> /\ ~writeFailed => \E o \in ops : o.kind = "write"

\* An open connection is always being read (this is also how the end of the
\* connection is noticed), unless a callback threw.
OpenIsRead ==
  alive /\ socket # 0 /\ reading => \E o \in ops : IsRead(o) /\ o.conn = socket

\* No operation outlives its connection into the next one: a handler that closes
\* the socket on an error closes the connection the error is about.
NoStaleOperation ==
  socket # 0 => \A o \in ops : o.kind # "accept" => o.conn = socket

\* The read callback gets the frames the peer sent on the connection: whole, in
\* order, none skipped and none twice.
FramesInOrder ==
  \A c \in Conn :
    /\ Len(delivered[c]) <= Len(frames[c])
    /\ \A i \in 1..Len(delivered[c]) : delivered[c][i] = Frame(i, frames[c][i])

\* A packet goes out on the connection it was written for, or not at all.
SentWhereWritten == \A i \in 1..Len(sent) : submitted[sent[i].id] = sent[i].via

=============================================================================
