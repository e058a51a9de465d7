--------------------------- MODULE KeepAliveServer ---------------------------
(* A TcpServer together with the keep-alive data it is constructed with.     *)
(* The handler of an accepted connection sets the socket's keep-alive        *)
(* options, and the kernel then finds out about a peer that went away        *)
(* without a word - if nobody writes, the only way for the server to know.   *)
EXTENDS TcpServer, KeepAlive

CONSTANTS
  MaxOption,    \* the largest value the kernel accepts for an option
  Unsupported   \* options, by their number, that the kernel may refuse

ASSUME MaxOptionAssumption == MaxOption \in 1 .. Half - 1
ASSUME UnsupportedAssumption == Unsupported \subseteq 1..4

VARIABLES
  options,  \* keep-alive options of the socket held; 0 is the kernel's default
  refused,  \* history: keep-alive could not be switched on for the socket held
  vanished  \* network: connections whose peer is gone, with no sign of it

optionVars == <<options, refused, vanished>>
systemVars == <<serverVars, loadVars, optionVars>>

NoOptions == <<0, 0, 0, 0>>

\* SO_KEEPALIVE, TCP_KEEPIDLE, TCP_KEEPCNT, TCP_KEEPINTVL, in the order in which
\* they are set.
Wanted == <<1, data.timeout, data.count, data.intverval>>

SystemInit ==
  /\ Init /\ LoadInit
  /\ options = NoOptions /\ refused = FALSE /\ vanished = {}

-----------------------------------------------------------------------------
(* The application loads the data, as often as it likes, and constructs the  *)
(* server, which copies it.                                                  *)

Load == LoadNext /\ UNCHANGED <<serverVars, optionVars>>

Built == loading = "taken"

-----------------------------------------------------------------------------
(* The server.                                                               *)

\* Mutant: the options are set before the socket is replaced.
SetKeepAliveEarly(c) == options' = NoOptions /\ refused' = FALSE

Acceptable(n) == n = 1 \/ Signed(Wanted[n]) \in 1..MaxOption

\* set_keep_alive on the new socket: the options are set one after another until
\* one is refused; that is logged, and the connection is served all the same.
SetKeepAlive(c) ==
  IF ~data.enabled
  THEN options' = NoOptions /\ refused' = FALSE
  ELSE \E n \in 0..4 :
         /\ c = 0 => n = 0
         /\ \A i \in 1..n : Acceptable(i)
         /\ n < 4 => c = 0 \/ ~Acceptable(n + 1) \/ n + 1 \in Unsupported
         /\ options' = [i \in 1..4 |-> IF i <= n THEN Wanted[i] ELSE 0]
         /\ refused' = (n = 0)

AcceptConnection(o) ==
  /\ HandleAccept(o)
  /\ SetKeepAlive(o.conn)
  /\ UNCHANGED vanished

\* All other steps of the server; a closed socket has no options, and nothing
\* comes from a peer that is gone.
ServerStep ==
  /\ \/ \E o \in ops : CompleteAccept(o) \/ RejectConnection(o) \/ FilterThrows(o)
     \/ AsyncAccept
     \/ (Close \/ Destroy \/ AsyncWrite \/ Network \/ Handlers) /\ UNCHANGED acceptVars
  /\ socket \in vanished =>
       /\ frames' = frames
       /\ link[socket] = "full" => link'[socket] # "up"
  /\ options' = IF socket' = 0 THEN NoOptions ELSE options
  /\ refused' = (refused /\ socket' # 0)
  /\ UNCHANGED vanished

\* The peer loses power or its network: nothing is sent any more, not even an end.
Vanish ==
  /\ alive /\ socket # 0 /\ Established(socket) /\ socket \notin vanished
  /\ vanished' = vanished \cup {socket}
  /\ UNCHANGED <<serverVars, options, refused>>

\* The kernel's probes, or what it has to send, go unanswered: it gives the
\* connection up.
Probe ==
  /\ alive /\ socket \in vanished /\ options[1] = 1 /\ Established(socket)
  /\ link' = [link EXCEPT ![socket] = "lost"]
  /\ UNCHANGED <<alive, sockVars, writeVars, readVars, frames, unread, acceptVars, optionVars>>

Serve ==
  /\ Built
  /\ (\E o \in ops : AcceptConnection(o)) \/ ServerStep \/ Vanish \/ Probe
  /\ UNCHANGED loadVars

SystemNext == Load \/ Serve

\* Besides what TcpServer assumes, the kernel's timers run.
SystemSpec ==
  /\ SystemInit /\ [][SystemNext]_systemVars
  /\ Fairness
  /\ WF_systemVars(Built /\ Probe /\ UNCHANGED loadVars)

-----------------------------------------------------------------------------
\* With keep-alive enabled, a peer that vanishes is noticed and its connection
\* closed, on each connection the server serves - unless the kernel refused to
\* switch keep-alive on.  A bad timeout, count or interval does not matter.
VanishedIsNoticed ==
  \A c \in Conn :
    (alive /\ socket = c /\ c \in vanished /\ data.enabled /\ ~refused)
      ~> (~alive \/ socket # c)

=============================================================================
