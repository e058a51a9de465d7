----------------------------- MODULE TcpServer -----------------------------
(* ipc_network::tcp::TcpServer: a TcpSocket that gets its connection from   *)
(* an acceptor.  The constructor starts the first async_accept; the server  *)
(* accepts again by itself only when the filter rejects a connection.       *)
(* Whether and when it accepts after it has served one is up to the         *)
(* application (AcceptPolicy): nothing in this class calls async_accept     *)
(* then.  Accepting a second connection while one is open closes the first. *)
EXTENDS TcpSocket, FiniteSets

CONSTANT MaxOutstanding  \* bound: operations outstanding when the application
                         \* calls async_accept "whenever it likes"

ASSUME OutstandingAssumption == MaxOutstanding \in Nat

VARIABLES
  arrived,    \* network: connections that clients have made so far
  installed   \* history: connections that set_socket took over

acceptVars == <<arrived, installed>>
serverVars == <<vars, acceptVars>>

Accepts == {o \in ops : o.kind = "accept"}

\* The constructor: no connection yet, one async_accept outstanding.
Init ==
  /\ SocketInit
  /\ socket = 0
  /\ ops = {AcceptOp(0)}
  /\ arrived = 0 /\ installed = 0

\* A client connects, or the acceptor reports an error.
CompleteAccept(o) ==
  /\ alive /\ o \in Accepts /\ o.res = "pending"
  /\ \/ /\ arrived < MaxConn
        /\ arrived' = arrived + 1
        /\ link' = [link EXCEPT ![arrived + 1] = "up"]
        /\ ops' = (ops \ {o}) \cup {[o EXCEPT !.res = "ok", !.conn = arrived + 1]}
     \/ /\ "accept" \in Faults
        /\ Complete(o, "error")
        /\ UNCHANGED <<arrived, link>>
  /\ UNCHANGED <<alive, socket, disconnects, writeVars, readVars, frames, unread,
                 installed>>

\* Mutant: the next connection is not awaited.
RejectConnectionOnly(o) ==
  /\ alive /\ o \in Accepts /\ o.res # "pending"
  /\ ops' = ops \ {o}
  /\ UNCHANGED <<alive, socket, disconnects, writeVars, readVars, netVars, acceptVars>>

\* The filter turns the connection down: it is closed and the next one awaited.
RejectConnection(o) ==
  /\ alive /\ o \in Accepts /\ o.res # "pending"
  /\ \E t \in FreshTicket : ops' = (ops \ {o}) \cup {AcceptOp(t)}
  /\ UNCHANGED <<alive, socket, disconnects, writeVars, readVars, netVars, acceptVars>>

\* A filter that throws: the exception leaves the handler, and io_context::run with
\* it.  The connection is closed, nobody accepts the next one; the application
\* runs the io_context again.
FilterThrows(o) ==
  /\ alive /\ "filter" \in Faults
  /\ o \in Accepts /\ o.res # "pending"
  /\ ops' = ops \ {o}
  /\ UNCHANGED <<alive, socket, disconnects, writeVars, readVars, netVars, acceptVars>>

\* set_socket closes the connection held so far and takes the new one, whose
\* first header is read.  An error of the acceptor is logged and otherwise
\* treated alike: the "new connection" is then a socket that is not open.
HandleAccept(o) ==
  /\ alive /\ o \in Accepts /\ o.res # "pending"
  /\ \E t \in FreshTicket :
       LET rest == IF socket = 0 THEN ops \ {o}
                   ELSE Abort(ops \ {o}, socket) \cup DisconnectCallback(t)
       IN  /\ socket' = o.conn
           /\ disconnects' = IF socket = 0 THEN disconnects ELSE disconnects + 1
           /\ installed' = IF o.conn = 0 THEN installed ELSE installed + 1
           /\ StartReading(rest, o.conn, t)
  /\ UNCHANGED <<alive, writeVars, delivered, netVars, arrived>>

\* The application calls async_accept (besides from its disconnect callback).
AsyncAccept ==
  /\ alive
  /\ \/ AcceptPolicy = "drained" /\ socket = 0 /\ ops = {}
     \/ AcceptPolicy = "any" /\ Cardinality(ops) < MaxOutstanding
  /\ \E t \in FreshTicket : ops' = ops \cup {AcceptOp(t)}
  /\ UNCHANGED <<alive, socket, disconnects, writeVars, readVars, netVars, acceptVars>>

Next ==
  \/ \E o \in ops : \/ CompleteAccept(o) \/ RejectConnection(o) \/ FilterThrows(o)
                    \/ HandleAccept(o)
  \/ AsyncAccept
  \/ (Close \/ Destroy \/ AsyncWrite \/ Network \/ Handlers) /\ UNCHANGED acceptVars

Spec == Init /\ [][Next]_serverVars

\* The io_context is run: what has completed is dispatched, and an operation
\* that can complete does so - a write cannot as long as the peer does not read.
\* The peer, the application and the losses are under no obligation.
Fairness ==
  /\ WF_serverVars(alive /\ (\E o \in ops : CompleteRead(o)) /\ UNCHANGED acceptVars)
  /\ WF_serverVars(alive /\ (\E o \in ops : CompleteWrite(o)) /\ UNCHANGED acceptVars)
  /\ WF_serverVars((\E o \in ops : HandleReadHeader(o)) /\ UNCHANGED acceptVars)
  /\ WF_serverVars((\E o \in ops : HandleReadData(o)) /\ UNCHANGED acceptVars)
  /\ WF_serverVars((\E o \in ops : HandleWrite(o)) /\ UNCHANGED acceptVars)

FairSpec == Spec /\ Fairness

-----------------------------------------------------------------------------
(* Safety.                                                                  *)

\* Every variable keeps its type.
TypeOK ==
  /\ SocketTypeOK
  /\ arrived \in 0..MaxConn
  /\ installed \in Nat

\* Each connection that was installed is reported as disconnected exactly once,
\* whoever closes it: a failed read or write, the application, or set_socket for
\* a newer connection.
DisconnectedOnce ==
  alive => installed = disconnects + (IF socket = 0 THEN 0 ELSE 1)

\* Once a write has failed nothing is ever written again, not on the next
\* connection either: the queue keeps its front and nobody starts a write.
StallIsPermanent == [][writeFailed => sent' = sent]_serverVars

\* The write queue, from async_write to handle_write, implements an orderly
\* channel of packets.
Channel == INSTANCE PacketChannel WITH
             written <- Len(submitted),
             wire <- [i \in 1..Len(sent) |-> sent[i].id]

ImplementsChannel == Channel!Spec

\* A server whose disconnect callback calls async_accept is never deaf: it is
\* connected, or it is accepting.  (Without the faults "accept" and "filter".)
ServingOrAccepting == alive => socket # 0 \/ Accepts # {}

-----------------------------------------------------------------------------
(* Liveness, under Fairness.                                                *)

\* A lost connection is noticed and closed, although nobody asks for it.
LossIsNoticed ==
  \A c \in Conn : (alive /\ socket = c /\ link[c] = "lost") ~> (~alive \/ socket # c)

\* Every packet the application writes is sent, unless a write fails or a peer,
\* from some time on or again and again, does not read: a write to it has no time
\* limit, and the packets behind it wait as long.
PacketsAreSent ==
  <>[](socket # 0 => link[socket] # "full") =>
    \A i \in Packet :
      (alive /\ Len(submitted) >= i) ~> (~alive \/ writeFailed \/ Len(sent) >= i)

=============================================================================
