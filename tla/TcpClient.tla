----------------------------- MODULE TcpClient -----------------------------
(* ipc_network::tcp::TcpClient: a TcpSocket whose constructor opens and     *)
(* binds the socket and starts connecting it.  The read loop starts when    *)
(* the connection is there; a client never reconnects.  Until then the      *)
(* socket counts as open although it is not connected: async_write and      *)
(* close() of an impatient application act on it ("idle_write" and          *)
(* "app_close" in Faults).                                                  *)
EXTENDS TcpSocket

VARIABLE told  \* history: what the application was told about connecting

clientVars == <<vars, told>>

ASSUME OneConnection == MaxConn = 1 /\ AcceptPolicy = "never"

\* Mutant: the constructor also starts the read loop.
InitReading ==
  /\ SocketInit
  /\ socket = 1
  /\ ops = {[kind |-> "connect", conn |-> 1, res |-> "pending", pkt |-> 0, ticket |-> 0, at |-> 0],
            [kind |-> "header", conn |-> 1, res |-> "error", pkt |-> 0, ticket |-> 0, at |-> 1]}
  /\ told = "nothing"

\* The constructor, its callbacks set before the io_context is run.
Init ==
  /\ SocketInit
  /\ socket = 1
  /\ ops = {[kind |-> "connect", conn |-> 1, res |-> "pending", pkt |-> 0, ticket |-> 0, at |-> 0]}
  /\ told = "nothing"

\* The network makes the connection, or reports that it cannot.
CompleteConnect(o) ==
  /\ alive /\ o \in ops /\ o.kind = "connect" /\ o.res = "pending"
  /\ \/ /\ link' = [link EXCEPT ![o.conn] = "up"]
        /\ Complete(o, "ok")
     \/ /\ Complete(o, "error")
        /\ UNCHANGED link
  /\ UNCHANGED <<alive, socket, disconnects, writeVars, readVars, frames, unread, told>>

\* Mutant: the connect callback is not called.
HandleConnectSilently(o) ==
  /\ alive /\ o \in ops /\ o.kind = "connect"
  /\ IF o.res = "ok" THEN \E t \in FreshTicket : StartReading(ops \ {o}, socket, t)
                     ELSE ops' = ops \ {o} /\ UNCHANGED <<readPacket, reading>>
  /\ o.res # "pending"
  /\ UNCHANGED <<alive, socket, disconnects, writeVars, delivered, netVars, told>>

\* handle_connect.  Connected: the connect callback (which may throw, and then
\* nobody reads, or close the socket), then the first header is read.
\* An error is only reported: the socket is left as it is.
HandleConnect(o) ==
  /\ alive /\ o \in ops /\ o.kind = "connect"
  /\ \E t \in FreshTicket :
       \/ /\ o.res = "ok"
          /\ told' = "connected"
          /\ \/ /\ StartReading(ops \ {o}, socket, t)
                /\ UNCHANGED <<socket, disconnects>>
             \/ /\ "throw" \in Faults
                /\ ops' = ops \ {o}
                /\ UNCHANGED <<socket, disconnects, readPacket, reading>>
             \/ /\ "app_close" \in Faults
                /\ CloseThen(ops \ {o}, {OpOn("header", 0, 0, t)}, t)
                /\ readPacket' = Resize(1)
                /\ reading' = TRUE
       \/ /\ o.res = "error"
          /\ told' = "failed"
          /\ ops' = ops \ {o}
          /\ UNCHANGED <<socket, disconnects, readPacket, reading>>
  /\ UNCHANGED <<alive, writeVars, delivered, netVars>>

\* A patient application writes once it is told that it is connected.
ClientWrite ==
  /\ told = "connected" \/ "idle_write" \in Faults
  /\ AsyncWrite

Next ==
  \/ \E o \in ops : CompleteConnect(o) \/ HandleConnect(o)
  \/ (Close \/ Destroy \/ ClientWrite \/ Network \/ Handlers) /\ UNCHANGED told

Spec == Init /\ [][Next]_clientVars

\* The io_context is run; connecting ends in one way or the other.
Fairness ==
  /\ WF_clientVars(\E o \in ops : CompleteConnect(o))
  /\ WF_clientVars(\E o \in ops : HandleConnect(o))
  /\ WF_clientVars(alive /\ (\E o \in ops : CompleteRead(o)) /\ UNCHANGED told)
  /\ WF_clientVars(alive /\ (\E o \in ops : CompleteWrite(o)) /\ UNCHANGED told)
  /\ WF_clientVars((\E o \in ops : HandleReadHeader(o)) /\ UNCHANGED told)
  /\ WF_clientVars((\E o \in ops : HandleReadData(o)) /\ UNCHANGED told)
  /\ WF_clientVars((\E o \in ops : HandleWrite(o)) /\ UNCHANGED told)

FairSpec == Spec /\ Fairness

-----------------------------------------------------------------------------
\* A disconnect is reported of a connection that was reported: otherwise the
\* application has closed the socket, or has written to it, before it was told
\* that it is connected.
DisconnectIsCaused ==
  [][disconnects' # disconnects /\ told' # "connected" /\ submitted = <<>> => Close]_clientVars

\* Whoever creates a client hears, in the end, that it is connected or that it
\* is not - also when it closes the socket while the connection is being made.
ConnectIsAnswered == <>(~alive \/ told # "nothing")

\* A client that was told it is connected and loses the connection is told so,
\* unless an exception broke the read loop off.
LossIsReported ==
  (alive /\ told = "connected" /\ reading /\ link[1] = "lost")
    ~> (~alive \/ ~reading \/ disconnects > 0)

\* Every frame the peer sends reaches the read callback, unless the connection
\* is closed before, or an exception broke the read loop off.
FramesArrive ==
  \A i \in 1..MaxFrames :
    (alive /\ socket = 1 /\ reading /\ Len(frames[1]) >= i)
      ~> (~alive \/ socket # 1 \/ ~reading \/ Len(delivered[1]) >= i)

=============================================================================
