------------------------------ MODULE UdpServer ------------------------------
(* ipc_network::udp: UdpClient sends, and UdpServer receives, one datagram   *)
(* after the other into one buffer.  The network may lose, duplicate and     *)
(* reorder datagrams, and any operation may fail.                            *)
EXTENDS Naturals, Sequences, FiniteSets

CONSTANTS
  Clients,       \* the UdpClient objects
  BufferSize,    \* recv_buffer_size
  MaxSize,       \* bound: size of a datagram
  MaxDatagrams,  \* bound: datagrams sent
  MaxDuplicates, \* bound: datagrams that the network duplicates
  QueueSize,     \* datagrams that the operating system keeps for the socket
  Faults         \* what may go wrong: a subset of AllFaults

AllFaults == {"send", "lose", "duplicate", "receive", "oversize"}

ASSUME UdpAssumption ==
  /\ {BufferSize, MaxSize, MaxDatagrams, MaxDuplicates, QueueSize} \subseteq Nat
  /\ Faults \subseteq AllFaults

VARIABLES
  sending,     \* asynchronous sends under way, each with a packet of its own
  network,     \* datagrams on their way
  socket,      \* datagrams that have arrived
  operation,   \* the async_receive_from: where it is, its error and its bytes
  handling,    \* whether the callback runs, and bytes_transferred
  buffer,      \* _receive_buffer and _sender_endpoint: the last datagram put there
  callback,    \* whether _receive_from_callback is set
  sent,        \* history: number of datagrams given to async_send_to
  duplicates,  \* history: number of datagrams duplicated
  taken,       \* history: what the operating system has put into the buffer
  missed,      \* history: how many of them came before the callback was set
  received     \* history: what the callback was given

serverVars == <<operation, handling, buffer, missed, received>>
udpVars == <<sending, network, socket, callback, sent, duplicates, taken, serverVars>>

Datagrams == [id : 1..MaxDatagrams, sender : Clients, size : 0..MaxSize]
None == [id |-> 0]

Receiving == [at |-> "pending", error |-> FALSE, bytes |-> 0]
Idle      == [at |-> "none", error |-> FALSE, bytes |-> 0]
Deaf      == [at |-> "none", error |-> TRUE, bytes |-> 0]

NotHandling == [on |-> FALSE, bytes |-> 0]

\* How much of a datagram the buffer holds.
Fitting(d) == IF d.size < BufferSize THEN d.size ELSE BufferSize

\* The constructor starts to receive, before a callback can have been set.
Init ==
  /\ sending = {} /\ network = {} /\ socket = <<>>
  /\ operation = Receiving /\ handling = NotHandling /\ buffer = None /\ callback = FALSE
  /\ sent = 0 /\ duplicates = 0
  /\ taken = <<>> /\ missed = 0 /\ received = <<>>

-----------------------------------------------------------------------------
(* Senders and the network.                                                 *)

\* UdpSocket::async_send_to: the packet is moved to memory that the operation owns.
AsyncSendTo ==
  /\ sent < MaxDatagrams
  /\ \E c \in Clients, n \in 0..MaxSize :
       sending' = sending \cup {[id |-> sent + 1, sender |-> c, size |-> n]}
  /\ sent' = sent + 1
  /\ UNCHANGED <<network, socket, callback, duplicates, taken, serverVars>>

\* A send that fails is logged and forgotten.
CompleteSend ==
  /\ \E d \in sending :
       /\ sending' = sending \ {d}
       /\ \/ network' = network \cup {d}
          \/ "send" \in Faults /\ UNCHANGED network
  /\ UNCHANGED <<socket, callback, sent, duplicates, taken, serverVars>>

\* A datagram arrives; there may be no room for it, and it may arrive again.
Arrive ==
  /\ \E d \in network :
       /\ socket' = IF Len(socket) < QueueSize THEN Append(socket, d) ELSE socket
       /\ \/ network' = network \ {d} /\ UNCHANGED duplicates
          \/ /\ "duplicate" \in Faults /\ duplicates < MaxDuplicates
             /\ duplicates' = duplicates + 1
             /\ UNCHANGED network
  /\ UNCHANGED <<sending, callback, sent, taken, serverVars>>

Lose ==
  /\ "lose" \in Faults
  /\ \E d \in network : network' = network \ {d}
  /\ UNCHANGED <<sending, socket, callback, sent, duplicates, taken, serverVars>>

-----------------------------------------------------------------------------
(* The server.                                                              *)

SetReceiveFromCallback ==
  /\ callback' = TRUE
  /\ UNCHANGED <<sending, network, socket, sent, duplicates, taken, serverVars>>

\* The operating system puts the first datagram into the buffer.  What does not
\* fit is cut off, or fails the receive, depending on the platform.
ReceiveDatagram ==
  /\ operation.at = "pending" /\ socket # <<>>
  /\ LET d == Head(socket) IN
       /\ buffer' = d
       /\ \/ /\ operation' = [at |-> "done", error |-> FALSE,
                              bytes |-> Fitting(d)]
             /\ taken' = Append(taken, d)
          \/ /\ "oversize" \in Faults /\ d.size > BufferSize
             /\ operation' = [at |-> "done", error |-> TRUE, bytes |-> 0]
             /\ UNCHANGED taken
  /\ socket' = Tail(socket)
  /\ UNCHANGED <<sending, network, callback, handling, sent, duplicates, missed, received>>

\* A receive fails; some platforms report there that an earlier send was refused.
FailReceive ==
  /\ "receive" \in Faults /\ operation.at = "pending"
  /\ operation' = [at |-> "done", error |-> TRUE, bytes |-> 0]
  /\ UNCHANGED <<sending, network, socket, buffer, callback, handling, sent, duplicates, taken, missed, received>>

\* Mutant: the next receive is started before the callback.
HandleReceiveFromRearmed ==
  /\ operation.at = "done" /\ ~handling.on
  /\ IF operation.error
       THEN operation' = Deaf /\ UNCHANGED handling
       ELSE operation' = Receiving /\ handling' = [on |-> TRUE, bytes |-> operation.bytes]
  /\ UNCHANGED <<sending, network, socket, buffer, callback, sent, duplicates, taken, missed, received>>

\* handle_receive_from, up to the call of the callback.
HandleReceiveFrom ==
  /\ operation.at = "done" /\ ~handling.on
  /\ IF operation.error
       THEN operation' = Deaf /\ UNCHANGED handling
       ELSE operation' = Idle /\ handling' = [on |-> TRUE, bytes |-> operation.bytes]
  /\ UNCHANGED <<sending, network, socket, buffer, callback, sent, duplicates, taken, missed, received>>

\* Mutant: the next receive is started only if there is a callback.
AsyncReceiveFromHeard == IF callback THEN Receiving ELSE Idle

AsyncReceiveFrom == Receiving

\* What the callback gets, as it is in the buffer when the callback has run.
Heard == [datagram |-> buffer, bytes |-> handling.bytes]

\* The end of handle_receive_from: the callback, if there is one, has seen what is
\* in the buffer now, and the next receive is started.
RunCallback ==
  /\ handling.on
  /\ IF callback
       THEN received' = Append(received, Heard) /\ UNCHANGED missed
       ELSE missed' = missed + 1 /\ UNCHANGED received
  /\ handling' = NotHandling
  /\ operation' = AsyncReceiveFrom
  /\ UNCHANGED <<sending, network, socket, buffer, callback, sent, duplicates, taken>>

Context == HandleReceiveFrom \/ RunCallback

Next ==
  \/ AsyncSendTo \/ CompleteSend \/ Arrive \/ Lose
  \/ SetReceiveFromCallback \/ ReceiveDatagram \/ FailReceive \/ Context

Spec == Init /\ [][Next]_udpVars

\* The io_context is run, and the operating system serves a receive.
FairSpec == Spec /\ WF_udpVars(Context) /\ WF_udpVars(ReceiveDatagram)

-----------------------------------------------------------------------------
(* Properties.                                                              *)

\* The callback gets each datagram that was received since it was set, once, in
\* order, cut to the buffer, and with its sender, although every receive uses the
\* same buffer and the next datagrams are waiting.  (handle_receive_from.)
ReceivedAsTaken ==
  LET heard == missed + Len(received)
  IN  /\ Len(taken) \in {heard, heard + 1}
      /\ received = [i \in 1..Len(received) |->
                       [datagram |-> taken[missed + i], bytes |-> Fitting(taken[missed + i])]]

\* Unless a receive has failed, what has arrived is received: whether or not
\* anybody has set a callback.
SocketIsDrained == socket # <<>> ~> (socket = <<>> \/ operation.error)

=============================================================================
