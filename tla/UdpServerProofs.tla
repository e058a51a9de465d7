--------------------------- MODULE UdpServerProofs ---------------------------
(* Proofs about UdpServer, for any clients, sizes, queues and faults: what   *)
(* the callback was given is what the operating system has put into the     *)
(* buffer, although there is one buffer only.                               *)
EXTENDS UdpServer, SequenceTheorems, TLAPS

Notice == [datagram : Datagrams \cup {None}, bytes : Nat]

\* Every variable keeps its type.
TypeOK ==
  /\ sending \subseteq Datagrams /\ network \subseteq Datagrams
  /\ socket \in Seq(Datagrams)
  /\ operation \in [at : {"none", "pending", "done"}, error : BOOLEAN, bytes : Nat]
  /\ handling \in [on : BOOLEAN, bytes : Nat]
  /\ buffer \in Datagrams \cup {None}
  /\ sent \in 0..MaxDatagrams
  /\ taken \in Seq(Datagrams) /\ missed \in Nat /\ received \in Seq(Notice)

\* A datagram was put into the buffer, and the callback has not run for it yet.
Waiting == handling.on \/ (operation.at = "done" /\ ~operation.error)

Heeded == missed + Len(received)

\* What is waiting is the last datagram taken: it is still in the buffer, with the
\* number of its bytes, and no receive is under way that could replace it.
BufferIsLast ==
  /\ Len(taken) = Heeded + (IF Waiting THEN 1 ELSE 0)
  /\ Waiting => buffer = taken[Len(taken)]
  /\ handling.on => operation.at = "none" /\ handling.bytes = Fitting(buffer)
  /\ operation.at = "done" /\ ~operation.error => operation.bytes = Fitting(buffer)

\* What was received is what was taken since the callback was set.
ReceivedAt ==
  \A i \in 1..Len(received) :
    received[i] = [datagram |-> taken[missed + i], bytes |-> Fitting(taken[missed + i])]

\* Nothing is received until the callback is set, and then nothing is missed.
MissedBefore == received # <<>> => callback

IInv == TypeOK /\ BufferIsLast /\ ReceivedAt /\ MissedBefore

\* What fits into the buffer is a number of bytes.
LEMMA FittingIsNat == \A d \in Datagrams : Fitting(d) \in Nat
  BY UdpAssumption DEF Datagrams, Fitting

\* A sequence with an element appended.
LEMMA AppendAt ==
  ASSUME NEW S, NEW q \in Seq(S), NEW x \in S
  PROVE  /\ Append(q, x) \in Seq(S)
         /\ Len(Append(q, x)) = Len(q) + 1
         /\ \A i \in 1..Len(q) : Append(q, x)[i] = q[i]
         /\ Append(q, x)[Len(q) + 1] = x
  BY AppendProperties

\* At the start nothing is received.
LEMMA IInvInit == Init => IInv
<1> SUFFICES ASSUME Init PROVE IInv
  OBVIOUS
<1>1. 0 \in 0..MaxDatagrams
  BY UdpAssumption
<1>2. TypeOK
  BY <1>1 DEF Init, TypeOK, Receiving, NotHandling
<1>3. BufferIsLast /\ ReceivedAt /\ MissedBefore
  BY DEF Init, BufferIsLast, Waiting, Heeded, ReceivedAt, MissedBefore, Receiving,
         NotHandling
<1> QED BY <1>2, <1>3 DEF IInv

\* Senders and the network do not touch what the server has.
LEMMA NetworkStep ==
  ASSUME IInv, AsyncSendTo \/ CompleteSend \/ Arrive \/ Lose \/ SetReceiveFromCallback
  PROVE  IInv'
<1>1. UNCHANGED <<taken, operation, handling, buffer, missed, received>>
  BY DEF AsyncSendTo, CompleteSend, Arrive, Lose, SetReceiveFromCallback, serverVars
<1>2. callback => callback'
  BY DEF AsyncSendTo, CompleteSend, Arrive, Lose, SetReceiveFromCallback
<1>3. BufferIsLast' /\ ReceivedAt' /\ MissedBefore'
  BY <1>1, <1>2 DEF IInv, BufferIsLast, Waiting, Heeded, ReceivedAt, MissedBefore, Fitting
<1>4. /\ sending' \subseteq Datagrams /\ network' \subseteq Datagrams
      /\ socket' \in Seq(Datagrams) /\ sent' \in 0..MaxDatagrams
  <2>1. CASE AsyncSendTo
    <3>1. sent + 1 \in 1..MaxDatagrams
      BY <2>1, UdpAssumption DEF AsyncSendTo, IInv, TypeOK
    <3> QED BY <2>1, <3>1 DEF AsyncSendTo, IInv, TypeOK, Datagrams
  <2>2. CASE CompleteSend
    BY <2>2 DEF CompleteSend, IInv, TypeOK
  <2>3. CASE Arrive
    BY <2>3 DEF Arrive, IInv, TypeOK
  <2>4. CASE Lose \/ SetReceiveFromCallback
    BY <2>4 DEF Lose, SetReceiveFromCallback, IInv, TypeOK
  <2> QED BY <2>1, <2>2, <2>3, <2>4
<1>5. TypeOK'
  BY <1>1, <1>4 DEF IInv, TypeOK
<1> QED BY <1>3, <1>5 DEF IInv

\* The operating system fills the buffer only while nothing is waiting in it.
LEMMA ReceiveStep ==
  ASSUME IInv, ReceiveDatagram \/ FailReceive
  PROVE  IInv'
<1> USE DEF IInv
<1>1. ~Waiting /\ operation.at = "pending"
  BY DEF ReceiveDatagram, FailReceive, BufferIsLast, Waiting
<1>2. UNCHANGED <<handling, missed, received, callback, sending, network, sent>>
  BY DEF ReceiveDatagram, FailReceive
<1>3. PICK n \in Nat : n = Len(taken)
  BY DEF TypeOK
<1>4. ASSUME operation' = [at |-> "done", error |-> TRUE, bytes |-> 0], UNCHANGED taken,
             buffer' \in Datagrams \cup {None}, socket' \in Seq(Datagrams)
      PROVE  IInv'
  <2>1. ~Waiting'
    BY <1>1, <1>2, <1>4 DEF Waiting
  <2>2. BufferIsLast'
    BY <1>1, <1>2, <1>4, <2>1 DEF BufferIsLast, Waiting, Heeded
  <2>3. ReceivedAt' /\ MissedBefore'
    BY <1>2, <1>4 DEF ReceivedAt, MissedBefore, Fitting
  <2>4. TypeOK'
    BY <1>2, <1>4 DEF TypeOK
  <2> QED BY <2>2, <2>3, <2>4
<1>5. ASSUME NEW d, socket # <<>>, d = Head(socket), buffer' = d, taken' = Append(taken, d),
             operation' = [at |-> "done", error |-> FALSE, bytes |-> Fitting(d)],
             socket' = Tail(socket)
      PROVE  IInv'
  <2>1. d \in Datagrams /\ Tail(socket) \in Seq(Datagrams)
    BY <1>5, HeadTailProperties DEF TypeOK
  <2>2. /\ taken' \in Seq(Datagrams) /\ Len(taken)' = n + 1 /\ taken'[n + 1] = d
        /\ \A i \in 1..n : taken'[i] = taken[i]
    BY <1>3, <1>5, <2>1, AppendAt DEF TypeOK
  <2>3. TypeOK'
    <3>1. Fitting(d) \in Nat
      BY <2>1, FittingIsNat
    <3>2. operation' \in [at : {"none", "pending", "done"}, error : BOOLEAN, bytes : Nat]
      BY <1>5, <3>1
    <3> QED BY <1>2, <1>5, <2>1, <2>2, <3>2 DEF TypeOK
  <2>4. Waiting' /\ n = Heeded /\ Heeded' = Heeded /\ ~handling.on
    <3>1. Heeded \in Nat
      BY DEF TypeOK, Heeded
    <3>2. n = Heeded /\ Heeded' = Heeded
      BY <1>1, <1>2, <1>3, <3>1 DEF BufferIsLast, Heeded
    <3> QED BY <1>1, <1>5, <3>2 DEF Waiting
  <2>5. BufferIsLast'
    BY <1>2, <1>3, <1>5, <2>2, <2>4 DEF BufferIsLast, Fitting
  <2>6. ReceivedAt'
    <3>1. \A i \in 1..Len(received) : missed + i \in 1..n
      BY <2>4 DEF Heeded, TypeOK
    <3> QED BY <1>2, <2>2, <3>1 DEF ReceivedAt, Fitting
  <2> QED BY <1>2, <2>3, <2>5, <2>6 DEF MissedBefore
<1>6. CASE ReceiveDatagram
  <2>1. socket # <<>> => Head(socket) \in Datagrams /\ Tail(socket) \in Seq(Datagrams)
    BY HeadTailProperties DEF TypeOK
  <2> QED BY <1>4, <1>5, <1>6, <2>1 DEF ReceiveDatagram
<1>7. CASE FailReceive
  BY <1>4, <1>7 DEF FailReceive, TypeOK
<1> QED BY <1>6, <1>7

\* The handler is dispatched, and what is waiting goes on waiting.
LEMMA HandleStep ==
  ASSUME IInv, HandleReceiveFrom
  PROVE  IInv'
<1> USE DEF IInv
<1>1. UNCHANGED <<sending, network, socket, buffer, callback, sent, taken, missed, received>>
  BY DEF HandleReceiveFrom
<1>2. ReceivedAt' /\ MissedBefore' /\ Heeded' = Heeded
  BY <1>1 DEF ReceivedAt, MissedBefore, Fitting, Heeded
<1>3. TypeOK'
  <2>1. operation.bytes \in Nat
    BY DEF TypeOK
  <2>2. Deaf \in [at : {"none", "pending", "done"}, error : BOOLEAN, bytes : Nat]
    BY DEF Deaf
  <2>3. Idle \in [at : {"none", "pending", "done"}, error : BOOLEAN, bytes : Nat]
    BY DEF Idle
  <2>4. [on |-> TRUE, bytes |-> operation.bytes] \in [on : BOOLEAN, bytes : Nat]
    BY <2>1
  <2>5. /\ operation' = Deaf \/ operation' = Idle
        /\ handling' = handling \/ handling' = [on |-> TRUE, bytes |-> operation.bytes]
    BY DEF HandleReceiveFrom
  <2> QED BY <1>1, <2>2, <2>3, <2>4, <2>5 DEF TypeOK
<1>4. BufferIsLast'
  <2>1. Waiting' = Waiting
    BY DEF HandleReceiveFrom, Waiting, Deaf, Idle, TypeOK
  <2> QED BY <1>1, <1>2, <2>1 DEF HandleReceiveFrom, BufferIsLast, Deaf, Idle, Fitting
<1> QED BY <1>2, <1>3, <1>4

\* The callback is given what is waiting, if it is set by then.
LEMMA CallbackStep ==
  ASSUME IInv, RunCallback
  PROVE  IInv'
<1> USE DEF IInv
<1>1. /\ UNCHANGED <<sending, network, socket, buffer, callback, sent, taken>>
      /\ handling' = NotHandling /\ operation' = Receiving
  BY DEF RunCallback, AsyncReceiveFrom
<1>2. PICK n \in Nat, m \in Nat, r \in Nat : n = Len(taken) /\ m = missed /\ r = Len(received)
  BY DEF TypeOK
<1>3. n = m + r + 1 /\ buffer = taken[n] /\ handling.bytes = Fitting(buffer)
  BY <1>2 DEF RunCallback, BufferIsLast, Waiting, Heeded
<1>4. ~Waiting' /\ ~handling.on' /\ operation.at' = "pending"
  BY <1>1 DEF Waiting, NotHandling, Receiving
<1>5. CASE callback
  <2>1. received' = Append(received, Heard) /\ missed' = missed
    BY <1>5 DEF RunCallback
  <2>2. Heard \in Notice
    BY DEF Heard, Notice, TypeOK
  <2>3. /\ received' \in Seq(Notice) /\ Len(received)' = r + 1 /\ received'[r + 1] = Heard
        /\ \A i \in 1..r : received'[i] = received[i]
    BY <1>2, <2>1, <2>2, AppendAt DEF TypeOK
  <2>4. TypeOK'
    BY <1>1, <2>1, <2>3 DEF TypeOK, NotHandling, Receiving
  <2>5. BufferIsLast'
    BY <1>1, <1>2, <1>3, <1>4, <2>1, <2>3 DEF BufferIsLast, Heeded
  <2>6. ASSUME NEW i \in 1..(r + 1)
        PROVE  received'[i] = [datagram |-> taken[m + i], bytes |-> Fitting(taken[m + i])]
    <3>1. CASE i = r + 1
      BY <1>3, <2>3, <3>1 DEF Heard
    <3>2. CASE i \in 1..r
      BY <1>2, <2>3, <3>2 DEF ReceivedAt
    <3> QED BY <3>1, <3>2
  <2>7. ReceivedAt'
    BY <1>1, <1>2, <2>1, <2>3, <2>6 DEF ReceivedAt, Fitting
  <2>8. MissedBefore'
    BY <1>1, <1>5 DEF MissedBefore
  <2> QED BY <2>4, <2>5, <2>7, <2>8
<1>6. CASE ~callback
  <2>1. missed' = missed + 1 /\ UNCHANGED received /\ received = <<>>
    BY <1>6 DEF RunCallback, MissedBefore
  <2>2. TypeOK'
    BY <1>1, <2>1 DEF TypeOK, NotHandling, Receiving
  <2>3. BufferIsLast'
    BY <1>1, <1>2, <1>3, <1>4, <2>1 DEF BufferIsLast, Heeded
  <2>4. ReceivedAt' /\ MissedBefore'
    BY <2>1, EmptySeq DEF ReceivedAt, MissedBefore
  <2> QED BY <2>2, <2>3, <2>4
<1> QED BY <1>5, <1>6

\* Every step keeps the invariant.
LEMMA IInvStep == IInv /\ [Next]_udpVars => IInv'
<1> SUFFICES ASSUME IInv, [Next]_udpVars
             PROVE  IInv'
  OBVIOUS
<1>1. CASE Next
  BY <1>1, NetworkStep, ReceiveStep, HandleStep, CallbackStep DEF Next, Context
<1>2. CASE UNCHANGED udpVars
  BY <1>2 DEF udpVars, serverVars, IInv, TypeOK, BufferIsLast, Waiting, Heeded,
              ReceivedAt, MissedBefore, Fitting
<1> QED BY <1>1, <1>2

\* The callback gets every datagram that was received since it was set, once, in
\* order, cut to the buffer and with its sender.
THEOREM ReceivedIsTaken == Spec => []ReceivedAsTaken
<1>1. IInv => ReceivedAsTaken
  <2> SUFFICES ASSUME IInv PROVE ReceivedAsTaken
    OBVIOUS
  <2>1. Len(taken) \in {Heeded, Heeded + 1}
    <3>1. Heeded \in Nat
      BY DEF IInv, TypeOK, Heeded
    <3> QED BY <3>1 DEF IInv, BufferIsLast
  <2>2. received = [i \in 1..Len(received) |-> received[i]]
    BY DEF IInv, TypeOK
  <2>3. received = [i \in 1..Len(received) |->
                      [datagram |-> taken[missed + i], bytes |-> Fitting(taken[missed + i])]]
    BY <2>2 DEF IInv, ReceivedAt
  <2> QED BY <2>1, <2>3 DEF ReceivedAsTaken, Heeded
<1> QED BY IInvInit, IInvStep, <1>1, PTL DEF Spec

=============================================================================
