-------------------------- MODULE TcpClientProofs --------------------------
(* Proof that TcpClient reports a disconnect only of a connection that it   *)
(* has reported, or because of the application.                             *)
EXTENDS TcpClient, SequenceTheorems, TLAPS

-----------------------------------------------------------------------------
(* What is under way.                                                       *)

IsOp(o) == o = [kind |-> o.kind, conn |-> o.conn, pkt |-> o.pkt, ticket |-> o.ticket,
                at |-> o.at, res |-> o.res]

\* Operations, at most one of which is the connecting.
Pending(S) ==
  /\ \A o \in S : IsOp(o)
  /\ \A o, p \in S : o.kind = "connect" /\ p.kind = "connect" => o = p

KindsIn(S) == {o.kind : o \in S}

\* The inductive invariant: until the application is told that it is connected nothing is
\* read, nothing is written that it has not asked for, and connecting is answered once.
ClientInv ==
  /\ Pending(ops)
  /\ socket \in Nat /\ submitted \in Seq(Nat)
  /\ told # "nothing" => "connect" \notin KindsIn(ops)
  /\ told # "connected" => KindsIn(ops) \cap {"header", "data"} = {}
  /\ told # "connected" /\ submitted = <<>> => "write" \notin KindsIn(ops)

\* Part of what is under way.
LEMMA PendingPart ==
  ASSUME NEW S, Pending(S), NEW R, R \subseteq S
  PROVE  Pending(R) /\ KindsIn(R) \subseteq KindsIn(S)
  BY DEF Pending, KindsIn

\* One more operation, which is not a connecting.
LEMMA PendingMore ==
  ASSUME NEW S, Pending(S), NEW kind, kind # "connect", NEW c, NEW p, NEW t
  PROVE  /\ Pending(S \cup {OpOn(kind, c, p, t)})
         /\ KindsIn(S \cup {OpOn(kind, c, p, t)}) = KindsIn(S) \cup {kind}
<1> DEFINE o == OpOn(kind, c, p, t)
<1>1. IsOp(o) /\ o.kind = kind
  <2>1. PICK place, res :
          o = [kind |-> kind, conn |-> c, pkt |-> p, ticket |-> t, at |-> place, res |-> res]
    BY DEF OpOn
  <2> HIDE DEF o
  <2> QED BY <2>1 DEF IsOp
<1> HIDE DEF o
<1>2. Pending(S \cup {o}) /\ KindsIn(S \cup {o}) = KindsIn(S) \cup {kind}
  BY <1>1 DEF Pending, KindsIn
<1> QED BY <1>2 DEF o

\* An operation that gets a result is still what it is.
LEMMA ResultKeeps ==
  ASSUME NEW o, IsOp(o), NEW res
  PROVE  IsOp([o EXCEPT !.res = res]) /\ [o EXCEPT !.res = res].kind = o.kind
<1>1. [o EXCEPT !.res = res] = [kind |-> o.kind, conn |-> o.conn, pkt |-> o.pkt,
                                ticket |-> o.ticket, at |-> o.at, res |-> res]
  BY DEF IsOp
<1> QED BY <1>1 DEF IsOp

\* An operation completes.
LEMMA PendingComplete ==
  ASSUME Pending(ops), NEW o \in ops, NEW res, Complete(o, res)
  PROVE  Pending(ops') /\ KindsIn(ops') \subseteq KindsIn(ops)
<1> DEFINE q == [o EXCEPT !.res = res]
<1>1. IsOp(q) /\ q.kind = o.kind
  BY ResultKeeps DEF Pending
<1>2. ops' = (ops \ {o}) \cup {q}
  BY DEF Complete
<1> HIDE DEF q
<1> QED BY <1>1, <1>2 DEF Pending, KindsIn

\* The buffer grows: its place moves under the reads that are pending.
LEMMA PendingGrown ==
  ASSUME NEW S, Pending(S), NEW others \in Grown(S)
  PROVE  Pending(others) /\ KindsIn(others) \subseteq KindsIn(S)
<1> DEFINE moved(o) == IF IsRead(o) /\ o.res = "pending" THEN [o EXCEPT !.at = 0] ELSE o
<1>1. ASSUME NEW o \in S PROVE IsOp(moved(o)) /\ moved(o).kind = o.kind
  <2>1. o = [kind |-> o.kind, conn |-> o.conn, pkt |-> o.pkt, ticket |-> o.ticket,
             at |-> o.at, res |-> o.res]
    BY DEF Pending, IsOp
  <2>2. [o EXCEPT !.at = 0] = [kind |-> o.kind, conn |-> o.conn, pkt |-> o.pkt,
                               ticket |-> o.ticket, at |-> 0, res |-> o.res]
    BY <2>1
  <2> QED BY <2>1, <2>2 DEF IsOp
<1>2. others = S \/ others = {moved(o) : o \in S}
  BY DEF Grown
<1> HIDE DEF moved
<1>3. CASE others = {moved(o) : o \in S}
  BY <1>1, <1>3 DEF Pending, KindsIn
<1> QED BY <1>2, <1>3

\* What is pending on a connection is aborted.
LEMMA PendingAbort ==
  ASSUME NEW S, Pending(S), NEW c
  PROVE  Pending(Abort(S, c)) /\ KindsIn(Abort(S, c)) \subseteq KindsIn(S)
<1> DEFINE aborted(o) == IF o.conn = c /\ o.res = "pending" THEN [o EXCEPT !.res = "error"] ELSE o
<1>1. ASSUME NEW o \in S PROVE IsOp(aborted(o)) /\ aborted(o).kind = o.kind
  <2>1. IsOp(o)
    BY DEF Pending
  <2>2. IsOp([o EXCEPT !.res = "error"]) /\ [o EXCEPT !.res = "error"].kind = o.kind
    BY <2>1, ResultKeeps
  <2> QED BY <2>1, <2>2
<1>2. Abort(S, c) = {aborted(o) : o \in S}
  BY DEF Abort
<1> HIDE DEF aborted
<1> QED BY <1>1, <1>2 DEF Pending, KindsIn

\* close(): what is left, aborted or not, and what is started.
LEMMA PendingClose ==
  ASSUME NEW rest, Pending(rest), NEW started, NEW t, CloseThen(rest, started, t)
  PROVE  \E kept : /\ Pending(kept) /\ KindsIn(kept) \subseteq KindsIn(rest)
                   /\ ops' = kept \cup started
<1>1. DisconnectCallback(t) = {}
  BY OneConnection DEF DisconnectCallback
<1>2. CASE socket = 0
  BY <1>2 DEF CloseThen
<1>3. CASE socket # 0
  <2>1. ops' = Abort(rest, socket) \cup started
    BY <1>1, <1>3 DEF CloseThen
  <2> QED BY <2>1, PendingAbort
<1> QED BY <1>2, <1>3

\* close(), when at most one operation is started.
LEMMA PendingCloseKinds ==
  ASSUME NEW rest, Pending(rest), NEW kind, kind # "connect", NEW c, NEW p, NEW t,
         NEW started \in {{}, {OpOn(kind, c, p, t)}}, CloseThen(rest, started, t)
  PROVE  Pending(ops') /\ KindsIn(ops') \subseteq KindsIn(rest) \cup {kind}
<1>1. PICK kept : /\ Pending(kept) /\ KindsIn(kept) \subseteq KindsIn(rest)
                  /\ ops' = kept \cup started
  BY PendingClose
<1>2. CASE started = {}
  BY <1>1, <1>2
<1>3. CASE started = {OpOn(kind, c, p, t)}
  BY <1>1, <1>3, PendingMore
<1> QED BY <1>2, <1>3

-----------------------------------------------------------------------------
(* The steps.                                                               *)

\* Reading on starts reads only.
LEMMA ReadKinds ==
  ASSUME NEW rest, Pending(rest), NEW c, NEW t,
         \/ AsyncReadHeader(rest, c, t) \/ StartReading(rest, c, t) \/ AsyncReadData(rest, t)
  PROVE  Pending(ops') /\ KindsIn(ops') \subseteq KindsIn(rest) \cup {"header", "data"}
<1> DEFINE Started(others) ==
      \/ ops' = others
      \/ \E kind \in {"header", "data"}, d \in {c, socket} :
           ops' = others \cup {OpOn(kind, d, 0, t)}
<1>1. ASSUME NEW d \in {c, socket}, AsyncReadHeader(rest, d, t) PROVE Started(rest)
  BY <1>1 DEF AsyncReadHeader
<1>2. ASSUME StartReading(rest, c, t) PROVE Started(rest)
  BY <1>2 DEF StartReading
<1>3. ASSUME AsyncReadData(rest, t) PROVE \E others \in Grown(rest) : Started(others)
  <2>1. rest \in Grown(rest)
    BY DEF Grown
  <2> QED BY <1>1, <1>3, <2>1 DEF AsyncReadData
<1>4. PICK others \in Grown(rest) : Started(others)
  <2>1. rest \in Grown(rest)
    BY DEF Grown
  <2> HIDE DEF Started
  <2> QED BY <1>1, <1>2, <1>3, <2>1
<1>5. Pending(others) /\ KindsIn(others) \subseteq KindsIn(rest)
  BY PendingGrown
<1>6. ASSUME NEW kind \in {"header", "data"}, NEW d,
             ops' = others \cup {OpOn(kind, d, 0, t)}
      PROVE  Pending(ops') /\ KindsIn(ops') \subseteq KindsIn(rest) \cup {"header", "data"}
  <2>1. /\ Pending(others \cup {OpOn(kind, d, 0, t)})
        /\ KindsIn(others \cup {OpOn(kind, d, 0, t)}) = KindsIn(others) \cup {kind}
    BY <1>5, PendingMore
  <2> QED BY <1>5, <1>6, <2>1
<1> QED BY <1>4, <1>5, <1>6

\* So does the delivery of a packet, the callback closing the socket or not.
LEMMA DeliverKinds ==
  ASSUME NEW o, NEW rest, Pending(rest), NEW t, Deliver(o, rest, t)
  PROVE  Pending(ops') /\ KindsIn(ops') \subseteq KindsIn(rest) \cup {"header", "data"}
<1>1. CASE AsyncReadHeader(rest, socket, t)
  BY <1>1, ReadKinds
<1>2. CASE ops' = rest
  BY <1>2
<1>3. CASE CloseThen(rest, {OpOn("header", 0, 0, t)}, t)
  <2>1. {OpOn("header", 0, 0, t)} \in {{}, {OpOn("header", 0, 0, t)}} /\ "header" # "connect"
    OBVIOUS
  <2> QED BY <1>3, <2>1, PendingCloseKinds
<1> QED BY <1>1, <1>2, <1>3 DEF Deliver

\* A handler that closes the socket on an error.
LEMMA ErrorKinds ==
  ASSUME NEW rest, Pending(rest), NEW t, CloseThen(rest, {}, t)
  PROVE  Pending(ops') /\ KindsIn(ops') \subseteq KindsIn(rest)
  BY PendingClose

\* The handlers of reads.
LEMMA ReadHandlerKinds ==
  ASSUME Pending(ops), NEW o \in ops, HandleReadHeader(o) \/ HandleReadData(o)
  PROVE  /\ Pending(ops') /\ KindsIn(ops') \subseteq KindsIn(ops) \cup {"header", "data"}
         /\ KindsIn(ops) \cap {"header", "data"} # {}
<1>1. Pending(ops \ {o}) /\ KindsIn(ops \ {o}) \subseteq KindsIn(ops)
  BY PendingPart
<1>2. PICK t : \/ CloseThen(ops \ {o}, {}, t)
               \/ AsyncReadData(ops \ {o}, t)
               \/ AsyncReadHeader(ops \ {o}, socket, t)
               \/ Deliver(o, ops \ {o}, t)
  <2>1. CASE HandleReadHeader(o)
    BY <2>1, Zenon DEF HandleReadHeader
  <2>2. CASE HandleReadData(o)
    BY <2>2, Zenon DEF HandleReadData
  <2> QED BY <2>1, <2>2
<1>3. Pending(ops') /\ KindsIn(ops') \subseteq KindsIn(ops \ {o}) \cup {"header", "data"}
  <2>1. CASE CloseThen(ops \ {o}, {}, t)
    BY <1>1, <2>1, ErrorKinds
  <2>2. CASE AsyncReadData(ops \ {o}, t) \/ AsyncReadHeader(ops \ {o}, socket, t)
    BY <1>1, <2>2, ReadKinds
  <2>3. CASE Deliver(o, ops \ {o}, t)
    BY <1>1, <2>3, DeliverKinds
  <2> QED BY <1>2, <2>1, <2>2, <2>3
<1>4. o.kind \in {"header", "data"} /\ o.kind \in KindsIn(ops)
  BY DEF HandleReadHeader, HandleReadData, KindsIn
<1> QED BY <1>1, <1>3, <1>4

\* The handler of a write.
LEMMA WriteHandlerKinds ==
  ASSUME Pending(ops), NEW o \in ops, HandleWrite(o)
  PROVE  /\ Pending(ops') /\ KindsIn(ops') \subseteq KindsIn(ops) \cup {"write"}
         /\ "write" \in KindsIn(ops)
<1>1. Pending(ops \ {o}) /\ KindsIn(ops \ {o}) \subseteq KindsIn(ops)
  BY PendingPart
<1>2. PICK t : \/ CloseThen(ops \ {o}, {}, t)
               \/ ops' = ops \ {o}
               \/ ops' = (ops \ {o}) \cup {OpOn("write", socket, writePackets[2], t)}
  BY DEF HandleWrite
<1>3. Pending(ops') /\ KindsIn(ops') \subseteq KindsIn(ops \ {o}) \cup {"write"}
  <2>1. CASE CloseThen(ops \ {o}, {}, t)
    BY <1>1, <2>1, ErrorKinds
  <2>2. CASE ops' = ops \ {o}
    BY <1>1, <2>2
  <2>3. CASE ops' = (ops \ {o}) \cup {OpOn("write", socket, writePackets[2], t)}
    <3>1. PICK p, c : p = writePackets[2] /\ c = socket
      OBVIOUS
    <3>2. ops' = (ops \ {o}) \cup {OpOn("write", c, p, t)}
      BY <2>3, <3>1
    <3> QED BY <1>1, <3>2, PendingMore
  <2> QED BY <1>2, <2>1, <2>2, <2>3
<1>4. "write" \in KindsIn(ops)
  BY DEF HandleWrite, KindsIn
<1> QED BY <1>1, <1>3, <1>4

\* The socket is closed or stays.
LEMMA SocketStaysNat ==
  ASSUME socket \in Nat, [Next]_clientVars
  PROVE  socket' \in Nat
<1>1. socket' = socket \/ socket' = 0
  <2>1. CASE \E o \in ops : CompleteConnect(o) \/ HandleConnect(o)
    BY <2>1 DEF CompleteConnect, HandleConnect, CloseThen
  <2>2. CASE Close \/ Destroy \/ ClientWrite
    BY <2>2 DEF Close, Destroy, ClientWrite, AsyncWrite, CloseThen
  <2>3. CASE Network
    BY <2>3 DEF Network, ConnectionLost, PeerSends, PeerStopsReading, PeerReadsOn, CompleteRead,
                         CompleteWrite, sockVars
  <2>4. CASE Handlers
    BY <2>4 DEF Handlers, HandleReadHeader, HandleReadData, HandleWrite, Deliver, CloseThen
  <2>5. CASE UNCHANGED clientVars
    BY <2>5 DEF clientVars, vars, sockVars
  <2> QED BY <2>1, <2>2, <2>3, <2>4, <2>5 DEF Next
<1> QED BY <1>1


\* Connecting ends.
LEMMA ConnectKeeps ==
  ASSUME ClientInv, NEW o \in ops, CompleteConnect(o) \/ HandleConnect(o)
  PROVE  /\ Pending(ops') /\ submitted' = submitted
         /\ told' # "nothing" => "connect" \notin KindsIn(ops')
         /\ told' # "connected" => KindsIn(ops') \cap {"header", "data"} = {}
         /\ told' # "connected" /\ submitted' = <<>> => "write" \notin KindsIn(ops')
<1>1. Pending(ops) /\ o.kind = "connect" /\ o.kind \in KindsIn(ops)
  BY DEF ClientInv, CompleteConnect, HandleConnect, KindsIn
<1>2. told = "nothing"
  BY <1>1 DEF ClientInv
<1>3. Pending(ops \ {o}) /\ KindsIn(ops \ {o}) \subseteq KindsIn(ops) \ {"connect"}
  BY <1>1 DEF Pending, KindsIn
<1>4. submitted' = submitted
  BY DEF CompleteConnect, HandleConnect, writeVars
<1>5. CASE CompleteConnect(o)
  <2>1. PICK res : Complete(o, res)
    BY <1>5 DEF CompleteConnect
  <2>2. Pending(ops') /\ KindsIn(ops') \subseteq KindsIn(ops)
    BY <1>1, <2>1, PendingComplete
  <2>3. told' = told
    BY <1>5 DEF CompleteConnect
  <2> QED BY <1>2, <1>4, <2>2, <2>3 DEF ClientInv
<1>6. CASE HandleConnect(o)
  <2>1. PICK t : \/ told' = "connected" /\ StartReading(ops \ {o}, socket, t)
                 \/ told' = "connected" /\ ops' = ops \ {o}
                 \/ told' = "connected" /\ CloseThen(ops \ {o}, {OpOn("header", 0, 0, t)}, t)
                 \/ told' = "failed" /\ ops' = ops \ {o}
    BY <1>6 DEF HandleConnect
  <2>2. CASE told' = "connected" /\ StartReading(ops \ {o}, socket, t)
    BY <1>3, <1>4, <2>2, ReadKinds
  <2>3. CASE told' = "connected" /\ ops' = ops \ {o}
    BY <1>3, <1>4, <2>3
  <2>4. CASE told' = "connected" /\ CloseThen(ops \ {o}, {OpOn("header", 0, 0, t)}, t)
    <3>1. /\ {OpOn("header", 0, 0, t)} \in {{}, {OpOn("header", 0, 0, t)}}
          /\ "header" # "connect"
      OBVIOUS
    <3>2. Pending(ops') /\ KindsIn(ops') \subseteq KindsIn(ops \ {o}) \cup {"header"}
      BY <1>3, <2>4, <3>1, PendingCloseKinds
    <3> QED BY <1>3, <1>4, <2>4, <3>2
  <2>5. CASE told' = "failed" /\ ops' = ops \ {o}
    BY <1>2, <1>3, <1>4, <2>5 DEF ClientInv
  <2> QED BY <2>1, <2>2, <2>3, <2>4, <2>5
<1> QED BY <1>5, <1>6

\* The application writes.
LEMMA WriteKeeps ==
  ASSUME ClientInv, AsyncWrite
  PROVE  /\ Pending(ops') /\ KindsIn(ops') \subseteq KindsIn(ops) \cup {"write"}
         /\ submitted' \in Seq(Nat)
         /\ \/ submitted' # <<>> /\ disconnects' = disconnects
            \/ "alloc" \in Faults
<1>1. socket \in Nat /\ submitted \in Seq(Nat)
  BY DEF ClientInv
<1>2. PICK rest : rest = ops
  OBVIOUS
<1>3. Pending(rest)
  BY <1>2 DEF ClientInv
<1> DEFINE n == Len(submitted) + 1
<1>4. CASE /\ submitted' = Append(submitted, socket) /\ disconnects' = disconnects
           /\ \E t : ops' = ops \/ ops' = ops \cup {OpOn("write", socket, n, t)}
  <2>1. submitted' \in Seq(Nat) /\ submitted' # <<>>
    BY <1>1, <1>4, AppendProperties
  <2>2. PICK t : ops' = ops \/ ops' = ops \cup {OpOn("write", socket, n, t)}
    BY <1>4
  <2> HIDE DEF n
  <2>3. Pending(ops') /\ KindsIn(ops') \subseteq KindsIn(ops) \cup {"write"}
    <3>1. PICK p, c : ops' = rest \/ ops' = rest \cup {OpOn("write", c, p, t)}
      BY <1>2, <2>2
    <3>2. Pending(ops') /\ KindsIn(ops') \subseteq KindsIn(rest) \cup {"write"}
      BY <1>3, <3>1, PendingMore
    <3> QED BY <1>2, <3>2
  <2> QED BY <1>4, <2>1, <2>3
<1>5. CASE /\ "alloc" \in Faults /\ UNCHANGED submitted
           /\ \E t : \E started \in {{}, {OpOn("write", 0, 0, t)}} : CloseThen(ops, started, t)
  <2>1. PICK t, started : /\ started \in {{}, {OpOn("write", 0, 0, t)}}
                          /\ CloseThen(rest, started, t)
    BY <1>5, <1>2
  <2>2. PICK kept : /\ Pending(kept) /\ KindsIn(kept) \subseteq KindsIn(rest)
                    /\ ops' = kept \cup started
    BY <1>3, <2>1, PendingClose
  <2>3. PICK c, p : started = {} \/ started = {OpOn("write", c, p, t)}
    BY <2>1
  <2>4. Pending(ops') /\ KindsIn(ops') \subseteq KindsIn(kept) \cup {"write"}
    BY <2>2, <2>3, PendingMore
  <2> QED BY <1>1, <1>2, <1>5, <2>2, <2>4
<1> QED BY <1>4, <1>5 DEF AsyncWrite

\* At first only the connecting is under way.
LEMMA ClientInvInit == Init => ClientInv
<1> SUFFICES ASSUME Init PROVE ClientInv
  OBVIOUS
<1>1. /\ ops = {[kind |-> "connect", conn |-> 1, res |-> "pending", pkt |-> 0, ticket |-> 0,
               at |-> 0]}
      /\ socket = 1 /\ submitted = <<>> /\ told = "nothing"
  BY DEF Init, SocketInit
<1>2. Pending(ops)
  BY <1>1 DEF Pending, IsOp
<1>3. KindsIn(ops) = {"connect"}
  BY <1>1 DEF KindsIn
<1> QED BY <1>1, <1>2, <1>3 DEF ClientInv

\* Every step keeps the invariant, unless writing throws for an impatient application.
LEMMA ClientInvStep ==
  ASSUME ClientInv, [Next]_clientVars, ~({"alloc", "idle_write"} \subseteq Faults)
  PROVE  ClientInv'
<1>1. socket' \in Nat
  BY SocketStaysNat DEF ClientInv
<1>2. Pending(ops) /\ submitted \in Seq(Nat)
  BY DEF ClientInv
<1>3. ASSUME NEW o \in ops, CompleteConnect(o) \/ HandleConnect(o) PROVE ClientInv'
  BY <1>1, <1>2, <1>3, ConnectKeeps DEF ClientInv
<1>4. ASSUME Close, UNCHANGED told PROVE ClientInv'
  <2>1. Pending(ops') /\ KindsIn(ops') \subseteq KindsIn(ops)
    BY <1>2, <1>4, ErrorKinds DEF Close
  <2>2. submitted' = submitted
    BY <1>4 DEF Close, writeVars
  <2> QED BY <1>1, <1>4, <2>1, <2>2 DEF ClientInv
<1>5. ASSUME Destroy, UNCHANGED told PROVE ClientInv'
  <2>1. Pending(ops') /\ KindsIn(ops') \subseteq KindsIn(ops)
    BY <1>2, <1>5, PendingAbort DEF Destroy
  <2>2. submitted' = submitted
    BY <1>5 DEF Destroy, writeVars
  <2> QED BY <1>1, <1>5, <2>1, <2>2 DEF ClientInv
<1>6. ASSUME ClientWrite, UNCHANGED told PROVE ClientInv'
  <2>1. /\ Pending(ops') /\ KindsIn(ops') \subseteq KindsIn(ops) \cup {"write"}
        /\ submitted' \in Seq(Nat)
        /\ submitted' # <<>> \/ "alloc" \in Faults
    BY <1>6, WriteKeeps DEF ClientWrite
  <2>2. told = "connected" \/ "idle_write" \in Faults
    BY <1>6 DEF ClientWrite
  <2> QED BY <1>1, <1>6, <2>1, <2>2 DEF ClientInv
<1>7. ASSUME Network, UNCHANGED told PROVE ClientInv'
  <2>1. submitted' = submitted
    BY <1>7 DEF Network, ConnectionLost, PeerSends, PeerStopsReading, PeerReadsOn, CompleteRead,
                         CompleteWrite, writeVars
  <2>2. CASE \E o \in ops : CompleteRead(o) \/ CompleteWrite(o)
    <3>1. PICK o \in ops : \E res : Complete(o, res)
      BY <2>2, Zenon DEF CompleteRead, CompleteWrite
    <3>2. Pending(ops') /\ KindsIn(ops') \subseteq KindsIn(ops)
      BY <1>2, <3>1, PendingComplete
    <3> QED BY <1>1, <1>7, <2>1, <3>2 DEF ClientInv
  <2>3. CASE \E c \in Conn : \/ ConnectionLost(c) \/ PeerStopsReading(c) \/ PeerReadsOn(c)
                           \/ \E s \in Size : PeerSends(c, s)
    <3>1. ops' = ops
      BY <2>3 DEF ConnectionLost, PeerStopsReading, PeerReadsOn, PeerSends, sockVars
    <3> QED BY <1>1, <1>7, <2>1, <3>1 DEF ClientInv
  <2> QED BY <1>7, <2>2, <2>3 DEF Network
<1>8. ASSUME NEW o \in ops, HandleReadHeader(o) \/ HandleReadData(o), UNCHANGED told
      PROVE  ClientInv'
  <2>1. submitted' = submitted
    BY <1>8 DEF HandleReadHeader, HandleReadData, writeVars
  <2>2. /\ Pending(ops') /\ KindsIn(ops') \subseteq KindsIn(ops) \cup {"header", "data"}
        /\ KindsIn(ops) \cap {"header", "data"} # {}
    BY <1>2, <1>8, ReadHandlerKinds
  <2>3. told = "connected" /\ "connect" \notin KindsIn(ops)
    BY <2>2 DEF ClientInv
  <2> QED BY <1>1, <1>2, <1>8, <2>1, <2>2, <2>3 DEF ClientInv
<1>9. ASSUME NEW o \in ops, HandleWrite(o), UNCHANGED told PROVE ClientInv'
  <2>1. submitted' = submitted
    BY <1>9 DEF HandleWrite
  <2>2. /\ Pending(ops') /\ KindsIn(ops') \subseteq KindsIn(ops) \cup {"write"}
        /\ "write" \in KindsIn(ops)
    BY <1>2, <1>9, WriteHandlerKinds
  <2> QED BY <1>1, <1>9, <2>1, <2>2 DEF ClientInv
<1>10. CASE UNCHANGED clientVars
  BY <1>10 DEF clientVars, vars, sockVars, writeVars, ClientInv
<1> QED BY <1>3, <1>4, <1>5, <1>6, <1>7, <1>8, <1>9, <1>10 DEF Next, Handlers

\* A disconnect is reported of a connection that was reported, or because the application
\* closed the socket or wrote before it was told; an impatient write that throws is the
\* exception, for it disconnects although nothing was submitted.
THEOREM DisconnectHasCause ==
  ASSUME ~({"alloc", "idle_write"} \subseteq Faults)
  PROVE  Spec => DisconnectIsCaused
<1>1. ASSUME ClientInv, [Next]_clientVars, disconnects' # disconnects, told' # "connected",
             submitted = <<>>
      PROVE  Close
  <2>1. CASE \E o \in ops : CompleteConnect(o) \/ HandleConnect(o)
    BY <1>1, <2>1 DEF CompleteConnect, HandleConnect
  <2>2. CASE Destroy
    BY <1>1, <2>2 DEF Destroy
  <2>3. CASE ClientWrite /\ UNCHANGED told
    <3>1. told # "connected"
      BY <1>1, <2>3
    <3>2. "idle_write" \in Faults /\ AsyncWrite
      BY <2>3, <3>1 DEF ClientWrite
    <3>3. "alloc" \in Faults
      BY <1>1, <3>2, WriteKeeps
    <3> QED BY <3>2, <3>3
  <2>4. CASE Network
    BY <1>1, <2>4 DEF Network, ConnectionLost, PeerSends, PeerStopsReading, PeerReadsOn, CompleteRead,
                         CompleteWrite, sockVars
  <2>5. CASE Handlers /\ UNCHANGED told
    <3>1. PICK o \in ops : HandleReadHeader(o) \/ HandleReadData(o) \/ HandleWrite(o)
      BY <2>5 DEF Handlers
    <3>2. Pending(ops) /\ told # "connected"
      BY <1>1, <2>5 DEF ClientInv
    <3>3. KindsIn(ops) \cap {"header", "data"} # {} \/ "write" \in KindsIn(ops)
      BY <3>1, <3>2, ReadHandlerKinds, WriteHandlerKinds
    <3> QED BY <1>1, <3>2, <3>3 DEF ClientInv
  <2>6. CASE UNCHANGED clientVars
    BY <1>1, <2>6 DEF clientVars, vars, sockVars
  <2> QED BY <1>1, <2>1, <2>2, <2>3, <2>4, <2>5, <2>6 DEF Next
<1>2. ClientInv /\ [Next]_clientVars
        => [disconnects' # disconnects /\ told' # "connected" /\ submitted = <<>> => Close]_clientVars
  BY <1>1
<1> QED BY <1>2, ClientInvInit, ClientInvStep, PTL DEF Spec, DisconnectIsCaused

=============================================================================
