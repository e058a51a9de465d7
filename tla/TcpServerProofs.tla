-------------------------- MODULE TcpServerProofs --------------------------
(* Theorems about TcpServer, for every number of connections, packets and   *)
(* frames, every policy of the application and every set of faults, unless  *)
(* a theorem says otherwise.  First the types and the write queue, with the *)
(* inductive invariant IInv; then, resting on it, how a connection is       *)
(* opened, read and closed, what becomes of the operations started on it,   *)
(* and that the write queue implements a channel of packets.                *)
EXTENDS TcpServer, SequenceTheorems, TLAPS

-----------------------------------------------------------------------------
(* What the helpers return.                                                 *)

\* Tickets are taken from the declared range.
LEMMA FreshTicketIsTicket == \A t \in FreshTicket : t \in Tickets
  BY DEF FreshTicket

\* A started operation is an operation; it is never completed successfully yet.
LEMMA OpOnType ==
  ASSUME SocketTypeOK,
         NEW kind \in Kinds, NEW c \in Conn \cup {0}, NEW p \in Packet \cup {0},
         NEW t \in Tickets
  PROVE  OpOn(kind, c, p, t) \in Operation
<1>1. Len(readPacket) + 1 \in Nat
  BY DEF SocketTypeOK
<1>2. PlaceOf(kind) \in Nat
  BY <1>1 DEF PlaceOf
<1> QED BY <1>2 DEF OpOn, Operation, Results

\* So is a started async_accept.
LEMMA AcceptOpType ==
  ASSUME NEW t \in Tickets
  PROVE  AcceptOp(t) \in Operation
  BY DEF AcceptOp, Operation, Results, Kinds

\* What the disconnect callback starts are operations, and none is a write.
LEMMA CallbackType ==
  ASSUME NEW t \in Tickets
  PROVE  /\ DisconnectCallback(t) \subseteq Operation
         /\ \A o \in DisconnectCallback(t) : o.kind = "accept"
  BY AcceptOpType DEF DisconnectCallback, AcceptOp

\* Aborting keeps operations operations, of the same kind.
LEMMA AbortType ==
  ASSUME NEW rest \in SUBSET Operation, NEW c
  PROVE  Abort(rest, c) \in SUBSET Operation
  BY DEF Abort, Operation, Results

\* An operation that closing a connection left alive was there before, as it is.
LEMMA AbortKeeps ==
  ASSUME NEW rest \in SUBSET Operation, NEW c,
         NEW o \in Abort(rest, c), o.res # "error"
  PROVE  o \in rest
<1>1. PICK r \in rest : o = IF r.conn = c /\ r.res = "pending"
                            THEN [r EXCEPT !.res = "error"] ELSE r
  BY DEF Abort
<1>2. CASE r.conn = c /\ r.res = "pending"
  <2>1. o.res = "error"
    BY <1>1, <1>2 DEF Operation
  <2> QED BY <2>1
<1>3. CASE ~(r.conn = c /\ r.res = "pending")
  BY <1>1, <1>3
<1> QED BY <1>2, <1>3

\* close() leaves the socket closed and operations in ops.
LEMMA CloseThenType ==
  ASSUME SocketTypeOK, NEW rest \in SUBSET Operation, NEW started \in SUBSET Operation,
         NEW t \in Tickets, CloseThen(rest, started, t)
  PROVE  /\ socket' = 0
         /\ ops' \subseteq Operation
         /\ disconnects' \in Nat
  BY AbortType, CallbackType DEF CloseThen, SocketTypeOK

\* The buffer keeps units in it, whatever it is resized to.
LEMMA ResizeType ==
  ASSUME SocketTypeOK, NEW n \in Nat
  PROVE  Resize(n) \in Seq(Unit)
<1>1. NoUnit \in Unit
  BY BoundsAssumption DEF NoUnit, Unit, Size
<1>2. \A i \in 1..n : (IF i <= Len(readPacket) THEN readPacket[i] ELSE NoUnit) \in Unit
  BY <1>1 DEF SocketTypeOK
<1> QED BY <1>2 DEF Resize

\* The frames the peer sends consist of units.
LEMMA FrameType ==
  ASSUME NEW f \in 1..MaxFrames, NEW s \in Size
  PROVE  Frame(f, s) \in Seq(Unit)
<1>1. Header(f, s) \in Unit
  BY BoundsAssumption DEF Header, Unit
<1>2. Body(f) \in Unit
  BY BoundsAssumption DEF Body, Unit, Size
<1> QED BY <1>1, <1>2 DEF Frame

\* Two operations are alike if they differ in nothing but the result, and the
\* place a read fills.
Like(p, r) ==
  p.kind = r.kind /\ p.conn = r.conn /\ p.pkt = r.pkt /\ p.ticket = r.ticket

\* Moving the buffer leaves the operations as they are, but for the place that a
\* read under way fills.
LEMMA GrownAlike ==
  ASSUME NEW rest \in SUBSET Operation, NEW others \in Grown(rest)
  PROVE  /\ others \in SUBSET Operation
         /\ \A r \in rest : \E p \in others : Like(p, r)
         /\ \A p \in others : \E r \in rest :
              Like(p, r) /\ p.res = r.res /\ (p = r \/ (IsRead(r) /\ r.res = "pending"))
<1> DEFINE image(r) == IF IsRead(r) /\ r.res = "pending" THEN [r EXCEPT !.at = 0] ELSE r
<1>1. \A r \in rest :
        /\ image(r) \in Operation
        /\ Like(image(r), r) /\ image(r).res = r.res
        /\ image(r) = r \/ (IsRead(r) /\ r.res = "pending")
  BY DEF Like, Operation
<1>2. others = rest \/ others = {image(r) : r \in rest}
  BY DEF Grown
<1>3. \A r \in rest : r \in Operation /\ Like(r, r)
  BY DEF Like
<1> HIDE DEF image
<1> QED BY <1>1, <1>2, <1>3

\* It need not move.
LEMMA GrownInPlace == \A rest : rest \in Grown(rest)
  BY DEF Grown

-----------------------------------------------------------------------------
(* Type correctness.                                                        *)

\* The steps of the read loop keep their variables typed.
LEMMA ReadHeaderType ==
  ASSUME SocketTypeOK, NEW rest \in SUBSET Operation, NEW c \in Conn \cup {0},
         NEW t \in Tickets,
         AsyncReadHeader(rest, c, t) \/ StartReading(rest, c, t)
  PROVE  /\ ops' \subseteq Operation
         /\ readPacket' \in Seq(Unit)
         /\ reading' \in BOOLEAN
<1>1. OpOn("header", c, 0, t) \in Operation
  BY OpOnType DEF Kinds
<1>2. Resize(1) \in Seq(Unit)
  BY ResizeType
<1> QED BY <1>1, <1>2 DEF AsyncReadHeader, StartReading, SocketTypeOK

\* So does async_read_data, whichever way it goes.
LEMMA ReadDataType ==
  ASSUME SocketTypeOK, NEW rest \in SUBSET Operation, NEW t \in Tickets,
         AsyncReadData(rest, t)
  PROVE  /\ ops' \subseteq Operation
         /\ readPacket' \in Seq(Unit)
         /\ reading' \in BOOLEAN
<1>1. OpOn("data", socket, 0, t) \in Operation
  BY OpOnType DEF Kinds, SocketTypeOK
<1>2. Resize(Len(readPacket) + 1) \in Seq(Unit)
  <2>1. Len(readPacket) + 1 \in Nat
    BY DEF SocketTypeOK
  <2> QED BY <2>1, ResizeType
<1>3. CASE AsyncReadHeader(rest, socket, t)
  BY <1>3, ReadHeaderType DEF SocketTypeOK
<1>4. ASSUME NEW others \in Grown(rest), readPacket' = Resize(Len(readPacket) + 1),
             \/ ops' = others \cup {OpOn("data", socket, 0, t)} /\ UNCHANGED reading
             \/ ops' = others /\ reading' = FALSE
      PROVE  ops' \subseteq Operation /\ readPacket' \in Seq(Unit) /\ reading' \in BOOLEAN
  BY <1>1, <1>2, <1>4, GrownAlike DEF SocketTypeOK
<1> QED BY <1>3, <1>4 DEF AsyncReadData

\* And so does giving the packet to the callback, which may close the socket.
LEMMA DeliverType ==
  ASSUME SocketTypeOK, NEW o \in ops, NEW rest \in SUBSET Operation,
         NEW t \in Tickets, Deliver(o, rest, t)
  PROVE  /\ ops' \subseteq Operation
         /\ socket' \in Conn \cup {0}
         /\ disconnects' \in Nat
         /\ readPacket' \in Seq(Unit)
         /\ reading' \in BOOLEAN
         /\ delivered' \in [Conn -> Seq(Seq(Unit))]
<1>1. delivered' \in [Conn -> Seq(Seq(Unit))]
  <2>1. \A c \in Conn : Append(delivered[c], readPacket) \in Seq(Seq(Unit))
    BY DEF SocketTypeOK
  <2> QED BY <2>1 DEF Deliver, SocketTypeOK
<1>2. CASE AsyncReadHeader(rest, socket, t) /\ UNCHANGED <<socket, disconnects>>
  BY <1>1, <1>2, ReadHeaderType DEF SocketTypeOK
<1>3. CASE ops' = rest /\ reading' = FALSE /\ UNCHANGED <<socket, disconnects, readPacket>>
  BY <1>1, <1>3 DEF SocketTypeOK
<1>4. CASE /\ CloseThen(rest, {OpOn("header", 0, 0, t)}, t)
           /\ readPacket' = Resize(1)
           /\ UNCHANGED reading
  <2>1. OpOn("header", 0, 0, t) \in Operation
    BY OpOnType DEF Kinds
  <2>2. Resize(1) \in Seq(Unit)
    BY ResizeType
  <2> QED BY <1>1, <1>4, <2>1, <2>2, CloseThenType DEF SocketTypeOK
<1> QED BY <1>2, <1>3, <1>4 DEF Deliver

\* The handlers do.
LEMMA HandleReadHeaderType ==
  ASSUME SocketTypeOK, NEW o \in ops, HandleReadHeader(o)
  PROVE  SocketTypeOK'
<1>1. PICK t \in FreshTicket :
        \/ /\ o.res = "error"
           /\ CloseThen(ops \ {o}, {}, t)
           /\ UNCHANGED readVars
        \/ \E size \in HeaderSizes(o) :
             \/ /\ AsyncReadData(ops \ {o}, t)
                /\ UNCHANGED <<socket, disconnects, delivered>>
             \/ Deliver(o, ops \ {o}, t)
  BY DEF HandleReadHeader
<1>2. t \in Tickets /\ ops \ {o} \in SUBSET Operation
  BY FreshTicketIsTicket DEF SocketTypeOK
<1>3. UNCHANGED <<alive, writeVars, netVars>>
  BY DEF HandleReadHeader
<1>4. CASE CloseThen(ops \ {o}, {}, t) /\ UNCHANGED readVars
  <2>1. socket' = 0 /\ ops' \subseteq Operation /\ disconnects' \in Nat
    BY <1>2, <1>4, CloseThenType
  <2> QED BY <1>3, <1>4, <2>1 DEF SocketTypeOK, writeVars, netVars, readVars
<1>5. CASE AsyncReadData(ops \ {o}, t) /\ UNCHANGED <<socket, disconnects, delivered>>
  <2>1. ops' \subseteq Operation /\ readPacket' \in Seq(Unit) /\ reading' \in BOOLEAN
    BY <1>2, <1>5, ReadDataType
  <2> QED BY <1>3, <1>5, <2>1 DEF SocketTypeOK, writeVars, netVars
<1>6. CASE Deliver(o, ops \ {o}, t)
  <2>1. /\ ops' \subseteq Operation /\ socket' \in Conn \cup {0} /\ disconnects' \in Nat
        /\ readPacket' \in Seq(Unit) /\ reading' \in BOOLEAN
        /\ delivered' \in [Conn -> Seq(Seq(Unit))]
    BY <1>2, <1>6, DeliverType
  <2> QED BY <1>3, <2>1 DEF SocketTypeOK, writeVars, netVars
<1> QED BY <1>1, <1>4, <1>5, <1>6

\* The handler of a body does, like that of a header.
LEMMA HandleReadDataType ==
  ASSUME SocketTypeOK, NEW o \in ops, HandleReadData(o)
  PROVE  SocketTypeOK'
<1>1. PICK t \in FreshTicket :
        \/ CloseThen(ops \ {o}, {}, t) /\ UNCHANGED readVars
        \/ /\ AsyncReadHeader(ops \ {o}, socket, t)
           /\ UNCHANGED <<socket, disconnects, delivered>>
        \/ Deliver(o, ops \ {o}, t)
  BY DEF HandleReadData
<1>2. t \in Tickets /\ ops \ {o} \in SUBSET Operation
  BY FreshTicketIsTicket DEF SocketTypeOK
<1>3. UNCHANGED <<alive, writeVars, netVars>>
  BY DEF HandleReadData
<1>4. CASE CloseThen(ops \ {o}, {}, t) /\ UNCHANGED readVars
  <2>1. socket' = 0 /\ ops' \subseteq Operation /\ disconnects' \in Nat
    BY <1>2, <1>4, CloseThenType
  <2> QED BY <1>3, <1>4, <2>1 DEF SocketTypeOK, writeVars, netVars, readVars
<1>5. CASE /\ AsyncReadHeader(ops \ {o}, socket, t)
           /\ UNCHANGED <<socket, disconnects, delivered>>
  <2>1. ops' \subseteq Operation /\ readPacket' \in Seq(Unit) /\ reading' \in BOOLEAN
    BY <1>2, <1>5, ReadHeaderType DEF SocketTypeOK
  <2> QED BY <1>3, <1>5, <2>1 DEF SocketTypeOK, writeVars, netVars
<1>6. CASE Deliver(o, ops \ {o}, t)
  <2>1. /\ ops' \subseteq Operation /\ socket' \in Conn \cup {0} /\ disconnects' \in Nat
        /\ readPacket' \in Seq(Unit) /\ reading' \in BOOLEAN
        /\ delivered' \in [Conn -> Seq(Seq(Unit))]
    BY <1>2, <1>6, DeliverType
  <2> QED BY <1>3, <2>1 DEF SocketTypeOK, writeVars, netVars
<1> QED BY <1>1, <1>4, <1>5, <1>6

\* Writing keeps its variables typed; a successful write finds its packet at
\* the front of the queue, so the queue it pops is not empty.
LEMMA AsyncWriteType ==
  ASSUME SocketTypeOK, AsyncWrite
  PROVE  SocketTypeOK'
<1> DEFINE p == Len(submitted) + 1
<1>1. PICK t \in FreshTicket :
        \/ /\ writePackets' = Append(writePackets, p)
           /\ submitted' = Append(submitted, socket)
           /\ \/ ops' = ops /\ writeFailed' \in BOOLEAN
              \/ ops' = ops \cup {OpOn("write", socket, p, t)} /\ UNCHANGED writeFailed
           /\ UNCHANGED <<socket, disconnects>>
        \/ /\ \/ CloseThen(ops, {}, t)
              \/ CloseThen(ops, {OpOn("write", 0, 0, t)}, t)
           /\ UNCHANGED <<writePackets, submitted, writeFailed>>
  BY DEF AsyncWrite, Pushed, WriteInProgress, SocketTypeOK
<1>2. t \in Tickets /\ p \in Packet
  BY FreshTicketIsTicket, BoundsAssumption DEF AsyncWrite, SocketTypeOK, Packet
<1>3. UNCHANGED <<alive, sent, readVars, netVars>>
  BY DEF AsyncWrite, Pushed, WriteInProgress
<1>4. CASE /\ writePackets' = Append(writePackets, p)
           /\ submitted' = Append(submitted, socket)
           /\ \/ ops' = ops /\ writeFailed' \in BOOLEAN
              \/ ops' = ops \cup {OpOn("write", socket, p, t)} /\ UNCHANGED writeFailed
           /\ UNCHANGED <<socket, disconnects>>
  <2> HIDE DEF p
  <2>1. OpOn("write", socket, p, t) \in Operation
    BY <1>2, OpOnType DEF Kinds, SocketTypeOK
  <2>2. writePackets' \in Seq(Packet) /\ submitted' \in Seq(Conn \cup {0})
    BY <1>2, <1>4 DEF SocketTypeOK
  <2>3. ops' \subseteq Operation /\ writeFailed' \in BOOLEAN
    BY <1>4, <2>1 DEF SocketTypeOK
  <2> QED BY <1>3, <1>4, <2>2, <2>3 DEF SocketTypeOK, readVars, netVars
<1>5. CASE /\ \/ CloseThen(ops, {}, t)
              \/ CloseThen(ops, {OpOn("write", 0, 0, t)}, t)
           /\ UNCHANGED <<writePackets, submitted, writeFailed>>
  <2>1. OpOn("write", 0, 0, t) \in Operation
    BY <1>2, OpOnType DEF Kinds
  <2>2. socket' = 0 /\ ops' \subseteq Operation /\ disconnects' \in Nat
    BY <1>2, <1>5, <2>1, CloseThenType DEF SocketTypeOK
  <2> QED BY <1>3, <1>5, <2>2 DEF SocketTypeOK, readVars, netVars
<1> QED BY <1>1, <1>4, <1>5

\* The handler of a write does: the queue it pops is not empty.
LEMMA HandleWriteType ==
  ASSUME SocketTypeOK, OneWriteFromFront, NEW o \in ops, HandleWrite(o)
  PROVE  SocketTypeOK'
<1>1. PICK t \in FreshTicket :
        \/ /\ o.res = "ok"
           /\ writePackets' = Tail(writePackets)
           /\ sent' = Append(sent, [id |-> o.pkt, via |-> o.conn])
           /\ \/ ops' = ops \ {o} /\ writeFailed' \in BOOLEAN
              \/ /\ Len(writePackets) # 1
                 /\ ops' = (ops \ {o}) \cup
                           {OpOn("write", socket, writePackets[2], t)}
                 /\ UNCHANGED writeFailed
           /\ UNCHANGED <<socket, disconnects>>
        \/ /\ o.res = "error"
           /\ CloseThen(ops \ {o}, {}, t)
           /\ writeFailed' = TRUE
           /\ UNCHANGED <<writePackets, sent>>
  BY DEF HandleWrite, Popped, SocketTypeOK
<1>2. t \in Tickets /\ o \in Operation /\ o.kind = "write"
  BY FreshTicketIsTicket DEF SocketTypeOK, HandleWrite
<1>3. UNCHANGED <<alive, submitted, readVars, netVars>>
  BY DEF HandleWrite, Popped
<1>4. CASE /\ o.res = "ok"
           /\ writePackets' = Tail(writePackets)
           /\ sent' = Append(sent, [id |-> o.pkt, via |-> o.conn])
           /\ \/ ops' = ops \ {o} /\ writeFailed' \in BOOLEAN
              \/ /\ Len(writePackets) # 1
                 /\ ops' = (ops \ {o}) \cup
                           {OpOn("write", socket, writePackets[2], t)}
                 /\ UNCHANGED writeFailed
           /\ UNCHANGED <<socket, disconnects>>
  <2>1. writePackets \in Seq(Packet) /\ writePackets # <<>>
    BY <1>2, <1>4 DEF SocketTypeOK, OneWriteFromFront, LiveWrites
  <2>2. writePackets' \in Seq(Packet)
    BY <1>4, <2>1
  <2>3. [id |-> o.pkt, via |-> o.conn] \in [id : Packet \cup {0}, via : Conn \cup {0}]
    BY <1>2 DEF Operation
  <2>4. sent' \in Seq([id : Packet \cup {0}, via : Conn \cup {0}])
    BY <1>4, <2>3 DEF SocketTypeOK
  <2>5. ops' \subseteq Operation /\ writeFailed' \in BOOLEAN
    <3>1. CASE ops' = ops \ {o} /\ writeFailed' \in BOOLEAN
      BY <3>1 DEF SocketTypeOK
    <3>2. CASE /\ Len(writePackets) # 1
               /\ ops' = (ops \ {o}) \cup {OpOn("write", socket, writePackets[2], t)}
               /\ UNCHANGED writeFailed
      <4>1. Len(writePackets) \in Nat /\ Len(writePackets) # 0
        BY <2>1
      <4>2. 2 \in 1..Len(writePackets)
        <5>1. \A n \in Nat : n # 0 /\ n # 1 => 2 \in 1..n
          OBVIOUS
        <5> QED BY <3>2, <4>1, <5>1
      <4>3. writePackets[2] \in Packet
        BY <2>1, <4>2, ElementOfSeq
      <4>4. OpOn("write", socket, writePackets[2], t) \in Operation
        BY <1>2, <4>3, OpOnType DEF Kinds, SocketTypeOK
      <4> QED BY <3>2, <4>4 DEF SocketTypeOK
    <3> QED BY <1>4, <3>1, <3>2
  <2> QED BY <1>3, <1>4, <2>2, <2>4, <2>5 DEF SocketTypeOK, readVars, netVars
<1>5. CASE /\ CloseThen(ops \ {o}, {}, t)
           /\ writeFailed' = TRUE
           /\ UNCHANGED <<writePackets, sent>>
  <2>1. socket' = 0 /\ ops' \subseteq Operation /\ disconnects' \in Nat
    BY <1>2, <1>5, CloseThenType DEF SocketTypeOK
  <2> QED BY <1>3, <1>5, <2>1 DEF SocketTypeOK, readVars, netVars
<1> QED BY <1>1, <1>4, <1>5

\* So do the network's steps.
LEMMA CompleteType ==
  ASSUME SocketTypeOK, NEW o \in ops, NEW res \in Results, Complete(o, res)
  PROVE  ops' \subseteq Operation
<1>1. [o EXCEPT !.res = res] \in Operation
  BY DEF SocketTypeOK, Operation
<1> QED BY <1>1 DEF Complete, SocketTypeOK

\* Frames, losses and completions of reads and writes do.
LEMMA NetworkType ==
  ASSUME SocketTypeOK, Network
  PROVE  SocketTypeOK'
<1>1. CASE \E c \in Conn : ConnectionLost(c) \/ PeerStopsReading(c) \/ PeerReadsOn(c)
  <2>1. PICK c \in Conn, state \in Links : link' = [link EXCEPT ![c] = state]
    BY <1>1 DEF ConnectionLost, PeerStopsReading, PeerReadsOn, Links
  <2>2. link' \in [Conn -> Links]
    BY <2>1 DEF SocketTypeOK
  <2> QED BY <1>1, <2>2
          DEF ConnectionLost, PeerStopsReading, PeerReadsOn, SocketTypeOK, sockVars,
              writeVars, readVars
<1>2. ASSUME NEW c \in Conn, NEW s \in Size, PeerSends(c, s)
      PROVE  SocketTypeOK'
  <2>1. frames[c] \in Seq(Size) /\ unread[c] \in Seq(Unit)
    BY DEF SocketTypeOK
  <2>2. Len(frames[c]) + 1 \in 1..MaxFrames
    BY <1>2, <2>1, BoundsAssumption DEF PeerSends
  <2>3. unread[c] \o Frame(Len(frames[c]) + 1, s) \in Seq(Unit)
    BY <2>1, <2>2, FrameType
  <2>4. unread' \in [Conn -> Seq(Unit)]
    BY <1>2, <2>3 DEF PeerSends, SocketTypeOK
  <2>5. frames' \in [Conn -> Seq(Size)]
    BY <1>2, <2>1 DEF PeerSends, SocketTypeOK
  <2> QED BY <1>2, <2>4, <2>5 DEF PeerSends, SocketTypeOK, sockVars, writeVars, readVars
<1>3. ASSUME NEW o \in ops, CompleteRead(o)
      PROVE  SocketTypeOK'
  <2>1. UNCHANGED <<alive, socket, disconnects, writeVars, delivered, reading,
                    link, frames>>
    BY <1>3 DEF CompleteRead
  <2>2. ops' \subseteq Operation
    BY <1>3, CompleteType DEF CompleteRead, Results
  <2>3. readPacket' \in Seq(Unit) /\ unread' \in [Conn -> Seq(Unit)]
    <3>1. CASE UNCHANGED <<readPacket, unread>>
      BY <3>1 DEF SocketTypeOK
    <3>2. CASE /\ unread[o.conn] # <<>>
               /\ readPacket' = [i \in DOMAIN readPacket |->
                      IF i = o.at THEN Head(unread[o.conn]) ELSE readPacket[i]]
               /\ unread' = [unread EXCEPT ![o.conn] = Tail(@)]
      <4>1. o.conn \in Conn
        BY <1>3 DEF CompleteRead
      <4>2. Head(unread[o.conn]) \in Unit /\ Tail(unread[o.conn]) \in Seq(Unit)
        BY <3>2, <4>1 DEF SocketTypeOK
      <4>3. unread' \in [Conn -> Seq(Unit)]
        BY <3>2, <4>1, <4>2 DEF SocketTypeOK
      <4>4. readPacket' \in Seq(Unit)
        <5> DEFINE n == Len(readPacket)
        <5>1. n \in Nat /\ DOMAIN readPacket = 1..n /\ \A i \in 1..n : readPacket[i] \in Unit
          BY DEF SocketTypeOK
        <5>2. readPacket' = [i \in 1..n |->
                               IF i = o.at THEN Head(unread[o.conn]) ELSE readPacket[i]]
          BY <3>2, <5>1
        <5> QED BY <4>2, <5>1, <5>2
      <4> QED BY <4>3, <4>4
    <3> QED BY <1>3, <3>1, <3>2 DEF CompleteRead
  <2> QED BY <2>1, <2>2, <2>3 DEF SocketTypeOK, writeVars
<1>4. ASSUME NEW o \in ops, CompleteWrite(o)
      PROVE  SocketTypeOK'
  <2>1. ops' \subseteq Operation
    BY <1>4, CompleteType DEF CompleteWrite, Results
  <2> QED BY <1>4, <2>1
          DEF CompleteWrite, SocketTypeOK, writeVars, readVars, netVars
<1> QED BY <1>1, <1>2, <1>3, <1>4 DEF Network

\* And so do the steps of the acceptor.
LEMMA AcceptTypes ==
  ASSUME TypeOK,
         NEW o \in ops,
         CompleteAccept(o) \/ RejectConnection(o) \/ FilterThrows(o) \/ HandleAccept(o)
  PROVE  TypeOK'
<1>1. CASE CompleteAccept(o)
  <2>1. /\ arrived' \in 0..MaxConn
        /\ link' \in [Conn -> Links]
        /\ ops' \subseteq Operation
    <3>1. CASE Complete(o, "error") /\ UNCHANGED <<arrived, link>>
      <4>1. ops' \subseteq Operation
        BY <3>1, CompleteType DEF TypeOK, Results
      <4> QED BY <3>1, <4>1 DEF TypeOK, SocketTypeOK
    <3>2. CASE /\ arrived < MaxConn
               /\ arrived' = arrived + 1
               /\ link' = [link EXCEPT ![arrived + 1] = "up"]
               /\ ops' = (ops \ {o}) \cup {[o EXCEPT !.res = "ok", !.conn = arrived + 1]}
      <4>1. arrived + 1 \in Conn
        BY <3>2, BoundsAssumption DEF TypeOK, Conn
      <4>2. [o EXCEPT !.res = "ok", !.conn = arrived + 1] \in Operation
        BY <4>1 DEF TypeOK, SocketTypeOK, Operation, Results
      <4>3. arrived' \in 0..MaxConn
        BY <3>2, <4>1, BoundsAssumption DEF Conn
      <4>4. link' \in [Conn -> Links]
        BY <3>2 DEF TypeOK, SocketTypeOK, Links
      <4> QED BY <3>2, <4>2, <4>3, <4>4 DEF TypeOK, SocketTypeOK
    <3> QED BY <1>1, <3>1, <3>2 DEF CompleteAccept
  <2> QED BY <1>1, <2>1
          DEF CompleteAccept, TypeOK, SocketTypeOK, writeVars, readVars
<1>2. CASE RejectConnection(o)
  <2>1. ops' \subseteq Operation
    BY <1>2, FreshTicketIsTicket, AcceptOpType DEF RejectConnection, TypeOK, SocketTypeOK
  <2> QED BY <1>2, <2>1
          DEF RejectConnection, TypeOK, SocketTypeOK, writeVars, readVars, netVars, acceptVars
<1>3. CASE HandleAccept(o)
  <2>1. PICK t \in FreshTicket :
          LET rest == IF socket = 0 THEN ops \ {o}
                      ELSE Abort(ops \ {o}, socket) \cup DisconnectCallback(t)
          IN  /\ socket' = o.conn
              /\ disconnects' = IF socket = 0 THEN disconnects ELSE disconnects + 1
              /\ installed' = IF o.conn = 0 THEN installed ELSE installed + 1
              /\ StartReading(rest, o.conn, t)
    BY <1>3 DEF HandleAccept
  <2> DEFINE rest == IF socket = 0 THEN ops \ {o}
                     ELSE Abort(ops \ {o}, socket) \cup DisconnectCallback(t)
  <2>2. t \in Tickets /\ ops \ {o} \in SUBSET Operation
    BY FreshTicketIsTicket DEF TypeOK, SocketTypeOK
  <2>3. rest \in SUBSET Operation
    BY <2>2, AbortType, CallbackType
  <2>4. o.conn \in Conn \cup {0}
    BY DEF TypeOK, SocketTypeOK, Operation
  <2>5. StartReading(rest, o.conn, t)
    BY <2>1
  <2> HIDE DEF rest
  <2>6. ops' \subseteq Operation /\ readPacket' \in Seq(Unit) /\ reading' \in BOOLEAN
    BY <2>2, <2>3, <2>4, <2>5, ReadHeaderType DEF TypeOK
  <2>7. socket' \in Conn \cup {0} /\ disconnects' \in Nat /\ installed' \in Nat
    BY <2>1, <2>4 DEF TypeOK, SocketTypeOK
  <2> QED BY <1>3, <2>6, <2>7 DEF HandleAccept, TypeOK, SocketTypeOK, writeVars, netVars
<1>4. CASE FilterThrows(o)
  BY <1>4 DEF FilterThrows, TypeOK, SocketTypeOK, writeVars, readVars, netVars, acceptVars
<1> QED BY <1>1, <1>2, <1>3, <1>4

\* An async_accept of the application does.
LEMMA AsyncAcceptType ==
  ASSUME TypeOK, AsyncAccept
  PROVE  TypeOK'
<1>1. ops' \subseteq Operation
  BY FreshTicketIsTicket, AcceptOpType DEF AsyncAccept, TypeOK, SocketTypeOK
<1> QED BY <1>1
        DEF AsyncAccept, TypeOK, SocketTypeOK, writeVars, readVars, netVars, acceptVars

\* Closing and destroying do.
LEMMA CloseType ==
  ASSUME SocketTypeOK, Close \/ Destroy
  PROVE  SocketTypeOK'
<1>1. CASE Close
  <2>1. PICK t \in FreshTicket : CloseThen(ops, {}, t)
    BY <1>1 DEF Close
  <2>2. socket' = 0 /\ ops' \subseteq Operation /\ disconnects' \in Nat
    BY <2>1, FreshTicketIsTicket, CloseThenType DEF SocketTypeOK
  <2> QED BY <1>1, <2>2 DEF Close, SocketTypeOK, writeVars, readVars, netVars
<1>2. CASE Destroy
  <2>1. ops' \subseteq Operation
    BY <1>2, AbortType DEF Destroy, SocketTypeOK
  <2> QED BY <1>2, <2>1 DEF Destroy, SocketTypeOK, writeVars, readVars, netVars
<1> QED BY <1>1, <1>2

\* The steps of the acceptor change no variable of the write queue; a step of
\* the base class no variable of the acceptor.
LEMMA TypeStep ==
  ASSUME TypeOK, OneWriteFromFront, [Next]_serverVars
  PROVE  TypeOK'
<1>1. CASE \E o \in ops : \/ CompleteAccept(o) \/ RejectConnection(o)
                        \/ FilterThrows(o) \/ HandleAccept(o)
  BY <1>1, AcceptTypes
<1>2. CASE AsyncAccept
  BY <1>2, AsyncAcceptType
<1>3. CASE (Close \/ Destroy \/ AsyncWrite \/ Network \/ Handlers) /\ UNCHANGED acceptVars
  <2>1. SocketTypeOK'
    <3>1. CASE Close \/ Destroy
      BY <3>1, CloseType DEF TypeOK
    <3>2. CASE AsyncWrite
      BY <3>2, AsyncWriteType DEF TypeOK
    <3>3. CASE Network
      BY <3>3, NetworkType DEF TypeOK
    <3>4. CASE Handlers
      BY <3>4, HandleReadHeaderType, HandleReadDataType, HandleWriteType
         DEF Handlers, TypeOK
    <3> QED BY <1>3, <3>1, <3>2, <3>3, <3>4
  <2> QED BY <1>3, <2>1 DEF TypeOK, acceptVars
<1>4. CASE UNCHANGED serverVars
  BY <1>4 DEF TypeOK, SocketTypeOK, serverVars, vars, acceptVars, sockVars, writeVars,
              readVars, netVars
<1> QED BY <1>1, <1>2, <1>3, <1>4 DEF Next

\* The constructor types every variable.
LEMMA TypeInit == Init => TypeOK
<1> SUFFICES ASSUME Init PROVE TypeOK
  OBVIOUS
<1>1. AcceptOp(0) \in Operation
  BY AcceptOpType, BoundsAssumption DEF Tickets
<1>2. /\ <<>> \in Seq(Packet) /\ <<>> \in Seq(Unit) /\ <<>> \in Seq(Conn \cup {0})
      /\ <<>> \in Seq([id : Packet \cup {0}, via : Conn \cup {0}])
      /\ <<>> \in Seq(Seq(Unit)) /\ <<>> \in Seq(Size)
  OBVIOUS
<1>3. 0 \in 0..MaxConn
  BY BoundsAssumption
<1> QED BY <1>1, <1>2, <1>3 DEF Init, SocketInit, TypeOK, SocketTypeOK, Links

-----------------------------------------------------------------------------
(* The write queue.  A step that starts no write can only make live writes  *)
(* fewer, since closing the socket turns pending ones into errors.          *)

LiveWrite(w) == w.kind = "write" /\ w.res # "error"

NoNewWrite(rest) == \A w \in ops' : LiveWrite(w) => w \in rest

\* close() starts no write.
LEMMA CloseThenQuiet ==
  ASSUME NEW rest \in SUBSET Operation, NEW started, NEW t \in Tickets,
         \A s \in started : ~LiveWrite(s), CloseThen(rest, started, t)
  PROVE  NoNewWrite(rest)
<1> SUFFICES ASSUME NEW w \in ops', LiveWrite(w)
             PROVE  w \in rest
  BY DEF NoNewWrite
<1>1. w \notin started
  OBVIOUS
<1>2. w \notin DisconnectCallback(t)
  BY CallbackType DEF LiveWrite
<1>3. CASE w \in Abort(rest, socket)
  BY <1>3, AbortKeeps DEF LiveWrite
<1> QED BY <1>1, <1>2, <1>3 DEF CloseThen

\* Neither does reading a header.
LEMMA ReadQuiet ==
  ASSUME NEW rest, NEW c, NEW t,
         AsyncReadHeader(rest, c, t) \/ StartReading(rest, c, t)
  PROVE  NoNewWrite(rest)
  BY DEF NoNewWrite, LiveWrite, AsyncReadHeader, StartReading, OpOn

\* Nor reading a body, wherever the buffer goes.
LEMMA ReadDataQuiet ==
  ASSUME NEW rest \in SUBSET Operation, NEW t, AsyncReadData(rest, t)
  PROVE  NoNewWrite(rest)
<1>1. CASE AsyncReadHeader(rest, socket, t)
  BY <1>1, ReadQuiet
<1>2. ASSUME NEW others \in Grown(rest),
             ops' = others \/ ops' = others \cup {OpOn("data", socket, 0, t)}
      PROVE  NoNewWrite(rest)
  <2>1. ~LiveWrite(OpOn("data", socket, 0, t))
    BY DEF LiveWrite, OpOn
  <2>2. \A w \in others : LiveWrite(w) => w \in rest
    BY GrownAlike DEF LiveWrite, Like, IsRead
  <2> QED BY <1>2, <2>1, <2>2 DEF NoNewWrite
<1> QED BY <1>1, <1>2 DEF AsyncReadData

\* Giving a packet to the callback leaves the write queue alone.
LEMMA DeliverQuiet ==
  ASSUME NEW o, NEW rest \in SUBSET Operation, NEW t \in Tickets, Deliver(o, rest, t)
  PROVE  NoNewWrite(rest)
<1>1. CASE AsyncReadHeader(rest, socket, t)
  BY <1>1, ReadQuiet
<1>2. CASE ops' = rest
  BY <1>2 DEF NoNewWrite
<1>3. CASE CloseThen(rest, {OpOn("header", 0, 0, t)}, t)
  <2>1. ~LiveWrite(OpOn("header", 0, 0, t))
    BY DEF LiveWrite, OpOn
  <2> QED BY <1>3, <2>1, CloseThenQuiet
<1> QED BY <1>1, <1>2, <1>3 DEF Deliver

\* The steps that leave the queue alone start no write.
Quiet == NoNewWrite(ops) /\ UNCHANGED <<writePackets, submitted, sent>>

\* Both read handlers leave the write queue alone.
LEMMA ReadHandlersQuiet ==
  ASSUME SocketTypeOK, NEW o \in ops, HandleReadHeader(o) \/ HandleReadData(o)
  PROVE  Quiet
<1>1. PICK t \in FreshTicket :
        \/ CloseThen(ops \ {o}, {}, t)
        \/ AsyncReadData(ops \ {o}, t)
        \/ AsyncReadHeader(ops \ {o}, socket, t)
        \/ Deliver(o, ops \ {o}, t)
  BY DEF HandleReadHeader, HandleReadData
<1>2. t \in Tickets /\ ops \ {o} \in SUBSET Operation
  BY FreshTicketIsTicket DEF SocketTypeOK
<1>3. NoNewWrite(ops \ {o})
  BY <1>1, <1>2, CloseThenQuiet, ReadQuiet, ReadDataQuiet, DeliverQuiet
<1> QED BY <1>3 DEF NoNewWrite, Quiet, HandleReadHeader, HandleReadData, writeVars

\* Closing and destroying the socket starts no write.
LEMMA CloseQuiet ==
  ASSUME SocketTypeOK, Close \/ Destroy
  PROVE  Quiet
<1>1. CASE Close
  <2>1. PICK t \in FreshTicket : CloseThen(ops, {}, t)
    BY <1>1 DEF Close
  <2>2. t \in Tickets /\ ops \in SUBSET Operation
    BY FreshTicketIsTicket DEF SocketTypeOK
  <2>3. NoNewWrite(ops)
    BY <2>1, <2>2, CloseThenQuiet
  <2> QED BY <1>1, <2>3 DEF Quiet, Close, writeVars
<1>2. CASE Destroy
  BY <1>2, AbortKeeps DEF Destroy, Quiet, NoNewWrite, LiveWrite, SocketTypeOK, writeVars
<1> QED BY <1>1, <1>2

\* Nor does accepting a connection, which may close another.
LEMMA AcceptQuiet ==
  ASSUME TypeOK,
         \/ \E o \in ops : \/ CompleteAccept(o) \/ RejectConnection(o)
                         \/ FilterThrows(o) \/ HandleAccept(o)
         \/ AsyncAccept
  PROVE  Quiet
<1>1. CASE AsyncAccept
  BY <1>1 DEF AsyncAccept, AcceptOp, Quiet, NoNewWrite, LiveWrite, writeVars
<1>2. ASSUME NEW o \in ops, CompleteAccept(o)
      PROVE  Quiet
  <2>1. o \in Operation /\ o.kind = "accept"
    BY <1>2 DEF CompleteAccept, Accepts, TypeOK, SocketTypeOK
  <2> DEFINE failed == [o EXCEPT !.res = "error"]
             taken  == [o EXCEPT !.res = "ok", !.conn = arrived + 1]
  <2>2. failed.kind = "accept" /\ taken.kind = "accept"
    BY <2>1 DEF Operation
  <2> HIDE DEF failed, taken
  <2>3. ops' = (ops \ {o}) \cup {failed} \/ ops' = (ops \ {o}) \cup {taken}
    BY <1>2 DEF CompleteAccept, Complete, failed, taken
  <2> QED BY <1>2, <2>2, <2>3 DEF CompleteAccept, Quiet, NoNewWrite, LiveWrite, writeVars
<1>3. ASSUME NEW o \in ops, RejectConnection(o) \/ FilterThrows(o)
      PROVE  Quiet
  BY <1>3 DEF RejectConnection, FilterThrows, AcceptOp, Quiet, NoNewWrite, LiveWrite, writeVars
<1>4. ASSUME NEW o \in ops, HandleAccept(o)
      PROVE  Quiet
  <2> DEFINE rest(t) == IF socket = 0 THEN ops \ {o}
                        ELSE Abort(ops \ {o}, socket) \cup DisconnectCallback(t)
  <2>1. PICK t \in FreshTicket : StartReading(rest(t), o.conn, t)
    BY <1>4 DEF HandleAccept
  <2>2. NoNewWrite(rest(t))
    BY <2>1, ReadQuiet
  <2>3. t \in Tickets /\ ops \ {o} \in SUBSET Operation
    BY FreshTicketIsTicket DEF TypeOK, SocketTypeOK
  <2>4. \A w \in rest(t) : LiveWrite(w) => w \in ops
    BY <2>3, AbortKeeps, CallbackType DEF LiveWrite
  <2> QED BY <1>4, <2>2, <2>4 DEF HandleAccept, Quiet, NoNewWrite, writeVars
<1> QED BY <1>1, <1>2, <1>3, <1>4

\* A quiet step keeps the queue in order and its front alive.
LEMMA QuietKeeps ==
  ASSUME WriteFifo, OneWriteFromFront, Quiet
  PROVE  WriteFifo' /\ OneWriteFromFront'
<1>1. LiveWrites' \subseteq LiveWrites
  BY DEF LiveWrites, Quiet, NoNewWrite, LiveWrite
<1>2. OneWriteFromFront'
  BY <1>1 DEF OneWriteFromFront, Quiet
<1>3. WriteFifo'
  BY DEF WriteFifo, Quiet
<1> QED BY <1>2, <1>3

\* Appending to a queue leaves its front alone.
LEMMA AppendKeepsFront ==
  ASSUME NEW S, NEW q \in Seq(S), NEW x, q # <<>>
  PROVE  Append(q, x) # <<>> /\ Head(Append(q, x)) = Head(q)
<1>1. Len(q) \in Nat /\ Len(q) # 0
  OBVIOUS
<1>2. Len(Append(q, x)) = Len(q) + 1
  OBVIOUS
<1>3. Append(q, x) # <<>>
  BY <1>1, <1>2
<1>4. Append(q, x)[1] = q[1]
  BY <1>1
<1> QED BY <1>3, <1>4

\* async_write appends to the queue; it starts a write only when no other can be
\* live, because the queue was empty.
LEMMA AsyncWriteKeeps ==
  ASSUME SocketTypeOK, WriteFifo, OneWriteFromFront, AsyncWrite
  PROVE  WriteFifo' /\ OneWriteFromFront'
<1> DEFINE p == Len(submitted) + 1
<1>1. PICK t \in FreshTicket :
        \/ /\ writePackets' = Append(writePackets, p)
           /\ submitted' = Append(submitted, socket)
           /\ \/ ops' = ops
              \/ writePackets = <<>> /\ ops' = ops \cup {OpOn("write", socket, p, t)}
        \/ /\ \/ CloseThen(ops, {}, t)
              \/ CloseThen(ops, {OpOn("write", 0, 0, t)}, t)
           /\ UNCHANGED <<writePackets, submitted>>
  BY DEF AsyncWrite, Pushed, WriteInProgress
<1>2. UNCHANGED sent
  BY DEF AsyncWrite, Pushed, WriteInProgress
<1>3. CASE /\ writePackets' = Append(writePackets, p)
           /\ submitted' = Append(submitted, socket)
           /\ \/ ops' = ops
              \/ writePackets = <<>> /\ ops' = ops \cup {OpOn("write", socket, p, t)}
  <2>1. WriteFifo'
    <3>1. /\ Len(submitted') = Len(submitted) + 1
          /\ Len(writePackets') = Len(writePackets) + 1
          /\ \A i \in 1..Len(writePackets) : writePackets'[i] = writePackets[i]
          /\ writePackets'[Len(writePackets) + 1] = p
      BY <1>3 DEF SocketTypeOK
    <3>2. Len(sent) \in Nat /\ Len(writePackets) \in Nat /\ Len(submitted) \in Nat
      BY DEF SocketTypeOK
    <3> DEFINE n == Len(sent)  m == Len(writePackets)
    <3> HIDE DEF n, m
    <3>3. Len(sent') + Len(writePackets') = Len(submitted')
      <4>1. n + m = Len(submitted) /\ Len(sent') = n /\ n \in Nat /\ m \in Nat
        BY <1>2, <3>2 DEF WriteFifo, n, m
      <4>2. Len(writePackets') = m + 1 /\ Len(submitted') = Len(submitted) + 1
        BY <3>1 DEF m
      <4> QED BY <4>1, <4>2
    <3>4. ASSUME NEW i \in 1..Len(writePackets')
          PROVE  writePackets'[i] = Len(sent') + i
      <4>1. i \in 1..Len(writePackets) \/ i = Len(writePackets) + 1
        BY <3>1, <3>2
      <4>2. CASE i \in 1..Len(writePackets)
        BY <1>2, <3>1, <4>2 DEF WriteFifo
      <4>3. CASE i = Len(writePackets) + 1
        <5>1. writePackets'[i] = Len(submitted) + 1
          BY <3>1, <4>3
        <5>2. n + m = Len(submitted) /\ Len(sent') = n /\ i = m + 1
          BY <1>2, <4>3 DEF WriteFifo, n, m
        <5>3. n \in Nat /\ m \in Nat
          BY <3>2 DEF n, m
        <5> QED BY <5>1, <5>2, <5>3
      <4> QED BY <4>1, <4>2, <4>3
    <3>5. \A i \in 1..Len(sent') : sent'[i].id = i
      BY <1>2 DEF WriteFifo
    <3> QED BY <3>3, <3>4, <3>5 DEF WriteFifo
  <2>2. OneWriteFromFront'
    <3>1. CASE ops' = ops
      <4>1. LiveWrites' = LiveWrites
        BY <3>1 DEF LiveWrites
      <4>2. ASSUME writePackets # <<>>
            PROVE  writePackets' # <<>> /\ Head(writePackets') = Head(writePackets)
        <5>1. writePackets \in Seq(Packet)
          BY DEF SocketTypeOK
        <5>2. writePackets' = Append(writePackets, p)
          BY <1>3
        <5> HIDE DEF p
        <5> QED BY <4>2, <5>1, <5>2, AppendKeepsFront
      <4> QED BY <4>1, <4>2 DEF OneWriteFromFront
    <3>2. CASE writePackets = <<>> /\ ops' = ops \cup {OpOn("write", socket, p, t)}
      <4>1. LiveWrites = {}
        BY <3>2 DEF OneWriteFromFront
      <4>2. \A w \in LiveWrites' : w = OpOn("write", socket, p, t)
        BY <3>2, <4>1 DEF LiveWrites
      <4>3. writePackets' = <<p>>
        BY <1>3, <3>2 DEF SocketTypeOK
      <4>4. OpOn("write", socket, p, t).pkt = p
        BY DEF OpOn
      <4> QED BY <4>2, <4>3, <4>4 DEF OneWriteFromFront
    <3> QED BY <1>3, <3>1, <3>2
  <2> QED BY <2>1, <2>2
<1>4. CASE /\ \/ CloseThen(ops, {}, t)
              \/ CloseThen(ops, {OpOn("write", 0, 0, t)}, t)
           /\ UNCHANGED <<writePackets, submitted>>
  <2>1. ~LiveWrite(OpOn("write", 0, 0, t))
    BY BoundsAssumption DEF LiveWrite, OpOn, Conn
  <2>2. t \in Tickets /\ ops \in SUBSET Operation
    BY FreshTicketIsTicket DEF SocketTypeOK
  <2>3. NoNewWrite(ops)
    BY <1>4, <2>1, <2>2, CloseThenQuiet
  <2> QED BY <1>2, <1>4, <2>3, QuietKeeps DEF Quiet
<1> QED BY <1>1, <1>3, <1>4

\* handle_write pops what was written, which is the front, and starts the next.
LEMMA HandleWriteKeeps ==
  ASSUME SocketTypeOK, WriteFifo, OneWriteFromFront, NEW o \in ops, HandleWrite(o)
  PROVE  WriteFifo' /\ OneWriteFromFront'
<1>1. PICK t \in FreshTicket :
        \/ /\ o.res = "ok"
           /\ writePackets' = Tail(writePackets)
           /\ sent' = Append(sent, [id |-> o.pkt, via |-> o.conn])
           /\ \/ ops' = ops \ {o}
              \/ /\ Len(writePackets) # 1
                 /\ ops' = (ops \ {o}) \cup
                           {OpOn("write", socket, writePackets[2], t)}
        \/ /\ o.res = "error"
           /\ CloseThen(ops \ {o}, {}, t)
           /\ UNCHANGED <<writePackets, sent>>
  BY DEF HandleWrite, Popped
<1>2. o.kind = "write" /\ UNCHANGED submitted
  BY DEF HandleWrite, Popped
<1>3. CASE /\ o.res = "ok"
           /\ writePackets' = Tail(writePackets)
           /\ sent' = Append(sent, [id |-> o.pkt, via |-> o.conn])
           /\ \/ ops' = ops \ {o}
              \/ /\ Len(writePackets) # 1
                 /\ ops' = (ops \ {o}) \cup
                           {OpOn("write", socket, writePackets[2], t)}
  <2>1. o \in LiveWrites
    BY <1>2, <1>3 DEF LiveWrites
  <2>2. /\ writePackets # <<>> /\ o.pkt = writePackets[1]
        /\ \A w \in LiveWrites : w = o
    BY <2>1 DEF OneWriteFromFront, SocketTypeOK
  <2>3. /\ Len(writePackets) \in Nat \ {0} /\ Len(sent) \in Nat /\ Len(submitted) \in Nat
        /\ Len(writePackets') = Len(writePackets) - 1
        /\ \A i \in 1..Len(writePackets') : writePackets'[i] = writePackets[i + 1]
    BY <1>3, <2>2 DEF SocketTypeOK
  <2>4. WriteFifo'
    <3>1. /\ Len(sent') = Len(sent) + 1
          /\ \A i \in 1..Len(sent) : sent'[i] = sent[i]
          /\ sent'[Len(sent) + 1].id = o.pkt
      BY <1>3 DEF SocketTypeOK
    <3>2. o.pkt = Len(sent) + 1
      BY <2>2, <2>3 DEF WriteFifo
    <3>3. Len(sent') + Len(writePackets') = Len(submitted')
      BY <1>2, <2>3, <3>1 DEF WriteFifo
    <3>4. ASSUME NEW i \in 1..Len(sent')
          PROVE  sent'[i].id = i
      <4>1. i \in 1..Len(sent) \/ i = Len(sent) + 1
        BY <2>3, <3>1
      <4>2. CASE i \in 1..Len(sent)
        BY <3>1, <4>2 DEF WriteFifo
      <4>3. CASE i = Len(sent) + 1
        BY <3>1, <3>2, <4>3
      <4> QED BY <4>1, <4>2, <4>3
    <3>5. ASSUME NEW i \in 1..Len(writePackets')
          PROVE  writePackets'[i] = Len(sent') + i
      <4>1. i + 1 \in 1..Len(writePackets)
        BY <2>3
      <4>2. writePackets[i + 1] = Len(sent) + (i + 1)
        BY <4>1 DEF WriteFifo
      <4> QED BY <2>3, <3>1, <4>2
    <3> QED BY <3>3, <3>4, <3>5 DEF WriteFifo
  <2>5. OneWriteFromFront'
    <3>1. CASE ops' = ops \ {o}
      BY <2>2, <3>1 DEF OneWriteFromFront, LiveWrites
    <3>2. CASE /\ Len(writePackets) # 1
               /\ ops' = (ops \ {o}) \cup {OpOn("write", socket, writePackets[2], t)}
      <4> DEFINE next == OpOn("write", socket, writePackets[2], t)
      <4>1. \A w \in LiveWrites' : w = next
        BY <2>2, <3>2 DEF LiveWrites
      <4>2. next.pkt = writePackets[2]
        BY DEF OpOn
      <4>3. 1 \in 1..Len(writePackets')
        <5>1. \A n \in Nat \ {0} : n # 1 => 1 \in 1..(n - 1)
          OBVIOUS
        <5> QED BY <2>3, <3>2, <5>1
      <4>4. writePackets' # <<>> /\ Head(writePackets') = writePackets[2]
        <5>1. writePackets'[1] = writePackets[2]
          BY <2>3, <4>3
        <5>2. writePackets' # <<>>
          BY <4>3
        <5> QED BY <5>1, <5>2
      <4> QED BY <4>1, <4>2, <4>4 DEF OneWriteFromFront
    <3> QED BY <1>3, <3>1, <3>2
  <2> QED BY <2>4, <2>5
<1>4. CASE /\ CloseThen(ops \ {o}, {}, t)
           /\ UNCHANGED <<writePackets, sent>>
  <2>1. t \in Tickets /\ ops \ {o} \in SUBSET Operation
    BY FreshTicketIsTicket DEF SocketTypeOK
  <2>2. NoNewWrite(ops \ {o})
    BY <1>4, <2>1, CloseThenQuiet
  <2> QED BY <1>2, <1>4, <2>2, QuietKeeps DEF Quiet, NoNewWrite
<1> QED BY <1>1, <1>3, <1>4

\* A completion does not touch the queue, and leaves the packet of a write alone.
LEMMA NetworkKeeps ==
  ASSUME SocketTypeOK, WriteFifo, OneWriteFromFront, Network
  PROVE  WriteFifo' /\ OneWriteFromFront'
<1>1. ASSUME NEW c \in Conn,
             \/ ConnectionLost(c) \/ PeerStopsReading(c) \/ PeerReadsOn(c)
             \/ \E s \in Size : PeerSends(c, s)
      PROVE  Quiet
  BY <1>1 DEF ConnectionLost, PeerStopsReading, PeerReadsOn, PeerSends, Quiet, NoNewWrite, sockVars, writeVars
<1>2. ASSUME NEW o \in ops, CompleteRead(o)
      PROVE  Quiet
  <2> DEFINE done(res) == [o EXCEPT !.res = res]
  <2>1. \A res \in Results : done(res).kind = o.kind
    BY DEF SocketTypeOK, Operation
  <2>2. o.kind # "write"
    BY <1>2 DEF CompleteRead, IsRead
  <2>3. \E res \in Results : ops' = (ops \ {o}) \cup {done(res)}
    BY <1>2 DEF CompleteRead, Complete, Results
  <2> HIDE DEF done
  <2> QED BY <1>2, <2>1, <2>2, <2>3 DEF CompleteRead, Quiet, NoNewWrite, LiveWrite, writeVars
<1>3. ASSUME NEW o \in ops, CompleteWrite(o)
      PROVE  WriteFifo' /\ OneWriteFromFront'
  <2> DEFINE done(res) == [o EXCEPT !.res = res]
  <2>1. \A res \in Results : done(res).pkt = o.pkt
    BY DEF SocketTypeOK, Operation
  <2>2. PICK res \in Results : ops' = (ops \ {o}) \cup {done(res)}
    BY <1>3 DEF CompleteWrite, Complete, Results
  <2> HIDE DEF done
  <2>3. o \in LiveWrites
    BY <1>3 DEF CompleteWrite, LiveWrites
  <2>4. \A w \in LiveWrites' : w = done(res)
    BY <2>2, <2>3 DEF OneWriteFromFront, LiveWrites
  <2>5. UNCHANGED <<writePackets, submitted, sent>>
    BY <1>3 DEF CompleteWrite, writeVars
  <2> QED BY <2>1, <2>3, <2>4, <2>5 DEF OneWriteFromFront, WriteFifo
<1> QED BY <1>1, <1>2, <1>3, QuietKeeps DEF Network

-----------------------------------------------------------------------------
(* The inductive invariant: types, order of the queue, and that a live      *)
(* write is the write of the queue's front.  WriteFifo alone is not         *)
(* inductive: without OneWriteFromFront a completion could pop a packet     *)
(* that is not the one written, or pop an empty queue.                      *)
IInv == TypeOK /\ WriteFifo /\ OneWriteFromFront

\* The constructor establishes the inductive invariant: the queue is empty.
LEMMA IInvInit == Init => IInv
<1> SUFFICES ASSUME Init PROVE WriteFifo /\ OneWriteFromFront
  BY TypeInit DEF IInv
<1>1. WriteFifo
  BY DEF Init, SocketInit, WriteFifo
<1>2. OneWriteFromFront
  BY DEF Init, OneWriteFromFront, LiveWrites, AcceptOp
<1> QED BY <1>1, <1>2

\* Every step keeps the inductive invariant: a quiet one, a write or a completion.
LEMMA IInvStep == IInv /\ [Next]_serverVars => IInv'
<1> SUFFICES ASSUME IInv, [Next]_serverVars PROVE WriteFifo' /\ OneWriteFromFront'
  BY TypeStep DEF IInv
<1> USE DEF IInv, TypeOK
<1>1. CASE \/ \E o \in ops : \/ CompleteAccept(o) \/ RejectConnection(o)
                           \/ FilterThrows(o) \/ HandleAccept(o)
           \/ AsyncAccept
  BY <1>1, AcceptQuiet, QuietKeeps
<1>2. CASE Close \/ Destroy
  BY <1>2, CloseQuiet, QuietKeeps
<1>3. CASE AsyncWrite
  BY <1>3, AsyncWriteKeeps
<1>4. CASE Network
  BY <1>4, NetworkKeeps
<1>5. CASE Handlers
  BY <1>5, ReadHandlersQuiet, QuietKeeps, HandleWriteKeeps DEF Handlers
<1>6. CASE UNCHANGED serverVars
  <2>1. Quiet
    BY <1>6 DEF Quiet, NoNewWrite, serverVars, vars, sockVars, writeVars
  <2> QED BY <2>1, QuietKeeps
<1> QED BY <1>1, <1>2, <1>3, <1>4, <1>5, <1>6 DEF Next

\* The variables of a server keep their types, whatever happens.
THEOREM TypeCorrect == Spec => []TypeOK
<1>1. IInv => TypeOK
  BY DEF IInv
<1> QED BY IInvInit, IInvStep, <1>1, PTL DEF Spec

\* Packets leave in the order of the async_write calls, none lost from the queue
\* and none twice: _write_packets and what was sent make up what was written.
THEOREM WritesInOrder == Spec => []WriteFifo
<1>1. IInv => WriteFifo
  BY DEF IInv
<1> QED BY IInvInit, IInvStep, <1>1, PTL DEF Spec

\* The buffer given to boost::asio::async_write outlives the write: it is the
\* front of the queue, and of no second write.
THEOREM WriteBufferAlive == Spec => []OneWriteFromFront
<1>1. IInv => OneWriteFromFront
  BY DEF IInv
<1> QED BY IInvInit, IInvStep, <1>1, PTL DEF Spec

-----------------------------------------------------------------------------
(* What the steps do to the operations, the socket and the buffer.          *)

\* The operations `rest` are still there after the step, completed perhaps.
Survive(rest) == \A r \in rest : \E p \in ops' : Like(p, r)

\* A started operation is what it was started as.
LEMMA OpOnFields ==
  ASSUME NEW kind, NEW c, NEW p, NEW t
  PROVE  /\ OpOn(kind, c, p, t).kind = kind
         /\ OpOn(kind, c, p, t).conn = c
         /\ OpOn(kind, c, p, t).pkt = p
         /\ OpOn(kind, c, p, t).ticket = t
         /\ OpOn(kind, c, p, t).at = PlaceOf(kind)
  BY DEF OpOn

\* So is a started async_accept.
LEMMA AcceptOpFields ==
  \A t : AcceptOp(t).kind = "accept" /\ AcceptOp(t).conn = 0 /\ AcceptOp(t).res = "pending"
  BY DEF AcceptOp

\* Nothing is left of a queue of one.
LEMMA TailOfOne ==
  ASSUME NEW S, NEW q \in Seq(S), Len(q) = 1
  PROVE  Tail(q) = <<>>
<1>1. q # <<>>
  OBVIOUS
<1>2. Tail(q) \in Seq(S)
  BY <1>1
<1>3. Len(Tail(q)) = 0
  BY <1>1
<1> QED BY <1>2, <1>3, EmptySeq

\* Closing a connection leaves the operations as they are but for their result.
LEMMA AbortSurvive ==
  ASSUME NEW rest \in SUBSET Operation, NEW c
  PROVE  /\ \A r \in rest : \E p \in Abort(rest, c) : Like(p, r)
         /\ \A p \in Abort(rest, c) : \E r \in rest :
              /\ Like(p, r)
              /\ p = r \/ (r.conn = c /\ r.res = "pending" /\ p.res = "error")
<1> DEFINE image(r) == IF r.conn = c /\ r.res = "pending"
                       THEN [r EXCEPT !.res = "error"] ELSE r
<1>1. \A r \in rest :
        /\ Like(image(r), r)
        /\ image(r) = r \/ (r.conn = c /\ r.res = "pending" /\ image(r).res = "error")
  BY DEF Like, Operation
<1>2. Abort(rest, c) = {image(r) : r \in rest}
  BY DEF Abort
<1> HIDE DEF image
<1> QED BY <1>1, <1>2

\* So they survive close().
LEMMA CloseThenSurvive ==
  ASSUME NEW rest \in SUBSET Operation, NEW started, NEW t, CloseThen(rest, started, t)
  PROVE  Survive(rest)
<1>1. CASE ops' = rest \cup started
  BY <1>1 DEF Survive, Like
<1>2. CASE ops' = Abort(rest, socket) \cup DisconnectCallback(t) \cup started
  BY <1>2, AbortSurvive DEF Survive
<1> QED BY <1>1, <1>2 DEF CloseThen

\* A handler of a read closes the socket, or starts the next read on it, or has
\* been broken off by an exception.
ReadRestarted(o, t) ==
  /\ \E others \in Grown(ops \ {o}), kind \in {"header", "data"} :
       ops' = others \cup {OpOn(kind, socket, 0, t)}
  /\ UNCHANGED <<socket, disconnects, reading>>

ReadBrokenOff(o) ==
  ops' \in Grown(ops \ {o}) /\ reading' = FALSE /\ UNCHANGED <<socket, disconnects>>

ReadClosed(o, t) ==
  /\ CloseThen(ops \ {o}, {}, t) \/ CloseThen(ops \ {o}, {OpOn("header", 0, 0, t)}, t)
  /\ UNCHANGED reading

\* There is no other way out of handle_read_header and handle_read_data.
LEMMA ReadHandlerShape ==
  ASSUME NEW o \in ops, HandleReadHeader(o) \/ HandleReadData(o)
  PROVE  /\ IsRead(o)
         /\ \E t \in FreshTicket :
              ReadRestarted(o, t) \/ ReadBrokenOff(o) \/ ReadClosed(o, t)
         /\ UNCHANGED <<alive, writeVars, netVars>>
<1>1. ASSUME NEW t, AsyncReadHeader(ops \ {o}, socket, t), UNCHANGED <<socket, disconnects>>
      PROVE  ReadRestarted(o, t) \/ ReadBrokenOff(o)
  BY <1>1, GrownInPlace DEF AsyncReadHeader, ReadRestarted, ReadBrokenOff
<1>2. ASSUME NEW t, AsyncReadData(ops \ {o}, t), UNCHANGED <<socket, disconnects>>
      PROVE  ReadRestarted(o, t) \/ ReadBrokenOff(o)
  BY <1>1, <1>2 DEF AsyncReadData, ReadRestarted, ReadBrokenOff
<1>3. ASSUME NEW t, Deliver(o, ops \ {o}, t)
      PROVE  ReadRestarted(o, t) \/ ReadBrokenOff(o) \/ ReadClosed(o, t)
  BY <1>1, <1>3, GrownInPlace DEF Deliver, ReadBrokenOff, ReadClosed
<1>4. CASE HandleReadHeader(o)
  BY <1>2, <1>3, <1>4 DEF HandleReadHeader, ReadClosed, readVars, IsRead
<1>5. CASE HandleReadData(o)
  BY <1>1, <1>3, <1>5 DEF HandleReadData, ReadClosed, readVars, IsRead
<1> QED BY <1>4, <1>5

-----------------------------------------------------------------------------
(* Each connection is reported closed once.                                 *)

\* Apart from the acceptor and the destructor, the socket changes by close() only.
LEMMA SocketOrClose ==
  ASSUME Close \/ AsyncWrite \/ Network \/ Handlers
  PROVE  \/ UNCHANGED <<socket, disconnects>>
         \/ \E rest, started, t : CloseThen(rest, started, t)
<1>1. CASE Close
  BY <1>1 DEF Close
<1>2. CASE AsyncWrite
  BY <1>2 DEF AsyncWrite
<1>3. CASE Network
  BY <1>3 DEF Network, ConnectionLost, PeerStopsReading, PeerReadsOn, PeerSends,
              CompleteRead, CompleteWrite, sockVars
<1>4. CASE Handlers
  <2>1. PICK o \in ops : HandleReadHeader(o) \/ HandleReadData(o) \/ HandleWrite(o)
    BY <1>4 DEF Handlers
  <2>2. CASE HandleReadHeader(o) \/ HandleReadData(o)
    BY <2>2, ReadHandlerShape DEF ReadRestarted, ReadBrokenOff, ReadClosed
  <2>3. CASE HandleWrite(o)
    BY <2>3 DEF HandleWrite
  <2> QED BY <2>1, <2>2, <2>3
<1> QED BY <1>1, <1>2, <1>3, <1>4

\* Every step keeps the balance of connections installed and reported closed.
LEMMA DisconnectedOnceStep ==
  ASSUME TypeOK, DisconnectedOnce, [Next]_serverVars
  PROVE  DisconnectedOnce'
<1>1. /\ socket \in Conn \cup {0} /\ disconnects \in Nat /\ installed \in Nat
      /\ \A c \in Conn : c # 0
  BY BoundsAssumption DEF TypeOK, SocketTypeOK, Conn
<1>2. ASSUME NEW o \in ops, HandleAccept(o)
      PROVE  DisconnectedOnce'
  BY <1>1, <1>2 DEF HandleAccept, DisconnectedOnce
<1>3. ASSUME NEW o \in ops, CompleteAccept(o) \/ RejectConnection(o) \/ FilterThrows(o)
      PROVE  DisconnectedOnce'
  BY <1>3 DEF CompleteAccept, RejectConnection, FilterThrows, DisconnectedOnce, acceptVars
<1>4. CASE AsyncAccept
  BY <1>4 DEF AsyncAccept, DisconnectedOnce, acceptVars
<1>5. CASE Destroy
  BY <1>5 DEF Destroy, DisconnectedOnce
<1>6. CASE (Close \/ AsyncWrite \/ Network \/ Handlers) /\ UNCHANGED acceptVars
  <2>1. alive
    BY <1>6 DEF Close, AsyncWrite, Network, Handlers, HandleReadHeader, HandleReadData,
                HandleWrite
  <2>2. CASE UNCHANGED <<socket, disconnects>>
    BY <1>6, <2>1, <2>2 DEF DisconnectedOnce, acceptVars
  <2>3. CASE \E rest, started, t : CloseThen(rest, started, t)
    BY <1>1, <1>6, <2>1, <2>3 DEF CloseThen, DisconnectedOnce, acceptVars
  <2> QED BY <1>6, <2>2, <2>3, SocketOrClose
<1>7. CASE UNCHANGED serverVars
  BY <1>7 DEF DisconnectedOnce, serverVars, vars, sockVars, acceptVars
<1> QED BY <1>2, <1>3, <1>4, <1>5, <1>6, <1>7 DEF Next

\* Whoever closes a connection - a failed read or write, the application, or
\* set_socket for a newer one - it is reported exactly once.
THEOREM ReportedOnce == Spec => []DisconnectedOnce
<1>1. Init => DisconnectedOnce
  BY DEF Init, SocketInit, DisconnectedOnce
<1>2. IInv /\ DisconnectedOnce /\ [Next]_serverVars => DisconnectedOnce'
  BY DisconnectedOnceStep DEF IInv
<1> QED BY IInvInit, IInvStep, <1>1, <1>2, PTL DEF Spec

-----------------------------------------------------------------------------
(* The queue is driven, and the connection is read.                         *)

\* The network completes operations and removes none.
LEMMA NetworkSurvive ==
  ASSUME SocketTypeOK, Network
  PROVE  Survive(ops) /\ UNCHANGED <<alive, socket, disconnects, writeVars, reading>>
<1>1. ASSUME NEW c \in Conn,
             \/ ConnectionLost(c) \/ PeerStopsReading(c) \/ PeerReadsOn(c)
             \/ \E s \in Size : PeerSends(c, s)
      PROVE  Survive(ops) /\ UNCHANGED <<alive, socket, disconnects, writeVars, reading>>
  BY <1>1 DEF ConnectionLost, PeerStopsReading, PeerReadsOn, PeerSends, Survive, Like, sockVars, readVars
<1>2. ASSUME NEW o \in ops, CompleteRead(o) \/ CompleteWrite(o)
      PROVE  Survive(ops) /\ UNCHANGED <<alive, socket, disconnects, writeVars, reading>>
  <2> DEFINE done(res) == [o EXCEPT !.res = res]
  <2>1. \A res \in Results : Like(done(res), o)
    BY DEF Like, SocketTypeOK, Operation
  <2>2. PICK res \in Results : ops' = (ops \ {o}) \cup {done(res)}
    BY <1>2 DEF CompleteRead, CompleteWrite, Complete, Results
  <2> HIDE DEF done
  <2>3. Survive(ops)
    BY <2>1, <2>2 DEF Survive, Like
  <2> QED BY <1>2, <2>3 DEF CompleteRead, CompleteWrite, readVars
<1> QED BY <1>1, <1>2 DEF Network

\* The acceptor removes no operation but the async_accept that is done.
LEMMA AcceptSurvive ==
  ASSUME TypeOK, NEW o \in ops,
         CompleteAccept(o) \/ RejectConnection(o) \/ FilterThrows(o) \/ HandleAccept(o)
  PROVE  o.kind = "accept" /\ Survive(ops \ {o}) /\ UNCHANGED <<alive, writeVars>>
<1>1. CASE CompleteAccept(o)
  BY <1>1 DEF CompleteAccept, Complete, Accepts, Survive, Like
<1>2. CASE RejectConnection(o) \/ FilterThrows(o)
  BY <1>2 DEF RejectConnection, FilterThrows, Accepts, Survive, Like
<1>3. CASE HandleAccept(o)
  <2> DEFINE rest(t) == IF socket = 0 THEN ops \ {o}
                        ELSE Abort(ops \ {o}, socket) \cup DisconnectCallback(t)
  <2>1. PICK t : StartReading(rest(t), o.conn, t)
    BY <1>3 DEF HandleAccept
  <2>2. rest(t) \subseteq ops'
    BY <2>1 DEF StartReading
  <2>3. ops \ {o} \in SUBSET Operation
    BY DEF TypeOK, SocketTypeOK
  <2>4. \A r \in ops \ {o} : \E p \in rest(t) : Like(p, r)
    <3>1. CASE socket = 0
      BY <3>1 DEF Like
    <3>2. CASE socket # 0
      BY <2>3, <3>2, AbortSurvive
    <3> QED BY <3>1, <3>2
  <2> QED BY <1>3, <2>2, <2>4 DEF HandleAccept, Survive, Accepts
<1> QED BY <1>1, <1>2, <1>3

\* Closing removes none.
LEMMA CloseSurvive ==
  ASSUME TypeOK, Close \/ Destroy
  PROVE  /\ Survive(ops) /\ UNCHANGED writeVars
         /\ socket' = 0 \/ ~alive'
<1>1. ops \in SUBSET Operation
  BY DEF TypeOK, SocketTypeOK
<1>2. CASE Close
  BY <1>1, <1>2, CloseThenSurvive DEF Close, CloseThen
<1>3. CASE Destroy
  BY <1>1, <1>3, AbortSurvive DEF Destroy, Survive, Like
<1> QED BY <1>2, <1>3

\* A read handler removes its own only.
LEMMA ReadHandlerSurvive ==
  ASSUME TypeOK, NEW o \in ops, HandleReadHeader(o) \/ HandleReadData(o)
  PROVE  Survive(ops \ {o})
<1>1. PICK t \in FreshTicket : ReadRestarted(o, t) \/ ReadBrokenOff(o) \/ ReadClosed(o, t)
  BY ReadHandlerShape
<1>2. ops \ {o} \in SUBSET Operation
  BY DEF TypeOK, SocketTypeOK
<1>3. CASE ReadRestarted(o, t) \/ ReadBrokenOff(o)
  <2>1. PICK others \in Grown(ops \ {o}) : others \subseteq ops'
    BY <1>3 DEF ReadRestarted, ReadBrokenOff
  <2> QED BY <1>2, <2>1, GrownAlike DEF Survive
<1>4. CASE ReadClosed(o, t)
  BY <1>2, <1>4, CloseThenSurvive DEF ReadClosed
<1> QED BY <1>1, <1>3, <1>4

\* A step that keeps the writes and the queue keeps the queue driven.
LEMMA DrivenKept ==
  ASSUME QueueIsDriven, UNCHANGED <<alive, writeVars>>,
         NEW rest, Survive(rest), \A o \in ops : o.kind = "write" => o \in rest
  PROVE  QueueIsDriven'
  BY DEF QueueIsDriven, Survive, Like, writeVars

\* Every step keeps the queue driven.  handle_write is the only one that takes a
\* write away: it starts the next, or has emptied the queue, or has failed.
LEMMA QueueIsDrivenStep ==
  ASSUME TypeOK, QueueIsDriven, [Next]_serverVars
  PROVE  QueueIsDriven'
<1>1. CASE \E o \in ops : \/ CompleteAccept(o) \/ RejectConnection(o)
                        \/ FilterThrows(o) \/ HandleAccept(o)
  BY <1>1, AcceptSurvive, DrivenKept
<1>2. CASE AsyncAccept
  BY <1>2 DEF AsyncAccept, QueueIsDriven, writeVars
<1>3. CASE Close
  <2>1. UNCHANGED alive
    BY <1>3 DEF Close
  <2> QED BY <1>3, <2>1, CloseSurvive, DrivenKept
<1>4. CASE Destroy
  BY <1>4 DEF Destroy, QueueIsDriven
<1>5. CASE AsyncWrite
  <2>1. PICK t \in FreshTicket, p \in {Len(submitted) + 1} :
          \/ /\ writePackets' = Append(writePackets, p)
             /\ \/ ops' = IF writePackets # <<>> THEN ops
                          ELSE ops \cup {OpOn("write", socket, p, t)}
                \/ writeFailed'
             /\ UNCHANGED alive
          \/ /\ \E started : CloseThen(ops, started, t)
             /\ UNCHANGED <<alive, writePackets, writeFailed>>
    BY <1>5 DEF AsyncWrite, Pushed, WriteInProgress
  <2>2. writeFailed' => QueueIsDriven'
    BY DEF QueueIsDriven
  <2>3. ASSUME ~writeFailed', alive', writePackets' # <<>>
        PROVE  \E o \in ops' : o.kind = "write"
    <3>1. ~writeFailed /\ alive
      BY <1>5, <2>3 DEF AsyncWrite
    <3>2. CASE writePackets # <<>>
      <4>1. Survive(ops)
        <5>1. ops \in SUBSET Operation
          BY DEF TypeOK, SocketTypeOK
        <5> QED BY <2>1, <2>3, <3>2, <5>1, CloseThenSurvive DEF Survive, Like
      <4> QED BY <3>1, <3>2, <4>1 DEF QueueIsDriven, Survive, Like
    <3>3. CASE writePackets = <<>>
      <4>1. OpOn("write", socket, p, t).kind = "write"
        BY OpOnFields
      <4> QED BY <2>1, <2>3, <3>3, <4>1
    <3> QED BY <3>2, <3>3
  <2> QED BY <2>3 DEF QueueIsDriven
<1>6. CASE Network
  BY <1>6, NetworkSurvive, DrivenKept DEF TypeOK
<1>7. ASSUME NEW o \in ops, HandleReadHeader(o) \/ HandleReadData(o)
      PROVE  QueueIsDriven'
  <2>1. o.kind # "write"
    BY <1>7, ReadHandlerShape DEF IsRead
  <2> QED BY <1>7, <2>1, ReadHandlerShape, ReadHandlerSurvive, DrivenKept
<1>8. ASSUME NEW o \in ops, HandleWrite(o)
      PROVE  QueueIsDriven'
  <2>1. PICK t :
          \/ /\ writePackets' = Tail(writePackets)
             /\ ops' = IF Len(writePackets) = 1 THEN ops \ {o}
                       ELSE (ops \ {o}) \cup {OpOn("write", socket, writePackets[2], t)}
          \/ writeFailed'
    BY <1>8 DEF HandleWrite, Popped
  <2>2. Len(writePackets) = 1 => Tail(writePackets) = <<>>
    BY TailOfOne DEF TypeOK, SocketTypeOK
  <2>3. OpOn("write", socket, writePackets[2], t).kind = "write"
    BY OpOnFields
  <2> QED BY <2>1, <2>2, <2>3 DEF QueueIsDriven
<1>9. CASE UNCHANGED serverVars
  BY <1>9 DEF QueueIsDriven, serverVars, vars, sockVars, writeVars
<1> QED BY <1>1, <1>2, <1>3, <1>4, <1>5, <1>6, <1>7, <1>8, <1>9 DEF Next, Handlers

\* A packet that is queued is on its way: a write is outstanding whenever the queue
\* is not empty and no write failed, since nothing else would start the next one.
THEOREM QueueDriven == Spec => []QueueIsDriven
<1>1. Init => QueueIsDriven
  BY DEF Init, SocketInit, QueueIsDriven
<1>2. IInv /\ QueueIsDriven /\ [Next]_serverVars => QueueIsDriven'
  BY QueueIsDrivenStep DEF IInv
<1> QED BY IInvInit, IInvStep, <1>1, <1>2, PTL DEF Spec

\* A step that keeps the reads, on the same open socket, keeps it being read.
LEMMA ReadKept ==
  ASSUME OpenIsRead, UNCHANGED <<alive, socket, reading>>,
         NEW rest, Survive(rest), \A o \in ops : IsRead(o) => o \in rest
  PROVE  OpenIsRead'
<1> SUFFICES ASSUME alive', socket' # 0, reading'
             PROVE  \E p \in ops' : IsRead(p) /\ p.conn = socket'
  BY DEF OpenIsRead
<1>1. PICK o \in ops : IsRead(o) /\ o.conn = socket
  BY DEF OpenIsRead
<1>2. PICK p \in ops' : Like(p, o)
  BY <1>1 DEF Survive
<1> QED BY <1>1, <1>2 DEF IsRead, Like

\* Every step keeps an open connection being read: the handler of a read starts the
\* next one on the socket as it is by then, or the socket is closed, or an exception
\* has broken the loop off.
LEMMA OpenIsReadStep ==
  ASSUME TypeOK, OpenIsRead, [Next]_serverVars
  PROVE  OpenIsRead'
<1>1. ASSUME NEW o \in ops, CompleteAccept(o) \/ RejectConnection(o) \/ FilterThrows(o)
      PROVE  OpenIsRead'
  <2>1. Survive(ops \ {o}) /\ ~IsRead(o)
    BY <1>1, AcceptSurvive DEF IsRead
  <2> QED BY <1>1, <2>1, ReadKept DEF CompleteAccept, RejectConnection, FilterThrows, readVars
<1>2. ASSUME NEW o \in ops, HandleAccept(o)
      PROVE  OpenIsRead'
  <2>1. PICK t, rest : StartReading(rest, o.conn, t) /\ socket' = o.conn
    BY <1>2 DEF HandleAccept
  <2> DEFINE header == OpOn("header", o.conn, 0, t)
  <2>2. IsRead(header) /\ header.conn = o.conn
    BY OpOnFields DEF IsRead
  <2> HIDE DEF header
  <2>3. ~reading' \/ header \in ops'
    BY <2>1 DEF StartReading, header
  <2> QED BY <2>1, <2>2, <2>3 DEF OpenIsRead
<1>3. CASE AsyncAccept
  BY <1>3 DEF AsyncAccept, OpenIsRead, readVars
<1>4. CASE Close \/ Destroy
  BY <1>4, CloseSurvive DEF OpenIsRead
<1>5. CASE AsyncWrite
  <2>1. CASE socket' = 0
    BY <2>1 DEF OpenIsRead
  <2>2. CASE socket' # 0
    <3>1. ops \subseteq ops' /\ UNCHANGED <<alive, socket, reading>>
      BY <1>5, <2>2 DEF AsyncWrite, CloseThen, readVars
    <3> QED BY <3>1 DEF OpenIsRead
  <2> QED BY <2>1, <2>2
<1>6. CASE Network
  BY <1>6, NetworkSurvive, ReadKept DEF TypeOK
<1>7. ASSUME NEW o \in ops, HandleReadHeader(o) \/ HandleReadData(o)
      PROVE  OpenIsRead'
  <2>1. PICK t : ReadRestarted(o, t) \/ ReadBrokenOff(o) \/ ReadClosed(o, t)
    BY <1>7, ReadHandlerShape
  <2>2. CASE ReadRestarted(o, t)
    <3>1. PICK others \in Grown(ops \ {o}), kind \in {"header", "data"} :
            ops' = others \cup {OpOn(kind, socket, 0, t)}
      BY <2>2 DEF ReadRestarted
    <3> DEFINE next == OpOn(kind, socket, 0, t)
    <3>2. IsRead(next) /\ next.conn = socket
      BY OpOnFields DEF IsRead
    <3> HIDE DEF next
    <3>3. next \in ops' /\ socket' = socket
      BY <2>2, <3>1 DEF ReadRestarted, next
    <3> QED BY <3>2, <3>3 DEF OpenIsRead
  <2>3. CASE ReadBrokenOff(o) \/ ReadClosed(o, t)
    BY <2>3 DEF ReadBrokenOff, ReadClosed, CloseThen, OpenIsRead
  <2> QED BY <2>1, <2>2, <2>3
<1>8. ASSUME NEW o \in ops, HandleWrite(o)
      PROVE  OpenIsRead'
  <2>1. CASE socket' = 0
    BY <2>1 DEF OpenIsRead
  <2>2. CASE socket' # 0
    <3>1. UNCHANGED <<alive, socket, reading>>
      BY <1>8, <2>2 DEF HandleWrite, CloseThen, readVars
    <3>2. ~IsRead(o) /\ ops \ {o} \subseteq ops'
      BY <1>8, <2>2 DEF HandleWrite, CloseThen, IsRead
    <3> QED BY <3>1, <3>2 DEF OpenIsRead
  <2> QED BY <2>1, <2>2
<1>9. CASE UNCHANGED serverVars
  BY <1>9 DEF OpenIsRead, serverVars, vars, sockVars, readVars
<1> QED BY <1>1, <1>2, <1>3, <1>4, <1>5, <1>6, <1>7, <1>8, <1>9 DEF Next, Handlers

\* An open connection is always being read, so that its end is noticed, unless an
\* exception broke the read loop off: a buffer that cannot grow does not stop it.
THEOREM ConnectionRead == Spec => []OpenIsRead
<1>1. Init => OpenIsRead
  BY DEF Init, OpenIsRead
<1>2. IInv /\ OpenIsRead /\ [Next]_serverVars => OpenIsRead'
  BY OpenIsReadStep DEF IInv
<1> QED BY IInvInit, IInvStep, <1>1, <1>2, PTL DEF Spec

-----------------------------------------------------------------------------
(* The queue implements a channel.                                          *)

\* The acceptor, close(), the read loop and the network hand over no packet and
\* transmit none; asynchronous writing does so only where it says so.
LEMMA OthersLeaveChannel ==
  ASSUME TypeOK, [Next]_serverVars, ~AsyncWrite, \A o \in ops : ~HandleWrite(o)
  PROVE  UNCHANGED <<submitted, sent>>
<1>1. CASE \/ \E o \in ops : \/ CompleteAccept(o) \/ RejectConnection(o)
                           \/ FilterThrows(o) \/ HandleAccept(o)
           \/ AsyncAccept
  BY <1>1, AcceptQuiet DEF Quiet
<1>2. CASE Close \/ Destroy
  BY <1>2, CloseQuiet DEF Quiet, TypeOK
<1>3. CASE Network
  BY <1>3, NetworkSurvive DEF TypeOK, writeVars
<1>4. ASSUME NEW o \in ops, HandleReadHeader(o) \/ HandleReadData(o)
      PROVE  UNCHANGED <<submitted, sent>>
  BY <1>4, ReadHandlerShape DEF writeVars
<1>5. CASE UNCHANGED serverVars
  BY <1>5 DEF serverVars, vars, writeVars
<1> QED BY <1>1, <1>2, <1>3, <1>4, <1>5 DEF Next, Handlers

\* async_write hands a packet over, unless it could not be queued.
LEMMA AsyncWriteHandsOver ==
  ASSUME TypeOK, AsyncWrite
  PROVE  Channel!Write \/ UNCHANGED <<submitted, sent>>
<1>1. CASE UNCHANGED <<submitted, sent>>
  BY <1>1
<1>2. CASE submitted' = Append(submitted, socket) /\ UNCHANGED sent
  <2>1. Len(submitted') = Len(submitted) + 1
    BY <1>2 DEF TypeOK, SocketTypeOK
  <2> QED BY <1>2, <2>1 DEF Channel!Write
<1> QED BY <1>1, <1>2 DEF AsyncWrite

\* A write that succeeded transmits the next packet in order: what was written is
\* the front of the queue, and the front is the first that was not transmitted.
LEMMA HandleWriteTransmits ==
  ASSUME IInv, NEW o \in ops, HandleWrite(o)
  PROVE  Channel!Transmit \/ UNCHANGED <<submitted, sent>>
<1>1. CASE UNCHANGED <<submitted, sent>>
  BY <1>1
<1>2. CASE /\ o.res = "ok"
           /\ sent' = Append(sent, [id |-> o.pkt, via |-> o.conn])
           /\ UNCHANGED submitted
  <2>1. o \in LiveWrites
    BY <1>2 DEF HandleWrite, LiveWrites
  <2>2. writePackets # <<>> /\ o.pkt = writePackets[1]
    BY <2>1 DEF IInv, OneWriteFromFront
  <2>3. /\ Len(writePackets) \in Nat \ {0} /\ Len(sent) \in Nat
        /\ Len(submitted) = Len(sent) + Len(writePackets)
    BY <2>2 DEF IInv, TypeOK, SocketTypeOK, WriteFifo
  <2>4. o.pkt = Len(sent) + 1
    BY <2>2, <2>3 DEF IInv, WriteFifo
  <2> DEFINE n == Len(sent)
             new == [id |-> o.pkt, via |-> o.conn]
             wire == [i \in 1..n |-> sent[i].id]
  <2>5. Len(sent') = n + 1 /\ (\A i \in 1..n : sent'[i] = sent[i]) /\ sent'[n + 1] = new
    BY <1>2 DEF IInv, TypeOK, SocketTypeOK
  <2>6. new.id = n + 1
    BY <2>4
  <2>7. n \in Nat /\ n < Len(submitted)
    BY <2>3
  <2> HIDE DEF n, new
  <2>8. wire \in Seq(Int) /\ Len(wire) = n
    <3>1. \A i \in 1..n : sent[i].id \in Int
      BY <2>7 DEF IInv, WriteFifo, n
    <3> QED BY <2>7, <3>1
  <2>9. [i \in 1..(n + 1) |-> sent'[i].id] = Append(wire, n + 1)
    BY <2>5, <2>6, <2>7, <2>8
  <2> QED BY <1>2, <2>5, <2>7, <2>8, <2>9 DEF Channel!Transmit, n
<1> QED BY <1>1, <1>2 DEF HandleWrite

\* A server with its sockets, operations, failures and closed connections is, to
\* the application that writes packets, an orderly channel.
THEOREM QueueIsChannel == Spec => ImplementsChannel
<1>1. Init => Channel!Init
  BY DEF Init, SocketInit, Channel!Init
<1>2. IInv /\ [Next]_serverVars
        => [Channel!Next]_<<Len(submitted), [i \in 1..Len(sent) |-> sent[i].id]>>
  <2> SUFFICES ASSUME IInv, [Next]_serverVars
               PROVE  [Channel!Next]_<<Len(submitted), [i \in 1..Len(sent) |-> sent[i].id]>>
    OBVIOUS
  <2>1. CASE UNCHANGED <<submitted, sent>>
    BY <2>1
  <2>2. Channel!Write \/ Channel!Transmit \/ UNCHANGED <<submitted, sent>>
    BY OthersLeaveChannel, AsyncWriteHandsOver, HandleWriteTransmits DEF IInv
  <2> QED BY <2>1, <2>2 DEF Channel!Next
<1> QED BY IInvInit, IInvStep, <1>1, <1>2, PTL DEF Spec, ImplementsChannel, Channel!Spec

-----------------------------------------------------------------------------
(* Where the operations come from.                                          *)

\* An operation after a step was there before, and has completed perhaps if it was
\* about a connection, or fills memory that is no longer the buffer's; or it was started on the socket that is held now; or it is
\* an async_accept of the disconnect callback.
Origin(p) ==
  \/ \E r \in ops : Like(p, r) /\ (p = r \/ r.conn # 0 \/ r.kind # "accept")
  \/ p.kind # "accept" /\ p.conn = socket'
  \/ AcceptPolicy = "callback" /\ \E t : p = AcceptOp(t)

\* What close() leaves and starts.
LEMMA CloseThenOrigin ==
  ASSUME NEW rest \in SUBSET Operation, rest \subseteq ops, NEW started, NEW t,
         CloseThen(rest, started, t),
         \A s \in started : s.kind # "accept" /\ s.conn = 0
  PROVE  \A p \in ops' : Origin(p)
<1>1. ASSUME NEW p \in rest
      PROVE  Origin(p)
  BY <1>1 DEF Origin, Like
<1>2. ASSUME NEW p \in started
      PROVE  Origin(p)
  BY <1>2 DEF Origin, CloseThen
<1>3. ASSUME NEW p \in Abort(rest, socket), socket # 0
      PROVE  Origin(p)
  <2>1. PICK r \in rest : /\ Like(p, r)
                          /\ p = r \/ (r.conn = socket /\ r.res = "pending" /\ p.res = "error")
    BY AbortSurvive
  <2> QED BY <1>3, <2>1 DEF Origin
<1>4. ASSUME NEW p \in DisconnectCallback(t)
      PROVE  Origin(p)
  BY <1>4 DEF Origin, DisconnectCallback
<1> QED BY <1>1, <1>2, <1>3, <1>4 DEF CloseThen

\* What the base class leaves and starts: no async_accept, but from the callback.
LEMMA BaseOrigin ==
  ASSUME TypeOK, Close \/ Destroy \/ AsyncWrite \/ Network \/ Handlers
  PROVE  \A p \in ops' : Origin(p)
<1>1. ops \in SUBSET Operation /\ \A o : ops \ {o} \in SUBSET Operation
  BY DEF TypeOK, SocketTypeOK
<1>2. \A p \in ops : Origin(p)
  BY DEF Origin, Like
<1>3. CASE Close
  BY <1>1, <1>3, CloseThenOrigin DEF Close
<1>4. CASE Destroy
  BY <1>1, <1>2, <1>4, AbortSurvive DEF Destroy, Origin
<1>5. CASE AsyncWrite
  <2>1. PICK t, p : \/ /\ ops' = ops \/ ops' = ops \cup {OpOn("write", socket, p, t)}
                       /\ UNCHANGED socket
                    \/ CloseThen(ops, {}, t)
                    \/ CloseThen(ops, {OpOn("write", 0, 0, t)}, t)
    BY <1>5 DEF AsyncWrite
  <2>2. CASE /\ ops' = ops \/ ops' = ops \cup {OpOn("write", socket, p, t)}
             /\ UNCHANGED socket
    <3>1. Origin(OpOn("write", socket, p, t))
      BY <2>2, OpOnFields DEF Origin
    <3> QED BY <1>2, <2>2, <3>1
  <2>3. CASE CloseThen(ops, {}, t) \/ CloseThen(ops, {OpOn("write", 0, 0, t)}, t)
    <3> DEFINE w == OpOn("write", 0, 0, t)
    <3>1. w.kind # "accept" /\ w.conn = 0
      BY OpOnFields
    <3> HIDE DEF w
    <3>2. CloseThen(ops, {}, t) \/ CloseThen(ops, {w}, t)
      BY <2>3 DEF w
    <3> QED BY <1>1, <3>1, <3>2, CloseThenOrigin
  <2> QED BY <2>1, <2>2, <2>3
<1>6. CASE Network
  <2>1. ASSUME NEW c \in Conn,
               \/ ConnectionLost(c) \/ PeerStopsReading(c) \/ PeerReadsOn(c)
               \/ \E s \in Size : PeerSends(c, s)
        PROVE  ops' = ops
    BY <2>1 DEF ConnectionLost, PeerStopsReading, PeerReadsOn, PeerSends, sockVars
  <2>2. ASSUME NEW o \in ops, CompleteRead(o) \/ CompleteWrite(o)
        PROVE  \A p \in ops' : Origin(p)
    <3> DEFINE done(res) == [o EXCEPT !.res = res]
    <3>1. \A res \in Results : Like(done(res), o)
      BY DEF Like, TypeOK, SocketTypeOK, Operation
    <3>2. PICK res \in Results : ops' = (ops \ {o}) \cup {done(res)}
      BY <2>2 DEF CompleteRead, CompleteWrite, Complete, Results
    <3> HIDE DEF done
    <3>3. o.conn # 0 \/ o.kind = "write"
      BY <2>2, BoundsAssumption DEF CompleteRead, CompleteWrite, Conn
    <3> QED BY <1>2, <3>1, <3>2, <3>3 DEF Origin
  <2> QED BY <1>2, <1>6, <2>1, <2>2 DEF Network
<1>9. ASSUME NEW o, NEW others \in Grown(ops \ {o}), NEW p \in others
      PROVE  Origin(p)
  <2>1. PICK r \in ops \ {o} : Like(p, r) /\ (p = r \/ (IsRead(r) /\ r.res = "pending"))
    BY <1>1, GrownAlike
  <2>2. IsRead(r) => r.kind # "accept"
    BY DEF IsRead
  <2> QED BY <2>1, <2>2 DEF Origin
<1>7. ASSUME NEW o \in ops, HandleReadHeader(o) \/ HandleReadData(o)
      PROVE  \A p \in ops' : Origin(p)
  <2>1. PICK t : ReadRestarted(o, t) \/ ReadBrokenOff(o) \/ ReadClosed(o, t)
    BY <1>7, ReadHandlerShape
  <2>2. CASE ReadRestarted(o, t)
    <3>1. PICK others \in Grown(ops \ {o}), kind \in {"header", "data"} :
            ops' = others \cup {OpOn(kind, socket, 0, t)}
      BY <2>2 DEF ReadRestarted
    <3>2. Origin(OpOn(kind, socket, 0, t))
      BY <2>2, OpOnFields DEF Origin, ReadRestarted
    <3> QED BY <1>9, <3>1, <3>2
  <2>3. CASE ReadBrokenOff(o)
    BY <1>9, <2>3 DEF ReadBrokenOff
  <2>4. CASE ReadClosed(o, t)
    <3> DEFINE h == OpOn("header", 0, 0, t)
    <3>1. h.kind # "accept" /\ h.conn = 0
      BY OpOnFields
    <3> HIDE DEF h
    <3>2. CloseThen(ops \ {o}, {}, t) \/ CloseThen(ops \ {o}, {h}, t)
      BY <2>4 DEF ReadClosed, h
    <3> QED BY <1>1, <3>1, <3>2, CloseThenOrigin
  <2> QED BY <2>1, <2>2, <2>3, <2>4
<1>8. ASSUME NEW o \in ops, HandleWrite(o)
      PROVE  \A p \in ops' : Origin(p)
  <2>1. PICK t, n : \/ /\ \/ ops' = ops \ {o}
                          \/ ops' = (ops \ {o}) \cup {OpOn("write", socket, n, t)}
                       /\ UNCHANGED socket
                    \/ CloseThen(ops \ {o}, {}, t)
    BY <1>8 DEF HandleWrite
  <2>2. CASE UNCHANGED socket
    <3>1. Origin(OpOn("write", socket, n, t))
      BY <2>2, OpOnFields DEF Origin
    <3> QED BY <1>1, <1>2, <2>1, <3>1, CloseThenOrigin
  <2> QED BY <1>1, <2>1, <2>2, CloseThenOrigin
<1> QED BY <1>3, <1>4, <1>5, <1>6, <1>7, <1>8 DEF Handlers

\* The handlers of writes, and async_write, remove no other operation.
LEMMA WriteSurvive ==
  ASSUME TypeOK
  PROVE  /\ AsyncWrite => Survive(ops)
         /\ \A o \in ops : HandleWrite(o) => Survive(ops \ {o})
<1>1. ops \in SUBSET Operation /\ \A o : ops \ {o} \in SUBSET Operation
  BY DEF TypeOK, SocketTypeOK
<1>2. \A rest : rest \subseteq ops' => Survive(rest)
  BY DEF Survive, Like
<1>3. ASSUME AsyncWrite PROVE Survive(ops)
  <2>1. ops \subseteq ops' \/ \E started, t : CloseThen(ops, started, t)
    BY <1>3 DEF AsyncWrite
  <2> QED BY <1>1, <1>2, <2>1, CloseThenSurvive
<1>4. ASSUME NEW o \in ops, HandleWrite(o) PROVE Survive(ops \ {o})
  <2>1. ops \ {o} \subseteq ops' \/ \E t : CloseThen(ops \ {o}, {}, t)
    BY <1>4 DEF HandleWrite
  <2> QED BY <1>1, <1>2, <2>1, CloseThenSurvive
<1> QED BY <1>3, <1>4

\* The base class never takes an async_accept away.
LEMMA AcceptsSurvive ==
  ASSUME TypeOK, Close \/ Destroy \/ AsyncWrite \/ Network \/ Handlers
  PROVE  Accepts # {} => Accepts' # {}
<1>1. ASSUME NEW rest, Survive(rest), Accepts \subseteq rest
      PROVE  Accepts # {} => Accepts' # {}
  BY <1>1 DEF Survive, Like, Accepts
<1>2. ASSUME NEW o \in ops, HandleReadHeader(o) \/ HandleReadData(o) \/ HandleWrite(o)
      PROVE  Survive(ops \ {o}) /\ Accepts \subseteq ops \ {o}
  <2>1. o.kind # "accept"
    BY <1>2, ReadHandlerShape DEF IsRead, HandleWrite
  <2> QED BY <1>2, <2>1, ReadHandlerSurvive, WriteSurvive DEF Accepts
<1>3. CASE Close \/ Destroy
  BY <1>1, <1>3, CloseSurvive DEF Accepts
<1>4. CASE AsyncWrite
  BY <1>1, <1>4, WriteSurvive DEF Accepts
<1>5. CASE Network
  BY <1>1, <1>5, NetworkSurvive DEF Accepts, TypeOK
<1> QED BY <1>1, <1>2, <1>3, <1>4, <1>5 DEF Handlers

-----------------------------------------------------------------------------
(* A server that accepts again from its disconnect callback.                *)

\* An async_accept that is done has a connection, while accepting does not fail.
AcceptedHasConn == \A o \in Accepts : o.res # "pending" => o.conn # 0

\* Every step keeps that.
LEMMA AcceptedHasConnStep ==
  ASSUME TypeOK, "accept" \notin Faults, AcceptedHasConn, [Next]_serverVars
  PROVE  AcceptedHasConn'
<1>2. ASSUME NEW o \in ops, CompleteAccept(o)
      PROVE  AcceptedHasConn'
  <2> DEFINE taken == [o EXCEPT !.res = "ok", !.conn = arrived + 1]
  <2>1. taken.conn # 0
    BY DEF TypeOK, SocketTypeOK, Operation
  <2> HIDE DEF taken
  <2>2. ops' = (ops \ {o}) \cup {taken}
    BY <1>2 DEF CompleteAccept, taken
  <2> QED BY <2>1, <2>2 DEF AcceptedHasConn, Accepts
<1>3. ASSUME NEW o \in ops, RejectConnection(o) \/ FilterThrows(o)
      PROVE  AcceptedHasConn'
  BY <1>3, AcceptOpFields DEF RejectConnection, FilterThrows, AcceptedHasConn, Accepts
<1>4. ASSUME NEW o \in ops, HandleAccept(o)
      PROVE  AcceptedHasConn'
  <2> DEFINE rest(t) == IF socket = 0 THEN ops \ {o}
                        ELSE Abort(ops \ {o}, socket) \cup DisconnectCallback(t)
  <2>1. PICK t : StartReading(rest(t), o.conn, t)
    BY <1>4 DEF HandleAccept
  <2>2. \A p \in ops' : p \in rest(t) \/ p.kind = "header"
    <3> HIDE DEF rest
    <3> QED BY <2>1, OpOnFields DEF StartReading
  <2>3. ASSUME NEW p \in rest(t), p.kind = "accept", p.res # "pending"
        PROVE  p.conn # 0
    <3>1. CASE p \in ops
      BY <2>3, <3>1 DEF AcceptedHasConn, Accepts
    <3>2. CASE socket # 0 /\ p \in Abort(ops \ {o}, socket)
      <4>1. ops \ {o} \in SUBSET Operation
        BY DEF TypeOK, SocketTypeOK
      <4>2. PICK r \in ops : Like(p, r) /\ (p = r \/ r.conn = socket)
        BY <3>2, <4>1, AbortSurvive
      <4> QED BY <2>3, <3>2, <4>2 DEF Like, AcceptedHasConn, Accepts
    <3>3. CASE p \in DisconnectCallback(t)
      BY <2>3, <3>3 DEF DisconnectCallback, AcceptOp
    <3> QED BY <2>3, <3>1, <3>2, <3>3
  <2> QED BY <2>2, <2>3 DEF AcceptedHasConn, Accepts
<1>5. CASE AsyncAccept
  BY <1>5, AcceptOpFields DEF AsyncAccept, AcceptedHasConn, Accepts
<1>6. CASE Close \/ Destroy \/ AsyncWrite \/ Network \/ Handlers
  <2> SUFFICES ASSUME NEW p \in ops', p.kind = "accept", p.res # "pending"
               PROVE  p.conn # 0
    BY DEF AcceptedHasConn, Accepts
  <2>1. PICK r \in ops : Like(p, r) /\ (p = r \/ r.conn # 0)
    BY <1>6, BaseOrigin DEF Origin, AcceptOp, Like
  <2> QED BY <2>1 DEF AcceptedHasConn, Accepts, Like
<1>7. CASE UNCHANGED serverVars
  BY <1>7 DEF AcceptedHasConn, Accepts, serverVars, vars, sockVars
<1> QED BY <1>2, <1>3, <1>4, <1>5, <1>6, <1>7 DEF Next

\* Every step leaves a server connected or accepting: who closes the connection
\* has the disconnect callback accept the next.
LEMMA ServingStep ==
  ASSUME TypeOK, AcceptPolicy = "callback", "filter" \notin Faults, AcceptedHasConn,
         ServingOrAccepting, [Next]_serverVars
  PROVE  ServingOrAccepting'
<1>1. \A t : AcceptOp(t).kind = "accept"
  BY AcceptOpFields
<1>2. ASSUME NEW o \in ops, CompleteAccept(o)
      PROVE  ServingOrAccepting'
  <2>1. o \in Operation /\ o.kind = "accept"
    BY <1>2 DEF CompleteAccept, Accepts, TypeOK, SocketTypeOK
  <2> DEFINE failed == [o EXCEPT !.res = "error"]
             taken  == [o EXCEPT !.res = "ok", !.conn = arrived + 1]
  <2>2. failed.kind = "accept" /\ taken.kind = "accept"
    BY <2>1 DEF Operation
  <2> HIDE DEF failed, taken
  <2>3. ops' = (ops \ {o}) \cup {failed} \/ ops' = (ops \ {o}) \cup {taken}
    BY <1>2 DEF CompleteAccept, Complete, failed, taken
  <2> QED BY <2>2, <2>3 DEF ServingOrAccepting, Accepts
<1>3. ASSUME NEW o \in ops, RejectConnection(o)
      PROVE  ServingOrAccepting'
  BY <1>1, <1>3 DEF RejectConnection, ServingOrAccepting, Accepts
<1>4. ASSUME NEW o \in ops, HandleAccept(o)
      PROVE  ServingOrAccepting'
  BY <1>4 DEF HandleAccept, AcceptedHasConn, ServingOrAccepting
<1>5. CASE AsyncAccept
  BY <1>5 DEF AsyncAccept
<1>6. CASE Destroy
  BY <1>6 DEF Destroy, ServingOrAccepting
<1>7. CASE Close \/ AsyncWrite \/ Network \/ Handlers
  <2>1. alive
    BY <1>7 DEF Close, AsyncWrite, Network, Handlers, HandleReadHeader, HandleReadData,
                HandleWrite
  <2>2. CASE socket # 0 /\ \E rest, started, t : CloseThen(rest, started, t)
    BY <1>1, <2>2 DEF CloseThen, DisconnectCallback, ServingOrAccepting, Accepts
  <2>3. CASE socket = 0
    BY <1>7, <2>1, <2>3, AcceptsSurvive DEF ServingOrAccepting
  <2>4. CASE socket' = socket
    BY <1>7, <2>1, <2>4, AcceptsSurvive DEF ServingOrAccepting
  <2> QED BY <1>7, <2>2, <2>3, <2>4, SocketOrClose
<1>9. ASSUME NEW o, FilterThrows(o) PROVE FALSE
  BY <1>9 DEF FilterThrows
<1>8. CASE UNCHANGED serverVars
  BY <1>8 DEF ServingOrAccepting, Accepts, serverVars, vars, sockVars
<1> QED BY <1>2, <1>3, <1>4, <1>5, <1>6, <1>7, <1>8, <1>9 DEF Next

\* A server whose disconnect callback calls async_accept is never deaf, as long as
\* accepting does not fail and the filter does not throw: an error of the acceptor
\* leaves it with a socket that is not open, an exception of the filter with none,
\* and nobody accepts again.
THEOREM NeverDeaf ==
  ASSUME AcceptPolicy = "callback", "accept" \notin Faults, "filter" \notin Faults
  PROVE  Spec => []ServingOrAccepting
<1> DEFINE Inv == AcceptedHasConn /\ ServingOrAccepting
<1>1. Init => Inv
  BY AcceptOpFields DEF Init, AcceptedHasConn, ServingOrAccepting, Accepts
<1>2. IInv /\ Inv /\ [Next]_serverVars => Inv'
  BY AcceptedHasConnStep, ServingStep DEF IInv
<1>3. Inv => ServingOrAccepting
  OBVIOUS
<1> HIDE DEF Inv
<1> QED BY IInvInit, IInvStep, <1>1, <1>2, <1>3, PTL DEF Spec

-----------------------------------------------------------------------------
(* A server that accepts again only when nothing is left to be run.         *)

\* An application that accepts the next connection when the io_context has run out
\* of work, or never, and that does not write while it is disconnected.
OneAtATime == AcceptPolicy \in {"drained", "never"} /\ "idle_write" \notin Faults

\* A server that accepts does nothing else.
AcceptsAlone == Accepts # {} => socket = 0 /\ \A o, p \in ops : o = p

\* While it accepts, the base class has nothing to do.
LEMMA AcceptingIsIdle ==
  ASSUME TypeOK, OneAtATime, AcceptsAlone, Close \/ AsyncWrite \/ Network \/ Handlers
  PROVE  Accepts = {}
<1> SUFFICES ASSUME NEW a \in ops, a.kind = "accept", socket = 0, ops = {a}
             PROVE  FALSE
  BY DEF AcceptsAlone, Accepts
<1>1. \A c \in Conn : c # 0
  BY BoundsAssumption DEF Conn
<1>2. CASE Close \/ AsyncWrite
  BY <1>2 DEF Close, AsyncWrite, OneAtATime
<1>3. CASE Network
  BY <1>1, <1>3 DEF Network, ConnectionLost, PeerStopsReading, PeerReadsOn, PeerSends,
                     CompleteRead, CompleteWrite, IsRead
<1>4. CASE Handlers
  BY <1>4 DEF Handlers, HandleReadHeader, HandleReadData, HandleWrite
<1> QED BY <1>2, <1>3, <1>4

\* Every step keeps the operations those of one connection.
LEMMA NoStaleStep ==
  ASSUME TypeOK, OneAtATime, AcceptsAlone, NoStaleOperation, [Next]_serverVars
  PROVE  AcceptsAlone' /\ NoStaleOperation'
<1>1. AcceptPolicy # "callback" /\ AcceptPolicy # "any"
  BY DEF OneAtATime
<1>2. ASSUME NEW o \in ops, o.kind = "accept", NEW p, p.kind = "accept",
             ops' = (ops \ {o}) \cup {p}, UNCHANGED socket
      PROVE  AcceptsAlone' /\ NoStaleOperation'
  BY <1>2 DEF AcceptsAlone, NoStaleOperation, Accepts
<1>3. ASSUME NEW o \in ops, CompleteAccept(o)
      PROVE  AcceptsAlone' /\ NoStaleOperation'
  <2>1. o \in Operation /\ o.kind = "accept"
    BY <1>3 DEF CompleteAccept, Accepts, TypeOK, SocketTypeOK
  <2> DEFINE failed == [o EXCEPT !.res = "error"]
             taken  == [o EXCEPT !.res = "ok", !.conn = arrived + 1]
  <2>2. failed.kind = "accept" /\ taken.kind = "accept"
    BY <2>1 DEF Operation
  <2> HIDE DEF failed, taken
  <2>3. ops' = (ops \ {o}) \cup {failed} \/ ops' = (ops \ {o}) \cup {taken}
    BY <1>3 DEF CompleteAccept, Complete, failed, taken
  <2> QED BY <1>2, <1>3, <2>1, <2>2, <2>3 DEF CompleteAccept
<1>4. ASSUME NEW o \in ops, RejectConnection(o)
      PROVE  AcceptsAlone' /\ NoStaleOperation'
  BY <1>2, <1>4, AcceptOpFields DEF RejectConnection, Accepts
<1>10. ASSUME NEW o \in ops, FilterThrows(o)
       PROVE  AcceptsAlone' /\ NoStaleOperation'
  BY <1>10 DEF FilterThrows, AcceptsAlone, NoStaleOperation, Accepts
<1>5. ASSUME NEW o \in ops, HandleAccept(o)
      PROVE  AcceptsAlone' /\ NoStaleOperation'
  <2>1. socket = 0 /\ ops \ {o} = {}
    BY <1>5 DEF HandleAccept, AcceptsAlone, Accepts
  <2>2. PICK t : StartReading({}, o.conn, t) /\ socket' = o.conn
    BY <1>5, <2>1 DEF HandleAccept
  <2>3. \A p \in ops' : p.kind = "header" /\ p.conn = o.conn
    BY <2>2, OpOnFields DEF StartReading
  <2> QED BY <2>2, <2>3 DEF AcceptsAlone, NoStaleOperation, Accepts
<1>6. CASE AsyncAccept
  BY <1>1, <1>6 DEF AsyncAccept, AcceptsAlone, NoStaleOperation, Accepts
<1>7. CASE Close \/ AsyncWrite \/ Network \/ Handlers
  <2>1. \A p \in ops' : \/ \E r \in ops : Like(p, r)
                        \/ p.kind # "accept" /\ p.conn = socket'
    BY <1>1, <1>7, BaseOrigin DEF Origin
  <2>2. Accepts = {}
    BY <1>7, AcceptingIsIdle
  <2>3. \A p \in ops' : p.kind # "accept"
    BY <2>1, <2>2 DEF Accepts, Like
  <2>4. socket' = socket \/ socket' = 0
    BY <1>7, SocketOrClose DEF CloseThen
  <2> QED BY <2>1, <2>2, <2>3, <2>4 DEF AcceptsAlone, NoStaleOperation, Accepts, Like
<1>8. CASE Destroy
  <2>1. ASSUME Accepts' # {} PROVE Accepts # {}
    BY <1>1, <1>8, <2>1, BaseOrigin DEF Origin, Accepts, Like
  <2> QED BY <1>8, <2>1 DEF Destroy, AcceptsAlone, NoStaleOperation
<1>9. CASE UNCHANGED serverVars
  BY <1>9 DEF AcceptsAlone, NoStaleOperation, Accepts, serverVars, vars, sockVars
<1> QED BY <1>3, <1>4, <1>5, <1>6, <1>7, <1>8, <1>9, <1>10 DEF Next

\* No operation outlives its connection into the next one, so that an error closes
\* the connection it is about, if the application accepts when nothing is left to
\* run.
THEOREM NoneStale == ASSUME OneAtATime PROVE Spec => []NoStaleOperation
<1> DEFINE Inv == AcceptsAlone /\ NoStaleOperation
<1>1. Init => Inv
  BY AcceptOpFields DEF Init, AcceptsAlone, NoStaleOperation, Accepts
<1>2. IInv /\ Inv /\ [Next]_serverVars => Inv'
  BY NoStaleStep DEF IInv
<1>3. Inv => NoStaleOperation
  OBVIOUS
<1> HIDE DEF Inv
<1> QED BY IInvInit, IInvStep, <1>1, <1>2, <1>3, PTL DEF Spec

-----------------------------------------------------------------------------
(* On which connection a packet leaves.                                     *)

\* What is queued while a write is under way was written for its connection.
WrittenForIt ==
  \A o \in LiveWrites : \A i \in 1..Len(writePackets) : submitted[writePackets[i]] = o.conn

\* The invariant behind NoneStale and SentOnItsConnection.
ConnInv == IInv /\ AcceptsAlone /\ NoStaleOperation /\ WrittenForIt /\ SentWhereWritten

\* A step that leaves the queue alone, and completes writes or aborts them.
LEMMA WrittenForKept ==
  ASSUME WrittenForIt, SentWhereWritten, UNCHANGED <<writePackets, submitted, sent>>,
         \A p \in LiveWrites' : \E r \in LiveWrites : p.conn = r.conn
  PROVE  WrittenForIt' /\ SentWhereWritten'
  BY DEF WrittenForIt, SentWhereWritten

\* An element appended to a sequence, and what was there before.
LEMMA AppendAt ==
  ASSUME NEW S, NEW q \in Seq(S), NEW x
  PROVE  /\ Len(Append(q, x)) = Len(q) + 1
         /\ \A i \in 1..Len(q) : Append(q, x)[i] = q[i]
         /\ Append(q, x)[Len(q) + 1] = x
  OBVIOUS

\* async_write queues a packet for the connection that is held, which is that of
\* the write under way, if there is one.
LEMMA AsyncWriteForIt ==
  ASSUME ConnInv, OneAtATime, AsyncWrite
  PROVE  WrittenForIt' /\ SentWhereWritten'
<1> USE DEF ConnInv, IInv, TypeOK
<1> DEFINE p == Len(submitted) + 1
<1>1. PICK t \in FreshTicket :
        \/ /\ writePackets' = Append(writePackets, p)
           /\ submitted' = Append(submitted, socket)
           /\ ops' \subseteq ops \cup (IF writePackets = <<>>
                                       THEN {OpOn("write", socket, p, t)} ELSE {})
        \/ /\ \/ CloseThen(ops, {}, t)
              \/ CloseThen(ops, {OpOn("write", 0, 0, t)}, t)
           /\ UNCHANGED <<writePackets, submitted>>
  BY DEF AsyncWrite, Pushed, WriteInProgress
<1>2. socket # 0 /\ UNCHANGED sent
  BY DEF AsyncWrite, OneAtATime
<1>3. CASE /\ writePackets' = Append(writePackets, p)
           /\ submitted' = Append(submitted, socket)
           /\ ops' \subseteq ops \cup (IF writePackets = <<>>
                                       THEN {OpOn("write", socket, p, t)} ELSE {})
  <2> DEFINE n == Len(writePackets)
             m == Len(submitted)
             w == OpOn("write", socket, p, t)
  <2>1. n \in Nat /\ m \in Nat /\ Len(sent) \in Nat /\ Len(sent) + n = m
    BY DEF SocketTypeOK, WriteFifo
  <2>2. /\ Len(writePackets') = n + 1
        /\ \A i \in 1..n : writePackets'[i] = writePackets[i]
        /\ writePackets'[n + 1] = p
    BY <1>3, AppendAt DEF SocketTypeOK
  <2>3. (\A i \in 1..m : submitted'[i] = submitted[i]) /\ submitted'[p] = socket
    BY <1>3, AppendAt DEF SocketTypeOK
  <2>4. \A i \in 1..n : writePackets[i] \in 1..m
    BY <2>1 DEF WriteFifo
  <2>5. \A i \in 1..Len(sent) : sent[i].id \in 1..m
    BY <2>1 DEF WriteFifo
  <2>6. SentWhereWritten'
    BY <1>2, <2>3, <2>5 DEF SentWhereWritten
  <2>7. w.conn = socket
    BY OpOnFields
  <2>8. \A o \in LiveWrites : o.conn = socket
    BY <1>2 DEF LiveWrites, NoStaleOperation
  <2>9. writePackets = <<>> => n = 0
    OBVIOUS
  <2> HIDE DEF w, n, m, p
  <2>10. ASSUME NEW o \in LiveWrites', NEW i \in 1..(n + 1)
         PROVE  submitted'[writePackets'[i]] = o.conn
    <3>1. o \in LiveWrites \/ (writePackets = <<>> /\ o = w)
      BY <1>3, <2>10 DEF LiveWrites, w
    <3>2. o.conn = socket
      BY <2>7, <2>8, <3>1
    <3>3. CASE i = n + 1
      BY <2>2, <2>3, <3>2, <3>3
    <3>4. CASE i \in 1..n
      <4>1. writePackets # <<>>
        BY <2>1, <2>9, <3>4
      <4>2. o \in LiveWrites
        BY <3>1, <4>1
      <4>3. submitted[writePackets[i]] = o.conn
        BY <3>4, <4>2 DEF WrittenForIt, n
      <4> QED BY <2>2, <2>3, <2>4, <3>4, <4>3
    <3> QED BY <2>1, <3>3, <3>4
  <2> QED BY <2>2, <2>6, <2>10 DEF WrittenForIt
<1>4. CASE /\ \/ CloseThen(ops, {}, t)
              \/ CloseThen(ops, {OpOn("write", 0, 0, t)}, t)
           /\ UNCHANGED <<writePackets, submitted>>
  <2>1. ~LiveWrite(OpOn("write", 0, 0, t))
    BY BoundsAssumption DEF LiveWrite, OpOn, Conn
  <2>2. t \in Tickets /\ ops \in SUBSET Operation
    BY FreshTicketIsTicket DEF SocketTypeOK
  <2>3. NoNewWrite(ops)
    BY <1>4, <2>1, <2>2, CloseThenQuiet
  <2> QED BY <1>2, <1>4, <2>3, WrittenForKept DEF NoNewWrite, LiveWrite, LiveWrites
<1> QED BY <1>1, <1>3, <1>4

\* handle_write starts the next write on the connection of the one before, or on a
\* socket that is not open, and that write fails.
LEMMA HandleWriteForIt ==
  ASSUME ConnInv, NEW o \in ops, HandleWrite(o)
  PROVE  WrittenForIt' /\ SentWhereWritten'
<1> USE DEF ConnInv, IInv, TypeOK
<1>1. PICK t \in FreshTicket :
        \/ /\ o.res = "ok"
           /\ writePackets' = Tail(writePackets)
           /\ sent' = Append(sent, [id |-> o.pkt, via |-> o.conn])
           /\ \/ ops' = ops \ {o}
              \/ ops' = (ops \ {o}) \cup {OpOn("write", socket, writePackets[2], t)}
        \/ /\ o.res = "error"
           /\ CloseThen(ops \ {o}, {}, t)
           /\ UNCHANGED <<writePackets, sent>>
  BY DEF HandleWrite, Popped
<1>2. o.kind = "write" /\ UNCHANGED submitted
  BY DEF HandleWrite
<1>3. CASE /\ o.res = "ok"
           /\ writePackets' = Tail(writePackets)
           /\ sent' = Append(sent, [id |-> o.pkt, via |-> o.conn])
           /\ \/ ops' = ops \ {o}
              \/ ops' = (ops \ {o}) \cup {OpOn("write", socket, writePackets[2], t)}
  <2>1. o \in LiveWrites
    BY <1>2, <1>3 DEF LiveWrites
  <2>2. /\ writePackets # <<>> /\ o.pkt = writePackets[1]
        /\ \A w \in LiveWrites : w = o
    BY <2>1 DEF OneWriteFromFront, SocketTypeOK
  <2>3. /\ Len(writePackets) \in Nat \ {0}
        /\ Len(writePackets') = Len(writePackets) - 1
        /\ \A i \in 1..Len(writePackets') : writePackets'[i] = writePackets[i + 1]
    BY <1>3, <2>2 DEF SocketTypeOK
  <2> DEFINE new == [id |-> o.pkt, via |-> o.conn]
             n == Len(sent)
             next == OpOn("write", socket, writePackets[2], t)
  <2>4. /\ n \in Nat /\ Len(sent') = n + 1
        /\ \A i \in 1..n : sent'[i] = sent[i]
        /\ sent'[n + 1] = new
    BY <1>3, AppendAt DEF SocketTypeOK
  <2>5. new.id = o.pkt /\ new.via = o.conn
    OBVIOUS
  <2>6. next.conn = socket
    BY OpOnFields
  <2>7. next.res # "error" => socket # 0
    BY BoundsAssumption DEF OpOn, Conn
  <2>8. socket # 0 => socket = o.conn
    BY <1>2 DEF NoStaleOperation
  <2>9. submitted[o.pkt] = o.conn
    BY <2>1, <2>2, <2>3 DEF WrittenForIt
  <2>10. \A w \in LiveWrites' : w = next
    BY <1>3, <2>2 DEF LiveWrites
  <2> HIDE DEF new, n, next
  <2>11. SentWhereWritten'
    <3> SUFFICES ASSUME NEW i \in 1..(n + 1)
                 PROVE  submitted[sent'[i].id] = sent'[i].via
      BY <1>2, <2>4 DEF SentWhereWritten
    <3>1. CASE i = n + 1
      BY <2>4, <2>5, <2>9, <3>1
    <3>2. CASE i \in 1..n
      BY <2>4, <3>2 DEF SentWhereWritten, n
    <3> QED BY <2>4, <3>1, <3>2
  <2>12. ASSUME NEW w \in LiveWrites', NEW i \in 1..Len(writePackets')
         PROVE  submitted[writePackets'[i]] = w.conn
    <3>1. w = next /\ w.res # "error"
      BY <2>10 DEF LiveWrites
    <3>2. w.conn = o.conn
      BY <2>6, <2>7, <2>8, <3>1
    <3>3. i + 1 \in 1..Len(writePackets)
      BY <2>3
    <3>4. submitted[writePackets[i + 1]] = o.conn
      BY <2>1, <3>3 DEF WrittenForIt
    <3> QED BY <2>3, <3>2, <3>4
  <2> QED BY <1>2, <2>11, <2>12 DEF WrittenForIt
<1>4. CASE /\ CloseThen(ops \ {o}, {}, t)
           /\ UNCHANGED <<writePackets, sent>>
  <2>1. t \in Tickets /\ ops \ {o} \in SUBSET Operation
    BY FreshTicketIsTicket DEF SocketTypeOK
  <2>2. NoNewWrite(ops \ {o})
    BY <1>4, <2>1, CloseThenQuiet
  <2> QED BY <1>2, <1>4, <2>2, WrittenForKept DEF NoNewWrite, LiveWrite, LiveWrites
<1> QED BY <1>1, <1>3, <1>4

\* Every step keeps the packets on their connections.
LEMMA ConnInvStep ==
  ASSUME ConnInv, OneAtATime, [Next]_serverVars
  PROVE  ConnInv'
<1>1. IInv' /\ AcceptsAlone' /\ NoStaleOperation'
  BY IInvStep, NoStaleStep DEF ConnInv, IInv
<1> SUFFICES WrittenForIt' /\ SentWhereWritten'
  BY <1>1 DEF ConnInv
<1>2. TypeOK /\ SocketTypeOK /\ WrittenForIt /\ SentWhereWritten
  BY DEF ConnInv, IInv, TypeOK
<1>3. Quiet => WrittenForIt' /\ SentWhereWritten'
  BY <1>2, WrittenForKept DEF Quiet, NoNewWrite, LiveWrite, LiveWrites
<1>4. CASE \/ \E o \in ops : \/ CompleteAccept(o) \/ RejectConnection(o)
                           \/ FilterThrows(o) \/ HandleAccept(o)
           \/ AsyncAccept
  BY <1>2, <1>3, <1>4, AcceptQuiet
<1>5. CASE Close \/ Destroy
  BY <1>2, <1>3, <1>5, CloseQuiet
<1>6. CASE AsyncWrite
  BY <1>6, AsyncWriteForIt
<1>7. CASE Network
  <2>1. ASSUME NEW p \in LiveWrites'
        PROVE  \E r \in LiveWrites : p.conn = r.conn
    <3>1. ASSUME NEW o \in ops, CompleteRead(o) \/ CompleteWrite(o)
          PROVE  \E r \in LiveWrites : p.conn = r.conn
      <4> DEFINE done(res) == [o EXCEPT !.res = res]
      <4>1. \A res \in Results : Like(done(res), o)
        BY <1>2 DEF Like, SocketTypeOK, Operation
      <4>2. PICK res \in Results : ops' = (ops \ {o}) \cup {done(res)}
        BY <3>1 DEF CompleteRead, CompleteWrite, Complete, Results
      <4>3. o.res = "pending"
        BY <3>1 DEF CompleteRead, CompleteWrite
      <4> HIDE DEF done
      <4> QED BY <4>1, <4>2, <4>3 DEF LiveWrites, Like
    <3>2. ASSUME NEW c \in Conn,
                 \/ ConnectionLost(c) \/ PeerStopsReading(c) \/ PeerReadsOn(c)
                 \/ \E s \in Size : PeerSends(c, s)
          PROVE  \E r \in LiveWrites : p.conn = r.conn
      BY <3>2 DEF ConnectionLost, PeerStopsReading, PeerReadsOn, PeerSends, sockVars,
                  LiveWrites
    <3> QED BY <1>7, <3>1, <3>2 DEF Network
  <2> QED BY <1>2, <1>7, <2>1, NetworkSurvive, WrittenForKept DEF writeVars
<1>8. ASSUME NEW o \in ops, HandleReadHeader(o) \/ HandleReadData(o) \/ HandleWrite(o)
      PROVE  WrittenForIt' /\ SentWhereWritten'
  BY <1>2, <1>3, <1>8, ReadHandlersQuiet, HandleWriteForIt
<1>9. CASE UNCHANGED serverVars
  BY <1>2, <1>9, WrittenForKept DEF serverVars, vars, sockVars, writeVars, LiveWrites
<1> QED BY <1>4, <1>5, <1>6, <1>7, <1>8, <1>9 DEF Next, Handlers

\* The constructor establishes it.
LEMMA ConnInvInit == Init => ConnInv
<1> SUFFICES ASSUME Init PROVE ConnInv
  OBVIOUS
<1>1. AcceptsAlone /\ NoStaleOperation
  BY AcceptOpFields DEF Init, AcceptsAlone, NoStaleOperation, Accepts
<1>2. WrittenForIt /\ SentWhereWritten
  BY AcceptOpFields DEF Init, SocketInit, WrittenForIt, SentWhereWritten, LiveWrites
<1> QED BY <1>1, <1>2, IInvInit DEF ConnInv

\* A packet goes out on the connection it was written for, or not at all, if the
\* application accepts when nothing is left to run.
THEOREM SentOnItsConnection == ASSUME OneAtATime PROVE Spec => []SentWhereWritten
<1>1. ConnInv /\ [Next]_serverVars => ConnInv'
  BY ConnInvStep
<1>2. ConnInv => SentWhereWritten
  BY DEF ConnInv
<1> QED BY ConnInvInit, <1>1, <1>2, PTL DEF Spec

-----------------------------------------------------------------------------
(* After a failed write.                                                    *)

Writes == {o \in ops : o.kind = "write"}

\* There is one write at most, whatever its result, and it is for a queue that is
\* not empty; once a write has failed there is none, and the queue is not empty, so
\* that async_write starts none either.
StallInv ==
  /\ \A p, q \in Writes : p = q
  /\ Writes # {} => writePackets # <<>>
  /\ writeFailed => Writes = {} /\ writePackets # <<>>

\* The operations of the kinds K after a step are some of `rest`, completed perhaps.
Fewer(K, rest) ==
  \A p, q \in ops' : p.kind \in K /\ q.kind \in K =>
    \E r, s \in rest : r.kind \in K /\ s.kind \in K /\ (r = s => p = q)

FewerWrites(rest) == Fewer({"write"}, rest)

\* Aborting operations makes them no more.
LEMMA AbortFewer ==
  ASSUME NEW K, NEW rest \in SUBSET Operation, NEW c,
         NEW p \in Abort(rest, c), NEW q \in Abort(rest, c), p.kind \in K, q.kind \in K
  PROVE  \E r, s \in rest : r.kind \in K /\ s.kind \in K /\ (r = s => p = q)
<1> DEFINE image(r) == IF r.conn = c /\ r.res = "pending"
                       THEN [r EXCEPT !.res = "error"] ELSE r
<1>1. \A r \in rest : image(r).kind = r.kind
  BY DEF Operation
<1>2. Abort(rest, c) = {image(r) : r \in rest}
  BY DEF Abort
<1> HIDE DEF image
<1>3. PICK r \in rest, s \in rest : p = image(r) /\ q = image(s)
  BY <1>2
<1> QED BY <1>1, <1>3

\* close() makes them no more, but for what it starts.
LEMMA CloseThenFewer ==
  ASSUME NEW K, "accept" \notin K, NEW rest \in SUBSET Operation, NEW started, NEW t,
         CloseThen(rest, started, t), \A s \in started : s.kind \notin K
  PROVE  Fewer(K, rest)
<1> SUFFICES ASSUME NEW p \in ops', NEW q \in ops', p.kind \in K, q.kind \in K
             PROVE  \E r, s \in rest : r.kind \in K /\ s.kind \in K /\ (r = s => p = q)
  BY DEF Fewer
<1>1. \A o \in DisconnectCallback(t) : o.kind \notin K
  BY AcceptOpFields DEF DisconnectCallback
<1>2. CASE ops' = rest \cup started
  BY <1>2
<1>3. CASE ops' = Abort(rest, socket) \cup DisconnectCallback(t) \cup started
  <2>1. p \in Abort(rest, socket) /\ q \in Abort(rest, socket)
    BY <1>1, <1>3
  <2> QED BY <2>1, AbortFewer
<1> QED BY <1>2, <1>3 DEF CloseThen

\* In particular, it makes the writes no more.
LEMMA CloseThenFewerWrites ==
  ASSUME NEW rest \in SUBSET Operation, NEW started, NEW t,
         CloseThen(rest, started, t), \A s \in started : s.kind # "write"
  PROVE  FewerWrites(rest)
<1>1. "accept" \notin {"write"} /\ \A s \in started : s.kind \notin {"write"}
  OBVIOUS
<1> QED BY <1>1, CloseThenFewer DEF FewerWrites

\* Nor does aborting.
LEMMA AbortFewerWrites ==
  ASSUME NEW rest \in SUBSET Operation, NEW c,
         \A p \in Writes' : p \in Abort(rest, c)
  PROVE  FewerWrites(rest)
<1> DEFINE K == {"write"}
<1>1. \A p \in ops' : p.kind \in K => p \in Abort(rest, c)
  BY DEF Writes
<1> HIDE DEF K
<1>2. Fewer(K, rest)
  BY <1>1, AbortFewer DEF Fewer
<1> QED BY <1>2 DEF FewerWrites, K

\* A completion makes them no more.
LEMMA CompleteFewer ==
  ASSUME TypeOK, NEW K, NEW o \in ops, CompleteRead(o) \/ CompleteWrite(o)
  PROVE  Fewer(K, ops)
<1> DEFINE done(res) == [o EXCEPT !.res = res]
<1>1. \A res \in Results : Like(done(res), o)
  BY DEF Like, TypeOK, SocketTypeOK, Operation
<1>2. PICK res \in Results : ops' = (ops \ {o}) \cup {done(res)}
  BY DEF CompleteRead, CompleteWrite, Complete, Results
<1> HIDE DEF done
<1> DEFINE before(p) == IF p \in ops \ {o} THEN p ELSE o
<1>3. \A p \in ops' : before(p) \in ops /\ before(p).kind = p.kind
  BY <1>1, <1>2 DEF Like
<1>4. \A p, q \in ops' : before(p) = before(q) => p = q
  BY <1>2
<1> QED BY <1>3, <1>4 DEF Fewer

\* A step that leaves the queue alone and makes the writes no more keeps StallInv.
LEMMA StallKept ==
  ASSUME StallInv, UNCHANGED <<writePackets, writeFailed>>, FewerWrites(ops)
  PROVE  StallInv'
<1>1. \A p, q \in Writes' : \E r, s \in Writes : r = s => p = q
  BY DEF FewerWrites, Fewer, Writes
<1>2. \A p, q \in Writes' : p = q
  BY <1>1 DEF StallInv
<1>3. Writes' # {} => Writes # {}
  BY <1>1
<1> QED BY <1>2, <1>3 DEF StallInv

\* The operations that the acceptor, the read loop and the network leave hold no
\* more writes than before.
LEMMA OthersFewer ==
  ASSUME TypeOK, [Next]_serverVars, ~AsyncWrite, \A o \in ops : ~HandleWrite(o)
  PROVE  FewerWrites(ops) /\ UNCHANGED <<writePackets, writeFailed>>
<1>1. ops \in SUBSET Operation /\ \A o : ops \ {o} \in SUBSET Operation
  BY DEF TypeOK, SocketTypeOK
<1>2. ASSUME \A p \in Writes' : p \in ops
      PROVE  FewerWrites(ops)
  BY <1>2 DEF FewerWrites, Fewer, Writes
<1>3. ASSUME NEW o, FewerWrites(ops \ {o})
      PROVE  FewerWrites(ops)
  BY <1>3 DEF FewerWrites, Fewer
<1>4. ASSUME NEW o \in ops, CompleteAccept(o)
      PROVE  FewerWrites(ops)
  <2>1. o \in Operation /\ o.kind = "accept"
    BY <1>4 DEF CompleteAccept, Accepts, TypeOK, SocketTypeOK
  <2> DEFINE failed == [o EXCEPT !.res = "error"]
             taken  == [o EXCEPT !.res = "ok", !.conn = arrived + 1]
  <2>2. failed.kind = "accept" /\ taken.kind = "accept"
    BY <2>1 DEF Operation
  <2> HIDE DEF failed, taken
  <2>3. ops' = (ops \ {o}) \cup {failed} \/ ops' = (ops \ {o}) \cup {taken}
    BY <1>4 DEF CompleteAccept, Complete, failed, taken
  <2> QED BY <1>2, <2>2, <2>3 DEF Writes
<1>5. ASSUME NEW o \in ops, RejectConnection(o) \/ FilterThrows(o)
      PROVE  FewerWrites(ops)
  BY <1>2, <1>5, AcceptOpFields DEF RejectConnection, FilterThrows, Writes
<1>6. ASSUME NEW o \in ops, HandleAccept(o)
      PROVE  FewerWrites(ops)
  <2> DEFINE rest(t) == IF socket = 0 THEN ops \ {o}
                        ELSE Abort(ops \ {o}, socket) \cup DisconnectCallback(t)
  <2>1. PICK t : StartReading(rest(t), o.conn, t)
    BY <1>6 DEF HandleAccept
  <2>2. \A p \in ops' : p \in rest(t) \/ p.kind = "header"
    <3> HIDE DEF rest
    <3> QED BY <2>1, OpOnFields DEF StartReading
  <2>3. \A p \in DisconnectCallback(t) : p.kind # "write"
    BY AcceptOpFields DEF DisconnectCallback
  <2>4. \A p \in Writes' : IF socket = 0 THEN p \in ops \ {o}
                                         ELSE p \in Abort(ops \ {o}, socket)
    BY <2>2, <2>3 DEF Writes
  <2>5. CASE socket = 0
    BY <1>2, <2>4, <2>5
  <2>6. CASE socket # 0
    BY <1>1, <1>3, <2>4, <2>6, AbortFewerWrites
  <2> QED BY <2>5, <2>6
<1>7. ASSUME AsyncAccept PROVE FewerWrites(ops)
  BY <1>2, <1>7, AcceptOpFields DEF AsyncAccept, Writes
<1>8. ASSUME Close PROVE FewerWrites(ops)
  BY <1>1, <1>8, CloseThenFewerWrites DEF Close
<1>9. ASSUME Destroy PROVE FewerWrites(ops)
  BY <1>1, <1>2, <1>9, AbortFewerWrites DEF Destroy, Writes
<1>10. ASSUME Network PROVE FewerWrites(ops)
  <2>1. ASSUME NEW o \in ops, CompleteRead(o) \/ CompleteWrite(o)
        PROVE  FewerWrites(ops)
    BY <2>1, CompleteFewer DEF FewerWrites
  <2>2. ASSUME NEW c \in Conn,
               \/ ConnectionLost(c) \/ PeerStopsReading(c) \/ PeerReadsOn(c)
               \/ \E s \in Size : PeerSends(c, s)
        PROVE  ops' = ops
    BY <2>2 DEF ConnectionLost, PeerStopsReading, PeerReadsOn, PeerSends, sockVars
  <2> QED BY <1>2, <1>10, <2>1, <2>2 DEF Network, Writes
<1>11. ASSUME NEW o \in ops, HandleReadHeader(o) \/ HandleReadData(o)
       PROVE  FewerWrites(ops)
  <2>1. PICK t : ReadRestarted(o, t) \/ ReadBrokenOff(o) \/ ReadClosed(o, t)
    BY <1>11, ReadHandlerShape
  <2>2. CASE ReadRestarted(o, t) \/ ReadBrokenOff(o)
    <3>1. \A others \in Grown(ops \ {o}) : \A p \in others :
            p \in ops \/ p.kind \in {"header", "data"}
      BY <1>1, GrownAlike DEF Like, IsRead
    <3>2. \A p \in ops' : p \in ops \/ p.kind \in {"header", "data"}
      <4>1. CASE ReadBrokenOff(o)
        BY <3>1, <4>1 DEF ReadBrokenOff
      <4>2. CASE ReadRestarted(o, t)
        <5>1. PICK others \in Grown(ops \ {o}), kind \in {"header", "data"} :
                ops' = others \cup {OpOn(kind, socket, 0, t)}
          BY <4>2 DEF ReadRestarted
        <5>2. OpOn(kind, socket, 0, t).kind \in {"header", "data"}
          BY <5>1, OpOnFields
        <5> QED BY <3>1, <5>1, <5>2
      <4> QED BY <2>2, <4>1, <4>2
    <3> QED BY <1>2, <3>2 DEF Writes
  <2>3. CASE ReadClosed(o, t)
    <3> DEFINE h == OpOn("header", 0, 0, t)
    <3>1. h.kind = "header"
      BY OpOnFields
    <3> HIDE DEF h
    <3>2. CloseThen(ops \ {o}, {}, t) \/ CloseThen(ops \ {o}, {h}, t)
      BY <2>3 DEF ReadClosed, h
    <3>3. CASE CloseThen(ops \ {o}, {}, t)
      BY <1>1, <1>3, <3>3, CloseThenFewerWrites
    <3>4. CASE CloseThen(ops \ {o}, {h}, t)
      BY <1>1, <1>3, <3>1, <3>4, CloseThenFewerWrites
    <3> QED BY <3>2, <3>3, <3>4
  <2> QED BY <2>1, <2>2, <2>3
<1>12. ASSUME UNCHANGED serverVars PROVE FewerWrites(ops)
  BY <1>2, <1>12 DEF serverVars, vars, sockVars, Writes
<1>13. FewerWrites(ops)
  BY <1>4, <1>5, <1>6, <1>7, <1>8, <1>9, <1>10, <1>11, <1>12 DEF Next, Handlers
<1>14. UNCHANGED writeVars
  <2>1. CASE AsyncAccept \/ Close \/ Destroy \/ UNCHANGED serverVars
    BY <2>1 DEF AsyncAccept, Close, Destroy, serverVars, vars
  <2> QED BY <2>1, AcceptSurvive, NetworkSurvive, ReadHandlerShape DEF Next, Handlers, TypeOK
<1> QED BY <1>13, <1>14 DEF writeVars

\* async_write starts a write only for a queue that was empty, when there was none.
LEMMA AsyncWriteStalled ==
  ASSUME TypeOK, "alloc" \notin Faults, StallInv, AsyncWrite
  PROVE  StallInv'
<1> DEFINE p == Len(submitted) + 1
<1>1. PICK t : /\ writePackets' = Append(writePackets, p)
               /\ \/ /\ ops' = IF writePackets # <<>> THEN ops
                               ELSE ops \cup {OpOn("write", socket, p, t)}
                     /\ UNCHANGED writeFailed
                  \/ /\ writePackets = <<>>
                     /\ writeFailed' = TRUE
                     /\ UNCHANGED ops
  BY DEF AsyncWrite, Pushed, WriteInProgress
<1>2. writePackets' # <<>>
  <2>1. Len(writePackets') = Len(writePackets) + 1 /\ Len(writePackets) \in Nat
    BY <1>1, AppendAt DEF TypeOK, SocketTypeOK
  <2> QED BY <2>1
<1>3. CASE writePackets # <<>>
  BY <1>1, <1>2, <1>3 DEF StallInv, Writes
<1>4. CASE writePackets = <<>>
  <2>1. Writes = {} /\ ~writeFailed
    BY <1>4 DEF StallInv
  <2> QED BY <1>1, <1>2, <1>4, <2>1 DEF StallInv, Writes
<1> QED BY <1>3, <1>4

\* handle_write starts the next write when its own is done, and none on a failure.
LEMMA HandleWriteStalled ==
  ASSUME TypeOK, StallInv, NEW o \in ops, HandleWrite(o)
  PROVE  StallInv' /\ ~writeFailed
<1>1. o \in Writes
  BY DEF HandleWrite, Writes
<1>2. Writes = {o} /\ writePackets # <<>> /\ ~writeFailed
  BY <1>1 DEF StallInv
<1>3. PICK t :
        \/ /\ writePackets' = Tail(writePackets)
           /\ \/ /\ ops' = IF Len(writePackets) = 1 THEN ops \ {o}
                           ELSE (ops \ {o}) \cup {OpOn("write", socket, writePackets[2], t)}
                 /\ UNCHANGED writeFailed
              \/ /\ Len(writePackets) > 1
                 /\ ops' = ops \ {o}
                 /\ writeFailed' = TRUE
        \/ /\ CloseThen(ops \ {o}, {}, t)
           /\ UNCHANGED writePackets
  BY DEF HandleWrite, Popped
<1>4. CASE CloseThen(ops \ {o}, {}, t) /\ UNCHANGED writePackets
  <2>1. FewerWrites(ops \ {o})
    <3>1. ops \ {o} \in SUBSET Operation
      BY DEF TypeOK, SocketTypeOK
    <3> QED BY <1>4, <3>1, CloseThenFewerWrites
  <2>2. Writes' = {}
    BY <1>2, <2>1 DEF FewerWrites, Fewer, Writes
  <2> QED BY <1>2, <1>4, <2>2 DEF StallInv
<1>5. CASE writePackets' = Tail(writePackets)
  <2>1. Len(writePackets) \in Nat \ {0} /\ Len(writePackets') = Len(writePackets) - 1
    BY <1>2, <1>5 DEF TypeOK, SocketTypeOK
  <2>2. Len(writePackets) # 1 => writePackets' # <<>>
    BY <2>1
  <2>3. CASE Len(writePackets) = 1
    BY <1>2, <1>3, <1>4, <2>3 DEF StallInv, Writes
  <2>4. CASE Len(writePackets) # 1
    BY <1>2, <1>3, <1>4, <2>2, <2>4 DEF StallInv, Writes
  <2> QED BY <2>3, <2>4
<1> QED BY <1>2, <1>3, <1>4, <1>5

\* Once a write has failed nothing is written again, on no later connection either:
\* the queue keeps its front, async_write starts a write only when the queue is empty,
\* and handle_write when a write was done.  When queueing a packet throws, though,
\* a write is started on a queue that may be empty, and this is no longer so.
THEOREM StallForever == ASSUME "alloc" \notin Faults PROVE Spec => StallIsPermanent
<1>1. Init => StallInv
  BY AcceptOpFields DEF Init, SocketInit, StallInv, Writes
<1>2. IInv /\ StallInv /\ [Next]_serverVars => StallInv'
  BY OthersFewer, StallKept, AsyncWriteStalled, HandleWriteStalled DEF IInv
<1>3. IInv /\ StallInv /\ [Next]_serverVars => [writeFailed => sent' = sent]_serverVars
  <2> SUFFICES ASSUME IInv, StallInv, [Next]_serverVars, writeFailed
               PROVE  sent' = sent
    OBVIOUS
  <2>1. \A o \in ops : ~HandleWrite(o)
    BY HandleWriteStalled DEF IInv
  <2>2. AsyncWrite => sent' = sent
    BY DEF AsyncWrite
  <2> QED BY <2>1, <2>2, OthersLeaveChannel DEF IInv
<1> QED BY IInvInit, IInvStep, <1>1, <1>2, <1>3, PTL DEF Spec, StallIsPermanent

-----------------------------------------------------------------------------
(* The frames of a connection.  Where the read loop stands in the stream is *)
(* told by what is delivered, by the operation outstanding and by what the  *)
(* buffer holds; the units not yet read continue exactly there.             *)

\* The last unit of its frame.
Ends(u) == u.part = "body" \/ u.size = 0

\* A unit of a frame the peer sent on connection c, and the unit that follows it.
IsUnitOf(c, u) ==
  /\ u.frame \in 1..Len(frames[c])
  /\ \/ u = Header(u.frame, frames[c][u.frame])
     \/ u = Body(u.frame) /\ frames[c][u.frame] = 1

UnitAfter(c, u) ==
  IF Ends(u) THEN Header(u.frame + 1, frames[c][u.frame + 1]) ELSE Body(u.frame)

\* What is unread on connection c goes on without a gap to the end of the last frame.
Unbroken(c) ==
  LET n == Len(unread[c])
  IN  /\ \A j \in 1..n : IsUnitOf(c, unread[c][j])
      /\ \A j \in 1..(n - 1) : unread[c][j + 1] = UnitAfter(c, unread[c][j])
      /\ n > 0 => Ends(unread[c][n]) /\ unread[c][n].frame = Len(frames[c])

\* The first f frames were read, and the header of the next one is due, or its body.
AtHeader(c, f) ==
  IF unread[c] = <<>> THEN Len(frames[c]) = f
                      ELSE unread[c][1] = Header(f + 1, frames[c][f + 1])

AtBody(c, f) ==
  /\ unread[c] # <<>> /\ unread[c][1] = Body(f + 1)
  /\ f + 1 <= Len(frames[c]) /\ frames[c][f + 1] = 1

\* Where the stream and the buffer are while the read o is outstanding, or is done
\* and not dispatched, and `done` frames of its connection were delivered.
ReadAt(o, done) ==
  LET c == o.conn
  IN  CASE o.kind = "header" /\ o.res = "pending" ->
             o.at = 1 /\ Len(readPacket) = 1 /\ AtHeader(c, done)
        [] o.kind = "header" /\ o.res = "ok" ->
             /\ done + 1 <= Len(frames[c])
             /\ o.at = 1 /\ Len(readPacket) = 1
             /\ readPacket[1] = Header(done + 1, frames[c][done + 1])
             /\ IF frames[c][done + 1] = 0 THEN AtHeader(c, done + 1) ELSE AtBody(c, done)
        [] o.kind = "data" /\ o.res = "pending" ->
             /\ o.at = 2 /\ Len(readPacket) = 2 /\ readPacket[1] = Header(done + 1, 1)
             /\ AtBody(c, done)
        [] o.kind = "data" /\ o.res = "ok" ->
             /\ done + 1 <= Len(frames[c]) /\ frames[c][done + 1] = 1
             /\ Len(readPacket) = 2
             /\ readPacket[1] = Header(done + 1, 1) /\ readPacket[2] = Body(done + 1)
             /\ AtHeader(c, done + 1)
        [] OTHER -> TRUE

ReadsAtFrames ==
  \A o \in ops : IsRead(o) =>
    /\ \A p \in ops : IsRead(p) => p = o
    /\ o.res # "error" => o.conn \in Conn /\ ReadAt(o, Len(delivered[o.conn]))

\* A connection that was not installed yet has no frames.
Untouched(c) == frames[c] = <<>> /\ unread[c] = <<>> /\ delivered[c] = <<>>

NewAreUntouched ==
  /\ socket <= arrived
  /\ \A o \in Accepts : o.conn <= arrived /\ (o.conn # 0 => Untouched(o.conn))
  /\ \A c \in Conn : c > arrived => Untouched(c)

FramesInv ==
  /\ TypeOK /\ AcceptsAlone /\ NoStaleOperation
  /\ \A c \in Conn : Unbroken(c)
  /\ ReadsAtFrames /\ NewAreUntouched /\ FramesInOrder

\* A sequence appended to another.
LEMMA ConcatAt ==
  ASSUME NEW S, NEW q \in Seq(S), NEW r \in Seq(S)
  PROVE  /\ Len(q \o r) = Len(q) + Len(r)
         /\ \A i \in 1..Len(q) : (q \o r)[i] = q[i]
         /\ \A i \in 1..Len(r) : (q \o r)[Len(q) + i] = r[i]
  OBVIOUS

\* What types say of a connection.
LEMMA ConnTypes ==
  ASSUME TypeOK, NEW c \in Conn
  PROVE  /\ frames[c] \in Seq(Size) /\ Len(frames[c]) \in Nat
         /\ unread[c] \in Seq(Unit) /\ Len(unread[c]) \in Nat
         /\ delivered[c] \in Seq(Seq(Unit)) /\ Len(delivered[c]) \in Nat
         /\ \A f \in 1..Len(frames[c]) : frames[c][f] \in {0, 1}
  BY DEF TypeOK, SocketTypeOK, Size

\* Headers and bodies tell their fields.
LEMMA UnitFields ==
  ASSUME NEW f, NEW s
  PROVE  /\ Header(f, s).frame = f /\ Header(f, s).size = s /\ Header(f, s).part = "header"
         /\ Body(f).frame = f /\ Body(f).part = "body"
         /\ Ends(Body(f)) /\ (Ends(Header(f, s)) <=> s = 0)
  BY DEF Header, Body, Ends

\* A frame that the peer sends continues the stream where it ended.
LEMMA PeerSendsUnbroken ==
  ASSUME TypeOK, NEW c \in Conn, NEW s \in Size, Unbroken(c), PeerSends(c, s)
  PROVE  /\ Unbroken(c)'
         /\ Len(frames[c])' = Len(frames[c]) + 1
         /\ \A f \in 1..Len(frames[c]) : frames'[c][f] = frames[c][f]
         /\ \A f \in Nat : AtHeader(c, f) => AtHeader(c, f)'
         /\ \A f \in Nat : AtBody(c, f) => AtBody(c, f)'
<1>0. PICK k \in Nat, n \in Nat, m \in Nat :
        k = Len(frames[c]) /\ n = Len(unread[c]) /\ m = (IF s = 0 THEN 1 ELSE 2)
  BY ConnTypes
<1>1. frames[c] \in Seq(Size) /\ unread[c] \in Seq(Unit)
  BY ConnTypes
<1>2. k + 1 \in 1..MaxFrames
  BY <1>0, BoundsAssumption DEF PeerSends
<1>3. Frame(k + 1, s) \in Seq(Unit)
  BY <1>2, FrameType
<1>4. frames'[c] = Append(frames[c], s) /\ unread'[c] = unread[c] \o Frame(k + 1, s)
  BY <1>0 DEF PeerSends, TypeOK, SocketTypeOK
<1>5. /\ m = Len(Frame(k + 1, s))
      /\ Frame(k + 1, s)[1] = Header(k + 1, s)
      /\ s # 0 => s = 1 /\ Frame(k + 1, s)[2] = Body(k + 1)
  BY <1>0 DEF Frame, Size
<1>6. /\ Len(frames[c])' = k + 1 /\ frames'[c][k + 1] = s
      /\ \A f \in 1..k : frames'[c][f] = frames[c][f]
  BY <1>0, <1>1, <1>4, AppendAt
<1>7. /\ Len(unread[c])' = n + m
      /\ \A j \in 1..n : unread'[c][j] = unread[c][j]
      /\ \A j \in 1..m : unread'[c][n + j] = Frame(k + 1, s)[j]
  <2> DEFINE r == Frame(k + 1, s)
  <2> HIDE DEF r
  <2>1. /\ Len(unread[c] \o r) = Len(unread[c]) + Len(r)
        /\ \A j \in 1..Len(unread[c]) : (unread[c] \o r)[j] = unread[c][j]
        /\ \A j \in 1..Len(r) : (unread[c] \o r)[Len(unread[c]) + j] = r[j]
    <3>1. r \in Seq(Unit)
      BY <1>3 DEF r
    <3> QED BY <1>1, <3>1, ConcatAt
  <2>2. unread'[c] = unread[c] \o r /\ n = Len(unread[c]) /\ m = Len(r)
    BY <1>0, <1>4, <1>5 DEF r
  <2> QED BY <2>1, <2>2 DEF r
<1>8. unread[c] = <<>> <=> n = 0
  BY <1>0, <1>1, EmptySeq
<1>10. s \in {0, 1} /\ m \in {1, 2}
  BY <1>0 DEF Size
<1>9. unread'[c] # <<>>
  <2>1. n + m # 0
    BY <1>10
  <2> QED BY <1>7, <2>1
<1>11. /\ unread'[c][n + 1] = Header(k + 1, s)
       /\ s # 0 => unread'[c][n + 2] = Body(k + 1)
  BY <1>0, <1>5, <1>7, <1>10
<1>12. \A j \in 1..n : IsUnitOf(c, unread[c][j]) /\ IsUnitOf(c, unread[c][j])'
  <2> SUFFICES ASSUME NEW j \in 1..n
               PROVE  IsUnitOf(c, unread[c][j]) /\ IsUnitOf(c, unread[c][j])'
    OBVIOUS
  <2>1. IsUnitOf(c, unread[c][j])
    BY <1>0 DEF Unbroken
  <2>2. unread[c][j].frame \in 1..k /\ unread'[c][j] = unread[c][j]
    BY <1>0, <1>7, <2>1 DEF IsUnitOf
  <2>3. frames'[c][unread[c][j].frame] = frames[c][unread[c][j].frame]
    BY <1>6, <2>2
  <2>4. unread[c][j].frame \in 1..(k + 1)
    BY <1>0, <1>1, <2>2
  <2> QED BY <1>0, <1>6, <2>1, <2>2, <2>3, <2>4 DEF IsUnitOf
<1>13. IsUnitOf(c, unread[c][n + 1])' /\ (s # 0 => IsUnitOf(c, unread[c][n + 2])')
  <2>1. k + 1 \in 1..(k + 1)
    BY <1>0
  <2> QED BY <1>5, <1>6, <1>11, <2>1, UnitFields DEF IsUnitOf
<1>14. \A j \in 1..(n + m) : IsUnitOf(c, unread[c][j])'
  <2>1. \A j \in 1..(n + m) : j \in 1..n \/ j = n + 1 \/ (m = 2 /\ j = n + 2)
    BY <1>10
  <2> QED BY <1>0, <1>12, <1>13, <2>1
<1>15. ASSUME NEW j \in 1..(n + m - 1)
       PROVE  (unread[c][j + 1] = UnitAfter(c, unread[c][j]))'
  <2>1. j \in 1..(n - 1) \/ (n > 0 /\ j = n) \/ (m = 2 /\ j = n + 1)
    BY <1>10
  <2>2. CASE j \in 1..(n - 1)
    <3>1. j \in 1..n /\ j + 1 \in 1..n
      BY <1>0, <1>1, <2>2
    <3>2. unread[c][j + 1] = UnitAfter(c, unread[c][j])
      BY <1>0, <2>2 DEF Unbroken
    <3>3. unread'[c][j] = unread[c][j] /\ unread'[c][j + 1] = unread[c][j + 1]
      BY <1>7, <3>1
    <3>4. CASE Ends(unread[c][j])
      <4> DEFINE f == unread[c][j].frame + 1
      <4>1. unread[c][j + 1] = Header(f, frames[c][f])
        BY <3>2, <3>4 DEF UnitAfter
      <4>2. f \in 1..k
        <5>1. IsUnitOf(c, unread[c][j + 1])
          BY <1>12, <3>1
        <5>2. unread[c][j + 1].frame = f
          BY <4>1, UnitFields
        <5> QED BY <1>0, <5>1, <5>2 DEF IsUnitOf
      <4>3. frames'[c][f] = frames[c][f]
        BY <1>6, <4>2
      <4> QED BY <3>3, <3>4, <4>1, <4>3 DEF UnitAfter
    <3>5. CASE ~Ends(unread[c][j])
      BY <3>2, <3>3, <3>5 DEF UnitAfter
    <3> QED BY <3>4, <3>5
  <2>3. CASE n > 0 /\ j = n
    <3>1. n \in 1..n
      BY <1>0, <1>1, <2>3
    <3>2. Ends(unread[c][n]) /\ unread[c][n].frame = k /\ unread'[c][n] = unread[c][n]
      BY <1>0, <1>7, <2>3, <3>1 DEF Unbroken
    <3> QED BY <1>6, <1>11, <2>3, <3>2 DEF UnitAfter
  <2>4. CASE m = 2 /\ j = n + 1
    <3>1. s # 0 /\ n + 2 = j + 1
      BY <1>0, <1>1, <1>5, <2>4
    <3> QED BY <1>11, <2>4, <3>1, UnitFields DEF UnitAfter
  <2> QED BY <2>1, <2>2, <2>3, <2>4
<1>16. Ends(unread'[c][n + m]) /\ unread'[c][n + m].frame = k + 1
  <2>1. CASE s = 0
    <3>1. n + m = n + 1
      BY <1>0, <2>1
    <3> QED BY <1>11, <2>1, <3>1, UnitFields
  <2>2. CASE s # 0
    <3>1. n + m = n + 2
      BY <1>0, <2>2
    <3> QED BY <1>11, <2>2, <3>1, UnitFields
  <2> QED BY <2>1, <2>2
<1>17. Unbroken(c)'
  BY <1>6, <1>7, <1>14, <1>15, <1>16 DEF Unbroken, IsUnitOf, UnitAfter
<1>18. ASSUME NEW f \in Nat, AtHeader(c, f)
       PROVE  AtHeader(c, f)'
  <2>1. CASE unread[c] = <<>>
    <3>1. f = k /\ unread'[c][1] = Header(k + 1, s)
      BY <1>0, <1>8, <1>11, <1>18, <2>1 DEF AtHeader
    <3> QED BY <1>6, <1>9, <3>1 DEF AtHeader
  <2>2. CASE unread[c] # <<>>
    <3>1. 1 \in 1..n
      BY <1>0, <1>1, <1>8, <2>2
    <3>2. unread[c][1] = Header(f + 1, frames[c][f + 1]) /\ unread'[c][1] = unread[c][1]
      BY <1>7, <1>18, <2>2, <3>1 DEF AtHeader
    <3>3. f + 1 \in 1..k
      BY <1>0, <1>12, <3>1, <3>2, UnitFields DEF IsUnitOf
    <3> QED BY <1>6, <1>9, <3>2, <3>3 DEF AtHeader
  <2> QED BY <2>1, <2>2
<1>19. ASSUME NEW f \in Nat, AtBody(c, f)
       PROVE  AtBody(c, f)'
  <2>1. 1 \in 1..n /\ f + 1 \in 1..k
    BY <1>0, <1>1, <1>8, <1>19 DEF AtBody
  <2>2. f + 1 <= k + 1
    BY <1>0, <1>1, <2>1
  <2> QED BY <1>6, <1>7, <1>9, <1>19, <2>1, <2>2 DEF AtBody
<1> QED BY <1>0, <1>6, <1>17, <1>18, <1>19

\* Reading a unit leaves the stream unbroken, at the header or body that comes next.
LEMMA TakeUnbroken ==
  ASSUME TypeOK, NEW c \in Conn, Unbroken(c), unread[c] # <<>>,
         unread'[c] = Tail(unread[c]), frames'[c] = frames[c]
  PROVE  /\ IsUnitOf(c, unread[c][1])
         /\ Unbroken(c)'
         /\ \A f \in Nat : unread[c][1].frame = f + 1 /\ Ends(unread[c][1]) =>
              AtHeader(c, f + 1)'
         /\ \A f \in Nat : unread[c][1] = Header(f + 1, 1) => AtBody(c, f)'
<1>1. PICK n \in Nat \ {0} : n = Len(unread[c])
  BY ConnTypes, EmptySeq
<1>2. /\ Len(unread[c])' = n - 1
      /\ \A j \in 1..(n - 1) : unread'[c][j] = unread[c][j + 1]
  BY <1>1, ConnTypes, HeadTailProperties
<1>3. /\ \A j \in 1..n : IsUnitOf(c, unread[c][j])
      /\ \A j \in 1..(n - 1) : unread[c][j + 1] = UnitAfter(c, unread[c][j])
      /\ Ends(unread[c][n]) /\ unread[c][n].frame = Len(frames[c])
  BY <1>1 DEF Unbroken
<1>4. IsUnitOf(c, unread[c][1])
  BY <1>3
<1>5. \A j \in 1..(n - 1) : IsUnitOf(c, unread[c][j])'
  <2>1. \A j \in 1..(n - 1) : j + 1 \in 1..n
    OBVIOUS
  <2> QED BY <1>2, <1>3, <2>1 DEF IsUnitOf
<1>6. ASSUME NEW j \in 1..(n - 1 - 1)
      PROVE  (unread[c][j + 1] = UnitAfter(c, unread[c][j]))'
  <2>1. j \in 1..(n - 1) /\ j + 1 \in 1..(n - 1)
    OBVIOUS
  <2> QED BY <1>2, <1>3, <2>1 DEF UnitAfter
<1>7. n - 1 > 0 => unread'[c][n - 1] = unread[c][n]
  BY <1>2
<1>8. Unbroken(c)'
  BY <1>2, <1>3, <1>5, <1>6, <1>7 DEF Unbroken, IsUnitOf, UnitAfter
<1>9. n = 1 \/ (n > 1 /\ unread'[c][1] = unread[c][2])
  BY <1>2
<1>10. n = 1 <=> unread'[c] = <<>>
  <2>1. unread'[c] \in Seq(Unit)
    BY ConnTypes, HeadTailProperties
  <2>2. unread'[c] # <<>> => Len(unread'[c]) # 0
    BY <2>1, EmptySeq
  <2>3. unread'[c] = <<>> => Len(unread'[c]) = 0
    BY EmptySeq, Zenon
  <2>4. Len(unread'[c]) = 0 <=> n = 1
    BY <1>1, <1>2, ConnTypes
  <2> QED BY <2>2, <2>3, <2>4, Zenon
<1>11. n > 1 => unread[c][2] = UnitAfter(c, unread[c][1])
  BY <1>3
<1>12. ASSUME NEW f \in Nat, unread[c][1].frame = f + 1, Ends(unread[c][1])
       PROVE  AtHeader(c, f + 1)'
  <2>1. CASE n = 1
    BY <1>3, <1>10, <1>12, <2>1 DEF AtHeader
  <2>2. CASE n > 1
    BY <1>9, <1>10, <1>11, <1>12, <2>2 DEF AtHeader, UnitAfter
  <2> QED BY <2>1, <2>2
<1>13. ASSUME NEW f \in Nat, unread[c][1] = Header(f + 1, 1)
       PROVE  AtBody(c, f)'
  <2>1. ~Ends(unread[c][1]) /\ unread[c][1].frame = f + 1
    BY <1>13, UnitFields
  <2>2. n > 1 /\ unread[c][2] = Body(f + 1)
    BY <1>3, <1>11, <2>1 DEF UnitAfter
  <2>3. f + 1 \in 1..Len(frames[c]) /\ frames[c][f + 1] = 1
    <3>1. unread[c][1] = Header(f + 1, frames[c][f + 1]) /\ f + 1 \in 1..Len(frames[c])
      BY <1>4, <1>13, <2>1, UnitFields DEF IsUnitOf
    <3> QED BY <1>13, <3>1, UnitFields
  <2>4. f + 1 <= Len(frames[c])
    BY <2>3, ConnTypes
  <2> QED BY <1>9, <1>10, <2>2, <2>3, <2>4 DEF AtBody
<1> QED BY <1>4, <1>8, <1>12, <1>13

ReadKinds == {"header", "data"}

\* A step that starts no read, and leaves buffer and streams alone, keeps the place.
LEMMA ReadsKept ==
  ASSUME ReadsAtFrames, Fewer(ReadKinds, ops),
         UNCHANGED <<frames, unread, readPacket, delivered>>,
         \A p \in ops' : IsRead(p) /\ p.res # "error" => p \in ops
  PROVE  ReadsAtFrames'
<1> SUFFICES ASSUME NEW o \in ops', IsRead(o)
             PROVE  /\ \A p \in ops' : IsRead(p) => p = o
                    /\ o.res # "error" =>
                         o.conn \in Conn /\ ReadAt(o, Len(delivered[o.conn]))'
  BY DEF ReadsAtFrames
<1>1. ASSUME NEW p \in ops', IsRead(p)
      PROVE  p = o
  <2>1. p.kind \in ReadKinds /\ o.kind \in ReadKinds
    BY <1>1 DEF IsRead, ReadKinds
  <2>2. PICK r \in ops, s \in ops :
          r.kind \in ReadKinds /\ s.kind \in ReadKinds /\ (r = s => p = o)
    BY <2>1 DEF Fewer
  <2> QED BY <2>2 DEF ReadsAtFrames, IsRead, ReadKinds
<1>2. ASSUME o.res # "error"
      PROVE  o.conn \in Conn /\ ReadAt(o, Len(delivered[o.conn]))'
  <2>1. o.conn \in Conn /\ ReadAt(o, Len(delivered[o.conn]))
    BY <1>2 DEF ReadsAtFrames
  <2> QED BY <2>1 DEF ReadAt, AtHeader, AtBody
<1> QED BY <1>1, <1>2

\* Sequences of one and of two elements are made of them.
LEMMA SeqOfOneOrTwo ==
  ASSUME NEW S, NEW q \in Seq(S)
  PROVE  /\ Len(q) = 1 => q = <<q[1]>>
         /\ Len(q) = 2 => q = <<q[1], q[2]>>
<1>1. ASSUME Len(q) = 1 PROVE q = <<q[1]>>
  <2>1. q[1] \in S
    BY <1>1
  <2>2. <<q[1]>> \in Seq(S) /\ Len(<<q[1]>>) = 1 /\ \A i \in 1..1 : <<q[1]>>[i] = q[i]
    BY <2>1
  <2> QED BY <1>1, <2>2, SeqEqual
<1>2. ASSUME Len(q) = 2 PROVE q = <<q[1], q[2]>>
  <2>1. q[1] \in S /\ q[2] \in S
    <3>1. 1 \in 1..Len(q) /\ 2 \in 1..Len(q)
      BY <1>2
    <3> QED BY <3>1, ElementOfSeq
  <2>2. <<q[1], q[2]>> \in Seq(S) /\ Len(<<q[1], q[2]>>) = 2
    BY <2>1
  <2>3. \A i \in 1..2 : <<q[1], q[2]>>[i] = q[i]
    OBVIOUS
  <2> QED BY <1>2, <2>2, <2>3, SeqEqual
<1> QED BY <1>1, <1>2

\* The buffer after a resize.
LEMMA ResizeAt ==
  ASSUME NEW n \in {1, 2}
  PROVE  Len(Resize(n)) = n /\ (Len(readPacket) \in {1, 2} => Resize(n)[1] = readPacket[1])
<1>1. Len(Resize(n)) = n
  BY DEF Resize
<1>2. Len(readPacket) \in {1, 2} => Resize(n)[1] = readPacket[1]
  BY DEF Resize
<1> QED BY <1>1, <1>2

\* A read that was started may succeed if the socket is open.
LEMMA OpOnLive ==
  ASSUME NEW kind, NEW c, NEW p, NEW t, OpOn(kind, c, p, t).res # "error"
  PROVE  c \in Conn /\ OpOn(kind, c, p, t).res = "pending"
  BY DEF OpOn

\* After the step there is one read at most; if it may succeed it is of this kind,
\* on the connection that is held.
OneRead(kind) ==
  /\ \A p, q \in ops' : IsRead(p) /\ IsRead(q) => p = q
  /\ \A p \in ops' : IsRead(p) /\ p.res # "error" =>
       /\ p.kind = kind /\ p.res = "pending" /\ p.at = PlaceOf(kind)
       /\ p.conn = socket /\ socket \in Conn

\* close() by the handler of the only read starts none that may succeed.
LEMMA CloseThenReads ==
  ASSUME NEW rest \in SUBSET Operation, \A r \in rest : ~IsRead(r), NEW t, NEW kind,
         \/ CloseThen(rest, {}, t)
         \/ CloseThen(rest, {OpOn("header", 0, 0, t)}, t)
  PROVE  OneRead(kind)
<1> DEFINE h == OpOn("header", 0, 0, t)
<1>1. h.res = "error"
  BY BoundsAssumption DEF OpOn, Conn
<1> HIDE DEF h
<1>2. \A p \in Abort(rest, socket) : ~IsRead(p)
  BY AbortSurvive DEF Like, IsRead
<1>3. \A p \in DisconnectCallback(t) : ~IsRead(p)
  BY AcceptOpFields DEF DisconnectCallback, IsRead
<1>4. CloseThen(rest, {}, t) \/ CloseThen(rest, {h}, t)
  BY DEF h
<1>5. \A p \in ops' : IsRead(p) => p = h
  BY <1>2, <1>3, <1>4 DEF CloseThen
<1> QED BY <1>1, <1>5 DEF OneRead

\* Reading the next header.
LEMMA AsyncReadHeaderReads ==
  ASSUME NEW rest, \A r \in rest : ~IsRead(r), NEW t, AsyncReadHeader(rest, socket, t)
  PROVE  OneRead("header") /\ readPacket' = Resize(1)
<1> DEFINE h == OpOn("header", socket, 0, t)
<1>1. /\ h.kind = "header" /\ h.conn = socket /\ h.at = PlaceOf("header")
      /\ h.res # "error" => h.res = "pending" /\ socket \in Conn
  BY OpOnFields, OpOnLive
<1> HIDE DEF h
<1>2. ops' = rest \cup {h} \/ ops' = rest
  BY DEF AsyncReadHeader, h
<1>3. \A p \in ops' : IsRead(p) => p = h
  BY <1>2
<1> QED BY <1>1, <1>3 DEF OneRead, AsyncReadHeader

\* Reading a body, into a buffer that can grow.
LEMMA AsyncReadDataReads ==
  ASSUME NEW rest \in SUBSET Operation, \A r \in rest : ~IsRead(r), NEW t,
         "grow" \notin Faults, AsyncReadData(rest, t)
  PROVE  OneRead("data") /\ readPacket' = Resize(Len(readPacket) + 1)
<1> DEFINE h == OpOn("data", socket, 0, t)
<1>1. /\ h.kind = "data" /\ h.conn = socket /\ h.at = PlaceOf("data")
      /\ h.res # "error" => h.res = "pending" /\ socket \in Conn
  BY OpOnFields, OpOnLive
<1> HIDE DEF h
<1>2. PICK others \in Grown(rest) :
        (ops' = others \cup {h} \/ ops' = others) /\ readPacket' = Resize(Len(readPacket) + 1)
  BY DEF AsyncReadData, h
<1>4. \A p \in others : ~IsRead(p)
  BY GrownAlike DEF Like, IsRead
<1>3. \A p \in ops' : IsRead(p) => p = h
  BY <1>2, <1>4
<1> QED BY <1>1, <1>2, <1>3 DEF OneRead

\* Giving a packet to the callback, whatever that does.
LEMMA DeliverReads ==
  ASSUME NEW o, NEW rest \in SUBSET Operation, \A r \in rest : ~IsRead(r), NEW t,
         Deliver(o, rest, t)
  PROVE  /\ OneRead("header")
         /\ (\E p \in ops' : IsRead(p)) => readPacket' = Resize(1)
<1>1. CASE AsyncReadHeader(rest, socket, t)
  BY <1>1, AsyncReadHeaderReads
<1>2. CASE ops' = rest
  BY <1>2 DEF OneRead
<1>3. CASE CloseThen(rest, {OpOn("header", 0, 0, t)}, t) /\ readPacket' = Resize(1)
  BY <1>3, CloseThenReads
<1> QED BY <1>1, <1>2, <1>3 DEF Deliver

\* A stream that a step leaves alone stays unbroken.
LEMMA UnbrokenKept ==
  ASSUME NEW c, Unbroken(c), frames'[c] = frames[c], unread'[c] = unread[c]
  PROVE  Unbroken(c)'
  BY DEF Unbroken, IsUnitOf, UnitAfter

\* The next unit of the stream is put into the buffer.
LEMMA CompleteReadReads ==
  ASSUME TypeOK, ReadsAtFrames, \A c \in Conn : Unbroken(c), NEW o \in ops, CompleteRead(o)
  PROVE  /\ ReadsAtFrames' /\ \A c \in Conn : Unbroken(c)'
         /\ \A c \in Conn : Untouched(c) => Untouched(c)'
<1>1. PICK c \in Conn : c = o.conn
  BY DEF CompleteRead
<1>2. PICK d \in Nat : d = Len(delivered[c])
  BY ConnTypes
<1>3. o \in Operation /\ IsRead(o) /\ o.res = "pending"
  BY DEF CompleteRead, TypeOK, SocketTypeOK
<1>4. ReadAt(o, d)
  BY <1>1, <1>2, <1>3 DEF ReadsAtFrames
<1> DEFINE failed == [o EXCEPT !.res = "error"]
           read   == [o EXCEPT !.res = "ok"]
<1>5. /\ failed.res = "error"
      /\ read.res = "ok" /\ read.kind = o.kind /\ read.conn = c /\ read.at = o.at
  BY <1>1, <1>3 DEF Operation
<1>6. CASE Complete(o, "error") /\ UNCHANGED <<readPacket, unread>>
  <2>1. UNCHANGED <<frames, unread, readPacket, delivered>>
    BY <1>6 DEF CompleteRead
  <2>2. ops' = (ops \ {o}) \cup {failed}
    BY <1>6 DEF Complete
  <2> HIDE DEF failed
  <2>3. \A p \in ops' : IsRead(p) /\ p.res # "error" => p \in ops
    BY <1>5, <2>2
  <2>4. ReadsAtFrames'
    BY <2>1, <2>3, CompleteFewer, ReadsKept
  <2> QED BY <2>1, <2>4 DEF Unbroken, IsUnitOf, UnitAfter, Untouched
<1>7. ASSUME unread[c] # <<>>, Complete(o, "ok"),
             unread' = [unread EXCEPT ![c] = Tail(@)],
             readPacket' = [i \in DOMAIN readPacket |->
                              IF i = o.at THEN Head(unread[c]) ELSE readPacket[i]]
      PROVE  /\ ReadsAtFrames' /\ \A b \in Conn : Unbroken(b)'
             /\ \A b \in Conn : Untouched(b) => Untouched(b)'
  <2>1. frames' = frames /\ delivered' = delivered
    BY DEF CompleteRead
  <2>2. unread'[c] = Tail(unread[c]) /\ \A b \in Conn \ {c} : unread'[b] = unread[b]
    BY <1>7 DEF TypeOK, SocketTypeOK
  <2>3. /\ IsUnitOf(c, unread[c][1])
        /\ Unbroken(c)'
        /\ \A f \in Nat : unread[c][1].frame = f + 1 /\ Ends(unread[c][1]) =>
             AtHeader(c, f + 1)'
        /\ \A f \in Nat : unread[c][1] = Header(f + 1, 1) => AtBody(c, f)'
    BY <1>7, <2>1, <2>2, TakeUnbroken
  <2>4. \A b \in Conn : Unbroken(b)'
    <3>1. \A b \in Conn \ {c} : Unbroken(b)'
      BY <2>1, <2>2, UnbrokenKept
    <3> QED BY <2>3, <3>1
  <2>5. \A b \in Conn : Untouched(b) => Untouched(b)'
    BY <1>7, <2>1, <2>2 DEF Untouched
  <2>6. ops' = (ops \ {o}) \cup {read}
    BY <1>7 DEF Complete
  <2> HIDE DEF read
  <2>7. \A p \in ops' : IsRead(p) => p = read
    BY <1>3, <2>6 DEF ReadsAtFrames
  <2>8. Head(unread[c]) = unread[c][1]
    BY <1>7, ConnTypes
  <2>9. ReadAt(read, d)'
    <3>1. CASE o.kind = "header"
      <4>1. /\ o.at = 1 /\ Len(readPacket) = 1
            /\ unread[c][1] = Header(d + 1, frames[c][d + 1])
        BY <1>1, <1>3, <1>4, <1>7, <3>1 DEF ReadAt, AtHeader
      <4>2. d + 1 \in 1..Len(frames[c])
        BY <2>3, <4>1, UnitFields DEF IsUnitOf
      <4>3. Len(readPacket)' = 1 /\ readPacket'[1] = Header(d + 1, frames[c][d + 1])
        BY <1>7, <2>8, <3>1, <4>1 DEF TypeOK, SocketTypeOK
      <4>4. frames[c][d + 1] = 0 => AtHeader(c, d + 1)'
        BY <1>2, <2>3, <4>1, UnitFields
      <4>5. frames[c][d + 1] # 0 => AtBody(c, d)'
        <5>1. frames[c][d + 1] \in {0, 1}
          BY <4>2, ConnTypes
        <5> QED BY <1>2, <2>3, <4>1, <5>1
      <4>6. d + 1 <= Len(frames[c])
        BY <4>2, ConnTypes
      <4> QED BY <1>5, <2>1, <3>1, <4>1, <4>3, <4>4, <4>5, <4>6 DEF ReadAt
    <3>2. CASE o.kind = "data"
      <4>1. /\ o.at = 2 /\ Len(readPacket) = 2 /\ readPacket[1] = Header(d + 1, 1)
            /\ unread[c][1] = Body(d + 1)
            /\ d + 1 <= Len(frames[c]) /\ frames[c][d + 1] = 1
        BY <1>1, <1>3, <1>4, <3>2 DEF ReadAt, AtBody
      <4>2. /\ Len(readPacket)' = 2 /\ readPacket'[1] = Header(d + 1, 1)
            /\ readPacket'[2] = Body(d + 1)
        BY <1>7, <2>8, <3>2, <4>1 DEF TypeOK, SocketTypeOK
      <4>3. AtHeader(c, d + 1)'
        BY <1>2, <2>3, <4>1, UnitFields
      <4> QED BY <1>5, <2>1, <3>2, <4>1, <4>2, <4>3 DEF ReadAt
    <3> QED BY <1>3, <3>1, <3>2 DEF IsRead
  <2>10. ReadsAtFrames'
    BY <1>1, <1>2, <1>5, <2>1, <2>7, <2>9 DEF ReadsAtFrames
  <2> QED BY <2>4, <2>5, <2>10
<1> QED BY <1>1, <1>6, <1>7 DEF CompleteRead

\* The peer sends a frame.
LEMMA PeerSendsReads ==
  ASSUME TypeOK, ReadsAtFrames, \A b \in Conn : Unbroken(b), FramesInOrder,
         NEW c \in Conn, NEW s \in Size, PeerSends(c, s)
  PROVE  ReadsAtFrames' /\ (\A b \in Conn : Unbroken(b)') /\ FramesInOrder'
<1>1. /\ Unbroken(c)'
      /\ Len(frames[c])' = Len(frames[c]) + 1
      /\ \A f \in 1..Len(frames[c]) : frames'[c][f] = frames[c][f]
      /\ \A f \in Nat : AtHeader(c, f) => AtHeader(c, f)'
      /\ \A f \in Nat : AtBody(c, f) => AtBody(c, f)'
  BY PeerSendsUnbroken
<1>2. UNCHANGED <<ops, readPacket, delivered>>
  BY DEF PeerSends, sockVars, readVars
<1>3. \A b \in Conn \ {c} : frames'[b] = frames[b] /\ unread'[b] = unread[b]
  BY DEF PeerSends, TypeOK, SocketTypeOK
<1>4. \A b \in Conn : Unbroken(b)'
  <2>1. \A b \in Conn \ {c} : Unbroken(b)'
    BY <1>3, UnbrokenKept
  <2> QED BY <1>1, <2>1
<1>5. ASSUME NEW o \in ops, IsRead(o), o.res # "error"
      PROVE  o.conn \in Conn /\ ReadAt(o, Len(delivered[o.conn]))'
  <2>1. o.conn \in Conn /\ ReadAt(o, Len(delivered[o.conn]))
    BY <1>5 DEF ReadsAtFrames
  <2>2. CASE o.conn # c
    BY <1>2, <1>3, <2>1, <2>2 DEF ReadAt, AtHeader, AtBody
  <2>3. CASE o.conn = c
    <3>1. PICK d \in Nat : d = Len(delivered[c])
      BY ConnTypes
    <3>2. AtHeader(c, d) => AtHeader(c, d)'
      BY <1>1, <3>1
    <3>3. AtHeader(c, d + 1) => AtHeader(c, d + 1)'
      BY <1>1, <3>1
    <3>4. AtBody(c, d) => AtBody(c, d)'
      BY <1>1, <3>1
    <3>5. d + 1 <= Len(frames[c]) =>
            d + 1 <= Len(frames[c])' /\ frames'[c][d + 1] = frames[c][d + 1]
      BY <1>1, <3>1, ConnTypes
    <3> QED BY <1>2, <2>1, <2>3, <3>1, <3>2, <3>3, <3>4, <3>5 DEF ReadAt
  <2> QED BY <2>2, <2>3
<1>6. ReadsAtFrames'
  BY <1>2, <1>5 DEF ReadsAtFrames
<1>7. FramesInOrder'
  <2> SUFFICES ASSUME NEW b \in Conn
               PROVE  /\ Len(delivered[b]) <= Len(frames[b])'
                      /\ \A i \in 1..Len(delivered[b]) :
                           delivered[b][i] = Frame(i, frames'[b][i])
    BY <1>2 DEF FramesInOrder
  <2>1. Len(frames[b]) \in Nat /\ Len(delivered[b]) \in Nat
    BY ConnTypes
  <2>2. Len(frames[b])' >= Len(frames[b])
    BY <1>1, <1>3, <2>1
  <2>3. \A i \in 1..Len(frames[b]) : frames'[b][i] = frames[b][i]
    BY <1>1, <1>3
  <2>4. Len(delivered[b]) <= Len(frames[b])
    BY DEF FramesInOrder
  <2>5. Len(delivered[b])' = Len(delivered[b])
    BY <1>2
  <2>6. \A i \in 1..Len(delivered[b]) : delivered[b][i] = Frame(i, frames[b][i])
    BY DEF FramesInOrder
  <2>7. \A i \in 1..Len(delivered[b]) : i \in 1..Len(frames[b])
    BY <2>1, <2>4
  <2> QED BY <2>1, <2>2, <2>3, <2>4, <2>5, <2>6, <2>7
<1> QED BY <1>4, <1>6, <1>7

\* What the callback is given is the frame that is due, and the loop goes on behind it.
LEMMA DeliverReadsAt ==
  ASSUME TypeOK, FramesInOrder, NEW c \in Conn, NEW d \in Nat, d = Len(delivered[c]),
         d + 1 <= Len(frames[c]), readPacket = Frame(d + 1, frames[c][d + 1]),
         AtHeader(c, d + 1), socket \in {0, c},
         NEW o, o.conn = c, NEW rest \in SUBSET Operation, \A r \in rest : ~IsRead(r),
         NEW t, Deliver(o, rest, t), UNCHANGED <<frames, unread>>
  PROVE  /\ ReadsAtFrames' /\ FramesInOrder'
         /\ \A b \in Conn : Untouched(b) => Untouched(b)'
<1>1. OneRead("header") /\ ((\E p \in ops' : IsRead(p)) => readPacket' = Resize(1))
  BY DeliverReads
<1>2. /\ delivered'[c] = Append(delivered[c], readPacket)
      /\ \A b \in Conn \ {c} : delivered'[b] = delivered[b]
  BY DEF Deliver, TypeOK, SocketTypeOK
<1>3. /\ Len(delivered[c])' = d + 1 /\ delivered'[c][d + 1] = readPacket
      /\ \A i \in 1..d : delivered'[c][i] = delivered[c][i]
  <2>1. delivered[c] \in Seq(Seq(Unit)) /\ readPacket \in Seq(Unit)
    BY ConnTypes DEF TypeOK, SocketTypeOK
  <2> QED BY <1>2, <2>1, AppendAt
<1>4. ASSUME NEW p \in ops', IsRead(p), p.res # "error"
      PROVE  p.conn \in Conn /\ ReadAt(p, Len(delivered[p.conn]))'
  <2>1. p.kind = "header" /\ p.res = "pending" /\ p.conn = c /\ p.at = 1
    BY <1>1, <1>4, BoundsAssumption DEF OneRead, Conn, PlaceOf
  <2>2. Len(readPacket)' = 1
    BY <1>1, <1>4, ResizeAt
  <2>3. AtHeader(c, d + 1)'
    BY DEF AtHeader
  <2> QED BY <1>3, <2>1, <2>2, <2>3 DEF ReadAt
<1>5. ReadsAtFrames'
  BY <1>1, <1>4 DEF ReadsAtFrames, OneRead
<1>6. FramesInOrder'
  <2> SUFFICES ASSUME NEW b \in Conn
               PROVE  (/\ Len(delivered[b]) <= Len(frames[b])
                       /\ \A i \in 1..Len(delivered[b]) :
                            delivered[b][i] = Frame(i, frames[b][i]))'
    BY DEF FramesInOrder
  <2>1. /\ Len(delivered[b]) <= Len(frames[b])
        /\ \A i \in 1..Len(delivered[b]) : delivered[b][i] = Frame(i, frames[b][i])
    BY DEF FramesInOrder
  <2>2. CASE b # c
    BY <1>2, <2>1, <2>2
  <2>3. CASE b = c
    BY <1>3, <2>1, <2>3
  <2> QED BY <2>2, <2>3
<1>7. ASSUME NEW b \in Conn, Untouched(b)
      PROVE  Untouched(b)'
  <2>1. b # c
    BY <1>7, EmptySeq DEF Untouched
  <2> QED BY <1>2, <1>7, <2>1 DEF Untouched
<1> QED BY <1>5, <1>6, <1>7

\* The handlers of the read loop.
LEMMA ReadHandlerReads ==
  ASSUME TypeOK, "grow" \notin Faults, ReadsAtFrames, FramesInOrder, NoStaleOperation,
         NEW o \in ops, HandleReadHeader(o) \/ HandleReadData(o)
  PROVE  /\ ReadsAtFrames' /\ FramesInOrder' /\ UNCHANGED <<frames, unread>>
         /\ \A b \in Conn : Untouched(b) => Untouched(b)'
<1> DEFINE rest == ops \ {o}
<1>1. IsRead(o) /\ o.kind # "accept" /\ UNCHANGED <<frames, unread>>
  BY DEF HandleReadHeader, HandleReadData, IsRead, netVars
<1>2. rest \in SUBSET Operation /\ \A r \in rest : ~IsRead(r)
  BY <1>1 DEF ReadsAtFrames, TypeOK, SocketTypeOK
<1>3. CASE o.res = "error"
  <2>1. PICK t : CloseThen(rest, {}, t) /\ UNCHANGED readVars
    BY <1>3 DEF HandleReadHeader, HandleReadData
  <2>2. OneRead("header")
    BY <1>2, <2>1, CloseThenReads
  <2>3. \A p \in ops' : IsRead(p) => p.res = "error"
    <3>1. \A p \in Abort(rest, socket) : ~IsRead(p)
      BY <1>2, AbortSurvive DEF Like, IsRead
    <3>2. \A p \in DisconnectCallback(t) : ~IsRead(p)
      BY AcceptOpFields DEF DisconnectCallback, IsRead
    <3> QED BY <1>2, <2>1, <3>1, <3>2 DEF CloseThen
  <2>4. ReadsAtFrames'
    BY <2>2, <2>3 DEF ReadsAtFrames, OneRead
  <2> QED BY <1>1, <2>1, <2>4 DEF FramesInOrder, Untouched, readVars
<1>4. CASE o.res = "ok"
  <2>1. PICK c \in Conn : c = o.conn
    BY <1>1, <1>4 DEF ReadsAtFrames
  <2>2. PICK d \in Nat : d = Len(delivered[c])
    BY ConnTypes
  <2>3. ReadAt(o, d)
    BY <1>1, <1>4, <2>1, <2>2 DEF ReadsAtFrames
  <2>4. socket \in {0, c}
    BY <1>1, <2>1 DEF NoStaleOperation
  <2>5. readPacket \in Seq(Unit)
    BY DEF TypeOK, SocketTypeOK
  <2>6. CASE HandleReadHeader(o)
    <3>1. o.kind = "header"
      BY <2>6 DEF HandleReadHeader
    <3>2. /\ d + 1 <= Len(frames[c])
          /\ o.at = 1 /\ Len(readPacket) = 1
          /\ readPacket[1] = Header(d + 1, frames[c][d + 1])
          /\ IF frames[c][d + 1] = 0 THEN AtHeader(c, d + 1) ELSE AtBody(c, d)
      BY <1>4, <2>1, <2>3, <3>1 DEF ReadAt
    <3>3. frames[c][d + 1] \in {0, 1}
      BY <3>2, ConnTypes
    <3>4. HeaderSizes(o) = {frames[c][d + 1]}
      BY <1>2, <3>2, UnitFields DEF HeaderSizes
    <3>5. PICK t : \/ /\ frames[c][d + 1] > 0
                      /\ AsyncReadData(rest, t)
                      /\ UNCHANGED <<socket, disconnects, delivered>>
                   \/ /\ frames[c][d + 1] = 0
                      /\ Deliver(o, rest, t)
      BY <1>4, <2>6, <3>4 DEF HandleReadHeader
    <3>6. CASE /\ frames[c][d + 1] > 0
               /\ AsyncReadData(rest, t)
               /\ UNCHANGED <<socket, disconnects, delivered>>
      <4>1. OneRead("data") /\ readPacket' = Resize(2)
        BY <1>2, <3>2, <3>6, AsyncReadDataReads
      <4>2. frames[c][d + 1] = 1
        BY <3>3, <3>6
      <4>3. Len(readPacket)' = 2 /\ readPacket'[1] = Header(d + 1, 1)
        BY <3>2, <4>1, <4>2, ResizeAt
      <4>4. AtBody(c, d)'
        BY <1>1, <3>2, <4>2 DEF AtBody
      <4>5. ASSUME NEW p \in ops', IsRead(p), p.res # "error"
            PROVE  p.conn \in Conn /\ ReadAt(p, Len(delivered[p.conn]))'
        <5>1. p.kind = "data" /\ p.res = "pending" /\ p.conn = c /\ p.at = 2
          BY <2>4, <3>2, <4>1, <4>5, BoundsAssumption DEF OneRead, Conn, PlaceOf
        <5>2. Len(delivered[c])' = d
          BY <2>2, <3>6
        <5> QED BY <4>3, <4>4, <5>1, <5>2 DEF ReadAt
      <4>6. ReadsAtFrames'
        BY <4>1, <4>5 DEF ReadsAtFrames, OneRead
      <4> QED BY <1>1, <3>6, <4>6 DEF FramesInOrder, Untouched
    <3>7. CASE frames[c][d + 1] = 0 /\ Deliver(o, rest, t)
      <4>1. readPacket = Frame(d + 1, frames[c][d + 1])
        BY <2>5, <3>2, <3>7, SeqOfOneOrTwo DEF Frame
      <4>2. AtHeader(c, d + 1) /\ o.conn = c
        BY <2>1, <3>2, <3>7
      <4> QED BY <1>1, <1>2, <2>2, <2>4, <3>2, <3>7, <4>1, <4>2, DeliverReadsAt
    <3> QED BY <3>5, <3>6, <3>7
  <2>7. CASE HandleReadData(o)
    <3>1. o.kind = "data"
      BY <2>7 DEF HandleReadData
    <3>2. /\ d + 1 <= Len(frames[c]) /\ frames[c][d + 1] = 1
          /\ Len(readPacket) = 2
          /\ readPacket[1] = Header(d + 1, 1) /\ readPacket[2] = Body(d + 1)
          /\ AtHeader(c, d + 1)
      BY <1>4, <2>1, <2>3, <3>1 DEF ReadAt
    <3>3. PICK t : Deliver(o, rest, t)
      BY <1>4, <2>7, <3>2 DEF HandleReadData
    <3>4. readPacket = Frame(d + 1, frames[c][d + 1])
      BY <2>5, <3>2, SeqOfOneOrTwo DEF Frame
    <3> QED BY <1>1, <1>2, <2>1, <2>2, <2>4, <3>2, <3>3, <3>4, DeliverReadsAt
  <2> QED BY <2>6, <2>7
<1> QED BY <1>3, <1>4 DEF HandleReadHeader, HandleReadData

\* close() by a handler that is no read's starts none either.
LEMMA CloseThenReadsKept ==
  ASSUME NEW rest \in SUBSET Operation, rest \subseteq ops, NEW started, NEW t,
         CloseThen(rest, started, t), \A s \in started : ~IsRead(s)
  PROVE  /\ Fewer(ReadKinds, ops)
         /\ \A p \in ops' : IsRead(p) /\ p.res # "error" => p \in ops
<1> DEFINE K == ReadKinds
<1>1. "accept" \notin K /\ \A s \in started : s.kind \notin K
  BY DEF ReadKinds, IsRead
<1> HIDE DEF K
<1>2. Fewer(K, rest)
  BY <1>1, CloseThenFewer
<1>3. Fewer(K, ops)
  BY <1>2 DEF Fewer
<1>4. \A p \in Abort(rest, socket) : p \in rest \/ p.res = "error"
  BY AbortSurvive
<1>5. \A p \in DisconnectCallback(t) : ~IsRead(p)
  BY AcceptOpFields DEF DisconnectCallback, IsRead
<1> QED BY <1>3, <1>4, <1>5 DEF K, CloseThen

\* Whatever starts and ends writes leaves the reads as they are.
LEMMA OtherReadsKept ==
  ASSUME TypeOK, ReadsAtFrames,
         \/ Close \/ Destroy \/ AsyncWrite
         \/ \E o \in ops : HandleWrite(o) \/ CompleteWrite(o)
         \/ \E c \in Conn : ConnectionLost(c) \/ PeerStopsReading(c) \/ PeerReadsOn(c)
  PROVE  ReadsAtFrames' /\ UNCHANGED <<frames, unread, readPacket, delivered>>
<1>1. UNCHANGED <<frames, unread, readPacket, delivered>>
  BY DEF Close, Destroy, AsyncWrite, HandleWrite, CompleteWrite, ConnectionLost,
         PeerStopsReading, PeerReadsOn, netVars, readVars
<1>2. ops \in SUBSET Operation /\ \A o : ops \ {o} \in SUBSET Operation
  BY DEF TypeOK, SocketTypeOK
<1> DEFINE Kept == /\ Fewer(ReadKinds, ops)
                   /\ \A p \in ops' : IsRead(p) /\ p.res # "error" => p \in ops
<1>3. ASSUME \A p \in ops' : p \in ops \/ ~IsRead(p)
      PROVE  Kept
  BY <1>3 DEF Fewer, ReadKinds, IsRead
<1>4. ASSUME Close PROVE Kept
  <2>1. \A s \in {} : ~IsRead(s)
    OBVIOUS
  <2> QED BY <1>2, <1>4, <2>1, CloseThenReadsKept DEF Close
<1>5. ASSUME Destroy PROVE Kept
  <2>1. CASE socket = 0
    BY <1>3, <1>5, <2>1 DEF Destroy
  <2>2. CASE ops' = Abort(ops, socket)
    <3>1. \A p \in ops' : p \in ops \/ p.res = "error"
      BY <1>2, <2>2, AbortSurvive
    <3>2. Fewer(ReadKinds, ops)
      <4>1. \A p, q \in Abort(ops, socket) : p.kind \in ReadKinds /\ q.kind \in ReadKinds =>
              \E r, s \in ops : r.kind \in ReadKinds /\ s.kind \in ReadKinds /\ (r = s => p = q)
        BY <1>2, AbortFewer
      <4> QED BY <2>2, <4>1 DEF Fewer
    <3> QED BY <3>1, <3>2 DEF IsRead
  <2> QED BY <1>5, <2>1, <2>2 DEF Destroy
<1>6. ASSUME AsyncWrite PROVE Kept
  <2>1. PICK t, p, w :
          /\ ~IsRead(w)
          /\ \/ ops' = ops \/ ops' = ops \cup {w}
             \/ CloseThen(ops, {}, t) \/ CloseThen(ops, {w}, t)
    <3>1. \A p, c, t : ~IsRead(OpOn("write", c, p, t))
      BY OpOnFields DEF IsRead
    <3> QED BY <1>6, <3>1 DEF AsyncWrite
  <2>2. CASE CloseThen(ops, {}, t) \/ CloseThen(ops, {w}, t)
    BY <1>2, <2>1, <2>2, CloseThenReadsKept
  <2> QED BY <1>3, <2>1, <2>2
<1>7. ASSUME NEW o \in ops, HandleWrite(o) PROVE Kept
  <2>1. PICK t, w :
          /\ ~IsRead(w)
          /\ \/ ops' = ops \ {o} \/ ops' = (ops \ {o}) \cup {w}
             \/ CloseThen(ops \ {o}, {}, t)
    <3>1. \A p, c, t : ~IsRead(OpOn("write", c, p, t))
      BY OpOnFields DEF IsRead
    <3> QED BY <1>7, <3>1 DEF HandleWrite
  <2>2. CASE CloseThen(ops \ {o}, {}, t)
    BY <1>2, <2>1, <2>2, CloseThenReadsKept
  <2> QED BY <1>3, <2>1, <2>2
<1>8. ASSUME NEW o \in ops, CompleteWrite(o) PROVE Kept
  <2>1. \A res : ~IsRead([o EXCEPT !.res = res])
    BY <1>2, <1>8 DEF CompleteWrite, IsRead, Operation
  <2> QED BY <1>3, <1>8, <2>1 DEF CompleteWrite, Complete
<1>9. ASSUME NEW c, ConnectionLost(c) \/ PeerStopsReading(c) \/ PeerReadsOn(c) PROVE Kept
  BY <1>3, <1>9 DEF ConnectionLost, PeerStopsReading, PeerReadsOn, sockVars
<1>10. Kept
  BY <1>4, <1>5, <1>6, <1>7, <1>8, <1>9
<1> QED BY <1>1, <1>10, ReadsKept

\* The connections that arrived are counted.
LEMMA ArrivedTypes ==
  ASSUME TypeOK
  PROVE  arrived \in Nat /\ 0 <= arrived
  BY BoundsAssumption DEF TypeOK

\* What the base class does keeps every frame in its place.
LEMMA BaseFrames ==
  ASSUME FramesInv, OneAtATime, "grow" \notin Faults, UNCHANGED acceptVars,
         Close \/ Destroy \/ AsyncWrite \/ Network \/ Handlers
  PROVE  /\ ReadsAtFrames' /\ FramesInOrder' /\ \A c \in Conn : Unbroken(c)'
         /\ NewAreUntouched'
<1> USE DEF FramesInv
<1> DEFINE Kept == /\ ReadsAtFrames' /\ FramesInOrder' /\ \A c \in Conn : Unbroken(c)'
                   /\ \A c \in Conn : c > arrived /\ Untouched(c) => Untouched(c)'
<1>1. ASSUME \/ Close \/ Destroy \/ AsyncWrite
             \/ \E o \in ops : HandleWrite(o) \/ CompleteWrite(o)
             \/ \E c \in Conn : ConnectionLost(c) \/ PeerStopsReading(c) \/ PeerReadsOn(c)
      PROVE  Kept
  <2>1. ReadsAtFrames' /\ UNCHANGED <<frames, unread, readPacket, delivered>>
    BY <1>1, OtherReadsKept
  <2>2. \A c \in Conn : Unbroken(c)'
    BY <2>1, UnbrokenKept
  <2> QED BY <2>1, <2>2 DEF FramesInOrder, Untouched
<1>2. ASSUME NEW o \in ops, HandleReadHeader(o) \/ HandleReadData(o)
      PROVE  Kept
  <2>1. /\ ReadsAtFrames' /\ FramesInOrder' /\ UNCHANGED <<frames, unread>>
        /\ \A c \in Conn : Untouched(c) => Untouched(c)'
    BY <1>2, ReadHandlerReads
  <2> QED BY <2>1, UnbrokenKept
<1>3. ASSUME NEW o \in ops, CompleteRead(o) PROVE Kept
  <2>1. /\ ReadsAtFrames' /\ \A c \in Conn : Unbroken(c)'
        /\ \A c \in Conn : Untouched(c) => Untouched(c)'
    BY <1>3, CompleteReadReads
  <2>2. FramesInOrder'
    BY <1>3 DEF CompleteRead, FramesInOrder
  <2> QED BY <2>1, <2>2
<1>4. ASSUME NEW c \in Conn, NEW s \in Size, PeerSends(c, s) PROVE Kept
  <2>1. ReadsAtFrames' /\ (\A b \in Conn : Unbroken(b)') /\ FramesInOrder'
    BY <1>4, PeerSendsReads
  <2>2. \A b \in Conn : b > arrived => b # c
    BY <1>4, ArrivedTypes DEF PeerSends, NewAreUntouched, Conn
  <2>3. \A b \in Conn \ {c} : frames'[b] = frames[b] /\ unread'[b] = unread[b]
    BY <1>4 DEF PeerSends, TypeOK, SocketTypeOK
  <2>4. delivered' = delivered
    BY <1>4 DEF PeerSends, readVars
  <2> QED BY <2>1, <2>2, <2>3, <2>4 DEF Untouched
<1>5. Kept
  BY <1>1, <1>2, <1>3, <1>4 DEF Network, Handlers
<1>6. NewAreUntouched'
  <2>1. arrived' = arrived
    BY DEF acceptVars
  <2>2. socket' = socket \/ socket' = 0
    BY SocketOrClose DEF CloseThen, Destroy
  <2>3. \A o \in Accepts' : o.conn <= arrived /\ (o.conn # 0 => Untouched(o.conn)')
    <3>1. CASE Destroy
      <4>1. \A p \in ops' : p.kind = "accept" => p.conn \in {o.conn : o \in Accepts}
        BY BaseOrigin DEF Origin, Like, OneAtATime, Accepts
      <4>2. UNCHANGED <<frames, unread, delivered>>
        BY <3>1 DEF Destroy, netVars, readVars
      <4> QED BY <4>1, <4>2 DEF NewAreUntouched, Untouched, Accepts
    <3>2. CASE Close \/ AsyncWrite \/ Network \/ Handlers
      <4>1. Accepts = {}
        BY <3>2, AcceptingIsIdle
      <4>2. Accepts' = {}
        BY <4>1, BaseOrigin DEF Origin, Like, OneAtATime, Accepts
      <4> QED BY <4>2
    <3> QED BY <3>1, <3>2
  <2>4. 0 <= arrived
    BY ArrivedTypes
  <2> QED BY <1>5, <2>1, <2>2, <2>3, <2>4 DEF NewAreUntouched
<1> QED BY <1>5, <1>6

\* A connection that arrives, is rejected or is installed has no frames yet.
LEMMA AcceptorFrames ==
  ASSUME FramesInv, OneAtATime,
         \/ AsyncAccept
         \/ \E o \in ops : \/ CompleteAccept(o) \/ RejectConnection(o)
                         \/ FilterThrows(o) \/ HandleAccept(o)
  PROVE  /\ ReadsAtFrames' /\ FramesInOrder' /\ \A c \in Conn : Unbroken(c)'
         /\ NewAreUntouched'
<1> USE DEF FramesInv
<1>1. UNCHANGED <<frames, unread, delivered>>
  BY DEF AsyncAccept, CompleteAccept, RejectConnection, FilterThrows, HandleAccept, netVars,
         readVars
<1>2. FramesInOrder' /\ \A c \in Conn : Unbroken(c)'
  BY <1>1, UnbrokenKept DEF FramesInOrder
<1>3. 0 <= arrived /\ arrived \in Nat
  BY ArrivedTypes
<1>4. ASSUME NEW p, p.kind = "accept",
             ops' = ops \cup {p} \/ \E o \in Accepts : ops' = (ops \ {o}) \cup {p},
             UNCHANGED readPacket
      PROVE  ReadsAtFrames'
  <2>1. \A q \in ops' : IsRead(q) => q \in ops
    BY <1>4 DEF IsRead
  <2> QED BY <1>1, <1>4, <2>1 DEF ReadsAtFrames, ReadAt, AtHeader, AtBody
<1>5. ASSUME NEW t, ops' = ops \cup {AcceptOp(t)}
                    \/ \E o \in Accepts : ops' = (ops \ {o}) \cup {AcceptOp(t)},
             UNCHANGED <<readPacket, socket, arrived>>
      PROVE  ReadsAtFrames' /\ NewAreUntouched'
  <2>1. AcceptOp(t).kind = "accept" /\ AcceptOp(t).conn = 0
    BY AcceptOpFields
  <2>2. ReadsAtFrames'
    BY <1>4, <1>5, <2>1
  <2> QED BY <1>1, <1>3, <1>5, <2>1, <2>2 DEF NewAreUntouched, Accepts, Untouched
<1>6. CASE AsyncAccept
  BY <1>2, <1>5, <1>6 DEF AsyncAccept, readVars, acceptVars
<1>7. ASSUME NEW o \in ops, RejectConnection(o)
      PROVE  ReadsAtFrames' /\ NewAreUntouched'
  BY <1>5, <1>7 DEF RejectConnection, readVars, acceptVars
<1>10. ASSUME NEW o \in ops, FilterThrows(o)
       PROVE  ReadsAtFrames' /\ NewAreUntouched'
  <2>1. ops' \subseteq ops /\ UNCHANGED <<readPacket, socket, arrived>>
    BY <1>10 DEF FilterThrows, readVars, acceptVars
  <2>2. ReadsAtFrames'
    BY <1>1, <2>1 DEF ReadsAtFrames, ReadAt, AtHeader, AtBody
  <2> QED BY <1>1, <2>1, <2>2 DEF NewAreUntouched, Accepts, Untouched
<1>8. ASSUME NEW o \in ops, CompleteAccept(o)
      PROVE  ReadsAtFrames' /\ NewAreUntouched'
  <2> DEFINE failed == [o EXCEPT !.res = "error"]
             taken  == [o EXCEPT !.res = "ok", !.conn = arrived + 1]
  <2>1. o \in Operation /\ o \in Accepts /\ o.kind = "accept"
    BY <1>8 DEF CompleteAccept, Accepts, TypeOK, SocketTypeOK
  <2>2. /\ failed.kind = "accept" /\ failed.conn = o.conn
        /\ taken.kind = "accept" /\ taken.conn = arrived + 1
    BY <2>1 DEF Operation
  <2>3. \/ /\ ops' = (ops \ {o}) \cup {taken}
           /\ arrived' = arrived + 1 /\ arrived + 1 \in Conn
        \/ /\ ops' = (ops \ {o}) \cup {failed}
           /\ arrived' = arrived
    <3>1. arrived < MaxConn => arrived + 1 \in Conn
      BY <1>3, BoundsAssumption DEF Conn
    <3> QED BY <1>8, <3>1 DEF CompleteAccept, Complete
  <2> HIDE DEF failed, taken
  <2>4. readPacket' = readPacket /\ socket' = socket
    BY <1>8 DEF CompleteAccept, readVars
  <2>5. ReadsAtFrames'
    BY <1>4, <2>1, <2>2, <2>3, <2>4
  <2>6. socket <= arrived /\ socket \in Nat
    BY BoundsAssumption DEF NewAreUntouched, TypeOK, SocketTypeOK, Conn
  <2>7. \A p \in Accepts : p.conn \in Nat
    BY DEF Accepts, TypeOK, SocketTypeOK, Operation, Conn
  <2>8. NewAreUntouched'
    <3>1. \A c \in Conn : c > arrived => Untouched(c)'
      BY <1>1 DEF NewAreUntouched, Untouched
    <3>2. CASE ops' = (ops \ {o}) \cup {failed} /\ arrived' = arrived
      BY <1>1, <2>1, <2>2, <2>4, <3>2 DEF NewAreUntouched, Untouched, Accepts
    <3>3. CASE /\ ops' = (ops \ {o}) \cup {taken}
               /\ arrived' = arrived + 1 /\ arrived + 1 \in Conn
      <4>1. taken.conn = arrived + 1 /\ \A c \in Conn : c = arrived + 1 => Untouched(c)'
        BY <1>3, <2>2, <3>1
      <4>2. socket' <= arrived'
        BY <1>3, <2>4, <2>6, <3>3
      <4>3. \A c \in Conn : c > arrived' => Untouched(c)'
        BY <1>3, <3>1, <3>3 DEF Conn
      <4>4. ASSUME NEW p \in Accepts'
            PROVE  p.conn <= arrived' /\ (p.conn # 0 => Untouched(p.conn)')
        <5>1. CASE p = taken
          BY <1>3, <2>2, <3>3, <4>1, <5>1
        <5>2. CASE p \in Accepts
          <6>1. p.conn <= arrived /\ (p.conn # 0 => Untouched(p.conn)')
            BY <1>1, <5>2 DEF NewAreUntouched, Untouched
          <6> QED BY <1>3, <2>7, <3>3, <5>2, <6>1
        <5> QED BY <3>3, <4>4, <5>1, <5>2 DEF Accepts
      <4> QED BY <4>2, <4>3, <4>4 DEF NewAreUntouched
    <3> QED BY <2>3, <3>2, <3>3
  <2> QED BY <2>5, <2>8
<1>9. ASSUME NEW o \in ops, HandleAccept(o)
      PROVE  ReadsAtFrames' /\ NewAreUntouched'
  <2>1. o \in Accepts /\ socket = 0 /\ ops \ {o} = {}
    BY <1>9 DEF HandleAccept, AcceptsAlone, Accepts
  <2>2. PICK t : StartReading({}, o.conn, t) /\ socket' = o.conn /\ arrived' = arrived
    BY <1>9, <2>1 DEF HandleAccept
  <2>3. PICK h :
          /\ h = OpOn("header", o.conn, 0, t)
          /\ h.kind = "header" /\ h.conn = o.conn /\ h.at = 1
          /\ h.res # "error" => h.res = "pending" /\ o.conn \in Conn
    BY OpOnFields, OpOnLive DEF PlaceOf
  <2>4. \A p \in ops' : p = h
    BY <2>2, <2>3 DEF StartReading
  <2>5. Len(readPacket)' = 1
    BY <2>2, ResizeAt DEF StartReading
  <2>6. o.conn # 0 => Untouched(o.conn)'
    BY <1>1, <2>1 DEF NewAreUntouched, Untouched
  <2>7. o.conn \in Conn => ReadAt(h, Len(delivered[h.conn]))'
    <3>1. \A c \in Conn : c # 0
      BY BoundsAssumption DEF Conn
    <3> QED BY <2>3, <2>5, <2>6, <3>1, EmptySeq DEF ReadAt, AtHeader, Untouched
  <2>8. ReadsAtFrames'
    BY <2>3, <2>4, <2>7 DEF ReadsAtFrames
  <2>9. Accepts' = {}
    BY <2>3, <2>4 DEF Accepts
  <2> QED BY <1>1, <2>1, <2>2, <2>8, <2>9 DEF NewAreUntouched, Untouched
<1> QED BY <1>2, <1>6, <1>7, <1>8, <1>9, <1>10

\* At first there is no stream.
LEMMA FramesInvInit == Init => FramesInv
<1> SUFFICES ASSUME Init PROVE FramesInv
  OBVIOUS
<1>1. ops = {AcceptOp(0)} /\ socket = 0 /\ arrived = 0
  BY DEF Init
<1>2. AcceptOp(0).kind = "accept" /\ AcceptOp(0).conn = 0
  BY AcceptOpFields
<1>3. \A c \in Conn : Untouched(c)
  BY DEF Init, SocketInit, Untouched
<1>4. (\A c \in Conn : Unbroken(c)) /\ FramesInOrder
  BY <1>3, EmptySeq DEF Untouched, Unbroken, FramesInOrder
<1>5. AcceptsAlone /\ NoStaleOperation /\ ReadsAtFrames
  BY <1>1, <1>2 DEF AcceptsAlone, NoStaleOperation, ReadsAtFrames, IsRead
<1>6. NewAreUntouched
  BY <1>1, <1>2, <1>3 DEF NewAreUntouched, Accepts
<1>7. TypeOK
  BY IInvInit DEF IInv
<1> QED BY <1>4, <1>5, <1>6, <1>7 DEF FramesInv

\* Every step keeps the read loop in step with the stream.
LEMMA FramesInvStep ==
  ASSUME OneAtATime, "grow" \notin Faults
  PROVE  IInv /\ FramesInv /\ [Next]_serverVars => FramesInv'
<1> SUFFICES ASSUME IInv, FramesInv, [Next]_serverVars
             PROVE  FramesInv'
  OBVIOUS
<1>1. TypeOK' /\ AcceptsAlone' /\ NoStaleOperation'
  BY IInvStep, NoStaleStep DEF IInv, FramesInv
<1>2. CASE Next
  <2>1. /\ ReadsAtFrames' /\ FramesInOrder' /\ \A c \in Conn : Unbroken(c)'
        /\ NewAreUntouched'
    BY <1>2, BaseFrames, AcceptorFrames DEF Next
  <2> QED BY <1>1, <2>1 DEF FramesInv
<1>3. CASE UNCHANGED serverVars
  <2>1. UNCHANGED <<socket, ops, readPacket, delivered, frames, unread, arrived>>
    BY <1>3 DEF serverVars, vars, acceptVars, sockVars, readVars, netVars
  <2>2. \A c \in Conn : Unbroken(c)'
    BY <2>1, UnbrokenKept DEF FramesInv
  <2>3. ReadsAtFrames' /\ NewAreUntouched' /\ FramesInOrder'
    BY <2>1 DEF FramesInv, ReadsAtFrames, ReadAt, AtHeader, AtBody, NewAreUntouched,
                Untouched, Accepts, FramesInOrder
  <2> QED BY <1>1, <2>2, <2>3 DEF FramesInv
<1> QED BY <1>2, <1>3

\* The read callback gets the frames the peer sent: whole, in order, none skipped and
\* none twice; if the read buffer can grow, and the application accepts the next
\* connection when nothing is left to run (a connection taken over while a read of
\* the previous one is outstanding shares the buffer with it).
THEOREM FramesWhole ==
  ASSUME OneAtATime, "grow" \notin Faults PROVE Spec => []FramesInOrder
<1>1. IInv /\ FramesInv /\ [Next]_serverVars => FramesInv'
  BY FramesInvStep
<1>2. FramesInv => FramesInOrder
  BY DEF FramesInv
<1> QED BY IInvInit, IInvStep, FramesInvInit, <1>1, <1>2, PTL DEF Spec

=============================================================================
