--------------------------- MODULE PacketChannel ---------------------------
(* What the write side of a TcpSocket promises to the application, without  *)
(* sockets, operations and failures: packets are numbered as they are       *)
(* handed over, and they leave in that order, each at most once.            *)
EXTENDS Naturals, Sequences

VARIABLES
  written,  \* number of packets handed over
  wire      \* numbers of the packets that left, in order

Init == written = 0 /\ wire = <<>>

Write == written' = written + 1 /\ UNCHANGED wire

Transmit ==
  /\ Len(wire) < written
  /\ wire' = Append(wire, Len(wire) + 1)
  /\ UNCHANGED written

Next == Write \/ Transmit

Spec == Init /\ [][Next]_<<written, wire>>
=============================================================================
