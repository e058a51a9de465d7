----------------------------- MODULE MCUdpServer -----------------------------
(* Instances of UdpServer for TLC.                                           *)
EXTENDS UdpServer

CONSTANTS c1, c2
=============================================================================
