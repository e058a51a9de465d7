---------------------------- MODULE MCTcpClient ----------------------------
(* Instances of TcpClient for TLC; the constants are in the .cfg files.     *)
EXTENDS TcpClient
=============================================================================
