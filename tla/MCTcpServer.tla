---------------------------- MODULE MCTcpServer ----------------------------
(* Instances of TcpServer for TLC; the constants are in the .cfg files.     *)
EXTENDS TcpServer
=============================================================================
