-------------------------- MODULE MCKeepAliveServer --------------------------
(* Instances of KeepAliveServer for TLC.                                     *)
EXTENDS KeepAliveServer

Four(a, b, c, d) == [enabled |-> a, timeout |-> b, count |-> c, intverval |-> d]

\* Enabled with values the kernel accepts; with a timeout that is too large for it;
\* disabled with a negative count; a text that get_bool cannot read.  What is loaded
\* is one of them or a mixture.
MCStored == {Four(1, 1, 2, 3), Four(1, 4, 2, 3), Four(0, 1, -1, 3), Four(2, 1, 2, 3)}
=============================================================================
