----------------------------- MODULE MCUIWindow ------------------------------
(* Instances of UIWindow for TLC.                                            *)
EXTENDS UIWindow
=============================================================================
