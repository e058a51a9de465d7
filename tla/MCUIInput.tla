------------------------------ MODULE MCUIInput ------------------------------
(* Instances of UIInput for TLC.                                             *)
EXTENDS UIInput
=============================================================================
