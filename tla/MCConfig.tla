------------------------------ MODULE MCConfig ------------------------------
(* Instances of Config for TLC: one or two settings, one in the template.   *)
EXTENDS Config, TLC

CONSTANTS k1, k2, v1, v2, t1, t2

MCTemplate == [k \in Keys |-> IF k = k1 THEN v1 ELSE Absent]

\* Other programs write a file that lacks a setting, or another value.
MCEdits == {[k \in Keys |-> IF k = gap THEN Absent ELSE v2] : gap \in {k1, k2}}
MCOneEdit == {[k \in Keys |-> IF k = k1 THEN Absent ELSE v2]}
=============================================================================
