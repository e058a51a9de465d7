------------------------------ MODULE MCLogger -------------------------------
(* Instances of Logger for TLC: three settings have more than one value.     *)
EXTENDS Logger

MCConfigs ==
  {[f \in FieldSet |->
      CASE f = "severity_level" -> level
        [] f = "rotation_size" -> size
        [] f = "file_name_time_fmt" -> format
        [] OTHER -> Absent] : level \in {Absent, 0, 9}, size \in {-1, 5}, format \in {1, 2}}
=============================================================================
