---------------------------- MODULE SettingsStore ----------------------------
(* What IConfig promises to the threads of one process when nobody else      *)
(* touches the file: one set of settings, in which every call takes effect   *)
(* at one moment between its beginning and its return.                       *)
EXTENDS Naturals

CONSTANTS
  Threads,  \* threads that use the settings
  Keys,     \* paths of settings
  Values,   \* values of settings
  Absent    \* stands for "there is no such setting"

VARIABLES
  open,   \* the store has been initialised
  store,  \* the settings
  call    \* for each thread, the call it is making

storeVars == <<open, store, call>>

Idle == [status |-> "idle", op |-> "get", key |-> CHOOSE k \in Keys : TRUE,
         value |-> Absent, result |-> "none"]

Answer(t, r) ==
  call' = [call EXCEPT ![t] = [Idle EXCEPT !.status = "returned", !.result = r]]

Init ==
  /\ open = FALSE
  /\ store \in [Keys -> Values \cup {Absent}]
  /\ call = [t \in Threads |-> Idle]

Open == ~open /\ open' = TRUE /\ UNCHANGED <<store, call>>

Begin(t, op, k, v) ==
  /\ call[t].status \in {"idle", "returned"}
  /\ IF open
     THEN call' = [call EXCEPT ![t] = [status |-> "called", op |-> op, key |-> k,
                                       value |-> v, result |-> "none"]]
     ELSE Answer(t, "failed")
  /\ UNCHANGED <<open, store>>

Read(t) ==
  /\ call[t].status = "called" /\ call[t].op = "get"
  /\ LET v == store[call[t].key] IN Answer(t, IF v = Absent THEN "failed" ELSE v)
  /\ UNCHANGED <<open, store>>

Write(t) ==
  /\ call[t].status = "called" /\ call[t].op = "set"
  /\ store' = [store EXCEPT ![call[t].key] = call[t].value]
  /\ call' = [call EXCEPT ![t].status = "done"]
  /\ UNCHANGED open

Confirm(t) ==
  /\ call[t].status = "done"
  /\ Answer(t, "saved")
  /\ UNCHANGED <<open, store>>

Next ==
  \/ Open
  \/ \E t \in Threads :
       \/ Read(t) \/ Write(t) \/ Confirm(t)
       \/ \E k \in Keys : \/ Begin(t, "get", k, Absent)
                          \/ \E v \in Values : Begin(t, "set", k, v)

Spec == Init /\ [][Next]_storeVars
==============================================================================
