------------------------------- MODULE Config -------------------------------
(* config::Config: the singleton through which all threads of the process   *)
(* read and write settings.  get_value and set_value hold the mutex from    *)
(* refresh to the end; a set changes the tree in memory and then saves the  *)
(* whole tree.                                                              *)
EXTENDS Document

CONSTANTS
  Threads,   \* threads that use the settings
  NoThread   \* stands for "the mutex is free"

ASSUME NoThreadAssumption == NoThread \notin Threads

VARIABLES
  initialized,  \* _initialized
  lock,         \* the thread that holds _mutex
  call          \* for each thread, the call it is making

configVars == <<fileVars, docVars, at, saver, ghosts, initialized, lock, call>>

\* A call is made (called), runs inside the mutex, has returned its result, and
\* is forgotten when the thread makes the next one.
Results == Values \cup {"saved", "failed", "none"}
Calls == [status : {"idle", "called", "running", "returned"},
          op : {"get", "set"}, key : Keys, value : Values \cup {Absent},
          result : Results]

Idle == [status |-> "idle", op |-> "get", key |-> CHOOSE k \in Keys : TRUE,
         value |-> Absent, result |-> "none"]

Init ==
  /\ DocumentInit
  /\ initialized = FALSE
  /\ lock = NoThread
  /\ call = [t \in Threads |-> Idle]

\* Config::init; calling it again does nothing.
InitConfig ==
  /\ lock = NoThread /\ ~initialized
  /\ initialized' = TRUE
  /\ UNCHANGED <<fileVars, docVars, at, saver, ghosts, lock, call>>

-----------------------------------------------------------------------------
(* Calls of a thread.                                                       *)

\* get_string, get_int, ... and set_string, ...: before init they fail at once.
Call(t, op, k, v) ==
  /\ call[t].status \in {"idle", "returned"}
  /\ call' = [call EXCEPT ![t] =
                IF initialized
                THEN [status |-> "called", op |-> op, key |-> k, value |-> v, result |-> "none"]
                ELSE [Idle EXCEPT !.status = "returned", !.result = "failed"]]
  /\ UNCHANGED <<fileVars, docVars, at, saver, ghosts, initialized, lock>>

Get(t, k)    == Call(t, "get", k, Absent)
Set(t, k, v) == Call(t, "set", k, v)

\* Mutant: no lock is taken into account.
AcquireUnlocked(t) ==
  /\ call[t].status = "called"
  /\ lock' = t
  /\ call' = [call EXCEPT ![t].status = "running"]
  /\ at' = "validate"
  /\ UNCHANGED <<fileVars, docVars, saver, ghosts, initialized>>

\* std::lock_guard, then refresh begins.
Acquire(t) ==
  /\ call[t].status = "called" /\ lock = NoThread
  /\ lock' = t
  /\ call' = [call EXCEPT ![t].status = "running"]
  /\ at' = "validate"
  /\ UNCHANGED <<fileVars, docVars, saver, ghosts, initialized>>

\* The call returns and releases the mutex.
Return(result) ==
  /\ call' = [call EXCEPT ![lock] = [Idle EXCEPT !.status = "returned", !.result = result]]
  /\ lock' = NoThread
  /\ at' = "idle" /\ saver' = "none"

\* Mutant: a missing node is returned as if it were there.
UseTreeUnchecked ==
  /\ at = "refreshed" /\ call[lock].op = "get"
  /\ Return(doc[call[lock].key]) /\ Unsee
  /\ UNCHANGED <<fileVars, docVars, initialized>>

\* The tree is up to date: a get reads it (a missing node throws), a set changes
\* it and goes on to save it.
UseTree ==
  /\ at = "refreshed"
  /\ LET c == call[lock] IN
       \/ /\ c.op = "get"
          /\ Return(IF doc[c.key] = Absent THEN "failed" ELSE doc[c.key])
          /\ Unsee
          /\ UNCHANGED doc
       \/ /\ c.op = "set"
          /\ doc' = [doc EXCEPT ![c.key] = c.value]
          /\ unsaved' = [unsaved EXCEPT ![c.key] = c.value]
          /\ SaveFor("set")
          /\ UNCHANGED <<lock, call, base, blind, spoilt, unread, refused>>
  /\ UNCHANGED <<fileVars, lastWrite, initialized>>

\* Mutant: only a success leaves the mutex.
FinishSaved ==
  /\ at = "saved"
  /\ Return(at) /\ Unsee
  /\ UNCHANGED <<fileVars, docVars, initialized>>

\* Document reported that the set is saved, or that something failed; a failed
\* save leaves the new value in the tree.
Finish ==
  /\ at \in {"saved", "failed"}
  /\ Return(at) /\ Unsee
  /\ UNCHANGED <<fileVars, docVars, initialized>>

\* The process dies and is started again.
Crash ==
  /\ "crash" \in Faults /\ initialized
  /\ initialized' = FALSE
  /\ lock' = NoThread
  /\ call' = [t \in Threads |-> Idle]
  /\ doc' = Empty /\ lastWrite' = Bad
  /\ at' = "idle" /\ saver' = "none"
  /\ base' = Missing /\ blind' = FALSE /\ spoilt' = FALSE /\ unsaved' = Empty
  /\ UNCHANGED <<fileVars, unread, refused>>

ThreadStep(t) ==
  \/ Acquire(t)
  \/ lock = t /\ (UseTree \/ Finish)
  \/ lock = t /\ DocumentStep /\ UNCHANGED <<initialized, lock, call>>

Next ==
  \/ InitConfig \/ Crash
  \/ \E t \in Threads : ThreadStep(t)
  \/ \E t \in Threads, k \in Keys : Get(t, k) \/ (\E v \in Values : Set(t, k, v))
  \/ World /\ UNCHANGED <<initialized, lock, call>>

Spec == Init /\ [][Next]_configVars

\* A thread that holds the mutex runs on.  Nothing is assumed about which thread
\* gets the mutex next: std::mutex promises nothing.
Fairness ==
  \A t \in Threads : /\ WF_configVars(lock = t /\ (UseTree \/ Finish))
                     /\ WF_configVars(/\ lock = t /\ DocumentStep
                                      /\ UNCHANGED <<initialized, lock, call>>)

FairSpec == Spec /\ Fairness

-----------------------------------------------------------------------------
(* Safety.                                                                  *)

\* Every variable keeps its type; the mutex is held by the thread that runs, and
\* by nobody when Document is idle.
TypeOK ==
  /\ file \in File /\ bak \in File /\ clock \in 0..MaxClock
  /\ doc \in Trees /\ lastWrite \in -1..MaxClock
  /\ at \in Labels /\ saver \in Savers
  /\ base \in File /\ blind \in BOOLEAN /\ spoilt \in BOOLEAN
  /\ unsaved \in Trees /\ unread \in File /\ refused \in BOOLEAN
  /\ initialized \in BOOLEAN
  /\ lock \in Threads \cup {NoThread}
  /\ call \in [Threads -> Calls]

\* One thread at a time is inside, and Document is busy exactly then.
MutexHeld ==
  /\ \A t \in Threads : call[t].status = "running" <=> lock = t
  /\ at = "idle" <=> lock = NoThread

\* The cached tree is current when it is used: it is what the file stood for when
\* the call looked at it, with the sets over it that could not be saved - except
\* for changes the modification times cannot show.
RefreshedIsCurrent == at = "refreshed" /\ ~blind => doc = Over(unsaved, Settings(base))

\* Whatever Config writes, it only adds what it was asked to: a set writes its
\* value, and those of earlier sets whose save failed, and leaves all other
\* settings as they were in the file; completing a file from the template changes
\* none that was there.
WritesOnlyWhatWasSet ==
  [][at = "write" /\ at' \in {AfterSave[s] : s \in DOMAIN AfterSave} /\ ~blind =>
       file'.tree = IF saver = "set" THEN Over(unsaved, Settings(base)) ELSE Settings(base)]_configVars

\* Between calls the file holds the tree in memory, unless a set could not save:
\* a set that reported success is there until somebody changes the file again,
\* and one that reported failure is all by which the two differ.
FileMatchesTree ==
  /\ at = "idle" /\ lastWrite # Bad /\ ~blind /\ ~spoilt
  /\ file.state # "missing" /\ file.mtime <= lastWrite
  => file.state = "ok" /\ doc = Over(unsaved, file.tree)

\* A file that could not be read is not lost before another one cannot be read: what
\* it held is in the .bak file or still in its place, whatever fails or dies
\* after that - unless renaming it failed, for then it is removed uncopied.
UnreadIsBackedUp ==
  unread.state # "missing" => bak = unread \/ file = unread \/ refused

-----------------------------------------------------------------------------
(* What it promises: while nobody else changes the file and nothing fails,  *)
(* the threads see one store in which each call takes effect at once.       *)

\* The settings that a reader would find if it were let in now.
CurrentSettings == IF at \in {"truncate", "write"} THEN WrittenTree ELSE Settings(file)

\* A call that runs has taken effect when it has changed the tree.
CurrentCalls ==
  [t \in Threads |->
     IF call[t].status # "running" THEN call[t]
     ELSE [call[t] EXCEPT !.status =
             IF saver = "set" \/ at \in {"setstat", "saved"} THEN "done" ELSE "called"]]

Store == INSTANCE SettingsStore WITH
           open <- initialized, store <- CurrentSettings, call <- CurrentCalls

\* Without faults Config implements SettingsStore: its calls are linearizable,
\* whatever the file held at the start.
ImplementsStore == Store!Spec

-----------------------------------------------------------------------------
(* Liveness.                                                                *)

\* Whatever fails on the way, a call that has the mutex returns and releases it
\* (or dies with the process).
CallsReturn == \A t \in Threads : lock = t ~> lock # t

=============================================================================
