---------------------------- MODULE ConfigProofs ----------------------------
(* Proofs about Config and Document, for any settings, threads, template and *)
(* faults: the lock, what the tree and the file have to do with each other,  *)
(* and, without faults, that Config implements SettingsStore.                *)
EXTENDS Config, TLAPS

-----------------------------------------------------------------------------
(* The inductive invariant.                                                 *)

\* A save knows what for: it is under way, or has failed.
SaverInv ==
  /\ at \in {"truncate", "write"} => saver # "none"
  /\ saver # "none" => at \in {"truncate", "write", "failed"}

LockInv == TypeOK /\ MutexHeld /\ SaverInv

\* A set sets a value.
SetsAValue == \A t \in Threads : call[t].op = "set" => call[t].value \in Values

\* If the file is there, its time tells that it is not the one last known.
Newer ==
  \/ lastWrite = Bad
  \/ clock > lastWrite /\ (file.state # "missing" => file.mtime > lastWrite)

\* Between the moment that the file is found to be newer, or after it was found to be
\* missing, and the moment that its time is read, it is newer.
TimesInv ==
  /\ file.mtime <= clock
  /\ at = "load" => lastWrite = Bad \/ clock > lastWrite
  /\ /\ ~blind
     /\ \/ at \in {"load", "rename", "remove", "revalidate", "reload", "mergestat"}
        \/ saver \in {"merge", "revalidate"}
     => Newer
  /\ ~blind /\ (file.state = "missing" \/ saver = "validate") => Newer

\* The tree is what the file stood for, with the sets over it that are not in the
\* file, and the template adds nothing to it.
Current == doc = Over(unsaved, Settings(base)) /\ Import(doc) = doc

CurrentInv ==
  ~blind /\ (at \in {"refreshed", "mergestat", "loadstat"} \/ saver \in {"set", "merge"} \/ spoilt)
    => Current

\* While a file is loaded or replaced there is nothing unsaved, and a file that is
\* replaced by the template counts as missing.
LoadInv ==
  /\ at \in {"rename", "remove", "revalidate", "reload", "mergestat", "loadstat"}
     => unsaved = Empty /\ ~spoilt
  /\ saver \in {"merge", "revalidate"} => unsaved = Empty /\ (spoilt => blind)
  /\ at \in {"rename", "remove", "revalidate", "reload"} \/ saver = "revalidate"
     => base = Missing
  /\ ~blind /\ at = "revalidate" => file.state = "missing"
  /\ ~blind /\ at = "reload" => file.state = "ok" /\ file.tree = Template
  /\ ~blind /\ saver = "validate" => Settings(base) = Template /\ ~spoilt

\* A file that a failed save of ours has emptied is still there.
SpoiltInv == spoilt \/ at = "write" => file.state # "missing"

\* The file is the tree, but for what is unsaved.
Matches == file.state = "ok" /\ doc = Over(unsaved, file.tree) /\ Import(doc) = doc

\* A file that is not newer than the time known is the tree, unless we are writing it;
\* and so is the one whose time is about to be read.
MatchInv ==
  /\ /\ at # "write" /\ lastWrite # Bad /\ ~blind /\ ~spoilt
     /\ file.state # "missing" /\ file.mtime <= lastWrite
     => Matches
  /\ ~blind /\ at \in {"setstat", "mergestat", "loadstat"} => Matches /\ unsaved = Empty

\* A file that could not be loaded, is not in the .bak file and was not refused a
\* new name, is in its place: it is to be renamed, or the process died
\* before and will find it again, for it knows no time.
UnreadInv ==
  /\ at = "rename" => ~refused /\ (unread.state # "missing" => unread = file)
  /\ unread.state # "missing" /\ ~refused /\ bak # unread
     => /\ file = unread
        /\ \/ at = "rename"
           \/ /\ lastWrite = Bad /\ saver = "none"
              /\ at \in {"idle", "validate", "stat", "load", "failed"}

DocInv == TimesInv /\ CurrentInv /\ LoadInv /\ SpoiltInv /\ MatchInv /\ UnreadInv

IInv == LockInv /\ SetsAValue /\ DocInv

-----------------------------------------------------------------------------
(* Without faults.                                                          *)

\* Nothing fails; the file is there whenever it is looked at, and from when the tree
\* was loaded they are the same, and complete.
QuietInv ==
  /\ ~blind /\ ~spoilt /\ at \notin {"failed", "remove"}
  /\ at \in {"stat", "load", "rename"} => file.state # "missing"
  /\ at = "load" => lastWrite = Bad \/ file.mtime > lastWrite
  /\ at = "rename" => file.state = "torn"
  /\ at = "revalidate" => file.state = "missing"
  /\ at = "reload" => file.state = "ok" /\ file.tree = Template
  /\ saver = "validate" => lastWrite = Bad
  /\ saver \in {"set", "merge"} => Import(doc) = doc
  /\ \/ at \in {"mergestat", "loadstat", "refreshed", "setstat", "saved"}
     \/ at \in {"idle", "validate", "stat"} /\ lastWrite # Bad
     => file.state = "ok" /\ doc = file.tree /\ Import(doc) = doc

-----------------------------------------------------------------------------
(* Types, and the lock.                                                     *)

\* What trees and files are made of.
LEMMA TreeTypes ==
  /\ Empty \in Trees /\ Template \in Trees /\ Edits \subseteq Trees
  /\ \A a, b \in Trees : Over(a, b) \in Trees
  /\ \A a \in Trees : Import(a) \in Trees
  BY TemplateAssumption, EditsAssumption DEF Trees, Empty, Over, Import

\* The files that are written and stamped are files.
LEMMA FileTypes ==
  /\ 0 \in 0..MaxClock /\ Missing \in File /\ Missing.state = "missing" /\ Missing.mtime = 0
  /\ \A t \in 0..MaxClock :
       Torn(t) \in File /\ Torn(t).state = "torn" /\ Torn(t).mtime = t
  /\ \A t \in 0..MaxClock : \A c \in Trees :
       /\ Holds(c, t) \in File /\ Holds(c, t).state = "ok"
       /\ Holds(c, t).mtime = t /\ Holds(c, t).tree = c
<1>1. 0 \in 0..MaxClock
  BY ClockAssumption
<1> QED BY <1>1, TreeTypes DEF File, Missing, Torn, Holds

\* What a file has, and what it stands for.
LEMMA FileFields ==
  ASSUME NEW f \in File
  PROVE  /\ f.state \in {"missing", "torn", "ok"} /\ f.tree \in Trees
         /\ f.mtime \in 0..MaxClock /\ f.mtime \in Int
         /\ Settings(f) \in Trees
  BY TreeTypes DEF File, Settings

\* Where a save goes on.
LEMMA AfterSaveIs ==
  /\ AfterSave["validate"] = "stat" /\ AfterSave["revalidate"] = "reload"
  /\ AfterSave["merge"] = "mergestat" /\ AfterSave["set"] = "setstat"
  /\ DOMAIN AfterSave = {"validate", "revalidate", "merge", "set"}
  BY DEF AfterSave

\* What Document's own variables are.
DocTypes ==
  /\ file \in File /\ bak \in File /\ clock \in 0..MaxClock
  /\ doc \in Trees /\ lastWrite \in -1..MaxClock
  /\ at \in Labels /\ saver \in Savers
  /\ base \in File /\ blind \in BOOLEAN /\ spoilt \in BOOLEAN
  /\ unsaved \in Trees /\ unread \in File /\ refused \in BOOLEAN

\* A step of Document keeps its types, and the thread stays inside.
LEMMA DocumentTypes ==
  ASSUME DocTypes, SaverInv, DocumentStep
  PROVE  DocTypes' /\ SaverInv' /\ at # "idle" /\ at' # "idle"
<1> USE DEF DocTypes
<1>1. CASE Truncate
  <2>1. UNCHANGED <<bak, clock, doc, lastWrite, base, blind, spoilt, unsaved, unread, refused, saver>>
    BY <1>1 DEF Truncate, docVars, ghosts, Goto, Fail
  <2>2. file' \in File
    BY <1>1, FileTypes, TreeTypes DEF Truncate
  <2>3. at = "truncate" /\ at' \in {"write", "failed"}
    BY <1>1 DEF Truncate, Goto, Fail
  <2> QED BY <2>1, <2>2, <2>3 DEF Labels, SaverInv
<1>2. CASE Write
  <2>1. UNCHANGED <<bak, clock, doc, lastWrite, base, blind, unread, refused>>
    BY <1>2 DEF Write, docVars
  <2>2. at = "write" /\ saver \in {"validate", "revalidate", "merge", "set"}
    BY <1>2 DEF Write, SaverInv, Savers
  <2>3. WrittenTree \in Trees
    BY TreeTypes DEF WrittenTree
  <2>4. file' \in File /\ spoilt' \in BOOLEAN /\ unsaved' \in Trees
    <3>1. Holds(WrittenTree, clock) \in File
      BY <2>3, FileTypes
    <3>2. file' \in {file, Holds(WrittenTree, clock)} /\ unsaved' \in {Empty, unsaved}
      BY <1>2 DEF Write
    <3>3. spoilt' \in BOOLEAN
      BY <1>2 DEF Write
    <3> QED BY <3>1, <3>2, <3>3, TreeTypes
  <2>5. \/ at' = AfterSave[saver] /\ saver' = "none"
        \/ at' = "failed" /\ saver' = saver
    BY <1>2 DEF Write, Fail
  <2>6. AfterSave[saver] \in {"stat", "reload", "mergestat", "setstat"}
    BY <2>2, AfterSaveIs
  <2> QED BY <2>1, <2>2, <2>4, <2>5, <2>6 DEF Labels, Savers, SaverInv
<1>3. CASE Validate
  <2>1. UNCHANGED <<file, bak, clock, doc, lastWrite, blind, spoilt, unsaved, unread, refused>>
    BY <1>3 DEF Validate, fileVars, docVars, ghosts, See
  <2>2. base' \in File
    BY <1>3 DEF Validate, See, ghosts
  <2>3. at \in {"validate", "revalidate"}
    BY <1>3 DEF Validate
  <2>4. \/ at' \in {"stat", "reload", "failed"} /\ saver' = saver
        \/ at' = "truncate" /\ saver' = at
    BY <1>3, AfterSaveIs DEF Validate, Goto, SaveFor, Fail
  <2> QED BY <2>1, <2>2, <2>3, <2>4 DEF Labels, Savers, SaverInv
<1>4. CASE Stat
  <2>1. UNCHANGED <<file, bak, clock, doc, lastWrite, blind, spoilt, unsaved, unread, refused, saver>>
    BY <1>4 DEF Stat, fileVars, docVars, See, Goto, Fail
  <2>2. base' \in File /\ at = "stat" /\ at' \in {"failed", "load", "refreshed"}
    BY <1>4 DEF Stat, See, Goto, Fail
  <2> QED BY <2>1, <2>2 DEF Labels, SaverInv
<1>5. CASE Load
  <2>1. UNCHANGED <<file, bak, clock, lastWrite>> /\ at = "load"
    BY <1>5 DEF Load, fileVars
  <2>2. doc' \in Trees
    BY <1>5, TreeTypes, FileFields DEF Load
  <2>3. base' \in File /\ unread' \in File /\ refused' \in BOOLEAN
    <3>1. CASE Loaded
      BY <3>1, FileTypes DEF Loaded, NoLongerUnread
    <3>2. CASE Unloaded
      BY <3>2, FileTypes DEF Unloaded
    <3> QED BY <1>5, <3>1, <3>2 DEF Load
  <2>4. blind' \in BOOLEAN /\ spoilt' = FALSE /\ unsaved' \in Trees
    BY <1>5, TreeTypes DEF Load, ForgetTree
  <2>5. \/ at' \in {"loadstat", "rename"} /\ saver' = saver
        \/ at' = "truncate" /\ saver' = "merge"
    BY <1>5 DEF Load, Goto, SaveFor
  <2> QED BY <2>1, <2>2, <2>3, <2>4, <2>5 DEF Labels, Savers, SaverInv
<1>6. CASE Rename
  <2>1. UNCHANGED <<clock, doc, lastWrite, base, blind, spoilt, unsaved, saver>>
    BY <1>6 DEF Rename, docVars, Goto
  <2>2. file' \in File /\ bak' \in File /\ unread' = unread /\ refused' \in BOOLEAN
    BY <1>6, FileTypes DEF Rename
  <2>3. at = "rename" /\ at' \in {"revalidate", "remove"}
    BY <1>6 DEF Rename, Goto
  <2> QED BY <2>1, <2>2, <2>3 DEF Labels, SaverInv
<1>7. CASE Remove
  <2>1. UNCHANGED <<bak, clock, doc, lastWrite, base, blind, spoilt, unsaved, unread, refused, saver>>
    BY <1>7 DEF Remove, docVars, ghosts, Goto, Fail
  <2>2. file' \in File /\ at = "remove" /\ at' \in {"revalidate", "failed"}
    BY <1>7, FileTypes DEF Remove, Goto, Fail
  <2> QED BY <2>1, <2>2 DEF Labels, SaverInv
<1>8. CASE Reload
  <2>1. UNCHANGED <<file, bak, clock, lastWrite, base, blind, spoilt, unsaved, unread, refused, saver>>
    BY <1>8 DEF Reload, fileVars, ghosts, Goto, Fail
  <2>2. doc' \in Trees /\ at = "reload" /\ at' \in {"loadstat", "failed"}
    BY <1>8, TreeTypes, FileFields DEF Reload, Goto, Fail
  <2> QED BY <2>1, <2>2 DEF Labels, SaverInv
<1>9. CASE ReadTime
  <2>1. UNCHANGED <<file, bak, clock, doc, base, blind, spoilt, unsaved, unread, refused, saver>>
    BY <1>9 DEF ReadTime, fileVars, ghosts, Goto, Fail
  <2>2. lastWrite' \in -1..MaxClock
    <3>1. file.mtime \in -1..MaxClock /\ Bad \in -1..MaxClock
      BY ClockAssumption, FileFields DEF Bad
    <3> QED BY <1>9, <3>1 DEF ReadTime
  <2>3. /\ at \in {"mergestat", "loadstat", "setstat"}
        /\ at' \in {"loadstat", "refreshed", "saved", "failed"}
    BY <1>9 DEF ReadTime, Goto, Fail
  <2> QED BY <2>1, <2>2, <2>3 DEF Labels, SaverInv
<1> QED BY <1>1, <1>2, <1>3, <1>4, <1>5, <1>6, <1>7, <1>8, <1>9 DEF DocumentStep

\* What the rest of the world does keeps the types.
LEMMA WorldTypes ==
  ASSUME DocTypes, World
  PROVE  DocTypes' /\ UNCHANGED <<at, saver>>
<1> USE DEF DocTypes
<1>1. CASE Tick
  <2>1. clock + 1 \in 0..MaxClock
    BY <1>1, ClockAssumption DEF Tick
  <2> QED BY <1>1, <2>1 DEF Tick, docVars, ghosts
<1>2. ASSUME NEW f \in File, NEW t, Foreign(f, t)
      PROVE  DocTypes' /\ UNCHANGED <<at, saver>>
  <2>1. UNCHANGED <<bak, clock, doc, lastWrite, at, saver, base, unsaved, refused>> /\ file' \in File
    BY <1>2 DEF Foreign, docVars
  <2>2. blind' \in BOOLEAN /\ spoilt' \in BOOLEAN /\ unread' \in File
    BY <1>2, FileTypes DEF Foreign, NoLongerUnread
  <2> QED BY <2>1, <2>2
<1>3. \A t \in 0..clock : Torn(t) \in File /\ \A c \in Edits : Holds(c, t) \in File
  <2>1. \A t \in 0..clock : t \in 0..MaxClock
    BY ClockAssumption
  <2> QED BY <2>1, FileTypes, TreeTypes
<1>4. Missing \in File
  BY FileTypes
<1> QED BY <1>1, <1>2, <1>3, <1>4 DEF World, Edit, Garble, Delete

\* A thread that has made no call.
LEMMA IdleType ==
  /\ Idle \in Calls
  /\ \A r \in Results : [Idle EXCEPT !.status = "returned", !.result = r] \in Calls
<1>1. (CHOOSE k \in Keys : TRUE) \in Keys
  BY KeysAssumption
<1>2. Idle \in Calls
  BY <1>1 DEF Idle, Calls, Results
<1> QED BY <1>2 DEF Calls

\* What Config adds to Document.
CallTypes ==
  /\ initialized \in BOOLEAN /\ lock \in Threads \cup {NoThread}
  /\ call \in [Threads -> Calls]

\* The types, now and after a step, are those of Document and those of Config.
LEMMA TypeOKIs ==
  /\ TypeOK <=> DocTypes /\ CallTypes
  /\ TypeOK' <=> DocTypes' /\ CallTypes'
  BY DEF TypeOK, DocTypes, CallTypes

\* A call returns and releases the mutex.
LEMMA ReturnLock ==
  ASSUME LockInv, at # "idle", NEW r \in Results, Return(r), UNCHANGED initialized
  PROVE  CallTypes' /\ MutexHeld'
<1>1. lock \in Threads /\ call \in [Threads -> Calls] /\ initialized \in BOOLEAN
  BY DEF LockInv, MutexHeld, TypeOK
<1> DEFINE done == [Idle EXCEPT !.status = "returned", !.result = r]
<1>2. done \in Calls /\ done.status = "returned"
  BY IdleType DEF Calls
<1>3. call' = [call EXCEPT ![lock] = done] /\ lock' = NoThread /\ at' = "idle"
  BY DEF Return
<1> HIDE DEF done
<1>4. CallTypes'
  BY <1>1, <1>2, <1>3 DEF CallTypes
<1>5. ASSUME NEW t \in Threads
      PROVE  call'[t].status # "running"
  <2>1. CASE t = lock
    BY <1>1, <1>2, <1>3, <2>1
  <2>2. CASE t # lock
    BY <1>1, <1>3, <2>2 DEF LockInv, MutexHeld
  <2> QED BY <2>1, <2>2
<1>6. NoThread \notin Threads
  BY NoThreadAssumption
<1> QED BY <1>3, <1>4, <1>5, <1>6 DEF MutexHeld

\* The thread that holds the mutex uses the tree.
LEMMA UseTreeLock ==
  ASSUME LockInv, UseTree
  PROVE  LockInv'
<1>1. at = "refreshed" /\ lock \in Threads /\ call[lock] \in Calls
  BY DEF UseTree, LockInv, MutexHeld, TypeOK
<1>2. DocTypes /\ CallTypes
  BY TypeOKIs DEF LockInv
<1>3. UNCHANGED <<file, bak, clock, lastWrite, initialized>>
  BY DEF UseTree, fileVars
<1>4. CASE /\ Return(IF doc[call[lock].key] = Absent THEN "failed" ELSE doc[call[lock].key])
           /\ Unsee /\ UNCHANGED doc
  <2>1. (IF doc[call[lock].key] = Absent THEN "failed" ELSE doc[call[lock].key]) \in Results
    BY <1>1, <1>2 DEF DocTypes, Trees, Calls, Results
  <2>2. CallTypes' /\ MutexHeld'
    BY <1>1, <1>3, <1>4, <2>1, ReturnLock
  <2>3. at' = "idle" /\ saver' = "none"
    BY <1>4 DEF Return
  <2>4. base' \in File /\ UNCHANGED <<blind, spoilt, unsaved, unread, refused>>
    BY <1>2, <1>4, FileTypes DEF Unsee, DocTypes
  <2>5. DocTypes'
    BY <1>2, <1>3, <1>4, <2>3, <2>4 DEF DocTypes, Labels, Savers
  <2> QED BY <2>2, <2>3, <2>5, TypeOKIs DEF LockInv, SaverInv
<1>5. CASE /\ call[lock].op = "set"
           /\ doc' = [doc EXCEPT ![call[lock].key] = call[lock].value]
           /\ unsaved' = [unsaved EXCEPT ![call[lock].key] = call[lock].value]
           /\ SaveFor("set")
           /\ UNCHANGED <<lock, call, base, blind, spoilt, unread, refused>>
  <2>1. doc' \in Trees /\ unsaved' \in Trees
    BY <1>1, <1>2, <1>5 DEF DocTypes, Trees, Calls
  <2>2. at' = "truncate" /\ saver' = "set"
    BY <1>5 DEF SaveFor
  <2>3. DocTypes' /\ CallTypes'
    BY <1>2, <1>3, <1>5, <2>1, <2>2 DEF DocTypes, CallTypes, Labels, Savers
  <2>4. MutexHeld' /\ SaverInv'
    BY <1>1, <1>5, <2>2 DEF LockInv, MutexHeld, SaverInv
  <2> QED BY <2>3, <2>4, TypeOKIs DEF LockInv
<1> QED BY <1>4, <1>5 DEF UseTree

\* Every step keeps the mutex with the thread that runs.
LEMMA LockInvStep == LockInv /\ [Next]_configVars => LockInv'
<1> SUFFICES ASSUME LockInv, [Next]_configVars
             PROVE  LockInv'
  OBVIOUS
<1>1. DocTypes /\ CallTypes /\ MutexHeld /\ SaverInv
  BY TypeOKIs DEF LockInv
<1>2. ASSUME UNCHANGED <<fileVars, docVars, at, saver, ghosts>>
      PROVE  DocTypes' /\ SaverInv' /\ at' = at
  BY <1>1, <1>2 DEF fileVars, docVars, ghosts, DocTypes, SaverInv
<1>3. ASSUME DocTypes', SaverInv', at' # "idle" <=> at # "idle",
             UNCHANGED <<initialized, lock, call>>
      PROVE  LockInv'
  <2>1. CallTypes' /\ MutexHeld'
    BY <1>1, <1>3 DEF CallTypes, MutexHeld
  <2> QED BY <1>3, <2>1, TypeOKIs DEF LockInv
<1>4. CASE InitConfig
  <2>1. CallTypes' /\ MutexHeld'
    BY <1>1, <1>2, <1>4 DEF InitConfig, CallTypes, MutexHeld
  <2> QED BY <1>2, <1>4, <2>1, TypeOKIs DEF InitConfig, LockInv
<1>5. CASE Crash
  <2>1. DocTypes'
    <3>1. Bad \in -1..MaxClock
      BY ClockAssumption DEF Bad
    <3>2. unread' \in File /\ refused' \in BOOLEAN /\ base' \in File /\ doc' \in Trees /\ unsaved' \in Trees
      BY <1>1, <1>5, FileTypes, TreeTypes DEF Crash, DocTypes
    <3>3. UNCHANGED <<file, bak, clock>> /\ blind' \in BOOLEAN /\ spoilt' \in BOOLEAN
      BY <1>5 DEF Crash, fileVars
    <3>4. lastWrite' = Bad /\ at' = "idle" /\ saver' = "none"
      BY <1>5 DEF Crash
    <3> QED BY <1>1, <3>1, <3>2, <3>3, <3>4 DEF DocTypes, Labels, Savers
  <2>2. initialized' = FALSE /\ lock' = NoThread /\ call' = [t \in Threads |-> Idle]
        /\ at' = "idle" /\ saver' = "none"
    BY <1>5 DEF Crash
  <2>3. CallTypes'
    BY <2>2, IdleType DEF CallTypes
  <2>4. MutexHeld' /\ SaverInv'
    BY <2>2, NoThreadAssumption DEF MutexHeld, SaverInv, Idle
  <2> QED BY <2>1, <2>3, <2>4, TypeOKIs DEF LockInv
<1>6. ASSUME NEW t \in Threads, Acquire(t)
      PROVE  LockInv'
  <2>1. lock = NoThread /\ call[t].status = "called" /\ at = "idle" /\ saver = "none"
    BY <1>1, <1>6 DEF Acquire, MutexHeld, SaverInv
  <2>2. lock' = t /\ call' = [call EXCEPT ![t].status = "running"] /\ at' = "validate"
    BY <1>6 DEF Acquire
  <2>3. UNCHANGED <<fileVars, docVars, saver, ghosts, initialized>>
    BY <1>6 DEF Acquire
  <2>4. DocTypes' /\ SaverInv'
    BY <1>1, <2>1, <2>2, <2>3 DEF DocTypes, SaverInv, Labels, fileVars, docVars, ghosts
  <2>5. CallTypes'
    BY <1>1, <2>2, <2>3 DEF CallTypes, Calls
  <2>6. ASSUME NEW s \in Threads
        PROVE  call'[s].status = "running" <=> s = t
    <3>1. CASE s = t
      BY <1>1, <2>2, <3>1 DEF CallTypes, Calls
    <3>2. CASE s # t
      BY <1>1, <2>1, <2>2, <3>2, NoThreadAssumption DEF CallTypes, MutexHeld
    <3> QED BY <3>1, <3>2
  <2>7. MutexHeld'
    BY <2>2, <2>6, NoThreadAssumption DEF MutexHeld
  <2> QED BY <2>4, <2>5, <2>7, TypeOKIs DEF LockInv
<1>7. CASE UseTree
  BY <1>7, UseTreeLock
<1>8. CASE Finish
  <2>1. at \in {"saved", "failed"} /\ at \in Results /\ Return(at) /\ Unsee
    BY <1>8 DEF Finish, Results
  <2>2. UNCHANGED <<fileVars, docVars, initialized>>
    BY <1>8 DEF Finish
  <2>3. CallTypes' /\ MutexHeld'
    BY <2>1, <2>2, ReturnLock
  <2>4. at' = "idle" /\ saver' = "none" /\ base' \in File
    BY <1>1, <2>1, FileTypes DEF Return, Unsee, DocTypes
  <2>5. DocTypes'
    BY <1>1, <2>1, <2>2, <2>4 DEF DocTypes, Unsee, fileVars, docVars, Labels, Savers
  <2> QED BY <2>3, <2>4, <2>5, TypeOKIs DEF LockInv, SaverInv
<1>9. CASE DocumentStep /\ UNCHANGED <<initialized, lock, call>>
  BY <1>1, <1>3, <1>9, DocumentTypes
<1>10. ASSUME NEW t \in Threads, NEW k \in Keys, NEW op \in {"get", "set"},
              NEW v \in Values \cup {Absent}, Call(t, op, k, v)
       PROVE  LockInv'
  <2> DEFINE new == IF initialized
                    THEN [status |-> "called", op |-> op, key |-> k, value |-> v,
                          result |-> "none"]
                    ELSE [Idle EXCEPT !.status = "returned", !.result = "failed"]
  <2>1. new \in Calls /\ new.status # "running"
    <3>1. "failed" \in Results
      BY DEF Results
    <3>2. [Idle EXCEPT !.status = "returned", !.result = "failed"] \in Calls
      BY <3>1, IdleType
    <3>3. [Idle EXCEPT !.status = "returned", !.result = "failed"].status = "returned"
      BY DEF Idle
    <3>4. [status |-> "called", op |-> op, key |-> k, value |-> v, result |-> "none"] \in Calls
      BY DEF Calls, Results
    <3> QED BY <3>2, <3>3, <3>4
  <2>2. call' = [call EXCEPT ![t] = new] /\ UNCHANGED <<initialized, lock>>
    BY <1>10 DEF Call
  <2>3. DocTypes' /\ SaverInv' /\ at' = at
    BY <1>2, <1>10 DEF Call
  <2>4. call[t].status # "running"
    BY <1>10 DEF Call
  <2> HIDE DEF new
  <2>5. CallTypes'
    BY <1>1, <2>1, <2>2 DEF CallTypes
  <2>6. ASSUME NEW s \in Threads
        PROVE  call'[s].status = "running" <=> call[s].status = "running"
    <3>1. CASE s = t
      BY <1>1, <2>1, <2>2, <2>4, <3>1 DEF CallTypes
    <3>2. CASE s # t
      BY <1>1, <2>2, <3>2 DEF CallTypes
    <3> QED BY <3>1, <3>2
  <2>7. MutexHeld'
    BY <1>1, <2>2, <2>3, <2>6 DEF MutexHeld
  <2> QED BY <2>3, <2>5, <2>7, TypeOKIs DEF LockInv
<1>11. CASE World /\ UNCHANGED <<initialized, lock, call>>
  <2>1. DocTypes' /\ UNCHANGED <<at, saver>>
    BY <1>1, <1>11, WorldTypes
  <2> QED BY <1>1, <1>3, <1>11, <2>1 DEF SaverInv
<1>12. CASE UNCHANGED configVars
  BY <1>1, <1>2, <1>3, <1>12 DEF configVars
<1>13. ASSUME NEW t \in Threads, NEW k \in Keys,
              Get(t, k) \/ (\E v \in Values : Set(t, k, v))
       PROVE  LockInv'
  BY <1>10, <1>13 DEF Get, Set
<1> QED BY <1>4, <1>5, <1>6, <1>7, <1>8, <1>9, <1>11, <1>12, <1>13 DEF Next, ThreadStep

\* At first nobody has called anything.
LEMMA LockInvInit == Init => LockInv
<1> SUFFICES ASSUME Init PROVE LockInv
  OBVIOUS
<1>1. Bad \in -1..MaxClock /\ 0 \in 0..MaxClock
  BY ClockAssumption DEF Bad
<1>2. file \in File
  BY FileTypes, TreeTypes DEF Init, DocumentInit
<1>3. DocTypes
  BY <1>1, <1>2, FileTypes, TreeTypes DEF Init, DocumentInit, DocTypes, Labels, Savers
<1>4. CallTypes
  BY IdleType DEF Init, CallTypes
<1>5. MutexHeld /\ SaverInv
  BY NoThreadAssumption DEF Init, DocumentInit, MutexHeld, SaverInv, Idle
<1> QED BY <1>3, <1>4, <1>5, TypeOKIs DEF LockInv

\* Every variable keeps its type, whatever other programs do to the file.
THEOREM ConfigTypes == Spec => []TypeOK
<1>1. LockInv => TypeOK
  BY DEF LockInv
<1> QED BY LockInvInit, LockInvStep, <1>1, PTL DEF Spec

\* One thread at a time is inside, and Document is busy exactly then.
THEOREM OneThreadInside == Spec => []MutexHeld
<1>1. LockInv => MutexHeld
  BY DEF LockInv
<1> QED BY LockInvInit, LockInvStep, <1>1, PTL DEF Spec


-----------------------------------------------------------------------------
(* What is laid over what.                                                  *)

\* A tree laid over the empty one is that tree.
LEMMA OverEmpty == \A a \in Trees : Over(Empty, a) = a
  BY DEF Over, Empty, Trees

\* The template is complete.
LEMMA ImportTemplate == Import(Template) = Template
<1>1. Template \in Trees
  BY TreeTypes
<1> QED BY <1>1 DEF Import, Over, Trees

\* The template adds nothing to a tree that it was added to.
LEMMA ImportTwice == \A a \in Trees : Import(Import(a)) = Import(a)
  BY DEF Import, Over, Trees

\* A tree over a complete one is complete.
LEMMA ImportOver ==
  ASSUME NEW a \in Trees, NEW b \in Trees, Import(b) = b
  PROVE  Import(Over(a, b)) = Over(a, b)
<1>1. Over(a, b) \in Trees /\ Import(Over(a, b)) \in Trees
  BY TreeTypes
<1>2. ASSUME NEW k \in Keys PROVE Import(Over(a, b))[k] = Over(a, b)[k]
  <2>1. b[k] = Import(b)[k]
    OBVIOUS
  <2>2. b[k] = Absent => Template[k] = Absent
    BY <2>1 DEF Import, Over
  <2> QED BY <2>2 DEF Import, Over
<1> QED BY <1>1, <1>2 DEF Trees

\* To complete a tree over another one is to lay it over the completed one.
LEMMA OverImport ==
  ASSUME NEW a \in Trees, NEW b \in Trees
  PROVE  Over(a, Import(b)) = Import(Over(a, b))
  BY DEF Import, Over

\* What a file stands for is complete.
LEMMA SettingsComplete ==
  ASSUME NEW f \in File
  PROVE  Import(Settings(f)) = Settings(f)
  BY ImportTemplate, ImportTwice, FileFields DEF Settings

\* Setting a value in a tree that lies over another one is setting it in the upper tree.
LEMMA OverSet ==
  ASSUME NEW a \in Trees, NEW b \in Trees, NEW k \in Keys, NEW v \in Values
  PROVE  [Over(a, b) EXCEPT ![k] = v] = Over([a EXCEPT ![k] = v], b)
<1>1. v # Absent
  BY AbsentAssumption
<1> DEFINE d == [Over(a, b) EXCEPT ![k] = v]
           e == Over([a EXCEPT ![k] = v], b)
<1>2. d = [j \in Keys |-> IF j = k THEN v ELSE Over(a, b)[j]]
  BY DEF Over
<1>3. ASSUME NEW j \in Keys PROVE d[j] = e[j]
  BY <1>1, <1>2 DEF Over, Trees
<1>4. e = [j \in Keys |-> e[j]]
  BY DEF Over
<1> QED BY <1>2, <1>3, <1>4

\* A complete tree in which a value is set is complete.
LEMMA ImportSet ==
  ASSUME NEW a \in Trees, Import(a) = a, NEW k \in Keys, NEW v \in Values
  PROVE  Import([a EXCEPT ![k] = v]) = [a EXCEPT ![k] = v]
<1>1. v # Absent
  BY AbsentAssumption
<1> DEFINE d == [a EXCEPT ![k] = v]
<1>2. d \in Trees
  BY DEF Trees
<1>3. ASSUME NEW j \in Keys PROVE Import(d)[j] = d[j]
  <2>1. a[j] = Import(a)[j]
    OBVIOUS
  <2>2. a[j] = Absent => Template[j] = Absent
    BY <2>1 DEF Import, Over
  <2> QED BY <1>1, <2>2 DEF Import, Over, Trees
<1>4. Import(d) \in Trees
  BY <1>2, TreeTypes
<1> QED BY <1>2, <1>3, <1>4 DEF Trees


-----------------------------------------------------------------------------
(* Each step keeps what the tree and the file have to do with each other.   *)

\* What the invariant says of a file and of the times.
LEMMA InvFacts ==
  ASSUME IInv
  PROVE  /\ DocTypes /\ SaverInv /\ DocInv
         /\ file.mtime \in Int /\ clock \in Int /\ lastWrite \in Int
         /\ 0 <= file.mtime /\ file.mtime <= clock /\ Bad = -1 /\ -1 <= lastWrite
<1>1. DocTypes /\ SaverInv /\ DocInv
  BY TypeOKIs DEF IInv, LockInv
<1>2. file.mtime \in 0..MaxClock /\ file.mtime <= clock
  BY <1>1, FileFields DEF DocTypes, DocInv, TimesInv
<1> QED BY <1>1, <1>2, ClockAssumption DEF DocTypes, Bad

\* The file is opened for writing.
LEMMA TruncateDoc ==
  ASSUME IInv, Truncate
  PROVE  DocInv'
<1>1. DocTypes /\ SaverInv /\ DocInv
  BY InvFacts
<1>2. UNCHANGED <<bak, clock, doc, lastWrite, base, blind, spoilt, unsaved, unread, refused, saver>>
  BY DEF Truncate, docVars, ghosts, Goto, Fail
<1>3. at = "truncate"
  BY DEF Truncate
<1>4. \/ at' = "write" /\ file' \in File /\ file'.state # "missing" /\ file'.mtime = clock
      \/ at' = "failed" /\ file' = file
  BY <1>1, FileTypes, TreeTypes DEF Truncate, Goto, Fail, DocTypes
<1>5. TimesInv'
  BY <1>1, <1>2, <1>3, <1>4, InvFacts DEF DocInv, TimesInv, Newer
<1>6. CurrentInv' /\ LoadInv'
  BY <1>1, <1>2, <1>3, <1>4 DEF DocInv, CurrentInv, LoadInv, Current
<1>7. SpoiltInv' /\ UnreadInv'
  BY <1>1, <1>2, <1>3, <1>4 DEF DocInv, SpoiltInv, UnreadInv
<1>8. MatchInv'
  BY <1>1, <1>2, <1>3, <1>4 DEF DocInv, MatchInv, Matches
<1> QED BY <1>5, <1>6, <1>7, <1>8 DEF DocInv

\* The file is written.
LEMMA WriteDoc ==
  ASSUME IInv, Write
  PROVE  DocInv'
<1>1. DocTypes /\ SaverInv /\ DocInv
  BY InvFacts
<1>2. /\ UNCHANGED <<bak, clock, doc, lastWrite, base, blind, unread, refused>>
      /\ at = "write" /\ saver \in {"validate", "revalidate", "merge", "set"}
  BY <1>1 DEF Write, docVars, DocTypes, SaverInv, Savers
<1>3. file.state # "missing"
  BY <1>1, <1>2 DEF DocInv, SpoiltInv
<1>4. CASE /\ file' = Holds(WrittenTree, clock)
           /\ at' = AfterSave[saver] /\ saver' = "none"
           /\ spoilt' = FALSE
           /\ unsaved' = IF saver = "set" THEN Empty ELSE unsaved
  <2>1. WrittenTree \in Trees
    BY <1>1, TreeTypes DEF WrittenTree, DocTypes
  <2>2. /\ file'.state = "ok" /\ file'.mtime = clock /\ file'.tree = WrittenTree
    BY <1>1, <1>4, <2>1, FileTypes DEF DocTypes
  <2>3. at' = CASE saver = "validate" -> "stat" [] saver = "revalidate" -> "reload"
                [] saver = "merge" -> "mergestat" [] saver = "set" -> "setstat"
    BY <1>2, <1>4, AfterSaveIs
  <2>4. TimesInv'
    BY <1>1, <1>2, <1>4, <2>2, <2>3, InvFacts DEF DocInv, TimesInv, Newer
  <2>5. CurrentInv'
    BY <1>1, <1>2, <1>4, <2>3 DEF DocInv, CurrentInv, Current
  <2>6. LoadInv'
    BY <1>1, <1>2, <1>4, <2>2, <2>3 DEF DocInv, LoadInv, WrittenTree
  <2>7. SpoiltInv' /\ UnreadInv'
    BY <1>1, <1>2, <1>4, <2>3 DEF DocInv, SpoiltInv, UnreadInv
  <2>8. saver \in {"validate", "revalidate", "merge"} /\ ~blind
        => lastWrite = Bad \/ clock > lastWrite
    BY <1>1 DEF DocInv, TimesInv, Newer
  <2>9. saver \in {"set", "merge"} /\ ~blind => Matches' /\ unsaved' = Empty
    <3>1. saver \in {"set", "merge"} /\ ~blind => Import(doc) = doc /\ unsaved' = Empty
      BY <1>1, <1>4 DEF DocInv, CurrentInv, Current, LoadInv
    <3>2. Over(Empty, doc) = doc
      BY <1>1, OverEmpty DEF DocTypes
    <3> QED BY <1>2, <2>2, <3>1, <3>2 DEF Matches, WrittenTree
  <2>10. MatchInv'
    <3>1. at' \in {"setstat", "mergestat", "loadstat"} => saver \in {"set", "merge"}
      BY <1>2, <2>3
    <3>2. lastWrite # Bad /\ clock <= lastWrite /\ ~blind => saver = "set"
      BY <1>2, <2>8, InvFacts
    <3>3. blind' = blind /\ lastWrite' = lastWrite /\ file'.mtime = clock
      BY <1>2, <2>2
    <3> QED BY <2>9, <3>1, <3>2, <3>3 DEF MatchInv
  <2> QED BY <2>4, <2>5, <2>6, <2>7, <2>10 DEF DocInv
<1>5. CASE /\ Fail /\ UNCHANGED <<file, unsaved>>
           /\ spoilt' = (spoilt \/ file.mtime <= lastWrite)
  <2>1. at' = "failed" /\ saver' = saver /\ file' = file /\ unsaved' = unsaved
    BY <1>5 DEF Fail
  <2>2. TimesInv'
    BY <1>1, <1>2, <2>1 DEF DocInv, TimesInv, Newer
  <2>3. file.mtime <= lastWrite => saver = "set" \/ blind
    BY <1>1, <1>2, <1>3, InvFacts DEF DocInv, TimesInv, Newer
  <2>4. CurrentInv'
    BY <1>1, <1>2, <1>5, <2>1, <2>3 DEF DocInv, CurrentInv, Current
  <2>5. LoadInv'
    BY <1>1, <1>2, <1>5, <2>1, <2>3 DEF DocInv, LoadInv
  <2>6. SpoiltInv' /\ UnreadInv'
    BY <1>1, <1>2, <1>3, <2>1 DEF DocInv, SpoiltInv, UnreadInv
  <2>7. MatchInv'
    BY <1>2, <1>5, <2>1 DEF MatchInv
  <2> QED BY <2>2, <2>4, <2>5, <2>6, <2>7 DEF DocInv
<1> QED BY <1>4, <1>5 DEF Write


\* The file is found, or it is made from the template.
LEMMA ValidateDoc ==
  ASSUME IInv, Validate
  PROVE  DocInv'
<1>1. DocTypes /\ SaverInv /\ DocInv
  BY InvFacts
<1>2. /\ UNCHANGED <<file, bak, clock, doc, lastWrite, blind, spoilt, unsaved, unread, refused>>
      /\ at \in {"validate", "revalidate"} /\ saver = "none"
  BY <1>1 DEF Validate, fileVars, docVars, ghosts, See, SaverInv
<1>3. base' = IF at = "validate" /\ ~spoilt THEN file ELSE base
  BY DEF Validate, See, ghosts
<1>4. CASE /\ file.state # "missing" /\ Goto(AfterSave[at])
  <2>1. /\ saver' = saver /\ (at = "validate" => at' = "stat") /\ (at = "revalidate" => at' = "reload")
    BY <1>2, <1>4, AfterSaveIs DEF Goto
  <2>2. TimesInv'
    BY <1>1, <1>2, <1>4, <2>1 DEF DocInv, TimesInv, Newer
  <2>3. CurrentInv'
    BY <1>1, <1>2, <1>3, <2>1 DEF DocInv, CurrentInv, Current
  <2>4. LoadInv'
    BY <1>1, <1>2, <1>3, <1>4, <2>1 DEF DocInv, LoadInv
  <2>5. SpoiltInv' /\ UnreadInv' /\ MatchInv'
    BY <1>1, <1>2, <2>1 DEF DocInv, SpoiltInv, UnreadInv, MatchInv, Matches
  <2> QED BY <2>2, <2>3, <2>4, <2>5 DEF DocInv
<1>5. CASE file.state = "missing" /\ (SaveFor(at) \/ Fail)
  <2>1. \/ at' = "truncate" /\ saver' = at
        \/ at' = "failed" /\ saver' = "none"
    BY <1>2, <1>5 DEF SaveFor, Fail
  <2>2. ~spoilt
    BY <1>1, <1>5 DEF DocInv, SpoiltInv
  <2>3. TimesInv'
    BY <1>1, <1>2, <1>5, <2>1 DEF DocInv, TimesInv, Newer
  <2>4. CurrentInv'
    BY <1>2, <2>1, <2>2 DEF CurrentInv
  <2>5. LoadInv'
    BY <1>1, <1>2, <1>3, <1>5, <2>1, <2>2 DEF DocInv, LoadInv, Settings
  <2>6. SpoiltInv' /\ UnreadInv' /\ MatchInv'
    BY <1>1, <1>2, <1>5, <2>1, <2>2 DEF DocInv, SpoiltInv, UnreadInv, MatchInv, Matches
  <2> QED BY <2>3, <2>4, <2>5, <2>6 DEF DocInv
<1>6. CASE file.state # "missing" /\ Fail
  <2>1. at' = "failed" /\ saver' = saver
    BY <1>6 DEF Fail
  <2>2. TimesInv' /\ LoadInv'
    BY <1>1, <1>2, <2>1 DEF DocInv, TimesInv, Newer, LoadInv
  <2>3. CurrentInv'
    BY <1>1, <1>2, <1>3, <2>1 DEF DocInv, CurrentInv, Current
  <2>4. SpoiltInv' /\ UnreadInv' /\ MatchInv'
    BY <1>1, <1>2, <2>1 DEF DocInv, SpoiltInv, UnreadInv, MatchInv, Matches
  <2> QED BY <2>2, <2>3, <2>4 DEF DocInv
<1> QED BY <1>4, <1>5, <1>6 DEF Validate

\* The time of the file is compared with the one known: if it is not newer, the tree
\* is what the file stands for, with the unsaved sets over it.
LEMMA StatDoc ==
  ASSUME IInv, Stat
  PROVE  DocInv'
<1>1. DocTypes /\ SaverInv /\ DocInv
  BY InvFacts
<1>2. /\ UNCHANGED <<file, bak, clock, doc, lastWrite, blind, spoilt, unsaved, unread, refused, saver>>
      /\ at = "stat" /\ saver = "none" /\ base' = IF spoilt THEN base ELSE file
  BY <1>1 DEF Stat, fileVars, docVars, See, Goto, Fail, SaverInv
<1>3. \/ at' = "failed"
      \/ /\ file.state # "missing" /\ at' = "load"
         /\ lastWrite = Bad \/ file.mtime > lastWrite
      \/ /\ file.state # "missing" /\ at' = "refreshed"
         /\ lastWrite # Bad /\ ~(file.mtime > lastWrite)
  BY DEF Stat, Goto, Fail
<1>4. TimesInv'
  BY <1>1, <1>2, <1>3, InvFacts DEF DocInv, TimesInv, Newer
<1>5. ASSUME ~blind, at' = "refreshed"
      PROVE  Current'
  <2>1. file.state # "missing" /\ lastWrite # Bad /\ file.mtime <= lastWrite
    BY <1>3, <1>5, InvFacts
  <2>2. CASE spoilt
    BY <1>1, <1>2, <1>5, <2>2 DEF DocInv, CurrentInv, Current
  <2>3. CASE ~spoilt
    <3>1. Matches
      BY <1>1, <1>2, <1>5, <2>1, <2>3 DEF DocInv, MatchInv
    <3>2. file.tree \in Trees /\ unsaved \in Trees
      BY <1>1, FileFields DEF DocTypes
    <3>3. Over(unsaved, Import(file.tree)) = Import(Over(unsaved, file.tree))
      BY <3>2, OverImport
    <3>4. doc = Over(unsaved, Settings(file)) /\ Import(doc) = doc
      BY <3>1, <3>3 DEF Matches, Settings
    <3>5. base' = file /\ unsaved' = unsaved /\ doc' = doc
      BY <1>2, <2>3
    <3>6. Settings(base') = Settings(file)
      BY <3>5
    <3> QED BY <3>4, <3>5, <3>6 DEF Current
  <2> QED BY <2>2, <2>3
<1>6. CurrentInv'
  <2>1. ~blind /\ spoilt => Current'
    BY <1>1, <1>2 DEF DocInv, CurrentInv, Current
  <2> QED BY <1>2, <1>3, <1>5, <2>1 DEF CurrentInv
<1>7. LoadInv'
  BY <1>2, <1>3 DEF LoadInv
<1>8. SpoiltInv' /\ UnreadInv' /\ MatchInv'
  BY <1>1, <1>2, <1>3 DEF DocInv, SpoiltInv, UnreadInv, MatchInv, Matches
<1> QED BY <1>4, <1>6, <1>7, <1>8 DEF DocInv

\* The file is loaded, and completed from the template.
LEMMA LoadDoc ==
  ASSUME IInv, Load
  PROVE  DocInv'
<1>1. DocTypes /\ SaverInv /\ DocInv
  BY InvFacts
<1>2. /\ UNCHANGED <<file, bak, clock, lastWrite>> /\ at = "load" /\ saver = "none"
      /\ blind' = (lastWrite # Bad /\ file.state # "missing" /\ file.mtime <= lastWrite)
      /\ spoilt' = FALSE /\ unsaved' = Empty
  BY <1>1 DEF Load, ForgetTree, fileVars, SaverInv
<1>3. ASSUME ~blind' PROVE Newer
  <2>1. lastWrite = Bad \/ file.state = "missing" \/ ~(file.mtime <= lastWrite)
    BY <1>2, <1>3
  <2> QED BY <1>1, <1>2, <2>1, InvFacts DEF DocInv, TimesInv, Newer
<1>4. CASE /\ file.state = "ok" /\ doc' = Import(file.tree) /\ Loaded
           /\ IF doc' # file.tree THEN SaveFor("merge") ELSE Goto("loadstat")
  <2>1. /\ base' = file /\ refused' = refused
        /\ unread' = IF unread = file THEN Missing ELSE unread
    BY <1>4 DEF Loaded, NoLongerUnread
  <2>2. \/ at' = "truncate" /\ saver' = "merge"
        \/ at' = "loadstat" /\ saver' = "none" /\ doc' = file.tree
    BY <1>2, <1>4 DEF SaveFor, Goto
  <2>3. TimesInv'
    BY <1>1, <1>2, <1>3, <1>4, <2>2 DEF DocInv, TimesInv, Newer
  <2>4. Import(doc') = doc' /\ doc' \in Trees
    BY <1>1, <1>4, FileFields, ImportTwice, TreeTypes DEF DocTypes
  <2>5. Current'
    <3>1. Settings(base') = doc'
      BY <1>4, <2>1 DEF Settings
    <3>2. Over(Empty, doc') = doc'
      BY <2>4, OverEmpty
    <3> QED BY <1>2, <2>4, <3>1, <3>2 DEF Current
  <2>6. LoadInv'
    BY <1>2, <2>2 DEF LoadInv
  <2>7. SpoiltInv' /\ UnreadInv' /\ CurrentInv'
    BY <1>1, <1>2, <2>1, <2>2, <2>5, FileTypes DEF DocInv, SpoiltInv, UnreadInv, CurrentInv
  <2>8. MatchInv'
    <3>1. ~blind' => ~(lastWrite # Bad /\ file.mtime <= lastWrite)
      BY <1>2, <1>4
    <3>2. at' = "loadstat" => Matches'
      <4>1. Over(Empty, doc') = doc'
        BY <2>4, OverEmpty
      <4> QED BY <1>2, <1>4, <2>2, <2>4, <4>1 DEF Matches
    <3> QED BY <1>2, <2>2, <3>1, <3>2 DEF MatchInv
  <2> QED BY <2>3, <2>6, <2>7, <2>8 DEF DocInv
<1>5. CASE doc' = Empty /\ Goto("rename") /\ Unloaded
  <2>1. at' = "rename" /\ saver' = "none" /\ base' = Missing /\ unread' = file /\ ~refused'
    BY <1>2, <1>5 DEF Goto, Unloaded
  <2>2. TimesInv'
    BY <1>1, <1>2, <1>3, <2>1 DEF DocInv, TimesInv, Newer
  <2>3. CurrentInv' /\ LoadInv' /\ SpoiltInv' /\ UnreadInv'
    BY <1>2, <2>1 DEF CurrentInv, LoadInv, SpoiltInv, UnreadInv
  <2>4. MatchInv'
    BY <1>2, <1>3, <2>1, InvFacts DEF MatchInv, Newer
  <2> QED BY <2>2, <2>3, <2>4 DEF DocInv
<1> QED BY <1>4, <1>5 DEF Load

\* What could not be loaded is renamed.
LEMMA RenameDoc ==
  ASSUME IInv, Rename
  PROVE  DocInv'
<1>1. DocTypes /\ SaverInv /\ DocInv
  BY InvFacts
<1>2. /\ UNCHANGED <<clock, doc, lastWrite, base, blind, spoilt, unsaved, saver>>
      /\ at = "rename" /\ saver = "none"
  BY <1>1 DEF Rename, docVars, Goto, SaverInv
<1>3. (~blind => Newer) /\ unsaved = Empty /\ ~spoilt /\ base = Missing
  BY <1>1, <1>2 DEF DocInv, TimesInv, LoadInv
<1>4. /\ unread' = unread
      /\ \/ at' = "revalidate" /\ bak' = file /\ file' = Missing /\ refused' = refused
         \/ at' = "remove" /\ bak' = bak /\ file' = file /\ refused' = TRUE
  BY DEF Rename, Goto
<1>5. TimesInv'
  BY <1>1, <1>2, <1>3, <1>4, FileTypes, InvFacts DEF DocInv, TimesInv, Newer
<1>6. CurrentInv'
  BY <1>2, <1>3, <1>4 DEF CurrentInv
<1>7. LoadInv' /\ SpoiltInv'
  BY <1>2, <1>3, <1>4, FileTypes DEF LoadInv, SpoiltInv
<1>8. MatchInv'
  BY <1>2, <1>3, <1>4, FileTypes, InvFacts DEF MatchInv, Newer
<1>9. UnreadInv'
  BY <1>1, <1>2, <1>4, FileTypes DEF DocInv, UnreadInv
<1> QED BY <1>5, <1>6, <1>7, <1>8, <1>9 DEF DocInv

\* What could not be renamed is removed.
LEMMA RemoveDoc ==
  ASSUME IInv, Remove
  PROVE  DocInv'
<1>1. DocTypes /\ SaverInv /\ DocInv
  BY InvFacts
<1>2. /\ UNCHANGED <<bak, clock, doc, lastWrite, base, blind, spoilt, unsaved, unread, refused, saver>>
      /\ at = "remove" /\ saver = "none"
  BY <1>1 DEF Remove, docVars, ghosts, Goto, Fail, SaverInv
<1>3. (~blind => Newer) /\ unsaved = Empty /\ ~spoilt /\ base = Missing
  BY <1>1, <1>2 DEF DocInv, TimesInv, LoadInv
<1>4. \/ at' = "revalidate" /\ file' = Missing
      \/ at' = "failed" /\ file' = file
  BY DEF Remove, Goto, Fail
<1>5. TimesInv'
  BY <1>1, <1>2, <1>3, <1>4, FileTypes, InvFacts DEF DocInv, TimesInv, Newer
<1>6. CurrentInv' /\ LoadInv' /\ SpoiltInv'
  BY <1>2, <1>3, <1>4, FileTypes DEF CurrentInv, LoadInv, SpoiltInv
<1>7. MatchInv'
  BY <1>2, <1>3, <1>4, FileTypes, InvFacts DEF MatchInv, Newer
<1>8. UnreadInv'
  BY <1>1, <1>2, <1>4 DEF DocInv, UnreadInv
<1> QED BY <1>5, <1>6, <1>7, <1>8 DEF DocInv

\* The defaults are loaded.
LEMMA ReloadDoc ==
  ASSUME IInv, Reload
  PROVE  DocInv'
<1>1. DocTypes /\ SaverInv /\ DocInv
  BY InvFacts
<1>2. /\ UNCHANGED <<file, bak, clock, lastWrite, base, blind, spoilt, unsaved, unread, refused, saver>>
      /\ at = "reload" /\ saver = "none"
  BY <1>1 DEF Reload, fileVars, ghosts, Goto, Fail, SaverInv
<1>3. /\ (~blind => Newer) /\ unsaved = Empty /\ ~spoilt /\ base = Missing
      /\ ~blind => file.state = "ok" /\ file.tree = Template
  BY <1>1, <1>2 DEF DocInv, TimesInv, LoadInv
<1>4. \/ at' = "loadstat" /\ doc' = file.tree
      \/ at' = "failed" /\ doc' = Empty
  BY DEF Reload, Goto, Fail
<1>5. TimesInv'
  BY <1>1, <1>2, <1>3, <1>4 DEF DocInv, TimesInv, Newer
<1>6. ASSUME ~blind, at' = "loadstat"
      PROVE  Current' /\ Matches'
  <2>1. doc' = Template /\ file'.state = "ok" /\ file'.tree = Template
    BY <1>2, <1>3, <1>4, <1>6
  <2>2. Over(Empty, Template) = Template /\ Import(Template) = Template
    BY OverEmpty, TreeTypes, ImportTemplate
  <2>3. Settings(base') = Template
    BY <1>2, <1>3, FileTypes DEF Settings
  <2>4. unsaved' = Empty
    BY <1>2, <1>3
  <2> QED BY <2>1, <2>2, <2>3, <2>4 DEF Current, Matches
<1>7. CurrentInv' /\ LoadInv' /\ SpoiltInv' /\ UnreadInv'
  BY <1>1, <1>2, <1>3, <1>4, <1>6 DEF DocInv, CurrentInv, LoadInv, SpoiltInv, UnreadInv
<1>8. MatchInv'
  BY <1>2, <1>3, <1>4, <1>6, InvFacts DEF MatchInv, Newer
<1> QED BY <1>5, <1>7, <1>8 DEF DocInv

\* The time of the file is read at the end of a load or a save.
LEMMA ReadTimeDoc ==
  ASSUME IInv, ReadTime
  PROVE  DocInv'
<1>1. DocTypes /\ SaverInv /\ DocInv
  BY InvFacts
<1>2. /\ UNCHANGED <<file, bak, clock, doc, base, blind, spoilt, unsaved, unread, refused, saver>>
      /\ at \in {"mergestat", "loadstat", "setstat"} /\ saver = "none"
  BY <1>1 DEF ReadTime, fileVars, ghosts, Goto, Fail, SaverInv
<1>3. \/ lastWrite' = Bad /\ at' = "failed"
      \/ /\ file.state # "missing" /\ lastWrite' = file.mtime
         /\ \/ at = "mergestat" /\ at' = "loadstat"
            \/ at = "loadstat" /\ at' = "refreshed"
            \/ at = "setstat" /\ at' = "saved"
  BY <1>2 DEF ReadTime, Goto, Fail
<1>4. TimesInv'
  BY <1>1, <1>2, <1>3 DEF DocInv, TimesInv, Newer
<1>5. CurrentInv'
  BY <1>1, <1>2, <1>3 DEF DocInv, CurrentInv, Current
<1>6. LoadInv' /\ SpoiltInv' /\ UnreadInv'
  BY <1>1, <1>2, <1>3 DEF DocInv, LoadInv, SpoiltInv, UnreadInv
<1>7. MatchInv'
  BY <1>1, <1>2, <1>3 DEF DocInv, MatchInv, Matches
<1> QED BY <1>4, <1>5, <1>6, <1>7 DEF DocInv


\* A get reads the tree, a set changes it: the new value is unsaved.
LEMMA UseTreeDoc ==
  ASSUME IInv, UseTree
  PROVE  DocInv'
<1>1. DocTypes /\ SaverInv /\ DocInv
  BY InvFacts
<1>2. at = "refreshed" /\ saver = "none" /\ lock \in Threads /\ call[lock] \in Calls
  BY <1>1 DEF UseTree, SaverInv, IInv, LockInv, MutexHeld, TypeOK
<1>3. UNCHANGED <<file, bak, clock, lastWrite>>
  BY DEF UseTree, fileVars
<1>4. CASE /\ Return(IF doc[call[lock].key] = Absent THEN "failed" ELSE doc[call[lock].key])
           /\ Unsee /\ UNCHANGED doc
  <2>1. /\ at' = "idle" /\ saver' = "none" /\ UNCHANGED <<doc, blind, spoilt, unsaved, unread, refused>>
        /\ base' = IF spoilt THEN base ELSE Missing
    BY <1>4 DEF Return, Unsee
  <2>2. TimesInv' /\ SpoiltInv' /\ UnreadInv'
    BY <1>1, <1>2, <1>3, <2>1 DEF DocInv, TimesInv, Newer, SpoiltInv, UnreadInv
  <2>3. CurrentInv' /\ LoadInv' /\ MatchInv'
    BY <1>1, <1>2, <1>3, <2>1 DEF DocInv, CurrentInv, Current, LoadInv, MatchInv, Matches
  <2> QED BY <2>2, <2>3 DEF DocInv
<1>5. CASE /\ call[lock].op = "set"
           /\ doc' = [doc EXCEPT ![call[lock].key] = call[lock].value]
           /\ unsaved' = [unsaved EXCEPT ![call[lock].key] = call[lock].value]
           /\ SaveFor("set")
           /\ UNCHANGED <<lock, call, base, blind, spoilt, unread, refused>>
  <2>1. PICK k \in Keys, v \in Values :
          doc' = [doc EXCEPT ![k] = v] /\ unsaved' = [unsaved EXCEPT ![k] = v]
    <3>1. call[lock].key \in Keys /\ call[lock].value \in Values
      BY <1>2, <1>5 DEF IInv, SetsAValue, Calls
    <3> QED BY <1>5, <3>1
  <2>2. at' = "truncate" /\ saver' = "set" /\ UNCHANGED <<base, blind, spoilt, unread, refused>>
    BY <1>5 DEF SaveFor
  <2>3. TimesInv' /\ SpoiltInv' /\ UnreadInv' /\ LoadInv'
    BY <1>1, <1>2, <1>3, <2>2 DEF DocInv, TimesInv, Newer, SpoiltInv, UnreadInv, LoadInv
  <2>4. ASSUME NEW b \in Trees, doc = Over(unsaved, b), Import(doc) = doc
        PROVE  doc' = Over(unsaved', b) /\ Import(doc') = doc'
    <3>1. unsaved \in Trees /\ doc \in Trees
      BY <1>1 DEF DocTypes
    <3>2. [Over(unsaved, b) EXCEPT ![k] = v] = Over([unsaved EXCEPT ![k] = v], b)
      BY <3>1, OverSet
    <3>3. Import([doc EXCEPT ![k] = v]) = [doc EXCEPT ![k] = v]
      BY <2>4, <3>1, ImportSet
    <3> QED BY <2>1, <2>4, <3>2, <3>3
  <2>5. Current => Current'
    <3>1. Settings(base) \in Trees /\ Settings(base') = Settings(base)
      BY <1>1, <2>2, FileFields DEF DocTypes
    <3>2. Current => doc' = Over(unsaved', Settings(base)) /\ Import(doc') = doc'
      BY <2>4, <3>1 DEF Current
    <3> QED BY <3>1, <3>2 DEF Current
  <2>6. Matches => Matches'
    <3>1. file.tree \in Trees /\ file'.tree = file.tree /\ file' = file
      BY <1>1, <1>3, FileFields DEF DocTypes
    <3>2. Matches => doc' = Over(unsaved', file.tree) /\ Import(doc') = doc'
      BY <2>4, <3>1 DEF Matches
    <3> QED BY <3>1, <3>2 DEF Matches
  <2>7. CurrentInv'
    BY <1>1, <1>2, <2>2, <2>5 DEF DocInv, CurrentInv
  <2>8. MatchInv'
    BY <1>1, <1>2, <1>3, <2>2, <2>6 DEF DocInv, MatchInv
  <2> QED BY <2>3, <2>7, <2>8 DEF DocInv
<1> QED BY <1>4, <1>5 DEF UseTree

\* A call of set, or one that failed, is over.
LEMMA FinishDoc ==
  ASSUME IInv, Finish
  PROVE  DocInv'
<1>1. DocTypes /\ SaverInv /\ DocInv
  BY InvFacts
<1>2. /\ UNCHANGED <<file, bak, clock, doc, lastWrite, blind, spoilt, unsaved, unread, refused>>
      /\ at' = "idle" /\ saver' = "none" /\ base' = IF spoilt THEN base ELSE Missing
      /\ at \in {"saved", "failed"}
  BY DEF Finish, Return, Unsee, fileVars, docVars
<1>3. TimesInv' /\ SpoiltInv' /\ UnreadInv'
  BY <1>1, <1>2 DEF DocInv, TimesInv, Newer, SpoiltInv, UnreadInv
<1>4. CurrentInv' /\ LoadInv' /\ MatchInv'
  BY <1>1, <1>2 DEF DocInv, CurrentInv, Current, LoadInv, MatchInv, Matches
<1> QED BY <1>3, <1>4 DEF DocInv

\* What was in memory is gone.
LEMMA CrashDoc ==
  ASSUME IInv, Crash
  PROVE  DocInv'
<1>1. DocTypes /\ SaverInv /\ DocInv
  BY InvFacts
<1>2. /\ lastWrite' = Bad /\ at' = "idle" /\ saver' = "none" /\ blind' = FALSE
      /\ spoilt' = FALSE /\ UNCHANGED <<file, bak, clock, unread, refused>>
  BY DEF Crash, fileVars
<1>3. TimesInv' /\ SpoiltInv' /\ CurrentInv' /\ LoadInv' /\ MatchInv'
  BY <1>1, <1>2 DEF DocInv, TimesInv, Newer, SpoiltInv, CurrentInv, LoadInv, MatchInv
<1>4. UnreadInv'
  BY <1>1, <1>2, FileTypes DEF DocInv, UnreadInv
<1> QED BY <1>3, <1>4 DEF DocInv

\* Another program changes the file: unless the time that it gets is later than the
\* last one known, the times do not show it.
LEMMA ForeignDoc ==
  ASSUME IInv, NEW f \in File, NEW t \in 0..clock, Foreign(f, t), f.mtime <= clock,
         IF f.state = "missing" THEN t = clock /\ at # "write" ELSE f.mtime = t
  PROVE  DocInv'
<1>1. DocTypes /\ SaverInv /\ DocInv
  BY InvFacts
<1>2. /\ file' = f /\ spoilt' = FALSE
      /\ unread' = IF unread = file THEN Missing ELSE unread
      /\ UNCHANGED <<bak, clock, doc, lastWrite, at, saver, base, unsaved, refused>>
  BY DEF Foreign, NoLongerUnread, docVars
<1>3. ~blind' => /\ ~blind /\ lastWrite < t /\ t <= clock /\ at \notin TimeUnread
                 /\ saver \notin {"revalidate", "merge"}
  <2>1. blind' = (blind \/ lastWrite >= t \/ at \in TimeUnread
                        \/ saver \in {"revalidate", "merge"})
    BY DEF Foreign
  <2>2. (~(lastWrite >= t) => lastWrite < t) /\ t <= clock
    BY InvFacts
  <2> QED BY <2>1, <2>2
<1>4. TimesInv'
  BY <1>1, <1>2, <1>3, InvFacts DEF DocInv, TimesInv, Newer
<1>5. CurrentInv'
  BY <1>1, <1>2, <1>3 DEF DocInv, CurrentInv, Current, TimeUnread
<1>6. LoadInv'
  BY <1>1, <1>2, <1>3 DEF DocInv, LoadInv, TimeUnread
<1>7. SpoiltInv'
  BY <1>2 DEF SpoiltInv
<1>8. MatchInv'
  BY <1>2, <1>3, InvFacts DEF MatchInv, TimeUnread
<1>9. UnreadInv'
  BY <1>1, <1>2, FileTypes DEF DocInv, UnreadInv
<1> QED BY <1>4, <1>5, <1>6, <1>7, <1>8, <1>9 DEF DocInv

\* Time passes, or another program changes the file.
LEMMA WorldDoc ==
  ASSUME IInv, World
  PROVE  DocInv'
<1>1. DocTypes /\ SaverInv /\ DocInv
  BY InvFacts
<1>2. CASE Tick
  <2>1. /\ UNCHANGED <<file, bak, doc, lastWrite, at, saver, base, blind, spoilt, unsaved, unread, refused>>
        /\ clock' = clock + 1
    BY <1>2 DEF Tick, docVars, ghosts
  <2>2. TimesInv'
    BY <1>1, <2>1, InvFacts DEF DocInv, TimesInv, Newer
  <2>3. CurrentInv' /\ LoadInv' /\ MatchInv' /\ SpoiltInv' /\ UnreadInv'
    BY <1>1, <2>1 DEF DocInv, CurrentInv, Current, LoadInv, MatchInv, Matches, SpoiltInv,
                      UnreadInv
  <2> QED BY <2>2, <2>3 DEF DocInv
<1>3. clock \in 0..MaxClock
  BY <1>1 DEF DocTypes
<1>4. CASE Edit
  <2>1. PICK c \in Edits, t \in 0..clock : Foreign(Holds(c, t), t)
    BY <1>4 DEF Edit
  <2>2. /\ Holds(c, t) \in File /\ Holds(c, t).state = "ok" /\ Holds(c, t).mtime = t
        /\ t <= clock
    BY <1>3, ClockAssumption, FileTypes, TreeTypes
  <2> QED BY <2>1, <2>2, ForeignDoc, InvFacts
<1>5. CASE Garble
  <2>1. PICK t \in 0..clock : Foreign(Torn(t), t)
    BY <1>5 DEF Garble
  <2>2. Torn(t) \in File /\ Torn(t).state = "torn" /\ Torn(t).mtime = t /\ t <= clock
    BY <1>3, ClockAssumption, FileTypes
  <2> QED BY <2>1, <2>2, ForeignDoc, InvFacts
<1>6. CASE Delete
  <2>1. /\ Missing \in File /\ Missing.state = "missing" /\ Missing.mtime <= clock
        /\ clock \in 0..clock
    BY <1>3, FileTypes, InvFacts
  <2> QED BY <1>6, <2>1, ForeignDoc DEF Delete
<1> QED BY <1>2, <1>4, <1>5, <1>6 DEF World

\* Outside of Document nothing changes but the label, when a thread enters.
LEMMA OutsideDoc ==
  ASSUME IInv, UNCHANGED <<fileVars, docVars, saver, ghosts>>,
         at' = at \/ (at = "idle" /\ at' = "validate")
  PROVE  DocInv'
<1>1. DocTypes /\ SaverInv /\ DocInv
  BY InvFacts
<1>2. UNCHANGED <<file, bak, clock, doc, lastWrite, saver, base, blind, spoilt, unsaved, unread, refused>>
  BY DEF fileVars, docVars, ghosts
<1>3. TimesInv' /\ SpoiltInv' /\ UnreadInv'
  BY <1>1, <1>2 DEF DocInv, TimesInv, Newer, SpoiltInv, UnreadInv
<1>4. CurrentInv' /\ LoadInv' /\ MatchInv'
  BY <1>1, <1>2 DEF DocInv, CurrentInv, Current, LoadInv, MatchInv, Matches
<1> QED BY <1>3, <1>4 DEF DocInv

\* A call keeps what it is to set from when it is made until it has returned.
LEMMA SetsAValueStep == LockInv /\ SetsAValue /\ [Next]_configVars => SetsAValue'
<1> SUFFICES ASSUME LockInv, SetsAValue, [Next]_configVars
             PROVE  SetsAValue'
  OBVIOUS
<1>1. call \in [Threads -> Calls] /\ lock \in Threads \cup {NoThread}
  BY DEF LockInv, TypeOK
<1>2. ASSUME UNCHANGED call
      PROVE  SetsAValue'
  BY <1>2 DEF SetsAValue
<1>3. ASSUME NEW t, NEW c, call' = [call EXCEPT ![t] = c],
             c.op = "set" => c.value \in Values
      PROVE  SetsAValue'
  <2>1. ASSUME NEW s \in Threads
        PROVE  call'[s].op = "set" => call'[s].value \in Values
    <3>1. call'[s] = c \/ call'[s] = call[s]
      BY <1>1, <1>3
    <3> QED BY <1>3, <3>1 DEF SetsAValue
  <2> QED BY <2>1 DEF SetsAValue
<1>4. ASSUME NEW r, Return(r)
      PROVE  SetsAValue'
  <2> DEFINE c == [Idle EXCEPT !.status = "returned", !.result = r]
  <2>1. c.op = "get"
    BY DEF Idle
  <2>2. call' = [call EXCEPT ![lock] = c]
    BY <1>4 DEF Return
  <2> HIDE DEF c
  <2> QED BY <1>3, <2>1, <2>2
<1>5. CASE InitConfig
  BY <1>2, <1>5 DEF InitConfig
<1>6. CASE Crash
  <2>1. call' = [t \in Threads |-> Idle] /\ Idle.op = "get"
    BY <1>6 DEF Crash, Idle
  <2> QED BY <2>1 DEF SetsAValue
<1>7. ASSUME NEW t \in Threads, Acquire(t)
      PROVE  SetsAValue'
  <2> DEFINE c == [call[t] EXCEPT !.status = "running"]
  <2>1. call[t] \in Calls
    BY <1>1
  <2>2. c.op = call[t].op /\ c.value = call[t].value
    BY <2>1 DEF Calls
  <2>3. call' = [call EXCEPT ![t] = c]
    BY <1>7 DEF Acquire
  <2>4. c.op = "set" => c.value \in Values
    BY <2>2 DEF SetsAValue
  <2> HIDE DEF c
  <2> QED BY <1>3, <2>3, <2>4
<1>8. CASE UseTree
  BY <1>2, <1>4, <1>8 DEF UseTree
<1>9. CASE Finish
  BY <1>4, <1>9 DEF Finish
<1>10. ASSUME NEW t \in Threads, NEW op, NEW k, NEW v, Call(t, op, k, v),
              op = "set" => v \in Values
       PROVE  SetsAValue'
  <2> DEFINE c == IF initialized
                  THEN [status |-> "called", op |-> op, key |-> k, value |-> v,
                        result |-> "none"]
                  ELSE [Idle EXCEPT !.status = "returned", !.result = "failed"]
  <2>1. c.op = "set" => c.value \in Values
    <3>1. [Idle EXCEPT !.status = "returned", !.result = "failed"].op = "get"
      BY DEF Idle
    <3> QED BY <1>10, <3>1
  <2>2. call' = [call EXCEPT ![t] = c]
    BY <1>10 DEF Call
  <2> HIDE DEF c
  <2> QED BY <1>3, <2>1, <2>2
<1>11. ASSUME NEW t \in Threads, NEW k \in Keys,
              Get(t, k) \/ (\E v \in Values : Set(t, k, v))
       PROVE  SetsAValue'
  BY <1>10, <1>11 DEF Get, Set
<1>12. CASE UNCHANGED configVars
  BY <1>2, <1>12 DEF configVars
<1> QED BY <1>2, <1>5, <1>6, <1>7, <1>8, <1>9, <1>11, <1>12 DEF Next, ThreadStep

\* Every step keeps the invariant.
LEMMA IInvStep == IInv /\ [Next]_configVars => IInv'
<1> SUFFICES ASSUME IInv, [Next]_configVars
             PROVE  DocInv'
  BY LockInvStep, SetsAValueStep DEF IInv
<1>1. CASE InitConfig
  BY <1>1, OutsideDoc DEF InitConfig
<1>2. CASE Crash
  BY <1>2, CrashDoc
<1>3. ASSUME NEW t \in Threads, Acquire(t)
      PROVE  DocInv'
  <2>1. at = "idle"
    BY <1>3 DEF Acquire, IInv, LockInv, MutexHeld
  <2> QED BY <1>3, <2>1, OutsideDoc DEF Acquire
<1>4. CASE UseTree
  BY <1>4, UseTreeDoc
<1>5. CASE Finish
  BY <1>5, FinishDoc
<1>6. CASE DocumentStep
  BY <1>6, TruncateDoc, WriteDoc, ValidateDoc, StatDoc, LoadDoc, RenameDoc, RemoveDoc,
     ReloadDoc, ReadTimeDoc DEF DocumentStep
<1>7. ASSUME NEW t \in Threads, NEW k \in Keys,
             Get(t, k) \/ (\E v \in Values : Set(t, k, v))
      PROVE  DocInv'
  BY <1>7, OutsideDoc DEF Get, Set, Call
<1>8. CASE World
  BY <1>8, WorldDoc
<1>9. CASE UNCHANGED configVars
  BY <1>9, OutsideDoc DEF configVars
<1> QED BY <1>1, <1>2, <1>3, <1>4, <1>5, <1>6, <1>7, <1>8, <1>9 DEF Next, ThreadStep

\* At first nothing has been loaded.
LEMMA IInvInit == Init => IInv
<1> SUFFICES ASSUME Init PROVE IInv
  OBVIOUS
<1>1. LockInv
  BY LockInvInit
<1>2. SetsAValue
  BY DEF Init, SetsAValue, Idle
<1>3. /\ clock = 0 /\ lastWrite = Bad /\ at = "idle" /\ saver = "none" /\ spoilt = FALSE
      /\ unread = Missing /\ bak = Missing
  BY DEF Init, DocumentInit
<1>4. file.mtime = 0
  <2>1. 0 \in 0..MaxClock
    BY FileTypes
  <2> QED BY <2>1, FileTypes, TreeTypes DEF Init, DocumentInit
<1>5. TimesInv
  BY <1>3, <1>4 DEF TimesInv, Newer
<1>6. CurrentInv /\ LoadInv /\ SpoiltInv /\ MatchInv /\ UnreadInv
  BY <1>3, FileTypes DEF CurrentInv, LoadInv, SpoiltInv, MatchInv, UnreadInv
<1> QED BY <1>1, <1>2, <1>5, <1>6 DEF IInv, DocInv

\* The cached tree is current when it is used: it is what the file stood for when the
\* call looked at it, with the sets over it that could not be saved.
THEOREM TreeIsCurrent == Spec => []RefreshedIsCurrent
<1>1. IInv => RefreshedIsCurrent
  BY DEF IInv, DocInv, CurrentInv, Current, RefreshedIsCurrent
<1> QED BY IInvInit, IInvStep, <1>1, PTL DEF Spec

\* Between calls the file holds the tree in memory but for the sets that failed.
THEOREM FileHoldsTree == Spec => []FileMatchesTree
<1>1. IInv => FileMatchesTree
  BY DEF IInv, DocInv, MatchInv, Matches, FileMatchesTree
<1> QED BY IInvInit, IInvStep, <1>1, PTL DEF Spec

\* A file that could not be read, and could be renamed, is in its place or in the .bak file.
THEOREM UnreadIsKept == Spec => []UnreadIsBackedUp
<1>1. IInv => UnreadIsBackedUp
  BY DEF IInv, DocInv, UnreadInv, UnreadIsBackedUp
<1> QED BY IInvInit, IInvStep, <1>1, PTL DEF Spec

\* A step that finishes a write is a write, and what it writes for a set is the tree, for
\* anything else what the file stood for.
LEMMA WritesStep ==
  ASSUME IInv, [Next]_configVars, at = "write",
         at' \in {AfterSave[s] : s \in DOMAIN AfterSave}, ~blind
  PROVE  file'.tree = IF saver = "set" THEN Over(unsaved, Settings(base)) ELSE Settings(base)
<1>1. DocTypes /\ SaverInv /\ DocInv
  BY InvFacts
<1>2. at' \in {"stat", "reload", "mergestat", "setstat"}
  BY AfterSaveIs
<1>3. Write
  <2>1. lock # NoThread
    BY DEF IInv, LockInv, MutexHeld
  <2>2. ~InitConfig /\ ~Crash /\ ~World /\ ~UNCHANGED configVars
    BY <1>2, <2>1 DEF InitConfig, Crash, World, Tick, Edit, Garble, Delete, Foreign, configVars
  <2>3. ASSUME NEW t \in Threads PROVE ~Acquire(t)
    BY <2>1 DEF Acquire
  <2>4. ~UseTree /\ ~Finish
    BY DEF UseTree, Finish
  <2>5. ASSUME NEW t \in Threads, NEW op, NEW k, NEW v PROVE ~Call(t, op, k, v)
    BY <1>2 DEF Call
  <2>6. DocumentStep
    BY <2>2, <2>3, <2>4, <2>5 DEF Next, ThreadStep, Get, Set
  <2> QED BY <2>6 DEF DocumentStep, Truncate, Validate, Stat, Load, Rename, Remove, Reload,
                      ReadTime
<1>4. file'.tree = WrittenTree /\ saver \in {"validate", "revalidate", "merge", "set"}
  <2>1. file' = Holds(WrittenTree, clock)
    BY <1>2, <1>3 DEF Write, Fail
  <2>2. WrittenTree \in Trees /\ clock \in 0..MaxClock
    BY <1>1, TreeTypes DEF WrittenTree, DocTypes
  <2>3. saver \in {"validate", "revalidate", "merge", "set"}
    BY <1>1 DEF DocTypes, SaverInv, Savers
  <2> QED BY <2>1, <2>2, <2>3, FileTypes
<1>5. CASE saver = "set"
  BY <1>1, <1>4, <1>5 DEF DocInv, CurrentInv, Current, WrittenTree
<1>6. CASE saver = "merge"
  <2>1. Current /\ unsaved = Empty
    BY <1>1, <1>6 DEF DocInv, CurrentInv, LoadInv
  <2>2. Over(Empty, Settings(base)) = Settings(base)
    BY <1>1, OverEmpty, FileFields DEF DocTypes
  <2> QED BY <1>4, <1>6, <2>1, <2>2 DEF Current, WrittenTree
<1>7. CASE saver = "validate"
  BY <1>1, <1>4, <1>7 DEF DocInv, LoadInv, WrittenTree
<1>8. CASE saver = "revalidate"
  <2>1. Settings(base) = Template
    BY <1>1, <1>8, FileTypes DEF DocInv, LoadInv, Settings
  <2> QED BY <1>4, <1>8, <2>1 DEF WrittenTree
<1> QED BY <1>4, <1>5, <1>6, <1>7, <1>8

\* Whatever Config writes, it only adds what it was asked to.
THEOREM OnlyWhatWasSet == Spec => WritesOnlyWhatWasSet
<1>1. IInv /\ [Next]_configVars =>
        [at = "write" /\ at' \in {AfterSave[s] : s \in DOMAIN AfterSave} /\ ~blind =>
           file'.tree = IF saver = "set" THEN Over(unsaved, Settings(base))
                                         ELSE Settings(base)]_configVars
  BY WritesStep
<1> QED BY IInvInit, IInvStep, <1>1, PTL DEF Spec, WritesOnlyWhatWasSet


-----------------------------------------------------------------------------
(* Without faults: Config implements SettingsStore.                         *)

\* In a step of Document that has no fault, the file and the tree stay the same but for
\* what the call does to them, and so do the settings that a reader would find.
LEMMA QuietDocument ==
  ASSUME Faults = {}, LockInv, QuietInv, DocumentStep
  PROVE  /\ QuietInv' /\ CurrentSettings' = CurrentSettings
         /\ (saver = "set" \/ at \in {"setstat", "saved"})
              <=> (saver' = "set" \/ at' \in {"setstat", "saved"})
<1>1. DocTypes /\ SaverInv
  BY TypeOKIs DEF LockInv
<1>2. file.tree \in Trees /\ file.state \in {"missing", "torn", "ok"} /\ clock \in 0..MaxClock
  BY <1>1, FileFields DEF DocTypes
<1>3. Import(Template) = Template /\ Settings(Missing) = Template
  BY ImportTemplate, FileTypes DEF Settings
<1>4. CASE Truncate
  <2>1. /\ at = "truncate" /\ at' = "write"
        /\ UNCHANGED <<doc, lastWrite, saver, blind, spoilt>>
    BY <1>4 DEF Truncate, Goto, docVars, ghosts
  <2>2. QuietInv'
    BY <1>1, <2>1 DEF QuietInv, SaverInv
  <2> QED BY <2>1, <2>2 DEF CurrentSettings, WrittenTree
<1>5. CASE Write
  <2>1. /\ at = "write" /\ file' = Holds(WrittenTree, clock) /\ saver' = "none"
        /\ at' = AfterSave[saver] /\ spoilt' = FALSE
        /\ UNCHANGED <<doc, lastWrite, blind>>
    BY <1>5 DEF Write, docVars
  <2>2. saver \in {"validate", "revalidate", "merge", "set"}
    BY <1>1, <2>1 DEF DocTypes, SaverInv, Savers
  <2>3. WrittenTree \in Trees
    BY <1>1, TreeTypes DEF WrittenTree, DocTypes
  <2>4. file'.state = "ok" /\ file'.tree = WrittenTree
    BY <1>2, <2>1, <2>3, FileTypes
  <2>5. Import(WrittenTree) = WrittenTree
    BY <1>3, <2>2 DEF QuietInv, WrittenTree
  <2>6. at' = CASE saver = "validate" -> "stat" [] saver = "revalidate" -> "reload"
                [] saver = "merge" -> "mergestat" [] saver = "set" -> "setstat"
    BY <2>1, <2>2, AfterSaveIs
  <2>7. QuietInv'
    BY <2>1, <2>2, <2>4, <2>5, <2>6 DEF QuietInv, WrittenTree
  <2>8. CurrentSettings = WrittenTree /\ CurrentSettings' = Settings(file')
    BY <2>1, <2>2, <2>6 DEF CurrentSettings
  <2>9. Settings(file') = WrittenTree
    BY <2>4, <2>5 DEF Settings
  <2> QED BY <2>1, <2>2, <2>6, <2>7, <2>8, <2>9
<1>6. CASE Validate
  <2>1. /\ at \in {"validate", "revalidate"} /\ saver = "none"
        /\ UNCHANGED <<file, doc, lastWrite, blind, spoilt>>
    BY <1>1, <1>6 DEF Validate, fileVars, docVars, ghosts, See, SaverInv
  <2>2. \/ file.state # "missing" /\ at = "validate" /\ at' = "stat" /\ saver' = "none"
        \/ file.state = "missing" /\ at' = "truncate" /\ saver' = at
    BY <1>6, <2>1, AfterSaveIs DEF Validate, Goto, SaveFor, QuietInv
  <2>3. QuietInv'
    BY <2>1, <2>2 DEF QuietInv
  <2>4. CurrentSettings' = CurrentSettings
    BY <2>1, <2>2 DEF CurrentSettings, WrittenTree, Settings
  <2> QED BY <2>1, <2>2, <2>3, <2>4
<1>7. CASE Stat
  <2>1. /\ at = "stat" /\ saver = "none" /\ file.state # "missing"
        /\ UNCHANGED <<file, doc, lastWrite, blind, spoilt, saver>>
    BY <1>1, <1>7 DEF Stat, fileVars, docVars, See, Goto, Fail, SaverInv, QuietInv
  <2>2. \/ at' = "load" /\ (lastWrite = Bad \/ file.mtime > lastWrite)
        \/ at' = "refreshed" /\ lastWrite # Bad
    BY <1>7, <2>1 DEF Stat, Goto
  <2>3. QuietInv'
    BY <2>1, <2>2 DEF QuietInv
  <2>4. CurrentSettings' = CurrentSettings
    BY <2>1, <2>2 DEF CurrentSettings
  <2> QED BY <2>1, <2>2, <2>3, <2>4
<1>8. CASE Load
  <2>1. /\ at = "load" /\ saver = "none" /\ file.state # "missing"
        /\ lastWrite = Bad \/ file.mtime > lastWrite
        /\ UNCHANGED <<file, lastWrite>> /\ spoilt' = FALSE
        /\ blind' = (lastWrite # Bad /\ file.state # "missing" /\ file.mtime <= lastWrite)
    BY <1>1, <1>8 DEF Load, ForgetTree, fileVars, SaverInv, QuietInv
  <2>2. blind' = FALSE
    <3>1. file.mtime \in Int /\ lastWrite \in Int
      BY <1>1, ClockAssumption, FileFields DEF DocTypes
    <3>2. ~(lastWrite # Bad /\ file.state # "missing" /\ file.mtime <= lastWrite)
      BY <2>1, <3>1
    <3> QED BY <2>1, <3>2
  <2>3. Import(Import(file.tree)) = Import(file.tree)
    BY <1>2, ImportTwice
  <2>4. \/ /\ file.state = "ok" /\ doc' = Import(file.tree)
           /\ \/ at' = "truncate" /\ saver' = "merge"
              \/ at' = "loadstat" /\ saver' = "none" /\ doc' = file.tree
        \/ file.state = "torn" /\ at' = "rename" /\ saver' = "none"
    BY <1>2, <1>8, <2>1 DEF Load, Goto, SaveFor
  <2>5. QuietInv'
    BY <2>1, <2>3, <2>4, <2>2 DEF QuietInv
  <2>6. CurrentSettings' = CurrentSettings
    BY <2>1, <2>4 DEF CurrentSettings, WrittenTree, Settings
  <2> QED BY <2>1, <2>4, <2>5, <2>6
<1>9. CASE Rename
  <2>1. /\ at = "rename" /\ saver = "none" /\ file.state = "torn"
        /\ UNCHANGED <<doc, lastWrite, blind, spoilt, saver>>
        /\ file' = Missing /\ at' = "revalidate"
    BY <1>1, <1>9 DEF Rename, docVars, Goto, SaverInv, QuietInv
  <2>2. QuietInv'
    BY <2>1, FileTypes DEF QuietInv
  <2>3. CurrentSettings = Settings(file) /\ CurrentSettings' = Settings(file')
    BY <2>1 DEF CurrentSettings
  <2>4. Settings(file) = Template /\ Settings(file') = Template
    BY <1>3, <2>1 DEF Settings
  <2> QED BY <2>1, <2>2, <2>3, <2>4
<1>10. CASE Remove
  BY <1>10 DEF Remove, QuietInv
<1>11. CASE Reload
  <2>1. /\ at = "reload" /\ saver = "none"
        /\ UNCHANGED <<file, lastWrite, blind, spoilt, saver>>
        /\ at' = "loadstat" /\ doc' = file.tree /\ file.state = "ok" /\ file.tree = Template
    BY <1>1, <1>11 DEF Reload, fileVars, ghosts, Goto, SaverInv, QuietInv
  <2>2. QuietInv'
    BY <1>3, <2>1 DEF QuietInv
  <2>3. CurrentSettings' = CurrentSettings
    BY <2>1 DEF CurrentSettings
  <2> QED BY <2>1, <2>2, <2>3
<1>12. CASE ReadTime
  <2>1. /\ at \in {"mergestat", "loadstat", "setstat"} /\ saver = "none"
        /\ UNCHANGED <<file, doc, blind, spoilt, saver>> /\ file.state = "ok"
    BY <1>1, <1>12 DEF ReadTime, fileVars, ghosts, Goto, Fail, SaverInv, QuietInv
  <2>2. \/ at = "mergestat" /\ at' = "loadstat"
        \/ at = "loadstat" /\ at' = "refreshed"
        \/ at = "setstat" /\ at' = "saved"
    BY <1>12, <2>1 DEF ReadTime, Goto
  <2>3. QuietInv'
    BY <2>1, <2>2 DEF QuietInv
  <2>4. CurrentSettings' = CurrentSettings
    BY <2>1, <2>2 DEF CurrentSettings
  <2> QED BY <2>1, <2>2, <2>3, <2>4
<1> QED BY <1>4, <1>5, <1>6, <1>7, <1>8, <1>9, <1>10, <1>11, <1>12 DEF DocumentStep


\* A step that changes the call of one thread, and, if that is the one inside, where it
\* is, changes that call alone as the store shows it.
LEMMA OneCallShown ==
  ASSUME LockInv, NEW t \in Threads, call' \in [Threads -> Calls],
         \A s \in Threads \ {t} : call'[s] = call[s],
         lock = t \/ UNCHANGED <<at, saver>>,
         NEW x, CurrentCalls'[t] = x
  PROVE  CurrentCalls' = [CurrentCalls EXCEPT ![t] = x]
<1>1. /\ CurrentCalls = [s \in Threads |-> CurrentCalls[s]]
      /\ CurrentCalls' = [s \in Threads |-> CurrentCalls'[s]]
  BY DEF CurrentCalls
<1>2. ASSUME NEW s \in Threads, s # t
      PROVE  CurrentCalls'[s] = CurrentCalls[s]
  <2>1. call'[s] = call[s]
    BY <1>2
  <2>2. CASE lock = t
    <3>1. call[s].status # "running"
      BY <1>2, <2>2 DEF LockInv, MutexHeld
    <3> QED BY <2>1, <3>1 DEF CurrentCalls
  <2>3. CASE UNCHANGED <<at, saver>>
    BY <2>1, <2>3 DEF CurrentCalls
  <2> QED BY <2>2, <2>3
<1> HIDE DEF CurrentCalls
<1> QED BY <1>1, <1>2

\* A call returns: as the store shows it, too.
LEMMA ReturnShown ==
  ASSUME LockInv, lock \in Threads, NEW r \in Results, Return(r)
  PROVE  CurrentCalls' = [CurrentCalls EXCEPT ![lock] =
                            [Idle EXCEPT !.status = "returned", !.result = r]]
<1>1. PICK t \in Threads : t = lock
  OBVIOUS
<1>2. call \in [Threads -> Calls]
  BY DEF LockInv, TypeOK
<1> DEFINE c == [Idle EXCEPT !.status = "returned", !.result = r]
<1>3. c \in Calls /\ c.status = "returned"
  BY IdleType DEF Calls
<1>4. call' = [call EXCEPT ![t] = c]
  BY <1>1 DEF Return
<1> HIDE DEF c
<1>5. CurrentCalls'[t] = c
  BY <1>2, <1>3, <1>4 DEF CurrentCalls
<1>6. call' \in [Threads -> Calls] /\ \A s \in Threads \ {t} : call'[s] = call[s]
  BY <1>2, <1>3, <1>4
<1>7. CurrentCalls' = [CurrentCalls EXCEPT ![t] = c]
  BY <1>1, <1>5, <1>6, OneCallShown
<1> QED BY <1>1, <1>7 DEF c

\* A get is a read of the store, a set a write.
LEMMA UseTreeStore ==
  ASSUME LockInv, SetsAValue, QuietInv, UseTree
  PROVE  QuietInv' /\ \E t \in Threads : Store!Read(t) \/ Store!Write(t)
<1>1. at = "refreshed" /\ lock \in Threads /\ saver = "none"
  BY DEF UseTree, LockInv, MutexHeld, SaverInv, TypeOK
<1>2. PICK t \in Threads : t = lock
  BY <1>1
<1>3. /\ call \in [Threads -> Calls] /\ call[t] \in Calls /\ call[t].status = "running"
      /\ doc \in Trees
  BY <1>2 DEF LockInv, MutexHeld, TypeOK
<1>4. file.state = "ok" /\ doc = file.tree /\ Import(doc) = doc /\ ~blind /\ ~spoilt
  BY <1>1 DEF QuietInv
<1>5. UNCHANGED <<file, bak, clock, lastWrite, initialized>>
  BY DEF UseTree, fileVars
<1>6. CurrentSettings = doc
  BY <1>1, <1>4 DEF CurrentSettings, Settings
<1>7. /\ CurrentCalls[t] = [call[t] EXCEPT !.status = "called"]
      /\ CurrentCalls \in [Threads -> [status : {"idle", "called", "returned", "done"},
                                       op : {"get", "set"}, key : Keys,
                                       value : Values \cup {Absent}, result : Results]]
  BY <1>1, <1>3 DEF CurrentCalls, Calls
<1>8. /\ CurrentCalls[t].status = "called" /\ CurrentCalls[t].op = call[t].op
      /\ CurrentCalls[t].key = call[t].key /\ CurrentCalls[t].value = call[t].value
  BY <1>3, <1>7 DEF Calls
<1>9. CASE /\ call[t].op = "get"
           /\ Return(IF doc[call[t].key] = Absent THEN "failed" ELSE doc[call[t].key])
           /\ Unsee /\ UNCHANGED doc
  <2> DEFINE r == IF doc[call[t].key] = Absent THEN "failed" ELSE doc[call[t].key]
  <2>1. r \in Results
    BY <1>3 DEF Trees, Calls, Results
  <2>2. Return(r)
    BY <1>9
  <2>3. at' = "idle" /\ saver' = "none" /\ UNCHANGED <<doc, blind, spoilt>>
    BY <1>9 DEF Return, Unsee
  <2>4. CurrentSettings' = CurrentSettings
    BY <1>1, <1>5, <2>3 DEF CurrentSettings
  <2>5. QuietInv'
    BY <1>4, <1>5, <2>3 DEF QuietInv
  <2>6. CurrentCalls' = [CurrentCalls EXCEPT ![t] =
                           [Idle EXCEPT !.status = "returned", !.result = r]]
    <3> HIDE DEF r
    <3> QED BY <1>1, <1>2, <2>1, <2>2, ReturnShown
  <2>7. r = IF CurrentSettings[CurrentCalls[t].key] = Absent
            THEN "failed" ELSE CurrentSettings[CurrentCalls[t].key]
    BY <1>6, <1>8
  <2> HIDE DEF r
  <2>8. Store!Answer(t, r)
    BY <2>6 DEF Store!Answer, Store!Idle, Idle
  <2>9. Store!Read(t)
    BY <1>5, <1>8, <1>9, <2>4, <2>7, <2>8 DEF Store!Read
  <2> QED BY <2>5, <2>9
<1>10. CASE /\ call[t].op = "set"
            /\ doc' = [doc EXCEPT ![call[t].key] = call[t].value]
            /\ SaveFor("set")
            /\ UNCHANGED <<lock, call, base, blind, spoilt, unread, refused>>
  <2>1. at' = "truncate" /\ saver' = "set" /\ UNCHANGED <<blind, spoilt, call, lock>>
    BY <1>10 DEF SaveFor
  <2>2. PICK k \in Keys, v \in Values : k = call[t].key /\ v = call[t].value
    BY <1>3, <1>10 DEF SetsAValue, Calls
  <2>3. doc' = [doc EXCEPT ![k] = v]
    BY <1>10, <2>2
  <2>4. Import(doc') = doc'
    BY <1>3, <1>4, <2>3, ImportSet
  <2>5. QuietInv'
    BY <2>1, <2>4 DEF QuietInv
  <2>6. CurrentSettings' = doc'
    BY <2>1 DEF CurrentSettings, WrittenTree
  <2>7. CurrentCalls'[t] = [call[t] EXCEPT !.status = "done"]
    BY <1>3, <2>1 DEF CurrentCalls
  <2>8. [call[t] EXCEPT !.status = "done"] = [CurrentCalls[t] EXCEPT !.status = "done"]
    BY <1>3, <1>7 DEF Calls
  <2>9. CurrentCalls' = [CurrentCalls EXCEPT ![t] = [CurrentCalls[t] EXCEPT !.status = "done"]]
    <3>1. call' \in [Threads -> Calls] /\ \A s \in Threads \ {t} : call'[s] = call[s]
      BY <1>3, <2>1
    <3>2. PICK x : x = [CurrentCalls[t] EXCEPT !.status = "done"]
      OBVIOUS
    <3>3. CurrentCalls'[t] = x
      BY <2>7, <2>8, <3>2
    <3>4. CurrentCalls' = [CurrentCalls EXCEPT ![t] = x]
      BY <1>2, <3>1, <3>3, OneCallShown
    <3> QED BY <3>2, <3>4
  <2>10. CurrentSettings' = [CurrentSettings EXCEPT ![CurrentCalls[t].key] = CurrentCalls[t].value]
    BY <1>6, <1>8, <2>2, <2>3, <2>6
  <2>11. Store!Write(t)
    BY <1>5, <1>8, <1>10, <2>9, <2>10 DEF Store!Write
  <2> QED BY <2>5, <2>11
<1> QED BY <1>2, <1>9, <1>10 DEF UseTree

\* A set that is saved is confirmed.
LEMMA FinishStore ==
  ASSUME LockInv, QuietInv, Finish
  PROVE  QuietInv' /\ \E t \in Threads : Store!Confirm(t)
<1>1. at = "saved" /\ lock \in Threads /\ Return("saved") /\ Unsee
  BY DEF Finish, QuietInv, LockInv, MutexHeld, TypeOK
<1>2. PICK t \in Threads : t = lock
  BY <1>1
<1>3. call \in [Threads -> Calls] /\ call[t].status = "running"
  BY <1>2 DEF LockInv, MutexHeld, TypeOK
<1>4. /\ UNCHANGED <<file, doc, lastWrite, blind, spoilt, initialized>>
      /\ at' = "idle" /\ saver' = "none"
  BY <1>1 DEF Finish, Return, Unsee, fileVars, docVars
<1>5. QuietInv'
  BY <1>1, <1>4 DEF QuietInv
<1>6. CurrentCalls[t].status = "done"
  BY <1>1, <1>3 DEF CurrentCalls, Calls
<1>7. CurrentSettings' = CurrentSettings
  BY <1>1, <1>4 DEF CurrentSettings
<1>8. CurrentCalls' = [CurrentCalls EXCEPT ![t] =
                         [Idle EXCEPT !.status = "returned", !.result = "saved"]]
  <2>1. "saved" \in Results
    BY DEF Results
  <2> QED BY <1>1, <1>2, <2>1, ReturnShown
<1>9. Store!Answer(t, "saved")
  BY <1>8 DEF Store!Answer, Store!Idle, Idle
<1> QED BY <1>4, <1>5, <1>6, <1>7, <1>9 DEF Store!Confirm

\* A call that is made has begun.
LEMMA CallStore ==
  ASSUME LockInv, NEW t \in Threads, NEW op \in {"get", "set"}, NEW k \in Keys,
         NEW v \in Values \cup {Absent}, Call(t, op, k, v)
  PROVE  Store!Begin(t, op, k, v)
<1>1. call \in [Threads -> Calls] /\ call[t].status \in {"idle", "returned"}
  BY DEF Call, LockInv, TypeOK
<1>2. UNCHANGED <<file, doc, at, saver, initialized>>
  BY DEF Call, fileVars, docVars
<1>3. CurrentSettings' = CurrentSettings
  BY <1>2 DEF CurrentSettings, WrittenTree
<1>4. CurrentCalls[t].status \in {"idle", "returned"}
  BY <1>1 DEF CurrentCalls
<1> DEFINE new == IF initialized
                  THEN [status |-> "called", op |-> op, key |-> k, value |-> v,
                        result |-> "none"]
                  ELSE [Idle EXCEPT !.status = "returned", !.result = "failed"]
<1>5. new \in Calls /\ new.status # "running"
  <2>1. "failed" \in Results
    BY DEF Results
  <2>2. [Idle EXCEPT !.status = "returned", !.result = "failed"] \in Calls
    BY <2>1, IdleType
  <2>3. [Idle EXCEPT !.status = "returned", !.result = "failed"].status = "returned"
    BY DEF Idle
  <2>4. [status |-> "called", op |-> op, key |-> k, value |-> v, result |-> "none"] \in Calls
    BY DEF Calls, Results
  <2> QED BY <2>2, <2>3, <2>4
<1>6. call' = [call EXCEPT ![t] = new]
  BY DEF Call
<1>7. CurrentCalls' = [CurrentCalls EXCEPT ![t] = new]
  <2> HIDE DEF new
  <2>1. CurrentCalls'[t] = new
    BY <1>1, <1>5, <1>6 DEF CurrentCalls
  <2>2. call' \in [Threads -> Calls] /\ \A s \in Threads \ {t} : call'[s] = call[s]
    BY <1>1, <1>5, <1>6
  <2> QED BY <1>2, <2>1, <2>2, OneCallShown
<1>8. CASE initialized
  BY <1>2, <1>3, <1>4, <1>7, <1>8 DEF Store!Begin
<1>9. CASE ~initialized
  <2>1. Store!Answer(t, "failed")
    BY <1>7, <1>9 DEF Store!Answer, Store!Idle, Idle
  <2> QED BY <1>2, <1>3, <1>4, <1>9, <2>1 DEF Store!Begin
<1> QED BY <1>8, <1>9

\* The store does not show which thread has the mutex.
LEMMA AcquireStore ==
  ASSUME LockInv, QuietInv, NEW t \in Threads, Acquire(t)
  PROVE  QuietInv' /\ UNCHANGED <<initialized, CurrentSettings, CurrentCalls>>
<1>1. call \in [Threads -> Calls] /\ call[t].status = "called" /\ lock = NoThread
  BY DEF Acquire, LockInv, TypeOK
<1>2. at = "idle" /\ saver = "none"
  BY <1>1 DEF LockInv, MutexHeld, SaverInv
<1>3. /\ at' = "validate" /\ call' = [call EXCEPT ![t].status = "running"]
      /\ UNCHANGED <<file, doc, lastWrite, saver, blind, spoilt, initialized>>
  BY DEF Acquire, fileVars, docVars, ghosts
<1>4. QuietInv'
  BY <1>2, <1>3 DEF QuietInv
<1>5. CurrentSettings' = CurrentSettings
  BY <1>2, <1>3 DEF CurrentSettings
<1>6. ASSUME NEW s \in Threads
      PROVE  CurrentCalls'[s] = CurrentCalls[s]
  <2>1. CASE s = t
    <3>1. call'[t] = [call[t] EXCEPT !.status = "running"]
      BY <1>1, <1>3
    <3>2. CurrentCalls'[t] = [call'[t] EXCEPT !.status = "called"]
      BY <1>1, <1>2, <1>3, <3>1 DEF CurrentCalls, Calls
    <3>3. CurrentCalls[t] = call[t]
      BY <1>1 DEF CurrentCalls
    <3>4. [[call[t] EXCEPT !.status = "running"] EXCEPT !.status = "called"] = call[t]
      BY <1>1 DEF Calls
    <3> QED BY <2>1, <3>1, <3>2, <3>3, <3>4
  <2>2. CASE s # t
    <3>1. call'[s] = call[s] /\ call[s].status # "running"
      BY <1>1, <1>3, <2>2, NoThreadAssumption DEF LockInv, MutexHeld
    <3> QED BY <3>1 DEF CurrentCalls
  <2> QED BY <2>1, <2>2
<1>7. CurrentCalls' = CurrentCalls
  <2>1. /\ CurrentCalls = [s \in Threads |-> CurrentCalls[s]]
        /\ CurrentCalls' = [s \in Threads |-> CurrentCalls'[s]]
    BY DEF CurrentCalls
  <2> HIDE DEF CurrentCalls
  <2> QED BY <1>6, <2>1
<1> QED BY <1>3, <1>4, <1>5, <1>7

\* Each step is one of the store, or none.
LEMMA StoreStep ==
  ASSUME Faults = {}, LockInv, SetsAValue, QuietInv, [Next]_configVars
  PROVE  /\ QuietInv'
         /\ [Store!Next]_<<initialized, CurrentSettings, CurrentCalls>>
<1>1. ASSUME UNCHANGED <<file, doc, lastWrite, at, saver, blind, spoilt>>
      PROVE  QuietInv' /\ CurrentSettings' = CurrentSettings
  BY <1>1 DEF QuietInv, CurrentSettings, WrittenTree
<1>2. ASSUME UNCHANGED <<file, doc, lastWrite, at, saver, blind, spoilt, call>>
      PROVE  QuietInv' /\ UNCHANGED <<CurrentSettings, CurrentCalls>>
  BY <1>1, <1>2 DEF CurrentCalls
<1>3. CASE InitConfig
  <2>1. UNCHANGED <<file, doc, lastWrite, at, saver, blind, spoilt, call>>
    BY <1>3 DEF InitConfig, fileVars, docVars, ghosts
  <2>2. Store!Open
    BY <1>2, <1>3, <2>1 DEF InitConfig, Store!Open
  <2> QED BY <1>2, <2>1, <2>2 DEF Store!Next
<1>4. CASE Crash
  BY <1>4 DEF Crash
<1>5. ASSUME NEW t \in Threads, Acquire(t)
      PROVE  QuietInv' /\ UNCHANGED <<initialized, CurrentSettings, CurrentCalls>>
  BY <1>5, AcquireStore
<1>6. CASE UseTree
  BY <1>6, UseTreeStore DEF Store!Next
<1>7. CASE Finish
  BY <1>7, FinishStore DEF Store!Next
<1>8. CASE DocumentStep /\ UNCHANGED <<initialized, lock, call>>
  <2>1. /\ QuietInv' /\ CurrentSettings' = CurrentSettings
        /\ (saver = "set" \/ at \in {"setstat", "saved"})
              <=> (saver' = "set" \/ at' \in {"setstat", "saved"})
    BY <1>8, QuietDocument
  <2>2. CurrentCalls' = CurrentCalls
    BY <1>8, <2>1 DEF CurrentCalls
  <2> QED BY <1>8, <2>1, <2>2
<1>9. ASSUME NEW t \in Threads, NEW k \in Keys,
             Get(t, k) \/ (\E v \in Values : Set(t, k, v))
      PROVE  QuietInv' /\ Store!Next
  <2>1. QuietInv'
    BY <1>1, <1>9 DEF Get, Set, Call, fileVars, docVars, ghosts
  <2>2. Store!Begin(t, "get", k, Absent) \/ \E v \in Values : Store!Begin(t, "set", k, v)
    BY <1>9, CallStore DEF Get, Set
  <2> QED BY <2>1, <2>2 DEF Store!Next
<1>10. CASE World /\ UNCHANGED <<initialized, lock, call>>
  <2>1. Tick
    BY <1>10 DEF World, Edit, Garble, Delete
  <2>2. UNCHANGED <<file, doc, lastWrite, at, saver, blind, spoilt, call, initialized>>
    BY <1>10, <2>1 DEF Tick, docVars, ghosts
  <2> QED BY <1>2, <2>2
<1>11. CASE UNCHANGED configVars
  <2>1. UNCHANGED <<file, doc, lastWrite, at, saver, blind, spoilt, call, initialized>>
    BY <1>11 DEF configVars, fileVars, docVars, ghosts
  <2> QED BY <1>2, <2>1
<1> QED BY <1>3, <1>4, <1>5, <1>6, <1>7, <1>8, <1>9, <1>10, <1>11 DEF Next, ThreadStep

\* While nobody else changes the file and nothing fails, Config implements SettingsStore:
\* its calls are linearizable, whatever the file held at the start.
THEOREM CallsLinearizable ==
  ASSUME Faults = {}
  PROVE  Spec => ImplementsStore
<1>1. Init => LockInv /\ SetsAValue /\ QuietInv /\ Store!Init
  <2> SUFFICES ASSUME Init
               PROVE  LockInv /\ SetsAValue /\ QuietInv /\ Store!Init
    OBVIOUS
  <2>1. LockInv /\ SetsAValue
    BY IInvInit DEF IInv
  <2>2. QuietInv
    BY DEF Init, DocumentInit, QuietInv
  <2>3. CurrentSettings \in Trees
    <3>1. at = "idle" /\ file \in File
      BY <2>1 DEF Init, DocumentInit, LockInv, TypeOK
    <3> QED BY <3>1, FileFields DEF CurrentSettings
  <2>4. CurrentCalls = [t \in Threads |-> Idle]
    BY DEF Init, CurrentCalls, Idle
  <2>5. Store!Init
    BY <2>3, <2>4 DEF Init, Store!Init, Store!Idle, Idle, Trees
  <2> QED BY <2>1, <2>2, <2>5
<1>2. LockInv /\ SetsAValue /\ QuietInv /\ [Next]_configVars
        => /\ (LockInv /\ SetsAValue /\ QuietInv)'
           /\ [Store!Next]_<<initialized, CurrentSettings, CurrentCalls>>
  BY LockInvStep, SetsAValueStep, StoreStep
<1> QED BY <1>1, <1>2, PTL DEF Spec, ImplementsStore, Store!Spec, Store!storeVars

=============================================================================
