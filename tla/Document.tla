------------------------------ MODULE Document ------------------------------
(* config::Document: the settings as a property tree in memory (_doc), the  *)
(* XML file they are kept in, and the modification time that tells whether  *)
(* the file changed since it was last read or written (_last_write_time).   *)
(*                                                                          *)
(* Every access to the file is a step of its own, because other programs    *)
(* may change the file between two of them.  `at` is where the calling      *)
(* thread is in Document's code; a label names the step it is about to      *)
(* take.  The caller (module Config) holds the lock all the while.          *)
(*                                                                          *)
(* A tree is a function from the paths of the settings to their values; a   *)
(* file is missing, torn (it cannot be parsed) or holds a tree.             *)
EXTENDS Integers

CONSTANTS
  Keys,      \* paths of settings
  Values,    \* values of settings
  Absent,    \* stands for "this node is not in the tree"
  Template,  \* the tree of create_xml(): the defaults, Absent where there is none
  Edits,     \* bound: the trees other programs write into the file
  MaxClock,  \* bound: the clock of the file system, in seconds
  Faults     \* what may go wrong besides

ASSUME KeysAssumption == Keys # {}
ASSUME AbsentAssumption == Absent \notin Values
ASSUME TemplateAssumption == Template \in [Keys -> Values \cup {Absent}]
ASSUME EditsAssumption == Edits \subseteq [Keys -> Values \cup {Absent}]
ASSUME ClockAssumption == MaxClock \in Nat
ASSUME FileFaultsAssumption ==
  Faults \subseteq {"edit",    \* another program replaces the file
                    "garble",  \* ... by something that is not XML
                    "delete",  \* ... or deletes it
                    "busy",    \* opening the file for reading fails for a moment
                    "denied",  \* creating, renaming or removing a file fails
                    "full",    \* writing fails half way
                    "status",  \* asking for the file's existence or time fails
                    "crash"}   \* the process dies

VARIABLES
  file,       \* the file, as the file system has it
  bak,        \* the file with the extension .bak
  clock,      \* what the file system stamps a write with
  doc,        \* _doc
  lastWrite,  \* _last_write_time
  at,         \* the next step of the thread inside Document
  saver,      \* why it is writing the file, when it is
  base,       \* history: the file as this call found it, Missing if unreadable
  blind,      \* history: the file changed in a way the times cannot show
  spoilt,     \* history: ... because our own save failed after emptying it
  unsaved,    \* history: sets that are in the tree and not yet in the file
  unread,     \* history: the last file that could not be loaded
  refused     \* history: ... and that could not be renamed either

fileVars == <<file, bak, clock>>
docVars  == <<doc, lastWrite>>
ghosts   == <<base, blind, spoilt, unsaved, unread, refused>>

Trees == [Keys -> Values \cup {Absent}]
Empty == [k \in Keys |-> Absent]
Bad   == -1  \* BadTimeType::value

File == [state : {"missing", "torn", "ok"}, tree : Trees, mtime : 0..MaxClock]
Missing      == [state |-> "missing", tree |-> Empty, mtime |-> 0]
Torn(t)      == [state |-> "torn",    tree |-> Empty, mtime |-> t]
Holds(c, t)  == [state |-> "ok",      tree |-> c,     mtime |-> t]

\* One tree laid over another.
Over(top, bottom) == [k \in Keys |-> IF top[k] = Absent THEN bottom[k] ELSE top[k]]

\* import_child_nodes: what the tree lacks is taken from the template.
Import(c) == Over(c, Template)

\* The settings a file stands for: the defaults when it is missing or torn.
Settings(f) == IF f.state = "ok" THEN Import(f.tree) ELSE Template

Savers == {"none", "validate", "revalidate", "merge", "set"}
Labels == {"idle", "validate", "stat", "load", "rename", "remove", "revalidate",
           "reload", "truncate", "write", "mergestat", "loadstat", "refreshed",
           "setstat", "failed", "saved"}

DocumentInit ==
  /\ clock = 0
  /\ file \in {Missing, Torn(0)} \cup {Holds(c, 0) : c \in Edits}
  /\ bak = Missing
  /\ doc = Empty /\ lastWrite = Bad
  /\ at = "idle" /\ saver = "none"
  /\ base = Missing /\ blind = FALSE /\ spoilt = FALSE
  /\ unsaved = Empty /\ unread = Missing /\ refused = FALSE

Goto(label) == at' = label /\ UNCHANGED saver
Fail        == at' = "failed" /\ UNCHANGED saver
SaveFor(s)  == at' = "truncate" /\ saver' = s

\* History: the call looks at the file.
See == /\ base' = IF spoilt THEN base ELSE file
       /\ UNCHANGED <<blind, spoilt, unsaved, unread, refused>>

\* History: the call is over.
Unsee == /\ base' = IF spoilt THEN base ELSE Missing
         /\ UNCHANGED <<blind, spoilt, unsaved, unread, refused>>

-----------------------------------------------------------------------------
(* save_to: opening the file for writing empties it, then it is written.    *)
(* What a crash or a full disk leaves is an empty file, which parses as the *)
(* empty tree, or a torn one.                                               *)

\* Mutant: every save writes the defaults.
WrittenDefaults == Template

WrittenTree == IF saver \in {"validate", "revalidate"} THEN Template ELSE doc

AfterSave == [validate |-> "stat", revalidate |-> "reload",
              merge |-> "mergestat", set |-> "setstat"]

Truncate ==
  /\ at = "truncate"
  /\ \/ /\ file' \in {Torn(clock), Holds(Empty, clock)}
        /\ Goto("write")
     \/ "denied" \in Faults /\ Fail /\ UNCHANGED file
  /\ UNCHANGED <<bak, clock, docVars, ghosts>>

Write ==
  /\ at = "write"
  /\ \/ /\ file' = Holds(WrittenTree, clock)
        /\ at' = AfterSave[saver] /\ saver' = "none"
        /\ spoilt' = FALSE
        /\ unsaved' = IF saver = "set" THEN Empty ELSE unsaved
     \/ /\ "full" \in Faults /\ Fail
        /\ spoilt' = (spoilt \/ file.mtime <= lastWrite)
        /\ UNCHANGED <<file, unsaved>>
  /\ UNCHANGED <<bak, clock, docVars, base, blind, unread, refused>>

-----------------------------------------------------------------------------
(* refresh, load and the steps they consist of.                             *)

\* validate_file, called by refresh and again by load after a failed parse: a
\* missing file is created from the template.  exists() may throw.
Validate ==
  /\ at \in {"validate", "revalidate"}
  /\ \/ /\ file.state # "missing"
        /\ Goto(AfterSave[at])
     \/ /\ file.state = "missing"
        /\ SaveFor(at)
     \/ /\ \/ file.state = "missing" /\ "denied" \in Faults
           \/ "status" \in Faults
        /\ Fail
  /\ IF at = "validate" THEN See ELSE UNCHANGED ghosts
  /\ UNCHANGED <<fileVars, docVars>>

\* Mutant: the file is read once and never again.
StatOnce ==
  /\ at = "stat"
  /\ Goto(IF lastWrite = Bad THEN "load" ELSE "refreshed")
  /\ See
  /\ UNCHANGED <<fileVars, docVars>>

\* refresh reads the modification time and loads the file if it is newer than
\* the last one it knows, or if it knows none.
Stat ==
  /\ at = "stat"
  /\ \/ file.state = "missing" /\ Fail
     \/ /\ file.state # "missing"
        /\ Goto(IF lastWrite = Bad \/ file.mtime > lastWrite THEN "load" ELSE "refreshed")
     \/ "status" \in Faults /\ Fail
  /\ See
  /\ UNCHANGED <<fileVars, docVars>>

\* History: what the tree held before is gone, and the file is seen anew.  A file
\* that is older than the time known - it was replaced since the time was looked
\* at - is one that the times do not show until they are read again.
ForgetTree ==
  /\ blind' = (lastWrite # Bad /\ file.state # "missing" /\ file.mtime <= lastWrite)
  /\ spoilt' = FALSE /\ unsaved' = Empty

\* History: a file that can be read after all, or that somebody else replaces, is
\* not one that Config has to keep.
NoLongerUnread == unread' = IF unread = file THEN Missing ELSE unread

Loaded   == base' = file /\ NoLongerUnread /\ UNCHANGED refused
Unloaded == base' = Missing /\ unread' = file /\ refused' = FALSE

\* Mutant: what the template added is not saved.
LoadWithoutSave ==
  /\ at = "load"
  /\ IF file.state = "ok" THEN doc' = Import(file.tree) /\ Goto("loadstat") /\ Loaded
                          ELSE doc' = Empty /\ Goto("rename") /\ Unloaded
  /\ ForgetTree
  /\ UNCHANGED <<fileVars, lastWrite>>

\* load: load_from and, when it parsed, validate_document, which saves the tree
\* if the template had to add something.  Every failure to read counts as a
\* failure to parse.
Load ==
  /\ at = "load"
  /\ \/ /\ file.state = "ok"
        /\ doc' = Import(file.tree)
        /\ IF doc' # file.tree THEN SaveFor("merge") ELSE Goto("loadstat")
        /\ Loaded
     \/ /\ file.state # "ok" \/ "busy" \in Faults
        /\ doc' = Empty
        /\ Goto("rename")
        /\ Unloaded
  /\ ForgetTree
  /\ UNCHANGED <<fileVars, lastWrite>>

\* Mutant: it is removed at once.
RenameNever ==
  /\ at = "rename"
  /\ Goto("remove")
  /\ UNCHANGED <<fileVars, docVars, ghosts>>

\* A file that did not parse is renamed; if that fails it is removed.
Rename ==
  /\ at = "rename"
  /\ \/ /\ file.state # "missing"
        /\ bak' = file /\ file' = Missing
        /\ Goto("revalidate")
        /\ UNCHANGED refused
     \/ /\ file.state = "missing" \/ "denied" \in Faults
        /\ Goto("remove")
        /\ refused' = TRUE
        /\ UNCHANGED <<bak, file>>
  /\ UNCHANGED <<clock, docVars, base, blind, spoilt, unsaved, unread>>

Remove ==
  /\ at = "remove"
  /\ \/ /\ file' = Missing
        /\ Goto("revalidate")
     \/ /\ file.state # "missing" /\ "denied" \in Faults
        /\ Fail
        /\ UNCHANGED file
  /\ UNCHANGED <<bak, clock, docVars, ghosts>>

\* The second load_from; its tree is not completed from the template.
Reload ==
  /\ at = "reload"
  /\ \/ /\ file.state = "ok"
        /\ doc' = file.tree
        /\ Goto("loadstat")
     \/ /\ file.state # "ok" \/ "busy" \in Faults
        /\ doc' = Empty
        /\ Fail
  /\ UNCHANGED <<fileVars, lastWrite, ghosts>>

\* read_modification_time into _last_write_time, at the end of save and load: no
\* time is known until it has been read.
ReadTime ==
  /\ at \in {"mergestat", "loadstat", "setstat"}
  /\ \/ /\ file.state # "missing"
        /\ lastWrite' = file.mtime
        /\ Goto([mergestat |-> "loadstat", loadstat |-> "refreshed", setstat |-> "saved"][at])
     \/ /\ file.state = "missing" \/ "status" \in Faults
        /\ lastWrite' = Bad
        /\ Fail
  /\ UNCHANGED <<fileVars, doc, ghosts>>

DocumentStep ==
  Truncate \/ Write \/ Validate \/ Stat \/ Load \/ Rename \/ Remove \/ Reload \/ ReadTime

-----------------------------------------------------------------------------
(* The rest of the world: time passes, other programs change the file.      *)

Tick ==
  /\ clock < MaxClock
  /\ clock' = clock + 1
  /\ UNCHANGED <<file, bak, docVars, at, saver, ghosts>>

\* Between these steps the file is loaded or written and its time read: a change
\* that comes in here is taken for one's own.
TimeUnread == {"rename", "remove", "revalidate", "reload", "mergestat", "loadstat", "setstat"}

\* Another program puts f in the file's place, at the time t: the present second, or
\* an earlier one when it restores the time of what it copies.  The times do not
\* show the change unless t is later than the last known time.
Foreign(f, t) ==
  /\ file' = f
  /\ blind' = (blind \/ lastWrite >= t \/ at \in TimeUnread
                     \/ saver \in {"revalidate", "merge"})
  /\ spoilt' = FALSE
  /\ NoLongerUnread
  /\ UNCHANGED <<bak, clock, docVars, at, saver, base, unsaved, refused>>

Edit   == "edit" \in Faults /\ \E c \in Edits, t \in 0..clock : Foreign(Holds(c, t), t)
Garble == "garble" \in Faults /\ \E t \in 0..clock : Foreign(Torn(t), t)
\* An open file cannot be deleted.
Delete == "delete" \in Faults /\ at # "write" /\ Foreign(Missing, clock)

World == Tick \/ Edit \/ Garble \/ Delete

=============================================================================
