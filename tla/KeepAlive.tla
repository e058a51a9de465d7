------------------------------ MODULE KeepAlive ------------------------------
(* config::load_keep_alive_data: four settings are read in four calls of     *)
(* Config, between which other threads and programs may change them, and     *)
(* become the KeepAliveData that a socket is constructed with.  A get takes  *)
(* effect at one moment, as module Config shows (ImplementsStore).           *)
EXTENDS Integers, Sequences

CONSTANTS
  Stored,     \* bound: what the four settings are, together, at any moment
  Width,      \* the width of the integers: 32 in the program
  LoadFaults  \* what may go wrong while loading

Fields  == <<"enabled", "timeout", "count", "intverval">>  \* in the order they are read
Field   == {Fields[i] : i \in 1..4}
Modulus == 2 ^ Width
Half    == 2 ^ (Width - 1)
Ints    == -Half .. Half - 1

ASSUME WidthAssumption  == Half \in Nat \ {0} /\ Modulus = 2 * Half
ASSUME StoredAssumption == Stored # {} /\ Stored \subseteq [Field -> Ints]
ASSUME LoadFaultsAssumption ==
  LoadFaults \subseteq {"get"}  \* Config may fail to get a setting

VARIABLES
  settings,  \* what Config would answer
  loading,   \* how far load_keep_alive_data is
  got,       \* its locals: the settings read so far
  data,      \* the KeepAliveData it fills
  held       \* history: the values of each setting since loading began

loadVars == <<settings, loading, got, data, held>>

\* KeepAliveData(), and clear().
Cleared == [enabled |-> FALSE, timeout |-> 0, count |-> 0, intverval |-> 0]

\* static_cast<std::uint32_t>, and back: setsockopt takes the bytes for an int.
Unsigned(v) == IF v < 0 THEN v + Modulus ELSE v
Signed(u)   == IF u >= Half THEN u - Modulus ELSE u

\* What get_bool, or get_int, can make of the text of a setting.
Readable(f, v) == f = "enabled" => v \in {0, 1}

LoadInit ==
  /\ settings \in Stored
  /\ loading = "idle" /\ got = <<>>
  /\ data = Cleared
  /\ held = [f \in Field |-> {}]

StartLoad ==
  /\ loading \notin {"reading", "taken"}
  /\ loading' = "reading" /\ got' = <<>>
  /\ data' = Cleared
  /\ held' = [f \in Field |-> {settings[f]}]
  /\ UNCHANGED settings

\* The next of the four gets.  The first that fails ends the loading.
ReadSetting ==
  /\ loading = "reading" /\ Len(got) < 4
  /\ LET f == Fields[Len(got) + 1]
     IN  \/ /\ Readable(f, settings[f])
            /\ got' = Append(got, settings[f])
            /\ UNCHANGED loading
         \/ /\ ~Readable(f, settings[f]) \/ "get" \in LoadFaults
            /\ loading' = "bad" /\ got' = <<>>
  /\ UNCHANGED <<settings, data, held>>

\* Mutant: the values are given to the constructor in another order.
FinishLoadSwapped ==
  /\ loading = "reading" /\ Len(got) = 4
  /\ data' = [enabled |-> got[1] = 1, timeout |-> Unsigned(got[2]),
              count |-> Unsigned(got[4]), intverval |-> Unsigned(got[3])]
  /\ loading' = "good" /\ got' = <<>>
  /\ UNCHANGED <<settings, held>>

FinishLoad ==
  /\ loading = "reading" /\ Len(got) = 4
  /\ data' = [enabled |-> got[1] = 1, timeout |-> Unsigned(got[2]),
              count |-> Unsigned(got[3]), intverval |-> Unsigned(got[4])]
  /\ loading' = "good" /\ got' = <<>>
  /\ UNCHANGED <<settings, held>>

\* A set of another thread, or an edit of the file, which may change several.
ChangeSettings ==
  /\ settings' \in Stored
  /\ held' = IF loading = "reading"
             THEN [f \in Field |-> held[f] \cup {settings'[f]}]
             ELSE held
  /\ UNCHANGED <<loading, got, data>>

\* The caller uses the data, whether loading succeeded or not, and loads no more.
\* What becomes of the settings after that does not matter.
TakeData ==
  /\ loading \notin {"reading", "taken"}
  /\ loading' = "taken"
  /\ settings' = CHOOSE s \in Stored : TRUE
  /\ held' = [f \in Field |-> {}]
  /\ UNCHANGED <<got, data>>

LoadNext ==
  \/ StartLoad \/ ReadSetting \/ FinishLoad \/ TakeData
  \/ loading # "taken" /\ ChangeSettings

LoadSpec == LoadInit /\ [][LoadNext]_loadVars

-----------------------------------------------------------------------------
\* After loading, the values in data are settings that were there meanwhile: each
\* at some moment, though not all at the same.  They are meant as they were stored,
\* negative ones too, although data holds unsigned numbers.  As long as loading has
\* not succeeded there is no data, not even of an earlier loading: a setting that
\* cannot be read leaves keep-alive off.  (load_keep_alive_data; between its calls
\* of Config anything may be changed.)
LoadedWasThere ==
  /\ loading = "good" =>
       /\ (IF data.enabled THEN 1 ELSE 0) \in held["enabled"]
       /\ \A f \in Field \ {"enabled"} : Signed(data[f]) \in held[f]
  /\ loading \in {"reading", "bad"} => data = Cleared

=============================================================================
