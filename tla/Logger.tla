------------------------------- MODULE Logger -------------------------------
(* logger::init and logger::Settings: the settings of the log are read from  *)
(* the configuration, one after the other, and two sinks and a filter are    *)
(* registered with Boost.Log.  Any step but the reading may throw; what was  *)
(* done by then stays.  Meanwhile other threads change the configuration and *)
(* the level.                                                                *)
EXTENDS Integers, Sequences, FiniteSets

CONSTANTS
  Configs,     \* what the configuration may hold
  Absent,      \* it does not have the setting (or cannot be read)
  MaxCalls,    \* bound: calls of init and default_setup
  MaxChanges,  \* bound: changes of the configuration
  Faults       \* what may throw: a subset of AllFaults

\* The collector cannot make its folder, or cannot scan it; an allocation fails, of
\* a name, an attribute, a sink or the filter.  (A folder path that
\* get_data_folder_path cannot find is only logged and left empty.)
AllFaults == {"collector", "scan", "memory"}

\* In the order of try_load_from_config.  A string is one of a few numbers; a
\* format is not 0, which stands for a locale that was not made yet.
Fields == <<"severity_level", "target", "rotation_size", "file_name_time_fmt",
            "file_name_separator", "file_name_suffix", "add_console_log", "auto_flush",
            "max_files", "clear_history", "source_short_path_separator", "time_stamp_format">>
FieldSet == {Fields[i] : i \in DOMAIN Fields}

ASSUME LoggerAssumption ==
  /\ \A c \in Configs : /\ DOMAIN c = FieldSet
                        /\ \A f \in FieldSet : c[f] \in Int \cup {Absent}
                        /\ c["file_name_time_fmt"] # 0
  /\ {MaxCalls, MaxChanges} \subseteq Nat
  /\ Faults \subseteq AllFaults

VARIABLES
  config,    \* what the configuration holds
  settings,  \* Settings
  locale,    \* the static locale of format_time: the format of its facet, 0 before
  sinks,     \* the sinks registered with Boost.Log
  filter,    \* whether the filter by severity is installed
  at,        \* where init is
  loaded,    \* how many settings try_load_from_config has been through
  calls,     \* history: number of calls
  good,      \* history: calls of init that returned Good
  changes    \* history: changes of the configuration

loggerVars == <<config, settings, locale, sinks, filter, at, loaded, calls, good, changes>>

Levels == 0..5  \* trace to fatal
DefaultRotation == 10 * 1024 * 1024
Defaults == [f \in FieldSet |->
  CASE f = "severity_level" -> 2
    [] f = "rotation_size" -> DefaultRotation
    [] f \in {"auto_flush", "add_console_log"} -> 0
    [] f = "max_files" -> 2
    [] OTHER -> 1]

Init ==
  /\ config \in Configs
  /\ settings = Defaults /\ locale = 0
  /\ sinks = <<>> /\ filter = FALSE
  /\ at = "idle" /\ loaded = 0
  /\ calls = 0 /\ good = 0 /\ changes = 0

-----------------------------------------------------------------------------
(* Other threads.                                                           *)

ChangeConfig ==
  /\ changes < MaxChanges
  /\ config' \in Configs \ {config}
  /\ changes' = changes + 1
  /\ UNCHANGED <<settings, locale, sinks, filter, at, loaded, calls, good>>

SetSeverityLevel ==
  /\ \E l \in Levels : settings' = [settings EXCEPT !["severity_level"] = l]
  /\ UNCHANGED <<config, locale, sinks, filter, at, loaded, calls, good, changes>>

-----------------------------------------------------------------------------
(* logger::init.                                                            *)

StartInit ==
  /\ at = "idle" /\ calls < MaxCalls
  /\ at' = "load" /\ loaded' = 0 /\ calls' = calls + 1
  /\ UNCHANGED <<config, settings, locale, sinks, filter, good, changes>>

\* Whether try_load_... takes a value it has read.  The size is looked at before
\* it is replaced, not the value read.
Takes(f, v) ==
  /\ v # Absent
  /\ f = "severity_level" => v \in Levels
  /\ f = "rotation_size" => 0 < settings["rotation_size"]

\* One of the try_load_... functions: each is a call to the configuration.
TryLoad ==
  /\ at = "load"
  /\ LET f == Fields[loaded + 1] IN
       settings' = IF Takes(f, config[f]) THEN [settings EXCEPT ![f] = config[f]] ELSE settings
  /\ loaded' = loaded + 1
  /\ at' = IF loaded + 1 = Len(Fields) THEN "names" ELSE "load"
  /\ UNCHANGED <<config, locale, sinks, filter, calls, good, changes>>

\* Mutant: the locale is made anew each time.
FormattedAnew == settings["file_name_time_fmt"]

\* format_time: its locale is made at the first call.
Formatted == IF locale = 0 THEN settings["file_name_time_fmt"] ELSE locale

\* init throws: it returns Unexpected.
Throw(fault) == fault \in Faults /\ at' = "idle"

\* The names of the files are computed and dropped: format_time has been called.
ComputeNames ==
  /\ at = "names"
  /\ \/ at' = "console" /\ locale' = Formatted
     \/ Throw("memory") /\ locale' \in {locale, Formatted}
  /\ UNCHANGED <<config, settings, sinks, filter, loaded, calls, good, changes>>

ConsoleSink == [kind |-> "console", rotation |-> 0, format |-> 0, collector |-> FALSE]

\* add_console_logger; it throws before the sink is registered or after.
AddConsoleLogger ==
  /\ at = "console"
  /\ \/ at' = "file" /\ sinks' = Append(sinks, ConsoleSink)
     \/ Throw("memory") /\ sinks' \in {sinks, Append(sinks, ConsoleSink)}
  /\ UNCHANGED <<config, settings, locale, filter, loaded, calls, good, changes>>

\* Settings::get_file_rotation_size.
GetFileRotationSize == DefaultRotation

FileSink(collector) ==
  [kind |-> "file", rotation |-> GetFileRotationSize, format |-> Formatted, collector |-> collector]

\* Mutant: a sink that could not be finished does not count as a failure.
AddFileLoggerAnyway ==
  /\ at = "file"
  /\ \E collector \in BOOLEAN : sinks' = Append(sinks, FileSink(collector))
  /\ locale' = Formatted
  /\ at' = "filter"
  /\ UNCHANGED <<config, settings, filter, loaded, calls, good, changes>>

\* add_file_logger: the sink is registered before its collector is made, and the
\* collector is set before its folder is scanned.
AddFileLogger ==
  /\ at = "file"
  /\ locale' = Formatted
  /\ \/ Throw("memory") /\ UNCHANGED sinks
     \/ Throw("collector") /\ sinks' = Append(sinks, FileSink(FALSE))
     \/ Throw("scan") /\ sinks' = Append(sinks, FileSink(TRUE))
     \/ at' = "filter" /\ sinks' = Append(sinks, FileSink(TRUE))
  /\ UNCHANGED <<config, settings, filter, loaded, calls, good, changes>>

SetFilter ==
  /\ at = "filter"
  /\ \/ at' = "idle" /\ filter' = TRUE /\ good' = good + 1
     \/ Throw("memory") /\ UNCHANGED <<filter, good>>
  /\ UNCHANGED <<config, settings, locale, sinks, loaded, calls, changes>>

\* logger::default_setup, which may throw before the sink is registered.
DefaultSetup ==
  /\ at = "idle" /\ calls < MaxCalls
  /\ \/ sinks' = Append(sinks, ConsoleSink)
     \/ "memory" \in Faults /\ UNCHANGED sinks
  /\ calls' = calls + 1
  /\ UNCHANGED <<config, settings, locale, filter, at, loaded, good, changes>>

Next ==
  \/ ChangeConfig \/ SetSeverityLevel
  \/ StartInit \/ TryLoad \/ ComputeNames \/ AddConsoleLogger \/ AddFileLogger \/ SetFilter
  \/ DefaultSetup

Spec == Init /\ [][Next]_loggerVars

-----------------------------------------------------------------------------
(* Properties.                                                              *)

Files == {i \in DOMAIN sinks : sinks[i].kind = "file"}

\* All log files of a process are alike, however the settings have changed between
\* two calls of init: they are named by the format of the first call of
\* format_time, and each has a positive limit, although
\* try_load_file_rotation_size lets any number into the settings (it checks the
\* old value, and takes no other once that is not positive).
FilesAreAlike ==
  \A i, j \in Files : sinks[i].format = sinks[j].format /\ sinks[i].rotation > 0

\* Each init that returned Good has added a file sink that has its collector, and
\* the filter is installed; no call adds more than one console and one file.  What
\* the filter compares with is one of the six levels, whatever number the
\* configuration holds (try_load_severity_level).
GoodInitLogs ==
  /\ Cardinality({i \in Files : sinks[i].collector}) >= good
  /\ good > 0 => filter
  /\ Cardinality(Files) <= Len(sinks) - Cardinality(Files)
  /\ Len(sinks) - Cardinality(Files) <= calls
  /\ settings["severity_level"] \in Levels

=============================================================================
