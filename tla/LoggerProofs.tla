---------------------------- MODULE LoggerProofs ----------------------------
(* Proofs about Logger, for any configurations that change at any time, any *)
(* number of calls and any of the failures: what the registered sinks have  *)
(* in common, and what an init that succeeded has left behind.              *)
EXTENDS Logger, SequenceTheorems, FiniteSetTheorems, TLAPS

Sink == [kind : {"console", "file"}, rotation : Nat, format : Int, collector : BOOLEAN]

\* Every variable keeps its type, and init loads each setting once.
TypeOK ==
  /\ config \in Configs
  /\ settings \in [FieldSet -> Int] /\ locale \in Int
  /\ sinks \in Seq(Sink)
  /\ filter \in BOOLEAN
  /\ at \in {"idle", "load", "names", "console", "file", "filter"}
  /\ loaded \in 0..Len(Fields) /\ (at = "load" => loaded < Len(Fields))
  /\ calls \in Nat /\ good \in Nat /\ changes \in Nat

\* What may be loaded is a level and the number of a format.
SettingsOK == settings["severity_level"] \in Levels /\ settings["file_name_time_fmt"] # 0

\* Every file is named by the locale, which was made when there is a file.
FilesHaveLocale ==
  \A i \in Files : /\ sinks[i].format = locale /\ locale # 0
                   /\ sinks[i].rotation = DefaultRotation

IInv == TypeOK /\ SettingsOK /\ FilesHaveLocale

\* The settings are these twelve.
LEMMA FieldsAre ==
  /\ Len(Fields) = 12
  /\ \A i \in 1..12 : Fields[i] \in FieldSet
  /\ {"severity_level", "rotation_size", "file_name_time_fmt"} \subseteq FieldSet
<1>1. Len(Fields) = 12 /\ DOMAIN Fields = 1..12
  BY DEF Fields
<1>2. /\ Fields[1] = "severity_level" /\ Fields[3] = "rotation_size"
      /\ Fields[4] = "file_name_time_fmt"
  BY DEF Fields
<1>3. 1 \in 1..12 /\ 3 \in 1..12 /\ 4 \in 1..12
  OBVIOUS
<1> QED BY <1>1, <1>2, <1>3 DEF FieldSet

\* A setting that is loaded is a value that its function takes.
LEMMA TryLoadOK ==
  ASSUME IInv, TryLoad
  PROVE  settings' \in [FieldSet -> Int] /\ SettingsOK'
<1> DEFINE f == Fields[loaded + 1]
<1>1. f \in FieldSet
  <2>1. loaded + 1 \in 1..12
    BY FieldsAre DEF TryLoad, IInv, TypeOK
  <2> QED BY <2>1, FieldsAre
<1>2. config[f] \in Int \cup {Absent} /\ config["file_name_time_fmt"] # 0
  BY <1>1, LoggerAssumption DEF IInv, TypeOK
<1>3. settings' = IF Takes(f, config[f]) THEN [settings EXCEPT ![f] = config[f]] ELSE settings
  BY DEF TryLoad
<1> HIDE DEF f
<1>4. CASE Takes(f, config[f])
  <2>1. config[f] \in Int /\ (f = "severity_level" => config[f] \in Levels)
    BY <1>2, <1>4 DEF Takes
  <2> QED BY <1>1, <1>2, <1>3, <1>4, <2>1, FieldsAre DEF IInv, TypeOK, SettingsOK
<1>5. CASE ~Takes(f, config[f])
  BY <1>3, <1>5 DEF IInv, TypeOK, SettingsOK
<1> QED BY <1>4, <1>5

\* What a registered sink adds to the files, and to those that have a collector.
LEMMA AddSink ==
  ASSUME sinks \in Seq(Sink), NEW s \in Sink, sinks' = Append(sinks, s)
  PROVE  /\ sinks' \in Seq(Sink) /\ Len(sinks)' = Len(sinks) + 1
         /\ \A i \in 1..Len(sinks) : sinks'[i] = sinks[i]
         /\ sinks'[Len(sinks) + 1] = s
         /\ Len(sinks) + 1 \notin Files
         /\ Files' = IF s.kind = "file" THEN Files \cup {Len(sinks) + 1} ELSE Files
<1>1. /\ sinks' \in Seq(Sink) /\ Len(sinks)' = Len(sinks) + 1
      /\ \A i \in 1..Len(sinks) : sinks'[i] = sinks[i]
      /\ sinks'[Len(sinks) + 1] = s
  BY AppendProperties
<1>2. PICK n \in Nat : n = Len(sinks)
  OBVIOUS
<1>3. Files = {i \in 1..n : sinks[i].kind = "file"}
  BY <1>2 DEF Files
<1>4. Files' = {i \in 1..(n + 1) : sinks'[i].kind = "file"}
  BY <1>1, <1>2 DEF Files
<1>5. Files' = IF s.kind = "file" THEN Files \cup {n + 1} ELSE Files
  <2>1. \A i \in 1..(n + 1) : i \in 1..n \/ i = n + 1
    OBVIOUS
  <2>2. n + 1 \in 1..(n + 1) /\ 1..n \subseteq 1..(n + 1)
    OBVIOUS
  <2> QED BY <1>1, <1>2, <1>3, <1>4, <2>1, <2>2
<1> QED BY <1>1, <1>2, <1>3, <1>5

\* The sinks that init adds.
LEMMA SinkTypes ==
  ASSUME IInv
  PROVE  /\ ConsoleSink \in Sink /\ ConsoleSink.kind = "console"
         /\ Formatted \in Int /\ Formatted # 0
         /\ \A collector \in BOOLEAN :
              /\ FileSink(collector) \in Sink /\ FileSink(collector).kind = "file"
              /\ FileSink(collector).format = Formatted
              /\ FileSink(collector).rotation = DefaultRotation
              /\ FileSink(collector).collector = collector
<1>1. Formatted \in Int /\ Formatted # 0
  <2>1. settings["file_name_time_fmt"] \in Int
    BY FieldsAre DEF IInv, TypeOK
  <2> QED BY <2>1 DEF IInv, TypeOK, SettingsOK, Formatted
<1>2. DefaultRotation \in Nat
  BY DEF DefaultRotation
<1> QED BY <1>1, <1>2 DEF ConsoleSink, FileSink, GetFileRotationSize, Sink

\* A sink that is added keeps the files alike.
LEMMA AddSinkAlike ==
  ASSUME IInv, NEW s \in Sink, sinks' = Append(sinks, s),
         \/ s.kind = "console" /\ UNCHANGED locale
         \/ /\ s.kind = "file" /\ locale' = Formatted
            /\ s.format = Formatted /\ s.rotation = DefaultRotation
  PROVE  FilesHaveLocale'
<1>1. /\ \A i \in Files : sinks'[i] = sinks[i]
      /\ sinks'[Len(sinks) + 1] = s
      /\ Files' = IF s.kind = "file" THEN Files \cup {Len(sinks) + 1} ELSE Files
  BY AddSink DEF IInv, TypeOK, Files
<1>2. \A i \in Files : /\ sinks[i].format = locale /\ locale # 0
                       /\ sinks[i].rotation = DefaultRotation
  BY DEF IInv, FilesHaveLocale
<1>3. CASE s.kind = "console" /\ UNCHANGED locale
  BY <1>1, <1>2, <1>3 DEF FilesHaveLocale
<1>4. CASE /\ s.kind = "file" /\ locale' = Formatted
           /\ s.format = Formatted /\ s.rotation = DefaultRotation
  <2>1. Files # {} => Formatted = locale
    BY <1>2 DEF Formatted
  <2>2. Formatted # 0
    BY SinkTypes
  <2> QED BY <1>1, <1>2, <1>4, <2>1, <2>2 DEF FilesHaveLocale
<1> QED BY <1>3, <1>4

\* Before init is called.
LEMMA IInvInit == Init => IInv
<1> SUFFICES ASSUME Init PROVE IInv
  OBVIOUS
<1>1. Defaults \in [FieldSet -> Int]
  BY DEF Defaults, DefaultRotation
<1>2. Defaults["severity_level"] = 2 /\ Defaults["file_name_time_fmt"] = 1
  BY FieldsAre DEF Defaults
<1>3. TypeOK
  <2>1. <<>> \in Seq(Sink) /\ 0 \in 0..12
    BY EmptySeq
  <2>2. loaded \in 0..Len(Fields) /\ (at = "load" => loaded < Len(Fields))
    BY <2>1, FieldsAre DEF Init
  <2>3. config \in Configs /\ settings \in [FieldSet -> Int] /\ locale \in Int
    BY <1>1 DEF Init
  <2>4. sinks \in Seq(Sink) /\ filter \in BOOLEAN
    BY <2>1 DEF Init
  <2>5. at = "idle" /\ calls \in Nat /\ good \in Nat /\ changes \in Nat
    BY DEF Init
  <2> QED BY <2>2, <2>3, <2>4, <2>5 DEF TypeOK
<1>4. SettingsOK
  BY <1>2 DEF Init, SettingsOK, Levels
<1>5. FilesHaveLocale
  BY DEF Init, FilesHaveLocale, Files
<1> QED BY <1>3, <1>4, <1>5 DEF IInv

\* Every step keeps the files alike, whatever the settings have become by then.
LEMMA IInvStep == IInv /\ [Next]_loggerVars => IInv'
<1> SUFFICES ASSUME IInv, [Next]_loggerVars
             PROVE  IInv'
  OBVIOUS
<1> USE FieldsAre DEF IInv
<1>1. ASSUME UNCHANGED <<sinks, locale>>
      PROVE  FilesHaveLocale'
  BY <1>1 DEF FilesHaveLocale, Files
<1>2. CASE ChangeConfig
  <2>1. TypeOK' /\ SettingsOK'
    BY <1>2 DEF ChangeConfig, TypeOK, SettingsOK
  <2> QED BY <1>1, <1>2, <2>1 DEF ChangeConfig
<1>3. CASE SetSeverityLevel
  <2>1. TypeOK' /\ SettingsOK'
    BY <1>3 DEF SetSeverityLevel, TypeOK, SettingsOK, Levels
  <2> QED BY <1>1, <1>3, <2>1 DEF SetSeverityLevel
<1>4. CASE StartInit
  <2>1. TypeOK' /\ SettingsOK'
    BY <1>4 DEF StartInit, TypeOK, SettingsOK
  <2> QED BY <1>1, <1>4, <2>1 DEF StartInit
<1>5. CASE TryLoad
  <2>1. settings' \in [FieldSet -> Int] /\ SettingsOK'
    BY <1>5, TryLoadOK
  <2>2. loaded + 1 \in 0..12 /\ (loaded + 1 # 12 => loaded + 1 < 12)
    <3>1. loaded \in 0..12 /\ loaded < 12
      BY <1>5 DEF TryLoad, TypeOK
    <3> QED BY <3>1
  <2>3. loaded' = loaded + 1 /\ at' = IF loaded + 1 = 12 THEN "names" ELSE "load"
    BY <1>5 DEF TryLoad
  <2>4. TypeOK'
    BY <1>5, <2>1, <2>2, <2>3 DEF TryLoad, TypeOK
  <2> QED BY <1>1, <1>5, <2>1, <2>4 DEF TryLoad
<1>6. CASE ComputeNames
  <2>1. Formatted \in Int /\ Formatted # 0
    BY SinkTypes
  <2>2. TypeOK' /\ SettingsOK'
    BY <1>6, <2>1 DEF ComputeNames, Throw, TypeOK, SettingsOK
  <2>3. UNCHANGED sinks /\ (locale' = locale \/ locale' = Formatted)
    BY <1>6 DEF ComputeNames
  <2>4. FilesHaveLocale'
    BY <2>3 DEF FilesHaveLocale, Files, Formatted
  <2> QED BY <2>2, <2>4
<1>7. CASE AddConsoleLogger \/ DefaultSetup
  <2>1. sinks' \in {sinks, Append(sinks, ConsoleSink)} /\ UNCHANGED locale
    BY <1>7 DEF AddConsoleLogger, DefaultSetup
  <2>2. sinks' \in Seq(Sink) /\ FilesHaveLocale'
    BY <1>1, <2>1, SinkTypes, AddSink, AddSinkAlike DEF TypeOK
  <2>3. AddConsoleLogger => TypeOK' /\ SettingsOK'
    BY <2>2 DEF AddConsoleLogger, Throw, TypeOK, SettingsOK
  <2>4. DefaultSetup => TypeOK' /\ SettingsOK'
    BY <2>2 DEF DefaultSetup, TypeOK, SettingsOK
  <2> QED BY <1>7, <2>2, <2>3, <2>4
<1>8. CASE AddFileLogger
  <2>1. UNCHANGED sinks \/ \E collector \in BOOLEAN : sinks' = Append(sinks, FileSink(collector))
    BY <1>8 DEF AddFileLogger
  <2>2. locale' = Formatted /\ at' \in {"idle", "filter"}
    BY <1>8 DEF AddFileLogger, Throw
  <2>3. sinks' \in Seq(Sink) /\ FilesHaveLocale'
    <3>1. CASE UNCHANGED sinks
      BY <2>2, <3>1 DEF FilesHaveLocale, Files, Formatted, TypeOK
    <3>2. ASSUME NEW collector \in BOOLEAN, sinks' = Append(sinks, FileSink(collector))
          PROVE  sinks' \in Seq(Sink) /\ FilesHaveLocale'
      BY <2>2, <3>2, SinkTypes, AddSink, AddSinkAlike DEF TypeOK
    <3> QED BY <2>1, <3>1, <3>2
  <2>4. TypeOK' /\ SettingsOK'
    BY <1>8, <2>2, <2>3, SinkTypes DEF AddFileLogger, TypeOK, SettingsOK
  <2> QED BY <2>3, <2>4
<1>9. CASE SetFilter
  <2>1. filter' \in BOOLEAN /\ good' \in Nat /\ at' = "idle"
    <3>1. CASE at' = "idle" /\ filter' = TRUE /\ good' = good + 1
      BY <3>1 DEF TypeOK
    <3>2. CASE Throw("memory") /\ UNCHANGED <<filter, good>>
      BY <3>2 DEF Throw, TypeOK
    <3> QED BY <1>9, <3>1, <3>2 DEF SetFilter
  <2>2. TypeOK' /\ SettingsOK'
    BY <1>9, <2>1 DEF SetFilter, TypeOK, SettingsOK
  <2> QED BY <1>1, <1>9, <2>2 DEF SetFilter
<1>10. CASE UNCHANGED loggerVars
  BY <1>1, <1>10 DEF loggerVars, TypeOK, SettingsOK
<1> QED BY <1>2, <1>3, <1>4, <1>5, <1>6, <1>7, <1>8, <1>9, <1>10 DEF Next

\* All log files of a process are named by one format and have a positive limit.
THEOREM AllFilesAlike == Spec => []FilesAreAlike
<1>1. IInv => FilesAreAlike
  BY DEF IInv, FilesHaveLocale, FilesAreAlike, DefaultRotation
<1> QED BY IInvInit, IInvStep, <1>1, PTL DEF Spec

-----------------------------------------------------------------------------
(* How many sinks there are.                                                *)

Collectors == {i \in Files : sinks[i].collector}

\* A call of init that got as far as the filter has added a file with a collector,
\* one that is at its file has added its console, and before that the call counts.
CountsAgree ==
  /\ good + (IF at = "filter" THEN 1 ELSE 0) <= Cardinality(Collectors)
  /\ Cardinality(Files) + (IF at = "file" THEN 1 ELSE 0)
       <= Len(sinks) - Cardinality(Files)
  /\ Len(sinks) - Cardinality(Files)
       + (IF at \in {"load", "names", "console"} THEN 1 ELSE 0) <= calls
  /\ good > 0 => filter

\* The sinks are finitely many.
LEMMA FilesFinite ==
  ASSUME TypeOK
  PROVE  /\ IsFiniteSet(Files) /\ Cardinality(Files) \in Nat
         /\ IsFiniteSet(Collectors) /\ Cardinality(Collectors) \in Nat
         /\ Len(sinks) \in Nat
<1>1. Len(sinks) \in Nat /\ IsFiniteSet(1..Len(sinks))
  BY FS_Interval DEF TypeOK
<1>2. Files \in SUBSET (1..Len(sinks)) /\ Collectors \in SUBSET Files
  BY DEF Files, Collectors, TypeOK
<1> QED BY <1>1, <1>2, FS_Subset, FS_CardinalityType

\* What a registered sink adds to the numbers.
LEMMA AddSinkCounts ==
  ASSUME TypeOK, NEW s \in Sink, sinks' = Append(sinks, s)
  PROVE  /\ Len(sinks)' = Len(sinks) + 1
         /\ Cardinality(Files)' = Cardinality(Files) + (IF s.kind = "file" THEN 1 ELSE 0)
         /\ Cardinality(Collectors)' =
              Cardinality(Collectors) + (IF s.kind = "file" /\ s.collector THEN 1 ELSE 0)
<1>1. /\ Len(sinks)' = Len(sinks) + 1
      /\ \A i \in Files : sinks'[i] = sinks[i]
      /\ sinks'[Len(sinks) + 1] = s
      /\ Len(sinks) + 1 \notin Files
      /\ Files' = IF s.kind = "file" THEN Files \cup {Len(sinks) + 1} ELSE Files
  BY AddSink DEF TypeOK, Files
<1>2. PICK n \in Nat : n = Len(sinks) + 1
  BY FilesFinite
<1>3. Collectors' = IF s.kind = "file" /\ s.collector THEN Collectors \cup {n} ELSE Collectors
  BY <1>1, <1>2 DEF Collectors
<1>4. n \notin Files /\ n \notin Collectors
  BY <1>1, <1>2 DEF Collectors
<1>5. ASSUME NEW S, IsFiniteSet(S), n \notin S
      PROVE  Cardinality(S \cup {n}) = Cardinality(S) + 1
  BY <1>5, FS_AddElement
<1>6. Cardinality(Files)' = Cardinality(Files) + (IF s.kind = "file" THEN 1 ELSE 0)
  <2>1. Files' = IF s.kind = "file" THEN Files \cup {n} ELSE Files
    BY <1>1, <1>2
  <2>2. Cardinality(Files \cup {n}) = Cardinality(Files) + 1 /\ Cardinality(Files) \in Nat
    BY <1>4, <1>5, FilesFinite
  <2> QED BY <2>1, <2>2
<1>7. Cardinality(Collectors)' =
        Cardinality(Collectors) + (IF s.kind = "file" /\ s.collector THEN 1 ELSE 0)
  <2>1. /\ Cardinality(Collectors \cup {n}) = Cardinality(Collectors) + 1
        /\ Cardinality(Collectors) \in Nat
    BY <1>4, <1>5, FilesFinite
  <2> QED BY <1>3, <2>1
<1> QED BY <1>1, <1>6, <1>7

\* Every step keeps the numbers.
LEMMA CountsStep == IInv /\ CountsAgree /\ [Next]_loggerVars => CountsAgree'
<1> SUFFICES ASSUME IInv, CountsAgree, [Next]_loggerVars
             PROVE  CountsAgree'
  OBVIOUS
<1> DEFINE n == Len(sinks)
           f == Cardinality(Files)
           c == Cardinality(Collectors)
<1>1. n \in Nat /\ f \in Nat /\ c \in Nat /\ good \in Nat /\ calls \in Nat
  BY FilesFinite DEF IInv, TypeOK
<1>2. /\ good + (IF at = "filter" THEN 1 ELSE 0) <= c
      /\ f + (IF at = "file" THEN 1 ELSE 0) <= n - f
      /\ n - f + (IF at \in {"load", "names", "console"} THEN 1 ELSE 0) <= calls
      /\ good > 0 => filter
  BY DEF CountsAgree
<1>3. UNCHANGED sinks => n' = n /\ f' = f /\ c' = c
  BY DEF Files, Collectors
<1>4. ASSUME NEW s \in Sink, sinks' = Append(sinks, s)
      PROVE  /\ n' = n + 1
             /\ f' = f + (IF s.kind = "file" THEN 1 ELSE 0)
             /\ c' = c + (IF s.kind = "file" /\ s.collector THEN 1 ELSE 0)
  BY <1>4, AddSinkCounts DEF IInv
<1>5. SUFFICES
        /\ good' + (IF at' = "filter" THEN 1 ELSE 0) <= c'
        /\ f' + (IF at' = "file" THEN 1 ELSE 0) <= n' - f'
        /\ n' - f' + (IF at' \in {"load", "names", "console"} THEN 1 ELSE 0) <= calls'
        /\ good' > 0 => filter'
  BY DEF CountsAgree
<1> HIDE DEF n, f, c
<1>6. CASE ChangeConfig \/ SetSeverityLevel
  BY <1>1, <1>2, <1>3, <1>6 DEF ChangeConfig, SetSeverityLevel
<1>7. CASE StartInit
  BY <1>1, <1>2, <1>3, <1>7 DEF StartInit
<1>8. CASE TryLoad
  BY <1>1, <1>2, <1>3, <1>8 DEF TryLoad
<1>9. CASE ComputeNames
  BY <1>1, <1>2, <1>3, <1>9 DEF ComputeNames, Throw
<1>10. CASE (AddConsoleLogger \/ DefaultSetup) /\ sinks' = Append(sinks, ConsoleSink)
  <2>1. n' = n + 1 /\ f' = f /\ c' = c
    <3>1. /\ sinks' = Append(sinks, ConsoleSink)
          /\ ConsoleSink \in Sink /\ ConsoleSink.kind = "console"
      BY <1>10, SinkTypes
    <3> QED BY <1>1, <1>4, <3>1
  <2>2. CASE AddConsoleLogger
    BY <1>1, <1>2, <2>1, <2>2 DEF AddConsoleLogger, Throw
  <2>3. CASE DefaultSetup
    BY <1>1, <1>2, <2>1, <2>3 DEF DefaultSetup
  <2> QED BY <1>10, <2>2, <2>3
<1>11. CASE AddFileLogger /\ sinks' # sinks
  <2>1. PICK collector \in BOOLEAN :
          /\ sinks' = Append(sinks, FileSink(collector))
          /\ at' = "idle" \/ (at' = "filter" /\ collector)
    BY <1>11 DEF AddFileLogger, Throw
  <2>2. FileSink(collector) \in Sink /\ FileSink(collector).kind = "file"
        /\ FileSink(collector).collector = collector
    BY SinkTypes
  <2>3. n' = n + 1 /\ f' = f + 1 /\ c' = c + (IF collector THEN 1 ELSE 0)
    BY <1>4, <2>1, <2>2
  <2> QED BY <1>1, <1>2, <1>11, <2>1, <2>3 DEF AddFileLogger
<1>12. CASE SetFilter
  BY <1>1, <1>2, <1>3, <1>12 DEF SetFilter, Throw
<1>13. CASE UNCHANGED loggerVars
  BY <1>1, <1>2, <1>3, <1>13 DEF loggerVars
<1>14. CASE /\ AddConsoleLogger \/ DefaultSetup \/ AddFileLogger
            /\ UNCHANGED sinks
  <2>1. n' = n /\ f' = f /\ c' = c
    BY <1>3, <1>14
  <2>2. at' = "idle" \/ (at' = at /\ at = "idle")
    <3>1. ASSUME NEW s \in Sink PROVE Append(sinks, s) # sinks
      <4>1. Len(Append(sinks, s)) = Len(sinks) + 1 /\ Len(sinks) \in Nat
        BY AppendProperties DEF IInv, TypeOK
      <4> QED BY <4>1
    <3>2. /\ sinks # Append(sinks, ConsoleSink)
          /\ \A collector \in BOOLEAN : sinks # Append(sinks, FileSink(collector))
      BY <3>1, SinkTypes
    <3>3. AddConsoleLogger => at' = "idle"
      BY <1>14, <3>2 DEF AddConsoleLogger, Throw
    <3>4. DefaultSetup => at' = at /\ at = "idle"
      BY DEF DefaultSetup
    <3>5. AddFileLogger => at' = "idle"
      BY <1>14, <3>2 DEF AddFileLogger, Throw
    <3> QED BY <1>14, <3>3, <3>4, <3>5
  <2>3. good' = good /\ filter' = filter /\ calls' \in {calls, calls + 1}
    <3>1. AddConsoleLogger => good' = good /\ filter' = filter /\ calls' = calls
      BY DEF AddConsoleLogger
    <3>2. DefaultSetup => good' = good /\ filter' = filter /\ calls' = calls + 1
      BY DEF DefaultSetup
    <3>3. AddFileLogger => good' = good /\ filter' = filter /\ calls' = calls
      BY DEF AddFileLogger
    <3> QED BY <1>14, <3>1, <3>2, <3>3
  <2>4. calls <= calls' /\ calls' \in Nat /\ at' = "idle"
    BY <1>1, <2>2, <2>3
  <2> QED BY <1>1, <1>2, <2>1, <2>3, <2>4
<1>15. AddConsoleLogger \/ DefaultSetup => sinks' \in {sinks, Append(sinks, ConsoleSink)}
  BY DEF AddConsoleLogger, DefaultSetup
<1> QED BY <1>6, <1>7, <1>8, <1>9, <1>10, <1>11, <1>12, <1>13, <1>14, <1>15 DEF Next

\* Each init that returned Good has added a file with its collector, and the filter is
\* installed; no call adds more than a console and a file; the level is one of six.
THEOREM GoodInitHasLogged == Spec => []GoodInitLogs
<1>1. Init => CountsAgree
  <2> SUFFICES ASSUME Init PROVE CountsAgree
    OBVIOUS
  <2>1. Files = {} /\ Collectors = {} /\ Len(sinks) = 0
    BY EmptySeq DEF Init, Files, Collectors
  <2> QED BY <2>1, FS_EmptySet DEF Init, CountsAgree
<1>2. IInv /\ CountsAgree => GoodInitLogs
  <2> SUFFICES ASSUME IInv, CountsAgree PROVE GoodInitLogs
    OBVIOUS
  <2>1. /\ Cardinality(Files) \in Nat /\ Cardinality(Collectors) \in Nat
        /\ Len(sinks) \in Nat /\ good \in Nat /\ calls \in Nat
    BY FilesFinite DEF IInv, TypeOK
  <2>2. settings["severity_level"] \in Levels
    BY DEF IInv, SettingsOK
  <2>3. Collectors = {i \in Files : sinks[i].collector}
    BY DEF Collectors
  <2> QED BY <2>1, <2>2, <2>3 DEF CountsAgree, GoodInitLogs
<1> QED BY IInvInit, IInvStep, CountsStep, <1>1, <1>2, PTL DEF Spec

=============================================================================
