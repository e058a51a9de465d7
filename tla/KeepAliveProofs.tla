--------------------------- MODULE KeepAliveProofs ---------------------------
(* Proof that a TcpServer gets keep-alive data that was there, or none.      *)
EXTENDS KeepAliveServer, SequenceTheorems, TLAPS

-----------------------------------------------------------------------------
(* The casts.                                                               *)

\* A stored number survives being made unsigned: the kernel is given the number
\* that is in the settings, negative ones too (load_keep_alive_data, set_keep_alive).
LEMMA CastsCancel ==
  ASSUME NEW v \in Ints
  PROVE  Signed(Unsigned(v)) = v
BY WidthAssumption DEF Ints, Signed, Unsigned

\* The fields in the order in which load_keep_alive_data reads them.
LEMMA FieldsAreFour ==
  /\ Field = {"enabled", "timeout", "count", "intverval"}
  /\ Fields[1] = "enabled" /\ Fields[2] = "timeout"
  /\ Fields[3] = "count"   /\ Fields[4] = "intverval"
BY DEF Field, Fields

-----------------------------------------------------------------------------
(* The inductive invariant: what has been read so far was there.            *)

LoadTypeOK ==
  /\ settings \in Stored
  /\ loading \in {"idle", "reading", "bad", "good", "taken"}
  /\ got \in Seq(Ints) /\ Len(got) <= 4
  /\ held \in [Field -> SUBSET Ints]

\* What is there now counts, and each local holds what was there; the first of
\* them is a truth value.
ReadSoFar ==
  loading = "reading" =>
    /\ \A f \in Field : settings[f] \in held[f]
    /\ \A i \in 1..Len(got) : got[i] \in held[Fields[i]] /\ Readable(Fields[i], got[i])

LoadInv == LoadTypeOK /\ ReadSoFar /\ LoadedWasThere

\* Every setting is a signed integer.
LEMMA SettingIsInt ==
  ASSUME NEW s \in Stored, NEW f \in Field
  PROVE  s[f] \in Ints
BY StoredAssumption

\* Before anything is loaded.
LEMMA LoadInvInit == LoadInit => LoadInv
<1> SUFFICES ASSUME LoadInit PROVE LoadInv
  OBVIOUS
<1>1. held \in [Field -> SUBSET Ints]
  BY DEF LoadInit
<1>2. got \in Seq(Ints) /\ Len(got) = 0
  BY DEF LoadInit
<1> QED BY <1>1, <1>2 DEF LoadInit, LoadInv, LoadTypeOK, ReadSoFar, LoadedWasThere

\* Loading starts with nothing read.
LEMMA StartLoadKeeps ==
  ASSUME LoadInv, StartLoad
  PROVE  LoadInv'
<1>1. held' \in [Field -> SUBSET Ints] /\ \A f \in Field : settings[f] \in held'[f]
  BY SettingIsInt DEF StartLoad, LoadInv, LoadTypeOK
<1>2. got' \in Seq(Ints) /\ Len(got') = 0
  BY DEF StartLoad
<1> QED BY <1>1, <1>2 DEF StartLoad, LoadInv, LoadTypeOK, ReadSoFar, LoadedWasThere

\* One more setting is read, or loading fails.
LEMMA ReadSettingKeeps ==
  ASSUME LoadInv, ReadSetting
  PROVE  LoadInv'
<1> DEFINE f == Fields[Len(got) + 1]
<1>1. Len(got) \in 0..3 /\ UNCHANGED <<settings, data, held>> /\ loading = "reading"
  <2>1. Len(got) < 4 /\ UNCHANGED <<settings, data, held>> /\ loading = "reading"
    BY Zenon DEF ReadSetting
  <2>2. Len(got) \in Nat
    BY DEF LoadInv, LoadTypeOK
  <2>3. \A n \in Nat : n < 4 => n \in 0..3
    OBVIOUS
  <2> QED BY <2>1, <2>2, <2>3, Zenon
<1>2. f \in Field
  <2>1. \A n \in 0..3 : n + 1 \in 1..4
    OBVIOUS
  <2>2. Len(got) + 1 \in 1..4
    BY <1>1, <2>1, Zenon
  <2> QED BY <2>2, Zenon DEF Field
<1>3. CASE Readable(f, settings[f]) /\ got' = Append(got, settings[f]) /\ UNCHANGED loading
  <2>1. settings[f] \in Ints /\ settings[f] \in held[f]
    BY <1>1, <1>2, SettingIsInt DEF LoadInv, LoadTypeOK, ReadSoFar
  <2>2. /\ got' \in Seq(Ints) /\ Len(got') = Len(got) + 1
        /\ got'[Len(got) + 1] = settings[f]
        /\ \A i \in 1..Len(got) : got'[i] = got[i]
    BY <1>3, <2>1, AppendProperties DEF LoadInv, LoadTypeOK
  <2>3. ASSUME NEW i \in 1..Len(got')
        PROVE  got'[i] \in held[Fields[i]] /\ Readable(Fields[i], got'[i])
    <3>1. CASE i = Len(got) + 1
      BY <1>3, <2>1, <2>2, <3>1
    <3>2. CASE i \in 1..Len(got)
      BY <1>1, <2>2, <3>2 DEF LoadInv, ReadSoFar
    <3> QED BY <1>1, <2>2, <3>1, <3>2
  <2> QED BY <1>1, <1>3, <2>2, <2>3
          DEF LoadInv, LoadTypeOK, ReadSoFar, LoadedWasThere
<1>4. CASE loading' = "bad" /\ got' = <<>>
  BY <1>1, <1>4 DEF LoadInv, LoadTypeOK, ReadSoFar, LoadedWasThere
<1> QED BY <1>3, <1>4 DEF ReadSetting

\* The data is put together from what was read.
LEMMA FinishLoadKeeps ==
  ASSUME LoadInv, FinishLoad
  PROVE  LoadInv'
<1>1. /\ loading = "reading" /\ Len(got) = 4 /\ UNCHANGED <<settings, held>>
      /\ loading' = "good" /\ got' = <<>>
  BY Zenon DEF FinishLoad
<1>2. \A i \in 1..4 : got[i] \in Ints /\ got[i] \in held[Fields[i]] /\ Readable(Fields[i], got[i])
  <2>1. \A i \in 1..Len(got) : got[i] \in Ints
    BY DEF LoadInv, LoadTypeOK
  <2> QED BY <1>1, <2>1, Zenon DEF LoadInv, ReadSoFar
<1>3. (IF data'.enabled THEN 1 ELSE 0) \in held["enabled"]
  <2>1. got[1] \in {0, 1} /\ got[1] \in held["enabled"]
    BY <1>2, FieldsAreFour DEF Readable
  <2>2. data'.enabled = (got[1] = 1)
    BY DEF FinishLoad
  <2> QED BY <2>1, <2>2
<1>4. /\ Signed(data'["timeout"]) = got[2]
      /\ Signed(data'["count"]) = got[3]
      /\ Signed(data'["intverval"]) = got[4]
  BY <1>2, CastsCancel DEF FinishLoad
<1>5. \A f \in Field \ {"enabled"} : Signed(data'[f]) \in held[f]
  BY <1>2, <1>4, FieldsAreFour
<1> QED BY <1>1, <1>3, <1>5 DEF LoadInv, LoadTypeOK, ReadSoFar, LoadedWasThere

\* The settings change while they are loaded.
LEMMA ChangeSettingsKeeps ==
  ASSUME LoadInv, ChangeSettings
  PROVE  LoadInv'
<1>1. UNCHANGED <<loading, got, data>> /\ settings' \in Stored
  BY DEF ChangeSettings
<1>2. CASE loading = "reading"
  <2>1. held' = [f \in Field |-> held[f] \cup {settings'[f]}]
    BY <1>2 DEF ChangeSettings
  <2>2. held' \in [Field -> SUBSET Ints]
    BY <1>1, <2>1, SettingIsInt DEF LoadInv, LoadTypeOK
  <2>3. \A f \in Field : settings'[f] \in held'[f] /\ held[f] \subseteq held'[f]
    BY <2>1
  <2>4. \A i \in 1..Len(got) : Fields[i] \in Field
    BY DEF LoadInv, LoadTypeOK, Field
  <2> QED BY <1>1, <1>2, <2>2, <2>3, <2>4
          DEF LoadInv, LoadTypeOK, ReadSoFar, LoadedWasThere
<1>3. CASE loading # "reading"
  BY <1>1, <1>3 DEF ChangeSettings, LoadInv, LoadTypeOK, ReadSoFar, LoadedWasThere
<1> QED BY <1>2, <1>3

\* A server is constructed with the data.
LEMMA TakeDataKeeps ==
  ASSUME LoadInv, TakeData
  PROVE  LoadInv'
<1>1. settings' \in Stored
  BY StoredAssumption DEF TakeData
<1>2. held' \in [Field -> SUBSET Ints]
  BY DEF TakeData
<1> QED BY <1>1, <1>2 DEF TakeData, LoadInv, LoadTypeOK, ReadSoFar, LoadedWasThere

\* Every step of loading keeps the invariant.
LEMMA LoadStepKeeps ==
  ASSUME LoadInv, [LoadNext]_loadVars
  PROVE  LoadInv'
<1>1. CASE StartLoad       BY <1>1, StartLoadKeeps
<1>2. CASE ReadSetting     BY <1>2, ReadSettingKeeps
<1>3. CASE FinishLoad      BY <1>3, FinishLoadKeeps
<1>4. CASE TakeData        BY <1>4, TakeDataKeeps
<1>5. CASE ChangeSettings  BY <1>5, ChangeSettingsKeeps
<1>6. CASE UNCHANGED loadVars
  BY <1>6 DEF loadVars, LoadInv, LoadTypeOK, ReadSoFar, LoadedWasThere
<1> QED BY <1>1, <1>2, <1>3, <1>4, <1>5, <1>6 DEF LoadNext

-----------------------------------------------------------------------------
(* Whatever the server does, loading goes on as it does alone.              *)

\* A step of the system is one of loading, or leaves loading alone.
LEMMA SystemStepLoads ==
  ASSUME [SystemNext]_systemVars
  PROVE  [LoadNext]_loadVars
BY DEF SystemNext, Load, Serve, systemVars

\* For every width of the integers, every set of settings and every server, the
\* data that a server is constructed with was in the settings while it was loaded,
\* or is the cleared one (load_keep_alive_data and the constructor of TcpSocket).
THEOREM DataWasThere == SystemSpec => []LoadedWasThere
<1>1. SystemInit => LoadInv
  BY LoadInvInit DEF SystemInit
<1>2. LoadInv /\ [SystemNext]_systemVars => LoadInv'
  BY SystemStepLoads, LoadStepKeeps
<1>3. LoadInv => LoadedWasThere
  BY DEF LoadInv
<1> QED BY <1>1, <1>2, <1>3, PTL DEF SystemSpec

=============================================================================
