-------------------------- MODULE Lifecycle_proofs --------------------------
(***************************************************************************)
(* Proofs about the life of an installation.  Its integrations, for any    *)
(* kinds, devices and requests: what is saved serves.  Its boot after a    *)
(* staged restore, however often its process dies: all or nothing.  Its    *)
(* update, for any number of updaters launched one after another, when     *)
(* requests come one at a time: two at once may both launch (run           *)
(* update_clicks).  The lists its sweeps share, for any backends, sweeps   *)
(* and readings: nobody waits for a reading that is over.                  *)
(***************************************************************************)
EXTENDS Integrations, Boot, Update, IotReads, SequenceTheorems, FiniteSetTheorems, TLAPS

-----------------------------------------------------------------------------
\* Integrations.

Places == {"idle", "merge", "upsert", "apply"}
Configs == [Kinds -> Lists]
Rows == [config : Configs, enabled : BOOLEAN]
Edits == [at : Places, kind : Kinds \cup {None}, config : Configs, enabled : BOOLEAN, adopts : BOOLEAN]

IntegrationsTypeOK ==
  /\ row \in Rows \cup {None}
  /\ edit \in [Editors -> Edits]
  /\ unapplied \in BOOLEAN

\* The stored configuration and the manager in use agree whenever nobody owes
\* a build: as it stands this is inductive, once the types are known.
ServedInv == IntegrationsTypeOK /\ LiveIsSaved

-----------------------------------------------------------------------------
\* Types of the pieces.

LEMMA NothingType == Nothing \in Configs
  BY DEF Nothing, Configs, Lists

LEMMA NoEditType == NoEdit \in Edits
  BY NothingType DEF NoEdit, Edits, Places

LEMMA StoredType ==
  ASSUME IntegrationsTypeOK, row = None \/ row \in Rows
  PROVE  StoredConfig \in Configs
  BY NothingType DEF StoredConfig, Rows

LEMMA MergedType ==
  ASSUME IntegrationsTypeOK, NEW e \in Editors
  PROVE  Merged(e) \in Configs
<1>1. StoredConfig \in Configs
  BY StoredType DEF IntegrationsTypeOK
<1>2. edit[e].config \in Configs
  BY DEF IntegrationsTypeOK, Edits
<1>3. ASSUME NEW k \in Kinds
      PROVE  (CASE edit[e].config[k] # None -> edit[e].config[k]
                [] StoredConfig[k] # None -> StoredConfig[k]
                [] OTHER -> IF k = edit[e].kind THEN {} ELSE None) \in Lists
  <2>1. edit[e].config[k] \in Lists /\ StoredConfig[k] \in Lists
    BY <1>1, <1>2 DEF Configs
  <2>2. {} \in Lists /\ None \in Lists
    BY DEF Lists
  <2>3. CASE edit[e].config[k] # None /\ StoredConfig[k] # None
    BY <2>1, <2>3
  <2>4. CASE edit[e].config[k] # None /\ StoredConfig[k] = None
    BY <2>1, <2>4
  <2>5. CASE edit[e].config[k] = None /\ StoredConfig[k] # None
    BY <2>1, <2>5
  <2>6. CASE edit[e].config[k] = None /\ StoredConfig[k] = None
    BY <2>2, <2>6
  <2> QED BY <2>3, <2>4, <2>5, <2>6
<1> QED BY <1>3 DEF Merged, Configs

-----------------------------------------------------------------------------
LEMMA IntegrationsInitInvariant == IntegrationsInit => ServedInv
<1> SUFFICES ASSUME IntegrationsInit PROVE ServedInv
  OBVIOUS
<1>1. IntegrationsTypeOK
  BY NoEditType DEF IntegrationsInit, IntegrationsTypeOK
<1>2. LiveIsSaved
  BY DEF IntegrationsInit, LiveIsSaved, LiveFrom
<1> QED BY <1>1, <1>2 DEF ServedInv

\* Beginning: the new edit waits at its merge, and owes nothing.
LEMMA EditingStep ==
  ASSUME ServedInv, NEW e \in Editors, NEW k \in Kinds, NEW list \in Lists,
         NEW enabled \in BOOLEAN, NEW adopts \in BOOLEAN,
         edit[e].at = "idle",
         Editing(e, k, list, enabled, adopts), UNCHANGED <<row, inUse, unapplied>>
  PROVE  ServedInv'
<1> DEFINE new == [at |-> "merge", kind |-> k, config |-> [Nothing EXCEPT ![k] = list],
                   enabled |-> enabled, adopts |-> adopts]
<1>1. [Nothing EXCEPT ![k] = list] \in Configs
  BY NothingType DEF Configs
<1>2. new \in Edits
  BY <1>1 DEF Edits, Places
<1>3. edit' = [edit EXCEPT ![e] = new]
  BY DEF Editing
<1> HIDE DEF new
<1>4. IntegrationsTypeOK'
  BY <1>2, <1>3 DEF ServedInv, IntegrationsTypeOK
<1>5. new.at = "merge"
  BY DEF new
<1>6. \A f \in Editors : edit'[f].at = "apply" <=> edit[f].at = "apply"
  BY <1>3, <1>5 DEF ServedInv, IntegrationsTypeOK
<1>7. LiveIsSaved'
  BY <1>6 DEF ServedInv, LiveIsSaved, LiveFrom
<1> QED BY <1>4, <1>7 DEF ServedInv

LEMMA PutStep ==
  ASSUME ServedInv, NEW e \in Editors, NEW k \in Kinds, NEW list \in Lists, NEW on \in BOOLEAN,
         PutConfig(e, k, list, on)
  PROVE  ServedInv'
  BY EditingStep DEF PutConfig

LEMMA AdoptStep ==
  ASSUME ServedInv, NEW e \in Editors, NEW k \in Kinds, NEW d \in Devices, Adopt(e, k, d)
  PROVE  ServedInv'
<1> DEFINE known == IF row # None /\ row.enabled /\ row.config[k] # None THEN row.config[k] ELSE {}
           list == IF d \in known THEN None ELSE known \cup {d}
<1>1. known \subseteq Devices
  <2>1. CASE row # None /\ row.enabled /\ row.config[k] # None
    <3>1. row \in Rows
      BY <2>1 DEF ServedInv, IntegrationsTypeOK
    <3>2. row.config[k] \in Lists
      BY <3>1 DEF Rows, Configs
    <3> QED BY <2>1, <3>2 DEF Lists
  <2>2. CASE ~(row # None /\ row.enabled /\ row.config[k] # None)
    BY <2>2
  <2> QED BY <2>1, <2>2
<1>2. list \in Lists
  <2> HIDE DEF known
  <2> QED BY <1>1 DEF Lists
<1>3. Editing(e, k, list, TRUE, TRUE)
  BY DEF Adopt
<1> HIDE DEF list
<1> QED BY <1>2, <1>3, EditingStep DEF Adopt

LEMMA MergeStep ==
  ASSUME ServedInv, NEW e \in Editors, Merge(e)
  PROVE  ServedInv'
<1>1. Merged(e) \in Configs
  BY MergedType DEF ServedInv
<1>2. edit' = [edit EXCEPT ![e] = [edit[e] EXCEPT !.at = "upsert", !.config = Merged(e)]]
  BY DEF Merge
<1>3. edit[e] \in Edits
  BY DEF ServedInv, IntegrationsTypeOK
<1>4. [edit[e] EXCEPT !.at = "upsert", !.config = Merged(e)] \in Edits
  BY <1>1, <1>3 DEF Edits, Places
<1>5. IntegrationsTypeOK'
  BY <1>2, <1>4 DEF ServedInv, IntegrationsTypeOK, Merge
<1>6. \A f \in Editors : edit'[f].at = "apply" <=> edit[f].at = "apply"
  BY <1>2, <1>3 DEF ServedInv, IntegrationsTypeOK, Merge, Edits
<1>7. LiveIsSaved'
  BY <1>6 DEF ServedInv, LiveIsSaved, LiveFrom, Merge
<1> QED BY <1>5, <1>7 DEF ServedInv

\* A change of the row is owed a build: its own request is at `apply'.
LEMMA OwedStep ==
  ASSUME ServedInv, NEW e \in Editors, row' \in Rows \cup {None},
         edit' = [edit EXCEPT ![e].at = "apply"], UNCHANGED <<inUse, unapplied>>
  PROVE  ServedInv'
<1>1. [edit[e] EXCEPT !.at = "apply"] \in Edits
  BY DEF ServedInv, IntegrationsTypeOK, Edits, Places
<1>2. IntegrationsTypeOK'
  BY <1>1 DEF ServedInv, IntegrationsTypeOK
<1>3. edit'[e].at = "apply"
  BY DEF ServedInv, IntegrationsTypeOK, Edits
<1>4. LiveIsSaved'
  BY <1>3 DEF LiveIsSaved
<1> QED BY <1>2, <1>4 DEF ServedInv

LEMMA UpsertStep ==
  ASSUME ServedInv, NEW e \in Editors, Upsert(e)
  PROVE  ServedInv'
<1>1. edit[e] \in Edits
  BY DEF ServedInv, IntegrationsTypeOK
<1>2. row' \in Rows
  BY <1>1 DEF Upsert, Rows, Edits
<1> QED BY <1>2, OwedStep DEF Upsert

LEMMA RemoveStep ==
  ASSUME ServedInv, NEW e \in Editors, Remove(e)
  PROVE  ServedInv'
  BY OwedStep DEF Remove

LEMMA ReconfigureStep ==
  ASSUME ServedInv, NEW e \in Editors, Reconfigure(e)
  PROVE  ServedInv'
<1>1. IntegrationsTypeOK'
  BY NoEditType DEF ServedInv, IntegrationsTypeOK, Reconfigure
<1>2. LiveIsSaved'
  BY DEF Reconfigure, LiveIsSaved, LiveFrom, Effective
<1> QED BY <1>1, <1>2 DEF ServedInv

LEMMA FailsStep ==
  ASSUME ServedInv, NEW e \in Editors, EditFails(e)
  PROVE  ServedInv'
<1>1. IntegrationsTypeOK'
  BY NoEditType DEF ServedInv, IntegrationsTypeOK, EditFails
<1>2. ASSUME \A f \in Editors : edit'[f].at # "apply", ~unapplied'
      PROVE  inUse' = LiveFrom(row)
  <2>1. edit[e].at # "apply" /\ ~unapplied
    BY <1>2 DEF EditFails, ServedInv, IntegrationsTypeOK
  <2>2. \A f \in Editors : edit[f].at # "apply"
    BY <1>2, <2>1 DEF EditFails, ServedInv, IntegrationsTypeOK
  <2> QED BY <2>1, <2>2 DEF ServedInv, LiveIsSaved, EditFails
<1>3. LiveIsSaved'
  BY <1>2 DEF LiveIsSaved, LiveFrom, EditFails
<1> QED BY <1>1, <1>3 DEF ServedInv

LEMMA StartStep ==
  ASSUME ServedInv, AgentStarts
  PROVE  ServedInv'
<1>1. IntegrationsTypeOK'
  BY NoEditType DEF ServedInv, IntegrationsTypeOK, AgentStarts
<1>2. LiveIsSaved'
  BY DEF AgentStarts, LiveIsSaved, LiveFrom
<1> QED BY <1>1, <1>2 DEF ServedInv

LEMMA IntegrationsNextInvariant == ServedInv /\ [IntegrationsNext]_integrationVars => ServedInv'
<1> SUFFICES ASSUME ServedInv, [IntegrationsNext]_integrationVars PROVE ServedInv'
  OBVIOUS
<1>1. CASE UNCHANGED integrationVars
  BY <1>1 DEF ServedInv, IntegrationsTypeOK, LiveIsSaved, LiveFrom, integrationVars
<1>2. CASE AgentStarts
  BY <1>2, StartStep
<1>3. ASSUME NEW e \in Editors, NEW k \in Kinds, NEW list \in Lists, NEW on \in BOOLEAN,
             PutConfig(e, k, list, on)
      PROVE  ServedInv'
  BY <1>3, PutStep
<1>4. ASSUME NEW e \in Editors, NEW k \in Kinds, NEW d \in Devices, Adopt(e, k, d)
      PROVE  ServedInv'
  BY <1>4, AdoptStep
<1>5. ASSUME NEW e \in Editors,
             Merge(e) \/ Upsert(e) \/ Remove(e) \/ Reconfigure(e) \/ EditFails(e)
      PROVE  ServedInv'
  BY <1>5, MergeStep, UpsertStep, RemoveStep, ReconfigureStep, FailsStep
<1> QED BY <1>1, <1>2, <1>3, <1>4, <1>5 DEF IntegrationsNext

-----------------------------------------------------------------------------
\* However savings, removals, adoptions, failures and restarts interleave,
\* once every change has been applied the manager that answers is the one of
\* the stored configuration (buildIntegrationRuntime.reconfigure).
THEOREM WhatIsSavedServes == IntegrationsSpec => []LiveIsSaved
<1>1. ServedInv => LiveIsSaved
  BY DEF ServedInv
<1> QED BY <1>1, IntegrationsInitInvariant, IntegrationsNextInvariant, PTL DEF IntegrationsSpec

-----------------------------------------------------------------------------
\* Boot.

\* The steps that copy the archive over the live files, those that put the
\* previous ones back, and those that do so for a database from the future.
Restoring == {"save", "saveWal", "dropWal", "shm", "put", "clear"}
PuttingBack == {"undo", "undoWal"}
GivingBack == {"giveBackDb", "giveBackKeys", "retract", "giveBackWal"}

\* How far the boot has come tells which files count as applied: those of the
\* archive, all of it or what an earlier death left, up to the one in hand.
StepsInv ==
  /\ before.db = "old"
  /\ at = "serving" => staging.db \in {"none", "new"} /\ staging.keys \in {"none", "new"}
  /\ at \in {"migrate"} \cup GivingBack => Held(staging) = {}
  /\ at \in Restoring => handled \in Held(staging)
  /\ at = "save" => applied.done = (IF handled = "db" THEN {} ELSE Held(staging) \ {"keys"})
  /\ at = "save" /\ handled = "db" => kept = NoFiles
  /\ at \in Restoring /\ (at = "save" \/ handled = "db") => kept.keys = "none"
  /\ at \in {"saveWal", "dropWal", "shm"} => handled = "db" /\ applied.done = {}
  /\ at = "put" => applied.done = (IF handled = "db" THEN {"db"} ELSE Held(staging))
  /\ at = "clear" => applied.done = Held(staging)
  /\ at \in {"save", "put", "clear", "migrate"} \cup GivingBack /\ (at \in Restoring \/ applied.known) =>
       (kept.db # "none" => "db" \in applied.done)
  /\ at \in PuttingBack => handled \in applied.done
  /\ at = "undoWal" => handled = "db" /\ kept.wal # "none"
  /\ at \in Restoring \cup PuttingBack \cup {"aside"} => ~applied.known
  /\ at \in GivingBack => applied.known /\ kept.db # "none"

\* A WAL lies beside the database of before only, or what a cut has left of
\* it; so no database is ever opened with the WAL of another.
WalInv ==
  /\ live.db # "mixed" /\ kept.db # "mixed" /\ staging.db # "mixed"
  /\ live.wal # "none" => live.db \in {"old", "torn"} /\ before.wal # "none"
  /\ kept.wal # "none" => kept.db \in {"old", "torn"} /\ before.wal # "none"
  /\ "wal" \in live.unsynced => live.wal # "none"
  /\ at = "serving" => live.wal = "none" /\ kept.wal = "none"
  /\ at \in {"saveWal", "dropWal"} => live.wal # "none" /\ kept.db = live.db
  /\ at = "saveWal" => kept.wal = "none"
  /\ at = "dropWal" => kept.wal = live.wal
  /\ at = "shm" \/ at \in GivingBack => live.wal = "none"
  /\ at \in Restoring /\ "db" \in applied.done => live.wal = "none"
  /\ at = "undo" /\ handled = "db" => live.wal = "none"
  /\ at \in {"undoWal", "giveBackKeys", "retract", "giveBackWal"} => live.db = kept.db

\* Unless the power failed, the database of before is whole in place or filed
\* in a directory; it is filed before it is touched.
Holds(where) == where.db = "old" /\ where.wal = before.wal
Filed == \E where \in rescue \cup {kept} : Holds(where)
Touched == at = "shm" \/ (at \notin {"serving", "down"} /\ "db" \in applied.done)
RescueInv ==
  ~Is("cut") =>
    /\ at # "serving" => Holds(live) \/ Filed
    /\ Touched => Filed

\* After nothing but what the code survives: where the boot stands, the files
\* are those of before, those of the archive, or on their way to one of them;
\* and what the handler of a failure would put back is what there was.
OnlyKilled == Only({"killed"})
Lacking == {f \in Names : before[f] = "none"}
OfBefore(files) ==
  files.db = before.db /\ files.keys = before.keys /\ files.wal = before.wal
PutAllBack ==
  [db |-> IF "db" \in applied.done THEN kept.db ELSE live.db,
   keys |-> IF "keys" \in applied.done THEN kept.keys ELSE live.keys,
   wal |-> IF "db" \in applied.done THEN kept.wal ELSE live.wal]
\* (an archive lacks only what it has given)
GivenFirst ==
  \A f \in Names : staging[f] = "none" /\ Held(staging) # {} => live[f] = "new" /\ hurt # <<>>
Survives ==
  /\ staging.db \in {"none", "new"} /\ staging.keys \in {"none", "new"}
  /\ at = "serving" => Restored \/ AsBefore
  /\ at \in {"down"} \cup Restoring => GivenFirst
  /\ at = "down" /\ Held(staging) # {} => OnlyKilled /\ (hurt = <<>> => OfBefore(live))
  /\ at = "down" /\ Held(staging) = {} => OfBefore(live) \/ (Restored /\ ~newer)
  /\ at \in Restoring => OnlyKilled
  /\ at \in Restoring /\ handled = "keys" => live.db = "new"
  /\ at = "clear" => Restored
  /\ at \in Restoring \ {"shm"} /\ hurt = <<>> => OfBefore(PutAllBack)
  /\ at = "shm" /\ hurt = <<>> => OfBefore([live EXCEPT !.wal = kept.wal]) /\ kept.db = live.db
  /\ at \in PuttingBack => hurt = <<"file">> /\ OfBefore(PutAllBack)
  /\ at = "undoWal" \/ (at = "undo" /\ handled = "keys") => live.db = before.db
  /\ at = "undo" /\ handled = "keys" => live.wal = before.wal
  /\ at = "aside" => hurt = <<"file">> /\ OfBefore(live)
  /\ at = "migrate" => OfBefore(live) \/ Restored
  /\ at \in GivingBack => newer
  /\ at \in GivingBack \/ (at = "migrate" /\ Restored /\ newer) =>
       hurt = <<>> /\ applied.known /\ OfBefore(kept) /\ applied.added = Lacking
  /\ at = "retract" /\ before.keys # "none" => live.keys = before.keys
  /\ at = "giveBackWal" => live.keys = before.keys
SurviveInv == MeantToSurvive => Survives

BootInv == BootTypeOK /\ StepsInv /\ WalInv /\ RescueInv /\ SurviveInv

USE DEF bootVars, Moves, Static, Names, AllNames, Restoring, PuttingBack, GivingBack

-----------------------------------------------------------------------------
\* What each operation makes of the fields of a directory.

LEMMA CopiedFields ==
  ASSUME NEW dir \in Directories, NEW f \in AllNames, NEW v \in FileVersions,
         f = "wal" => v \in {"none", "old", "torn"}
  PROVE  /\ Copied(dir, f, v) \in Directories
         /\ Copied(dir, f, v).db = (IF f = "db" THEN v ELSE dir.db)
         /\ Copied(dir, f, v).keys = (IF f = "keys" THEN v ELSE dir.keys)
         /\ Copied(dir, f, v).wal = (IF f = "wal" THEN v ELSE dir.wal)
         /\ Copied(dir, f, v).unsynced = dir.unsynced \cup {f}
<1>1. CASE f = "db"
  BY <1>1 DEF Copied, Directories
<1>2. CASE f = "keys"
  BY <1>2 DEF Copied, Directories
<1>3. CASE f = "wal"
  BY <1>3 DEF Copied, Directories
<1> QED BY <1>1, <1>2, <1>3

LEMMA WithoutFields ==
  ASSUME NEW dir \in Directories, NEW f \in AllNames
  PROVE  /\ Without(dir, f) \in Directories
         /\ Without(dir, f).db = (IF f = "db" THEN "none" ELSE dir.db)
         /\ Without(dir, f).keys = (IF f = "keys" THEN "none" ELSE dir.keys)
         /\ Without(dir, f).wal = (IF f = "wal" THEN "none" ELSE dir.wal)
         /\ Without(dir, f).unsynced = dir.unsynced \ {f}
<1>0. "none" \in FileVersions
  BY DEF FileVersions
<1>1. CASE f = "db"
  BY <1>0, <1>1 DEF Without, Directories
<1>2. CASE f = "keys"
  BY <1>0, <1>2 DEF Without, Directories
<1>3. CASE f = "wal"
  BY <1>3 DEF Without, Directories
<1> QED BY <1>1, <1>2, <1>3

LEMMA TornFields ==
  ASSUME NEW dir \in Directories, NEW files \in SUBSET AllNames
  PROVE  /\ Torn(dir, files) \in Directories
         /\ Torn(dir, files).db = (IF "db" \in files THEN "torn" ELSE dir.db)
         /\ Torn(dir, files).keys = (IF "keys" \in files THEN "torn" ELSE dir.keys)
         /\ Torn(dir, files).wal = (IF "wal" \in files THEN "torn" ELSE dir.wal)
         /\ Torn(dir, files).unsynced = dir.unsynced \cup files
<1>0. "torn" \in FileVersions
  BY DEF FileVersions
<1> QED BY <1>0 DEF Torn, Directories

LEMMA AfterCutFields ==
  ASSUME NEW dir \in Directories, NEW cut \in SUBSET AllNames, NEW left \in AfterCut(dir, cut)
  PROVE  /\ left \in Directories /\ left.unsynced = {}
         /\ left.db \in {dir.db, "torn"} /\ left.keys \in {dir.keys, "torn"}
         /\ left.wal = dir.wal \/ (left.wal = "torn" /\ "wal" \in dir.unsynced \cup cut)
<1>1. PICK lost \in SUBSET (dir.unsynced \cup cut) : left = [Torn(dir, lost) EXCEPT !.unsynced = {}]
  BY DEF AfterCut
<1>2. lost \in SUBSET AllNames
  BY DEF Directories
<1>3. Torn(dir, lost) \in Directories
  BY <1>2, TornFields
<1>4. /\ left \in Directories /\ left.unsynced = {}
      /\ left.db = Torn(dir, lost).db /\ left.keys = Torn(dir, lost).keys /\ left.wal = Torn(dir, lost).wal
  BY <1>1, <1>3 DEF Directories
<1> QED BY <1>1, <1>2, <1>4, TornFields

LEMMA NoFilesType == NoFiles \in Directories
  BY DEF NoFiles, Directories, FileVersions

-----------------------------------------------------------------------------
\* What each step does to them.

\* A directory was copied into, or lost a file.
IsCopied(new, old, f, v) ==
  /\ new \in Directories
  /\ new.db = (IF f = "db" THEN v ELSE old.db)
  /\ new.keys = (IF f = "keys" THEN v ELSE old.keys)
  /\ new.wal = (IF f = "wal" THEN v ELSE old.wal)
  /\ new.unsynced \subseteq old.unsynced \cup {f}
  /\ v = "none" => f \notin new.unsynced

\* Files of a directory may have been torn.
IsTorn(new, old, cut) ==
  /\ new \in Directories
  /\ new.db = old.db \/ (new.db = "torn" /\ "db" \in cut)
  /\ new.keys = old.keys \/ (new.keys = "torn" /\ "keys" \in cut)
  /\ new.wal = old.wal \/ (new.wal = "torn" /\ "wal" \in cut)
  /\ "wal" \in new.unsynced => "wal" \in old.unsynced \/ new.wal = "torn"

LEMMA CopiedIs ==
  ASSUME NEW dir \in Directories, NEW f \in AllNames, NEW v \in FileVersions, v # "none",
         f = "wal" => v \in {"none", "old", "torn"}
  PROVE  IsCopied(Copied(dir, f, v), dir, f, v)
  BY CopiedFields DEF IsCopied

LEMMA WithoutIs ==
  ASSUME NEW dir \in Directories, NEW f \in AllNames
  PROVE  IsCopied(Without(dir, f), dir, f, "none")
  BY WithoutFields DEF IsCopied

LEMMA TornIs ==
  ASSUME NEW dir \in Directories, NEW cut \in SUBSET AllNames, NEW new \in {Torn(dir, c) : c \in SUBSET cut}
  PROVE  IsTorn(new, dir, cut)
<1>1. PICK c \in SUBSET cut : new = Torn(dir, c)
  OBVIOUS
<1> QED BY <1>1, TornFields DEF IsTorn

LEMMA VersionsType ==
  ASSUME NEW dir \in Directories, NEW f \in Names
  PROVE  dir[f] \in FileVersions
  BY DEF Directories

LEMMA ClearStagingFields ==
  ASSUME BootTypeOK, ClearStaging
  PROVE  \E f \in Names : IsCopied(staging', staging, f, "none")
  BY WithoutIs DEF BootTypeOK, ClearStaging, Held

LEMMA SaveFields ==
  ASSUME BootTypeOK, Save
  PROVE  /\ kept' \in Directories
         /\ kept'.db = (IF handled = "db" /\ live.db # "none" THEN live.db ELSE kept.db)
         /\ kept'.keys = (IF handled = "keys" /\ live.keys # "none" THEN live.keys ELSE kept.keys)
         /\ kept'.wal = kept.wal
<1>0. live \in Directories /\ kept \in Directories /\ handled \in Names /\ live[handled] \in FileVersions
  BY VersionsType DEF BootTypeOK
<1>1. CASE live[handled] = "none"
  BY <1>0, <1>1 DEF Save
<1>2. CASE live[handled] # "none"
  <2>1. kept' = Copied(kept, handled, live[handled])
    BY <1>2 DEF Save
  <2>2. IsCopied(kept', kept, handled, live[handled])
    BY <1>0, <1>2, <2>1, CopiedIs
  <2> QED BY <1>0, <1>2, <2>2 DEF IsCopied
<1> QED BY <1>1, <1>2

LEMMA SaveWalFields ==
  ASSUME BootTypeOK, SaveWal, live.wal # "none"
  PROVE  IsCopied(kept', kept, "wal", live.wal)
<1>1. kept \in Directories /\ live.wal \in {"none", "old", "torn"} /\ live.wal \in FileVersions
  BY DEF BootTypeOK, Directories, FileVersions
<1> QED BY <1>1, CopiedIs DEF SaveWal, SavedWal, KeepsWal

LEMMA DropWalFields ==
  ASSUME BootTypeOK, DropWal
  PROVE  IsCopied(live', live, "wal", "none")
  BY WithoutIs DEF BootTypeOK, DropWal

LEMMA PutFields ==
  ASSUME BootTypeOK, Put, staging[handled] # "none"
  PROVE  IsCopied(live', live, handled, staging[handled])
<1>1. live \in Directories /\ handled \in AllNames /\ handled # "wal" /\ staging[handled] \in FileVersions
  BY VersionsType DEF BootTypeOK
<1> QED BY <1>1, CopiedIs DEF Put

LEMMA UndoFields ==
  ASSUME BootTypeOK, Undo
  PROVE  IsCopied(live', live, handled, kept[handled])
<1>1. live \in Directories /\ handled \in AllNames /\ handled # "wal" /\ kept[handled] \in FileVersions
  BY VersionsType DEF BootTypeOK
<1> QED BY <1>1, CopiedIs, WithoutIs DEF Undo, PutBack

LEMMA WalBackFields ==
  ASSUME BootTypeOK, kept.wal # "none"
  PROVE  IsCopied(Copied(live, "wal", kept.wal), live, "wal", kept.wal)
<1>1. live \in Directories /\ kept.wal \in {"none", "old", "torn"} /\ kept.wal \in FileVersions
  BY DEF BootTypeOK, Directories, FileVersions
<1> QED BY <1>1, CopiedIs

LEMMA OpenedFields ==
  ASSUME BootTypeOK, OpenDatabase
  PROVE  /\ live' \in Directories /\ live'.wal = "none" /\ live'.keys = live.keys
         /\ live'.db = (CASE live.db = "old" /\ live.wal # before.wal -> "stale"
                          [] live.db # "old" /\ live.wal # "none" -> "mixed"
                          [] OTHER -> live.db)
         /\ "wal" \notin live'.unsynced
<1> DEFINE version == CASE live.db = "old" /\ live.wal # before.wal -> "stale"
                        [] live.db # "old" /\ live.wal # "none" -> "mixed"
                        [] OTHER -> live.db
<1>0. live \in Directories /\ live.db \in FileVersions
  BY DEF BootTypeOK, Directories
<1>1. version \in FileVersions
  BY <1>0 DEF FileVersions
<1>2. IsCopied(Without(live, "wal"), live, "wal", "none") /\ Without(live, "wal").db = live.db
  BY <1>0, WithoutIs, WithoutFields
<1>3. live' = [Without(live, "wal") EXCEPT !.db = version]
  BY <1>2 DEF OpenDatabase, Opened
<1> HIDE DEF version
<1>4. /\ live' \in Directories /\ live'.wal = "none" /\ live'.keys = live.keys
      /\ live'.db = version /\ "wal" \notin live'.unsynced
  BY <1>1, <1>2, <1>3 DEF IsCopied, Directories
<1> QED BY <1>4 DEF version

LEMMA GiveBackDbFields ==
  ASSUME BootTypeOK, GiveBackDb, kept.db # "none"
  PROVE  /\ live' \in Directories
         /\ live'.db = kept.db /\ live'.keys = live.keys /\ live'.wal = "none"
         /\ "wal" \notin live'.unsynced
<1>1. /\ Without(live, "wal") \in Directories /\ kept.db \in FileVersions
      /\ IsCopied(Without(live, "wal"), live, "wal", "none")
  BY WithoutFields, WithoutIs DEF BootTypeOK, Directories
<1>2. IsCopied(live', Without(live, "wal"), "db", kept.db)
  BY <1>1, CopiedIs DEF GiveBackDb
<1> QED BY <1>1, <1>2 DEF IsCopied

LEMMA GiveBackKeysFields ==
  ASSUME BootTypeOK, GiveBackKeys
  PROVE  /\ live' \in Directories /\ live'.db = live.db /\ live'.wal = live.wal
         /\ live'.keys = (IF kept.keys = "none" THEN live.keys ELSE kept.keys)
         /\ "wal" \in live'.unsynced => "wal" \in live.unsynced
<1>1. live \in Directories /\ kept.keys \in FileVersions
  BY DEF BootTypeOK, Directories
<1>2. CASE kept.keys = "none"
  BY <1>1, <1>2 DEF GiveBackKeys, GiveBack
<1>3. CASE kept.keys # "none"
  <2>1. IsCopied(live', live, "keys", kept.keys)
    BY <1>1, <1>3, CopiedIs DEF GiveBackKeys, GiveBack
  <2> QED BY <1>3, <2>1 DEF IsCopied
<1> QED BY <1>2, <1>3

LEMMA RetractFields ==
  ASSUME BootTypeOK, Retract
  PROVE  /\ live' \in Directories /\ live'.db = live.db /\ live'.wal = live.wal
         /\ live'.keys = (IF "keys" \in applied.added THEN "none" ELSE live.keys)
         /\ "wal" \in live'.unsynced => "wal" \in live.unsynced
  BY WithoutIs DEF Retract, IsCopied, BootTypeOK

LEMMA GiveBackWalFields ==
  ASSUME BootTypeOK, GiveBackWal
  PROVE  /\ live' \in Directories /\ live'.db = live.db /\ live'.keys = live.keys
         /\ live'.wal = (IF kept.wal = "none" THEN live.wal ELSE kept.wal)
         /\ "wal" \in live'.unsynced => "wal" \in live.unsynced \/ kept.wal # "none"
<1>1. CASE kept.wal = "none"
  BY <1>1 DEF GiveBackWal, GiveBack, BootTypeOK
<1>2. CASE kept.wal # "none"
  BY <1>2, WalBackFields DEF GiveBackWal, GiveBack, IsCopied
<1> QED BY <1>1, <1>2

LEMMA StopAgentFields ==
  ASSUME BootTypeOK, StopAgent
  PROVE  /\ live' \in Directories /\ before' \in Directories
         /\ live'.db = "old" /\ before'.db = "old"
         /\ live'.keys \in {"old", "none"} /\ before'.keys = live'.keys
         /\ live'.wal \in {"none", "old"} /\ before'.wal = live'.wal
         /\ live'.unsynced = live.unsynced
<1>1. PICK wal \in {"none", "old"} :
        live' = [live EXCEPT !.db = "old", !.keys = IF @ = "none" THEN "none" ELSE "old", !.wal = wal]
  BY DEF StopAgent
<1>2. live \in Directories /\ {"old", "none"} \subseteq FileVersions
  BY DEF BootTypeOK, FileVersions
<1>3. /\ live' \in Directories /\ live'.db = "old" /\ live'.keys \in {"old", "none"} /\ live'.wal = wal
      /\ live'.unsynced = live.unsynced
  BY <1>1, <1>2 DEF Directories
<1>4. before' = [live' EXCEPT !.unsynced = {}]
  BY DEF StopAgent
<1> QED BY <1>1, <1>3, <1>4 DEF Directories

LEMMA LeftFields ==
  ASSUME BootTypeOK, NEW left \in LeftNow
  PROVE  /\ left \in Directories
         /\ left.db = staging.db \/ (left.db = "none" /\ at \in {"clear", "aside"})
         /\ left.keys = staging.keys \/ (left.keys = "none" /\ at \in {"clear", "aside"})
<1>1. staging \in Directories
  BY DEF BootTypeOK
<1>2. NoFiles \in Directories /\ NoFiles.db = "none" /\ NoFiles.keys = "none"
  BY NoFilesType DEF NoFiles
<1> QED BY <1>1, <1>2, WithoutFields DEF LeftNow

LEMMA NowType == ASSUME BootTypeOK PROVE CopiedNow \in SUBSET AllNames /\ KeptNow \in SUBSET AllNames
  BY DEF BootTypeOK, CopiedNow, KeptNow

LEMMA CutShortFields ==
  ASSUME BootTypeOK, CutShort
  PROVE  /\ IsTorn(live', live, CopiedNow) /\ IsTorn(kept', kept, KeptNow)
         /\ staging' \in LeftNow /\ rescue' = rescue
<1>1. live \in Directories /\ kept \in Directories
  BY DEF BootTypeOK
<1>2. IsTorn(live', live, CopiedNow)
  BY <1>1, NowType, TornIs DEF CutShort
<1>3. IsTorn(kept', kept, KeptNow)
  BY <1>1, NowType, TornIs DEF CutShort
<1> QED BY <1>2, <1>3 DEF CutShort

LEMMA PowerFields ==
  ASSUME BootTypeOK, PowerFails
  PROVE  /\ live' \in Directories /\ live'.unsynced = {}
         /\ live'.db \in {live.db, "torn"} /\ live'.keys \in {live.keys, "torn"}
         /\ live'.wal = live.wal \/ (live'.wal = "torn" /\ "wal" \in live.unsynced \cup CopiedNow)
         /\ staging' \in Directories
         /\ staging'.db \in {staging.db, "none", "torn"} /\ staging'.keys \in {staging.keys, "none", "torn"}
<1>1. live \in Directories /\ live' \in AfterCut(live, CopiedNow) /\ CopiedNow \in SUBSET AllNames
  BY NowType DEF BootTypeOK, PowerFails
<1>2. PICK left \in LeftNow : staging' \in AfterCut(left, {})
  BY DEF PowerFails
<1>3. /\ left \in Directories
      /\ left.db \in {staging.db, "none"} /\ left.keys \in {staging.keys, "none"}
  BY LeftFields
<1>4. /\ staging' \in Directories
      /\ staging'.db \in {left.db, "torn"} /\ staging'.keys \in {left.keys, "torn"}
  BY <1>2, <1>3, AfterCutFields
<1>5. /\ live' \in Directories /\ live'.unsynced = {}
      /\ live'.db \in {live.db, "torn"} /\ live'.keys \in {live.keys, "torn"}
      /\ live'.wal = live.wal \/ (live'.wal = "torn" /\ "wal" \in live.unsynced \cup CopiedNow)
  BY <1>1, AfterCutFields
<1> QED BY <1>3, <1>4, <1>5

\* A misfortune is noted, and bounded.
LEMMA HurtType ==
  ASSUME BootTypeOK, NEW trouble \in Troubles, Again(trouble)
  PROVE  /\ hurt' \in Seq(Troubles)
         /\ Is("cut") => Is("cut")'
         /\ trouble = "cut" => Is("cut")'
<1>1. hurt' = Append(hurt, trouble) /\ hurt \in Seq(Troubles) /\ Len(hurt) \in Nat
  BY DEF Again, BootTypeOK
<1>2. /\ hurt' \in Seq(Troubles)
      /\ DOMAIN hurt' = 1 .. Len(hurt) + 1 /\ DOMAIN hurt = 1 .. Len(hurt)
      /\ hurt'[Len(hurt) + 1] = trouble
      /\ \A i \in 1 .. Len(hurt) : hurt'[i] = hurt[i]
  BY <1>1, AppendProperties
<1> QED BY <1>1, <1>2 DEF Is

-----------------------------------------------------------------------------
\* Every step keeps the types.
LEMMA BootTypeStep ==
  ASSUME BootTypeOK, [BootNext]_bootVars
  PROVE  BootTypeOK'
<1> USE DEF BootTypeOK
<1>0. /\ {"none", "old", "new", "torn", "mixed", "stale"} \subseteq FileVersions
      /\ {"serving", "down", "aside", "migrate"} \cup Restoring \cup PuttingBack \cup GivingBack \subseteq BootSteps
      /\ live.wal \in {"none", "old", "torn"}
  BY DEF FileVersions, BootSteps, Directories
<1>1. CASE Receive \/ Authenticate \/ ClearFails \/ Publish
  <2>1. Archive \in Directories
    BY DEF Archive, Directories, FileVersions
  <2> QED BY <1>1, <2>1 DEF Receive, Authenticate, ClearFails, Publish
<1>2. CASE ClearStaging
  BY <1>2, ClearStagingFields DEF ClearStaging, IsCopied
<1>3. CASE StopAgent
  <2>1. hurt' \in Seq(Troubles)
    <3>1. hurt' = <<"halved">> \/ hurt' = <<>>
      BY <1>3 DEF StopAgent
    <3>2. <<"halved">> \in Seq(Troubles) /\ <<>> \in Seq(Troubles)
      BY DEF Troubles
    <3> QED BY <3>1, <3>2
  <2> QED BY <1>0, <1>3, <2>1, StopAgentFields DEF StopAgent
<1>4. CASE StartBoot
  <2>1. handled' \in Names
    BY <1>4 DEF StartBoot, FirstOf
  <2> QED BY <1>0, <1>4, <2>1, NoFilesType DEF StartBoot, NotApplied
<1>5. CASE Save
  <2>1. kept' \in Directories
    BY <1>5, SaveFields
  <2>2. at' \in BootSteps /\ handled' \in Names
    BY <1>0, <1>5 DEF Save
  <2>3. applied' \in [done : SUBSET Names, added : SUBSET Names, known : BOOLEAN]
    BY <1>5 DEF Save
  <2> QED BY <1>5, <2>1, <2>2, <2>3 DEF Save
<1>6. CASE SaveWal
  <2>1. kept' \in Directories
    <3>1. CASE live.wal = "none"
      BY <1>6, <3>1, CopiedFields, <1>0 DEF SaveWal, SavedWal, KeepsWal
    <3>2. CASE live.wal # "none"
      BY <1>6, <3>2, SaveWalFields DEF IsCopied
    <3> QED BY <3>1, <3>2
  <2> QED BY <1>0, <1>6, <2>1 DEF SaveWal
<1>7. CASE DropWal
  BY <1>7, <1>0, DropWalFields DEF DropWal, IsCopied
<1>8. CASE RetireShm
  BY <1>8, <1>0 DEF RetireShm
<1>9. CASE Put
  <2>1. live' \in Directories
    BY <1>9, CopiedFields, VersionsType DEF Put
  <2>2. at' \in BootSteps /\ handled' \in Names
    BY <1>0, <1>9 DEF Put
  <2> QED BY <1>9, <2>1, <2>2 DEF Put
<1>10. CASE ClearApplied
  <2>1. Created \in SUBSET Names
    BY DEF Created
  <2> QED BY <1>0, <1>10, <2>1, NoFilesType DEF ClearApplied
<1>11. CASE Undo
  <2>1. at' \in BootSteps /\ handled' \in Names
    BY <1>0, <1>11 DEF Undo, UndoesNext
  <2> QED BY <1>11, <2>1, UndoFields DEF Undo, IsCopied
<1>12. CASE UndoWal
  <2>1. at' \in BootSteps /\ handled' \in Names
    BY <1>0, <1>12 DEF UndoWal, UndoesNext
  <2>2. kept.wal \in {"none", "old", "torn"} /\ kept.wal \in FileVersions
    BY <1>0 DEF Directories
  <2>3. live' \in Directories
    BY <1>12, <2>2, CopiedFields DEF UndoWal
  <2> QED BY <1>12, <2>1, <2>3 DEF UndoWal
<1>13. CASE SetAside
  BY <1>13, <1>0, NoFilesType DEF SetAside
<1>14. CASE OpenDatabase
  <2>1. live' \in Directories
    BY <1>14, OpenedFields
  <2> QED BY <1>0, <1>14, <2>1, NoFilesType DEF OpenDatabase, NotApplied
<1>15. CASE RefuseNewer
  BY <1>15, <1>0 DEF RefuseNewer, WhenRefused
<1>16. CASE GiveBackDb
  <2>1. Without(live, "wal") \in Directories /\ kept.db \in FileVersions
    BY WithoutFields DEF Directories
  <2>2. live' \in Directories
    BY <1>16, <2>1, CopiedFields DEF GiveBackDb
  <2> QED BY <1>0, <1>16, <2>2 DEF GiveBackDb
<1>17. CASE GiveBackKeys
  BY <1>17, <1>0, GiveBackKeysFields DEF GiveBackKeys
<1>18. CASE Retract
  BY <1>18, <1>0, RetractFields DEF Retract
<1>19. CASE GiveBackWal
  BY <1>19, <1>0, GiveBackWalFields DEF GiveBackWal
<1>20. CASE ProcessDies
  <2>1. "killed" \in Troubles /\ Again("killed")
    BY <1>20 DEF ProcessDies, Troubles
  <2>2. hurt' \in Seq(Troubles)
    BY <2>1, HurtType
  <2> HIDE DEF BootTypeOK
  <2>3. /\ live' \in Directories /\ kept' \in Directories /\ staging' \in Directories
        /\ rescue' = rescue
    BY <1>20, CutShortFields, LeftFields DEF ProcessDies, IsTorn
  <2>4. at' \in BootSteps /\ handled' \in Names
    BY <1>0, <1>20 DEF ProcessDies, BootTypeOK
  <2> QED BY <2>1, <2>2, <2>3, <2>4 DEF Again, BootTypeOK
<1>21. CASE PowerFails
  <2>1. "cut" \in Troubles /\ Again("cut")
    BY <1>21 DEF PowerFails, Troubles
  <2>2. hurt' \in Seq(Troubles)
    BY <2>1, HurtType
  <2>3. live' \in Directories /\ staging' \in Directories
    BY <1>21, PowerFields
  <2> QED BY <1>0, <1>21, <2>1, <2>2, <2>3, NoFilesType DEF PowerFails, Again
<1>22. CASE FileFails
  <2>1. (IF at \in {"shm", "clear"} THEN at ELSE "file") \in Troubles /\ Again((IF at \in {"shm", "clear"} THEN at ELSE "file"))
    BY <1>22 DEF FileFails, Troubles
  <2>2. hurt' \in Seq(Troubles)
    BY <2>1, HurtType
  <2> HIDE DEF BootTypeOK
  <2>3. /\ live' \in Directories /\ kept' \in Directories /\ staging' \in Directories
        /\ rescue' = rescue
    BY <1>22, CutShortFields, LeftFields DEF FileFails, IsTorn
  <2>4. at' \in BootSteps /\ handled' \in Names
    BY <1>0, <1>22 DEF FileFails, BootTypeOK, FirstOf
  <2> QED BY <2>1, <2>2, <2>3, <2>4 DEF Again, BootTypeOK
<1>23. CASE UndoFails
  <2>1. "late" \in Troubles /\ Again("late")
    BY <1>23 DEF UndoFails, Troubles
  <2>2. hurt' \in Seq(Troubles)
    BY <2>1, HurtType
  <2> HIDE DEF BootTypeOK
  <2>3. /\ live' \in Directories /\ kept' \in Directories /\ staging' \in Directories
        /\ rescue' = rescue
    BY <1>23, CutShortFields, LeftFields DEF UndoFails, IsTorn
  <2>4. at' \in BootSteps /\ handled' \in Names
    BY <1>0, <1>23 DEF UndoFails, BootTypeOK, UndoesNext
  <2> QED BY <2>1, <2>2, <2>3, <2>4 DEF Again, BootTypeOK
<1>24. CASE BootThrows
  <2>1. "late" \in Troubles /\ Again("late")
    BY <1>24 DEF BootThrows, Troubles
  <2>2. hurt' \in Seq(Troubles)
    BY <2>1, HurtType
  <2> HIDE DEF BootTypeOK
  <2>3. /\ live' \in Directories /\ kept' \in Directories /\ staging' \in Directories
        /\ rescue' = rescue
    BY <1>24, CutShortFields, LeftFields DEF BootThrows, IsTorn
  <2>4. at' \in BootSteps /\ handled' \in Names
    BY <1>0, <1>24 DEF BootThrows, BootTypeOK
  <2> QED BY <2>1, <2>2, <2>3, <2>4 DEF Again, BootTypeOK
<1>25. CASE MigrationFails
  <2>1. "migration" \in Troubles /\ Again("migration")
    BY <1>25 DEF MigrationFails, Troubles
  <2>2. hurt' \in Seq(Troubles)
    BY <2>1, HurtType
  <2> QED BY <1>0, <1>25, <2>1, <2>2 DEF MigrationFails, Again
<1>26. CASE UNCHANGED bootVars
  BY <1>26
<1> QED BY <1>1, <1>2, <1>3, <1>4, <1>5, <1>6, <1>7, <1>8, <1>9, <1>10, <1>11, <1>12, <1>13, <1>14, <1>15, <1>16, <1>17, <1>18, <1>19, <1>20, <1>21, <1>22, <1>23, <1>24, <1>25, <1>26
       DEF BootNext, BootStep

\* Every step keeps the books of how far it has come.
LEMMA StepsStep ==
  ASSUME BootTypeOK, StepsInv, [BootNext]_bootVars
  PROVE  StepsInv'
<1> USE DEF BootTypeOK, StepsInv
<1>1. CASE Receive \/ Authenticate \/ ClearFails \/ Publish
  BY <1>1 DEF Receive, Authenticate, ClearFails, Publish, Archive
<1>2. CASE ClearStaging
  BY <1>2, ClearStagingFields DEF ClearStaging, IsCopied
<1>3. CASE StopAgent
  BY <1>3, StopAgentFields DEF StopAgent
<1>4. CASE StartBoot
  <2>1. Held(staging) \subseteq Names /\ Held(staging)' = Held(staging)
    BY <1>4 DEF Held, StartBoot
  <2>2. /\ kept'.db = "none" /\ kept'.keys = "none" /\ kept' = NoFiles /\ applied'.done = {} /\ applied'.known = FALSE
        /\ before' = before
    BY <1>4 DEF StartBoot, NotApplied, NoFiles
  <2>3. CASE Held(staging) = {}
    BY <1>4, <2>1, <2>2, <2>3 DEF StartBoot
  <2>4. CASE Held(staging) = {"keys"}
    BY <1>4, <2>1, <2>2, <2>4 DEF StartBoot, FirstOf
  <2>5. CASE Held(staging) # {} /\ Held(staging) # {"keys"}
    <3>1. handled' = "db" /\ at' = "save" /\ "db" \in Held(staging)
      BY <1>4, <2>1, <2>5 DEF StartBoot, FirstOf
    <3> QED BY <2>1, <2>2, <3>1
  <2> QED BY <2>3, <2>4, <2>5
<1>5. CASE Save
  <2>0. Held(staging) \subseteq Names /\ Held(staging)' = Held(staging)
    BY <1>5 DEF Held, Save
  <2>1. CASE handled = "db"
    BY <1>5, <2>0, <2>1, SaveFields DEF Save
  <2>2. CASE handled = "keys"
    BY <1>5, <2>0, <2>2, SaveFields DEF Save
  <2> QED BY <2>1, <2>2
<1>6. CASE SaveWal
  <2>1. Held(staging)' = Held(staging)
    BY <1>6 DEF Held, SaveWal
  <2>2. kept'.keys = kept.keys
    BY <1>6 DEF SaveWal, SavedWal, KeepsWal, Copied, Directories
  <2> QED BY <1>6, <2>1, <2>2 DEF SaveWal
<1>7. CASE DropWal
  <2>1. Held(staging)' = Held(staging)
    BY <1>7 DEF Held, DropWal
  <2> QED BY <1>7, <2>1 DEF DropWal
<1>8. CASE RetireShm
  <2>1. Held(staging)' = Held(staging)
    BY <1>8 DEF Held, RetireShm
  <2> QED BY <1>8, <2>1 DEF RetireShm
<1>9. CASE Put
  <2>1. Held(staging)' = Held(staging) /\ Held(staging) \subseteq Names
    BY <1>9 DEF Held, Put
  <2>2. CASE handled = "db" /\ "keys" \in Held(staging)
    BY <1>9, <2>1, <2>2 DEF Put
  <2>3. CASE handled = "db" /\ "keys" \notin Held(staging)
    <3>1. Held(staging) = {"db"} /\ applied.done = {"db"} /\ at' = "clear"
      BY <1>9, <2>1, <2>3 DEF Put
    <3> QED BY <1>9, <2>1, <2>3, <3>1 DEF Put
  <2>4. CASE handled = "keys"
    BY <1>9, <2>1, <2>4 DEF Put
  <2> QED BY <2>2, <2>3, <2>4
<1>10. CASE ClearApplied
  <2>1. Held(staging)' = {}
    BY <1>10 DEF Held, ClearApplied, NoFiles
  <2> QED BY <1>10, <2>1 DEF ClearApplied
<1>11. CASE Undo
  BY <1>11 DEF Undo, UndoesNext, ToUndo, AllApplied
<1>12. CASE UndoWal
  BY <1>12 DEF UndoWal, UndoesNext, ToUndo, AllApplied
<1>13. CASE SetAside
  <2>1. Held(staging)' = {}
    BY <1>13 DEF Held, SetAside, NoFiles
  <2> QED BY <1>13, <2>1 DEF SetAside
<1>14. CASE OpenDatabase
  <2>1. staging.db = "none" /\ staging.keys = "none"
    BY <1>14 DEF Held, OpenDatabase
  <2> QED BY <1>14, <2>1 DEF OpenDatabase
<1>15. CASE RefuseNewer
  <2>1. Held(staging)' = Held(staging)
    BY <1>15 DEF Held, RefuseNewer
  <2> QED BY <1>15, <2>1 DEF RefuseNewer, WhenRefused, Unknown
<1>16. CASE GiveBackDb
  <2>1. Held(staging)' = Held(staging)
    BY <1>16 DEF Held, GiveBackDb
  <2> QED BY <1>16, <2>1 DEF GiveBackDb
<1>17. CASE GiveBackKeys
  <2>1. Held(staging)' = Held(staging)
    BY <1>17 DEF Held, GiveBackKeys
  <2> QED BY <1>17, <2>1 DEF GiveBackKeys
<1>18. CASE Retract
  <2>1. Held(staging)' = Held(staging)
    BY <1>18 DEF Held, Retract
  <2> QED BY <1>18, <2>1 DEF Retract
<1>19. CASE GiveBackWal
  <2>1. Held(staging)' = Held(staging)
    BY <1>19 DEF Held, GiveBackWal
  <2> QED BY <1>19, <2>1 DEF GiveBackWal
<1>20. CASE ProcessDies
  BY <1>20 DEF ProcessDies, Again
<1>21. CASE PowerFails
  BY <1>21 DEF PowerFails, Again
<1>22. CASE FileFails
  <2>1. applied.done \subseteq Names
    OBVIOUS
  <2> QED BY <1>22, <2>1 DEF FileFails, Again, ToUndo, AllApplied, FirstOf
<1>23. CASE UndoFails
  BY <1>23 DEF UndoFails, Again, UndoesNext, ToUndo, AllApplied
<1>24. CASE BootThrows
  BY <1>24 DEF BootThrows, Again
<1>25. CASE MigrationFails
  BY <1>25 DEF MigrationFails, Again
<1>26. CASE UNCHANGED bootVars
  BY <1>26
<1> QED BY <1>1, <1>2, <1>3, <1>4, <1>5, <1>6, <1>7, <1>8, <1>9, <1>10, <1>11, <1>12, <1>13, <1>14, <1>15, <1>16, <1>17, <1>18, <1>19, <1>20, <1>21, <1>22, <1>23, <1>24, <1>25, <1>26
       DEF BootNext, BootStep

\* Every step leaves a WAL beside the database of before only.
LEMMA WalStep ==
  ASSUME BootTypeOK, StepsInv, WalInv, [BootNext]_bootVars
  PROVE  WalInv'
<1> USE DEF StepsInv, WalInv
<1>1. CASE Receive \/ Authenticate \/ ClearFails \/ Publish
  BY <1>1 DEF Receive, Authenticate, ClearFails, Publish, Archive
<1>2. CASE ClearStaging
  BY <1>2, ClearStagingFields DEF ClearStaging, IsCopied
<1>3. CASE StopAgent
  BY <1>3, StopAgentFields DEF StopAgent
<1>4. CASE StartBoot
  BY <1>4 DEF StartBoot, NotApplied, NoFiles
<1>5. CASE Save
  BY <1>5, SaveFields DEF Save
<1>6. CASE SaveWal
  BY <1>6, SaveWalFields DEF SaveWal, IsCopied
<1>7. CASE DropWal
  BY <1>7, DropWalFields DEF DropWal, IsCopied
<1>8. CASE RetireShm
  BY <1>8 DEF RetireShm
<1>9. CASE Put
  <2>1. handled \in Held(staging) /\ handled \in Names
    BY <1>9 DEF Put, BootTypeOK
  <2>2. staging[handled] # "none"
    BY <2>1 DEF Held
  <2>3. IsCopied(live', live, handled, staging[handled])
    BY <1>9, <2>2, PutFields
  <2>4. CASE handled = "db"
    BY <1>9, <2>3, <2>4 DEF Put, IsCopied
  <2>5. CASE handled = "keys"
    BY <1>9, <2>3, <2>5 DEF Put, IsCopied
  <2> QED BY <2>1, <2>4, <2>5
<1>10. CASE ClearApplied
  BY <1>10 DEF ClearApplied, NoFiles
<1>11. CASE Undo
  <2>0. handled \in Names /\ IsCopied(live', live, handled, kept[handled])
    BY <1>11, UndoFields DEF BootTypeOK
  <2>1. CASE handled = "db"
    BY <1>11, <2>0, <2>1 DEF Undo, UndoesNext, IsCopied
  <2>2. CASE handled = "keys"
    BY <1>11, <2>0, <2>2 DEF Undo, UndoesNext, IsCopied
  <2> QED BY <2>0, <2>1, <2>2
<1>12. CASE UndoWal
  BY <1>12, WalBackFields DEF UndoWal, UndoesNext, IsCopied
<1>13. CASE SetAside
  BY <1>13 DEF SetAside, NoFiles
<1>14. CASE OpenDatabase
  BY <1>14, OpenedFields DEF OpenDatabase, NoFiles, NotApplied
<1>15. CASE RefuseNewer
  BY <1>15 DEF RefuseNewer, WhenRefused, Unknown
<1>16. CASE GiveBackDb
  BY <1>16, GiveBackDbFields DEF GiveBackDb
<1>17. CASE GiveBackKeys
  BY <1>17, GiveBackKeysFields DEF GiveBackKeys
<1>18. CASE Retract
  BY <1>18, RetractFields DEF Retract
<1>19. CASE GiveBackWal
  BY <1>19, GiveBackWalFields DEF GiveBackWal
<1>20. CASE ProcessDies
  <2>1. /\ IsTorn(live', live, CopiedNow) /\ IsTorn(kept', kept, KeptNow)
        /\ staging'.db \in {staging.db, "none"}
    BY <1>20, CutShortFields, LeftFields DEF ProcessDies
  <2>2. /\ live'.db \in {live.db, "torn"}
        /\ live'.wal = live.wal \/ (live'.wal = "torn" /\ at \in {"undoWal", "giveBackWal"} /\ kept.wal # "none")
        /\ "wal" \in live'.unsynced => live'.wal # "none"
    BY <2>1 DEF IsTorn, CopiedNow, BootTypeOK
  <2>3. /\ kept'.db \in {kept.db, "torn"}
        /\ kept'.wal = kept.wal \/ (kept'.wal = "torn" /\ at = "saveWal")
        /\ at \in PuttingBack => kept'.wal = kept.wal /\ kept'.db = kept.db
    BY <2>1 DEF IsTorn, KeptNow, BootTypeOK
  <2>4. before' = before /\ applied' = applied
    BY <1>20 DEF ProcessDies, Again
  <2> QED BY <1>20, <2>1, <2>2, <2>3, <2>4 DEF ProcessDies
<1>21. CASE PowerFails
  <2>1. /\ live'.db \in {live.db, "torn"} /\ "wal" \notin live'.unsynced
        /\ live'.wal = live.wal
           \/ (live.wal # "none" \/ (at \in {"undoWal", "giveBackWal"} /\ kept.wal # "none"))
    BY <1>21, PowerFields DEF CopiedNow, BootTypeOK
  <2>2. staging'.db # "mixed" /\ kept'.db = "none" /\ kept'.wal = "none" /\ before' = before /\ at' = "down"
    BY <1>21, PowerFields DEF PowerFails, Again, NoFiles
  <2> QED BY <2>1, <2>2
<1>22. CASE FileFails
  <2>1. /\ IsTorn(live', live, CopiedNow) /\ IsTorn(kept', kept, KeptNow)
        /\ staging'.db \in {staging.db, "none"}
    BY <1>22, CutShortFields, LeftFields DEF FileFails
  <2>2. /\ live'.db \in {live.db, "torn"}
        /\ live'.wal = live.wal \/ (live'.wal = "torn" /\ at \in {"undoWal", "giveBackWal"} /\ kept.wal # "none")
        /\ "wal" \in live'.unsynced => live'.wal # "none"
    BY <2>1 DEF IsTorn, CopiedNow, BootTypeOK
  <2>3. /\ kept'.db \in {kept.db, "torn"}
        /\ kept'.wal = kept.wal \/ (kept'.wal = "torn" /\ at = "saveWal")
        /\ at \in PuttingBack => kept'.wal = kept.wal /\ kept'.db = kept.db
    BY <2>1 DEF IsTorn, KeptNow, BootTypeOK
  <2>4. before' = before /\ applied' = applied
    BY <1>22 DEF FileFails, Again
  <2>5. /\ at \in Restoring /\ live'.wal = live.wal /\ at' \in {"aside", "undo"}
        /\ at' = "undo" /\ handled' = "db" => "db" \in applied.done
    BY <1>22, <2>2 DEF FileFails, FirstOf, ToUndo, AllApplied, BootTypeOK
  <2> QED BY <1>22, <2>5, <2>1, <2>2, <2>3, <2>4 DEF FileFails
<1>23. CASE UndoFails
  <2>1. /\ IsTorn(live', live, CopiedNow) /\ IsTorn(kept', kept, KeptNow)
        /\ staging'.db \in {staging.db, "none"}
    BY <1>23, CutShortFields, LeftFields DEF UndoFails
  <2>2. /\ live'.db \in {live.db, "torn"}
        /\ live'.wal = live.wal \/ (live'.wal = "torn" /\ at \in {"undoWal", "giveBackWal"} /\ kept.wal # "none")
        /\ "wal" \in live'.unsynced => live'.wal # "none"
    BY <2>1 DEF IsTorn, CopiedNow, BootTypeOK
  <2>3. /\ kept'.db \in {kept.db, "torn"}
        /\ kept'.wal = kept.wal \/ (kept'.wal = "torn" /\ at = "saveWal")
        /\ at \in PuttingBack => kept'.wal = kept.wal /\ kept'.db = kept.db
    BY <2>1 DEF IsTorn, KeptNow, BootTypeOK
  <2>4. before' = before /\ applied' = applied
    BY <1>23 DEF UndoFails, Again
  <2> QED BY <1>23, <2>1, <2>2, <2>3, <2>4 DEF UndoFails, UndoesNext, ToUndo, AllApplied
<1>24. CASE BootThrows
  <2>1. /\ IsTorn(live', live, CopiedNow) /\ IsTorn(kept', kept, KeptNow)
        /\ staging'.db \in {staging.db, "none"}
    BY <1>24, CutShortFields, LeftFields DEF BootThrows
  <2>2. /\ live'.db \in {live.db, "torn"}
        /\ live'.wal = live.wal \/ (live'.wal = "torn" /\ at \in {"undoWal", "giveBackWal"} /\ kept.wal # "none")
        /\ "wal" \in live'.unsynced => live'.wal # "none"
    BY <2>1 DEF IsTorn, CopiedNow, BootTypeOK
  <2>3. /\ kept'.db \in {kept.db, "torn"}
        /\ kept'.wal = kept.wal \/ (kept'.wal = "torn" /\ at = "saveWal")
        /\ at \in PuttingBack => kept'.wal = kept.wal /\ kept'.db = kept.db
    BY <2>1 DEF IsTorn, KeptNow, BootTypeOK
  <2>4. before' = before /\ applied' = applied
    BY <1>24 DEF BootThrows, Again
  <2> QED BY <1>24, <2>1, <2>2, <2>3, <2>4 DEF BootThrows
<1>25. CASE MigrationFails
  BY <1>25 DEF MigrationFails, Again
<1>26. CASE UNCHANGED bootVars
  BY <1>26
<1> QED BY <1>1, <1>2, <1>3, <1>4, <1>5, <1>6, <1>7, <1>8, <1>9, <1>10, <1>11, <1>12, <1>13, <1>14, <1>15, <1>16, <1>17, <1>18, <1>19, <1>20, <1>21, <1>22, <1>23, <1>24, <1>25, <1>26
       DEF BootNext, BootStep

\* What is filed stays filed.
LEMMA StaysFiled ==
  ASSUME Filed, before'.wal = before.wal, rescue \subseteq rescue',
         Holds(kept) => kept \in rescue' \/ (kept'.db = "old" /\ kept'.wal = before.wal)
  PROVE  Filed'
<1>1. PICK where \in rescue \cup {kept} : Holds(where)
  BY DEF Filed
<1>2. CASE where \in rescue
  BY <1>1, <1>2 DEF Filed, Holds
<1>3. CASE where = kept
  BY <1>1, <1>3 DEF Filed, Holds
<1> QED BY <1>1, <1>2, <1>3

\* Every step leaves the database of before whole somewhere.
LEMMA RescueStep ==
  ASSUME BootTypeOK, StepsInv, WalInv, RescueInv, [BootNext]_bootVars
  PROVE  RescueInv'
<1> USE DEF StepsInv, WalInv, RescueInv, Touched
<1>1. CASE Receive \/ Authenticate \/ ClearFails \/ Publish
  BY <1>1 DEF Receive, Authenticate, ClearFails, Publish, Filed, Holds, Is
<1>2. CASE ClearStaging
  BY <1>2 DEF ClearStaging, Filed, Holds, Is
<1>3. CASE StopAgent
  BY <1>3, StopAgentFields DEF StopAgent, Holds
<1>4. CASE StartBoot
  <2>1. Holds(kept) => kept \in rescue'
    BY <1>4 DEF StartBoot, Holds, NoFiles
  <2>2. Filed => Filed'
    BY <1>4, <2>1, StaysFiled DEF StartBoot
  <2> QED BY <1>4, <2>2 DEF StartBoot, Holds, Is, NotApplied
<1>5. CASE Save
  <2>1. Holds(kept) => kept'.db = "old" /\ kept'.wal = before.wal
    BY <1>5, SaveFields DEF Save, Holds, NoFiles
  <2>2. Filed => Filed'
    BY <1>5, <2>1, StaysFiled DEF Save
  <2>3. CASE handled = "db" /\ live.wal = "none"
    <3>1. Holds(live) => Holds(kept)'
      BY <1>5, <2>3, SaveFields DEF Save, Holds, NoFiles
    <3>2. ~Is("cut") => Filed'
      BY <1>5, <2>2, <3>1 DEF Save, Filed
    <3> QED BY <1>5, <3>2 DEF Save, Is
  <2>4. CASE handled = "db" /\ live.wal # "none"
    <3>1. ~Touched'
      BY <1>5, <2>4 DEF Save
    <3> QED BY <1>5, <2>2, <3>1 DEF Save, Is, Holds
  <2>5. CASE handled = "keys"
    <3>1. "db" \in applied'.done <=> "db" \in applied.done
      BY <1>5, <2>5 DEF Save
    <3> QED BY <1>5, <2>2, <3>1 DEF Save, Is, Holds
  <2> QED BY <2>3, <2>4, <2>5 DEF BootTypeOK
<1>6. CASE SaveWal
  <2>1. kept'.wal = live.wal /\ kept'.db = kept.db
    BY <1>6, SaveWalFields DEF SaveWal, IsCopied
  <2>2. ~Holds(kept)
    BY <1>6 DEF SaveWal, Holds
  <2>3. Filed => Filed'
    BY <1>6, <2>2, StaysFiled DEF SaveWal
  <2> QED BY <1>6, <2>3 DEF SaveWal, Is, Holds
<1>7. CASE DropWal
  <2>1. Filed => Filed'
    BY <1>7, StaysFiled DEF DropWal, Holds
  <2>2. Holds(live) => Filed'
    BY <1>7 DEF DropWal, Filed, Holds
  <2> QED BY <1>7, <2>1, <2>2 DEF DropWal, Is
<1>8. CASE RetireShm
  BY <1>8 DEF RetireShm, Filed, Holds, Is
<1>9. CASE Put
  <2>1. Filed => Filed'
    BY <1>9, StaysFiled DEF Put, Holds
  <2>2. CASE handled = "db"
    BY <1>9, <2>1, <2>2 DEF Put, Is
  <2>3. CASE handled = "keys"
    <3>1. IsCopied(live', live, "keys", staging["keys"])
      <4>1. staging[handled] # "none"
        BY <1>9 DEF Put, Held
      <4> QED BY <1>9, <2>3, <4>1, PutFields
    <3>2. Holds(live) => Holds(live)'
      BY <1>9, <3>1 DEF Put, IsCopied, Holds
    <3> QED BY <1>9, <2>1, <2>3, <3>2 DEF Put, Is
  <2> QED BY <2>2, <2>3 DEF BootTypeOK
<1>10. CASE ClearApplied
  BY <1>10 DEF ClearApplied, Filed, Holds, Is
<1>11. CASE Undo
  <2>1. Filed => Filed'
    BY <1>11, StaysFiled DEF Undo, Holds
  <2>2. CASE "db" \in applied.done
    BY <1>11, <2>1, <2>2 DEF Undo, UndoesNext, Is
  <2>3. CASE "db" \notin applied.done
    <3>1. handled = "keys"
      BY <1>11, <2>3 DEF Undo, BootTypeOK
    <3>2. Holds(live) => Holds(live)'
      BY <1>11, <3>1, UndoFields DEF Undo, IsCopied, Holds
    <3> QED BY <1>11, <2>1, <2>3, <3>1, <3>2 DEF Undo, UndoesNext, Is
  <2> QED BY <2>2, <2>3
<1>12. CASE UndoWal
  <2>1. Filed => Filed'
    BY <1>12, StaysFiled DEF UndoWal, Holds
  <2> QED BY <1>12, <2>1 DEF UndoWal, UndoesNext, Is
<1>13. CASE SetAside
  BY <1>13 DEF SetAside, Filed, Holds, Is
<1>14. CASE OpenDatabase
  BY <1>14 DEF OpenDatabase
<1>15. CASE RefuseNewer
  BY <1>15 DEF RefuseNewer, WhenRefused, Filed, Holds, Is
<1>16. CASE GiveBackDb
  <2>1. Filed => Filed'
    BY <1>16, StaysFiled DEF GiveBackDb, Holds
  <2>2. "db" \in applied.done /\ applied'.done = applied.done
    BY <1>16 DEF GiveBackDb, BootTypeOK
  <2> QED BY <1>16, <2>1, <2>2 DEF GiveBackDb, Is
<1>17. CASE GiveBackKeys
  <2>1. Filed => Filed'
    BY <1>17, StaysFiled DEF GiveBackKeys, Holds
  <2>2. "db" \in applied.done /\ applied'.done = applied.done
    BY <1>17 DEF GiveBackKeys, BootTypeOK
  <2> QED BY <1>17, <2>1, <2>2 DEF GiveBackKeys, Is
<1>18. CASE Retract
  <2>1. Filed => Filed'
    BY <1>18, StaysFiled DEF Retract, Holds
  <2>2. "db" \in applied.done /\ applied'.done = applied.done
    BY <1>18 DEF Retract, BootTypeOK
  <2> QED BY <1>18, <2>1, <2>2 DEF Retract, Is
<1>19. CASE GiveBackWal
  <2>1. Filed => Filed'
    BY <1>19, StaysFiled DEF GiveBackWal, Holds
  <2>2. "db" \in applied.done /\ applied'.done = applied.done
    BY <1>19 DEF GiveBackWal, BootTypeOK
  <2> QED BY <1>19, <2>1, <2>2 DEF GiveBackWal, Is
<1>20. CASE ProcessDies
  <2>1. "killed" \in Troubles /\ Again("killed")
    BY <1>20 DEF ProcessDies, Troubles
  <2>2. Is("cut") => Is("cut")'
    BY <2>1, HurtType
  <2>3. IsTorn(live', live, CopiedNow) /\ IsTorn(kept', kept, KeptNow) /\ rescue' = rescue
    BY <1>20, CutShortFields DEF ProcessDies
  <2>4. Holds(kept) => kept'.db = "old" /\ kept'.wal = before.wal
    BY <2>3 DEF Holds, IsTorn, KeptNow, NoFiles
  <2>5. before' = before /\ applied' = applied
    BY <2>1 DEF Again
  <2>6. Filed => Filed'
    BY <2>3, <2>4, <2>5, StaysFiled
  <2>7. CopiedNow \subseteq {"keys"} \/ Touched
    BY DEF CopiedNow, BootTypeOK
  <2>8. Holds(live) => Holds(live)' \/ Touched
    BY <2>3, <2>5, <2>7 DEF IsTorn, Holds
  <2>9. at # "serving" /\ (Touched' => Touched)
    BY <1>20, <2>5 DEF ProcessDies
  <2> QED BY <2>2, <2>6, <2>8, <2>9
<1>21. CASE PowerFails
  <2>1. "cut" \in Troubles /\ Again("cut")
    BY <1>21 DEF PowerFails, Troubles
  <2> QED BY <2>1, HurtType
<1>22. CASE FileFails
  <2>1. (IF at \in {"shm", "clear"} THEN at ELSE "file") \in Troubles /\ Again((IF at \in {"shm", "clear"} THEN at ELSE "file"))
    BY <1>22 DEF FileFails, Troubles
  <2>2. Is("cut") => Is("cut")'
    BY <2>1, HurtType
  <2>3. IsTorn(live', live, CopiedNow) /\ IsTorn(kept', kept, KeptNow) /\ rescue' = rescue
    BY <1>22, CutShortFields DEF FileFails
  <2>4. Holds(kept) => kept'.db = "old" /\ kept'.wal = before.wal
    BY <2>3 DEF Holds, IsTorn, KeptNow, NoFiles
  <2>5. before' = before /\ applied' = applied
    BY <2>1 DEF Again
  <2>6. Filed => Filed'
    BY <2>3, <2>4, <2>5, StaysFiled
  <2>7. CopiedNow \subseteq {"keys"} \/ Touched
    BY DEF CopiedNow, BootTypeOK
  <2>8. Holds(live) => Holds(live)' \/ Touched
    BY <2>3, <2>5, <2>7 DEF IsTorn, Holds
  <2>9. at # "serving" /\ (Touched' => Touched)
    BY <1>22, <2>5 DEF FileFails
  <2> QED BY <2>2, <2>6, <2>8, <2>9
<1>23. CASE UndoFails
  <2>1. "late" \in Troubles /\ Again("late")
    BY <1>23 DEF UndoFails, Troubles
  <2>2. Is("cut") => Is("cut")'
    BY <2>1, HurtType
  <2>3. IsTorn(live', live, CopiedNow) /\ IsTorn(kept', kept, KeptNow) /\ rescue' = rescue
    BY <1>23, CutShortFields DEF UndoFails
  <2>4. Holds(kept) => kept'.db = "old" /\ kept'.wal = before.wal
    BY <2>3 DEF Holds, IsTorn, KeptNow, NoFiles
  <2>5. before' = before /\ applied' = applied
    BY <2>1 DEF Again
  <2>6. Filed => Filed'
    BY <2>3, <2>4, <2>5, StaysFiled
  <2>7. CopiedNow \subseteq {"keys"} \/ Touched
    BY DEF CopiedNow, BootTypeOK
  <2>8. Holds(live) => Holds(live)' \/ Touched
    BY <2>3, <2>5, <2>7 DEF IsTorn, Holds
  <2>9. at # "serving" /\ (Touched' => Touched)
    BY <1>23, <2>5 DEF UndoFails, UndoesNext
  <2> QED BY <2>2, <2>6, <2>8, <2>9
<1>24. CASE BootThrows
  <2>1. "late" \in Troubles /\ Again("late")
    BY <1>24 DEF BootThrows, Troubles
  <2>2. Is("cut") => Is("cut")'
    BY <2>1, HurtType
  <2>3. IsTorn(live', live, CopiedNow) /\ IsTorn(kept', kept, KeptNow) /\ rescue' = rescue
    BY <1>24, CutShortFields DEF BootThrows
  <2>4. Holds(kept) => kept'.db = "old" /\ kept'.wal = before.wal
    BY <2>3 DEF Holds, IsTorn, KeptNow, NoFiles
  <2>5. before' = before /\ applied' = applied
    BY <2>1 DEF Again
  <2>6. Filed => Filed'
    BY <2>3, <2>4, <2>5, StaysFiled
  <2>7. CopiedNow \subseteq {"keys"} \/ Touched
    BY DEF CopiedNow, BootTypeOK
  <2>8. Holds(live) => Holds(live)' \/ Touched
    BY <2>3, <2>5, <2>7 DEF IsTorn, Holds
  <2>9. at # "serving" /\ (Touched' => Touched)
    BY <1>24, <2>5 DEF BootThrows
  <2> QED BY <2>2, <2>6, <2>8, <2>9
<1>25. CASE MigrationFails
  <2>1. "migration" \in Troubles /\ Again("migration")
    BY <1>25 DEF MigrationFails, Troubles
  <2>2. Is("cut") => Is("cut")'
    BY <2>1, HurtType
  <2> QED BY <1>25, <2>2 DEF MigrationFails, Again, Filed, Holds
<1>26. CASE UNCHANGED bootVars
  BY <1>26 DEF Filed, Holds, Is
<1> QED BY <1>1, <1>2, <1>3, <1>4, <1>5, <1>6, <1>7, <1>8, <1>9, <1>10, <1>11, <1>12, <1>13, <1>14, <1>15, <1>16, <1>17, <1>18, <1>19, <1>20, <1>21, <1>22, <1>23, <1>24, <1>25, <1>26
       DEF BootNext, BootStep

\* A misfortune the code survives came upon a boot it had survived so far.
LEMMA HurtGrows ==
  ASSUME BootTypeOK, NEW trouble \in Troubles, Again(trouble), MeantToSurvive'
  PROVE  /\ MeantToSurvive
         /\ hurt' # <<>>
         /\ OnlyKilled' <=> OnlyKilled /\ trouble = "killed"
         /\ trouble # "killed" => hurt = <<>> /\ hurt' = <<trouble>>
         /\ trouble \in {"killed", "file", "migration"}
         /\ trouble # "file" => ~newer
         /\ trouble = "killed" => OnlyKilled
<1> USE DEF Only
<1>1. /\ hurt' = Append(hurt, trouble) /\ newer' = newer
      /\ hurt \in Seq(Troubles) /\ Len(hurt) \in Nat
  BY DEF Again, BootTypeOK
<1>2. /\ hurt' \in Seq(Troubles) /\ Len(hurt') = Len(hurt) + 1
      /\ DOMAIN hurt' = 1 .. Len(hurt') /\ DOMAIN hurt = 1 .. Len(hurt)
      /\ hurt'[Len(hurt) + 1] = trouble
      /\ \A i \in 1 .. Len(hurt) : hurt'[i] = hurt[i]
  BY <1>1, AppendProperties
<1>3. OnlyKilled' <=> OnlyKilled /\ trouble = "killed"
  BY <1>1, <1>2 DEF OnlyKilled
<1>4. hurt' # <<>>
  BY <1>1, <1>2
<1>5. \A other : hurt' = <<other>> => hurt = <<>> /\ other = trouble
  <2> SUFFICES ASSUME NEW other, hurt' = <<other>> PROVE hurt = <<>> /\ other = trouble
    OBVIOUS
  <2>1. Len(hurt') = 1 /\ hurt'[1] = other
    OBVIOUS
  <2>2. Len(hurt) = 0
    BY <1>1, <1>2, <2>1
  <2> QED BY <1>1, <1>2, <2>1, <2>2, EmptySeq
<1>6. CASE ~newer /\ OnlyKilled'
  BY <1>3, <1>4, <1>6 DEF MeantToSurvive, OnlyKilled
<1>7. CASE hurt' = <<"file">> \/ (hurt' = <<"migration">> /\ ~newer)
  BY <1>3, <1>4, <1>5, <1>7 DEF MeantToSurvive
<1>8. (~newer /\ OnlyKilled') \/ hurt' = <<"file">> \/ (hurt' = <<"migration">> /\ ~newer)
  <2>1. <<"migration">> # <<"file">>
    OBVIOUS
  <2> QED BY <1>1, <1>4, <2>1 DEF MeantToSurvive, OnlyKilled
<1> QED BY <1>6, <1>7, <1>8

\* Every step keeps what the boot survives by.
LEMMA SurviveStep ==
  ASSUME BootTypeOK, StepsInv, WalInv, SurviveInv, MeantToSurvive', [BootNext]_bootVars
  PROVE  Survives'
<1> USE DEF BootTypeOK, StepsInv, WalInv, Survives, Restored, AsBefore, OfBefore, PutAllBack, GivenFirst
<1>0. /\ UNCHANGED <<newer, hurt>> => MeantToSurvive /\ Survives /\ OnlyKilled' = OnlyKilled
      /\ before' = before => Lacking' = Lacking
  BY DEF MeantToSurvive, SurviveInv, OnlyKilled, Only, Lacking
<1>1. CASE Receive \/ Authenticate \/ ClearFails \/ Publish
  <2>1. UNCHANGED <<newer, hurt, live, before, at>> /\ at = "serving"
    BY <1>1 DEF Receive, Authenticate, ClearFails, Publish
  <2>2. staging'.db \in {"none", "new"} /\ staging'.keys \in {"none", "new"}
    BY <1>0, <1>1, <2>1 DEF Receive, Authenticate, ClearFails, Publish, Archive
  <2> QED BY <1>0, <2>1, <2>2
<1>2. CASE ClearStaging
  <2>1. UNCHANGED <<newer, hurt, live, before, at>> /\ at = "serving"
    BY <1>2 DEF ClearStaging
  <2>2. staging'.db \in {"none", "new"} /\ staging'.keys \in {"none", "new"}
    BY <1>0, <1>2, <2>1, ClearStagingFields DEF IsCopied
  <2> QED BY <1>0, <2>1, <2>2
<1>3. CASE StopAgent
  <2>1. hurt' \in {<<>>, <<"halved">>} /\ at' = "down" /\ staging' = staging
    BY <1>3 DEF StopAgent
  <2>2. hurt' = <<>>
    <3> SUFFICES ASSUME hurt' = <<"halved">> PROVE FALSE
      BY <2>1
    <3>1. ~Only({"killed"})' /\ hurt' # <<>> /\ hurt' # <<"file">> /\ hurt' # <<"migration">>
      BY DEF Only
    <3> QED BY <3>1 DEF MeantToSurvive
  <2>3. OnlyKilled'
    BY <2>2 DEF OnlyKilled, Only
  <2>4. ~Half(staging)
    BY <1>3, <2>2 DEF StopAgent
  <2>5. Held(staging) = {} \/ \A f \in Names : staging[f] # "none"
    BY <2>4 DEF Half, Held
  <2>6. /\ staging.db \in {"none", "new"} /\ staging.keys \in {"none", "new"}
        /\ OfBefore(live)'
    BY <1>3, StopAgentFields DEF StopAgent
  <2>7. GivenFirst'
    BY <2>1, <2>5 DEF Held
  <2> QED BY <2>1, <2>2, <2>3, <2>6, <2>7 DEF Held
<1>4. CASE StartBoot
  <2>1. /\ UNCHANGED <<newer, hurt, live, before, staging>> /\ Survives
        /\ applied'.done = {} /\ applied'.known = FALSE /\ OnlyKilled' = OnlyKilled
    BY <1>0, <1>4 DEF StartBoot, NotApplied
  <2>2. Held(staging)' = Held(staging) /\ Held(staging) \subseteq Names
    BY <2>1 DEF Held
  <2>3. CASE Held(staging) = {}
    BY <1>4, <2>1, <2>2, <2>3 DEF StartBoot
  <2>4. CASE Held(staging) # {}
    <3>1. at' = "save" /\ (handled' = "keys" => staging.db = "none")
      BY <1>4, <2>2, <2>4 DEF StartBoot, FirstOf, Held
    <3>2. OnlyKilled /\ GivenFirst /\ (hurt = <<>> => OfBefore(live))
      BY <1>4, <2>1, <2>4 DEF StartBoot
    <3>3. handled' = "keys" => live.db = "new"
      BY <3>1, <3>2, <2>4
    <3>4. GivenFirst'
      BY <2>1, <2>2, <3>2
    <3> QED BY <2>1, <2>2, <3>1, <3>2, <3>3, <3>4
  <2> QED BY <2>3, <2>4
<1>5. CASE Save
  <2>1. /\ UNCHANGED <<newer, hurt, live, before, staging, handled>> /\ Survives
        /\ OnlyKilled' = OnlyKilled /\ at = "save" /\ at' \in {"saveWal", "put"}
    BY <1>0, <1>5 DEF Save
  <2>2. Held(staging)' = Held(staging)
    BY <2>1 DEF Held
  <2>3. GivenFirst'
    BY <2>1, <2>2
  <2>4. CASE handled = "db"
    <3>1. hurt = <<>> => OfBefore(PutAllBack)'
      BY <1>5, <2>1, <2>4, SaveFields DEF Save, NoFiles
    <3> QED BY <2>1, <2>2, <2>3, <2>4, <3>1
  <2>5. CASE handled = "keys"
    <3>1. hurt = <<>> => OfBefore(PutAllBack)'
      BY <1>5, <2>1, <2>5, SaveFields DEF Save
    <3> QED BY <2>1, <2>2, <2>3, <2>5, <3>1
  <2> QED BY <2>4, <2>5
<1>6. CASE SaveWal
  <2>1. /\ UNCHANGED <<newer, hurt, live, before, staging, handled, applied>> /\ Survives
        /\ OnlyKilled' = OnlyKilled /\ at = "saveWal" /\ at' = "dropWal"
    BY <1>0, <1>6 DEF SaveWal
  <2>2. Held(staging)' = Held(staging)
    BY <2>1 DEF Held
  <2>3. GivenFirst'
    BY <2>1, <2>2
  <2> QED BY <2>1, <2>2, <2>3
<1>7. CASE DropWal
  <2>1. /\ UNCHANGED <<newer, hurt, kept, before, staging, handled, applied>> /\ Survives
        /\ OnlyKilled' = OnlyKilled /\ at = "dropWal" /\ at' = "shm"
    BY <1>0, <1>7 DEF DropWal
  <2>2. Held(staging)' = Held(staging)
    BY <2>1 DEF Held
  <2>3. live'.db = live.db /\ live'.keys = live.keys
    BY <1>7, DropWalFields DEF IsCopied
  <2>4. GivenFirst'
    BY <2>1, <2>2, <2>3
  <2> QED BY <2>1, <2>2, <2>3, <2>4
<1>8. CASE RetireShm
  <2>1. /\ UNCHANGED <<newer, hurt, live, kept, before, staging, handled>> /\ Survives
        /\ OnlyKilled' = OnlyKilled /\ at = "shm" /\ at' = "put" /\ applied'.done = {"db"}
    BY <1>0, <1>8 DEF RetireShm
  <2>2. Held(staging)' = Held(staging)
    BY <2>1 DEF Held
  <2>3. GivenFirst'
    BY <2>1, <2>2
  <2> QED BY <2>1, <2>2, <2>3
<1>9. CASE Put
  <2>1. /\ UNCHANGED <<newer, hurt, kept, before, staging, applied>> /\ Survives
        /\ OnlyKilled' = OnlyKilled /\ at = "put" /\ at' \in {"save", "clear"}
    BY <1>0, <1>9 DEF Put
  <2>2. Held(staging)' = Held(staging) /\ handled \in Held(staging)
    BY <1>9, <2>1 DEF Held
  <2>3. staging[handled] = "new"
    BY <2>1, <2>2 DEF Held
  <2>4. IsCopied(live', live, handled, "new")
    BY <1>9, <2>3, PutFields
  <2>5. GivenFirst'
    BY <2>1, <2>2, <2>4 DEF IsCopied
  <2>6. hurt = <<>> => OfBefore(PutAllBack)'
    <3>1. handled \in applied.done
      BY <2>1, <2>2
    <3> QED BY <2>1, <2>4, <3>1 DEF IsCopied
  <2>7. CASE handled = "db" /\ "keys" \in Held(staging)
    BY <1>9, <2>1, <2>2, <2>4, <2>5, <2>6, <2>7 DEF Put, IsCopied
  <2>8. CASE handled = "db" /\ "keys" \notin Held(staging)
    <3>1. live.keys = "new"
      BY <2>1, <2>2, <2>8 DEF Held
    <3>2. Restored'
      BY <2>4, <2>8, <3>1 DEF IsCopied
    <3>3. at' = "clear" /\ handled' = "db"
      BY <1>9, <2>8 DEF Put
    <3> QED BY <2>1, <2>2, <2>5, <2>6, <3>2, <3>3
  <2>9. CASE handled = "keys"
    <3>1. Restored'
      BY <2>1, <2>4, <2>9 DEF IsCopied
    <3>2. at' = "clear" /\ handled' = "keys"
      BY <1>9, <2>9 DEF Put
    <3> QED BY <2>1, <2>2, <2>5, <2>6, <3>1, <3>2
  <2> QED BY <2>7, <2>8, <2>9
<1>10. CASE ClearApplied
  <2>1. /\ UNCHANGED <<newer, hurt, live, kept, before>> /\ Survives /\ MeantToSurvive
        /\ at = "clear" /\ at' = "migrate" /\ applied'.known = TRUE /\ applied'.added = Created
        /\ staging' = NoFiles
    BY <1>0, <1>10 DEF ClearApplied
  <2>2. newer => hurt = <<>>
    <3>1. hurt = <<"file">> => ~OnlyKilled
      BY DEF OnlyKilled, Only
    <3> QED BY <2>1, <3>1 DEF MeantToSurvive
  <2>3. hurt = <<>> => applied.done = Names /\ OfBefore(kept)
    <3> SUFFICES ASSUME hurt = <<>> PROVE applied.done = Names /\ OfBefore(kept)
      OBVIOUS
    <3>1. Held(staging) # {} /\ GivenFirst /\ applied.done = Held(staging) /\ OfBefore(PutAllBack)
      BY <2>1
    <3>2. \A f \in Names : staging[f] # "none"
      BY <3>1
    <3>3. applied.done = Names
      BY <3>1, <3>2 DEF Held
    <3> QED BY <3>1, <3>3
  <2>4. hurt = <<>> => Created = Lacking
    BY <2>3 DEF Created, Lacking
  <2>5. Restored /\ live.wal = "none"
    BY <2>1
  <2>6. Held(staging)' = {} /\ staging'.db = "none" /\ staging'.keys = "none"
    BY <2>1 DEF Held, NoFiles
  <2> QED BY <1>0, <2>1, <2>2, <2>3, <2>4, <2>5, <2>6
<1>11. CASE Undo
  <2>1. /\ UNCHANGED <<newer, hurt, kept, before, staging, applied>> /\ Survives
        /\ at = "undo" /\ at' \in {"undo", "undoWal", "aside"} /\ hurt = <<"file">> /\ OfBefore(PutAllBack)
    BY <1>0, <1>11 DEF Undo, UndoesNext
  <2>2. IsCopied(live', live, handled, kept[handled]) /\ handled \in applied.done
    BY <1>11, <2>1, UndoFields
  <2>3. OfBefore(PutAllBack)'
    BY <2>1, <2>2 DEF IsCopied
  <2>4. CASE handled = "db"
    <3>1. live'.db = before.db /\ live'.keys = live.keys /\ live'.wal = "none" /\ kept.wal = before.wal
      BY <2>1, <2>2, <2>4 DEF IsCopied
    <3>2. kept.wal = "none" /\ "keys" \notin applied.done => at' = "aside" /\ OfBefore(live)'
      BY <1>11, <2>1, <2>4, <3>1 DEF Undo, UndoesNext, ToUndo, AllApplied
    <3>3. at' = "aside" => kept.wal = "none" /\ "keys" \notin applied.done
      BY <1>11, <2>4 DEF Undo, UndoesNext, ToUndo, AllApplied
    <3>4. at' = "undo" => kept.wal = "none"
      BY <1>11, <2>4 DEF Undo, UndoesNext, ToUndo, AllApplied
    <3> QED BY <2>1, <2>3, <3>1, <3>2, <3>3, <3>4
  <2>5. CASE handled = "keys"
    <3>1. live'.keys = before.keys /\ live'.db = before.db /\ live'.wal = before.wal
      BY <2>1, <2>2, <2>5 DEF IsCopied
    <3>2. at' = "aside"
      BY <1>11, <2>5 DEF Undo, UndoesNext
    <3> QED BY <2>1, <2>3, <3>1, <3>2
  <2> QED BY <2>4, <2>5
<1>12. CASE UndoWal
  <2>1. /\ UNCHANGED <<newer, hurt, kept, before, staging, applied>> /\ Survives
        /\ at = "undoWal" /\ at' \in {"undo", "aside"} /\ hurt = <<"file">> /\ OfBefore(PutAllBack)
        /\ handled = "db" /\ "db" \in applied.done
    BY <1>0, <1>12 DEF UndoWal, UndoesNext
  <2>2. IsCopied(live', live, "wal", kept.wal)
    BY <1>12, WalBackFields DEF UndoWal
  <2>3. OfBefore(PutAllBack)' /\ live'.db = before.db /\ live'.wal = before.wal /\ live'.keys = live.keys
    BY <2>1, <2>2 DEF IsCopied
  <2>4. at' = "aside" => "keys" \notin applied.done
    BY <1>12, <2>1 DEF UndoWal, UndoesNext, ToUndo, AllApplied
  <2>5. at' = "aside" => OfBefore(live)'
    BY <2>1, <2>3, <2>4
  <2> QED BY <2>1, <2>3, <2>5
<1>13. CASE SetAside
  <2>1. /\ UNCHANGED <<newer, hurt, live, before, applied, kept>> /\ Survives
        /\ at = "aside" /\ at' = "migrate" /\ staging' = NoFiles /\ OfBefore(live)
    BY <1>0, <1>13 DEF SetAside
  <2>2. staging'.db = "none" /\ staging'.keys = "none" /\ ~Restored
    BY <2>1 DEF NoFiles
  <2> QED BY <2>1, <2>2
<1>14. CASE OpenDatabase
  <2>1. /\ UNCHANGED <<newer, hurt, before, staging>> /\ Survives
        /\ at = "migrate" /\ at' = "serving" /\ (OfBefore(live) \/ Restored)
    BY <1>0, <1>14 DEF OpenDatabase
  <2>2. live'.db = live.db /\ live'.keys = live.keys
    BY <1>14, <2>1, OpenedFields
  <2> QED BY <2>1, <2>2
<1>15. CASE RefuseNewer
  <2>1. /\ UNCHANGED <<newer, hurt, live, before, staging, kept, applied>> /\ Survives
        /\ at = "migrate" /\ at' = WhenRefused /\ (OfBefore(live) \/ Restored) /\ Held(staging) = {}
    BY <1>0, <1>15 DEF RefuseNewer
  <2>2. Unknown /\ Restored /\ newer
    BY <1>15, <2>1 DEF RefuseNewer, Unknown
  <2>3. at' = "giveBackDb"
    BY <2>1, <2>2 DEF WhenRefused
  <2> QED BY <1>0, <2>1, <2>2, <2>3
<1>16. CASE GiveBackDb
  <2>1. /\ UNCHANGED <<newer, hurt, before, staging, kept, applied>> /\ Survives
        /\ at = "giveBackDb" /\ at' = "giveBackKeys"
    BY <1>0, <1>16 DEF GiveBackDb
  <2> QED BY <1>0, <2>1
<1>17. CASE GiveBackKeys
  <2>1. /\ UNCHANGED <<newer, hurt, before, staging, kept, applied>> /\ Survives
        /\ at = "giveBackKeys" /\ at' = "retract"
    BY <1>0, <1>17 DEF GiveBackKeys
  <2>2. before.keys # "none" => live'.keys = before.keys
    BY <1>17, <2>1, GiveBackKeysFields
  <2> QED BY <1>0, <2>1, <2>2
<1>18. CASE Retract
  <2>1. /\ UNCHANGED <<newer, hurt, before, staging, kept, applied>> /\ Survives
        /\ at = "retract" /\ at' = "giveBackWal" /\ applied.added = Lacking
    BY <1>0, <1>18 DEF Retract
  <2>2. "keys" \in applied.added <=> before.keys = "none"
    BY <2>1 DEF Lacking
  <2>3. live'.keys = before.keys
    BY <1>18, <2>1, <2>2, RetractFields
  <2> QED BY <1>0, <2>1, <2>3
<1>19. CASE GiveBackWal
  <2>1. /\ UNCHANGED <<newer, hurt, before, staging, kept>> /\ Survives
        /\ at = "giveBackWal" /\ at' = "migrate" /\ OfBefore(kept) /\ live.keys = before.keys
    BY <1>0, <1>19 DEF GiveBackWal
  <2>2. OfBefore(live)'
    BY <1>19, <2>1, GiveBackWalFields
  <2>3. ~Restored'
    BY <2>1, <2>2
  <2> QED BY <2>1, <2>2, <2>3
<1>20. CASE ProcessDies
  <2>1. "killed" \in Troubles /\ Again("killed")
    BY <1>20 DEF ProcessDies, Troubles
  <2>2. MeantToSurvive /\ hurt' # <<>> /\ OnlyKilled' /\ OnlyKilled /\ ~newer
    BY <2>1, HurtGrows
  <2>3. Survives
    BY <2>2 DEF SurviveInv
  <2>4. at \notin PuttingBack \cup {"aside"}
    BY <2>2, <2>3 DEF OnlyKilled, Only
  <2>5. at = "migrate" \/ at \in Restoring
    BY <1>20, <2>2, <2>3, <2>4 DEF ProcessDies, BootSteps
  <2>6. /\ at' = "down" /\ UNCHANGED <<newer, before>>
        /\ IsTorn(live', live, CopiedNow) /\ staging' \in LeftNow
    BY <1>20, <2>1, CutShortFields DEF ProcessDies, Again
  <2>7. /\ staging'.db = staging.db \/ (staging'.db = "none" /\ at = "clear")
        /\ staging'.keys = staging.keys \/ (staging'.keys = "none" /\ at = "clear")
    BY <2>4, <2>6, LeftFields
  <2>8. staging'.db \in {"none", "new"} /\ staging'.keys \in {"none", "new"}
    BY <2>3, <2>7
  <2>9. CASE at = "migrate"
    <3>1. live'.db = live.db /\ live'.keys = live.keys /\ live'.wal = live.wal
      BY <2>6, <2>9 DEF CopiedNow, IsTorn
    <3>2. Held(staging)' = {}
      BY <2>7, <2>9 DEF Held
    <3> QED BY <2>2, <2>3, <2>6, <2>8, <2>9, <3>1, <3>2
  <2>10. CASE at = "clear"
    <3>1. live'.db = "new" /\ live'.keys = "new"
      BY <2>3, <2>6, <2>10 DEF CopiedNow, IsTorn
    <3> QED BY <2>2, <2>6, <2>8, <3>1
  <2>11. CASE at \in Restoring \ {"clear"}
    <3>1. staging'.db = staging.db /\ staging'.keys = staging.keys
      BY <2>7, <2>11
    <3>2. Held(staging)' = Held(staging) /\ Held(staging) # {}
      BY <2>11, <3>1 DEF Held
    <3>3. CopiedNow \subseteq Held(staging)
      BY <2>11 DEF CopiedNow
    <3>4. GivenFirst'
      BY <2>2, <2>3, <2>6, <2>11, <3>1, <3>2, <3>3 DEF IsTorn, Held
    <3> QED BY <2>2, <2>6, <2>8, <3>2, <3>4
  <2> QED BY <2>5, <2>9, <2>10, <2>11
<1>21. CASE PowerFails
  <2>1. "cut" \in Troubles /\ Again("cut")
    BY <1>21 DEF PowerFails, Troubles
  <2> QED BY <2>1, HurtGrows
<1>22. CASE FileFails
  <2> DEFINE trouble == IF at \in {"shm", "clear"} THEN at ELSE "file"
  <2>1. trouble \in Troubles /\ Again(trouble)
    BY <1>22 DEF FileFails, Troubles
  <2> HIDE DEF trouble
  <2>2. /\ MeantToSurvive /\ trouble \in {"killed", "file", "migration"}
        /\ trouble # "killed" => hurt = <<>> /\ hurt' = <<trouble>>
    BY <2>1, HurtGrows
  <2>3. trouble = "file" /\ at \in {"save", "saveWal", "dropWal", "put"}
    BY <1>22, <2>2 DEF trouble, FileFails
  <2>4. Survives /\ hurt = <<>> /\ hurt' = <<"file">> /\ OfBefore(PutAllBack)
    BY <2>2, <2>3 DEF SurviveInv
  <2>5. /\ IsTorn(live', live, CopiedNow) /\ IsTorn(kept', kept, KeptNow) /\ staging' \in LeftNow
        /\ UNCHANGED <<before, applied, newer>>
    BY <1>22, <2>1, CutShortFields DEF FileFails, Again
  <2>6. staging'.db \in {"none", "new"} /\ staging'.keys \in {"none", "new"}
    BY <2>4, <2>5, LeftFields
  <2>7. CopiedNow \subseteq applied.done
    BY <2>3 DEF CopiedNow
  <2>8. KeptNow \cap applied.done = {} /\ ("wal" \in KeptNow => applied.done = {})
    BY <2>3 DEF KeptNow
  <2>9. OfBefore(PutAllBack)'
    BY <2>4, <2>5, <2>7, <2>8 DEF IsTorn, BootTypeOK
  <2>10. CASE applied.done = {}
    <3>1. at' = "aside"
      BY <1>22, <2>3, <2>10 DEF FileFails, ToUndo, AllApplied
    <3> QED BY <2>4, <2>5, <2>6, <2>9, <2>10, <3>1
  <2>11. CASE applied.done # {}
    <3>1. at' = "undo" /\ "db" \in applied.done
      <4>1. staging.db # "none"
        BY <2>3, <2>4 DEF Held
      <4>2. "db" \in applied.done
        BY <2>3, <2>11, <4>1 DEF Held
      <4> QED BY <1>22, <2>3, <2>11, <4>2 DEF FileFails, ToUndo, AllApplied
    <3>2. handled' = "db"
      BY <1>22, <2>3, <3>1 DEF FileFails, ToUndo, AllApplied, FirstOf
    <3> QED BY <2>4, <2>6, <2>9, <3>1, <3>2
  <2> QED BY <2>10, <2>11
<1>23. CASE UndoFails
  <2>1. "late" \in Troubles /\ Again("late")
    BY <1>23 DEF UndoFails, Troubles
  <2> QED BY <2>1, HurtGrows
<1>24. CASE BootThrows
  <2>1. "late" \in Troubles /\ Again("late")
    BY <1>24 DEF BootThrows, Troubles
  <2> QED BY <2>1, HurtGrows
<1>25. CASE MigrationFails
  <2>1. "migration" \in Troubles /\ Again("migration")
    BY <1>25 DEF MigrationFails, Troubles
  <2>2. MeantToSurvive /\ hurt' # <<>> /\ ~newer
    BY <2>1, HurtGrows
  <2>3. Survives
    BY <2>2 DEF SurviveInv
  <2>4. Held(staging)' = Held(staging)
    BY <1>25 DEF MigrationFails, Held
  <2> QED BY <1>25, <2>1, <2>2, <2>3, <2>4 DEF MigrationFails, Again
<1>26. CASE UNCHANGED bootVars
  <2>1. Held(staging)' = Held(staging)
    BY <1>26 DEF Held
  <2> QED BY <1>0, <1>26, <2>1
<1> QED BY <1>1, <1>2, <1>3, <1>4, <1>5, <1>6, <1>7, <1>8, <1>9, <1>10, <1>11, <1>12, <1>13, <1>14, <1>15, <1>16, <1>17, <1>18, <1>19, <1>20, <1>21, <1>22, <1>23, <1>24, <1>25, <1>26
       DEF BootNext, BootStep

\* The invariants hold at first and are kept.
LEMMA BootInitInv == BootInit => BootInv
<1> SUFFICES ASSUME BootInit PROVE BootInv
  OBVIOUS
<1>0. /\ at = "serving" /\ applied.done = {} /\ before = live /\ staging = NoFiles
      /\ live.db = "old" /\ live.wal = "none" /\ live.unsynced = {} /\ kept = NoFiles
  BY DEF BootInit, NotApplied, NoFiles
<1>1. BootTypeOK
  <2>1. live \in Directories /\ kept \in Directories /\ before \in Directories /\ staging \in Directories
    <3>1. PICK keys \in {"old", "none"} : live = [NoFiles EXCEPT !.db = "old", !.keys = keys]
      BY DEF BootInit
    <3>2. live \in Directories
      BY <3>1 DEF Directories, FileVersions, NoFiles
    <3> QED BY <1>0, <3>2, NoFilesType
  <2>2. hurt \in Seq(Troubles)
    BY DEF BootInit
  <2> QED BY <2>1, <2>2 DEF BootInit, BootTypeOK, BootSteps, NotApplied
<1>2. StepsInv
  BY <1>0 DEF BootInit, StepsInv, NoFiles
<1>3. WalInv
  BY <1>0 DEF WalInv, NoFiles
<1>4. RescueInv
  BY <1>0 DEF RescueInv, Touched
<1>5. SurviveInv
  BY <1>0 DEF SurviveInv, Survives, AsBefore, NoFiles
<1> QED BY <1>1, <1>2, <1>3, <1>4, <1>5 DEF BootInv

LEMMA BootNextInv == BootInv /\ [BootNext]_bootVars => BootInv'
<1> SUFFICES ASSUME BootInv, [BootNext]_bootVars PROVE BootInv'
  OBVIOUS
<1>1. BootTypeOK /\ StepsInv /\ WalInv /\ RescueInv /\ SurviveInv
  BY DEF BootInv
<1>2. SurviveInv'
  BY <1>1, SurviveStep DEF SurviveInv
<1> QED BY <1>1, <1>2, BootTypeStep, StepsStep, WalStep, RescueStep DEF BootInv

\* The state of a boot is well typed.
THEOREM BootTypesKept == BootSpec => []BootTypeOK
<1>1. BootInv => BootTypeOK
  BY DEF BootInv
<1> QED BY <1>1, BootInitInv, BootNextInv, PTL DEF BootSpec

\* However often the process dies while a boot applies an archive this version
\* knows, or whichever single failure its handlers are for, the agent serves
\* all the files of the archive or all those of before; and after no misfortune
\* whatever, a power cut included, does it serve a database with the WAL of
\* another (applyStagedRestore, revertAppliedRestore).  Of a process that dies
\* while it removes an earlier archive, or of the power, it says no more: the
\* one leaves half an archive, the other tears copies already made.
THEOREM RestoreIsWhole == BootSpec => []AllOrNothing
<1>1. BootInv => AllOrNothing
  BY DEF BootInv, WalInv, SurviveInv, Survives, AllOrNothing
<1> QED BY <1>1, BootInitInv, BootNextInv, PTL DEF BootSpec

\* However often the process dies and whatever operations on files fail, until
\* the agent serves again the database of before is whole with its WAL, in
\* place or in a pre-restore directory (each boot has one of its own); unless
\* the power failed, for nothing forces these copies to the disk.
THEOREM OldBaseIsKept == BootSpec => []OldBaseIsRescuable
<1>1. BootInv => OldBaseIsRescuable
  BY DEF BootInv, RescueInv, Filed, Holds, OldBaseIsRescuable
<1> QED BY <1>1, BootInitInv, BootNextInv, PTL DEF BootSpec

-----------------------------------------------------------------------------
\* The update.

OneAtATime == \A r, q \in Requests : r = q

\* The lock belongs to the updater that lives, and a request that is past its
\* check has found none.
LockOK ==
  /\ \A u, v \in Updaters : Live(u) /\ Live(v) => u = v
  /\ \A u \in Updaters : Live(u) => lock.set /\ ~lock.aged /\ lock.pid \in {0, u}
  /\ \A r \in Requests :
       /\ call[r].at \in {"free", "marked"} =>
            service = "old" /\ \A u \in Updaters : ~Live(u)
       /\ call[r].at = "marked" => lock = LockOf(0)
       /\ call[r].at = "launched" =>
            call[r].pid \in Updaters /\ \A u \in Updaters : Live(u) => u = call[r].pid

\* What an updater has done of the disk and of the service at each step.
Progress(u) ==
  /\ At(u, "backup") \/ At(u, "fetch") => tree = upd[u].before /\ service # "stopped"
  /\ At(u, "build") => tree.ref = "new"
  /\ At(u, "migrate") => tree = Whole("new")
  /\ At(u, "restart") => tree = Whole("new") /\ db = "new"
  /\ At(u, "healthcheck") => tree = Whole("new") /\ db = "new" /\ service \in {"new", "failed"}
  /\ At(u, "checkout") => service = "stopped"
  /\ At(u, "copy") => service = "stopped" /\ tree = Whole(upd[u].prev)
  /\ At(u, "discard") \/ At(u, "start") =>
       service = "stopped" /\ tree = Whole(upd[u].prev) /\ db = snapshot

\* What the updater that has ended says of them.
Verdict(u) == At(u, "finish") =>
  /\ upd[u].outcome = "updated" =>
       tree = Whole("new") /\ db = "new" /\ service \in {"new", "failed"}
  /\ upd[u].outcome = "rolledBack" =>
       /\ tree = Whole(upd[u].prev)
       /\ db = snapshot \/ (db = "new" /\ upd[u].prev = "new")
       /\ service \in {upd[u].prev, "failed"}
  /\ upd[u].outcome = "refused" => tree = upd[u].before /\ service # "stopped"

\* The inductive invariant.
Ordered == LockOK /\ \A u \in Updaters : Progress(u) /\ Verdict(u)
IInv == TypeOK /\ (forced \/ Ordered)

-----------------------------------------------------------------------------
\* Types of the pieces.

Trees == [ref : Versions, whole : BOOLEAN]
Locks == [set : BOOLEAN, pid : 0 .. MaxUpdaters, aged : BOOLEAN]
CallStates == [at : {"idle", "free", "marked", "launched"}, pid : 0 .. MaxUpdaters]
UpdatePlaces == {"none", "finish", "gone"} \cup Steps \cup Undoing
Outcomes == {"none", "updated", "refused", "rolledBack", "undoFailed"}
UpdStates == [at : UpdatePlaces, prev : Versions, before : Trees, outcome : Outcomes]

LEMMA TypeParts ==
  TypeOK <=> /\ lock \in Locks /\ call \in [Requests -> CallStates]
             /\ upd \in [Updaters -> UpdStates] /\ tree \in Trees
             /\ db \in Versions /\ snapshot \in Versions
             /\ service \in Versions \cup {"failed", "stopped"} /\ forced \in BOOLEAN
  BY DEF TypeOK, Locks, CallStates, UpdStates, Trees, UpdatePlaces, Outcomes

LEMMA NextTypes ==
  ASSUME lock' \in Locks, call' \in [Requests -> CallStates],
         upd' \in [Updaters -> UpdStates], tree' \in Trees,
         db' \in Versions, snapshot' \in Versions,
         service' \in Versions \cup {"failed", "stopped"}, forced' \in BOOLEAN
  PROVE  TypeOK'
  BY DEF TypeOK, Locks, CallStates, UpdStates, Trees, UpdatePlaces, Outcomes

LEMMA Constants ==
  /\ 0 \in 0 .. MaxUpdaters /\ Updaters \subseteq 0 .. MaxUpdaters /\ 0 \notin Updaters
  /\ NoLock \in Locks /\ Idle \in [Requests -> CallStates]
  /\ \A u \in 0 .. MaxUpdaters : LockOf(u) \in Locks
  /\ \A v \in Versions : Whole(v) \in Trees
  /\ \A place \in {"idle", "free", "marked"} :
       Waiting(place) \in CallStates /\ Waiting(place).at = place
<1>1. 0 \in 0 .. MaxUpdaters /\ Updaters \subseteq 0 .. MaxUpdaters /\ 0 \notin Updaters
  BY UpdatersAssumption DEF Updaters
<1> QED BY <1>1 DEF NoLock, Locks, Idle, Waiting, CallStates, LockOf, Whole, Trees, Versions

LEMMA GoesToEffect ==
  ASSUME TypeOK, NEW u \in Updaters, NEW place \in UpdatePlaces, GoesTo(u, place)
  PROVE  /\ upd' \in [Updaters -> UpdStates]
         /\ \A v \in Updaters : v # u => upd'[v] = upd[v]
         /\ upd'[u].at = place /\ upd'[u].prev = upd[u].prev
         /\ upd'[u].before = upd[u].before /\ upd'[u].outcome = upd[u].outcome
<1>1. upd \in [Updaters -> UpdStates] /\ upd' = [upd EXCEPT ![u].at = place]
  BY TypeParts DEF GoesTo
<1>2. upd[u] \in UpdStates
  BY <1>1
<1> QED BY <1>1, <1>2 DEF UpdStates

LEMMA EndsEffect ==
  ASSUME TypeOK, NEW u \in Updaters, NEW o \in Outcomes, Ends(u, o)
  PROVE  /\ upd' \in [Updaters -> UpdStates]
         /\ \A v \in Updaters : v # u => upd'[v] = upd[v]
         /\ upd'[u].at = "finish" /\ upd'[u].prev = upd[u].prev
         /\ upd'[u].before = upd[u].before /\ upd'[u].outcome = o
<1>1. upd \in [Updaters -> UpdStates]
      /\ upd' = [upd EXCEPT ![u].at = "finish", ![u].outcome = o]
  BY TypeParts DEF Ends
<1>2. upd[u] \in UpdStates
  BY <1>1
<1>3. "finish" \in UpdatePlaces
  BY DEF UpdatePlaces
<1> QED BY <1>1, <1>2, <1>3 DEF UpdStates

\* What a service that starts does to the database.
LEMMA BootEffect ==
  ASSUME TypeOK, Boot
  PROVE  /\ service' \in Versions \cup {"failed"} /\ db' \in Versions
         /\ \A v \in Versions : tree = Whole(v) =>
              /\ service' \in {v, "failed"}
              /\ v = "old" => db' = db
              /\ db' \in {db, "new"}
<1>1. tree \in Trees /\ db \in Versions
  BY TypeParts
<1>2. Codes \subseteq Versions /\ \A v \in Versions : tree = Whole(v) => Codes = {v}
  BY <1>1 DEF Codes, Trees, Whole
<1> QED BY <1>1, <1>2 DEF Boot, Migrates, Versions

-----------------------------------------------------------------------------
\* Whoever goes on is the only updater that lives.

LEMMA OnlyOneProgresses ==
  ASSUME TypeOK, Ordered, NEW u \in Updaters, Live(u),
         \A v \in Updaters : v # u => upd'[v] = upd[v]
  PROVE  \A v \in Updaters : v # u => Progress(v)' /\ Verdict(v)' /\ ~Live(v)'
<1> SUFFICES ASSUME NEW v \in Updaters, v # u
             PROVE  Progress(v)' /\ Verdict(v)' /\ ~Live(v)'
  OBVIOUS
<1>1. upd'[v] = upd[v] /\ upd[v].at \in {"none", "gone"}
  BY DEF Ordered, LockOK, Live
<1> QED BY <1>1 DEF Progress, Verdict, At, Live

LEMMA UpdaterStep ==
  ASSUME TypeOK, Ordered, NEW u \in Updaters, Live(u),
         \A v \in Updaters : v # u => upd'[v] = upd[v],
         UNCHANGED lock, UNCHANGED call \/ call' = Idle,
         Progress(u)', Verdict(u)'
  PROVE  Ordered'
<1>1. \A v \in Updaters : v # u => Progress(v)' /\ Verdict(v)' /\ ~Live(v)'
  BY OnlyOneProgresses
<1>2. \A r \in Requests : call[r].at \notin {"free", "marked"}
  BY DEF Ordered, LockOK
<1>3. \A r \in Requests : call'[r] = call[r] \/ call'[r].at = "idle"
  BY DEF Idle, Waiting
<1>4. LockOK'
  <2>1. (\A v, w \in Updaters : Live(v) /\ Live(w) => v = w)'
    BY <1>1
  <2>2. (\A v \in Updaters : Live(v) => lock.set /\ ~lock.aged /\ lock.pid \in {0, v})'
    BY <1>1 DEF Ordered, LockOK
  <2>3. \A r \in Requests : call'[r].at \notin {"free", "marked"}
    BY <1>2, <1>3
  <2>4. (\A r \in Requests : call[r].at = "launched" =>
           call[r].pid \in Updaters /\ \A v \in Updaters : Live(v) => v = call[r].pid)'
    BY <1>1, <1>3 DEF Ordered, LockOK
  <2> QED BY <2>1, <2>2, <2>3, <2>4 DEF LockOK
<1> QED BY <1>1, <1>4 DEF Ordered

\* A service that ends leaves the lock as it was, unless it was writing it.
LEMMA ServiceEndsEffect ==
  ASSUME TypeOK, ServiceEnds
  PROVE  /\ lock' \in Locks /\ call' = Idle /\ call' \in [Requests -> CallStates]
         /\ forced' \in BOOLEAN
         /\ lock' = lock \/ lock' = NoLock
         /\ Alive # {} /\ ~forced' => lock' = lock
  BY TypeParts, Constants DEF ServiceEnds, LeftLocks

-----------------------------------------------------------------------------
\* One lemma per action of the updater.

LEMMA BackupPreserves ==
  ASSUME TypeOK, NEW u \in Updaters, Backup(u)
  PROVE  TypeOK' /\ (Ordered => Ordered')
<1>1. Live(u) /\ upd[u].at = "backup" /\ UNCHANGED <<lock, call, tree, db, service, forced>>
  BY DEF Backup, At, Live
<1>2. CASE /\ snapshot' = db
           /\ upd' = [upd EXCEPT ![u].at = "fetch", ![u].prev = tree.ref]
  <2>1. upd \in [Updaters -> UpdStates] /\ upd[u] \in UpdStates /\ tree.ref \in Versions
    BY TypeParts DEF Trees
  <2>2. "fetch" \in UpdatePlaces
    BY DEF UpdatePlaces, Steps
  <2>3. /\ upd' \in [Updaters -> UpdStates]
        /\ \A v \in Updaters : v # u => upd'[v] = upd[v]
        /\ upd'[u].before = upd[u].before /\ upd'[u].at = "fetch"
    BY <1>2, <2>1, <2>2 DEF UpdStates
  <2>4. TypeOK'
    BY <1>1, <1>2, <2>3, TypeParts, NextTypes
  <2>5. ASSUME Ordered PROVE Progress(u)' /\ Verdict(u)'
    BY <1>1, <2>3, <2>5 DEF Ordered, Progress, Verdict, At
  <2> QED BY <1>1, <2>3, <2>4, <2>5, UpdaterStep
<1>3. CASE Ends(u, "refused") /\ UNCHANGED snapshot
  <2>1. /\ upd' \in [Updaters -> UpdStates]
        /\ \A v \in Updaters : v # u => upd'[v] = upd[v]
        /\ upd'[u].before = upd[u].before /\ upd'[u].at = "finish" /\ upd'[u].outcome = "refused"
    BY <1>3, EndsEffect DEF Outcomes
  <2>2. TypeOK'
    BY <1>1, <1>3, <2>1, TypeParts, NextTypes
  <2>3. ASSUME Ordered PROVE Progress(u)' /\ Verdict(u)'
    BY <1>1, <2>1, <2>3 DEF Ordered, Progress, Verdict, At
  <2> QED BY <1>1, <2>1, <2>2, <2>3, UpdaterStep
<1> QED BY <1>2, <1>3 DEF Backup

LEMMA FetchPreserves ==
  ASSUME TypeOK, NEW u \in Updaters, Fetch(u)
  PROVE  TypeOK' /\ (Ordered => Ordered')
<1>1. Live(u) /\ upd[u].at = "fetch" /\ UNCHANGED <<lock, call, tree, db, snapshot, service, forced>>
  BY DEF Fetch, At, Live, disk
<1>2. CASE GoesTo(u, "apply")
  <2>1. /\ upd' \in [Updaters -> UpdStates]
        /\ \A v \in Updaters : v # u => upd'[v] = upd[v]
        /\ upd'[u].prev = upd[u].prev /\ upd'[u].before = upd[u].before
        /\ upd'[u].at = "apply"
    BY <1>2, GoesToEffect DEF UpdatePlaces, Steps, Undoing
  <2>2. TypeOK'
    BY <1>1, <1>2, <2>1, TypeParts, NextTypes, Constants
  <2>3. ASSUME Ordered PROVE Progress(u)' /\ Verdict(u)'
    BY <1>1, <1>2, <2>1, <2>3, TypeParts DEF Ordered, Progress, Verdict, At
  <2> QED BY <1>1, <2>1, <2>2, <2>3, UpdaterStep
<1>3. CASE Ends(u, "refused")
  <2>1. /\ upd' \in [Updaters -> UpdStates]
        /\ \A v \in Updaters : v # u => upd'[v] = upd[v]
        /\ upd'[u].prev = upd[u].prev /\ upd'[u].before = upd[u].before
        /\ upd'[u].at = "finish" /\ upd'[u].outcome = "refused"
    BY <1>3, EndsEffect DEF Outcomes
  <2>2. TypeOK'
    BY <1>1, <1>3, <2>1, TypeParts, NextTypes, Constants
  <2>3. ASSUME Ordered PROVE Progress(u)' /\ Verdict(u)'
    BY <1>1, <1>3, <2>1, <2>3, TypeParts DEF Ordered, Progress, Verdict, At
  <2> QED BY <1>1, <2>1, <2>2, <2>3, UpdaterStep
<1>4. CASE GoesTo(u, "stop")
  <2>1. /\ upd' \in [Updaters -> UpdStates]
        /\ \A v \in Updaters : v # u => upd'[v] = upd[v]
        /\ upd'[u].prev = upd[u].prev /\ upd'[u].before = upd[u].before
        /\ upd'[u].at = "stop"
    BY <1>4, GoesToEffect DEF UpdatePlaces, Steps, Undoing
  <2>2. TypeOK'
    BY <1>1, <1>4, <2>1, TypeParts, NextTypes, Constants
  <2>3. ASSUME Ordered PROVE Progress(u)' /\ Verdict(u)'
    BY <1>1, <1>4, <2>1, <2>3, TypeParts DEF Ordered, Progress, Verdict, At
  <2> QED BY <1>1, <2>1, <2>2, <2>3, UpdaterStep
<1> QED BY <1>2, <1>3, <1>4 DEF Fetch, ApplyFails, RollbackFails, RestartFails

LEMMA ApplyPreserves ==
  ASSUME TypeOK, NEW u \in Updaters, Apply(u)
  PROVE  TypeOK' /\ (Ordered => Ordered')
<1>1. Live(u) /\ upd[u].at = "apply" /\ UNCHANGED <<lock, call, db, snapshot, service, forced>>
  BY DEF Apply, At, Live, disk
<1>2. CASE tree' = [ref |-> "new", whole |-> FALSE] /\ GoesTo(u, "build")
  <2>1. /\ upd' \in [Updaters -> UpdStates]
        /\ \A v \in Updaters : v # u => upd'[v] = upd[v]
        /\ upd'[u].prev = upd[u].prev /\ upd'[u].before = upd[u].before
        /\ upd'[u].at = "build"
    BY <1>2, GoesToEffect DEF UpdatePlaces, Steps, Undoing
  <2>2. TypeOK'
    BY <1>1, <1>2, <2>1, TypeParts, NextTypes, Constants DEF Trees, Versions
  <2>3. ASSUME Ordered PROVE Progress(u)' /\ Verdict(u)'
    BY <1>1, <1>2, <2>1, <2>3, TypeParts DEF Ordered, Progress, Verdict, At
  <2> QED BY <1>1, <2>1, <2>2, <2>3, UpdaterStep
<1>3. CASE tree' \in [ref : {tree.ref, "new"}, whole : {FALSE}] /\ GoesTo(u, "stop")
  <2>1. /\ upd' \in [Updaters -> UpdStates]
        /\ \A v \in Updaters : v # u => upd'[v] = upd[v]
        /\ upd'[u].prev = upd[u].prev /\ upd'[u].before = upd[u].before
        /\ upd'[u].at = "stop"
    BY <1>3, GoesToEffect DEF UpdatePlaces, Steps, Undoing
  <2>2. TypeOK'
    BY <1>1, <1>3, <2>1, TypeParts, NextTypes, Constants DEF Trees, Versions
  <2>3. ASSUME Ordered PROVE Progress(u)' /\ Verdict(u)'
    BY <1>1, <1>3, <2>1, <2>3, TypeParts DEF Ordered, Progress, Verdict, At
  <2> QED BY <1>1, <2>1, <2>2, <2>3, UpdaterStep
<1> QED BY <1>2, <1>3 DEF Apply, ApplyFails, RollbackFails, RestartFails

LEMMA BuildPreserves ==
  ASSUME TypeOK, NEW u \in Updaters, Build(u)
  PROVE  TypeOK' /\ (Ordered => Ordered')
<1>1. Live(u) /\ upd[u].at = "build" /\ UNCHANGED <<lock, call, db, snapshot, service, forced>>
  BY DEF Build, At, Live, disk
<1>2. CASE tree' = [tree EXCEPT !.whole = TRUE] /\ GoesTo(u, "migrate")
  <2>1. /\ upd' \in [Updaters -> UpdStates]
        /\ \A v \in Updaters : v # u => upd'[v] = upd[v]
        /\ upd'[u].prev = upd[u].prev /\ upd'[u].before = upd[u].before
        /\ upd'[u].at = "migrate"
    BY <1>2, GoesToEffect DEF UpdatePlaces, Steps, Undoing
  <2>2. TypeOK'
    BY <1>1, <1>2, <2>1, TypeParts, NextTypes, Constants DEF Trees
  <2>3. ASSUME Ordered PROVE Progress(u)' /\ Verdict(u)'
    BY <1>1, <1>2, <2>1, <2>3, TypeParts DEF Ordered, Progress, Verdict, At, Trees, Whole
  <2> QED BY <1>1, <2>1, <2>2, <2>3, UpdaterStep
<1>3. CASE UNCHANGED tree /\ GoesTo(u, "stop")
  <2>1. /\ upd' \in [Updaters -> UpdStates]
        /\ \A v \in Updaters : v # u => upd'[v] = upd[v]
        /\ upd'[u].prev = upd[u].prev /\ upd'[u].before = upd[u].before
        /\ upd'[u].at = "stop"
    BY <1>3, GoesToEffect DEF UpdatePlaces, Steps, Undoing
  <2>2. TypeOK'
    BY <1>1, <1>3, <2>1, TypeParts, NextTypes, Constants
  <2>3. ASSUME Ordered PROVE Progress(u)' /\ Verdict(u)'
    BY <1>1, <1>3, <2>1, <2>3, TypeParts DEF Ordered, Progress, Verdict, At
  <2> QED BY <1>1, <2>1, <2>2, <2>3, UpdaterStep
<1> QED BY <1>2, <1>3 DEF Build, ApplyFails, RollbackFails, RestartFails

LEMMA MigratePreserves ==
  ASSUME TypeOK, NEW u \in Updaters, Migrate(u)
  PROVE  TypeOK' /\ (Ordered => Ordered')
<1>1. Live(u) /\ upd[u].at = "migrate" /\ UNCHANGED <<lock, call, tree, snapshot, service, forced>>
  BY DEF Migrate, At, Live, disk
<1>2. CASE (\E v \in Codes : Migrates(v)) /\ GoesTo(u, "restart")
  <2>1. /\ upd' \in [Updaters -> UpdStates]
        /\ \A v \in Updaters : v # u => upd'[v] = upd[v]
        /\ upd'[u].prev = upd[u].prev /\ upd'[u].before = upd[u].before
        /\ upd'[u].at = "restart"
    BY <1>2, GoesToEffect DEF UpdatePlaces, Steps, Undoing
  <2>2. TypeOK'
    BY <1>1, <1>2, <2>1, TypeParts, NextTypes, Constants DEF Codes, Migrates, Versions, Trees
  <2>3. ASSUME Ordered PROVE Progress(u)' /\ Verdict(u)'
    BY <1>1, <1>2, <2>1, <2>3, TypeParts DEF Ordered, Progress, Verdict, At, Codes, Migrates, Whole
  <2> QED BY <1>1, <2>1, <2>2, <2>3, UpdaterStep
<1>3. CASE (db' = db \/ \E v \in Codes : Migrates(v)) /\ GoesTo(u, "stop")
  <2>1. /\ upd' \in [Updaters -> UpdStates]
        /\ \A v \in Updaters : v # u => upd'[v] = upd[v]
        /\ upd'[u].prev = upd[u].prev /\ upd'[u].before = upd[u].before
        /\ upd'[u].at = "stop"
    BY <1>3, GoesToEffect DEF UpdatePlaces, Steps, Undoing
  <2>2. TypeOK'
    BY <1>1, <1>3, <2>1, TypeParts, NextTypes, Constants DEF Codes, Migrates, Versions, Trees
  <2>3. ASSUME Ordered PROVE Progress(u)' /\ Verdict(u)'
    BY <1>1, <1>3, <2>1, <2>3, TypeParts DEF Ordered, Progress, Verdict, At
  <2> QED BY <1>1, <2>1, <2>2, <2>3, UpdaterStep
<1> QED BY <1>2, <1>3 DEF Migrate, ApplyFails, RollbackFails, RestartFails

LEMMA RestartPreserves ==
  ASSUME TypeOK, NEW u \in Updaters, Restart(u)
  PROVE  TypeOK' /\ (Ordered => forced' \/ Ordered')
<1>1. Live(u) /\ upd[u].at = "restart" /\ UNCHANGED <<tree, snapshot>>
  BY DEF Restart, At, Live, disk
<1>2. CASE Boot /\ ServiceEnds /\ GoesTo(u, "healthcheck")
  <2>1. /\ upd' \in [Updaters -> UpdStates]
        /\ \A v \in Updaters : v # u => upd'[v] = upd[v]
        /\ upd'[u].prev = upd[u].prev /\ upd'[u].before = upd[u].before
        /\ upd'[u].at = "healthcheck"
    BY <1>2, GoesToEffect DEF UpdatePlaces, Steps, Undoing
  <2>2. TypeOK'
    BY <1>1, <1>2, <2>1, TypeParts, NextTypes, ServiceEndsEffect, BootEffect DEF Versions
  <2>3. ASSUME Ordered PROVE Progress(u)' /\ Verdict(u)'
    BY <1>1, <1>2, <2>1, <2>3, TypeParts, BootEffect DEF Ordered, Progress, Verdict, At, Versions
  <2>4. ~forced' => UNCHANGED lock
    BY <1>1, <1>2, ServiceEndsEffect DEF Alive
  <2> QED BY <1>1, <1>2, <2>1, <2>2, <2>3, <2>4, UpdaterStep, ServiceEndsEffect
<1>3. CASE GoesTo(u, "stop") /\ UNCHANGED <<lock, db, service, call, forced>>
  <2>1. /\ upd' \in [Updaters -> UpdStates]
        /\ \A v \in Updaters : v # u => upd'[v] = upd[v]
        /\ upd'[u].prev = upd[u].prev /\ upd'[u].before = upd[u].before
        /\ upd'[u].at = "stop"
    BY <1>3, GoesToEffect DEF UpdatePlaces, Steps, Undoing
  <2>2. TypeOK'
    BY <1>1, <1>3, <2>1, TypeParts, NextTypes, Constants
  <2>3. ASSUME Ordered PROVE Progress(u)' /\ Verdict(u)'
    BY <1>1, <1>3, <2>1, <2>3, TypeParts DEF Ordered, Progress, Verdict, At
  <2> QED BY <1>1, <1>3, <2>1, <2>2, <2>3, UpdaterStep
<1> QED BY <1>2, <1>3 DEF Restart, ApplyFails, RollbackFails, RestartFails

LEMMA HealthcheckPreserves ==
  ASSUME TypeOK, NEW u \in Updaters, Healthcheck(u)
  PROVE  TypeOK' /\ (Ordered => Ordered')
<1>1. Live(u) /\ upd[u].at = "healthcheck" /\ UNCHANGED <<lock, call, tree, db, snapshot, service, forced>>
  BY DEF Healthcheck, At, Live, disk
<1>2. CASE Running /\ Ends(u, "updated")
  <2>1. /\ upd' \in [Updaters -> UpdStates]
        /\ \A v \in Updaters : v # u => upd'[v] = upd[v]
        /\ upd'[u].prev = upd[u].prev /\ upd'[u].before = upd[u].before
        /\ upd'[u].at = "finish" /\ upd'[u].outcome = "updated"
    BY <1>2, EndsEffect DEF Outcomes
  <2>2. TypeOK'
    BY <1>1, <1>2, <2>1, TypeParts, NextTypes, Constants
  <2>3. ASSUME Ordered PROVE Progress(u)' /\ Verdict(u)'
    BY <1>1, <1>2, <2>1, <2>3, TypeParts DEF Ordered, Progress, Verdict, At
  <2> QED BY <1>1, <2>1, <2>2, <2>3, UpdaterStep
<1>3. CASE GoesTo(u, "stop")
  <2>1. /\ upd' \in [Updaters -> UpdStates]
        /\ \A v \in Updaters : v # u => upd'[v] = upd[v]
        /\ upd'[u].prev = upd[u].prev /\ upd'[u].before = upd[u].before
        /\ upd'[u].at = "stop"
    BY <1>3, GoesToEffect DEF UpdatePlaces, Steps, Undoing
  <2>2. TypeOK'
    BY <1>1, <1>3, <2>1, TypeParts, NextTypes, Constants
  <2>3. ASSUME Ordered PROVE Progress(u)' /\ Verdict(u)'
    BY <1>1, <1>3, <2>1, <2>3, TypeParts DEF Ordered, Progress, Verdict, At
  <2> QED BY <1>1, <2>1, <2>2, <2>3, UpdaterStep
<1> QED BY <1>2, <1>3 DEF Healthcheck, ApplyFails, RollbackFails, RestartFails

LEMMA StopPreserves ==
  ASSUME TypeOK, NEW u \in Updaters, Stop(u)
  PROVE  TypeOK' /\ (Ordered => forced' \/ Ordered')
<1>1. Live(u) /\ upd[u].at = "stop" /\ UNCHANGED <<tree, db, snapshot>>
  BY DEF Stop, At, Live, disk
<1>2. CASE service' = "stopped" /\ ServiceEnds /\ GoesTo(u, "checkout")
  <2>1. /\ upd' \in [Updaters -> UpdStates]
        /\ \A v \in Updaters : v # u => upd'[v] = upd[v]
        /\ upd'[u].prev = upd[u].prev /\ upd'[u].before = upd[u].before
        /\ upd'[u].at = "checkout"
    BY <1>2, GoesToEffect DEF UpdatePlaces, Steps, Undoing
  <2>2. TypeOK'
    BY <1>1, <1>2, <2>1, TypeParts, NextTypes, ServiceEndsEffect
  <2>3. ASSUME Ordered PROVE Progress(u)' /\ Verdict(u)'
    BY <1>1, <1>2, <2>1, <2>3, TypeParts DEF Ordered, Progress, Verdict, At
  <2>4. ~forced' => UNCHANGED lock
    BY <1>1, <1>2, ServiceEndsEffect DEF Alive
  <2> QED BY <1>1, <1>2, <2>1, <2>2, <2>3, <2>4, UpdaterStep, ServiceEndsEffect
<1>3. CASE Ends(u, "undoFailed") /\ UNCHANGED <<lock, service, call, forced>>
  <2>1. /\ upd' \in [Updaters -> UpdStates]
        /\ \A v \in Updaters : v # u => upd'[v] = upd[v]
        /\ upd'[u].prev = upd[u].prev /\ upd'[u].before = upd[u].before
        /\ upd'[u].at = "finish" /\ upd'[u].outcome = "undoFailed"
    BY <1>3, EndsEffect DEF Outcomes
  <2>2. TypeOK'
    BY <1>1, <1>3, <2>1, TypeParts, NextTypes, Constants
  <2>3. ASSUME Ordered PROVE Progress(u)' /\ Verdict(u)'
    BY <1>1, <1>3, <2>1, <2>3, TypeParts DEF Ordered, Progress, Verdict, At
  <2> QED BY <1>1, <1>3, <2>1, <2>2, <2>3, UpdaterStep
<1> QED BY <1>2, <1>3 DEF Stop, Stopped, ApplyFails, RollbackFails, RestartFails

LEMMA CheckoutPreserves ==
  ASSUME TypeOK, NEW u \in Updaters, Checkout(u)
  PROVE  TypeOK' /\ (Ordered => Ordered')
<1>1. Live(u) /\ upd[u].at = "checkout" /\ UNCHANGED <<lock, call, db, snapshot, service, forced>>
  BY DEF Checkout, At, Live, disk
<1>2. CASE tree' = PreviousTree(u) /\ GoesTo(u, "copy")
  <2>1. /\ upd' \in [Updaters -> UpdStates]
        /\ \A v \in Updaters : v # u => upd'[v] = upd[v]
        /\ upd'[u].prev = upd[u].prev /\ upd'[u].before = upd[u].before
        /\ upd'[u].at = "copy"
    BY <1>2, GoesToEffect DEF UpdatePlaces, Steps, Undoing
  <2>2. TypeOK'
    BY <1>1, <1>2, <2>1, TypeParts, NextTypes, Constants DEF PreviousTree, UpdStates
  <2>3. ASSUME Ordered PROVE Progress(u)' /\ Verdict(u)'
    BY <1>1, <1>2, <2>1, <2>3, TypeParts DEF Ordered, Progress, Verdict, At, PreviousTree
  <2> QED BY <1>1, <2>1, <2>2, <2>3, UpdaterStep
<1>3. CASE tree' \in [ref : {tree.ref, upd[u].prev}, whole : {FALSE}] /\ Ends(u, "undoFailed")
  <2>1. /\ upd' \in [Updaters -> UpdStates]
        /\ \A v \in Updaters : v # u => upd'[v] = upd[v]
        /\ upd'[u].prev = upd[u].prev /\ upd'[u].before = upd[u].before
        /\ upd'[u].at = "finish" /\ upd'[u].outcome = "undoFailed"
    BY <1>3, EndsEffect DEF Outcomes
  <2>2. TypeOK'
    BY <1>1, <1>3, <2>1, TypeParts, NextTypes, Constants DEF Trees, UpdStates
  <2>3. ASSUME Ordered PROVE Progress(u)' /\ Verdict(u)'
    BY <1>1, <1>3, <2>1, <2>3, TypeParts DEF Ordered, Progress, Verdict, At
  <2> QED BY <1>1, <2>1, <2>2, <2>3, UpdaterStep
<1> QED BY <1>2, <1>3 DEF Checkout, ApplyFails, RollbackFails, RestartFails

LEMMA CopyPreserves ==
  ASSUME TypeOK, NEW u \in Updaters, Copy(u)
  PROVE  TypeOK' /\ (Ordered => Ordered')
<1>1. Live(u) /\ upd[u].at = "copy" /\ UNCHANGED <<lock, call, tree, snapshot, service, forced>>
  BY DEF Copy, At, Live, disk
<1>2. CASE db' = snapshot /\ GoesTo(u, "discard")
  <2>1. /\ upd' \in [Updaters -> UpdStates]
        /\ \A v \in Updaters : v # u => upd'[v] = upd[v]
        /\ upd'[u].prev = upd[u].prev /\ upd'[u].before = upd[u].before
        /\ upd'[u].at = "discard"
    BY <1>2, GoesToEffect DEF UpdatePlaces, Steps, Undoing
  <2>2. TypeOK'
    BY <1>1, <1>2, <2>1, TypeParts, NextTypes, Constants
  <2>3. ASSUME Ordered PROVE Progress(u)' /\ Verdict(u)'
    BY <1>1, <1>2, <2>1, <2>3, TypeParts DEF Ordered, Progress, Verdict, At
  <2> QED BY <1>1, <2>1, <2>2, <2>3, UpdaterStep
<1>3. CASE UNCHANGED db /\ Ends(u, "undoFailed")
  <2>1. /\ upd' \in [Updaters -> UpdStates]
        /\ \A v \in Updaters : v # u => upd'[v] = upd[v]
        /\ upd'[u].prev = upd[u].prev /\ upd'[u].before = upd[u].before
        /\ upd'[u].at = "finish" /\ upd'[u].outcome = "undoFailed"
    BY <1>3, EndsEffect DEF Outcomes
  <2>2. TypeOK'
    BY <1>1, <1>3, <2>1, TypeParts, NextTypes, Constants
  <2>3. ASSUME Ordered PROVE Progress(u)' /\ Verdict(u)'
    BY <1>1, <1>3, <2>1, <2>3, TypeParts DEF Ordered, Progress, Verdict, At
  <2> QED BY <1>1, <2>1, <2>2, <2>3, UpdaterStep
<1> QED BY <1>2, <1>3 DEF Copy, ApplyFails, RollbackFails, RestartFails

LEMMA DiscardPreserves ==
  ASSUME TypeOK, NEW u \in Updaters, Discard(u)
  PROVE  TypeOK' /\ (Ordered => Ordered')
<1>1. Live(u) /\ upd[u].at = "discard" /\ UNCHANGED <<lock, call, tree, db, snapshot, service, forced>>
  BY DEF Discard, At, Live, disk
<1>2. CASE GoesTo(u, "start")
  <2>1. /\ upd' \in [Updaters -> UpdStates]
        /\ \A v \in Updaters : v # u => upd'[v] = upd[v]
        /\ upd'[u].prev = upd[u].prev /\ upd'[u].before = upd[u].before
        /\ upd'[u].at = "start"
    BY <1>2, GoesToEffect DEF UpdatePlaces, Steps, Undoing
  <2>2. TypeOK'
    BY <1>1, <1>2, <2>1, TypeParts, NextTypes, Constants
  <2>3. ASSUME Ordered PROVE Progress(u)' /\ Verdict(u)'
    BY <1>1, <1>2, <2>1, <2>3, TypeParts DEF Ordered, Progress, Verdict, At
  <2> QED BY <1>1, <2>1, <2>2, <2>3, UpdaterStep
<1>3. CASE Ends(u, "undoFailed")
  <2>1. /\ upd' \in [Updaters -> UpdStates]
        /\ \A v \in Updaters : v # u => upd'[v] = upd[v]
        /\ upd'[u].prev = upd[u].prev /\ upd'[u].before = upd[u].before
        /\ upd'[u].at = "finish" /\ upd'[u].outcome = "undoFailed"
    BY <1>3, EndsEffect DEF Outcomes
  <2>2. TypeOK'
    BY <1>1, <1>3, <2>1, TypeParts, NextTypes, Constants
  <2>3. ASSUME Ordered PROVE Progress(u)' /\ Verdict(u)'
    BY <1>1, <1>3, <2>1, <2>3, TypeParts DEF Ordered, Progress, Verdict, At
  <2> QED BY <1>1, <2>1, <2>2, <2>3, UpdaterStep
<1> QED BY <1>2, <1>3 DEF Discard, RollbackFails

LEMMA StartPreserves ==
  ASSUME TypeOK, NEW u \in Updaters, Start(u)
  PROVE  TypeOK' /\ (Ordered => Ordered')
<1>1. Live(u) /\ upd[u].at = "start" /\ UNCHANGED <<lock, call, tree, snapshot, forced>>
  BY DEF Start, At, Live, disk
<1>2. CASE (IF Running THEN UNCHANGED <<db, service>> ELSE Boot) /\ Ends(u, "rolledBack")
  <2>1. /\ upd' \in [Updaters -> UpdStates]
        /\ \A v \in Updaters : v # u => upd'[v] = upd[v]
        /\ upd'[u].prev = upd[u].prev /\ upd'[u].before = upd[u].before
        /\ upd'[u].at = "finish" /\ upd'[u].outcome = "rolledBack"
    BY <1>2, EndsEffect DEF Outcomes
  <2>2. TypeOK'
    BY <1>1, <1>2, <2>1, TypeParts, NextTypes, Constants, BootEffect DEF Versions
  <2>3. ASSUME Ordered PROVE Progress(u)' /\ Verdict(u)'
    BY <1>1, <1>2, <2>1, <2>3, TypeParts, BootEffect DEF Ordered, Progress, Verdict, At, Running, Versions, UpdStates
  <2> QED BY <1>1, <2>1, <2>2, <2>3, UpdaterStep
<1>3. CASE UNCHANGED <<db, service>> /\ Ends(u, "undoFailed")
  <2>1. /\ upd' \in [Updaters -> UpdStates]
        /\ \A v \in Updaters : v # u => upd'[v] = upd[v]
        /\ upd'[u].prev = upd[u].prev /\ upd'[u].before = upd[u].before
        /\ upd'[u].at = "finish" /\ upd'[u].outcome = "undoFailed"
    BY <1>3, EndsEffect DEF Outcomes
  <2>2. TypeOK'
    BY <1>1, <1>3, <2>1, TypeParts, NextTypes, Constants
  <2>3. ASSUME Ordered PROVE Progress(u)' /\ Verdict(u)'
    BY <1>1, <1>3, <2>1, <2>3, TypeParts DEF Ordered, Progress, Verdict, At
  <2> QED BY <1>1, <2>1, <2>2, <2>3, UpdaterStep
<1> QED BY <1>2, <1>3 DEF Start, ApplyFails, RollbackFails, RestartFails

\* An updater that is gone leaves nobody.
LEMMA GoneStep ==
  ASSUME TypeOK, Ordered, NEW u \in Updaters, Live(u), GoesTo(u, "gone"),
         UNCHANGED <<call, disk, service>>
  PROVE  Ordered'
<1>1. "gone" \in UpdatePlaces
  BY DEF UpdatePlaces
<1>2. upd'[u].at = "gone" /\ \A v \in Updaters : v # u => upd'[v] = upd[v]
  BY <1>1, GoesToEffect
<1>3. \A v \in Updaters : v # u => Progress(v)' /\ Verdict(v)' /\ ~Live(v)'
  BY <1>2, OnlyOneProgresses
<1>4. Progress(u)' /\ Verdict(u)' /\ ~Live(u)'
  BY <1>2 DEF Progress, Verdict, At, Live
<1>5. \A v \in Updaters : ~Live(v)'
  BY <1>3, <1>4
<1>6. LockOK'
  BY <1>5 DEF Ordered, LockOK
<1> QED BY <1>3, <1>4, <1>6 DEF Ordered

LEMMA FinishPreserves ==
  ASSUME TypeOK, NEW u \in Updaters, Finish(u)
  PROVE  TypeOK' /\ (Ordered => Ordered')
<1>1. Live(u) /\ lock' = NoLock /\ GoesTo(u, "gone") /\ UNCHANGED <<call, disk, service, forced>>
  BY DEF Finish, At, Live
<1>2. TypeOK'
  BY <1>1, GoesToEffect, TypeParts, NextTypes, Constants DEF UpdatePlaces, disk
<1> QED BY <1>1, <1>2, GoneStep

LEMMA DiesPreserves ==
  ASSUME TypeOK, NEW u \in Updaters, Dies(u)
  PROVE  TypeOK' /\ (Ordered => Ordered')
<1>1. Live(u) /\ GoesTo(u, "gone") /\ UNCHANGED <<lock, call, disk, service, forced>>
  BY DEF Dies
<1>2. TypeOK'
  BY <1>1, GoesToEffect, TypeParts, NextTypes DEF UpdatePlaces, disk
<1> QED BY <1>1, <1>2, GoneStep

-----------------------------------------------------------------------------
\* One lemma per action of the service and of its machine.

LEMMA UpdatersStay ==
  ASSUME Ordered, UNCHANGED <<upd, disk, service>>
  PROVE  \A u \in Updaters : Progress(u)' /\ Verdict(u)' /\ Live(u)' = Live(u)
  BY DEF Ordered, Progress, Verdict, At, Live, disk

\* A request moves to where it waits next.
LEMMA CallEffect ==
  ASSUME TypeOK, NEW r \in Requests, NEW c \in CallStates, call' = [call EXCEPT ![r] = c]
  PROVE  call' \in [Requests -> CallStates] /\ call'[r] = c
         /\ \A q \in Requests : q # r => call'[q] = call[q]
  BY TypeParts

LEMMA CheckLockPreserves ==
  ASSUME TypeOK, NEW r \in Requests, CheckLock(r)
  PROVE  TypeOK' /\ (OneAtATime /\ Ordered => Ordered')
<1>1. /\ call' = [call EXCEPT ![r] = Waiting("free")] /\ ~Active /\ service = "old"
      /\ UNCHANGED <<lock, upd, disk, service, forced>>
  BY DEF CheckLock
<1>2. call' \in [Requests -> CallStates] /\ call'[r].at = "free" /\ (OneAtATime => \A q \in Requests : q = r)
  BY <1>1, CallEffect, Constants DEF OneAtATime
<1>3. TypeOK'
  BY <1>1, <1>2, TypeParts, NextTypes DEF disk
<1>4. ASSUME OneAtATime, Ordered PROVE \A u \in Updaters : ~Live(u)
  BY <1>1, <1>4 DEF Ordered, LockOK, Active, Stale
<1>5. ASSUME OneAtATime, Ordered PROVE LockOK'
  BY <1>1, <1>2, <1>4, <1>5, UpdatersStay DEF LockOK
<1> QED BY <1>1, <1>3, <1>5, UpdatersStay DEF Ordered

LEMMA MarkPreserves ==
  ASSUME TypeOK, NEW r \in Requests, Mark(r)
  PROVE  TypeOK' /\ (OneAtATime /\ Ordered => Ordered')
<1>1. /\ call[r].at = "free" /\ call' = [call EXCEPT ![r] = Waiting("marked")]
      /\ lock' = LockOf(0) /\ UNCHANGED <<upd, disk, service, forced>>
  BY DEF Mark
<1>2. call' \in [Requests -> CallStates] /\ call'[r].at = "marked" /\ (OneAtATime => \A q \in Requests : q = r)
  BY <1>1, CallEffect, Constants DEF OneAtATime
<1>3. TypeOK'
  BY <1>1, <1>2, TypeParts, NextTypes, Constants DEF disk
<1>4. ASSUME OneAtATime, Ordered PROVE LockOK'
  BY <1>1, <1>2, <1>4, UpdatersStay DEF Ordered, LockOK
<1> QED BY <1>1, <1>3, <1>4, UpdatersStay DEF Ordered

\* A request that ends without an updater, whatever it leaves of the lock.
LEMMA EndedPreserves ==
  ASSUME TypeOK, NEW r \in Requests, WindowShut(r) \/ LaunchFails(r)
  PROVE  TypeOK' /\ (OneAtATime /\ Ordered => Ordered')
<1>1. /\ call[r].at \in {"free", "marked"} /\ call' = [call EXCEPT ![r] = Waiting("idle")]
      /\ lock' \in {NoLock, lock} /\ UNCHANGED <<upd, disk, service, forced>>
  BY DEF WindowShut, LaunchFails, Unlaunched
<1>2. call' \in [Requests -> CallStates] /\ call'[r].at = "idle" /\ (OneAtATime => \A q \in Requests : q = r)
  BY <1>1, CallEffect, Constants DEF OneAtATime
<1>3. TypeOK'
  BY <1>1, <1>2, TypeParts, NextTypes, Constants DEF disk
<1>4. ASSUME OneAtATime, Ordered PROVE LockOK'
  BY <1>1, <1>2, <1>4, UpdatersStay DEF Ordered, LockOK
<1> QED BY <1>1, <1>3, <1>4, UpdatersStay DEF Ordered

LEMMA LaunchPreserves ==
  ASSUME TypeOK, NEW r \in Requests, NEW u \in Updaters, Launch(r, u)
  PROVE  TypeOK' /\ (OneAtATime /\ Ordered => Ordered')
<1> DEFINE n == [NotLaunched EXCEPT !.at = "backup", !.before = tree]
           c == [at |-> "launched", pid |-> u]
<1>1. /\ call[r].at = "marked" /\ call' = [call EXCEPT ![r] = c]
      /\ upd' = [upd EXCEPT ![u] = n]
      /\ UNCHANGED <<lock, disk, service, forced>>
  BY DEF Launch
<1>2. n \in UpdStates /\ n.at = "backup" /\ n.before = tree
  BY TypeParts, Constants
     DEF NotLaunched, UpdStates, UpdatePlaces, Steps, Outcomes, Versions, Trees, Whole
<1>3. c \in CallStates /\ c.at = "launched" /\ c.pid = u
  BY Constants DEF CallStates
<1> HIDE DEF n, c
<1>4. call' \in [Requests -> CallStates] /\ call'[r] = c /\ (OneAtATime => \A q \in Requests : q = r)
  BY <1>1, <1>3, CallEffect DEF OneAtATime
<1>5. /\ upd' \in [Updaters -> UpdStates] /\ upd'[u] = n
      /\ \A v \in Updaters : v # u => upd'[v] = upd[v]
  BY <1>1, <1>2, TypeParts
<1>6. TypeOK'
  BY <1>1, <1>4, <1>5, TypeParts, NextTypes DEF disk
<1>7. ASSUME OneAtATime, Ordered PROVE Ordered'
  <2>1. service = "old" /\ lock = LockOf(0) /\ \A v \in Updaters : ~Live(v)
    BY <1>1, <1>7 DEF Ordered, LockOK
  <2>2. \A v \in Updaters : v # u => ~Live(v)' /\ Progress(v)' /\ Verdict(v)'
    BY <2>1, <1>5 DEF Live, Progress, Verdict, At
  <2>3. Progress(u)' /\ Verdict(u)'
    BY <2>1, <1>1, <1>2, <1>5 DEF Progress, Verdict, At, disk
  <2>4. LockOK'
    BY <1>7, <2>1, <2>2, <1>1, <1>3, <1>4 DEF LockOK, LockOf
  <2> QED BY <2>2, <2>3, <2>4 DEF Ordered
<1> QED BY <1>6, <1>7

LEMMA NamePreserves ==
  ASSUME TypeOK, NEW r \in Requests, Name(r)
  PROVE  TypeOK' /\ (OneAtATime /\ Ordered => Ordered')
<1>1. /\ call[r].at = "launched" /\ call' = [call EXCEPT ![r] = Waiting("idle")]
      /\ lock' = LockOf(call[r].pid) /\ UNCHANGED <<upd, disk, service, forced>>
  BY DEF Name
<1>2. call' \in [Requests -> CallStates] /\ call'[r].at = "idle" /\ (OneAtATime => \A q \in Requests : q = r)
  BY <1>1, CallEffect, Constants DEF OneAtATime
<1>3. call[r].pid \in 0 .. MaxUpdaters
  BY TypeParts DEF CallStates
<1>4. TypeOK'
  BY <1>1, <1>2, <1>3, TypeParts, NextTypes, Constants DEF disk
<1>5. ASSUME OneAtATime, Ordered PROVE LockOK'
  BY <1>1, <1>2, <1>5, UpdatersStay DEF Ordered, LockOK, LockOf
<1> QED BY <1>1, <1>4, <1>5, UpdatersStay DEF Ordered

LEMMA NameFailsPreserves ==
  ASSUME TypeOK, NEW r \in Requests, NameFails(r)
  PROVE  TypeOK' /\ (OneAtATime /\ Ordered => forced' \/ Ordered')
<1>1. /\ call[r].at = "launched" /\ call' = [call EXCEPT ![r] = Waiting("idle")]
      /\ lock' = NoLock /\ forced' = (forced \/ Live(call[r].pid))
      /\ UNCHANGED <<upd, disk, service>>
  BY DEF NameFails
<1>2. call' \in [Requests -> CallStates] /\ call'[r].at = "idle" /\ (OneAtATime => \A q \in Requests : q = r)
  BY <1>1, CallEffect, Constants DEF OneAtATime
<1>3. forced' \in BOOLEAN
  BY <1>1, TypeParts DEF Live
<1>4. TypeOK'
  BY <1>1, <1>2, <1>3, TypeParts, NextTypes, Constants DEF disk
<1>5. ASSUME OneAtATime, Ordered, ~forced' PROVE LockOK'
  BY <1>1, <1>2, <1>5, UpdatersStay DEF Ordered, LockOK
<1> QED BY <1>1, <1>4, <1>5, UpdatersStay DEF Ordered

LEMMA NobodyLives == Alive = {} <=> \A u \in Updaters : ~Live(u)
  BY DEF Alive

LEMMA CancelPreserves ==
  ASSUME TypeOK, Cancel
  PROVE  TypeOK' /\ (Ordered => forced' \/ Ordered')
<1>1. /\ lock' = NoLock /\ UNCHANGED <<call, upd, disk, service>>
      /\ forced' = (forced \/ Alive # {} \/ \E r \in Requests : call[r].at = "marked")
  BY DEF Cancel
<1>2. forced' \in BOOLEAN
  BY <1>1, TypeParts
<1>3. TypeOK'
  BY <1>1, <1>2, TypeParts, NextTypes, Constants DEF disk
<1>4. ASSUME Ordered, ~forced' PROVE LockOK'
  BY <1>1, <1>4, UpdatersStay, NobodyLives DEF Ordered, LockOK
<1> QED BY <1>1, <1>3, <1>4, UpdatersStay DEF Ordered

LEMMA LockAgesPreserves ==
  ASSUME TypeOK, LockAges
  PROVE  TypeOK' /\ (Ordered => forced' \/ Ordered')
<1>1. /\ lock' = [lock EXCEPT !.aged = TRUE] /\ UNCHANGED <<call, upd, disk, service>>
      /\ forced' = (forced \/ Alive # {})
      /\ \A r \in Requests : call[r].at \notin {"marked", "launched"}
  BY DEF LockAges
<1>2. forced' \in BOOLEAN
  BY <1>1, TypeParts
<1>3. lock' \in Locks
  BY <1>1, TypeParts DEF Locks
<1>4. TypeOK'
  BY <1>1, <1>2, <1>3, TypeParts, NextTypes DEF disk
<1>5. ASSUME Ordered, ~forced' PROVE LockOK'
  BY <1>1, <1>5, UpdatersStay, NobodyLives DEF Ordered, LockOK
<1> QED BY <1>1, <1>4, <1>5, UpdatersStay DEF Ordered

LEMMA IdleRequests == \A r \in Requests : Idle[r].at = "idle"
  BY DEF Idle, Waiting

LEMMA ServiceFailsPreserves ==
  ASSUME TypeOK, ServiceFails
  PROVE  TypeOK' /\ (Ordered => forced' \/ Ordered')
<1>1. /\ service \in Versions /\ service' = "failed" /\ ServiceEnds
      /\ UNCHANGED <<upd, disk>>
  BY DEF ServiceFails, Running
<1>2. TypeOK'
  BY <1>1, TypeParts, NextTypes, ServiceEndsEffect DEF disk
<1>3. ASSUME Ordered PROVE \A u \in Updaters : Progress(u)' /\ Verdict(u)'
  BY <1>1, <1>3 DEF Ordered, Progress, Verdict, At, disk, Versions
<1>4. ASSUME Ordered, ~forced' PROVE LockOK'
  <2>1. call' = Idle /\ upd' = upd /\ ((\E u \in Updaters : Live(u)) => lock' = lock)
    BY <1>1, <1>4, ServiceEndsEffect DEF Alive
  <2> QED BY <2>1, <1>4, IdleRequests DEF Ordered, LockOK, Live
<1> QED BY <1>2, <1>3, <1>4 DEF Ordered

LEMMA SystemdRestartsPreserves ==
  ASSUME TypeOK, SystemdRestarts
  PROVE  TypeOK' /\ (Ordered => Ordered')
<1>1. /\ service = "failed" /\ service' \in Versions \cup {"failed"} /\ db' \in Versions
      /\ UNCHANGED <<lock, call, upd, tree, snapshot, forced>>
  BY BootEffect DEF SystemdRestarts
<1>2. \A v \in Versions : tree = Whole(v) =>
        service' \in {v, "failed"} /\ (v = "old" => db' = db) /\ db' \in {db, "new"}
  BY BootEffect DEF SystemdRestarts
<1>3. TypeOK'
  BY <1>1, TypeParts, NextTypes
<1>4. ASSUME Ordered, NEW u \in Updaters PROVE Progress(u)' /\ Verdict(u)'
  <2>1. Progress(u) /\ Verdict(u) /\ upd[u].prev \in Versions /\ upd'[u] = upd[u]
    BY <1>1, <1>4, TypeParts DEF Ordered, UpdStates
  <2>2. tree = Whole("new") => service' \in {"new", "failed"} /\ db' \in {db, "new"}
    BY <1>2 DEF Versions
  <2>3. Progress(u)'
    BY <1>1, <2>1, <2>2 DEF Progress, At, Versions
  <2>4. Verdict(u)'
    BY <1>1, <1>2, <2>1, <2>2 DEF Verdict, At, Versions
  <2> QED BY <2>3, <2>4
<1>5. ASSUME Ordered PROVE LockOK'
  BY <1>1, <1>5 DEF Ordered, LockOK, Live
<1> QED BY <1>3, <1>4, <1>5 DEF Ordered

LEMMA MachineBootsPreserves ==
  ASSUME TypeOK, MachineBoots
  PROVE  TypeOK' /\ (Ordered => Ordered')
<1>1. /\ service' \in Versions \cup {"failed"} /\ db' \in Versions /\ call' = Idle
      /\ lock' \in {lock, NoLock} /\ UNCHANGED <<tree, snapshot, forced>>
      /\ upd' = [u \in Updaters |-> IF Live(u) THEN [upd[u] EXCEPT !.at = "gone"] ELSE upd[u]]
  BY BootEffect DEF MachineBoots, LeftLocks
<1>2. ASSUME NEW u \in Updaters
      PROVE  upd'[u] \in UpdStates /\ upd'[u].at \in {"none", "gone"}
  <2>1. upd[u] \in UpdStates /\ "gone" \in UpdatePlaces
    BY TypeParts DEF UpdatePlaces
  <2>2. CASE Live(u)
    BY <1>1, <2>1, <2>2 DEF UpdStates
  <2>3. CASE ~Live(u)
    BY <1>1, <2>1, <2>3 DEF Live
  <2> QED BY <2>2, <2>3
<1>3. upd' \in [Updaters -> UpdStates]
  BY <1>1, <1>2
<1>4. TypeOK'
  BY <1>1, <1>3, TypeParts, NextTypes, Constants
<1>5. \A u \in Updaters : Progress(u)' /\ Verdict(u)' /\ ~Live(u)'
  BY <1>2 DEF Progress, Verdict, At, Live
<1>6. LockOK'
  BY <1>1, <1>5, IdleRequests DEF LockOK
<1> QED BY <1>4, <1>5, <1>6 DEF Ordered

-----------------------------------------------------------------------------
LEMMA InitInvariant == Init => IInv
<1> SUFFICES ASSUME Init PROVE IInv
  OBVIOUS
<1>1. NotLaunched \in UpdStates /\ NotLaunched.at = "none"
  BY Constants DEF NotLaunched, UpdStates, UpdatePlaces, Outcomes, Versions
<1>2. upd \in [Updaters -> UpdStates] /\ \A u \in Updaters : upd[u].at = "none"
  BY <1>1 DEF Init
<1>3. TypeOK
  BY <1>2, TypeParts, Constants DEF Init, Versions
<1>4. Ordered
  BY <1>2, IdleRequests DEF Init, Ordered, LockOK, Progress, Verdict, At, Live
<1> QED BY <1>3, <1>4 DEF IInv

LEMMA NextPreserves ==
  ASSUME TypeOK, [Next]_vars
  PROVE  TypeOK' /\ (OneAtATime /\ Ordered => forced' \/ Ordered')
<1>1. CASE UNCHANGED vars
  <2>1. TypeOK'
    BY <1>1 DEF vars, disk, TypeOK
  <2>2. Ordered => LockOK'
    BY <1>1 DEF vars, Ordered, LockOK, Live
  <2> QED BY <1>1, <2>1, <2>2, UpdatersStay DEF vars, Ordered
<1>2. ASSUME NEW r \in Requests, CheckLock(r) \/ Applying(r)
      PROVE  TypeOK' /\ (OneAtATime /\ Ordered => forced' \/ Ordered')
  BY <1>2, CheckLockPreserves, MarkPreserves, EndedPreserves, LaunchPreserves,
     NamePreserves, NameFailsPreserves DEF Applying
<1>3. ASSUME NEW u \in Updaters, Updating(u) \/ Dies(u)
      PROVE  TypeOK' /\ (Ordered => forced' \/ Ordered')
  BY <1>3, BackupPreserves, FetchPreserves, ApplyPreserves, BuildPreserves,
     MigratePreserves, RestartPreserves, HealthcheckPreserves, StopPreserves,
     CheckoutPreserves, CopyPreserves, DiscardPreserves, StartPreserves, FinishPreserves, DiesPreserves
     DEF Updating
<1>4. CASE Cancel \/ LockAges \/ ServiceFails \/ SystemdRestarts \/ MachineBoots
  BY <1>4, CancelPreserves, LockAgesPreserves, ServiceFailsPreserves,
     SystemdRestartsPreserves, MachineBootsPreserves
<1> QED BY <1>1, <1>2, <1>3, <1>4 DEF Next

LEMMA ForcedForGood ==
  ASSUME forced, [Next]_vars
  PROVE  forced'
  BY DEF Next, Applying, Updating, CheckLock, Mark, WindowShut, Launch, LaunchFails,
     Name, NameFails, Cancel, LockAges, ServiceFails, SystemdRestarts, MachineBoots,
     ServiceEnds, Backup, Fetch, Apply, Build, Migrate, Restart, Healthcheck, Stop, Checkout, Copy,
     Discard, Start, Finish, Dies, vars

LEMMA AlwaysOrdered == OneAtATime => (Spec => []IInv)
<1> SUFFICES ASSUME OneAtATime PROVE Spec => []IInv
  OBVIOUS
<1>1. IInv /\ [Next]_vars => IInv'
  BY NextPreserves, ForcedForGood DEF IInv
<1> QED BY <1>1, InitInvariant, PTL DEF Spec

-----------------------------------------------------------------------------
\* The model is well typed.
THEOREM UpdateTypesKept == Spec => []TypeOK
<1>1. Init => TypeOK
  BY InitInvariant DEF IInv
<1> QED BY <1>1, NextPreserves, PTL DEF Spec

\* With requests one at a time there is one updater at a time, however many are
\* launched and whoever dies meanwhile (activeLock and isLockStale).
THEOREM OneUpdaterLives == OneAtATime => (Spec => []OneUpdater)
<1>1. IInv => OneUpdater
  <2> SUFFICES ASSUME Ordered PROVE Cardinality(Alive) <= 1
    BY DEF IInv, OneUpdater
  <2>1. CASE Alive = {}
    BY <2>1, FS_EmptySet
  <2>2. CASE Alive # {}
    <3>1. PICK u : Alive = {u}
      BY <2>2 DEF Alive, Ordered, LockOK
    <3> QED BY <3>1, FS_Singleton
  <2> QED BY <2>1, <2>2
<1> QED BY <1>1, AlwaysOrdered, PTL

\* An update reported as done is whole (orchestrateUpdate).
THEOREM DoneMeansWhole == OneAtATime => (Spec => []SuccessIsWhole)
<1>1. IInv => SuccessIsWhole
  BY DEF IInv, Ordered, Verdict, SuccessIsWhole
<1> QED BY <1>1, AlwaysOrdered, PTL

\* A rollback whose commands worked leaves what the backup found (rollback).
THEOREM RollbackIsWhole == OneAtATime => (Spec => []RollbackRestores)
<1>1. IInv => RollbackRestores
  BY DEF IInv, Ordered, Verdict, RollbackRestores
<1> QED BY <1>1, AlwaysOrdered, PTL

\* A refused update touches neither the tree nor the service.
THEOREM RefusedMeansUntouched == OneAtATime => (Spec => []RefusalTouchesNothing)
<1>1. IInv => RefusalTouchesNothing
  BY DEF IInv, Ordered, Verdict, RefusalTouchesNothing
<1> QED BY <1>1, AlwaysOrdered, PTL

\* The database is never put back under a service that has it open: whoever is
\* at the copy has stopped it, and systemd leaves a stopped service alone.
THEOREM CopyFindsServiceStopped == OneAtATime => (Spec => DbReplacedWhenStopped)
<1>1. IInv => NoCopyUnderService
  <2> SUFFICES ASSUME Ordered, NEW u \in Updaters, upd[u].at \in {"copy", "discard"}
               PROVE  ~Running
    BY DEF IInv, NoCopyUnderService, CopyUnderService
  <2>1. service = "stopped"
    BY DEF Ordered, Progress, At
  <2> QED BY <2>1 DEF Running, Versions
<1> QED BY <1>1, AlwaysOrdered, PTL DEF DbReplacedWhenStopped

-----------------------------------------------------------------------------
\* The lists that sweeps share.

Readings == [on : BOOLEAN, left : SUBSET Backends, lost : SUBSET Backends, missing : SUBSET Backends]
ReadsTypeOK ==
  /\ answering \subseteq Backends /\ failures \subseteq Backends
  /\ read \in [Reads -> Readings]
  /\ cached = Nil \/ cached \in SUBSET Backends
  /\ young \in BOOLEAN
  /\ inFlight \in Reads \cup {Nil}
  /\ reader \in [Readers -> {"waits", "told nothing", "told less", "told all"}]

\* The reading that is shared runs, also when nobody waits for it.
SharedInv == ReadsTypeOK /\ NobodyWaitsInVain /\ (inFlight # Nil => read[inFlight].on)

LEMMA ReadingTypes ==
  /\ NoRead \in Readings /\ ~NoRead.on
  /\ answering \subseteq Backends => Asked \in Readings
  /\ Asked.on
  /\ \A missing : Told(missing) \in {"told less", "told all"}
  BY DEF NoRead, Asked, Readings, Told

\* A reading begins, and no other is touched.
LEMMA BeginsStep ==
  ASSUME ReadsTypeOK, NEW r \in Reads, Begins(r)
  PROVE  /\ read' \in [Reads -> Readings] /\ read'[r].on
         /\ \A q \in Reads : read[q].on => read'[q].on
<1>1. read' = [read EXCEPT ![r] = Asked]
  BY DEF Begins
<1> QED BY <1>1, ReadingTypes DEF ReadsTypeOK

\* Those who wait are told, all of them.
LEMMA TellStep ==
  ASSUME ReadsTypeOK, NEW what \in {"told nothing", "told less", "told all"}, TellAll(what)
  PROVE  /\ reader' \in [Readers -> {"waits", "told nothing", "told less", "told all"}]
         /\ \A c \in Readers : reader'[c] # "waits"
  BY DEF ReadsTypeOK, TellAll

LEMMA AskListStep ==
  ASSUME SharedInv, NEW c \in Readers, AskList(c)
  PROVE  SharedInv'
<1>1. ReadsTypeOK /\ UNCHANGED <<answering, failures, cached, young>>
  BY DEF SharedInv, AskList
<1>2. CASE reader' = [reader EXCEPT ![c] = Told(cached)] /\ UNCHANGED <<read, inFlight>>
  BY <1>1, <1>2, ReadingTypes DEF SharedInv, ReadsTypeOK, NobodyWaitsInVain
<1>3. CASE reader' = [reader EXCEPT ![c] = "waits"] /\ inFlight # Nil /\ UNCHANGED <<read, inFlight>>
  BY <1>1, <1>3 DEF SharedInv, ReadsTypeOK, NobodyWaitsInVain
<1>4. ASSUME NEW r \in Reads, Begins(r), inFlight' = r, reader' = [reader EXCEPT ![c] = "waits"]
      PROVE  SharedInv'
  <2>1. read' \in [Reads -> Readings] /\ read'[r].on
    BY <1>1, <1>4, BeginsStep
  <2> QED BY <1>1, <1>4, <2>1, ReadsAssumption DEF SharedInv, ReadsTypeOK, NobodyWaitsInVain
<1> QED BY <1>2, <1>3, <1>4 DEF AskList

LEMMA CollectedStep ==
  ASSUME SharedInv, NEW r \in Reads, Collected(r)
  PROVE  SharedInv'
<1>1. /\ ReadsTypeOK /\ answering' = answering /\ failures' = read[r].missing
      /\ read' = [read EXCEPT ![r] = NoRead]
  BY DEF SharedInv, Collected
<1>2. /\ read' \in [Reads -> Readings] /\ failures' \subseteq Backends
      /\ \A q \in Reads \ {r} : read'[q] = read[q]
  BY <1>1, ReadingTypes DEF ReadsTypeOK, Readings
<1>3. CASE r # inFlight
  <2>1. UNCHANGED <<cacheVars, reader>>
    BY <1>3 DEF Collected
  <2> QED BY <1>1, <1>2, <1>3, <2>1 DEF SharedInv, ReadsTypeOK, NobodyWaitsInVain, cacheVars
<1>4. CASE r = inFlight
  <2> DEFINE failed == read[r].missing = Backends
             what == IF failed THEN "told nothing" ELSE Told(read[r].missing)
  <2>1. /\ inFlight' = Nil /\ TellAll(what)
        /\ IF failed THEN UNCHANGED <<cached, young>>
                     ELSE cached' = read[r].missing /\ young' = TRUE
    BY <1>4 DEF Collected, Released
  <2>2. what \in {"told nothing", "told less", "told all"}
    BY ReadingTypes
  <2> HIDE DEF what
  <2>3. /\ reader' \in [Readers -> {"waits", "told nothing", "told less", "told all"}]
        /\ \A c \in Readers : reader'[c] # "waits"
    BY <1>1, <2>1, <2>2, TellStep
  <2>4. (cached = Nil \/ cached \in SUBSET Backends)' /\ young' \in BOOLEAN
    <3>1. read[r].missing \subseteq Backends
      BY <1>1 DEF ReadsTypeOK, Readings
    <3>2. CASE failed
      BY <1>1, <2>1, <3>2 DEF ReadsTypeOK
    <3>3. CASE ~failed
      BY <2>1, <3>1, <3>3
    <3> QED BY <3>2, <3>3
  <2> QED BY <1>1, <1>2, <2>1, <2>3, <2>4 DEF SharedInv, ReadsTypeOK, NobodyWaitsInVain
<1> QED BY <1>3, <1>4

LEMMA GivenUpStep ==
  ASSUME SharedInv, GivenUp
  PROVE  SharedInv'
<1>1. ReadsTypeOK /\ inFlight' = Nil /\ TellAll("told nothing") /\ UNCHANGED <<answering, read, failures, cached, young>>
  BY DEF SharedInv, GivenUp, Released
<1>2. /\ reader' \in [Readers -> {"waits", "told nothing", "told less", "told all"}]
      /\ \A c \in Readers : reader'[c] # "waits"
  BY <1>1, TellStep
<1> QED BY <1>1, <1>2 DEF SharedInv, ReadsTypeOK, NobodyWaitsInVain

\* A member settles; the reading runs on.
LEMMA MemberStep ==
  ASSUME SharedInv, NEW r \in Reads, NEW b \in Backends, MemberAnswers(r, b) \/ MemberFails(r, b)
  PROVE  SharedInv'
<1>1. ReadsTypeOK /\ UNCHANGED <<answering, failures, cacheVars, reader>>
  BY DEF SharedInv, MemberAnswers, MemberFails
<1>2. read' \in [Reads -> Readings] /\ \A q \in Reads : read'[q].on = read[q].on
  <2>1. read[r] \in Readings
    BY <1>1 DEF ReadsTypeOK
  <2>2. CASE MemberAnswers(r, b)
    <3> DEFINE settled == [read[r] EXCEPT !.left = @ \ {b}]
    <3>1. settled \in Readings /\ settled.on = read[r].on
      BY <2>1 DEF Readings
    <3>2. read' = [read EXCEPT ![r] = settled]
      BY <2>2 DEF MemberAnswers
    <3> HIDE DEF settled
    <3> QED BY <1>1, <3>1, <3>2 DEF ReadsTypeOK
  <2>3. CASE MemberFails(r, b)
    <3> DEFINE settled == [read[r] EXCEPT !.left = @ \ {b}, !.lost = @ \ {b},
                                          !.missing = @ \cup {b}]
    <3>1. settled \in Readings /\ settled.on = read[r].on
      BY <2>1 DEF Readings
    <3>2. read' = [read EXCEPT ![r] = settled]
      BY <2>3 DEF MemberFails
    <3> HIDE DEF settled
    <3> QED BY <1>1, <3>1, <3>2 DEF ReadsTypeOK
  <2> QED BY <2>2, <2>3
<1> QED BY <1>1, <1>2 DEF SharedInv, ReadsTypeOK, NobodyWaitsInVain, cacheVars

LEMMA SharedNext == SharedInv /\ [ReadsNext]_readVars => SharedInv'
<1> SUFFICES ASSUME SharedInv, [ReadsNext]_readVars PROVE SharedInv'
  OBVIOUS
<1>1. ASSUME NEW r \in RouteReads, RouteAsks(r)
      PROVE  SharedInv'
  <2>1. r \in Reads /\ ReadsTypeOK /\ Begins(r) /\ UNCHANGED <<answering, failures, cacheVars, reader>>
    BY <1>1, ReadsAssumption DEF SharedInv, RouteAsks
  <2>2. read' \in [Reads -> Readings] /\ \A q \in Reads : read[q].on => read'[q].on
    BY <2>1, BeginsStep
  <2> QED BY <2>1, <2>2 DEF SharedInv, ReadsTypeOK, NobodyWaitsInVain, cacheVars
<1>2. ASSUME NEW c \in Readers, AskList(c)
      PROVE  SharedInv'
  BY <1>2, AskListStep
<1>3. ASSUME NEW r \in Reads, ReadGoesOn(r)
      PROVE  SharedInv'
  BY <1>3, CollectedStep, MemberStep DEF ReadGoesOn
<1>4. CASE GivenUp
  BY <1>4, GivenUpStep
<1>5. CASE CacheAges \/ Invalidate
  BY <1>5 DEF CacheAges, Invalidate, SharedInv, ReadsTypeOK, NobodyWaitsInVain
<1>6. ASSUME NEW b \in Backends, BackendMoves(b)
      PROVE  SharedInv'
  <2>1. answering' \subseteq Backends /\ UNCHANGED <<read, failures, cacheVars, reader>>
    BY <1>6 DEF BackendMoves, SharedInv, ReadsTypeOK
  <2> QED BY <2>1 DEF SharedInv, ReadsTypeOK, NobodyWaitsInVain, cacheVars
<1>7. CASE UNCHANGED readVars
  BY <1>7 DEF readVars, cacheVars, SharedInv, ReadsTypeOK, NobodyWaitsInVain
<1> QED BY <1>1, <1>2, <1>3, <1>4, <1>5, <1>6, <1>7 DEF ReadsNext

\* Nobody waits for a reading that is over: one that hangs is given up and one
\* that fails is forgotten together with those who share it (withDeviceCache).
THEOREM WaitersAreServed == ReadsSpec => []NobodyWaitsInVain
<1>1. ReadsInit => SharedInv
  BY ReadingTypes DEF ReadsInit, SharedInv, ReadsTypeOK, NobodyWaitsInVain
<1>2. SharedInv => NobodyWaitsInVain
  BY DEF SharedInv
<1> QED BY <1>1, <1>2, SharedNext, PTL DEF ReadsSpec
=============================================================================
