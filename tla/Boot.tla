-------------------------------- MODULE Boot --------------------------------
(***************************************************************************)
(* Restoring a backup: system/restore.ts, and what a boot of the agent     *)
(* does with it before it opens the database (index.ts, boot-migrate.ts).  *)
(*                                                                         *)
(* An upload leaves a verified archive in the staging directory; the next  *)
(* boot copies it over the live files one by one, keeping the previous     *)
(* ones in a directory of that boot, and then migrates the database.  The  *)
(* process may die and the power may fail at any step, and any operation   *)
(* on a file may throw.                                                    *)
(*                                                                         *)
(* No copy is forced to the disk: a process that dies cuts the copy it was *)
(* making; the power may tear every copy made since it last came.  What it *)
(* takes of creations, renames and removals is the last ones, and that is  *)
(* to fail a little earlier.                                               *)
(***************************************************************************)
EXTENDS Naturals, Sequences, FiniteSets

CONSTANT MaxMisfortunes  \* bound: deaths and failures within one restore

ASSUME BootAssumption == MaxMisfortunes \in Nat

VARIABLES
  live,      \* the files in place
  incoming,  \* the upload being written: "none", "part" or "whole"
  staging,   \* the archive to restore
  newer,     \* does the archive know migrations the code that boots does not?
  at,        \* where the boot stands
  handled,   \* the file it is working on
  kept,      \* this boot's pre-restore directory
  applied,   \* the files this boot has replaced, and which of them it created
  rescue,    \* the pre-restore directories of earlier boots
  before,    \* history: the files when the agent last stopped serving
  hurt       \* history: what went wrong since, in order

bootVars == <<live, incoming, staging, newer, at, handled, kept, applied, rescue, before, hurt>>

\* "keys" stands for every file after the database: they are one with it, for
\* the secrets of a database are encrypted with its keys.
Names == {"db", "keys"}
AllNames == Names \cup {"wal"}
\* "torn": a copy cut half way.  "mixed": a WAL replayed over another database.
\* "stale": the old database opened without all its WAL held.
FileVersions == {"none", "old", "new", "torn", "mixed", "stale"}

\* A directory: the version of each file, whose WAL lies beside the database,
\* and which of them may not have reached the disk.
Directories ==
  [db : FileVersions, keys : FileVersions, wal : {"none", "old", "torn"}, unsynced : SUBSET AllNames]
NoFiles == [db |-> "none", keys |-> "none", wal |-> "none", unsynced |-> {}]
Archive == [db |-> "new", keys |-> "new", wal |-> "none", unsynced |-> Names]
Held(dir) == {f \in Names : dir[f] # "none"}

Copied(dir, f, version) == [dir EXCEPT ![f] = version, !.unsynced = @ \cup {f}]
Without(dir, f) == [dir EXCEPT ![f] = "none", !.unsynced = @ \ {f}]
Torn(dir, files) ==
  [dir EXCEPT !.db = IF "db" \in files THEN "torn" ELSE @,
              !.keys = IF "keys" \in files THEN "torn" ELSE @,
              !.wal = IF "wal" \in files THEN "torn" ELSE @,
              !.unsynced = @ \cup files]

BootSteps == {"serving", "down", "save", "saveWal", "dropWal", "shm", "put", "clear", "undo",
          "undoWal", "aside", "migrate", "giveBackDb", "giveBackKeys", "retract", "giveBackWal"}
Troubles == {"killed", "cut", "halved", "file", "shm", "clear", "migration", "late"}

BootTypeOK ==
  /\ {live, kept, before, staging} \subseteq Directories
  /\ incoming \in {"none", "part", "whole"}
  /\ newer \in BOOLEAN
  /\ at \in BootSteps /\ handled \in Names
  /\ applied \in [done : SUBSET Names, added : SUBSET Names, known : BOOLEAN]
  /\ rescue \subseteq Directories
  /\ hurt \in Seq(Troubles)

NotApplied == [done |-> {}, added |-> {}, known |-> FALSE]

\* A box in service; there may be keys to restore over, or none yet.
BootInit ==
  /\ live \in {[NoFiles EXCEPT !.db = "old", !.keys = keys] : keys \in {"old", "none"}}
  /\ incoming = "none" /\ staging = NoFiles /\ newer = FALSE
  /\ at = "serving" /\ handled = "db"
  /\ kept = NoFiles /\ applied = NotApplied /\ rescue = {}
  /\ before = live /\ hurt = <<>>

-----------------------------------------------------------------------------
\* While the agent serves: an upload is received beside the staging directory,
\* authenticated, and published by a removal and a rename.

Receive ==
  /\ at = "serving" /\ incoming # "part"
  /\ incoming' = "part"
  /\ UNCHANGED <<live, staging, newer, at, handled, kept, applied, rescue, before, hurt>>

Authenticate ==
  /\ at = "serving" /\ incoming = "part"
  /\ incoming' \in {"none", "whole"}
  /\ UNCHANGED <<live, staging, newer, at, handled, kept, applied, rescue, before, hurt>>

\* A pending archive is removed one file at a time, in no order ...
ClearStaging ==
  /\ at = "serving" /\ incoming = "whole"
  /\ \E f \in Held(staging) : staging' = Without(staging, f)
  /\ UNCHANGED <<live, incoming, newer, at, handled, kept, applied, rescue, before, hurt>>

\* ... and if that throws the upload is discarded, and what was left stays.
ClearFails ==
  /\ at = "serving" /\ incoming = "whole" /\ Held(staging) # {}
  /\ incoming' = "none"
  /\ UNCHANGED <<live, staging, newer, at, handled, kept, applied, rescue, before, hurt>>

Publish ==
  /\ at = "serving" /\ incoming = "whole" /\ Held(staging) = {}
  /\ staging' = Archive /\ incoming' = "none"
  /\ UNCHANGED <<live, newer, at, handled, kept, applied, rescue, before, hurt>>

Half(dir) == Held(dir) \notin {{}, Names}

\* The agent stops, cleanly or not: what its WAL holds is part of its database,
\* and an upload it was writing is lost.  The code that starts next may be
\* older than the one that took the archive.
StopAgent ==
  /\ at = "serving"
  /\ at' = "down"
  /\ \E wal \in {"none", "old"} :
       live' = [live EXCEPT !.db = "old", !.keys = IF @ = "none" THEN "none" ELSE "old", !.wal = wal]
  /\ before' = [live' EXCEPT !.unsynced = {}]
  /\ newer' \in BOOLEAN
  /\ incoming' = "none"
  /\ hurt' = IF Half(staging) THEN <<"halved">> ELSE <<>>
  /\ UNCHANGED <<staging, handled, kept, applied, rescue>>

-----------------------------------------------------------------------------
\* applyPendingRestore and applyStagedRestore.  Every boot has a pre-restore
\* directory of its own.

Moves(step) == at' = step /\ UNCHANGED handled
Static == UNCHANGED <<incoming, newer, before, hurt>>

\* The database, if it is there, comes first.
FirstOf(files) == IF files = {"keys"} THEN "keys" ELSE "db"

StartBoot ==
  /\ at = "down"
  /\ at' = IF Held(staging) # {} THEN "save" ELSE "migrate"
  /\ handled' = FirstOf(Held(staging))
  /\ kept' = NoFiles
  /\ applied' = NotApplied
  /\ rescue' = rescue \cup ({kept} \ {NoFiles})
  /\ UNCHANGED <<live, staging>> /\ Static

\* A file that was not there is not copied, and is remembered as created.
Save ==
  /\ at = "save"
  /\ kept' = IF live[handled] = "none" THEN kept ELSE Copied(kept, handled, live[handled])
  /\ Moves(IF handled = "db" /\ live.wal # "none" THEN "saveWal" ELSE "put")
  /\ applied' = IF at' = "put" THEN [applied EXCEPT !.done = @ \cup {handled}] ELSE applied
  /\ UNCHANGED <<live, staging, rescue>> /\ Static

KeepsWal == Copied(kept, "wal", live.wal)
LosesWal == kept

SavedWal == KeepsWal

SaveWal ==
  /\ at = "saveWal"
  /\ kept' = SavedWal
  /\ Moves("dropWal")
  /\ UNCHANGED <<live, staging, applied, rescue>> /\ Static

DropWal ==
  /\ at = "dropWal"
  /\ live' = Without(live, "wal")
  /\ Moves("shm")
  /\ UNCHANGED <<staging, kept, applied, rescue>> /\ Static

\* The -shm file holds nothing, but is copied and removed like the WAL; only
\* then does the database count as applied.
RetireShm ==
  /\ at = "shm"
  /\ Moves("put")
  /\ applied' = [applied EXCEPT !.done = @ \cup {"db"}]
  /\ UNCHANGED <<live, staging, kept, rescue>> /\ Static

Put ==
  /\ at = "put"
  /\ live' = Copied(live, handled, staging[handled])
  /\ IF handled = "db" /\ "keys" \in Held(staging)
       THEN at' = "save" /\ handled' = "keys"
       ELSE Moves("clear")
  /\ UNCHANGED <<staging, kept, applied, rescue>> /\ Static

Created == {f \in applied.done : kept[f] = "none"}

ClearApplied ==
  /\ at = "clear"
  /\ staging' = NoFiles
  /\ applied' = [applied EXCEPT !.added = Created, !.known = TRUE]
  /\ Moves("migrate")
  /\ UNCHANGED <<live, kept, rescue>> /\ Static

\* The handler of a failure half way puts back each file that counts as
\* applied, the database with its WAL; a file created here is removed.
OnlyTheLast == applied.done \cap {handled}
AllApplied == applied.done
ToUndo == AllApplied

PutBack(dir, f) == IF kept[f] = "none" THEN Without(dir, f) ELSE Copied(dir, f, kept[f])

\* On to the next file to put back, or to the staging directory.
UndoesNext ==
  IF handled = "db" /\ "keys" \in ToUndo
    THEN at' = "undo" /\ handled' = "keys"
    ELSE Moves("aside")

Undo ==
  /\ at = "undo"
  /\ live' = PutBack(live, handled)
  /\ IF handled = "db" /\ kept.wal # "none" THEN Moves("undoWal") ELSE UndoesNext
  /\ UNCHANGED <<staging, kept, applied, rescue>> /\ Static

UndoWal ==
  /\ at = "undoWal"
  /\ live' = Copied(live, "wal", kept.wal)
  /\ UndoesNext
  /\ UNCHANGED <<staging, kept, applied, rescue>> /\ Static

\* The staging directory is renamed aside, or removed, and the boot goes on.
SetAside ==
  /\ at = "aside"
  /\ staging' = NoFiles
  /\ Moves("migrate")
  /\ UNCHANGED <<live, kept, applied, rescue>> /\ Static

-----------------------------------------------------------------------------
\* migrateWithRestoreSafety.

Unknown == live.db = "new" /\ newer

\* SQLite replays the WAL that lies beside the file, whosever it is and as far
\* as it is whole; migrating is a transaction over the result.
Opened ==
  [Without(live, "wal") EXCEPT
     !.db = CASE @ = "old" /\ live.wal # before.wal -> "stale"
              [] @ # "old" /\ live.wal # "none" -> "mixed"
              [] OTHER -> @]

\* (nothing reads the directories of this restore after it)
OpenDatabase ==
  /\ at = "migrate" /\ live.db # "torn" /\ ~Unknown
  /\ live' = Opened
  /\ at' = "serving" /\ handled' = "db"
  /\ kept' = NoFiles /\ rescue' = {} /\ applied' = NotApplied
  /\ UNCHANGED staging /\ Static

\* A database from the future: back to the one before, if this boot restored
\* it; otherwise, as with any other failure, the process exits and boots again.
ExitsAlways == "down"
WhenRefused == IF Unknown /\ applied.known /\ kept.db # "none" THEN "giveBackDb" ELSE "down"

RefuseNewer ==
  /\ at = "migrate" /\ (live.db = "torn" \/ Unknown)
  /\ Moves(WhenRefused)
  /\ UNCHANGED <<live, staging, kept, applied, rescue>> /\ Static

GiveBackDb ==
  /\ at = "giveBackDb"
  /\ live' = Copied(Without(live, "wal"), "db", kept.db)
  /\ Moves("giveBackKeys")
  /\ UNCHANGED <<staging, kept, applied, rescue>> /\ Static

\* revertAppliedRestore gives back what its directory has ...
GiveBack(f) == IF kept[f] = "none" THEN live ELSE Copied(live, f, kept[f])

GiveBackKeys ==
  /\ at = "giveBackKeys"
  /\ live' = GiveBack("keys")
  /\ Moves("retract")
  /\ UNCHANGED <<staging, kept, applied, rescue>> /\ Static

\* ... and is told which files the restore created.
Retract ==
  /\ at = "retract"
  /\ live' = IF "keys" \in applied.added THEN Without(live, "keys") ELSE live
  /\ Moves("giveBackWal")
  /\ UNCHANGED <<staging, kept, applied, rescue>> /\ Static

GiveBackWal ==
  /\ at = "giveBackWal"
  /\ live' = GiveBack("wal")
  /\ applied' = [applied EXCEPT !.known = FALSE]
  /\ Moves("migrate")
  /\ UNCHANGED <<staging, kept, rescue>> /\ Static

-----------------------------------------------------------------------------
\* Misfortunes.

Again(trouble) ==
  /\ Len(hurt) < MaxMisfortunes
  /\ hurt' = Append(hurt, trouble)
  /\ UNCHANGED <<incoming, newer, applied, before>>

\* The files being copied over live ones and to the pre-restore directory, and
\* what may be left of the staging directory while it is removed.
CopiedNow ==
  {f \in {handled} : at = "put" \/ (at = "undo" /\ kept[f] # "none")}
    \cup {f \in {"db"} : at = "giveBackDb"}
    \cup {f \in {"keys"} : at = "giveBackKeys" /\ kept[f] # "none"}
    \cup {f \in {"wal"} : at \in {"undoWal", "giveBackWal"} /\ kept[f] # "none"}
KeptNow == {f \in {handled} : at = "save" /\ live[f] # "none"} \cup {f \in {"wal"} : at = "saveWal"}
LeftNow ==
  IF at \in {"clear", "aside"}
    THEN {staging, Without(staging, "db"), Without(staging, "keys"), NoFiles}
    ELSE {staging}

\* What was under way is cut half way, if it had begun.
CutShort ==
  /\ live' \in {Torn(live, cut) : cut \in SUBSET CopiedNow}
  /\ kept' \in {Torn(kept, cut) : cut \in SUBSET KeptNow}
  /\ staging' \in LeftNow
  /\ UNCHANGED rescue

ProcessDies ==
  /\ at \notin {"serving", "down"}
  /\ Again("killed")
  /\ CutShort
  /\ Moves("down")

\* What the power leaves of a directory: any of its files that had not reached
\* the disk may be torn.
AfterCut(dir, cut) == {[Torn(dir, lost) EXCEPT !.unsynced = {}] : lost \in SUBSET (dir.unsynced \cup cut)}

\* The pre-restore directories count as lost: no boot reads those of another.
\* (In service, a power cut is StopAgent and then this.)
PowerFails ==
  /\ at # "serving"
  /\ Again("cut")
  /\ live' \in AfterCut(live, CopiedNow)
  /\ \E left \in LeftNow : staging' \in AfterCut(left, {})
  /\ kept' = NoFiles /\ rescue' = {}
  /\ Moves("down")

\* An operation on a file throws: inside the loop its handler undoes, after it
\* nothing is undone.
FileFails ==
  /\ at \in {"save", "saveWal", "dropWal", "shm", "put", "clear"}
  /\ Again(IF at \in {"shm", "clear"} THEN at ELSE "file")
  /\ CutShort
  /\ IF at = "clear" \/ ToUndo = {}
       THEN Moves("aside")
       ELSE at' = "undo" /\ handled' = FirstOf(ToUndo)

\* The undoing of a file that fails leaves that file and goes on with the next.
UndoFails ==
  /\ at \in {"undo", "undoWal"}
  /\ Again("late")
  /\ CutShort
  /\ UndoesNext

\* A failure further on ends the process.
BootThrows ==
  /\ at \in {"aside", "giveBackDb", "giveBackKeys", "retract", "giveBackWal"}
  /\ Again("late")
  /\ CutShort
  /\ Moves("down")

\* No space for the copy, or a migration that fails and is rolled back.
MigrationFails ==
  /\ at = "migrate"
  /\ Again("migration")
  /\ Moves("down")
  /\ UNCHANGED <<live, staging, kept, rescue>>

BootStep ==
  \/ StartBoot \/ Save \/ SaveWal \/ DropWal \/ RetireShm \/ Put \/ ClearApplied
  \/ Undo \/ UndoWal \/ SetAside \/ OpenDatabase \/ RefuseNewer
  \/ GiveBackDb \/ GiveBackKeys \/ Retract \/ GiveBackWal

BootNext ==
  \/ Receive \/ Authenticate \/ ClearStaging \/ ClearFails \/ Publish \/ StopAgent
  \/ BootStep
  \/ ProcessDies \/ PowerFails \/ FileFails \/ UndoFails \/ BootThrows \/ MigrationFails

BootSpec == BootInit /\ [][BootNext]_bootVars

\* systemd starts the agent again, and its boot is one synchronous function.
BootFairness == WF_bootVars(BootStep)
FairBootSpec == BootSpec /\ BootFairness

-----------------------------------------------------------------------------
\* Properties.

Is(trouble) == trouble \in {hurt[i] : i \in DOMAIN hurt}
Only(troubles) == \A i \in DOMAIN hurt : hurt[i] \in troubles
Restored == live.db = "new" /\ live.keys = "new"
AsBefore == live.db = before.db /\ live.keys = before.keys

\* What the code survives: deaths of the process, as many as there are, while
\* it applies an archive this version knows; or one failure.
MeantToSurvive ==
  \/ ~newer /\ Only({"killed"})
  \/ hurt \in {<<>>, <<"file">>, <<"migration">>} /\ (newer => hurt = <<"file">> \/ hurt = <<>>)

\* "nunca queda un estado a medio restaurar" (restore.ts): whenever the process
\* dies, or whichever one operation fails, the agent serves the files of the
\* archive, all of them, or those it had; and "un WAL no esta atado al fichero
\* principal": whatever went wrong, it never serves the restored database with
\* the WAL of the old one replayed over it.
AllOrNothing ==
  at = "serving" => live.db # "mixed" /\ (MeantToSurvive => Restored \/ AsBefore)

\* "la copia previa sigue en preRestoreDir para rescate manual": until the
\* agent serves again, the database of before is whole in place, or else in
\* one of the directories, with its WAL: whatever fails, however often, unless
\* it is the power, for none of these copies is forced to the disk.
OldBaseIsRescuable ==
  at # "serving" /\ ~Is("cut") =>
    \E where \in rescue \cup {live, kept} : where.db = "old" /\ where.wal = before.wal

\* "un backup danado/incompleto no deje la caja en un bucle de reinicio".
ComesUp == []<>(at = "serving" \/ ~MeantToSurvive)

\* "La base vieja vuelve con su WAL: sin el se perderia lo no checkpointed":
\* the old database is never opened without what its WAL held.
FailureKeepsWal == live.db # "stale"
=============================================================================
