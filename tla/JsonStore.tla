----------------------------- MODULE JsonStore ------------------------------
(***************************************************************************)
(* FileJsonStore of store/json-store.ts: a collection kept in one JSON     *)
(* file.  Every operation of an instance waits its turn in a chain of      *)
(* promises, reads the whole file and, to change it, writes another file,  *)
(* fsyncs it and renames it over the old one.                              *)
(***************************************************************************)
EXTENDS Sequences

CONSTANTS
  Ids, Items, Absent,
  Callers,  \* operations in flight at once
  Faults    \* what may go wrong: "io", "crash", "power", "damage"

ASSUME JsonStoreAssumption ==
  /\ Absent \notin Items
  /\ Faults \subseteq {"io", "crash", "power", "damage"}

VARIABLES
  file,     \* the file as processes read it
  onDisk,   \* the file that a cut of the power would leave
  queue,    \* the chain of promises
  op,       \* each caller's operation
  told      \* the answer to each caller's last operation

fileVars == <<file, onDisk, queue, op, told>>

\* "unsynced": written but not yet forced to the disk; "torn": not all there
\* after a cut of the power; "damaged": by something outside the agent.
Wholeness == {"whole", "unsynced", "torn", "damaged"}
Broken == {"torn", "damaged"}
Contents == [Ids -> Items \cup {Absent}]
Files == [items : Contents, state : Wholeness]
Nothing == [op |-> "nothing"]
Wishes == [op : {"list"}] \cup [op : {"put"}, id : Ids, item : Items] \cup [op : {"remove"}, id : Ids]
Stages == {"read", "open", "fill", "sync", "rename", "clean", "worked", "failed"}
\* `tmp' is the temporary file, its bytes those in memory until it is opened.
\* A temporary file that a crash orphans is never read again: it is left out.
Operations == [wish : Wishes, at : Stages, tmp : Files]
NoOperation == [at |-> "idle", wish |-> Nothing]

FileTypeOK ==
  /\ file \in Files /\ onDisk \in Files
  /\ queue \in Seq(Callers)
  /\ op \in [Callers -> Operations \cup {NoOperation}]
  /\ told \in [Callers -> {"nothing", "worked", "failed"}]

\* No file yet is an empty collection.
Empty == [items |-> [i \in Ids |-> Absent], state |-> "whole"]
FileInit ==
  /\ file = Empty /\ onDisk = Empty
  /\ queue = <<>>
  /\ op = [c \in Callers |-> NoOperation]
  /\ told = [c \in Callers |-> "nothing"]

-----------------------------------------------------------------------------
\* enqueue: the chain never rejects, so a failure only ends its own operation.

Enqueue(c, wish) ==
  /\ op[c] = NoOperation
  /\ op' = [op EXCEPT ![c] = [wish |-> wish, at |-> "read", tmp |-> file]]
  /\ queue' = Append(queue, c)
  /\ told' = [told EXCEPT ![c] = "nothing"]
  /\ UNCHANGED <<file, onDisk>>

NoTurn(c) == TRUE
MyTurn(c) == Head(queue) = c
Doing(c, stage) == op[c] # NoOperation /\ op[c].at = stage /\ MyTurn(c)

StopsAtFailure(c) == IF op[c].at = "failed" THEN queue ELSE Tail(queue)
Dequeued(c) == Tail(queue)

Settles(c) ==
  /\ Doing(c, "worked") \/ Doing(c, "failed")
  /\ told' = [told EXCEPT ![c] = op[c].at]
  /\ queue' = Dequeued(c)
  /\ op' = [op EXCEPT ![c] = NoOperation]
  /\ UNCHANGED <<file, onDisk>>

-----------------------------------------------------------------------------
\* list, get, upsert and removeById.

To(c, stage) == op' = [op EXCEPT ![c].at = stage]

Changed(wish, to) ==
  IF wish.op = "put" THEN [to EXCEPT ![wish.id] = wish.item] ELSE [to EXCEPT ![wish.id] = Absent]
Writes(wish, to) == wish.op = "put" \/ (wish.op = "remove" /\ to[wish.id] # Absent)

DamagedIsEmpty == [file EXCEPT !.items = IF file.state \in Broken THEN Empty.items ELSE @, !.state = "whole"]
Parsed == file

\* readFile and JSON.parse; only a file that is not there reads as empty.
ReadFile(c) ==
  /\ Doing(c, "read")
  /\ LET wish == op[c].wish
         seen == Parsed IN
     CASE seen.state \in Broken -> To(c, "failed")
       [] ~Writes(wish, seen.items) -> To(c, "worked")
       [] OTHER -> op' = [op EXCEPT ![c] = [@ EXCEPT !.at = "open",
                            !.tmp = [items |-> Changed(wish, seen.items), state |-> "unsynced"]]]
  /\ UNCHANGED <<file, onDisk, queue, told>>

\* mkdir and open the temporary file, then write it.
OpenTemp(c) == Doing(c, "open") /\ To(c, "fill") /\ UNCHANGED <<file, onDisk, queue, told>>
FillTemp(c) == Doing(c, "fill") /\ To(c, "sync") /\ UNCHANGED <<file, onDisk, queue, told>>

Unsynced == "unsynced"
Synced == "whole"

SyncTemp(c) ==
  /\ Doing(c, "sync")
  /\ LET synced == [op[c].tmp EXCEPT !.state = Synced] IN
     op' = [op EXCEPT ![c] = [@ EXCEPT !.at = "rename", !.tmp = synced]]
  /\ UNCHANGED <<file, onDisk, queue, told>>

\* (renameWithRetry: a passing lock only delays it.)
RenameTemp(c) ==
  /\ Doing(c, "rename")
  /\ file' = op[c].tmp
  /\ To(c, "worked")
  /\ UNCHANGED <<onDisk, queue, told>>

\* Any of those awaits rejects; past `open' the temporary file is removed.
IoFails(c) ==
  /\ "io" \in Faults
  /\ \/ Doing(c, "read") /\ To(c, "failed")
     \/ \E stage \in {"open", "fill", "sync", "rename"} : Doing(c, stage) /\ To(c, "clean")
  /\ UNCHANGED <<file, onDisk, queue, told>>

\* rm(tmp): whatever comes of it, the error goes on.
CleanTemp(c) == Doing(c, "clean") /\ To(c, "failed") /\ UNCHANGED <<file, onDisk, queue, told>>

-----------------------------------------------------------------------------
\* The operating system and the operator.

\* The journal catches up with the rename.
Journal == onDisk' = file /\ UNCHANGED <<file, queue, op, told>>

Killed ==
  /\ queue' = <<>>
  /\ op' = [c \in Callers |-> NoOperation]
  /\ UNCHANGED told

ProcessDies == "crash" \in Faults /\ Killed /\ UNCHANGED <<file, onDisk>>

\* Bytes that were not forced to the disk are not all there afterwards.
PowerCut ==
  /\ "power" \in Faults
  /\ \E left \in {file, onDisk} :
       file' = [left EXCEPT !.state = IF @ = "unsynced" THEN "torn" ELSE @]
  /\ onDisk' = file'
  /\ Killed

\* A failing disk or a bad edit, put right by hand later.
Damage ==
  /\ "damage" \in Faults
  /\ file' = [file EXCEPT !.state = IF @ \in Broken THEN "whole" ELSE "damaged"]
  /\ onDisk' = file'
  /\ UNCHANGED <<queue, op, told>>

Advance(c) ==
  \/ ReadFile(c) \/ OpenTemp(c) \/ FillTemp(c) \/ SyncTemp(c) \/ RenameTemp(c)
  \/ CleanTemp(c) \/ Settles(c)

FileNext ==
  \/ \E c \in Callers : Advance(c) \/ IoFails(c) \/ \E wish \in Wishes : Enqueue(c, wish)
  \/ Journal \/ ProcessDies \/ PowerCut \/ Damage

FileSpec == FileInit /\ [][FileNext]_fileVars

\* Every await of the file system ends, one way or the other.
FileFairness == \A c \in Callers : WF_fileVars(Advance(c))
FairFileSpec == FileSpec /\ FileFairness

-----------------------------------------------------------------------------
\* Properties.

\* "dos `upsert` concurrentes no se pisan ni pierden uno": the read-change-write
\* cycles over a file, their failures, the crashes and a damaged file implement
\* a collection whose operations take effect at one moment or not at all.
Collection == INSTANCE KeyedStore WITH
  Calls <- Callers,
  items <- file.items,
  settled <- onDisk.items,
  asked <- [c \in Callers |-> op[c].wish],
  done <- {c \in Callers : op[c].at = "worked"}
ImplementsCollection == Collection!Spec

\* "un crash a media escritura no deja el fichero corrupto": what is there, or
\* comes back after a cut of the power, was written whole.
CrashLeavesWholeFile == {file.state, onDisk.state} \subseteq {"whole", "damaged"}

\* A failed operation does not break the chain: every caller is answered.
EveryCallerAnswered == \A c \in Callers : op[c] # NoOperation ~> op[c] = NoOperation
=============================================================================
