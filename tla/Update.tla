------------------------------- MODULE Update -------------------------------
(***************************************************************************)
(* The one-click update with rollback of a bare-metal installation.        *)
(* modules/system/update.service.ts decides, marks var/update.lock and     *)
(* launches an updater, a process of its own that outlives the service;    *)
(* the updater (update-runner.ts) runs system/update-orchestrator.ts over  *)
(* the steps of system/process-update-runner.ts, which replace the working *)
(* tree, migrate the database and restart the service, or undo it all.     *)
(*                                                                         *)
(* The service is one process: one action is the code between two awaits.  *)
(* An updater takes a step of the orchestrator, or a command of the        *)
(* rollback, at a time.  Either can die at any point; systemd boots a      *)
(* service that failed from whatever is in the tree, and never one that    *)
(* was stopped.                                                            *)
(***************************************************************************)
EXTENDS Integers, FiniteSets

CONSTANTS
  Requests,     \* POST /update/apply that may be in progress at once
  MaxUpdaters   \* bound: updaters launched in a behaviour

ASSUME UpdatersAssumption == MaxUpdaters \in Nat

VARIABLES
  lock,      \* var/update.lock
  call,      \* where each request to update waits
  upd,       \* the updaters
  tree,      \* the working tree: what is checked out, and whether all of it is
             \* installed and built
  db,        \* the schema of the live database
  snapshot,  \* <db>.pre-update
  service,   \* the version that runs, or why none does
  forced     \* history: an updater lost its lock while it lived, or before it did

disk == <<tree, db, snapshot>>
vars == <<lock, call, upd, disk, service, forced>>

Updaters == 1 .. MaxUpdaters
Versions == {"old", "new"}
Running == service \in Versions

\* parseLock(): pid 0 is a lock whose updater is not known yet; `aged' is a
\* lock written LOCK_TTL_MS (20 minutes) ago.
NoLock == [set |-> FALSE, pid |-> 0, aged |-> FALSE]
LockOf(u) == [set |-> TRUE, pid |-> u, aged |-> FALSE]

\* A tree whose build is complete.
Whole(v) == [ref |-> v, whole |-> TRUE]

Waiting(c) == [at |-> c, pid |-> 0]
Idle == [r \in Requests |-> Waiting("idle")]

Steps == {"backup", "fetch", "apply", "build", "migrate", "restart", "healthcheck"}
Undoing == {"stop", "checkout", "copy", "discard", "start"}
NotLaunched == [at |-> "none", prev |-> "old", before |-> Whole("old"), outcome |-> "none"]
Live(u) == upd[u].at \notin {"none", "gone"}
Alive == {u \in Updaters : Live(u)}

TypeOK ==
  /\ lock \in [set : BOOLEAN, pid : 0 .. MaxUpdaters, aged : BOOLEAN]
  /\ call \in [Requests -> [at : {"idle", "free", "marked", "launched"}, pid : 0 .. MaxUpdaters]]
  /\ upd \in [Updaters ->
       [at : {"none", "finish", "gone"} \cup Steps \cup Undoing, prev : Versions,
        before : [ref : Versions, whole : BOOLEAN],
        outcome : {"none", "updated", "refused", "rolledBack", "undoFailed"}]]
  /\ tree \in [ref : Versions, whole : BOOLEAN]
  /\ db \in Versions /\ snapshot \in Versions
  /\ service \in Versions \cup {"failed", "stopped"}
  /\ forced \in BOOLEAN

Init ==
  /\ lock = NoLock
  /\ call = Idle
  /\ upd = [u \in Updaters |-> NotLaunched]
  /\ tree = Whole("old") /\ db = "old" /\ snapshot = "old"
  /\ service = "old"
  /\ forced = FALSE

-----------------------------------------------------------------------------
\* UpdateService: activeLock() and apply() in the service.

\* isLockStale(): a dead updater frees its lock at once; a lock without a pid
\* (and any other) is freed by its age.
UnknownPidIsStale == lock.aged \/ lock.pid = 0 \/ ~Live(lock.pid)
NeverAges == lock.pid # 0 /\ ~Live(lock.pid)
Stale == lock.aged \/ (lock.pid # 0 /\ ~Live(lock.pid))
Active == lock.set /\ ~Stale

\* An update is available to the old version only.
CheckLock(r) ==
  /\ service = "old" /\ call[r].at = "idle"
  /\ ~Active
  /\ call' = [call EXCEPT ![r] = Waiting("free")]
  /\ UNCHANGED <<lock, upd, disk, service, forced>>

\* The window is open, or it is forced: `in progress' is marked, ...
Mark(r) ==
  /\ call[r].at = "free"
  /\ call' = [call EXCEPT ![r] = Waiting("marked")]
  /\ lock' = LockOf(0)
  /\ UNCHANGED <<upd, disk, service, forced>>

\* ... or the window is shut.
WindowShut(r) ==
  /\ call[r].at = "free"
  /\ call' = [call EXCEPT ![r] = Waiting("idle")]
  /\ UNCHANGED <<lock, upd, disk, service, forced>>

\* The updater is launched, ...
Launch(r, u) ==
  /\ call[r].at = "marked"
  /\ upd[u].at = "none" /\ \A v \in Updaters : v < u => upd[v].at # "none"
  /\ upd' = [upd EXCEPT ![u] = [NotLaunched EXCEPT !.at = "backup", !.before = tree]]
  /\ call' = [call EXCEPT ![r] = [at |-> "launched", pid |-> u]]
  /\ UNCHANGED <<lock, disk, service, forced>>

\* ... or it cannot be: spawn() throws and the lock is removed, or it returns
\* no pid and the lock stays as it is.
Unlaunched == {NoLock, lock}
LaunchFails(r) ==
  /\ call[r].at = "marked"
  /\ call' = [call EXCEPT ![r] = Waiting("idle")]
  /\ lock' \in Unlaunched
  /\ UNCHANGED <<upd, disk, service, forced>>

\* Its pid goes to the lock, ...
Name(r) ==
  /\ call[r].at = "launched"
  /\ call' = [call EXCEPT ![r] = Waiting("idle")]
  /\ lock' = LockOf(call[r].pid)
  /\ UNCHANGED <<upd, disk, service, forced>>

\* ... or the write fails, and the lock of an updater that runs is removed.
NameFails(r) ==
  /\ call[r].at = "launched"
  /\ call' = [call EXCEPT ![r] = Waiting("idle")]
  /\ lock' = NoLock
  /\ forced' = (forced \/ Live(call[r].pid))
  /\ UNCHANGED <<upd, disk, service>>

\* POST /update/cancel: cancel() removes the lock and kills nobody.
Cancel ==
  /\ Running /\ lock.set
  /\ lock' = NoLock
  /\ forced' = (forced \/ Alive # {} \/ \E r \in Requests : call[r].at = "marked")
  /\ UNCHANGED <<call, upd, disk, service>>

\* Twenty minutes pass: longer than a request takes, not than every update.
LockAges ==
  /\ lock.set /\ ~lock.aged
  /\ \A r \in Requests : call[r].at \notin {"marked", "launched"}
  /\ lock' = [lock EXCEPT !.aged = TRUE]
  /\ forced' = (forced \/ Alive # {})
  /\ UNCHANGED <<call, upd, disk, service>>

-----------------------------------------------------------------------------
\* A service that starts: it migrates the database to what its code knows, and
\* refuses one that knows more (migrateOrExit).

\* What a half-built tree runs is anybody's guess.
Codes == IF tree.whole THEN {tree.ref} ELSE Versions
Migrates(v) == (v = "old" => db = "old") /\ db' = IF v = "new" THEN "new" ELSE db

Boot ==
  \/ \E v \in Codes : Migrates(v) /\ service' = v
  \/ (db' = db \/ \E v \in Codes : Migrates(v)) /\ service' = "failed"

\* A service that ends may be writing its mark, or the pid: an empty file is
\* left, and parses as no lock.
LeftLocks == {lock} \cup {NoLock : r \in {q \in Requests : call[q].at \in {"free", "launched"}}}
ServiceEnds ==
  /\ call' = Idle
  /\ lock' \in LeftLocks
  /\ forced' = (forced \/ (lock' # lock /\ Alive # {}))

ServiceFails ==
  /\ Running
  /\ service' = "failed" /\ ServiceEnds
  /\ UNCHANGED <<upd, disk>>

\* Restart=on-failure.
SystemdRestarts ==
  /\ service = "failed"
  /\ Boot
  /\ UNCHANGED <<lock, call, upd, tree, snapshot, forced>>

\* The power goes and comes back: nothing that ran survives.
MachineBoots ==
  /\ Boot
  /\ call' = Idle /\ lock' \in LeftLocks
  /\ upd' = [u \in Updaters |-> IF Live(u) THEN [upd[u] EXCEPT !.at = "gone"] ELSE upd[u]]
  /\ UNCHANGED <<tree, snapshot, forced>>

-----------------------------------------------------------------------------
\* The updater: orchestrateUpdate() over ProcessUpdateRunner.

At(u, s) == upd[u].at = s
GoesTo(u, s) == upd' = [upd EXCEPT ![u].at = s]
Ends(u, o) == upd' = [upd EXCEPT ![u].at = "finish", ![u].outcome = o]

\* A step that fails before the backup is done, or a version this system
\* cannot run, changes nothing; any other failure is undone.
Backup(u) ==
  /\ At(u, "backup")
  /\ \/ /\ snapshot' = db
        /\ upd' = [upd EXCEPT ![u].at = "fetch", ![u].prev = tree.ref]
     \/ Ends(u, "refused") /\ UNCHANGED snapshot
  /\ UNCHANGED <<lock, call, tree, db, service, forced>>

Fetch(u) ==
  /\ At(u, "fetch")
  /\ GoesTo(u, "apply") \/ Ends(u, "refused") \/ GoesTo(u, "stop")
  /\ UNCHANGED <<lock, call, disk, service, forced>>

ApplyRefuses(u) == Ends(u, "refused")
ApplyFails(u) == GoesTo(u, "stop")

\* apply(): the checkout, then the installation and the build.
Apply(u) ==
  /\ At(u, "apply")
  /\ \/ tree' = [ref |-> "new", whole |-> FALSE] /\ GoesTo(u, "build")
     \/ tree' \in [ref : {tree.ref, "new"}, whole : {FALSE}] /\ ApplyFails(u)
  /\ UNCHANGED <<lock, call, db, snapshot, service, forced>>

Build(u) ==
  /\ At(u, "build")
  /\ \/ tree' = [tree EXCEPT !.whole = TRUE] /\ GoesTo(u, "migrate")
     \/ UNCHANGED tree /\ ApplyFails(u)
  /\ UNCHANGED <<lock, call, db, snapshot, service, forced>>

\* The migrations that were applied before one that fails stay.
Migrate(u) ==
  /\ At(u, "migrate")
  /\ \/ (\E v \in Codes : Migrates(v)) /\ GoesTo(u, "restart")
     \/ (db' = db \/ \E v \in Codes : Migrates(v)) /\ GoesTo(u, "stop")
  /\ UNCHANGED <<lock, call, tree, snapshot, service, forced>>

\* systemctl restart: the service that ran ends with all it was doing.
RestartIgnored(u) == GoesTo(u, "healthcheck")
RestartFails(u) == GoesTo(u, "stop")
Restart(u) ==
  /\ At(u, "restart")
  /\ \/ Boot /\ ServiceEnds /\ GoesTo(u, "healthcheck")
     \/ RestartFails(u) /\ UNCHANGED <<lock, db, service, call, forced>>
  /\ UNCHANGED <<tree, snapshot>>

Healthcheck(u) ==
  /\ At(u, "healthcheck")
  /\ (Running /\ Ends(u, "updated")) \/ GoesTo(u, "stop")
  /\ UNCHANGED <<lock, call, disk, service, forced>>

\* rollback(): stop, restore the tree, restore the database, start.  What
\* fails leaves the rest undone.
RollbackFails(u) == Ends(u, "undoFailed")

StillRunning == service
Stopped == "stopped"
Stop(u) ==
  /\ At(u, "stop")
  /\ \/ service' = Stopped /\ ServiceEnds /\ GoesTo(u, "checkout")
     \/ RollbackFails(u) /\ UNCHANGED <<lock, service, call, forced>>
  /\ UNCHANGED disk

TreeKept(u) == tree
PreviousTree(u) == Whole(upd[u].prev)
Checkout(u) ==
  /\ At(u, "checkout")
  /\ \/ tree' = PreviousTree(u) /\ GoesTo(u, "copy")
     \/ tree' \in [ref : {tree.ref, upd[u].prev}, whole : {FALSE}] /\ RollbackFails(u)
  /\ UNCHANGED <<lock, call, db, snapshot, service, forced>>

Copy(u) ==
  /\ At(u, "copy")
  /\ \/ db' = snapshot /\ GoesTo(u, "discard")
     \/ UNCHANGED db /\ RollbackFails(u)
  /\ UNCHANGED <<lock, call, tree, snapshot, service, forced>>

\* The WAL of the database that was replaced goes, and its -shm (db stands for
\* the schema: what a WAL holds is Boot's matter).
Discard(u) ==
  /\ At(u, "discard")
  /\ GoesTo(u, "start") \/ RollbackFails(u)
  /\ UNCHANGED <<lock, call, disk, service, forced>>

Start(u) ==
  /\ At(u, "start")
  /\ \/ /\ IF Running THEN UNCHANGED <<db, service>> ELSE Boot
        /\ Ends(u, "rolledBack")
     \/ UNCHANGED <<db, service>> /\ RollbackFails(u)
  /\ UNCHANGED <<lock, call, tree, snapshot, forced>>

\* The result is written and the lock, whosever it is, removed.
Finish(u) ==
  /\ At(u, "finish")
  /\ GoesTo(u, "gone")
  /\ lock' = NoLock
  /\ UNCHANGED <<call, disk, service, forced>>

Dies(u) ==
  /\ Live(u)
  /\ GoesTo(u, "gone")
  /\ UNCHANGED <<lock, call, disk, service, forced>>

-----------------------------------------------------------------------------
Applying(r) ==
  Mark(r) \/ WindowShut(r) \/ (\E u \in Updaters : Launch(r, u)) \/ LaunchFails(r)
  \/ Name(r) \/ NameFails(r)

Updating(u) ==
  \/ Backup(u) \/ Fetch(u) \/ Apply(u) \/ Build(u) \/ Migrate(u) \/ Restart(u)
  \/ Healthcheck(u) \/ Stop(u) \/ Checkout(u) \/ Copy(u) \/ Discard(u)
  \/ Start(u) \/ Finish(u)

Next ==
  \/ \E r \in Requests : CheckLock(r) \/ Applying(r)
  \/ \E u \in Updaters : Updating(u) \/ Dies(u)
  \/ Cancel \/ LockAges \/ ServiceFails \/ SystemdRestarts \/ MachineBoots

Spec == Init /\ [][Next]_vars

\* A request ends, with its service at the latest; the commands of an updater
\* have a timeout; time passes.
UpdateFairness ==
  /\ \A r \in Requests : WF_vars(Applying(r))
  /\ \A u \in Updaters : WF_vars(Updating(u))
  /\ WF_vars(LockAges)
FairSpec == Spec /\ UpdateFairness

-----------------------------------------------------------------------------
\* Properties.  An administrator who cancels, an update of more than twenty
\* minutes, and a disk that refuses the pid or a service that ends while it
\* writes it leave an updater without its lock: what follows is said of the rest.

\* "Asi dos clics seguidos no lanzan dos procesos" (apply): one updater at a
\* time, whichever process dies and is restarted meanwhile.
OneUpdater == forced \/ Cardinality(Alive) <= 1

\* "parar -> restaurar -> arrancar" (rollback): the database is never put back
\* under a service that has it open.
CopyUnderService ==
  \E u \in Updaters : Running /\ upd[u].at \in {"copy", "discard"} /\ upd'[u].at \in {"discard", "start"}
NoCopyUnderService == ~forced => ~CopyUnderService
DbReplacedWhenStopped == [][NoCopyUnderService]_vars

\* An update reported as done is done: the new tree, built, over a migrated
\* database, and no service but the new one.
SuccessIsWhole ==
  forced \/ \A u \in Updaters :
    At(u, "finish") /\ upd[u].outcome = "updated"
      => tree = Whole("new") /\ db = "new" /\ service \in {"new", "failed"}

\* A rollback whose commands all worked leaves what the backup found: that
\* version, whole, and its database, with no other version running.
RollbackRestores ==
  forced \/ \A u \in Updaters :
    At(u, "finish") /\ upd[u].outcome = "rolledBack"
      => /\ tree = Whole(upd[u].prev)
         /\ db = snapshot \/ (db = "new" /\ upd[u].prev = "new")
         /\ service \in {upd[u].prev, "failed"}

\* "no se ha tocado el arbol ni el servicio" (orchestrateUpdate): an update
\* that is refused leaves the tree as it was, and the service up.
RefusalTouchesNothing ==
  forced \/ \A u \in Updaters :
    At(u, "finish") /\ upd[u].outcome = "refused"
      => tree = upd[u].before /\ service # "stopped"

\* An update does not stay in progress for ever, whoever dies: the service
\* between two writes of the lock, or the updater anywhere.
UpdatingEnds == Active ~> ~Active
=============================================================================
