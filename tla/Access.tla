------------------------------- MODULE Access -------------------------------
(***************************************************************************)
(* Parental control: modules/access/access.service.ts (the one-minute      *)
(* sweep, pause, resume), access/reaffirm.ts (which blocks are asserted    *)
(* again) and setBlocked of modules/inventory/inventory.service.ts.        *)
(*                                                                         *)
(* A device is cut off by a rule in the router, which the agent can write  *)
(* and not read.  Three sources want it there: the owner (Device.isBlocked)*)
(* a schedule window and a pause.  managedBlocked records the rules set    *)
(* for the last two.  A router command has two instants: the router obeys, *)
(* and the call that sent it goes on; both interleave with other calls.    *)
(*                                                                         *)
(* Abstracted: clocks (a window is open or not, a mark is fresh or not),   *)
(* person schedules (they are rows that change between sweeps), a home     *)
(* without router (its sweep returns at once).                             *)
(***************************************************************************)
EXTENDS Integers, Sequences, FiniteSets, SequencesExt

CONSTANTS
  Macs,        \* the devices
  Requests,    \* slots for concurrent HTTP requests
  Boot, Loop,  \* the slots of the first sweep and of the periodic one
  Uses,        \* the operations people use: "pause", "resume", "block", "unblock"
  Windows,     \* the devices whose schedule window opens and closes
  Pausable,    \* those that an earlier process may have left paused
  Cap,         \* REAFIRMACION_TOPE_POR_BARRIDO
  Failures,    \* how a command may fail: "refused", or "timeout" (it was obeyed)
  DbFails,     \* may the database refuse a statement?
  SlowBoot,    \* may the first sweep outlast the minute to the next one?
  Reboots,     \* may the router restart and lose its rules?
  AgentCrashes \* when may the process die: "never", "betweenCommands", "anytime"?

ASSUME MacsAssumption == IsFiniteSet(Macs)
ASSUME SlotsAssumption == {Boot, Loop} \cap Requests = {} /\ Boot # Loop
ASSUME WindowsAssumption == Windows \cup Pausable \subseteq Macs
ASSUME UsesAssumption == Uses \subseteq {"pause", "resume", "block", "unblock"}
ASSUME CapAssumption == Cap \in Nat \ {0}
ASSUME FailuresAssumption == Failures \subseteq {"refused", "timeout"}
ASSUME RestartsAssumption == {DbFails, SlowBoot, Reboots} \subseteq BOOLEAN
ASSUME CrashesAssumption == AgentCrashes \in {"never", "betweenCommands", "anytime"}

VARIABLES
  scheduled, \* devices in an enabled window that is open now
  paused,    \* devices whose pausedUntil is in the future
  manual,    \* devices with isBlocked set
  managed,   \* this.managedBlocked
  saved,     \* the Setting row access.managedBlocked
  writes,    \* upserts of that row queued at the database, oldest first
  behind,    \* since the set was last serialised, was its upsert refused, or
             \* was a sweep cut before the persist it owed?  (Only observes.)
  marks,     \* this.reafirmadas: devices by the age of their mark, oldest first
  fresh,     \* the marked devices whose mark is younger than the interval
  rules,     \* the devices the router cuts off
  call,      \* what each slot is doing
  up         \* is the process running?

accessVars ==
  <<scheduled, paused, manual, managed, saved, writes, behind, marks, fresh, rules, call, up>>
rows == <<scheduled, paused, manual>>
reaffirmed == <<marks, fresh>>

Sweeps == {Boot, Loop}
Slots == Requests \cup Sweeps
Places == {"idle", "readManual", "guardPause", "guardSchedule", "blocking",
           "unblocking", "obeyed", "persist", "load", "schedules", "pauses",
           "device", "manuals"}
Ops == {"pause", "resume", "block", "unblock", "sweep", "reaffirm"}

\* A call: where it waits, for which operation and device, and (a sweep) the
\* devices that should be blocked, those left to look at, the plan of
\* reaffirmations and whether managedBlocked changed.
CallState == [at : Places, op : Ops, mac : SUBSET Macs, active : SUBSET Macs,
              todo : SUBSET Macs, plan : Seq(Macs), changed : BOOLEAN]
NoCall(where, op) == [at |-> where, op |-> op, mac |-> {}, active |-> {},
                      todo |-> {}, plan |-> <<>>, changed |-> FALSE]
Idle == NoCall("idle", "sweep")

AccessTypeOK ==
  /\ {scheduled, paused, manual, managed, saved, fresh, rules} \subseteq SUBSET Macs
  /\ writes \in Seq([slot : Slots, value : SUBSET Macs])
  /\ marks \in Seq(Macs) /\ IsInjective(marks) /\ fresh \subseteq ToSet(marks)
  /\ call \in [Slots -> CallState]
  /\ {up, behind} \subseteq BOOLEAN

AccessInit ==
  /\ scheduled \in SUBSET Windows
  /\ manual \in SUBSET Macs /\ rules = manual
  /\ paused \in SUBSET Pausable
  /\ managed = {} /\ saved = {}
  /\ writes = <<>> /\ behind = FALSE /\ marks = <<>> /\ fresh = {}
  /\ call = [s \in Slots |-> IF s = Boot THEN NoCall("load", "sweep") ELSE Idle]
  /\ up = TRUE

-----------------------------------------------------------------------------
Goto(s, c) == call' = [call EXCEPT ![s] = c]
Move(s, where) == call' = [call EXCEPT ![s].at = where]
OnDevice(where, op, m) == [NoCall(where, op) EXCEPT !.mac = {m}]

\* persistManaged(): the set is serialised at once, its upsert queued.
SerialisedStale(now) == managed
Serialised(now) == now
Persist(s, now) ==
  /\ writes' = Append(writes, [slot |-> s, value |-> Serialised(now)])
  /\ behind' = FALSE

-----------------------------------------------------------------------------
\* The HTTP operations.

\* pause() and resume() write pausedUntil; setBlocked() looks the device up.
\* (start() queued the first read of the Boot sweep before the server listens.)
Request(s, m, op) ==
  /\ call[s] = Idle
  /\ call[Boot].at # "load"
  /\ op \in Uses
  /\ paused' = IF op = "pause" THEN paused \cup {m}
               ELSE IF op = "resume" THEN paused \ {m} ELSE paused
  /\ Goto(s, OnDevice(IF op \in {"pause", "block"} THEN "blocking"
                      ELSE IF op = "resume" THEN "readManual" ELSE "guardPause", op, m))
  /\ UNCHANGED <<scheduled, manual, managed, saved, writes, behind, reaffirmed, rules, up>>

\* Something keeps it blocked: resume() is done, setBlocked(false) blocks again.
Keep(s) == IF call[s].op = "resume" THEN Goto(s, Idle) ELSE Move(s, "blocking")

\* resume() reads isBlocked, and isBlockedNow() the pause and then the windows.
Guards(s) ==
  /\ \/ /\ call[s].at = "readManual"
        /\ IF call[s].mac \subseteq manual THEN Keep(s) ELSE Move(s, "guardPause")
     \/ /\ call[s].at = "guardPause"
        /\ IF call[s].mac \subseteq paused THEN Keep(s) ELSE Move(s, "guardSchedule")
     \/ /\ call[s].at = "guardSchedule"
        /\ IF call[s].mac \subseteq scheduled THEN Keep(s) ELSE Move(s, "unblocking")
  /\ UNCHANGED <<rows, managed, saved, writes, behind, reaffirmed, rules, up>>

\* The command was obeyed: pause and resume update managedBlocked and persist
\* it, setBlocked updates the device's row.
RequestDone(s) ==
  /\ call[s].at = "obeyed"
  /\ \/ /\ call[s].op \in {"pause", "resume"}
        /\ managed' = IF call[s].op = "pause" THEN managed \cup call[s].mac
                                              ELSE managed \ call[s].mac
        /\ Persist(s, managed')
        /\ Move(s, "persist")
        /\ UNCHANGED manual
     \/ /\ call[s].op \in {"block", "unblock"}
        /\ manual' = IF call[s].op = "block" THEN manual \cup call[s].mac
                                             ELSE manual \ call[s].mac
        /\ Goto(s, Idle)
        /\ UNCHANGED <<managed, writes, behind>>
  /\ UNCHANGED <<scheduled, paused, saved, reaffirmed, rules, up>>

-----------------------------------------------------------------------------
\* The sweep.

\* reconcile() adds what the previous process left blocked.
Load ==
  /\ call[Boot].at = "load"
  /\ managed' = managed \cup saved
  /\ Move(Boot, "schedules")
  /\ UNCHANGED <<rows, saved, writes, behind, reaffirmed, rules, up>>

\* The loop's first tick is a minute after the Boot sweep began.
BootIsOver == IF SlowBoot THEN call[Boot].at # "load" ELSE call[Boot] = Idle

\* tick() reads the schedules; the loop skips a tick while one is running.
SweepSchedules(w) ==
  /\ call[w].at = "schedules" \/ (w = Loop /\ call[w] = Idle /\ BootIsOver)
  /\ Goto(w, [NoCall("pauses", "sweep") EXCEPT !.active = scheduled])
  /\ UNCHANGED <<rows, managed, saved, writes, behind, reaffirmed, rules, up>>

\* The next device whose record differs from what it should be, with
\* managedBlocked as it is now; at the end the set is persisted if it changed.
\* (The order of a JavaScript Set is left open.)
Proceed(w, c, now) ==
  LET differs == {m \in c.todo : (m \in c.active) # (m \in now)}
  IN  \/ \E m \in differs :
           /\ Goto(w, [c EXCEPT !.at = "device", !.mac = {m}, !.todo = @ \ {m}])
           /\ UNCHANGED <<writes, behind>>
      \/ /\ differs = {} /\ c.changed
         /\ Goto(w, NoCall("persist", "sweep"))
         /\ Persist(w, now)
      \/ /\ differs = {} /\ ~c.changed
         /\ Goto(w, NoCall("manuals", "sweep"))
         /\ UNCHANGED <<writes, behind>>

SweepPauses(w) ==
  /\ call[w].at = "pauses"
  /\ LET active == call[w].active \cup paused
     IN  Proceed(w, [call[w] EXCEPT !.active = active, !.todo = active \cup managed], managed)
  /\ UNCHANGED <<rows, managed, saved, reaffirmed, rules, up>>

\* The record follows what the sweep wanted for its device.
Recorded(c) == IF c.mac \subseteq c.active THEN managed \cup c.mac ELSE managed \ c.mac
Record(w) ==
  /\ managed' = Recorded(call[w])
  /\ Proceed(w, [call[w] EXCEPT !.changed = TRUE], managed')

\* A device blocked by hand is recorded and the router is not told.
SweepDevice(w) ==
  /\ call[w].at = "device"
  /\ IF call[w].mac \subseteq manual
       THEN Record(w)
       ELSE /\ Move(w, IF call[w].mac \subseteq call[w].active THEN "blocking"
                                                               ELSE "unblocking")
            /\ UNCHANGED <<managed, writes, behind>>
  /\ UNCHANGED <<rows, saved, reaffirmed, rules, up>>

SweepDone(w) ==
  /\ call[w].at = "obeyed" /\ call[w].op = "sweep"
  /\ Record(w)
  /\ UNCHANGED <<rows, saved, reaffirmed, rules, up>>

-----------------------------------------------------------------------------
\* planDeReafirmacion() and the reaffirmations.

Desired == managed \cup manual

MarksWithout(macs) == SelectSeq(marks, LAMBDA m : m \notin macs)

\* The devices that are due, ordered by when they were asserted: those without
\* a mark first, in the order of the set (left open).
LastAsserted ==
  [m \in Macs |-> IF m \in ToSet(marks) THEN CHOOSE i \in DOMAIN marks : marks[i] = m ELSE 0]
OrdersBy(when) ==
  {order \in SetToSeqs(Desired \ fresh) :
     \A i, j \in DOMAIN order : i < j => when[order[i]] <= when[order[j]]}
NewestFirst == OrdersBy([m \in Macs |-> -LastAsserted[m]])
DueOrders == OrdersBy(LastAsserted)

SendReaffirmations(w, plan) ==
  IF plan = <<>> THEN Goto(w, Idle)
  ELSE Goto(w, [OnDevice("blocking", "reaffirm", Head(plan)) EXCEPT !.plan = Tail(plan)])

\* The blocks by hand are read, the plan is made and marks of devices that
\* should not be blocked are forgotten.
SweepManuals(w) ==
  /\ call[w].at = "manuals"
  /\ \E order \in DueOrders :
       SendReaffirmations(w, SubSeq(order, 1, IF Len(order) < Cap THEN Len(order) ELSE Cap))
  /\ marks' = MarksWithout(Macs \ Desired)
  /\ fresh' = fresh \cap Desired
  /\ UNCHANGED <<rows, managed, saved, writes, behind, rules, up>>

\* Only a command that succeeded renews the mark.
Reaffirmed(w) ==
  /\ call[w].at = "obeyed" /\ call[w].op = "reaffirm"
  /\ marks' = MarksWithout(call[w].mac) \o SetToSeq(call[w].mac)
  /\ fresh' = fresh \cup call[w].mac
  /\ SendReaffirmations(w, call[w].plan)
  /\ UNCHANGED <<rows, managed, saved, writes, behind, rules, up>>

-----------------------------------------------------------------------------
\* The router.

Effect(s) == IF call[s].at = "blocking" THEN rules \cup call[s].mac ELSE rules \ call[s].mac

Sending == {"blocking", "unblocking"}

Obeys(s, m, kind) ==
  /\ call[s].at = kind /\ call[s].mac = {m}
  /\ rules' = Effect(s)
  /\ Move(s, "obeyed")
  /\ UNCHANGED <<rows, managed, saved, writes, behind, reaffirmed, up>>

\* A command that failed leaves the record as it was, to be tried again.
RecordOptimistic(s) == Recorded(call[s])
RecordOnFailure(s) == managed

\* The command is refused, or times out having been obeyed.
Fails(s) ==
  /\ call[s].at \in Sending
  /\ \/ "refused" \in Failures /\ rules' = rules
     \/ "timeout" \in Failures /\ rules' = Effect(s)
  /\ IF call[s].op = "sweep"
       THEN managed' = RecordOnFailure(s) /\ Proceed(s, call[s], managed')
       ELSE /\ IF call[s].op = "reaffirm" THEN SendReaffirmations(s, call[s].plan)
                                          ELSE Goto(s, Idle)
            /\ UNCHANGED <<managed, writes, behind>>
  /\ UNCHANGED <<rows, saved, reaffirmed, up>>

Answer(s) == (\E m \in Macs, kind \in Sending : Obeys(s, m, kind)) \/ Fails(s)

RouterReboot ==
  /\ Reboots
  /\ rules # {}
  /\ rules' = {}
  /\ UNCHANGED <<rows, managed, saved, writes, behind, reaffirmed, call, up>>

-----------------------------------------------------------------------------
\* The database and time.

\* The oldest upsert is answered: its call goes on, well or not.
Answered ==
  /\ up
  /\ writes # <<>>
  /\ writes' = Tail(writes)
  /\ LET s == Head(writes).slot
     IN  Goto(s, IF s \in Sweeps THEN NoCall("manuals", "sweep") ELSE Idle)
  /\ UNCHANGED <<rows, managed, reaffirmed, rules, up>>

WriteLands == Answered /\ saved' = Head(writes).value /\ UNCHANGED behind

\* persistManaged() swallows the error.  The row is behind, unless an upsert of
\* the whole set waits after this one.
WriteFails ==
  /\ DbFails
  /\ Answered
  /\ behind' = (behind \/ Len(writes) = 1)
  /\ UNCHANGED saved

\* Another statement throws: the request answers with its error, whatever the
\* router did for it, and the sweep (reconcile() too, with the row unread) is
\* skipped from there on.
Throwing(c) ==
  \/ c.at \in {"readManual", "guardPause", "guardSchedule",
                "load", "schedules", "pauses", "device", "manuals"}
  \/ c.at = "obeyed" /\ c.op \in {"block", "unblock"}
StatementFails(s) ==
  /\ DbFails
  /\ Throwing(call[s])
  /\ Goto(s, Idle)
  /\ behind' = (behind \/ call[s].at = "load" \/ call[s].changed)
  /\ UNCHANGED <<rows, managed, saved, writes, reaffirmed, rules, up>>

WindowMoves(m) ==
  /\ m \in Windows
  /\ scheduled' = IF m \in scheduled THEN scheduled \ {m} ELSE scheduled \cup {m}
  /\ UNCHANGED <<paused, manual, managed, saved, writes, behind, reaffirmed, rules, call, up>>

\* A pause lasts at least a minute, longer than the command that starts it.
PauseEnds(m) ==
  /\ m \in paused
  /\ \A s \in Requests : ~(call[s].op = "pause" /\ call[s].mac = {m})
  /\ paused' = paused \ {m}
  /\ UNCHANGED <<scheduled, manual, managed, saved, writes, behind, reaffirmed, rules, call, up>>

\* The oldest fresh mark reaches the interval.
MarkAges ==
  /\ fresh # {}
  /\ fresh' = fresh \ {Head(MarksWithout(Macs \ fresh))}
  /\ UNCHANGED <<rows, managed, saved, writes, behind, marks, rules, call, up>>

-----------------------------------------------------------------------------
\* No call stands between its command and what it records of it.
BetweenCommands == \A s \in Slots : call[s].at \notin Sending \cup {"obeyed", "persist"} /\ ~call[s].changed

\* The process dies; commands on their way to the router may still be obeyed.
AgentCrash ==
  /\ AgentCrashes = "anytime" \/ (AgentCrashes = "betweenCommands" /\ BetweenCommands)
  /\ up
  /\ up' = FALSE
  /\ \E sent \in SUBSET {s \in Slots : call[s].at \in Sending} :
       rules' = (rules \cup UNION {call[s].mac : s \in {t \in sent : call[t].at = "blocking"}})
                \ UNION {call[s].mac : s \in {t \in sent : call[t].at = "unblocking"}}
  /\ managed' = {} /\ marks' = <<>> /\ fresh' = {} /\ writes' = <<>> /\ behind' = FALSE
  /\ call' = [s \in Slots |-> Idle]
  /\ UNCHANGED <<rows, saved>>

\* start(): the first sweep begins with reconcile().
Restart ==
  /\ ~up
  /\ up' = TRUE
  /\ Goto(Boot, NoCall("load", "sweep"))
  /\ UNCHANGED <<rows, managed, saved, writes, behind, reaffirmed, rules>>

-----------------------------------------------------------------------------
RequestStep(s) == Guards(s) \/ (s \in Requests /\ RequestDone(s))
SweepStep(w) == \/ SweepSchedules(w) \/ SweepPauses(w) \/ SweepDevice(w)
                \/ SweepDone(w) \/ SweepManuals(w) \/ Reaffirmed(w)

AccessNext ==
  \/ up /\ \E s \in Requests : \E m \in Macs, op \in Uses : Request(s, m, op)
  \/ up /\ \E s \in Requests : RequestStep(s)
  \/ up /\ Load
  \/ up /\ \E w \in Sweeps : SweepStep(w)
  \/ up /\ \E s \in Slots : Answer(s)
  \/ up /\ \E s \in Slots : StatementFails(s)
  \/ RouterReboot \/ WriteLands \/ WriteFails \/ MarkAges
  \/ \E m \in Macs : WindowMoves(m) \/ PauseEnds(m)
  \/ AgentCrash \/ Restart

AccessSpec == AccessInit /\ [][AccessNext]_accessVars

\* Calls go on, the sweep comes round every minute, marks age, the database
\* serves its queue, a command tried again and again is obeyed some time, and
\* the process does not die again and again for ever.
AccessFairness ==
  /\ \A s \in Requests : WF_accessVars(up /\ RequestStep(s))
  /\ WF_accessVars(up /\ Load)
  /\ \A w \in Sweeps : WF_accessVars(up /\ SweepStep(w))
  /\ \A s \in Slots : WF_accessVars(up /\ Answer(s))
  /\ \A m \in Macs, kind \in Sending :
       /\ SF_accessVars(up /\ \E w \in Sweeps : Obeys(w, m, kind))
       /\ SF_accessVars(up /\ \E s \in Requests : Obeys(s, m, kind))
  /\ WF_accessVars(WriteLands) /\ WF_accessVars(MarkAges) /\ WF_accessVars(Restart)
  /\ <>[][~AgentCrash]_accessVars

FairAccessSpec == AccessSpec /\ AccessFairness

-----------------------------------------------------------------------------
\* Properties.

Wanted(m) == m \in manual \cup scheduled \cup paused
Working(m) == \E s \in Slots : m \in call[s].mac \cup call[s].todo

\* With the queue drained and no sweep between a change and its persist, the
\* stored set is managedBlocked, and a restart forgets no block (US-197),
\* unless the last upsert was refused or a sweep was cut before its persist
\* since: any upsert that lands puts the row right again, whatever failed
\* before it.
ManagedDurable ==
  up /\ writes = <<>> /\ ~behind /\ call[Boot].at # "load" /\ (\A w \in Sweeps : ~call[w].changed)
    => saved = managed

\* Every rule has someone who will lift it: it is recorded as managed (before
\* the record is loaded: in its row), it is a block by hand, or a call is at
\* work on its device.  "sin eso, un reinicio dejaria el bloqueo aplicado en el
\* driver sin nadie que lo retire" (access.service.ts, US-197).
OnRecord == IF up /\ call[Boot].at # "load" THEN managed ELSE managed \cup saved
EveryRuleIsOwned == \A m \in rules : m \in OnRecord \cup manual \/ Working(m)

\* What the owner, a window or a pause wants blocked becomes blocked, however
\* often commands fail and the router forgets its rules (US-255).
BlockReachesRouter == \A m \in Macs : Wanted(m) ~> (m \in rules \/ ~Wanted(m))

\* When nobody wants a device blocked any longer, its rule is lifted.
UnblockReachesRouter == \A m \in Macs : ~Wanted(m) ~> (m \notin rules \/ Wanted(m))
=============================================================================
