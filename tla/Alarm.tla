------------------------------- MODULE Alarm -------------------------------
(***************************************************************************)
(* The home alarm: apps/agent/src/alarm/state-machine.ts (the pure phase   *)
(* machine) and modules/alarm/alarm.service.ts (its effects).              *)
(*                                                                         *)
(* The agent is one Node process.  A call of the service runs to its next  *)
(* `await' without being interrupted, so one action below is the code      *)
(* between two awaits, and everything else may happen between two actions  *)
(* of the same call.  A call occupies a slot of Requests; the sweep of the *)
(* TickLoop occupies the slot Sweep, one sweep at a time.                  *)
(*                                                                         *)
(* Abstracted: clocks (a countdown is due or not), PIN values (right or    *)
(* wrong), which sensor triggered, the lights (they follow the siren), and *)
(* the fail-safe of sensors, which AlarmFailSafe models.                   *)
(***************************************************************************)
EXTENDS Integers, Sequences, FiniteSets

CONSTANTS
  Requests,      \* slots for concurrent HTTP requests and bus events
  Sweep,         \* the slot of the one-second sweep
  Configs,       \* the values alarm.config may have
  ConfigChanges, \* may the owner change the configuration meanwhile?
  DbFails,       \* may a write of alarm.state fail (disk full, locked)?
  IotFails,      \* may a siren command fail or time out?
  Crashes        \* may the process die and be restarted?

ASSUME SlotsAssumption == Sweep \notin Requests
ASSUME ConfigsAssumption ==
  Configs \subseteq [exit : BOOLEAN, entry : BOOLEAN, siren : BOOLEAN,
                     pin : BOOLEAN, autoArm : BOOLEAN]
ASSUME SwitchesAssumption ==
  /\ ConfigChanges \in BOOLEAN
  /\ DbFails \in BOOLEAN
  /\ IotFails \in BOOLEAN
  /\ Crashes \in BOOLEAN

VARIABLES
  cfg,       \* the stored configuration; a delay is TRUE when it is > 0
  phase,     \* this.state.phase
  due,       \* has this.state.countdownEndsAt passed?
  saved,     \* the phase in the Setting row alarm.state, or "none"
  writes,    \* upserts of alarm.state queued at the database, oldest first
  call,      \* what each slot is waiting for
  siren,     \* is the siren sounding?
  late,      \* siren commands that timed out and may still be obeyed
  up,        \* is the process running?
  owed,      \* history: entries into "triggered" minus audits of them (an
             \* entry whose call died with a failed write or a crash is forgiven)
  overtaken  \* history: the last disarm that mattered met a firing in flight,
             \* or died before its command to the siren

vars == <<cfg, phase, due, saved, writes, call, siren, late, up, owed, overtaken>>

Slots == Requests \cup {Sweep}
Phases == {"disarmed", "arming", "armed", "entry", "triggered"}
Afterwards == {"idle", "fire", "siren"}

\* Where a call is suspended, and the one value it carries over the await.
Waiting == {"armApply", "autoCheck", "autoApply", "verify", "disarmApply",
            "triggerApply", "persist", "fire", "siren", "sending"}
CallState == [at : Waiting \cup {"idle"}, arg : BOOLEAN, next : Afterwards]
Idle == [at |-> "idle", arg |-> FALSE, next |-> "idle"]
At(where, value) == [at |-> where, arg |-> value, next |-> "idle"]
Persisting(after, value) == [at |-> "persist", arg |-> value, next |-> after]

\* isActive(): may the alarm go off?
IsActive(p) == p \in {"armed", "entry", "triggered"}
\* armAlarm refuses to leave the entry countdown and the sounding alarm.
MayArmInEntry == phase # "triggered"
MayArm == phase \notin {"entry", "triggered"}

\* reconcile(): a missing row leaves the constructor's disarmed state.
Rehydrated(s) == IF s = "none" THEN "disarmed" ELSE s

TypeOK ==
  /\ cfg \in Configs
  /\ phase \in Phases
  /\ due \in BOOLEAN
  /\ saved \in Phases \cup {"none"}
  /\ writes \in Seq([slot : Slots, phase : Phases])
  /\ call \in [Slots -> CallState]
  /\ siren \in BOOLEAN
  /\ late \in SUBSET BOOLEAN
  /\ up \in BOOLEAN
  /\ owed \in Int
  /\ overtaken \in BOOLEAN

Init ==
  /\ cfg \in Configs
  /\ phase = "disarmed"
  /\ due = FALSE
  /\ saved = "none"
  /\ writes = <<>>
  /\ call = [s \in Slots |-> Idle]
  /\ siren = FALSE
  /\ late = {}
  /\ up = TRUE
  /\ owed = 0
  /\ overtaken = FALSE

-----------------------------------------------------------------------------
\* Steps shared by the handlers.

Goto(s, c) == call' = [call EXCEPT ![s] = c]

\* `this.state = ...; await this.persist()': the new phase is in memory at
\* once and its upsert is queued; the call goes on when the row is written.
AssignAfterPersist(s, p, after, value) ==
  /\ phase' = p
  /\ due' = FALSE
  /\ writes' = Append(writes, [slot |-> s, phase |-> phase])
  /\ Goto(s, Persisting(after, value))
Assign(s, p, after, value) ==
  /\ phase' = p
  /\ due' = FALSE
  /\ writes' = Append(writes, [slot |-> s, phase |-> p])
  /\ Goto(s, Persisting(after, value))
\* Something on its way will still turn the siren on; or off.
Firing ==
  \/ TRUE \in late
  \/ \E s \in Slots : \/ call[s].next = "fire"
                      \/ call[s].at \in {"fire", "siren", "sending"} /\ call[s].arg
Silencing ==
  \E s \in Slots : \/ call[s].next = "siren"
                   \/ call[s].at \in {"siren", "sending"} /\ ~call[s].arg

\* A handler step changes nothing outside the process.
Outside == <<cfg, saved, siren, late, up>>

-----------------------------------------------------------------------------
\* armAlarm and the automatic arming when the home mode becomes `away'.

\* POST /arm: the handler awaits getConfig and keeps the exit delay it read.
ArmRead(s) ==
  /\ call[s].at = "idle"
  /\ Goto(s, At("armApply", cfg.exit))
  /\ UNCHANGED <<phase, due, writes, owed, overtaken, Outside>>

\* mode-changed to away: the handler reads the configuration first.
AwayRead(s) ==
  /\ call[s].at = "idle"
  /\ cfg.autoArm
  /\ Goto(s, At("autoCheck", FALSE))
  /\ UNCHANGED <<phase, due, writes, owed, overtaken, Outside>>

\* ... looks at the phase, and calls armAlarm, which reads it again.
AwayCheck(s) ==
  /\ call[s].at = "autoCheck"
  /\ Goto(s, IF phase = "disarmed" THEN At("autoApply", cfg.exit) ELSE Idle)
  /\ UNCHANGED <<phase, due, writes, owed, overtaken, Outside>>

\* The check after the await: AlarmBusyError, or the countdown starts.
ArmApply(s) ==
  /\ call[s].at \in {"armApply", "autoApply"}
  /\ IF ~MayArm
       THEN /\ Goto(s, Idle)
            /\ UNCHANGED <<phase, due, writes>>
       ELSE Assign(s, IF call[s].arg THEN "arming" ELSE "armed", "idle", FALSE)
  /\ UNCHANGED <<owed, overtaken, Outside>>

-----------------------------------------------------------------------------
\* disarmAlarm.

\* POST /disarm with the right or a wrong PIN: the handler awaits hasPin.
DisarmRead(s, right) ==
  /\ call[s].at = "idle"
  /\ Goto(s, At(IF cfg.pin THEN "verify" ELSE "disarmApply", right))
  /\ UNCHANGED <<phase, due, writes, owed, overtaken, Outside>>

PinPresent(right) == cfg.pin
PinAccepted(right) == right /\ cfg.pin

\* The row is read again and bcrypt compares: AlarmPinError, or go on.
DisarmVerify(s) ==
  /\ call[s].at = "verify"
  /\ Goto(s, IF PinAccepted(call[s].arg) THEN At("disarmApply", call[s].arg) ELSE Idle)
  /\ UNCHANGED <<phase, due, writes, owed, overtaken, Outside>>

\* What a disarm does after the row is written: if the alarm was active it
\* turns the siren off.
AfterDisarmReadLate == IF IsActive("disarmed") THEN "siren" ELSE "idle"
AfterDisarm == IF IsActive(phase) THEN "siren" ELSE "idle"

DisarmApply(s) ==
  /\ call[s].at = "disarmApply"
  /\ Assign(s, "disarmed", AfterDisarm, FALSE)
  /\ overtaken' = (Firing \/ (overtaken /\ ~IsActive(phase)))
  /\ UNCHANGED <<owed, Outside>>

-----------------------------------------------------------------------------
\* onTrigger: a watched camera or sensor.  A vital sensor (smoke, CO) skips
\* the entry delay.

TriggerRead(s, vital) ==
  /\ call[s].at = "idle"
  /\ Goto(s, At("triggerApply", cfg.entry /\ ~vital))
  /\ UNCHANGED <<phase, due, writes, owed, overtaken, Outside>>

CanTriggerAgain == IsActive(phase)
CanTrigger == phase = "armed"

TriggerApply(s) ==
  /\ call[s].at = "triggerApply"
  /\ IF ~CanTrigger
       THEN /\ Goto(s, Idle)
            /\ UNCHANGED <<phase, due, writes, owed>>
       ELSE IF call[s].arg
         THEN /\ Assign(s, "entry", "idle", FALSE)
              /\ UNCHANGED owed
         ELSE /\ Assign(s, "triggered", "fire", FALSE)  \* only an entry counts
              /\ owed' = IF phase = "triggered" THEN owed ELSE owed + 1
  /\ UNCHANGED <<overtaken, Outside>>

-----------------------------------------------------------------------------
\* The sweep: advance() moves a countdown that is due.

CountsDownToArm == phase = "arming"
CountsDown == phase \in {"arming", "entry"}

ClockElapses ==
  /\ up
  /\ CountsDown
  /\ ~due
  /\ due' = TRUE
  /\ UNCHANGED <<phase, writes, call, owed, overtaken, Outside>>

\* What is done with the row written: fireActions if the alarm just went off.
AfterEntrySilently == "idle"
AfterEntry == "fire"

Tick ==
  /\ call[Sweep].at = "idle"
  /\ due
  /\ \/ /\ phase = "arming"
        /\ Assign(Sweep, "armed", "idle", FALSE)
        /\ UNCHANGED owed
     \/ /\ phase = "entry"
        /\ Assign(Sweep, "triggered", AfterEntry, FALSE)
        /\ owed' = owed + 1
  /\ UNCHANGED <<overtaken, Outside>>

-----------------------------------------------------------------------------
\* The database: queued upserts are executed in the order they were issued.

\* Where a call goes when its row is written.
Resume(s) ==
  IF call[s].next = "idle" THEN Idle
                           ELSE At(call[s].next, call[s].next = "fire" \/ call[s].arg)

WriteLands ==
  /\ up
  /\ writes # <<>>
  /\ saved' = Head(writes).phase
  /\ writes' = Tail(writes)
  /\ Goto(Head(writes).slot, Resume(Head(writes).slot))
  /\ UNCHANGED <<cfg, phase, due, siren, late, up, owed, overtaken>>

\* A rejected upsert throws out of the call: what came after it is not done.
WriteFails ==
  /\ DbFails
  /\ up
  /\ writes # <<>>
  /\ writes' = Tail(writes)
  /\ owed' = IF call[Head(writes).slot].next = "fire" THEN owed - 1 ELSE owed
  /\ Goto(Head(writes).slot, Idle)
  /\ UNCHANGED <<phase, due, overtaken, Outside>>

-----------------------------------------------------------------------------
\* fireActions and setSiren.

\* The alarm is audited after getConfig; then the siren is turned on.
Fire(s) ==
  /\ call[s].at = "fire"
  /\ owed' = owed - 1
  /\ Goto(s, At("siren", TRUE))
  /\ UNCHANGED <<phase, due, writes, overtaken, Outside>>

\* setSiren awaits getConfig; with no siren configured it does nothing.
SirenCommand(s) ==
  /\ call[s].at = "siren"
  /\ Goto(s, IF cfg.siren THEN At("sending", call[s].arg) ELSE Idle)
  /\ UNCHANGED <<phase, due, writes, owed, overtaken, Outside>>

SirenObeys(s) ==
  /\ call[s].at = "sending"
  /\ siren' = call[s].arg
  /\ Goto(s, Idle)
  /\ UNCHANGED <<cfg, phase, due, saved, writes, late, up, owed, overtaken>>

\* The command is refused, or withActionTimeout gives up waiting for it; the
\* call goes on either way and a late command may still be obeyed.
SirenFails(s) ==
  /\ IotFails
  /\ call[s].at = "sending"
  /\ late' \in {late, late \cup {call[s].arg}}
  /\ Goto(s, Idle)
  /\ UNCHANGED <<cfg, phase, due, saved, writes, siren, up, owed, overtaken>>

LateSiren ==
  \E on \in late :
    /\ late' = late \ {on}
    /\ siren' \in {siren, on}
    /\ UNCHANGED <<cfg, phase, due, saved, writes, call, up, owed, overtaken>>

-----------------------------------------------------------------------------
\* The environment.

SetConfig ==
  /\ ConfigChanges
  /\ up
  /\ cfg' \in Configs \ {cfg}
  /\ UNCHANGED <<phase, due, saved, writes, call, siren, late, up, owed, overtaken>>

\* The process dies: its calls and queued writes are gone, a siren command
\* already sent may still be obeyed.
Crash ==
  /\ Crashes
  /\ up
  /\ up' = FALSE
  /\ call' = [s \in Slots |-> Idle]
  /\ writes' = <<>>
  /\ late' = late \cup {call[s].arg : s \in {t \in Slots : call[t].at = "sending"}}
  /\ owed' = 0
  /\ overtaken' = (overtaken \/ Silencing)
  /\ UNCHANGED <<cfg, phase, due, saved, siren>>

\* reconcile(): the phase is rehydrated, its actions are not fired again.
Restart ==
  /\ ~up
  /\ up' = TRUE
  /\ phase' = Rehydrated(saved)
  /\ due' \in (IF phase' \in {"arming", "entry"} THEN BOOLEAN ELSE {FALSE})
  /\ UNCHANGED <<cfg, saved, writes, call, siren, late, owed, overtaken>>

-----------------------------------------------------------------------------
\* The rest of a call already started, and the calls that may start.
Continue(s) ==
  \/ ArmApply(s) \/ AwayCheck(s)
  \/ DisarmVerify(s) \/ DisarmApply(s) \/ TriggerApply(s)
  \/ Fire(s) \/ SirenCommand(s) \/ SirenObeys(s) \/ SirenFails(s)

Begin(s) ==
  \/ ArmRead(s) \/ AwayRead(s)
  \/ \E right \in BOOLEAN : DisarmRead(s, right)
  \/ \E vital \in BOOLEAN : TriggerRead(s, vital)

Next ==
  \/ up /\ \E s \in Requests : Begin(s)
  \/ up /\ \E s \in Slots : Continue(s)
  \/ up /\ Tick
  \/ ClockElapses \/ WriteLands \/ WriteFails \/ LateSiren
  \/ SetConfig \/ Crash \/ Restart

Spec == Init /\ [][Next]_vars

\* A call that has started is continued, the database serves its queue, time
\* passes, the sweep of the TickLoop comes round and the process does not die
\* again and again for ever; users need not act.
Fairness ==
  /\ \A s \in Slots : WF_vars(up /\ Continue(s))
  /\ WF_vars(WriteLands \/ WriteFails)
  /\ WF_vars(ClockElapses)
  /\ WF_vars(up /\ Tick)
  /\ WF_vars(Restart)
  /\ <>[][~Crash]_vars

FairSpec == Spec /\ Fairness

-----------------------------------------------------------------------------
\* Properties.

\* No call is in flight and no command may still arrive.
Quiet == up /\ (\A s \in Slots : call[s] = Idle) /\ late = {}

\* The stored phase is the last one queued: a restart at any moment resumes
\* the phase of the last write, and once every write has landed it resumes
\* the phase the alarm is in (persist() after every assignment).
DurablePhase == up /\ writes = <<>> => phase = Rehydrated(saved)

\* Every entry into `triggered' is audited once: never twice (two sensors and
\* the sweep may race for it) and, when no call is left, never zero times
\* (justTriggered, state-machine.ts).
AnnouncedOnce == owed >= 0 /\ (Quiet => owed = 0)

\* While the process lives, the alarm leaves `entry' or `triggered' only when
\* the countdown runs out or by a disarm whose PIN was right: arming again,
\* by hand or by the away mode, never cancels it (AlarmBusyError).
StandDownStep ==
  (up /\ up' /\ phase \in {"entry", "triggered"} /\ phase' # phase) =>
     \/ phase = "entry" /\ phase' = "triggered"
     \/ /\ phase' = "disarmed"
        /\ \E s \in Requests : call[s].at = "disarmApply" /\ (cfg.pin => call[s].arg)
StandsDownOnlyByPin == [][StandDownStep]_vars

\* With a siren that obeys, a disarm leaves it silent, unless it came while a
\* firing was still on its way to the siren or the process died before its own
\* command.
DisarmSilences == Quiet /\ phase = "disarmed" /\ ~overtaken => ~siren

\* An alarm that has just gone off sounds the siren, or is disarmed first (or
\* the process dies: a restart does not fire the actions again).
\* (The "off" of an earlier disarm may still silence it afterwards.)
TriggeredSounds ==
  (phase = "triggered" /\ owed > 0) ~> (siren \/ phase # "triggered" \/ ~up)

\* The entry countdown ends: the alarm goes off or somebody disarms it.
EntryResolves == (phase = "entry") ~> (phase # "entry")
=============================================================================
