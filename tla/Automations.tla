----------------------------- MODULE Automations -----------------------------
(***************************************************************************)
(* Rules that fire on an event of the house or at an instant of the day:   *)
(* modules/automations/automations.service.ts with automations/engine.ts,  *)
(* event-bus.ts and iot-watcher.ts, the poll that sees devices change.     *)
(*                                                                         *)
(* Each event published starts a handler of its own, the schedule has one  *)
(* sweep at a time, and both wait between reading the rules and each       *)
(* command they send.  One action is the code between two awaits.          *)
(***************************************************************************)
EXTENDS Naturals, Sequences, SequencesExt, FiniteSets

CONSTANTS
  Things,      \* IoT devices that are on or off
  Order,       \* the rules by createdAt, without repeats
  Routine,     \* of each rule: trigger, condition, actions and cooldown
  Slots,       \* how many handlers may be in flight (a bound)
  DayLength,   \* minutes in a day
  Week,        \* days in a week
  LastMinute,  \* where the clock stops (a bound)
  Unset,
  Null         \* the value of a device that is listed and does not answer

Rules == ToSet(Order)

(* Routine[r].on      the event <<thing, on>> that triggers it, or Unset     *)
(* Routine[r].at      of each weekday the minute it is programmed for or    *)
(*                    Unset: a fixed hour on some days, or where the sun is  *)
(* Routine[r].hours   the minutes of the day its condition allows           *)
(* Routine[r].sets    its iot-set actions <<thing, on>>, in order           *)
(* Routine[r].cooldown                                                      *)
(* A rule has one trigger: an event or instants, not both.                  *)
Effects == Things \X BOOLEAN
ASSUME RoutinesAssumption ==
  /\ Order \in Seq(Rules) /\ IsInjective(Order)
  /\ \A r \in Rules :
       /\ Routine[r].on \in Effects \cup {Unset}
       /\ Routine[r].at \in [0 .. Week - 1 -> 0 .. DayLength - 1 \cup {Unset}]
       /\ Routine[r].on # Unset => \A w \in 0 .. Week - 1 : Routine[r].at[w] = Unset
       /\ Routine[r].sets \in Seq(Effects)
       /\ Routine[r].cooldown \in Nat \ {0}
ASSUME ClockAssumption == {DayLength, Week} \subseteq Nat \ {0} /\ LastMinute \in Nat
ASSUME SlotsAssumption == "sweep" \notin Slots
ASSUME UnsetAssumption ==
  /\ Unset \notin Nat /\ Unset \notin Effects
  /\ Unset \notin [Things -> BOOLEAN \cup {Unset, Null}]
ASSUME NullAssumption == {Unset, Null} \cap BOOLEAN = {} /\ Unset # Null

VARIABLES
  enabled,    \* the rules switched on, in the database
  clock,      \* minutes since some midnight
  prevTick, lastFired,
  jobs,       \* the handlers and the sweep
  world,      \* what each device really is
  baseline,   \* of the watcher, Unset before its first poll
  poll,       \* Unset, or the list on its way, without what failed
  announced,  \* history: the last value of each device told on the bus
  blind,      \* history: devices whose known value a null has replaced since
              \* they were last told of
  firedAt,    \* history: the last firing of each rule
  tooSoon,    \* history: rules that fired before their cooldown was over
  owed, allowed, \* history: instants passed that must, and that may, still fire
  spurious    \* history: rules the sweep fired at no instant of theirs

history == <<firedAt, tooSoon, owed, allowed, spurious>>
engine == <<prevTick, lastFired, jobs>>
watcher == <<baseline, poll, announced, blind>>
autoVars == <<enabled, clock, engine, world, watcher, history>>

Workers == Slots \cup {"sweep"}
Idle == [at |-> "idle", now |-> 0, event |-> Unset, due |-> <<>>, step |-> 0]
Unknown == [d \in Things |-> Unset]

AutoInit ==
  /\ enabled = Rules /\ clock = 0
  /\ prevTick = Unset /\ lastFired = [r \in Rules |-> Unset]
  /\ jobs = [w \in Workers |-> Idle]
  /\ world = [d \in Things |-> FALSE]
  /\ baseline = Unset /\ poll = Unset /\ announced = Unknown /\ blind = {}
  /\ firedAt = [r \in Rules |-> Unset] /\ tooSoon = {}
  /\ owed = {} /\ allowed = {} /\ spurious = {}

-----------------------------------------------------------------------------
\* What is due: engine.ts.

Weekday(minute) == (minute \div DayLength) % Week
InstantOn(r, minute) == (minute \div DayLength) * DayLength + Routine[r].at[Weekday(minute)]
Programmed(r, minute) == Routine[r].at[Weekday(minute)] # Unset

Passes(r, now) == now % DayLength \in Routine[r].hours
CooledDown(r, now) ==
  lastFired[r] # Unset => now >= lastFired[r] + Routine[r].cooldown

\* The date of the instant is that of the last sweep or that of this one.
Dates(prev, now) == {prev, now}
Crossed(r, prev, now) ==
  \E base \in Dates(prev, now) :
    Programmed(r, base) /\ prev < InstantOn(r, base) /\ InstantOn(r, base) <= now

DueForEvent(e, now) ==
  {r \in enabled : /\ e.origin # r
                   /\ Routine[r].on = <<e.thing, e.on>>
                   /\ Passes(r, now) /\ CooledDown(r, now)}

DueScheduled(listed, prev, now) ==
  {r \in listed : Crossed(r, prev, now) /\ Passes(r, now) /\ CooledDown(r, now)}

\* Rules come from the database by createdAt, and a filter keeps their order.
Listed(chosen) ==
  {list \in SetToSeqs(chosen) :
     \A i, j \in DOMAIN Order : \A k, l \in DOMAIN list :
       i < j /\ Order[i] = list[k] /\ Order[j] = list[l] => k < l}

-----------------------------------------------------------------------------
\* publish: every event starts onEvent, which asks for the rules.

Free(j) == {s \in Slots : j[s].at = "idle"}
HasRoomFor(events, j) == Cardinality(events) <= Cardinality(Free(j))
Started(events, j) ==
  LET slotOf == CHOOSE f \in Injection(events, Free(j)) : TRUE IN
  [w \in Workers |->
     IF w \in Free(j) /\ \E e \in events : slotOf[e] = w
       THEN [Idle EXCEPT !.at = "rules", !.now = clock,
                         !.event = CHOOSE e \in events : slotOf[e] = w]
       ELSE j[w]]

Told(events) ==
  [d \in Things |-> IF \E e \in events : e.thing = d
                      THEN (CHOOSE e \in events : e.thing = d).on
                      ELSE IF announced[d] \in BOOLEAN \/ baseline' = Unset THEN announced[d] ELSE baseline'[d]]

Overwritten ==
  IF baseline = Unset THEN {}
  ELSE {d \in Things : baseline[d] \in BOOLEAN /\ baseline'[d] = Null}

Tells(events) ==
  /\ announced' = Told(events)
  /\ blind' = {d \in blind \cup Overwritten : \A e \in events : e.thing # d}

\* transitions(): nothing is said of a device not known before, nor from or to
\* a null.
Changed(before, d, value, origin) ==
  IF before[d] \in {Unset, Null, value} \/ value = Null THEN {}
  ELSE {[thing |-> d, on |-> value, origin |-> origin]}

-----------------------------------------------------------------------------
\* fire: its mark comes before its actions.

UnmarkedOnStart(r, now) == lastFired
Marked(r, now) == [lastFired EXCEPT ![r] = now]

Past(pairs, r, now) == {p \in pairs : p[1] = r /\ p[2] <= now}

Fires(r, now) ==
  /\ lastFired' = Marked(r, now)
  /\ firedAt' = [firedAt EXCEPT ![r] = now]
  /\ tooSoon' = IF firedAt[r] # Unset /\ now < firedAt[r] + Routine[r].cooldown
                  THEN tooSoon \cup {r} ELSE tooSoon

\* The next action of the rule a worker fires, or the record of the firing.
Acting(job, step) ==
  [job EXCEPT !.at = IF step <= Len(Routine[Head(job.due)].sets) THEN "command" ELSE "record",
              !.step = step]

\* Fire the first of the rules due.
StartFiring(w, job, due) ==
  IF due = <<>>
    THEN /\ jobs' = [jobs EXCEPT ![w] = Idle]
         /\ UNCHANGED <<lastFired, firedAt, tooSoon>>
    ELSE /\ Fires(Head(due), job.now)
         /\ jobs' = [jobs EXCEPT ![w] = Acting([job EXCEPT !.due = due], 1)]

Command(w) == Routine[Head(jobs[w].due)].sets[jobs[w].step]

\* The device obeys ...
Obeyed(w) ==
  /\ jobs[w].at = "command"
  /\ world' = [world EXCEPT ![Command(w)[1]] = Command(w)[2]]
  /\ jobs' = [jobs EXCEPT ![w].at = "answer"]
  /\ UNCHANGED <<enabled, clock, prevTick, lastFired, watcher, history>>

\* ... and answers: applyKnownState, and its transition with this origin.
Answered(w) ==
  /\ jobs[w].at = "answer"
  /\ LET d == Command(w)[1]
         known == baseline # Unset
         events == IF known THEN Changed(baseline, d, Command(w)[2], Head(jobs[w].due)) ELSE {}
         acted == [jobs EXCEPT ![w] = Acting(@, @.step + 1)]
     IN /\ HasRoomFor(events, jobs)
        /\ baseline' = IF known THEN [baseline EXCEPT ![d] = Command(w)[2]] ELSE Unset
        /\ Tells(events)
        /\ jobs' = Started(events, acted)
  /\ UNCHANGED <<enabled, clock, prevTick, lastFired, world, poll, history>>

\* Refused, out of time before or after it was obeyed: the next action.
CommandFails(w) ==
  /\ jobs[w].at \in {"command", "answer"}
  /\ jobs' = [jobs EXCEPT ![w] = Acting(@, @.step + 1)]
  /\ UNCHANGED <<enabled, clock, prevTick, lastFired, world, watcher, history>>

\* The run is recorded, or it is not, and the next rule fires.
Recorded(w) ==
  /\ jobs[w].at = "record"
  /\ StartFiring(w, jobs[w], Tail(jobs[w].due))
  /\ UNCHANGED <<enabled, clock, prevTick, world, watcher, owed, allowed, spurious>>

-----------------------------------------------------------------------------
\* onEvent.

RulesRead(s) ==
  /\ s \in Slots /\ jobs[s].at = "rules"
  /\ \E due \in Listed(DueForEvent(jobs[s].event, jobs[s].now)) : StartFiring(s, jobs[s], due)
  /\ UNCHANGED <<enabled, clock, prevTick, world, watcher, owed, allowed, spurious>>

-----------------------------------------------------------------------------
\* tick: the sweep of the schedule.  Its minute is that of its start.

SweepStarts ==
  /\ jobs["sweep"].at = "idle"
  /\ jobs' = [jobs EXCEPT !["sweep"] = [Idle EXCEPT !.at = "rules", !.now = clock]]
  /\ UNCHANGED <<enabled, clock, prevTick, lastFired, world, watcher, history>>

SweepReadsRules ==
  /\ jobs["sweep"].at = "rules"
  /\ \E rules \in Listed(enabled) :
       jobs' = [jobs EXCEPT !["sweep"].at = "home", !["sweep"].due = rules]
  /\ UNCHANGED <<enabled, clock, prevTick, lastFired, world, watcher, history>>

\* With the place of the house read too, the window moves.  A rule whose
\* condition or cooldown keeps it from firing now is not owed.
SweepReadsHome ==
  /\ jobs["sweep"].at = "home"
  /\ LET now == jobs["sweep"].now
         listed == ToSet(jobs["sweep"].due)
         due == IF prevTick = Unset THEN {} ELSE DueScheduled(listed, prevTick, now)
         settled(p) == p[2] <= now /\
           (prevTick = Unset \/ p[1] \in due \/ ~Passes(p[1], now) \/ ~CooledDown(p[1], now))
     IN /\ prevTick' = now
        /\ \E rules \in Listed(due) : StartFiring("sweep", jobs["sweep"], rules)
        /\ spurious' = spurious \cup {r \in due : Past(allowed, r, now) = {}}
        /\ owed' = {p \in owed : ~settled(p)}
        /\ allowed' = {p \in allowed : p[2] > now}
  /\ UNCHANGED <<enabled, clock, world, watcher>>

WindowLost == jobs["sweep"].now
WindowKept == prevTick

\* The rules, or the place of the house, cannot be read.
ReadFails(w) ==
  /\ jobs[w].at \in {"rules", "home"}
  /\ jobs' = [jobs EXCEPT ![w] = Idle]
  /\ prevTick' = IF w = "sweep" THEN WindowKept ELSE prevTick
  /\ UNCHANGED <<enabled, clock, lastFired, world, watcher, history>>

-----------------------------------------------------------------------------
\* IotWatcher.tick.

\* The list is made of what the backends say, but for those that fail; a device
\* that does not answer its backend is listed without a value.
PollReads(missing, silent) ==
  /\ poll = Unset
  /\ poll' = [d \in Things |-> IF d \in missing THEN Unset
                              ELSE IF d \in silent THEN Null ELSE world[d]]
  /\ UNCHANGED <<enabled, clock, engine, world, baseline, announced, blind, history>>

ForgetsMissing(prev) == Unknown
Remembers(prev) == prev

PollApplies ==
  /\ poll # Unset
  /\ LET prev == IF baseline = Unset THEN Unknown ELSE baseline
         events == UNION {IF poll[d] = Unset THEN {} ELSE Changed(prev, d, poll[d], Unset) : d \in Things}
     IN /\ HasRoomFor(events, jobs)
        /\ baseline' = [d \in Things |-> IF poll[d] # Unset THEN poll[d] ELSE Remembers(prev)[d]]
        /\ Tells(events)
        /\ jobs' = Started(events, jobs)
  /\ poll' = Unset
  /\ UNCHANGED <<enabled, clock, prevTick, lastFired, world, history>>

PollFails ==
  /\ poll # Unset
  /\ poll' = Unset
  /\ UNCHANGED <<enabled, clock, engine, world, baseline, announced, blind, history>>

-----------------------------------------------------------------------------
\* The world: a hand on a switch, the owner's edits, the clock, the process.

Flip(d) ==
  /\ world' = [world EXCEPT ![d] = ~@]
  /\ UNCHANGED <<enabled, clock, engine, watcher, history>>

\* update (or remove and create): what passed while it changed is not owed.
Toggle(r) ==
  /\ enabled' = IF r \in enabled THEN enabled \ {r} ELSE enabled \cup {r}
  /\ owed' = {p \in owed : p[1] # r}
  /\ UNCHANGED <<clock, engine, world, watcher, firedAt, tooSoon, allowed, spurious>>

\* No sweep takes, and none comes after, a whole day (a bound).
Minute ==
  /\ clock < LastMinute
  /\ prevTick # Unset => clock + 1 < prevTick + DayLength
  /\ jobs["sweep"].at # "idle" => clock + 1 < jobs["sweep"].now + DayLength
  /\ clock' = clock + 1
  /\ LET now == {<<r, clock'>> : r \in {q \in Rules : Programmed(q, clock') /\ InstantOn(q, clock') = clock'}}
     IN /\ allowed' = allowed \cup now
        /\ owed' = owed \cup {p \in now : p[1] \in enabled}
  /\ UNCHANGED <<enabled, engine, world, watcher, firedAt, tooSoon, spurious>>

\* lastFired and prevTick are in memory: what passed is not fired late.
Restarted ==
  /\ prevTick' = Unset /\ lastFired' = [r \in Rules |-> Unset]
  /\ jobs' = [w \in Workers |-> Idle]
  /\ baseline' = Unset /\ poll' = Unset /\ announced' = Unknown /\ blind' = {}
  /\ firedAt' = [r \in Rules |-> Unset]
  /\ owed' = {} /\ allowed' = {}
  /\ UNCHANGED <<enabled, clock, world, tooSoon, spurious>>

Sweeping == SweepStarts \/ SweepReadsRules \/ SweepReadsHome

AutoNext ==
  \/ \E w \in Workers : \/ Obeyed(w) \/ Answered(w) \/ CommandFails(w)
                        \/ Recorded(w) \/ ReadFails(w)
  \/ \E s \in Slots : RulesRead(s)
  \/ Sweeping
  \/ \E missing, silent \in SUBSET Things : PollReads(missing, silent)
  \/ PollApplies \/ PollFails
  \/ \E d \in Things : Flip(d)
  \/ \E r \in Rules : Toggle(r)
  \/ Minute \/ Restarted

AutoSpec == AutoInit /\ [][AutoNext]_autoVars

-----------------------------------------------------------------------------
\* Properties.

Events == [thing : Things, on : BOOLEAN, origin : Rules \cup {Unset}]
Jobs ==
  [at : {"idle", "rules", "home", "command", "answer", "record"}, now : Nat,
   event : Events \cup {Unset}, due : Seq(Rules), step : Nat]
Lists == [Things -> BOOLEAN \cup {Unset, Null}]

AutoTypeOK ==
  /\ enabled \subseteq Rules /\ clock \in Nat /\ prevTick \in Nat \cup {Unset}
  /\ {lastFired, firedAt} \subseteq [Rules -> Nat \cup {Unset}]
  /\ jobs \in [Workers -> Jobs]
  /\ world \in [Things -> BOOLEAN] /\ announced \in Lists
  /\ {baseline, poll} \subseteq Lists \cup {Unset}
  /\ blind \subseteq Things
  /\ {tooSoon, spurious} \subseteq SUBSET Rules
  /\ {owed, allowed} \subseteq SUBSET (Rules \X Nat)

\* "si fallan, el minuto se reintenta en vez de quedarse sin disparar" (tick):
\* every instant of a rule that stays enabled fires once it is swept over, and
\* no instant twice, though reads fail, sweeps come late and cross midnight.
EachInstantOnce ==
  /\ spurious = {}
  /\ \A p \in owed : prevTick # Unset => p[2] > prevTick

\* No other rule is triggered by the same event.
Alone(r) == \A q \in Rules : Routine[q].on = Routine[r].on => q = r \/ Routine[r].on = Unset

\* "El cooldown corre desde el intento" (fire): events in flight at once never
\* fire a rule twice within its cooldown, when the event fires that rule alone.
CooldownKept == \A r \in tooSoon : ~Alone(r)

\* "una puerta abierta durante el corte" (IotWatcher.tick): what the watcher
\* takes for known has been told, whatever lists were partial, failed or raced
\* a command.  It is not so of the devices it has been blind to, those that a
\* list had without a value since they were last told of: a change behind such
\* an outage goes untold.
SeenIsTold ==
  baseline # Unset =>
    \A d \in Things \ blind : baseline[d] \in BOOLEAN => announced[d] = baseline[d]
=============================================================================
