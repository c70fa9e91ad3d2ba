---------------------------- MODULE Alarm_proofs ----------------------------
\* Machine-checked theorems about Alarm, for any set of request slots and any
\* set of configurations, and about AlarmFailSafe, for any sensors, detectors
\* and backends.
EXTENDS Alarm, AlarmFailSafe, TLAPS, SequenceTheorems, FiniteSetTheorems

USE DEF vars, Outside, Slots, Phases, Afterwards, Waiting, CallState, Idle, At,
        Persisting, Goto, Assign

-----------------------------------------------------------------------------
(***************************************************************************)
(* Type correctness.                                                       *)
(***************************************************************************)

\* A suspended call resumes in a legal place when its row is written.
LEMMA ResumeType ==
  ASSUME TypeOK, NEW s \in Slots
  PROVE  Resume(s) \in CallState
  BY DEF TypeOK, Resume

\* Suspending a slot keeps the table of calls well typed.
LEMMA GotoType ==
  ASSUME TypeOK, NEW s \in Slots, NEW c \in CallState, Goto(s, c)
  PROVE  call' \in [Slots -> CallState]
  BY DEF TypeOK

\* The oldest queued upsert, and the queue without it.
LEMMA HeadType ==
  ASSUME TypeOK, writes # <<>>
  PROVE  /\ Head(writes).slot \in Slots
         /\ Head(writes).phase \in Phases
         /\ Tail(writes) \in Seq([slot : Slots, phase : Phases])
<1>1. /\ Head(writes) \in [slot : Slots, phase : Phases]
      /\ Tail(writes) \in Seq([slot : Slots, phase : Phases])
  BY HeadTailProperties DEF TypeOK
<1> QED BY <1>1

\* Every queued upsert belongs to a slot.
LEMMA QueueType ==
  ASSUME TypeOK
  PROVE  Len(writes) \in Nat /\ \A i \in 1 .. Len(writes) : writes[i].slot \in Slots
<1>1. writes \in Seq([slot : Slots, phase : Phases])
  BY DEF TypeOK
<1>2. Len(writes) \in Nat
  BY <1>1, LenProperties
<1>3. ASSUME NEW i \in 1 .. Len(writes) PROVE writes[i].slot \in Slots
  <2>1. writes[i] \in [slot : Slots, phase : Phases]
    BY <1>1, ElementOfSeq
  <2> QED BY <2>1
<1> QED BY <1>2, <1>3

\* An assignment with its queued upsert keeps the state well typed.
LEMMA AssignType ==
  ASSUME TypeOK, NEW s \in Slots, NEW p \in Phases, NEW a \in Afterwards,
         NEW v \in BOOLEAN, Assign(s, p, a, v)
  PROVE  /\ phase' \in Phases
         /\ due' \in BOOLEAN
         /\ writes' \in Seq([slot : Slots, phase : Phases])
         /\ call' \in [Slots -> CallState]
<1> DEFINE w == [slot |-> s, phase |-> p]
<1>1. w \in [slot : Slots, phase : Phases]
  OBVIOUS
<1>2. Append(writes, w) \in Seq([slot : Slots, phase : Phases])
  <2> HIDE DEF w
  <2> QED BY <1>1 DEF TypeOK
<1>3. Persisting(a, v) \in CallState
  OBVIOUS
<1>4. call' \in [Slots -> CallState]
  BY <1>3 DEF TypeOK
<1> QED BY <1>2, <1>4

\* Every step of Alarm keeps its state well typed.
LEMMA TypeStep == TypeOK /\ [Next]_vars => TypeOK'
<1> SUFFICES ASSUME TypeOK, [Next]_vars PROVE TypeOK'
  OBVIOUS
<1> USE ConfigsAssumption
<1>1. ASSUME NEW s \in Requests, Begin(s) PROVE TypeOK'
  <2>1. CASE ArmRead(s)
    BY <2>1 DEF ArmRead, TypeOK
  <2>2. CASE AwayRead(s)
    BY <2>2 DEF AwayRead, TypeOK
  <2>3. ASSUME NEW right \in BOOLEAN, DisarmRead(s, right) PROVE TypeOK'
    BY <2>3 DEF DisarmRead, TypeOK
  <2>4. ASSUME NEW vital \in BOOLEAN, TriggerRead(s, vital) PROVE TypeOK'
    BY <2>4 DEF TriggerRead, TypeOK
  <2> QED BY <1>1, <2>1, <2>2, <2>3, <2>4 DEF Begin
<1>2. ASSUME NEW s \in Slots, Continue(s) PROVE TypeOK'
  <2>1. CASE ArmApply(s)
    <3>1. CASE MayArm
      <4> DEFINE p == IF call[s].arg THEN "arming" ELSE "armed"
      <4>1. p \in Phases /\ Assign(s, p, "idle", FALSE)
        BY <2>1, <3>1 DEF ArmApply
      <4> HIDE DEF p
      <4> QED BY <2>1, <4>1, AssignType DEF ArmApply, TypeOK
    <3>2. CASE ~MayArm
      <4>1. Goto(s, Idle) /\ UNCHANGED <<phase, due, writes, owed, overtaken, Outside>>
        BY <2>1, <3>2 DEF ArmApply
      <4>2. call' \in [Slots -> CallState]
        BY <4>1 DEF TypeOK
      <4> QED BY <4>1, <4>2 DEF TypeOK
    <3> QED BY <3>1, <3>2
  <2>2. CASE AwayCheck(s)
    BY <2>2 DEF AwayCheck, TypeOK
  <2>3. CASE DisarmVerify(s)
    BY <2>3 DEF DisarmVerify, TypeOK
  <2>4. CASE DisarmApply(s)
    <3>1. AfterDisarm \in Afterwards
      BY DEF AfterDisarm
    <3>2. overtaken' \in BOOLEAN
      BY <2>4 DEF DisarmApply, TypeOK
    <3> QED BY <2>4, <3>1, <3>2, AssignType DEF DisarmApply, TypeOK
  <2>5. CASE TriggerApply(s)
    <3>1. CASE ~CanTrigger
      <4>1. Goto(s, Idle) /\ UNCHANGED <<phase, due, writes, owed, overtaken, Outside>>
        BY <2>5, <3>1 DEF TriggerApply
      <4>2. call' \in [Slots -> CallState]
        BY <4>1 DEF TypeOK
      <4> QED BY <4>1, <4>2 DEF TypeOK
    <3>2. CASE CanTrigger /\ call[s].arg
      <4>1. Assign(s, "entry", "idle", FALSE)
        BY <2>5, <3>2 DEF TriggerApply
      <4> QED BY <2>5, <3>2, <4>1, AssignType DEF TriggerApply, TypeOK
    <3>3. CASE CanTrigger /\ ~call[s].arg
      <4>1. Assign(s, "triggered", "fire", FALSE)
        BY <2>5, <3>3 DEF TriggerApply
      <4>2. owed' \in Int
        BY <2>5, <3>3 DEF TriggerApply, TypeOK
      <4>3. UNCHANGED <<overtaken, Outside>>
        BY <2>5 DEF TriggerApply
      <4>4. /\ phase' \in Phases
            /\ due' \in BOOLEAN
            /\ writes' \in Seq([slot : Slots, phase : Phases])
            /\ call' \in [Slots -> CallState]
        BY <4>1, AssignType
      <4> QED BY <4>2, <4>3, <4>4 DEF TypeOK
    <3> QED BY <3>1, <3>2, <3>3
  <2>6. CASE Fire(s)
    BY <2>6 DEF Fire, TypeOK
  <2>7. CASE SirenCommand(s)
    BY <2>7 DEF SirenCommand, TypeOK
  <2>8. CASE SirenObeys(s)
    BY <2>8 DEF SirenObeys, TypeOK
  <2>9. CASE SirenFails(s)
    BY <2>9 DEF SirenFails, TypeOK
  <2> QED BY <1>2, <2>1, <2>2, <2>3, <2>4, <2>5, <2>6, <2>7, <2>8, <2>9 DEF Continue
<1>3. CASE Tick
  <2>1. CASE phase = "arming"
    <3>1. Assign(Sweep, "armed", "idle", FALSE) /\ owed' = owed
      BY <1>3, <2>1 DEF Tick
    <3>2. Sweep \in Slots
      OBVIOUS
    <3>3. /\ phase' \in Phases
          /\ due' \in BOOLEAN
          /\ writes' \in Seq([slot : Slots, phase : Phases])
          /\ call' \in [Slots -> CallState]
      BY <3>1, <3>2, AssignType
    <3> QED BY <1>3, <3>1, <3>3 DEF Tick, TypeOK
  <2>2. CASE phase = "entry"
    <3>1. Assign(Sweep, "triggered", "fire", FALSE) /\ owed' = owed + 1
      BY <1>3, <2>2 DEF Tick, AfterEntry
    <3>2. Sweep \in Slots
      OBVIOUS
    <3>3. /\ phase' \in Phases
          /\ due' \in BOOLEAN
          /\ writes' \in Seq([slot : Slots, phase : Phases])
          /\ call' \in [Slots -> CallState]
      BY <3>1, <3>2, AssignType
    <3> QED BY <1>3, <3>1, <3>3 DEF Tick, TypeOK
  <2> QED BY <1>3, <2>1, <2>2 DEF Tick
<1>4. CASE ClockElapses
  BY <1>4 DEF ClockElapses, TypeOK
<1>5. CASE WriteLands
  <2>1. /\ Head(writes).slot \in Slots /\ Head(writes).phase \in Phases
        /\ Tail(writes) \in Seq([slot : Slots, phase : Phases])
    BY <1>5, HeadType DEF WriteLands
  <2>2. Resume(Head(writes).slot) \in CallState
    BY <2>1, ResumeType
  <2> QED BY <1>5, <2>1, <2>2 DEF WriteLands, TypeOK
<1>6. CASE WriteFails
  <2>1. /\ Head(writes).slot \in Slots /\ Head(writes).phase \in Phases
        /\ Tail(writes) \in Seq([slot : Slots, phase : Phases])
    BY <1>6, HeadType DEF WriteFails
  <2> QED BY <1>6, <2>1 DEF WriteFails, TypeOK
<1>7. CASE LateSiren
  BY <1>7 DEF LateSiren, TypeOK
<1>8. CASE SetConfig
  BY <1>8 DEF SetConfig, TypeOK
<1>9. CASE Crash
  <2>1. {call[s].arg : s \in {t \in Slots : call[t].at = "sending"}} \subseteq BOOLEAN
    BY DEF TypeOK
  <2>2. writes' \in Seq([slot : Slots, phase : Phases])
    BY <1>9 DEF Crash
  <2>3. call' \in [Slots -> CallState]
    BY <1>9 DEF Crash
  <2>4. up' \in BOOLEAN /\ due' \in BOOLEAN
    BY <1>9 DEF Crash, TypeOK
  <2> QED BY <1>9, <2>1, <2>2, <2>3, <2>4 DEF Crash, TypeOK
<1>10. CASE Restart
  BY <1>10 DEF Restart, TypeOK, Rehydrated
<1>11. CASE UNCHANGED vars
  BY <1>11 DEF TypeOK
<1> QED BY <1>1, <1>2, <1>3, <1>4, <1>5, <1>6, <1>7, <1>8, <1>9, <1>10, <1>11 DEF Next

\* TypeOK is an invariant of the alarm.
THEOREM TypeCorrect == Spec => []TypeOK
<1>1. ASSUME Init PROVE TypeOK
  <2>1. writes \in Seq([slot : Slots, phase : Phases])
    BY <1>1 DEF Init
  <2>2. call \in [Slots -> CallState]
    BY <1>1 DEF Init
  <2>3. due \in BOOLEAN /\ siren \in BOOLEAN /\ up \in BOOLEAN /\ overtaken \in BOOLEAN
    BY <1>1 DEF Init
  <2> QED BY <1>1, <2>1, <2>2, <2>3 DEF Init, TypeOK
<1> QED BY <1>1, TypeStep, PTL DEF Spec

-----------------------------------------------------------------------------
(***************************************************************************)
(* Durability.                                                             *)
(***************************************************************************)

\* The strengthening of DurablePhase: while upserts are queued, the newest
\* one carries the phase in memory.
DurableInv ==
  /\ ~up => writes = <<>>
  /\ up /\ writes = <<>> => phase = Rehydrated(saved)
  /\ writes # <<>> => writes[Len(writes)].phase = phase

\* An assignment queues the phase it leaves in memory.
LEMMA AssignDurable ==
  ASSUME TypeOK, NEW s \in Slots, NEW p \in Phases, NEW a \in Afterwards,
         NEW v \in BOOLEAN, Assign(s, p, a, v), up' = up, up
  PROVE  DurableInv'
<1> DEFINE w == [slot |-> s, phase |-> p]
<1>1. w \in [slot : Slots, phase : Phases]
  OBVIOUS
<1>2. /\ Append(writes, w) # <<>>
      /\ Append(writes, w)[Len(Append(writes, w))] = w
  <2> HIDE DEF w
  <2> QED BY <1>1, AppendProperties DEF TypeOK
<1> QED BY <1>2 DEF DurableInv

\* A step of a running call keeps DurableInv: it assigns the phase through
\* Assign or leaves the phase, the row and the queue alone.
LEMMA ContinueDurable ==
  ASSUME TypeOK, DurableInv, up, NEW s \in Slots, Continue(s)
  PROVE  DurableInv'
<1>1. CASE ArmApply(s)
  <2>1. CASE MayArm
    <3> DEFINE p == IF call[s].arg THEN "arming" ELSE "armed"
    <3>1. p \in Phases /\ Assign(s, p, "idle", FALSE) /\ up' = up
      BY <1>1, <2>1 DEF ArmApply
    <3> HIDE DEF p
    <3> QED BY <3>1, AssignDurable
  <2>2. CASE ~MayArm
    BY <1>1, <2>2 DEF ArmApply, DurableInv, Rehydrated
  <2> QED BY <2>1, <2>2
<1>2. CASE AwayCheck(s)
  BY <1>2 DEF AwayCheck, DurableInv, Rehydrated
<1>3. CASE DisarmVerify(s)
  BY <1>3 DEF DisarmVerify, DurableInv, Rehydrated
<1>4. CASE DisarmApply(s)
  <2>1. AfterDisarm \in Afterwards /\ up' = up
    BY <1>4 DEF AfterDisarm, DisarmApply
  <2> QED BY <1>4, <2>1, AssignDurable DEF DisarmApply
<1>5. CASE TriggerApply(s)
  <2>1. CASE ~CanTrigger
    BY <1>5, <2>1 DEF TriggerApply, DurableInv, Rehydrated
  <2>2. CASE CanTrigger
    <3>1. up' = up
      BY <1>5 DEF TriggerApply
    <3>2. Assign(s, "entry", "idle", FALSE) \/ Assign(s, "triggered", "fire", FALSE)
      BY <1>5, <2>2 DEF TriggerApply
    <3> QED BY <3>1, <3>2, AssignDurable
  <2> QED BY <2>1, <2>2
<1>6. CASE Fire(s)
  BY <1>6 DEF Fire, DurableInv, Rehydrated
<1>7. CASE SirenCommand(s)
  BY <1>7 DEF SirenCommand, DurableInv, Rehydrated
<1>8. CASE SirenObeys(s)
  BY <1>8 DEF SirenObeys, DurableInv, Rehydrated
<1>9. CASE SirenFails(s)
  BY <1>9 DEF SirenFails, DurableInv, Rehydrated
<1> QED BY <1>1, <1>2, <1>3, <1>4, <1>5, <1>6, <1>7, <1>8, <1>9 DEF Continue

\* Beginning a call touches neither the phase nor its row.
LEMMA BeginDurable ==
  ASSUME DurableInv, NEW s \in Requests, Begin(s)
  PROVE  DurableInv'
<1>1. UNCHANGED <<phase, writes, saved, up>>
  BY DEF Begin, ArmRead, AwayRead, DisarmRead, TriggerRead
<1> QED BY <1>1 DEF DurableInv, Rehydrated

\* When the database accepts the writes, every step keeps DurableInv.
LEMMA DurableStep ==
  ASSUME ~DbFails, TypeOK, DurableInv, [Next]_vars
  PROVE  DurableInv'
<1>1. CASE up /\ \E s \in Requests : Begin(s)
  BY <1>1, BeginDurable
<1>2. CASE up /\ \E s \in Slots : Continue(s)
  BY <1>2, ContinueDurable
<1>3. CASE up /\ Tick
  <2>1. up' = up /\ Sweep \in Slots
    BY <1>3 DEF Tick
  <2>2. Assign(Sweep, "armed", "idle", FALSE) \/ Assign(Sweep, "triggered", "fire", FALSE)
    BY <1>3 DEF Tick, AfterEntry
  <2> QED BY <1>3, <2>1, <2>2, AssignDurable
<1>4. CASE ClockElapses
  BY <1>4 DEF ClockElapses, DurableInv, Rehydrated
<1>5. CASE WriteLands
  <2> DEFINE T == [slot : Slots, phase : Phases]
  <2>1. writes \in Seq(T) /\ writes # <<>> /\ phase' = phase /\ up
    BY <1>5 DEF WriteLands, TypeOK
  <2>2. /\ writes' \in Seq(T)
        /\ Len(writes') = Len(writes) - 1
        /\ \A i \in 1 .. Len(writes') : writes'[i] = writes[i + 1]
    BY <1>5, <2>1, HeadTailProperties DEF WriteLands
  <2>3. writes[Len(writes)].phase = phase /\ phase \in Phases
    BY <2>1 DEF DurableInv, TypeOK
  <2>4. Len(writes) \in Nat \ {0}
    BY <2>1, EmptySeq
  <2>5. CASE writes' = <<>>
    <3>1. Len(writes) = 1
      BY <2>2, <2>4, <2>5
    <3>2. saved' = writes[1].phase
      BY <1>5 DEF WriteLands
    <3> QED BY <2>1, <2>3, <2>5, <3>1, <3>2 DEF DurableInv, Rehydrated
  <2>6. CASE writes' # <<>>
    <3>1. Len(writes') \in Nat \ {0}
      BY <2>2, <2>6, EmptySeq
    <3>2. writes'[Len(writes')] = writes[Len(writes)]
      BY <2>2, <2>4, <3>1
    <3>3. up'
      BY <1>5, <2>1 DEF WriteLands
    <3> QED BY <2>1, <2>3, <2>6, <3>2, <3>3 DEF DurableInv
  <2> QED BY <2>5, <2>6
<1>6. CASE WriteFails
  BY <1>6 DEF WriteFails
<1>7. CASE LateSiren
  BY <1>7 DEF LateSiren, DurableInv, Rehydrated
<1>8. CASE SetConfig
  BY <1>8 DEF SetConfig, DurableInv, Rehydrated
<1>9. CASE Crash
  BY <1>9 DEF Crash, DurableInv, Rehydrated
<1>10. CASE Restart
  BY <1>10 DEF Restart, DurableInv, Rehydrated
<1>11. CASE UNCHANGED vars
  BY <1>11 DEF DurableInv, Rehydrated
<1> QED BY <1>1, <1>2, <1>3, <1>4, <1>5, <1>6, <1>7, <1>8, <1>9, <1>10, <1>11 DEF Next

\* If no write of alarm.state is refused, a restart resumes the phase the
\* alarm was in, whatever calls race and whenever the process died before.
THEOREM PhaseIsDurable == ~DbFails => (Spec => []DurablePhase)
<1> SUFFICES ASSUME ~DbFails PROVE Spec => []DurablePhase
  OBVIOUS
<1>1. Init => DurableInv
  BY DEF Init, DurableInv, Rehydrated
<1>2. TypeOK /\ DurableInv /\ [Next]_vars => DurableInv'
  BY DurableStep
<1>3. DurableInv => DurablePhase
  BY DEF DurableInv, DurablePhase
<1> QED BY <1>1, <1>2, <1>3, TypeCorrect, PTL DEF Spec

-----------------------------------------------------------------------------
(***************************************************************************)
(* Only a disarm with the right PIN stands the alarm down.                 *)
(***************************************************************************)

\* What a suspended disarm knows: it is a request's, it verifies only a PIN
\* that is set, and past the verification that PIN was right.
PinInv ==
  /\ call[Sweep].at \notin {"verify", "disarmApply"}
  /\ \A s \in Slots : call[s].at = "verify" => cfg.pin
  /\ \A s \in Slots : call[s].at = "disarmApply" => (cfg.pin => call[s].arg)

\* A slot that moves on to a place other than a verification or a disarm
\* keeps PinInv.
LEMMA GotoPin ==
  ASSUME TypeOK, PinInv, NEW s \in Slots, NEW c \in CallState, Goto(s, c),
         c.at \notin {"verify", "disarmApply"}, cfg' = cfg
  PROVE  PinInv'
  BY DEF TypeOK, PinInv

\* Every step keeps PinInv while the configuration stays as it is.
LEMMA PinStep ==
  ASSUME ~ConfigChanges, TypeOK, PinInv, [Next]_vars
  PROVE  PinInv'
<1>1. ASSUME up, NEW s \in Requests, Begin(s) PROVE PinInv'
  <2>1. CASE ArmRead(s)
    BY <2>1 DEF ArmRead, TypeOK, PinInv
  <2>2. CASE AwayRead(s)
    BY <2>2 DEF AwayRead, TypeOK, PinInv
  <2>3. ASSUME NEW right \in BOOLEAN, DisarmRead(s, right) PROVE PinInv'
    <3>1. s # Sweep /\ s \in Slots
      BY SlotsAssumption
    <3>2. CASE cfg.pin
      <4>1. Goto(s, At("verify", right)) /\ cfg' = cfg
        BY <2>3, <3>2 DEF DisarmRead
      <4> QED BY <3>1, <3>2, <4>1 DEF TypeOK, PinInv
    <3>3. CASE ~cfg.pin
      <4>1. Goto(s, At("disarmApply", right)) /\ cfg' = cfg
        BY <2>3, <3>3 DEF DisarmRead
      <4> QED BY <3>1, <3>3, <4>1 DEF TypeOK, PinInv
    <3> QED BY <3>2, <3>3
  <2>4. ASSUME NEW vital \in BOOLEAN, TriggerRead(s, vital) PROVE PinInv'
    BY <2>4 DEF TriggerRead, TypeOK, PinInv
  <2> QED BY <1>1, <2>1, <2>2, <2>3, <2>4 DEF Begin
<1>2. ASSUME up, NEW s \in Slots, Continue(s) PROVE PinInv'
  <2>1. CASE ArmApply(s)
    <3>1. cfg' = cfg
      BY <2>1 DEF ArmApply
    <3>2. CASE MayArm
      <4>1. Goto(s, Persisting("idle", FALSE))
        BY <2>1, <3>2 DEF ArmApply
      <4> QED BY <3>1, <4>1 DEF TypeOK, PinInv
    <3>3. CASE ~MayArm
      <4>1. Goto(s, Idle)
        BY <2>1, <3>3 DEF ArmApply
      <4> QED BY <3>1, <4>1 DEF TypeOK, PinInv
    <3> QED BY <3>2, <3>3
  <2>2. CASE AwayCheck(s)
    BY <2>2 DEF AwayCheck, TypeOK, PinInv
  <2>3. CASE DisarmVerify(s)
    <3>1. CASE PinAccepted(call[s].arg)
      <4>1. s # Sweep /\ call[s].arg
        BY <2>3, <3>1 DEF DisarmVerify, PinAccepted, PinInv
      <4>2. Goto(s, At("disarmApply", call[s].arg)) /\ cfg' = cfg
        BY <2>3, <3>1 DEF DisarmVerify
      <4> QED BY <4>1, <4>2 DEF TypeOK, PinInv
    <3>2. CASE ~PinAccepted(call[s].arg)
      BY <2>3, <3>2 DEF DisarmVerify, TypeOK, PinInv
    <3> QED BY <3>1, <3>2
  <2>4. CASE DisarmApply(s)
    BY <2>4 DEF DisarmApply, TypeOK, PinInv
  <2>5. CASE TriggerApply(s)
    BY <2>5 DEF TriggerApply, TypeOK, PinInv
  <2>6. CASE Fire(s)
    BY <2>6 DEF Fire, TypeOK, PinInv
  <2>7. CASE SirenCommand(s)
    BY <2>7 DEF SirenCommand, TypeOK, PinInv
  <2>8. CASE SirenObeys(s)
    BY <2>8 DEF SirenObeys, TypeOK, PinInv
  <2>9. CASE SirenFails(s)
    BY <2>9 DEF SirenFails, TypeOK, PinInv
  <2> QED BY <1>2, <2>1, <2>2, <2>3, <2>4, <2>5, <2>6, <2>7, <2>8, <2>9 DEF Continue
<1>3. CASE Tick
  BY <1>3 DEF Tick, TypeOK, PinInv
<1>4. CASE ClockElapses
  BY <1>4 DEF ClockElapses, PinInv
<1>5. CASE WriteLands
  <2> DEFINE h == Head(writes).slot
  <2>1. h \in Slots
    BY <1>5, HeadType DEF WriteLands
  <2>2. Resume(h) \in CallState /\ Resume(h).at \notin {"verify", "disarmApply"}
    BY <2>1 DEF Resume, TypeOK
  <2>3. Goto(h, Resume(h)) /\ cfg' = cfg
    BY <1>5 DEF WriteLands
  <2> HIDE DEF h
  <2> QED BY <2>1, <2>2, <2>3, GotoPin
<1>6. CASE WriteFails
  <2> DEFINE h == Head(writes).slot
  <2>1. h \in Slots
    BY <1>6, HeadType DEF WriteFails
  <2>2. Goto(h, Idle) /\ cfg' = cfg
    BY <1>6 DEF WriteFails
  <2> HIDE DEF h
  <2> QED BY <2>1, <2>2 DEF TypeOK, PinInv
<1>7. CASE LateSiren
  BY <1>7 DEF LateSiren, PinInv
<1>8. CASE SetConfig
  BY <1>8 DEF SetConfig
<1>9. CASE Crash
  BY <1>9 DEF Crash, PinInv
<1>10. CASE Restart
  BY <1>10 DEF Restart, PinInv
<1>11. CASE UNCHANGED vars
  BY <1>11 DEF PinInv
<1> QED BY <1>1, <1>2, <1>3, <1>4, <1>5, <1>6, <1>7, <1>8, <1>9, <1>10, <1>11 DEF Next

\* A step by which a running alarm leaves `entry' or `triggered' is the end
\* of the countdown or a disarm with the right PIN.
LEMMA StandDown ==
  ASSUME TypeOK, PinInv, [Next]_vars
  PROVE  StandDownStep
<1> SUFFICES ASSUME up, up', phase \in {"entry", "triggered"}, phase' # phase
             PROVE  \/ phase = "entry" /\ phase' = "triggered"
                    \/ /\ phase' = "disarmed"
                       /\ \E s \in Requests : /\ call[s].at = "disarmApply"
                                              /\ cfg.pin => call[s].arg
  BY DEF StandDownStep
<1>1. ASSUME NEW s \in Requests, Begin(s) PROVE FALSE
  BY <1>1 DEF Begin, ArmRead, AwayRead, DisarmRead, TriggerRead
<1>2. ASSUME NEW s \in Slots, Continue(s) PROVE s \in Requests /\ DisarmApply(s)
  <2>1. ~ArmApply(s)
    BY DEF ArmApply, MayArm
  <2>2. ~TriggerApply(s)
    BY DEF TriggerApply, CanTrigger
  <2>3. DisarmApply(s)
    BY <1>2, <2>1, <2>2
       DEF Continue, AwayCheck, DisarmVerify, Fire, SirenCommand, SirenObeys, SirenFails
  <2> QED BY <2>3 DEF DisarmApply, PinInv
<1>3. CASE \E s \in Slots : Continue(s)
  BY <1>2, <1>3 DEF DisarmApply, PinInv
<1>4. CASE Tick
  BY <1>4 DEF Tick
<1>5. CASE ClockElapses \/ WriteLands \/ WriteFails \/ LateSiren \/ SetConfig
  BY <1>5 DEF ClockElapses, WriteLands, WriteFails, LateSiren, SetConfig
<1>6. CASE Crash \/ Restart
  BY <1>6 DEF Crash, Restart
<1>7. CASE UNCHANGED vars
  BY <1>7
<1> QED BY <1>1, <1>3, <1>4, <1>5, <1>6, <1>7 DEF Next

\* While the configuration is not edited, nothing but a disarm that presented
\* the right PIN silences a running alarm: not arming again, not the away
\* mode, not a second sensor.
THEOREM OnlyPinStandsDown == ~ConfigChanges => (Spec => StandsDownOnlyByPin)
<1> SUFFICES ASSUME ~ConfigChanges PROVE Spec => StandsDownOnlyByPin
  OBVIOUS
<1>1. Init => PinInv
  BY DEF Init, PinInv
<1>2. TypeOK /\ PinInv /\ [Next]_vars => PinInv'
  BY PinStep
<1>3. TypeOK /\ PinInv /\ [Next]_vars => [StandDownStep]_vars
  BY StandDown
<1> QED BY <1>1, <1>2, <1>3, TypeCorrect, PTL DEF Spec, StandsDownOnlyByPin

-----------------------------------------------------------------------------
(***************************************************************************)
(* The queue of the database.                                              *)
(***************************************************************************)

\* A queued upsert belongs to a call that waits for it alone.
QueueInv ==
  /\ \A i \in 1 .. Len(writes) : call[writes[i].slot].at = "persist"
  /\ \A i, j \in 1 .. Len(writes) : writes[i].slot = writes[j].slot => i = j

\* A call that was not waiting for an upsert and queues one is the only one
\* waiting for it.
LEMMA AssignQueue ==
  ASSUME TypeOK, QueueInv, NEW s \in Slots, NEW p \in Phases, NEW a \in Afterwards,
         NEW v \in BOOLEAN, call[s].at # "persist", Assign(s, p, a, v)
  PROVE  QueueInv'
<1> DEFINE w == [slot |-> s, phase |-> p]
<1>1. w \in [slot : Slots, phase : Phases] /\ w.slot = s
  OBVIOUS
<1>2. writes' = Append(writes, w)
  OBVIOUS
<1>3. /\ call'[s].at = "persist"
      /\ \A t \in Slots : t # s => call'[t] = call[t]
  BY DEF TypeOK
<1> HIDE DEF w
<1>4. /\ Len(writes') = Len(writes) + 1
      /\ \A i \in 1 .. Len(writes) : writes'[i] = writes[i]
      /\ writes'[Len(writes) + 1] = w
  BY <1>1, <1>2, AppendProperties DEF TypeOK
<1>5. Len(writes) \in Nat /\ \A i \in 1 .. Len(writes) : writes[i].slot \in Slots
  BY QueueType
<1>6. \A i \in 1 .. Len(writes) : writes[i].slot # s /\ call[writes[i].slot].at = "persist"
  BY DEF QueueInv
<1>7. \A i \in 1 .. Len(writes') : i \in 1 .. Len(writes) \/ i = Len(writes) + 1
  BY <1>4, <1>5
<1>8. \A i \in 1 .. Len(writes') : call'[writes'[i].slot].at = "persist"
  BY <1>1, <1>3, <1>4, <1>5, <1>6, <1>7
<1>9. \A i, j \in 1 .. Len(writes) : writes[i].slot = writes[j].slot => i = j
  BY DEF QueueInv
<1>10. \A i, j \in 1 .. Len(writes') : writes'[i].slot = writes'[j].slot => i = j
  BY <1>1, <1>4, <1>6, <1>7, <1>9
<1> QED BY <1>8, <1>10 DEF QueueInv

\* Moving a slot that no upsert belongs to leaves the queue's part alone.
LEMMA GotoQueue ==
  ASSUME TypeOK, QueueInv, NEW s \in Slots, NEW c \in CallState, Goto(s, c),
         call[s].at # "persist", writes' = writes
  PROVE  QueueInv'
<1>1. \A t \in Slots : t # s => call'[t] = call[t]
  BY DEF TypeOK
<1>2. \A i \in 1 .. Len(writes) : writes[i].slot \in Slots
  BY QueueType
<1> HIDE DEF Goto
<1> QED BY <1>1, <1>2 DEF QueueInv

\* The call of the oldest upsert moves on; those behind it stay in the order
\* they had.
LEMMA PopQueue ==
  ASSUME TypeOK, QueueInv, writes # <<>>, writes' = Tail(writes),
         NEW c \in CallState, Goto(Head(writes).slot, c)
  PROVE  /\ QueueInv'
         /\ Head(writes).slot \in Slots /\ call[Head(writes).slot].at = "persist"
         /\ Len(writes) \in Nat \ {0} /\ Len(writes') = Len(writes) - 1
         /\ \A i \in 1 .. Len(writes') :
              /\ writes'[i] = writes[i + 1]
              /\ writes'[i].slot \in Slots /\ writes'[i].slot # Head(writes).slot
              /\ call'[writes'[i].slot] = call[writes'[i].slot]
<1> DEFINE h == Head(writes).slot
<1>1. h \in Slots /\ writes[1].slot = h
  BY HeadType
<1>2. Len(writes) \in Nat \ {0}
  BY EmptySeq DEF TypeOK
<1>3. call[h].at = "persist"
  BY <1>1, <1>2 DEF QueueInv
<1>4. /\ Len(writes') = Len(writes) - 1
      /\ \A i \in 1 .. Len(writes') : writes'[i] = writes[i + 1]
  BY HeadTailProperties DEF TypeOK
<1>5. \A i \in 1 .. Len(writes') : i + 1 \in 1 .. Len(writes) /\ i + 1 # 1
  BY <1>2, <1>4
<1>6. \A i \in 1 .. Len(writes') : writes'[i].slot \in Slots /\ writes'[i].slot # h
  BY <1>1, <1>2, <1>4, <1>5, QueueType DEF QueueInv
<1>7. \A t \in Slots : t # h => call'[t] = call[t]
  BY <1>1 DEF TypeOK
<1>8. \A i \in 1 .. Len(writes') : call'[writes'[i].slot].at = "persist"
  BY <1>4, <1>5, <1>6, <1>7 DEF QueueInv
<1>9. \A i, j \in 1 .. Len(writes') : writes'[i].slot = writes'[j].slot => i = j
  <2> SUFFICES ASSUME NEW i \in 1 .. Len(writes'), NEW j \in 1 .. Len(writes'),
                      writes'[i].slot = writes'[j].slot
               PROVE  i = j
    OBVIOUS
  <2>1. i + 1 = j + 1
    BY <1>4, <1>5 DEF QueueInv
  <2> QED BY <1>2, <1>4, <2>1
<1>10. QueueInv'
  BY <1>8, <1>9 DEF QueueInv
<1> HIDE DEF Goto
<1> QED BY <1>1, <1>2, <1>3, <1>4, <1>6, <1>7, <1>10

-----------------------------------------------------------------------------
(***************************************************************************)
(* Every entry into `triggered' is announced exactly once.                 *)
(***************************************************************************)

\* The calls that will still audit an entry into `triggered'.
Owes(c) == c.at = "fire" \/ (c.at = "persist" /\ c.next = "fire")
Owing == {s \in Slots : Owes(call[s])}

\* Each entry not yet audited is owed by exactly one call.
AnnounceInv == owed = Cardinality(Owing) /\ QueueInv

\* How moving one slot changes the set of calls that owe an audit.
LEMMA GotoOwing ==
  ASSUME TypeOK, NEW s \in Slots, NEW c \in CallState, Goto(s, c)
  PROVE  Owing' = IF Owes(c) THEN Owing \cup {s} ELSE Owing \ {s}
<1>1. /\ call'[s] = c
      /\ \A t \in Slots : t # s => call'[t] = call[t]
  BY DEF TypeOK
<1> HIDE DEF Goto
<1> QED BY <1>1 DEF Owing, Owes

\* The slots are finite, so the calls that owe an audit can be counted.
LEMMA OwingFinite ==
  ASSUME IsFiniteSet(Requests)
  PROVE  IsFiniteSet(Owing) /\ Cardinality(Owing) \in Nat
<1>1. IsFiniteSet(Slots)
  BY FS_AddElement
<1>2. IsFiniteSet(Owing)
  BY <1>1, FS_Subset DEF Owing
<1> QED BY <1>2, FS_CardinalityType

\* A step that owes nothing before or after it keeps AnnounceInv.
LEMMA GotoAnnounce ==
  ASSUME IsFiniteSet(Requests), TypeOK, AnnounceInv, NEW s \in Slots, NEW c \in CallState,
         Goto(s, c), call[s].at \notin {"persist", "fire"}, ~Owes(c),
         writes' = writes, owed' = owed
  PROVE  AnnounceInv'
<1>1. Owing' = Owing
  BY GotoOwing DEF Owing, Owes
<1> QED BY <1>1, GotoQueue DEF AnnounceInv

\* The same when the step queues an upsert and then does something else.
LEMMA AssignAnnounce ==
  ASSUME IsFiniteSet(Requests), TypeOK, AnnounceInv, NEW s \in Slots, NEW p \in Phases,
         NEW a \in Afterwards, NEW v \in BOOLEAN, Assign(s, p, a, v),
         call[s].at \notin {"persist", "fire"},
         owed' = IF a = "fire" THEN owed + 1 ELSE owed
  PROVE  AnnounceInv'
<1> DEFINE c == Persisting(a, v)
<1>1. c \in CallState /\ Goto(s, c)
  OBVIOUS
<1>2. Owes(c) <=> a = "fire"
  BY DEF Owes
<1>3. s \notin Owing
  BY DEF Owing, Owes
<1>4. Owing' = IF a = "fire" THEN Owing \cup {s} ELSE Owing
  <2> HIDE DEF c, Goto
  <2>1. Owing' = IF Owes(c) THEN Owing \cup {s} ELSE Owing \ {s}
    BY <1>1, GotoOwing
  <2> QED BY <1>2, <1>3, <2>1
<1>5. Cardinality(Owing') = IF a = "fire" THEN Cardinality(Owing) + 1 ELSE Cardinality(Owing)
  BY <1>3, <1>4, OwingFinite, FS_AddElement
<1> QED BY <1>5, AssignQueue DEF AnnounceInv

\* Every step keeps AnnounceInv, whichever calls race for the trigger.
LEMMA AnnounceStep ==
  ASSUME IsFiniteSet(Requests), TypeOK, AnnounceInv, [Next]_vars
  PROVE  AnnounceInv'
<1>1. ASSUME NEW s \in Requests, Begin(s) PROVE AnnounceInv'
  <2>1. call[s].at = "idle" /\ writes' = writes /\ owed' = owed
    BY <1>1 DEF Begin, ArmRead, AwayRead, DisarmRead, TriggerRead
  <2>2. PICK where \in {"armApply", "autoCheck", "verify", "disarmApply", "triggerApply"},
             value \in BOOLEAN : Goto(s, At(where, value))
    <3>1. cfg.exit \in BOOLEAN /\ cfg.entry \in BOOLEAN
      BY ConfigsAssumption DEF TypeOK
    <3>2. CASE ArmRead(s)
      BY <3>1, <3>2 DEF ArmRead
    <3>3. CASE AwayRead(s)
      BY <3>3 DEF AwayRead
    <3>4. ASSUME NEW right \in BOOLEAN, DisarmRead(s, right)
          PROVE  \/ Goto(s, At("verify", right))
                 \/ Goto(s, At("disarmApply", right))
      BY <3>4 DEF DisarmRead
    <3>5. ASSUME NEW vital \in BOOLEAN, TriggerRead(s, vital)
          PROVE  \E value \in BOOLEAN : Goto(s, At("triggerApply", value))
      BY <3>1, <3>5 DEF TriggerRead
    <3> HIDE DEF Goto, At
    <3> QED BY <1>1, <3>2, <3>3, <3>4, <3>5 DEF Begin
  <2> DEFINE c == At(where, value)
  <2>3. c \in CallState /\ ~Owes(c) /\ Goto(s, c)
    BY <2>2 DEF Owes
  <2> HIDE DEF c, Goto
  <2> QED BY <2>1, <2>3, GotoAnnounce
<1>2. ASSUME NEW s \in Slots, Continue(s) PROVE AnnounceInv'
  <2>1. CASE ArmApply(s)
    <3>1. CASE MayArm
      <4> DEFINE p == IF call[s].arg THEN "arming" ELSE "armed"
      <4>1. /\ p \in Phases /\ Assign(s, p, "idle", FALSE)
            /\ call[s].at \notin {"persist", "fire"} /\ owed' = owed
        BY <2>1, <3>1 DEF ArmApply
      <4> HIDE DEF p
      <4> QED BY <4>1, AssignAnnounce
    <3>2. CASE ~MayArm
      <4>1. /\ Goto(s, Idle) /\ writes' = writes /\ owed' = owed
            /\ call[s].at \notin {"persist", "fire"}
        BY <2>1, <3>2 DEF ArmApply
      <4>2. Idle \in CallState /\ ~Owes(Idle)
        BY DEF Owes
      <4> QED BY <4>1, <4>2, GotoAnnounce
    <3> QED BY <3>1, <3>2
  <2>2. CASE AwayCheck(s) \/ DisarmVerify(s) \/ SirenCommand(s) \/ SirenObeys(s) \/ SirenFails(s)
    <3>1. call[s].at \notin {"persist", "fire"} /\ writes' = writes /\ owed' = owed
      BY <2>2 DEF AwayCheck, DisarmVerify, SirenCommand, SirenObeys, SirenFails
    <3>2. PICK where \in {"idle", "autoApply", "disarmApply", "sending"}, value \in BOOLEAN :
             Goto(s, At(where, value))
      <4>1. cfg.exit \in BOOLEAN /\ call[s].arg \in BOOLEAN
        BY ConfigsAssumption DEF TypeOK
      <4>2. Idle = At("idle", FALSE)
        OBVIOUS
      <4>3. \/ Goto(s, Idle)
            \/ Goto(s, At("autoApply", cfg.exit))
            \/ Goto(s, At("disarmApply", call[s].arg))
            \/ Goto(s, At("sending", call[s].arg))
        BY <2>2 DEF AwayCheck, DisarmVerify, SirenCommand, SirenObeys, SirenFails
      <4> HIDE DEF Goto, At, Idle
      <4> QED BY <4>1, <4>2, <4>3
    <3> DEFINE c == At(where, value)
    <3>3. c \in CallState /\ ~Owes(c) /\ Goto(s, c)
      BY <3>2 DEF Owes
    <3> HIDE DEF c, Goto
    <3> QED BY <3>1, <3>3, GotoAnnounce
  <2>3. CASE DisarmApply(s)
    <3>1. /\ Assign(s, "disarmed", AfterDisarm, FALSE) /\ owed' = owed
          /\ call[s].at \notin {"persist", "fire"}
          /\ AfterDisarm \in {"idle", "siren"}
      BY <2>3 DEF DisarmApply, AfterDisarm
    <3> HIDE DEF Assign
    <3> QED BY <3>1, AssignAnnounce
  <2>4. CASE TriggerApply(s)
    <3>1. CASE ~CanTrigger
      <4>1. /\ Goto(s, Idle) /\ writes' = writes /\ owed' = owed
            /\ call[s].at \notin {"persist", "fire"}
        BY <2>4, <3>1 DEF TriggerApply
      <4>2. Idle \in CallState /\ ~Owes(Idle)
        BY DEF Owes
      <4> QED BY <4>1, <4>2, GotoAnnounce
    <3>2. CASE CanTrigger /\ call[s].arg
      <4>1. /\ Assign(s, "entry", "idle", FALSE) /\ owed' = owed
            /\ call[s].at \notin {"persist", "fire"}
        BY <2>4, <3>2 DEF TriggerApply
      <4> HIDE DEF Assign
      <4> QED BY <4>1, AssignAnnounce
    <3>3. CASE CanTrigger /\ ~call[s].arg
      <4>1. /\ Assign(s, "triggered", "fire", FALSE) /\ owed' = owed + 1
            /\ call[s].at \notin {"persist", "fire"}
        BY <2>4, <3>3 DEF TriggerApply, CanTrigger
      <4> HIDE DEF Assign
      <4> QED BY <4>1, AssignAnnounce
    <3> QED BY <3>1, <3>2, <3>3
  <2>5. CASE Fire(s)
    <3> DEFINE c == At("siren", TRUE)
    <3>1. c \in CallState /\ ~Owes(c) /\ Goto(s, c)
      BY <2>5 DEF Fire, Owes
    <3>2. call[s].at = "fire" /\ writes' = writes /\ owed' = owed - 1
      BY <2>5 DEF Fire
    <3>3. s \in Owing
      BY <3>2 DEF Owing, Owes
    <3> HIDE DEF c, Goto
    <3>4. Owing' = Owing \ {s}
      BY <3>1, GotoOwing
    <3>5. Cardinality(Owing') = Cardinality(Owing) - 1
      BY <3>3, <3>4, OwingFinite, FS_RemoveElement
    <3> QED BY <3>1, <3>2, <3>5, GotoQueue DEF AnnounceInv
  <2> QED BY <1>2, <2>1, <2>2, <2>3, <2>4, <2>5 DEF Continue
<1>3. CASE Tick
  <2>1. Sweep \in Slots /\ call[Sweep].at \notin {"persist", "fire"}
    BY <1>3 DEF Tick
  <2>2. CASE phase = "arming"
    <3>1. Assign(Sweep, "armed", "idle", FALSE) /\ owed' = owed
      BY <1>3, <2>2 DEF Tick
    <3> HIDE DEF Assign
    <3> QED BY <2>1, <3>1, AssignAnnounce
  <2>3. CASE phase = "entry"
    <3>1. Assign(Sweep, "triggered", "fire", FALSE) /\ owed' = owed + 1
      BY <1>3, <2>3 DEF Tick, AfterEntry
    <3> HIDE DEF Assign
    <3> QED BY <2>1, <3>1, AssignAnnounce
  <2> QED BY <1>3, <2>2, <2>3 DEF Tick
<1>4. ASSUME writes # <<>>, writes' = Tail(writes),
             NEW c \in CallState, Goto(Head(writes).slot, c), c.at # "persist",
             owed' = IF call[Head(writes).slot].next = "fire" /\ ~Owes(c) THEN owed - 1 ELSE owed,
             Owes(c) => call[Head(writes).slot].next = "fire"
      PROVE  AnnounceInv'
  <2> DEFINE h == Head(writes).slot
  <2>1. h \in Slots /\ call[h].at = "persist" /\ QueueInv'
    <3> HIDE DEF Goto
    <3> QED BY <1>4, PopQueue DEF AnnounceInv
  <2>2. h \in Owing <=> call[h].next = "fire"
    BY <2>1 DEF Owing, Owes
  <2>3. Owing' = IF Owes(c) THEN Owing \cup {h} ELSE Owing \ {h}
    <3> HIDE DEF Goto
    <3> QED BY <1>4, <2>1, GotoOwing
  <2>4. owed' = Cardinality(Owing')
    <3>1. owed = Cardinality(Owing)
      BY DEF AnnounceInv
    <3>2. CASE Owes(c)
      <4>1. Owing' = Owing
        BY <1>4, <2>2, <2>3, <3>2
      <4> QED BY <1>4, <3>1, <3>2, <4>1
    <3>3. CASE ~Owes(c) /\ h \in Owing
      <4>1. Cardinality(Owing') = Cardinality(Owing) - 1
        BY <2>3, <3>3, OwingFinite, FS_RemoveElement
      <4> QED BY <1>4, <2>2, <3>1, <3>3, <4>1
    <3>4. CASE ~Owes(c) /\ h \notin Owing
      <4>1. Owing' = Owing
        BY <2>3, <3>4
      <4> QED BY <1>4, <2>2, <3>1, <3>4, <4>1
    <3> QED BY <3>2, <3>3, <3>4
  <2> QED BY <2>1, <2>4 DEF AnnounceInv
<1>5. CASE WriteLands
  <2> DEFINE h == Head(writes).slot
  <2>1. /\ writes # <<>> /\ writes' = Tail(writes) /\ owed' = owed
        /\ Goto(h, Resume(h)) /\ h \in Slots
    BY <1>5, HeadType DEF WriteLands
  <2>2. /\ Resume(h) \in CallState /\ Resume(h).at # "persist"
        /\ Owes(Resume(h)) <=> call[h].next = "fire"
    BY <2>1 DEF Resume, Owes, TypeOK
  <2> HIDE DEF Goto
  <2> QED BY <1>4, <2>1, <2>2
<1>6. CASE WriteFails
  <2> DEFINE h == Head(writes).slot
  <2>1. /\ writes # <<>> /\ writes' = Tail(writes) /\ Goto(h, Idle)
        /\ owed' = IF call[h].next = "fire" THEN owed - 1 ELSE owed
    BY <1>6 DEF WriteFails
  <2>2. Idle \in CallState /\ Idle.at # "persist" /\ ~Owes(Idle)
    BY DEF Owes
  <2> HIDE DEF Goto, Idle
  <2> QED BY <1>4, <2>1, <2>2
<1>7. CASE ClockElapses \/ LateSiren \/ SetConfig \/ Restart \/ UNCHANGED vars
  <2>1. UNCHANGED <<call, writes, owed>>
    BY <1>7 DEF ClockElapses, LateSiren, SetConfig, Restart
  <2>2. Owing' = Owing
    BY <2>1 DEF Owing, Owes
  <2> QED BY <2>1, <2>2 DEF AnnounceInv, QueueInv
<1>8. CASE Crash
  <2>1. writes' = <<>> /\ owed' = 0 /\ call' = [s \in Slots |-> Idle]
    BY <1>8 DEF Crash
  <2>2. Owing' = {}
    BY <2>1 DEF Owing, Owes
  <2>3. Len(writes') = 0
    BY <2>1
  <2> QED BY <2>1, <2>2, <2>3, FS_EmptySet DEF AnnounceInv, QueueInv
<1> QED BY <1>1, <1>2, <1>3, <1>5, <1>6, <1>7, <1>8 DEF Next

\* However many sensors, cameras and sweeps race, and even when writes fail,
\* an entry into `triggered' is never audited twice and, once the calls have
\* finished, never left unaudited.
THEOREM EntriesAnnouncedOnce == IsFiniteSet(Requests) => (Spec => []AnnouncedOnce)
<1> SUFFICES ASSUME IsFiniteSet(Requests) PROVE Spec => []AnnouncedOnce
  OBVIOUS
<1>1. ASSUME Init PROVE AnnounceInv
  <2>1. Owing = {} /\ Len(writes) = 0 /\ owed = 0
    BY <1>1 DEF Init, Owing, Owes
  <2> QED BY <2>1, FS_EmptySet DEF AnnounceInv, QueueInv
<1>2. TypeOK /\ AnnounceInv /\ [Next]_vars => AnnounceInv'
  BY AnnounceStep
<1>3. ASSUME AnnounceInv PROVE AnnouncedOnce
  <2>1. owed \in Nat
    BY <1>3, OwingFinite DEF AnnounceInv
  <2>2. ASSUME Quiet PROVE owed = 0
    <3>1. Owing = {}
      BY <2>2 DEF Quiet, Owing, Owes
    <3> QED BY <1>3, <3>1, FS_EmptySet DEF AnnounceInv
  <2> QED BY <2>1, <2>2 DEF AnnouncedOnce
<1> QED BY <1>1, <1>2, <1>3, TypeCorrect, PTL DEF Spec

-----------------------------------------------------------------------------
(***************************************************************************)
(* A disarm leaves the siren silent.                                       *)
(***************************************************************************)

\* The phases the alarm row has now (0) and will have as the upserts land.
Row(i) == IF i = 0 THEN Rehydrated(saved) ELSE writes[i].phase
Rows == 0 .. Len(writes)

\* A command to sound the siren is on its way; or will be when row i lands.
Heats(c) == c.at \in {"fire", "siren", "sending"} /\ c.arg
Hot == TRUE \in late \/ \E s \in Slots : Heats(call[s])
FiringBehind(i) == Hot \/ \E j \in 1 .. i : call[writes[j].slot].next = "fire"

\* A call that will silence the siren.
Cools(c) == c.next = "siren" \/ (c.at \in {"siren", "sending"} /\ ~c.arg)

\* Only a call that waits for its row has something left to do behind it, and
\* behind a disarm that is to silence the siren; behind a firing, to sound it.
LaterInv ==
  \A s \in Slots : /\ call[s].next # "idle" => call[s].at = "persist"
                   /\ call[s].next = "siren" => ~call[s].arg
                   /\ call[s].at = "fire" => call[s].arg

\* With no siren configured none was ever told anything.
NoSirenInv ==
  cfg.siren \/ (~siren /\ late = {} /\ \A s \in Slots : call[s].at # "sending")

\* Unless a disarm met a firing in flight or died: what may still sound the
\* siren, and the siren that sounds with nobody about to silence it, belong
\* to an alarm whose row says `triggered', now and after every write queued.
FiringInv == ~overtaken => \A i \in Rows : FiringBehind(i) => Row(i) = "triggered"
SoundingInv ==
  ~overtaken /\ siren /\ ~Silencing => \A i \in Rows : Row(i) = "triggered"

SilenceInv == QueueInv /\ LaterInv /\ NoSirenInv /\ FiringInv /\ SoundingInv

\* While the process runs the last of the rows is the phase in memory.
LEMMA LastRow ==
  ASSUME TypeOK, DurableInv, up
  PROVE  Len(writes) \in Rows /\ Row(Len(writes)) = phase
<1>1. writes \in Seq([slot : Slots, phase : Phases]) /\ Len(writes) \in Nat
  BY QueueType DEF TypeOK
<1>2. CASE writes = <<>>
  BY <1>1, <1>2 DEF DurableInv, Row, Rows
<1>3. CASE writes # <<>>
  <2>1. Len(writes) # 0
    BY <1>1, <1>3, EmptySeq
  <2> QED BY <1>1, <1>3, <2>1 DEF DurableInv, Row, Rows
<1> QED BY <1>2, <1>3

\* Unless it is `triggered' nothing fires, and a siren that sounds is about to
\* be silenced.
LEMMA CalmPhase ==
  ASSUME TypeOK, DurableInv, SilenceInv, up, phase # "triggered", ~overtaken
  PROVE  /\ ~Hot /\ \A i \in Rows : ~FiringBehind(i)
         /\ siren => Silencing
<1>1. Len(writes) \in Nat /\ Len(writes) \in Rows /\ Row(Len(writes)) # "triggered"
  BY LastRow, QueueType
<1>2. ~FiringBehind(Len(writes))
  BY <1>1 DEF SilenceInv, FiringInv
<1>3. \A i \in Rows : ~FiringBehind(i)
  <2> SUFFICES ASSUME NEW i \in Rows, FiringBehind(i) PROVE FALSE
    OBVIOUS
  <2>1. 1 .. i \subseteq 1 .. Len(writes)
    BY <1>1 DEF Rows
  <2> QED BY <1>2, <2>1 DEF FiringBehind
<1>4. siren => Silencing
  BY <1>1 DEF SilenceInv, SoundingInv
<1> QED BY <1>2, <1>3, <1>4 DEF FiringBehind

\* A call that moves on without waiting for a row brings no new firing, and
\* forgets the siren only if it is not sounding.
LEMMA CallMoves ==
  ASSUME TypeOK, SilenceInv, NEW s \in Slots, NEW c \in CallState, Goto(s, c),
         call[s].at # "persist", c.at \notin {"persist", "fire"}, c.next = "idle",
         Heats(c) => Heats(call[s]),
         Cools(call[s]) => Cools(c) \/ ~siren,
         c.at = "sending" => cfg.siren,
         UNCHANGED <<cfg, saved, writes, siren, late, overtaken>>
  PROVE  SilenceInv'
<1>1. /\ call'[s] = c
      /\ \A t \in Slots : t # s => call'[t] = call[t]
  BY DEF TypeOK
<1>2. Len(writes) \in Nat /\ \A i \in 1 .. Len(writes) : writes[i].slot \in Slots
  BY QueueType
<1>3. QueueInv'
  BY GotoQueue DEF SilenceInv
<1> HIDE DEF Goto
<1>4. LaterInv' /\ NoSirenInv'
  BY <1>1 DEF SilenceInv, LaterInv, NoSirenInv
<1>5. Hot' => Hot
  BY <1>1 DEF Hot
<1>6. \A i \in 1 .. Len(writes) : call'[writes'[i].slot] = call[writes[i].slot]
  BY <1>1, <1>2 DEF SilenceInv, QueueInv
<1>7. ASSUME NEW i \in Rows, FiringBehind(i)' PROVE FiringBehind(i)
  <2>1. i \in Nat /\ 1 .. i \subseteq 1 .. Len(writes)
    BY <1>2 DEF Rows
  <2>2. CASE Hot'
    BY <1>5, <2>2 DEF FiringBehind
  <2>3. CASE \E j \in 1 .. i : call'[writes'[j].slot].next = "fire"
    BY <1>6, <2>1, <2>3 DEF FiringBehind
  <2> QED BY <1>7, <2>2, <2>3 DEF FiringBehind
<1>8. \A i \in Rows : Row(i)' = Row(i)
  BY DEF Row, Rehydrated
<1>9. Rows' = Rows
  BY DEF Rows
<1>10. FiringInv'
  BY <1>7, <1>8, <1>9 DEF SilenceInv, FiringInv
<1>11. Silencing /\ siren => Silencing'
  BY <1>1 DEF Silencing, Cools
<1>12. SoundingInv'
  BY <1>8, <1>9, <1>11 DEF SilenceInv, SoundingInv
<1> QED BY <1>3, <1>4, <1>10, <1>12 DEF SilenceInv

\* An assignment adds one row, and its call was waiting for nothing.
LEMMA AssignRows ==
  ASSUME TypeOK, QueueInv, NEW s \in Slots, NEW p \in Phases, NEW a \in Afterwards,
         Assign(s, p, a, FALSE), call[s].at # "persist", saved' = saved
  PROVE  /\ Len(writes) \in Nat /\ Len(writes') = Len(writes) + 1
         /\ \A i \in Rows : Row(i)' = Row(i)
         /\ writes'[Len(writes) + 1].phase = p
         /\ \A i \in 1 .. Len(writes) : call'[writes'[i].slot] = call[writes[i].slot]
         /\ writes'[Len(writes) + 1].slot = s
         /\ call'[s] = Persisting(a, FALSE)
         /\ \A t \in Slots : t # s => call'[t] = call[t]
<1> DEFINE w == [slot |-> s, phase |-> p]
<1>1. w \in [slot : Slots, phase : Phases] /\ w.slot = s /\ w.phase = p
  OBVIOUS
<1>2. writes' = Append(writes, w)
  OBVIOUS
<1>3. /\ call'[s] = Persisting(a, FALSE)
      /\ \A t \in Slots : t # s => call'[t] = call[t]
  BY DEF TypeOK
<1> HIDE DEF w, Persisting, Assign
<1>4. /\ Len(writes') = Len(writes) + 1
      /\ \A i \in 1 .. Len(writes) : writes'[i] = writes[i]
      /\ writes'[Len(writes) + 1] = w
  BY <1>1, <1>2, AppendProperties DEF TypeOK
<1>5. Len(writes) \in Nat /\ \A i \in 1 .. Len(writes) : writes[i].slot \in Slots
  BY QueueType
<1>6. \A i \in Rows : Row(i)' = Row(i)
  BY <1>4, <1>5 DEF Row, Rows, Rehydrated
<1>7. \A i \in 1 .. Len(writes) : call'[writes'[i].slot] = call[writes[i].slot]
  <2>1. \A i \in 1 .. Len(writes) : writes[i].slot # s
    BY DEF QueueInv
  <2> QED BY <1>3, <1>4, <1>5, <2>1
<1> QED BY <1>1, <1>3, <1>4, <1>5, <1>6, <1>7

\* Leaving a phase in which nothing fires, or disarming, keeps the rest.
LEMMA AssignRest ==
  ASSUME TypeOK, SilenceInv, NEW s \in Slots, NEW p \in Phases, NEW a \in Afterwards,
         Assign(s, p, a, FALSE), call[s].at \notin {"persist", "fire", "siren", "sending"},
         UNCHANGED Outside
  PROVE  /\ QueueInv' /\ LaterInv' /\ NoSirenInv'
         /\ Hot' => Hot
         /\ Silencing => Silencing'
<1>1. QueueInv'
  BY AssignQueue DEF SilenceInv
<1>2. /\ call'[s] = Persisting(a, FALSE)
      /\ \A t \in Slots : t # s => call'[t] = call[t]
  BY DEF TypeOK
<1> HIDE DEF Assign
<1>3. LaterInv' /\ NoSirenInv'
  BY <1>2 DEF SilenceInv, LaterInv, NoSirenInv
<1>4. Hot' => Hot
  <2>1. ~Heats(call'[s]) /\ late' = late
    BY <1>2 DEF Heats
  <2> QED BY <1>2, <2>1 DEF Hot
<1>5. call[s].next # "siren"
  BY DEF SilenceInv, LaterInv, TypeOK
<1>6. Silencing => Silencing'
  BY <1>2, <1>5 DEF Silencing
<1> QED BY <1>1, <1>3, <1>4, <1>6

\* From a phase other than `triggered' the alarm may arm, count down or go off.
LEMMA CalmAssign ==
  ASSUME TypeOK, DurableInv, SilenceInv, up, phase # "triggered",
         NEW s \in Slots, NEW p \in Phases, NEW a \in {"idle", "fire"},
         Assign(s, p, a, FALSE), a = "fire" => p = "triggered",
         call[s].at \notin {"persist", "fire", "siren", "sending"},
         UNCHANGED <<overtaken, Outside>>
  PROVE  SilenceInv'
<1>1. /\ QueueInv' /\ LaterInv' /\ NoSirenInv'
      /\ Hot' => Hot
      /\ Silencing => Silencing'
  BY AssignRest
<1>2. ~overtaken => ~Hot /\ (\A i \in Rows : ~FiringBehind(i)) /\ (siren => Silencing)
  BY CalmPhase
<1>3. QueueInv /\ saved' = saved /\ a \in Afterwards
  BY DEF SilenceInv
<1> HIDE DEF Assign, Outside
<1>4. /\ Len(writes) \in Nat /\ Len(writes') = Len(writes) + 1
      /\ \A i \in Rows : Row(i)' = Row(i)
      /\ writes'[Len(writes) + 1].phase = p
      /\ \A i \in 1 .. Len(writes) : call'[writes'[i].slot] = call[writes[i].slot]
      /\ writes'[Len(writes) + 1].slot = s
      /\ call'[s].next = a
  <2>1. call[s].at # "persist"
    OBVIOUS
  <2>2. call'[s] = Persisting(a, FALSE)
    BY <1>3, <2>1, AssignRows
  <2>3. Persisting(a, FALSE).next = a
    OBVIOUS
  <2> HIDE DEF Persisting, Slots, Phases, Afterwards
  <2> QED BY <1>3, <2>1, <2>2, <2>3, AssignRows
<1>5. Len(writes) \in Nat
  BY <1>4
<1>6. FiringInv'
  <2> SUFFICES ASSUME ~overtaken, NEW i \in 0 .. (Len(writes) + 1), FiringBehind(i)'
               PROVE  Row(i)' = "triggered"
    BY <1>4 DEF FiringInv, Rows
  <2>1. PICK j \in 1 .. i : call'[writes'[j].slot].next = "fire"
    BY <1>1, <1>2 DEF FiringBehind
  <2>2. j \notin 1 .. Len(writes)
    <3> SUFFICES ASSUME j \in 1 .. Len(writes) PROVE FALSE
      OBVIOUS
    <3>1. call[writes[j].slot].next = "fire" /\ j \in 1 .. j /\ j \in Rows
      BY <1>4, <2>1 DEF Rows
    <3> QED BY <1>2, <3>1 DEF FiringBehind
  <2>3. j = Len(writes) + 1 /\ i = Len(writes) + 1
    BY <1>5, <2>2
  <2>4. writes'[i].phase = "triggered" /\ i # 0
    BY <1>4, <1>5, <2>1, <2>3
  <2> QED BY <2>4 DEF Row
<1>7. SoundingInv'
  BY <1>1, <1>2 DEF SoundingInv, Outside
<1> QED BY <1>1, <1>6, <1>7 DEF SilenceInv

\* A disarm that meets no firing leaves nothing that fires; an active alarm is
\* about to be silenced, and an inactive one was silent or about to be.
LEMMA DisarmSilence ==
  ASSUME TypeOK, DurableInv, SilenceInv, up, NEW s \in Slots, DisarmApply(s)
  PROVE  SilenceInv'
<1> DEFINE a == AfterDisarm
<1>1. /\ Assign(s, "disarmed", a, FALSE) /\ UNCHANGED Outside
      /\ call[s].at = "disarmApply"
      /\ overtaken' = (Firing \/ (overtaken /\ ~IsActive(phase)))
  BY DEF DisarmApply
<1>2. a \in Afterwards /\ a # "fire" /\ (IsActive(phase) => a = "siren")
  BY DEF AfterDisarm
<1> HIDE DEF a
<1> HIDE DEF Assign
<1>3. /\ QueueInv' /\ LaterInv' /\ NoSirenInv'
      /\ Hot' => Hot
      /\ Silencing => Silencing'
  BY <1>1, <1>2, AssignRest
<1>4. /\ Len(writes) \in Nat /\ Len(writes') = Len(writes) + 1
      /\ \A i \in Rows : Row(i)' = Row(i)
      /\ \A i \in 1 .. Len(writes) : call'[writes'[i].slot] = call[writes[i].slot]
      /\ writes'[Len(writes) + 1].slot = s
      /\ call'[s].next = a
  <2>1. QueueInv /\ saved' = saved /\ call[s].at # "persist"
    BY <1>1 DEF SilenceInv
  <2>2. call'[s] = Persisting(a, FALSE)
    BY <1>1, <1>2, <2>1, AssignRows
  <2>3. Persisting(a, FALSE).next = a /\ "disarmed" \in Phases
    OBVIOUS
  <2> HIDE DEF Persisting, Slots, Phases, Afterwards
  <2> QED BY <1>1, <1>2, <2>1, <2>2, <2>3, AssignRows
<1>5. \A i \in 1 .. Len(writes) : writes[i].slot \in Slots
  BY QueueType
<1>6. FiringInv'
  <2> SUFFICES ASSUME ~overtaken', NEW i \in 0 .. (Len(writes) + 1), FiringBehind(i)'
               PROVE  FALSE
    BY <1>4 DEF FiringInv, Rows
  <2>1. ~Firing
    BY <1>1
  <2>2. ~Hot
    BY <2>1 DEF Firing, Hot, Heats
  <2>3. PICK j \in 1 .. i : call'[writes'[j].slot].next = "fire"
    BY <1>3, <2>2 DEF FiringBehind
  <2>4. CASE j \in 1 .. Len(writes)
    BY <1>4, <1>5, <2>1, <2>3, <2>4 DEF Firing
  <2>5. CASE j = Len(writes) + 1
    BY <1>2, <1>4, <2>3, <2>5
  <2> QED BY <1>4, <2>4, <2>5
<1>7. SoundingInv'
  <2> SUFFICES ASSUME ~overtaken', siren', ~Silencing' PROVE FALSE
    BY DEF SoundingInv
  <2>1. CASE IsActive(phase)
    BY <1>2, <1>4, <2>1 DEF Silencing
  <2>2. CASE ~IsActive(phase)
    <3>1. phase # "triggered" /\ ~overtaken /\ siren
      BY <1>1, <2>2 DEF IsActive
    <3>2. Silencing
      BY <3>1, CalmPhase
    <3> QED BY <1>3, <3>2
  <2> QED BY <2>1, <2>2
<1> QED BY <1>3, <1>6, <1>7 DEF SilenceInv

\* A written row brings nothing that was not behind it, and its call goes on to
\* do what it had left to do.
LEMMA LandSilence ==
  ASSUME TypeOK, SilenceInv, WriteLands
  PROVE  SilenceInv'
<1> DEFINE h == Head(writes).slot
<1>1. /\ writes # <<>> /\ writes' = Tail(writes) /\ saved' = writes[1].phase
      /\ UNCHANGED <<cfg, siren, late, overtaken>>
      /\ h \in Slots /\ Head(writes).phase \in Phases
  BY HeadType DEF WriteLands
<1> DEFINE c == Resume(h)
<1>2. /\ Goto(h, c) /\ c \in CallState
      /\ \A t \in Slots : t # h => call'[t] = call[t]
      /\ call'[h] = c
  BY <1>1, ResumeType DEF WriteLands, TypeOK
<1>3. QueueInv
  BY DEF SilenceInv
<1> HIDE DEF c, Goto
<1>4. /\ QueueInv' /\ Len(writes) \in Nat \ {0} /\ Len(writes') = Len(writes) - 1
      /\ \A i \in 1 .. Len(writes') :
           /\ writes'[i] = writes[i + 1]
           /\ call'[writes'[i].slot] = call[writes'[i].slot]
  BY <1>1, <1>2, <1>3, PopQueue
<1>5. /\ call[h].at = "persist"
      /\ Heats(c) <=> call[h].next = "fire"
      /\ call[h].next = "siren" => Cools(c)
      /\ c.next = "idle" /\ c.at # "sending" /\ (c.at = "fire" => c.arg)
  <2>1. call[h].at = "persist" /\ call[h].next \in Afterwards
    BY <1>1, <1>2, <1>3, PopQueue DEF TypeOK
  <2>2. call[h].next = "siren" => ~call[h].arg
    BY <1>1 DEF SilenceInv, LaterInv
  <2> QED BY <2>1, <2>2 DEF Resume, c, Heats, Cools
<1> HIDE DEF h
<1>6. LaterInv' /\ NoSirenInv'
  BY <1>1, <1>2, <1>5 DEF SilenceInv, LaterInv, NoSirenInv
<1>7. Silencing => Silencing'
  BY <1>1, <1>2, <1>5 DEF Silencing, Cools
<1>8. ASSUME NEW i \in Rows'
      PROVE  i + 1 \in Rows /\ Row(i)' = Row(i + 1)
  <2>1. i \in Nat /\ i + 1 \in Rows /\ i + 1 # 0
    BY <1>4 DEF Rows
  <2>2. CASE i = 0
    <3>1. saved' = Row(i + 1) /\ saved' \in Phases
      BY <1>1, <2>1, <2>2 DEF Row
    <3> QED BY <2>1, <2>2, <3>1 DEF Row, Rehydrated
  <2>3. CASE i # 0
    <3>1. i \in 1 .. Len(writes')
      BY <2>1, <2>3 DEF Rows
    <3> QED BY <1>4, <2>1, <2>3, <3>1 DEF Row
  <2> QED BY <2>1, <2>2, <2>3
<1>9. writes[1].slot = h
  BY <1>1 DEF h
<1>10. ASSUME NEW i \in Rows', FiringBehind(i)'
       PROVE  FiringBehind(i + 1)
  <2>1. i \in Nat /\ 1 .. i \subseteq 1 .. Len(writes')
    BY <1>4 DEF Rows
  <2>2. CASE Hot'
    <3>1. Hot \/ call[h].next = "fire"
      BY <1>1, <1>2, <1>5, <2>2 DEF Hot
    <3>2. 1 \in 1 .. (i + 1)
      BY <2>1
    <3> QED BY <1>9, <3>1, <3>2 DEF FiringBehind
  <2>3. ASSUME NEW j \in 1 .. i, call'[writes'[j].slot].next = "fire"
        PROVE  FiringBehind(i + 1)
    <3>1. j + 1 \in 1 .. (i + 1)
      BY <2>1
    <3>2. call[writes[j + 1].slot].next = "fire"
      BY <1>4, <2>1, <2>3
    <3> QED BY <3>1, <3>2 DEF FiringBehind
  <2>4. Hot' \/ \E j \in 1 .. i : call'[writes'[j].slot].next = "fire"
    BY <1>10 DEF FiringBehind
  <2> QED BY <2>2, <2>3, <2>4
<1>11. FiringInv'
  BY <1>1, <1>8, <1>10 DEF SilenceInv, FiringInv
<1>12. SoundingInv'
  BY <1>1, <1>7, <1>8 DEF SilenceInv, SoundingInv
<1> QED BY <1>4, <1>6, <1>11, <1>12 DEF SilenceInv

\* A siren that is turned on was told by an alarm that is triggered; one that is
\* turned off sounds no more.
LEMMA SirenMoves ==
  ASSUME TypeOK, SilenceInv, siren' => Hot \/ (siren /\ (Silencing => Silencing')), Hot' => Hot,
         \A s \in Slots : call'[s] = call[s] \/ (call[s].at # "persist" /\ call'[s] = Idle),
         late' \subseteq late, cfg.siren \/ ~siren',
         UNCHANGED <<cfg, saved, writes, overtaken>>
  PROVE  SilenceInv'
<1>1. Len(writes) \in Nat /\ \A i \in 1 .. Len(writes) : writes[i].slot \in Slots
  BY QueueType
<1>2. \A i \in 1 .. Len(writes) : call'[writes'[i].slot] = call[writes[i].slot]
  BY <1>1 DEF SilenceInv, QueueInv
<1>3. QueueInv'
  BY <1>1, <1>2 DEF SilenceInv, QueueInv
<1>4. LaterInv'
  BY DEF SilenceInv, LaterInv
<1>5. NoSirenInv'
  BY DEF SilenceInv, NoSirenInv
<1>6. ASSUME NEW i \in Rows, FiringBehind(i)' PROVE FiringBehind(i)
  <2>1. 1 .. i \subseteq 1 .. Len(writes)
    BY <1>1 DEF Rows
  <2> QED BY <1>2, <1>6, <2>1 DEF FiringBehind
<1>7. Rows' = Rows /\ \A i \in Rows : Row(i)' = Row(i)
  BY DEF Row, Rows, Rehydrated
<1>8. FiringInv'
  BY <1>6, <1>7 DEF SilenceInv, FiringInv
<1>9. SoundingInv'
  BY <1>7 DEF SilenceInv, SoundingInv, FiringInv, FiringBehind
<1> QED BY <1>3, <1>4, <1>5, <1>8, <1>9 DEF SilenceInv

\* A step of a running call keeps SilenceInv when the siren answers.
LEMMA ContinueSilence ==
  ASSUME ~IotFails, TypeOK, DurableInv, SilenceInv, up, NEW s \in Slots, Continue(s)
  PROVE  SilenceInv'
<1>0. /\ Idle \in CallState /\ ~Heats(Idle) /\ cfg.exit \in BOOLEAN
      /\ call[s].arg \in BOOLEAN /\ call[s].next \in Afterwards
      /\ call[s].at # "persist" => call[s].next = "idle"
  BY ConfigsAssumption DEF Heats, TypeOK, SilenceInv, LaterInv
<1>1. CASE ArmApply(s)
  <2>1. CASE MayArm
    <3> DEFINE p == IF call[s].arg THEN "arming" ELSE "armed"
    <3>1. /\ p \in Phases /\ Assign(s, p, "idle", FALSE) /\ phase # "triggered"
          /\ call[s].at \notin {"persist", "fire", "siren", "sending"}
          /\ UNCHANGED <<overtaken, Outside>>
      BY <1>1, <2>1 DEF ArmApply, MayArm
    <3> HIDE DEF p, Assign, Outside
    <3> QED BY <3>1, CalmAssign
  <2>2. CASE ~MayArm
    <3>1. /\ Goto(s, Idle) /\ call[s].at \in {"armApply", "autoApply"}
          /\ UNCHANGED <<cfg, saved, writes, siren, late, overtaken>>
      BY <1>1, <2>2 DEF ArmApply
    <3>2. ~Cools(call[s])
      BY <1>0, <3>1 DEF Cools
    <3> HIDE DEF Goto
    <3> QED BY <1>0, <3>1, <3>2, CallMoves
  <2> QED BY <2>1, <2>2
<1>2. CASE AwayCheck(s) \/ DisarmVerify(s)
  <2>1. /\ call[s].at \in {"autoCheck", "verify"}
        /\ UNCHANGED <<cfg, saved, writes, siren, late, overtaken>>
    BY <1>2 DEF AwayCheck, DisarmVerify
  <2>2. PICK where \in {"idle", "autoApply", "disarmApply"}, value \in BOOLEAN :
           Goto(s, At(where, value))
    <3>1. Idle = At("idle", FALSE)
      OBVIOUS
    <3>2. \/ Goto(s, Idle)
          \/ Goto(s, At("autoApply", cfg.exit))
          \/ Goto(s, At("disarmApply", call[s].arg))
      BY <1>2 DEF AwayCheck, DisarmVerify
    <3> HIDE DEF Goto, At, Idle
    <3> QED BY <1>0, <3>1, <3>2
  <2> DEFINE c == At(where, value)
  <2>3. /\ c \in CallState /\ c.at \notin {"persist", "fire", "sending"} /\ c.next = "idle"
        /\ ~Heats(c)
    BY DEF Heats
  <2>4. ~Cools(call[s])
    BY <1>0, <2>1 DEF Cools
  <2> HIDE DEF c, Goto
  <2>5. Goto(s, c)
    BY <2>2 DEF c
  <2> QED BY <2>1, <2>3, <2>4, <2>5, CallMoves
<1>3. CASE DisarmApply(s)
  BY <1>3, DisarmSilence
<1>4. CASE TriggerApply(s)
  <2>1. CASE ~CanTrigger
    <3>1. /\ Goto(s, Idle) /\ call[s].at = "triggerApply"
          /\ UNCHANGED <<cfg, saved, writes, siren, late, overtaken>>
      BY <1>4, <2>1 DEF TriggerApply
    <3>2. ~Cools(call[s])
      BY <1>0, <3>1 DEF Cools
    <3> HIDE DEF Goto
    <3> QED BY <1>0, <3>1, <3>2, CallMoves
  <2>2. CASE CanTrigger
    <3>1. /\ \/ Assign(s, "entry", "idle", FALSE)
             \/ Assign(s, "triggered", "fire", FALSE)
          /\ phase # "triggered" /\ UNCHANGED <<overtaken, Outside>>
          /\ call[s].at \notin {"persist", "fire", "siren", "sending"}
      BY <1>4, <2>2 DEF TriggerApply, CanTrigger
    <3>2. "entry" \in Phases /\ "triggered" \in Phases
      OBVIOUS
    <3> HIDE DEF Assign, Outside, Phases
    <3> QED BY <3>1, <3>2, CalmAssign
  <2> QED BY <2>1, <2>2
<1>5. CASE Fire(s) \/ SirenCommand(s)
  <2>1. /\ call[s].at \in {"fire", "siren"}
        /\ UNCHANGED <<cfg, saved, writes, siren, late, overtaken>>
    BY <1>5 DEF Fire, SirenCommand
  <2>2. CASE Fire(s)
    <3> DEFINE c == At("siren", TRUE)
    <3>1. /\ call[s].at = "fire" /\ Goto(s, c)
      BY <2>2 DEF Fire
    <3>2. c \in CallState /\ c.at = "siren" /\ c.next = "idle"
      OBVIOUS
    <3>3. ~Cools(call[s])
      BY <1>0, <3>1 DEF Cools
    <3>4. Heats(call[s])
      BY <3>1 DEF SilenceInv, LaterInv, Heats
    <3> HIDE DEF c, Goto
    <3> QED BY <2>1, <3>1, <3>2, <3>3, <3>4, CallMoves
  <2>3. CASE SirenCommand(s) /\ cfg.siren
    <3> DEFINE c == At("sending", call[s].arg)
    <3>1. Goto(s, c) /\ call[s].at = "siren"
      BY <2>3 DEF SirenCommand
    <3>2. /\ c \in CallState /\ c.at = "sending" /\ c.next = "idle"
          /\ Heats(c) => Heats(call[s])
          /\ Cools(call[s]) => Cools(c)
      BY <1>0, <3>1 DEF Heats, Cools
    <3> HIDE DEF c, Goto
    <3> QED BY <2>1, <2>3, <3>1, <3>2, CallMoves
  <2>4. CASE SirenCommand(s) /\ ~cfg.siren
    <3>1. Goto(s, Idle) /\ ~siren
      BY <2>4 DEF SirenCommand, SilenceInv, NoSirenInv
    <3> HIDE DEF Goto
    <3> QED BY <1>0, <2>1, <3>1, CallMoves
  <2> QED BY <1>5, <2>2, <2>3, <2>4
<1>6. CASE SirenObeys(s)
  <2>1. /\ call[s].at = "sending" /\ siren' = call[s].arg
        /\ UNCHANGED <<cfg, saved, writes, late, overtaken>>
        /\ call'[s] = Idle /\ \A t \in Slots : t # s => call'[t] = call[t]
    BY <1>6 DEF SirenObeys, TypeOK
  <2>2. siren' => Hot
    BY <2>1 DEF Hot, Heats
  <2>3. Hot' => Hot
    BY <1>0, <2>1 DEF Hot
  <2>4. cfg.siren
    BY <2>1 DEF SilenceInv, NoSirenInv
  <2> HIDE DEF Idle
  <2> QED BY <2>1, <2>2, <2>3, <2>4, SirenMoves
<1>7. CASE SirenFails(s)
  BY <1>7 DEF SirenFails
<1> QED BY <1>1, <1>2, <1>3, <1>4, <1>5, <1>6, <1>7 DEF Continue

\* When writes and commands succeed and the configuration stays as it is, every
\* step keeps SilenceInv, crashes and restarts included.
LEMMA SilenceStep ==
  ASSUME ~DbFails, ~IotFails, ~ConfigChanges,
         TypeOK, DurableInv, SilenceInv, [Next]_vars
  PROVE  SilenceInv'
<1>1. ASSUME up, NEW s \in Requests, Begin(s) PROVE SilenceInv'
  <2>1. /\ call[s].at = "idle" /\ s \in Slots
        /\ UNCHANGED <<cfg, saved, writes, siren, late, overtaken>>
    BY <1>1 DEF Begin, ArmRead, AwayRead, DisarmRead, TriggerRead
  <2>2. PICK where \in {"armApply", "autoCheck", "verify", "disarmApply", "triggerApply"},
             value \in BOOLEAN : Goto(s, At(where, value))
    <3>1. cfg.exit \in BOOLEAN /\ cfg.entry \in BOOLEAN
      BY ConfigsAssumption DEF TypeOK
    <3>2. CASE ArmRead(s)
      BY <3>1, <3>2 DEF ArmRead
    <3>3. CASE AwayRead(s)
      BY <3>3 DEF AwayRead
    <3>4. ASSUME NEW right \in BOOLEAN, DisarmRead(s, right)
          PROVE  \/ Goto(s, At("verify", right))
                 \/ Goto(s, At("disarmApply", right))
      BY <3>4 DEF DisarmRead
    <3>5. ASSUME NEW vital \in BOOLEAN, TriggerRead(s, vital)
          PROVE  \E value \in BOOLEAN : Goto(s, At("triggerApply", value))
      BY <3>1, <3>5 DEF TriggerRead
    <3> HIDE DEF Goto, At
    <3> QED BY <1>1, <3>2, <3>3, <3>4, <3>5 DEF Begin
  <2> DEFINE c == At(where, value)
  <2>3. /\ c \in CallState /\ c.at \notin {"persist", "fire", "sending"}
        /\ c.next = "idle" /\ ~Heats(c)
    BY DEF Heats
  <2>4. ~Cools(call[s])
    BY <2>1 DEF Cools, SilenceInv, LaterInv
  <2>5. Goto(s, c)
    BY <2>2
  <2> HIDE DEF c, Goto
  <2> QED BY <2>1, <2>3, <2>4, <2>5, CallMoves
<1>2. CASE up /\ Tick
  <2>1. /\ \/ Assign(Sweep, "armed", "idle", FALSE)
           \/ Assign(Sweep, "triggered", "fire", FALSE)
        /\ phase # "triggered" /\ UNCHANGED <<overtaken, Outside>>
        /\ call[Sweep].at \notin {"persist", "fire", "siren", "sending"}
    BY <1>2 DEF Tick, AfterEntry
  <2>2. "armed" \in Phases /\ "triggered" \in Phases /\ Sweep \in Slots /\ up
    BY <1>2
  <2> HIDE DEF Assign, Outside, Phases, Slots
  <2> QED BY <2>1, <2>2, CalmAssign
<1>3. CASE LateSiren
  <2>1. PICK on \in late : late' = late \ {on} /\ siren' \in {siren, on}
    BY <1>3 DEF LateSiren
  <2>2. UNCHANGED <<cfg, saved, writes, call, overtaken>>
    BY <1>3 DEF LateSiren
  <2>3. cfg.siren /\ on \in BOOLEAN /\ siren \in BOOLEAN
    BY <2>1 DEF SilenceInv, NoSirenInv, TypeOK
  <2>4. (Hot' => Hot) /\ (Silencing => Silencing')
    BY <2>1, <2>2 DEF Hot, Silencing
  <2>5. siren' => Hot \/ (siren /\ (Silencing => Silencing'))
    BY <2>1, <2>3, <2>4 DEF Hot
  <2> QED BY <2>1, <2>2, <2>3, <2>4, <2>5, SirenMoves
<1>4. CASE ClockElapses \/ Restart \/ UNCHANGED vars
  <2>1. /\ UNCHANGED <<cfg, saved, writes, call, late, siren, overtaken>>
    BY <1>4 DEF ClockElapses, Restart
  <2> QED BY <2>1
          DEF SilenceInv, QueueInv, LaterInv, NoSirenInv, FiringInv, SoundingInv, Rows, Row,
              Rehydrated, FiringBehind, Hot, Silencing
<1>5. CASE Crash
  <2>1. /\ writes' = <<>> /\ UNCHANGED <<cfg, saved, siren>>
        /\ \A s \in Slots : call'[s] = Idle
        /\ overtaken' = (overtaken \/ Silencing)
        /\ late' = late \cup {call[s].arg : s \in {t \in Slots : call[t].at = "sending"}}
    BY <1>5 DEF Crash
  <2>2. Len(writes') = 0 /\ Rows' = {0} /\ Row(0)' = Row(0) /\ 0 \in Rows
    BY <2>1, QueueType DEF Rows, Row, Rehydrated
  <2>3. QueueInv' /\ LaterInv' /\ NoSirenInv'
    BY <2>1, <2>2 DEF SilenceInv, QueueInv, LaterInv, NoSirenInv
  <2>4. Hot' => Hot
    <3>1. ~\E s \in Slots : Heats(call'[s])
      BY <2>1 DEF Heats
    <3>2. TRUE \in late' => TRUE \in late \/ \E s \in Slots : call[s].at = "sending" /\ call[s].arg
      BY <2>1
    <3> QED BY <3>1, <3>2 DEF Hot, Heats
  <2>5. FiringInv'
    <3> SUFFICES ASSUME ~overtaken, FiringBehind(0)' PROVE Row(0) = "triggered"
      BY <2>1, <2>2 DEF FiringInv
    <3>1. FiringBehind(0)
      BY <2>4 DEF FiringBehind
    <3> QED BY <2>2, <3>1 DEF SilenceInv, FiringInv
  <2>6. SoundingInv'
    BY <2>1, <2>2 DEF SilenceInv, SoundingInv
  <2> QED BY <2>3, <2>5, <2>6 DEF SilenceInv
<1>6. ~WriteFails /\ ~SetConfig
  BY DEF WriteFails, SetConfig
<1> QED BY <1>1, <1>2, <1>3, <1>4, <1>5, <1>6, ContinueSilence, LandSilence DEF Next

\* When writes and siren commands succeed and nobody edits the configuration,
\* a disarm leaves the siren silent: whatever calls, sweeps and crashes came
\* in between, only a firing it met in flight, or its own death, can keep it
\* sounding (disarmAlarm, fireActions).
THEOREM DisarmedIsSilent ==
  ~DbFails /\ ~IotFails /\ ~ConfigChanges => (Spec => []DisarmSilences)
<1> SUFFICES ASSUME ~DbFails, ~IotFails, ~ConfigChanges PROVE Spec => []DisarmSilences
  OBVIOUS
<1>1. ASSUME Init PROVE DurableInv /\ SilenceInv
  <2>1. /\ writes = <<>> /\ late = {} /\ ~siren /\ up /\ phase = "disarmed" /\ saved = "none"
        /\ \A s \in Slots : call[s] = Idle
    BY <1>1 DEF Init
  <2>2. Len(writes) = 0 /\ Rows = {0}
    BY <2>1 DEF Rows
  <2>3. ~FiringBehind(0)
    BY <2>1 DEF FiringBehind, Hot, Heats
  <2>4. QueueInv /\ LaterInv /\ NoSirenInv
    BY <2>1, <2>2 DEF QueueInv, LaterInv, NoSirenInv
  <2>5. FiringInv /\ SoundingInv
    BY <2>1, <2>2, <2>3 DEF FiringInv, SoundingInv
  <2> QED BY <2>1, <2>4, <2>5 DEF DurableInv, Rehydrated, SilenceInv
<1>2. TypeOK /\ DurableInv /\ SilenceInv /\ [Next]_vars => DurableInv' /\ SilenceInv'
  BY DurableStep, SilenceStep
<1>3. ASSUME TypeOK, DurableInv, SilenceInv PROVE DisarmSilences
  <2> SUFFICES ASSUME Quiet, phase = "disarmed", ~overtaken, siren PROVE FALSE
    BY DEF DisarmSilences
  <2>1. ~Silencing /\ up
    BY DEF Quiet, Silencing
  <2> QED BY <1>3, <2>1, CalmPhase
<1> QED BY <1>1, <1>2, <1>3, TypeCorrect, PTL DEF Spec

-----------------------------------------------------------------------------
(***************************************************************************)
(* The fail-safe: an outage that lasts is announced once.                  *)
(***************************************************************************)

Checks == [at : {"idle", "config", "list", "apply"}, activa : BOOLEAN,
           failing : SUBSET Backends, down : SUBSET Devices]

FailSafeTypeOK ==
  /\ stance \in {"disarmed", "arming", "active"}
  /\ down \subseteq Devices /\ failing \subseteq Backends
  /\ check \in Checks
  /\ faultNotified \subseteq Sensors /\ faultNotifiedVital \subseteq Smokes
  /\ faultNotifiedBackend \subseteq Backends /\ iotOutageNotified \in BOOLEAN
  /\ told \subseteq Outages

\* What was announced, and is not over, is still in the marks of the service.
Remembered ==
  /\ \A d \in Sensors : <<"sensor", d>> \in told => d \in faultNotified
  /\ \A d \in Smokes : <<"smoke", d>> \in told => d \in faultNotifiedVital
  /\ \A b \in Backends : <<"backend", b>> \in told => b \in faultNotifiedBackend
  /\ <<"iot", "all">> \in told => iotOutageNotified

\* The list about to be applied shows all that was announced.
SeenInList == check.at = "apply" =>
  /\ \A d \in Sensors : <<"sensor", d>> \in told =>
       d \in check.down \/ BackendOf[d] \in check.failing
  /\ \A d \in Smokes : <<"smoke", d>> \in told =>
       d \in check.down \/ BackendOf[d] \in check.failing
  /\ \A b \in Backends : <<"backend", b>> \in told => b \in check.failing
  /\ <<"iot", "all">> \in told => Failed

\* The inductive invariant.
IInv == FailSafeTypeOK /\ Remembered /\ SeenInList

-----------------------------------------------------------------------------
LEMMA InitInvariant == FailSafeInit => IInv
<1> SUFFICES ASSUME FailSafeInit PROVE IInv
  OBVIOUS
<1>1. FailSafeTypeOK
  BY DEF FailSafeInit, FailSafeTypeOK, NoCheck, Checks
<1>2. Remembered /\ SeenInList
  BY DEF FailSafeInit, Remembered, SeenInList, NoCheck
<1> QED BY <1>1, <1>2 DEF IInv

\* A step outside the check forgets announcements and the marks of sensors at
\* most, and those together.
LEMMA OutsideStep ==
  ASSUME IInv, told' \subseteq told,
         UNCHANGED <<check, faultNotifiedVital, faultNotifiedBackend, iotOutageNotified>>,
         \/ UNCHANGED faultNotified
         \/ faultNotified' = {} /\ \A d \in Sensors : <<"sensor", d>> \notin told',
         stance' \in {"disarmed", "arming", "active"},
         down' \subseteq Devices, failing' \subseteq Backends
  PROVE  IInv'
<1>1. FailSafeTypeOK'
  BY DEF IInv, FailSafeTypeOK
<1>2. Remembered'
  BY DEF IInv, Remembered
<1>3. SeenInList'
  BY DEF IInv, SeenInList, Failed
<1> QED BY <1>1, <1>2, <1>3 DEF IInv

LEMMA ForgetsSensors ==
  ASSUME NEW S
  PROVE  \A d \in Sensors : /\ <<"sensor", d>> \notin S \ OfArming
                            /\ <<"sensor", d>> \notin S \ ({"sensor"} \X Sensors)
  BY DEF OfArming

LEMMA AlarmStep ==
  ASSUME IInv, ExitDelayEnds \/ Disarm \/ \E p \in {"arming", "active"} : Arm(p)
  PROVE  IInv'
<1>1. CASE ExitDelayEnds
  BY <1>1, OutsideStep DEF ExitDelayEnds, notified, IInv, FailSafeTypeOK
<1>2. CASE Disarm
  BY <1>2, OutsideStep, ForgetsSensors DEF Disarm, Forgotten, IInv, FailSafeTypeOK
<1>3. ASSUME NEW p \in {"arming", "active"}, Arm(p)
      PROVE  IInv'
  BY <1>3, OutsideStep, ForgetsSensors DEF Arm, Forgotten, IInv, FailSafeTypeOK
<1> QED BY <1>1, <1>2, <1>3

LEMMA WorldStep ==
  ASSUME IInv,
         (\E d \in Devices : DeviceMoves(d))
           \/ \E b \in Backends : BackendFails(b) \/ BackendAnswers(b)
  PROVE  IInv'
<1>1. ASSUME NEW d \in Devices, DeviceMoves(d)
      PROVE  IInv'
  BY <1>1, OutsideStep DEF DeviceMoves, notified, IInv, FailSafeTypeOK
<1>2. ASSUME NEW b \in Backends, BackendFails(b) \/ BackendAnswers(b)
      PROVE  IInv'
  BY <1>2, OutsideStep DEF BackendFails, BackendAnswers, notified, IInv, FailSafeTypeOK
<1> QED BY <1>1, <1>2

LEMMA CheckStartsStep ==
  ASSUME IInv, CheckStarts
  PROVE  IInv'
<1>1. /\ check' \in Checks /\ check'.at = "config"
      /\ UNCHANGED <<stance, down, failing, faultNotifiedVital, faultNotifiedBackend>>
  BY DEF CheckStarts, NoCheck, Checks
<1>2. CASE stance = "active"
  <2>1. UNCHANGED <<faultNotified, told>> /\ iotOutageNotified' = iotOutageNotified
    BY <1>2 DEF CheckStarts, OutageRearmed, IInv, FailSafeTypeOK
  <2> QED BY <1>1, <2>1 DEF IInv, FailSafeTypeOK, Remembered, SeenInList
<1>3. CASE stance # "active"
  <2>1. faultNotified' = {} /\ told' = told \ OfArming /\ iotOutageNotified' = FALSE
    BY <1>3 DEF CheckStarts, OutageRearmed
  <2>2. <<"iot", "all">> \notin told' /\ \A d \in Sensors : <<"sensor", d>> \notin told'
    BY <2>1 DEF OfArming
  <2>3. Remembered'
    BY <1>1, <2>1, <2>2 DEF IInv, Remembered
  <2> QED BY <1>1, <2>1, <2>3 DEF IInv, FailSafeTypeOK, SeenInList
<1> QED BY <1>2, <1>3

LEMMA ConfigReadStep ==
  ASSUME IInv, ConfigRead
  PROVE  IInv'
<1>1. /\ check' \in Checks /\ check'.at = "list"
      /\ UNCHANGED <<stance, down, failing, notified, told>>
  BY DEF ConfigRead, Checks, IInv, FailSafeTypeOK
<1> QED BY <1>1 DEF IInv, FailSafeTypeOK, Remembered, SeenInList, notified

\* What the list does not show any longer is forgotten.
LEMMA ListReadStep ==
  ASSUME IInv, ListRead
  PROVE  IInv'
<1>1. /\ check' \in Checks /\ check'.failing = failing /\ check'.down = down
      /\ told' = {o \in told : Lasts(o)}
      /\ UNCHANGED <<stance, down, failing, notified>>
  BY DEF ListRead, Checks, IInv, FailSafeTypeOK
<1>2. FailSafeTypeOK' /\ Remembered'
  BY <1>1 DEF IInv, FailSafeTypeOK, Remembered, notified
<1>3. SeenInList'
  BY <1>1 DEF SeenInList, Lasts, Lost, Unreadable, Failed
<1> QED BY <1>2, <1>3 DEF IInv

LEMMA CheckAppliesStep ==
  ASSUME IInv, CheckApplies
  PROVE  IInv'
<1>1. /\ check.at = "apply" /\ check' = NoCheck /\ told' = told \cup News
      /\ UNCHANGED <<stance, down, failing>>
      /\ FailSafeTypeOK /\ Remembered /\ SeenInList
  BY DEF CheckApplies, IInv
<1>2. SeenInList' /\ check' \in Checks
  BY <1>1 DEF SeenInList, NoCheck, Checks
<1>3. CASE Failed
  <2>1. /\ iotOutageNotified' = (iotOutageNotified \/ OutageIsNews)
        /\ UNCHANGED <<faultNotified, faultNotifiedVital, faultNotifiedBackend>>
        /\ News \subseteq {<<"iot", "all">>} /\ (News # {} => OutageIsNews)
    BY <1>3 DEF CheckApplies, News
  <2>2. Remembered'
    BY <1>1, <2>1 DEF Remembered
  <2>3. OutageIsNews \in BOOLEAN
    BY DEF OutageIsNews
  <2>4. FailSafeTypeOK'
    BY <1>1, <1>2, <2>1, <2>3 DEF FailSafeTypeOK, Outages
  <2> QED BY <1>2, <2>2, <2>4 DEF IInv
<1>4. CASE ~Failed
  <2>1. /\ iotOutageNotified' = FALSE
        /\ faultNotifiedBackend' = check.failing
        /\ faultNotified' = (faultNotified \ Watched) \cup SensorsSeenDown
        /\ faultNotifiedVital' = (faultNotifiedVital \ DetectorsListed)
                                   \cup (DetectorsListed \cap check.down)
    BY <1>4 DEF CheckApplies, StillFailing, StillVital
  <2>2. /\ \A o \in News : \/ \E d \in SensorsSeenDown : o = <<"sensor", d>>
                           \/ \E d \in DetectorsListed \cap check.down : o = <<"smoke", d>>
                           \/ \E b \in check.failing : o = <<"backend", b>>
    BY <1>4 DEF News, BackendsNews
  <2>3. /\ SensorsSeenDown \subseteq Sensors /\ DetectorsListed \subseteq Smokes
        /\ check.failing \subseteq Backends
    BY <1>1 DEF SensorsSeenDown, Watched, DetectorsListed, DetectorsOnly, FailSafeTypeOK, Checks
  <2>4. ASSUME NEW d \in Sensors, <<"sensor", d>> \in told'
        PROVE  d \in faultNotified'
    <3>1. CASE <<"sensor", d>> \in told
      BY <1>1, <2>1, <3>1 DEF Remembered, SeenInList, SensorsSeenDown
    <3>2. CASE <<"sensor", d>> \in News
      BY <2>1, <2>2, <3>2
    <3> QED BY <1>1, <2>4, <3>1, <3>2
  <2>5. ASSUME NEW d \in Smokes, <<"smoke", d>> \in told'
        PROVE  d \in faultNotifiedVital'
    <3>1. CASE <<"smoke", d>> \in told
      BY <1>1, <2>1, <3>1 DEF Remembered, SeenInList, DetectorsListed
    <3>2. CASE <<"smoke", d>> \in News
      BY <2>1, <2>2, <3>2
    <3> QED BY <1>1, <2>5, <3>1, <3>2
  <2>6. ASSUME NEW b \in Backends, <<"backend", b>> \in told'
        PROVE  b \in faultNotifiedBackend'
    <3>1. CASE <<"backend", b>> \in told
      BY <1>1, <2>1, <3>1 DEF SeenInList
    <3>2. CASE <<"backend", b>> \in News
      BY <2>1, <2>2, <3>2
    <3> QED BY <1>1, <2>6, <3>1, <3>2
  <2>7. <<"iot", "all">> \notin told'
    BY <1>1, <1>4, <2>2 DEF SeenInList
  <2>8. Remembered'
    BY <2>4, <2>5, <2>6, <2>7 DEF Remembered
  <2>9. told' \subseteq Outages
    BY <1>1, <2>2, <2>3 DEF FailSafeTypeOK, Outages
  <2>10. FailSafeTypeOK'
    BY <1>1, <1>2, <2>1, <2>3, <2>9 DEF FailSafeTypeOK
  <2> QED BY <1>2, <2>8, <2>10 DEF IInv
<1> QED BY <1>3, <1>4

LEMMA NextInvariant == IInv /\ [FailSafeNext]_failSafeVars => IInv'
<1> SUFFICES ASSUME IInv, [FailSafeNext]_failSafeVars PROVE IInv'
  OBVIOUS
<1>1. CASE UNCHANGED failSafeVars
  BY <1>1, OutsideStep DEF failSafeVars, notified, IInv, FailSafeTypeOK
<1>2. CASE Check
  BY <1>2, CheckStartsStep, ConfigReadStep, ListReadStep, CheckAppliesStep DEF Check
<1> QED BY <1>1, <1>2, AlarmStep, WorldStep DEF FailSafeNext

-----------------------------------------------------------------------------
\* The model is well typed.
THEOREM FailSafeTypesKept == FailSafeSpec => []FailSafeTypeOK
<1>1. IInv => FailSafeTypeOK
  BY DEF IInv
<1> QED BY <1>1, InitInvariant, NextInvariant, PTL DEF FailSafeSpec

\* However arming, disarming and outages fall between the awaits of the check,
\* no outage that lasts is announced twice (failSafeCheck).
THEOREM OutagesToldOnce == FailSafeSpec => []OutageToldOnce
<1>1. ASSUME IInv PROVE OutageToldOnce
  <2> SUFFICES ASSUME NEW o \in News, o \in told PROVE FALSE
    BY DEF OutageToldOnce
  <2>1. Remembered /\ check.failing \subseteq Backends
    BY <1>1 DEF IInv, FailSafeTypeOK, Checks
  <2>2. CASE Failed
    BY <2>1, <2>2 DEF News, OutageIsNews, Remembered
  <2>3. CASE ~Failed
    <3>1. SensorsSeenDown \subseteq Sensors /\ DetectorsListed \subseteq Smokes
      BY DEF SensorsSeenDown, Watched, DetectorsListed, DetectorsOnly
    <3>2. \/ \E d \in SensorsSeenDown \ faultNotified : o = <<"sensor", d>>
          \/ \E d \in (DetectorsListed \cap check.down) \ faultNotifiedVital : o = <<"smoke", d>>
          \/ \E b \in check.failing \ faultNotifiedBackend : o = <<"backend", b>>
      BY <2>3 DEF News, BackendsNews
    <3> QED BY <2>1, <3>1, <3>2 DEF Remembered
  <2> QED BY <2>2, <2>3
<1> QED BY <1>1, InitInvariant, NextInvariant, PTL DEF FailSafeSpec
=============================================================================
