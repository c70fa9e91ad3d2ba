---------------------------- MODULE Access_proofs ----------------------------
(***************************************************************************)
(* Proofs about Access, for any devices, requests, operations, cap and     *)
(* faults: what is stored of the rules set by windows and pauses falls     *)
(* behind what the process knows only by a failure of the database since   *)
(* the set was last stored; and, where calls do not cross in the ways the  *)
(* code leaves open, every rule in the router has an owner.                *)
(***************************************************************************)
EXTENDS Access, SequenceTheorems, FiniteSetTheorems, TLAPS

Values == SUBSET Macs

\* A call as CallState says, whatever it plans to assert again.
Calls(mac, plan) == [at : Places, op : Ops, mac : {mac}, active : Values,
                     todo : Values, plan : {plan}, changed : BOOLEAN]

\* Only a sweep at work on a device may owe a persist, and none in the queue does.
CallOK(c) ==
  /\ c \in Calls(c.mac, c.plan)
  /\ c.op # "reaffirm" => c.mac \in Values
  /\ c.changed => c.op = "sweep" /\ c.at \in {"device", "blocking", "unblocking", "obeyed"}
  /\ c.at \in {"pauses", "device"} => c.op = "sweep"

Upserts == [slot : Slots, value : Values]

TypesOK ==
  /\ scheduled \in Values /\ paused \in Values /\ manual \in Values
  /\ managed \in Values /\ saved \in Values
  /\ writes \in Seq(Upserts)
  /\ up \in BOOLEAN /\ behind \in BOOLEAN

CallsOK ==
  /\ call = [s \in Slots |-> call[s]]
  /\ \A s \in Slots : CallOK(call[s])

\* Who waits for the queue is in it once.
QueueOK ==
  /\ \A i \in DOMAIN writes : call[writes[i].slot].at = "persist"
  /\ \A i, j \in DOMAIN writes : writes[i].slot = writes[j].slot => i = j

\* Until the record is loaded nothing but the first sweep has begun.
Loading == ~up \/ call[Boot].at = "load"
LoadOK ==
  /\ Loading => managed = {} /\ writes = <<>>
  /\ Loading => \A s \in Slots : s # Boot => call[s].at = "idle"
  /\ ~up => call[Boot].at = "idle"
  /\ \A s \in Slots : call[s].at = "load" => s = Boot

\* The value the row has when the queue is drained.
Stored == IF writes = <<>> THEN saved ELSE writes[Len(writes)].value

\* It is managedBlocked, or a sweep has changed that and not yet persisted it,
\* or the failures of the database left it behind.
StoredOK == Loading \/ behind \/ Stored = managed \/ \E w \in Sweeps : call[w].changed

\* (a request changes managedBlocked and persists it at once)
SweepsOwe == \A s \in Slots : call[s].changed => s \in Sweeps

\* The inductive invariant.
IInv == TypesOK /\ CallsOK /\ QueueOK /\ LoadOK /\ StoredOK /\ SweepsOwe
-----------------------------------------------------------------------------
\* Calls.

LEMMA NoCallOK ==
  ASSUME NEW at \in Places, NEW op \in Ops, at \in {"pauses", "device"} => op = "sweep"
  PROVE  /\ CallOK(NoCall(at, op))
         /\ NoCall(at, op).at = at /\ NoCall(at, op).op = op
         /\ NoCall(at, op).changed = FALSE
  BY DEF NoCall, CallOK, Calls, Values

LEMMA OnDeviceOK ==
  ASSUME NEW at \in Places, NEW op \in Ops, NEW m \in Macs, at \notin {"pauses", "device"}
  PROVE  /\ CallOK(OnDevice(at, op, m))
         /\ OnDevice(at, op, m).at = at /\ OnDevice(at, op, m).changed = FALSE
  BY DEF OnDevice, NoCall, CallOK, Calls, Values

LEMMA IdleOK == CallOK(Idle) /\ Idle.at = "idle" /\ ~Idle.changed
<1>1. "idle" \in Places /\ "sweep" \in Ops
  BY DEF Places, Ops
<1> QED BY <1>1, NoCallOK DEF Idle

\* Moving on keeps a call in order, if where it goes agrees with what it owes.
LEMMA MovedOK ==
  ASSUME NEW c, CallOK(c), NEW at \in Places,
         c.changed => at \in {"device", "blocking", "unblocking", "obeyed"},
         at \in {"pauses", "device"} => c.op = "sweep"
  PROVE  /\ CallOK([c EXCEPT !.at = at])
         /\ [c EXCEPT !.at = at].at = at /\ [c EXCEPT !.at = at].changed = c.changed
<1>1. PICK m, p : m = c.mac /\ p = c.plan
  OBVIOUS
<1>2. c \in Calls(m, p)
  BY <1>1 DEF CallOK
<1>3. [c EXCEPT !.at = at] \in Calls(m, p) /\ [c EXCEPT !.at = at].op = c.op
  BY <1>2 DEF Calls
<1>4. [c EXCEPT !.at = at].at = at /\ [c EXCEPT !.at = at].changed = c.changed
  BY <1>2 DEF Calls
<1>5. [c EXCEPT !.at = at].plan = p /\ [c EXCEPT !.at = at].mac = m
  BY <1>3 DEF Calls
<1> QED BY <1>1, <1>3, <1>4, <1>5 DEF CallOK

LEMMA MoveIsGoto ==
  ASSUME NEW s, NEW at, Move(s, at)
  PROVE  Goto(s, [call[s] EXCEPT !.at = at])
  BY DEF Move, Goto

LEMMA GotoEffect ==
  ASSUME CallsOK, NEW s \in Slots, NEW d, Goto(s, d)
  PROVE  /\ call'[s] = d
         /\ \A r \in Slots : r # s => call'[r] = call[r]
         /\ call' = [r \in Slots |-> call'[r]]
<1>1. call = [r \in Slots |-> call[r]] /\ call' = [call EXCEPT ![s] = d]
  BY DEF CallsOK, Goto
<1> QED BY <1>1

LEMMA SweepsAreSlots == Boot \in Slots /\ Loop \in Slots /\ Sweeps \subseteq Slots /\ Boot # Loop
  BY SlotsAssumption DEF Slots, Sweeps

\* Whoever goes on after the load shows that the load is over.
LEMMA GoingOn ==
  ASSUME IInv, up, NEW s \in Slots, call[s].at \notin {"idle", "load"}
  PROVE  ~Loading
  BY DEF IInv, LoadOK, Loading

LEMMA QueueTypes ==
  ASSUME TypesOK
  PROVE  /\ writes \in Seq(Upserts)
         /\ \A i \in DOMAIN writes : writes[i].slot \in Slots /\ writes[i].value \in Values
<1>1. writes \in Seq(Upserts)
  BY DEF TypesOK
<1>2. \A i \in DOMAIN writes : writes[i] \in Upserts
  BY <1>1, ElementOfSeq, LenProperties
<1> QED BY <1>1, <1>2 DEF Upserts

-----------------------------------------------------------------------------
\* Three kinds of step, by what they do to the call of one slot.

\* It goes on and the record stays.
LEMMA QuietStep ==
  ASSUME IInv, up, ~Loading, NEW s \in Slots, NEW d, Goto(s, d), CallOK(d),
         d.at # "load", call[s].at # "persist", d.changed <=> call[s].changed,
         UNCHANGED <<managed, saved, writes, behind, up>>,
         scheduled' \in Values, paused' \in Values, manual' \in Values
  PROVE  IInv'
<1>1. /\ call'[s] = d
      /\ \A r \in Slots : r # s => call'[r] = call[r]
      /\ call' = [r \in Slots |-> call'[r]]
  BY GotoEffect DEF IInv
<1>2. TypesOK'
  BY DEF IInv, TypesOK
<1>3. CallsOK'
  BY <1>1 DEF IInv, CallsOK
<1>4. QueueOK'
  BY <1>1, QueueTypes DEF IInv, QueueOK
<1>5. LoadOK' /\ ~Loading'
  BY <1>1, SweepsAreSlots DEF IInv, LoadOK, Loading
<1>6. StoredOK'
  BY <1>1, SweepsAreSlots DEF IInv, StoredOK, Stored
<1>7. SweepsOwe'
  BY <1>1 DEF IInv, SweepsOwe
<1> QED BY <1>2, <1>3, <1>4, <1>5, <1>6, <1>7 DEF IInv

\* A sweep changes the record and will persist it.
LEMMA OwingStep ==
  ASSUME IInv, up, ~Loading, NEW w \in Sweeps, NEW d, Goto(w, d), CallOK(d),
         d.at # "load", call[w].at # "persist", d.changed,
         UNCHANGED <<scheduled, paused, manual, saved, writes, behind, up>>, managed' \in Values
  PROVE  IInv'
<1>1. /\ call'[w] = d
      /\ \A r \in Slots : r # w => call'[r] = call[r]
      /\ call' = [r \in Slots |-> call'[r]]
  BY GotoEffect, SweepsAreSlots DEF IInv
<1>2. TypesOK'
  BY DEF IInv, TypesOK
<1>3. CallsOK'
  BY <1>1 DEF IInv, CallsOK
<1>4. QueueOK'
  BY <1>1, QueueTypes DEF IInv, QueueOK
<1>5. LoadOK' /\ ~Loading'
  BY <1>1, SweepsAreSlots DEF IInv, LoadOK, Loading
<1>6. StoredOK'
  BY <1>1 DEF StoredOK
<1>7. SweepsOwe'
  BY <1>1 DEF IInv, SweepsOwe
<1> QED BY <1>2, <1>3, <1>4, <1>5, <1>6, <1>7 DEF IInv

\* The set is serialised as it is from now on, and its upsert queued.
LEMMA PersistStep ==
  ASSUME IInv, up, ~Loading, NEW s \in Slots, NEW d, Goto(s, d), CallOK(d),
         d.at = "persist", call[s].at # "persist",
         Persist(s, managed'), managed' \in Values,
         UNCHANGED <<scheduled, paused, manual, saved, up>>
  PROVE  IInv'
<1>1. /\ call'[s] = d
      /\ \A r \in Slots : r # s => call'[r] = call[r]
      /\ call' = [r \in Slots |-> call'[r]]
  BY GotoEffect DEF IInv
<1> DEFINE e == [slot |-> s, value |-> managed']
<1>2. writes' = Append(writes, e) /\ e \in Upserts /\ writes \in Seq(Upserts)
  BY DEF Persist, Serialised, Upserts, IInv, TypesOK
<1>0. behind' = FALSE
  BY DEF Persist
<1> HIDE DEF e
<1>3. /\ writes' \in Seq(Upserts) /\ Len(writes') = Len(writes) + 1
      /\ DOMAIN writes' = 1 .. Len(writes) + 1 /\ DOMAIN writes = 1 .. Len(writes)
      /\ \A i \in DOMAIN writes : writes'[i] = writes[i]
      /\ writes'[Len(writes) + 1] = e
      /\ Len(writes) \in Nat
  BY <1>2, AppendProperties, LenProperties
<1>4. e.slot = s /\ e.value = managed'
  BY DEF e
<1>5. TypesOK'
  BY <1>0, <1>3 DEF IInv, TypesOK
<1>6. CallsOK'
  BY <1>1 DEF IInv, CallsOK
<1>7. \A i \in DOMAIN writes : writes[i].slot \in Slots /\ writes[i].slot # s
  BY QueueTypes DEF IInv, QueueOK
<1>8. QueueOK'
  BY <1>1, <1>3, <1>4, <1>7 DEF IInv, QueueOK
<1>9. LoadOK' /\ ~Loading'
  BY <1>1, SweepsAreSlots DEF IInv, LoadOK, Loading
<1>10. StoredOK'
  <2>1. writes' # <<>>
    BY <1>3
  <2> QED BY <2>1, <1>3, <1>4 DEF StoredOK, Stored
<1>11. SweepsOwe'
  BY <1>1 DEF IInv, SweepsOwe, CallOK
<1> QED BY <1>5, <1>6, <1>8, <1>9, <1>10, <1>11 DEF IInv

\* A call that owes nothing moves on, or ends.
LEMMA MoveStep ==
  ASSUME IInv, up, NEW s \in Slots, NEW at \in Places, Move(s, at),
         call[s].at \notin {"idle", "load", "persist"},
         at \notin {"load", "pauses", "device"},
         call[s].changed => at \in {"blocking", "unblocking", "obeyed"},
         UNCHANGED <<managed, saved, writes, behind, up>>,
         scheduled' \in Values, paused' \in Values, manual' \in Values
  PROVE  IInv'
<1> DEFINE d == [call[s] EXCEPT !.at = at]
<1>1. Goto(s, d)
  BY MoveIsGoto
<1>2. CallOK(call[s])
  BY DEF IInv, CallsOK
<1>3. CallOK(d) /\ d.at = at /\ d.changed = call[s].changed
  BY <1>2, MovedOK
<1> HIDE DEF d
<1> QED BY <1>1, <1>3, GoingOn, QuietStep

LEMMA EndStep ==
  ASSUME IInv, up, NEW s \in Slots, Goto(s, Idle), ~call[s].changed,
         call[s].at \notin {"idle", "load", "persist"},
         UNCHANGED <<managed, saved, writes, behind, up>>,
         scheduled' \in Values, paused' \in Values, manual' \in Values
  PROVE  IInv'
  BY GoingOn, QuietStep, IdleOK

LEMMA ReaffirmStep ==
  ASSUME IInv, up, NEW s \in Slots, NEW plan, SendReaffirmations(s, plan),
         ~call[s].changed, call[s].at \notin {"idle", "load", "persist"},
         UNCHANGED <<rows, managed, saved, writes, behind, up>>
  PROVE  IInv'
<1> DEFINE d == [OnDevice("blocking", "reaffirm", Head(plan)) EXCEPT !.plan = Tail(plan)]
<1>0. scheduled' \in Values /\ paused' \in Values /\ manual' \in Values
  BY DEF rows, IInv, TypesOK
<1>1. CASE plan = <<>>
  BY <1>0, <1>1, EndStep DEF SendReaffirmations
<1>2. CASE plan # <<>>
  <2>1. Goto(s, d)
    BY <1>2 DEF SendReaffirmations
  <2>2. CallOK(d) /\ d.at = "blocking" /\ d.changed = FALSE
    BY DEF OnDevice, NoCall, CallOK, Calls, Values, Places, Ops
  <2> HIDE DEF d
  <2> QED BY <1>0, <2>1, <2>2, GoingOn, QuietStep
<1> QED BY <1>1, <1>2

\* On to the next device of a sweep, to its persist, or to the blocks by hand.
LEMMA ProceedStep ==
  ASSUME IInv, up, NEW s \in Slots, NEW c, Proceed(s, c, managed'),
         call[s].at \notin {"idle", "load", "persist"},
         CallOK(c), c.op = "sweep", managed' \in Values,
         call[s].changed => c.changed, c.changed => s \in Sweeps,
         c.changed \/ managed' = managed,
         UNCHANGED <<scheduled, paused, manual, saved, up>>
  PROVE  IInv'
<1> DEFINE differs == {m \in c.todo : (m \in c.active) # (m \in managed')}
<1>0. ~Loading
  BY GoingOn
<1>1. scheduled' \in Values /\ paused' \in Values /\ manual' \in Values
  BY DEF IInv, TypesOK
<1>2. c.changed \in BOOLEAN /\ c.todo \in Values
  BY DEF CallOK, Calls
<1>3. ASSUME NEW m \in differs,
             Goto(s, [c EXCEPT !.at = "device", !.mac = {m}, !.todo = @ \ {m}]),
             UNCHANGED <<writes, behind>>
      PROVE  IInv'
  <2> DEFINE d == [c EXCEPT !.at = "device", !.mac = {m}, !.todo = @ \ {m}]
  <2>1. m \in Macs
    BY <1>2 DEF Values
  <2>2. PICK q, p : c \in Calls(q, p)
    BY DEF CallOK
  <2>3. /\ d \in Calls({m}, p) /\ d.at = "device" /\ d.mac = {m} /\ d.plan = p
        /\ d.op = "sweep" /\ d.changed = c.changed
    BY <2>2, <2>1 DEF Calls, Values, Places
  <2>4. CallOK(d)
    BY <2>1, <2>3 DEF CallOK, Values
  <2>5. Goto(s, d)
    BY <1>3
  <2> HIDE DEF d
  <2>6. CASE c.changed
    BY <1>0, <1>3, <2>3, <2>4, <2>5, <2>6, OwingStep
  <2>7. CASE ~c.changed
    <3>1. UNCHANGED managed
      BY <2>7
    <3>2. ~d.changed /\ ~call[s].changed
      BY <2>3, <2>7
    <3> QED BY <1>0, <1>1, <1>3, <2>3, <2>4, <2>5, <3>1, <3>2, QuietStep
  <2> QED BY <2>6, <2>7
<1>4. CASE c.changed /\ Goto(s, NoCall("persist", "sweep")) /\ Persist(s, managed')
  <2>1. CallOK(NoCall("persist", "sweep")) /\ NoCall("persist", "sweep").at = "persist"
    BY NoCallOK DEF Places, Ops
  <2> QED BY <1>0, <1>4, <2>1, PersistStep
<1>5. CASE ~c.changed /\ Goto(s, NoCall("manuals", "sweep")) /\ UNCHANGED <<writes, behind>>
  <2> DEFINE d == NoCall("manuals", "sweep")
  <2>1. CallOK(d) /\ d.at = "manuals" /\ d.changed = FALSE
    BY NoCallOK DEF Places, Ops
  <2>2. Goto(s, d) /\ UNCHANGED <<managed, writes, behind>> /\ ~call[s].changed
    BY <1>5
  <2> HIDE DEF d
  <2> QED BY <1>0, <1>1, <2>1, <2>2, QuietStep
<1> QED BY <1>3, <1>4, <1>5 DEF Proceed

-----------------------------------------------------------------------------
\* One lemma per action.

LEMMA InitInvariant == AccessInit => IInv
<1> SUFFICES ASSUME AccessInit PROVE IInv
  OBVIOUS
<1>1. CallOK(NoCall("load", "sweep")) /\ NoCall("load", "sweep").at = "load"
      /\ NoCall("load", "sweep").changed = FALSE
  BY NoCallOK DEF Places, Ops
<1>2. call[Boot] = NoCall("load", "sweep") /\ \A s \in Slots : s # Boot => call[s] = Idle
  BY SweepsAreSlots DEF AccessInit
<1>3. CallsOK /\ SweepsOwe
  BY <1>1, <1>2, IdleOK DEF AccessInit, CallsOK, SweepsOwe
<1>4. LoadOK /\ StoredOK
  BY <1>1, <1>2, IdleOK DEF AccessInit, LoadOK, StoredOK, Loading
<1>5. TypesOK
  BY WindowsAssumption, EmptySeq DEF AccessInit, TypesOK, Values
<1>6. QueueOK
  BY EmptySeq DEF AccessInit, QueueOK
<1> QED BY <1>3, <1>4, <1>5, <1>6 DEF IInv

LEMMA RequestPreserves ==
  ASSUME IInv, up, NEW s \in Requests, NEW m \in Macs, NEW op \in Uses, Request(s, m, op)
  PROVE  IInv'
<1> DEFINE at == IF op \in {"pause", "block"} THEN "blocking"
                 ELSE IF op = "resume" THEN "readManual" ELSE "guardPause"
           d == OnDevice(at, op, m)
<1>1. s \in Slots /\ op \in Ops /\ at \in Places /\ at \notin {"pauses", "device", "load"}
  BY UsesAssumption DEF Slots, Ops, Places
<1>2. Goto(s, d) /\ call[s] = Idle /\ call[Boot].at # "load"
      /\ UNCHANGED <<scheduled, manual, managed, saved, writes, behind, up>>
  BY DEF Request
<1>3. paused' \in Values /\ scheduled' \in Values /\ manual' \in Values
  BY DEF Request, IInv, TypesOK, Values
<1> HIDE DEF at
<1>4. CallOK(d) /\ d.at # "load" /\ d.changed = FALSE
  BY <1>1, OnDeviceOK
<1> HIDE DEF d
<1> QED BY <1>1, <1>2, <1>3, <1>4, IdleOK, QuietStep DEF Loading

LEMMA GuardsPreserves ==
  ASSUME IInv, up, NEW s \in Requests, Guards(s)
  PROVE  IInv'
<1>1. s \in Slots /\ call[s].at \in {"readManual", "guardPause", "guardSchedule"}
  BY DEF Slots, Guards
<1>2. ~call[s].changed
  BY <1>1 DEF IInv, CallsOK, CallOK
<1>3. /\ UNCHANGED <<managed, saved, writes, behind, up>>
      /\ scheduled' \in Values /\ paused' \in Values /\ manual' \in Values
  BY DEF Guards, rows, IInv, TypesOK
<1>4. \/ Goto(s, Idle)
      \/ \E at \in {"guardPause", "guardSchedule", "unblocking", "blocking"} : Move(s, at)
  BY DEF Guards, Keep
<1>5. {"guardPause", "guardSchedule", "unblocking", "blocking"} \subseteq Places
  BY DEF Places
<1> QED BY <1>1, <1>2, <1>3, <1>4, <1>5, EndStep, MoveStep

LEMMA RequestDonePreserves ==
  ASSUME IInv, up, NEW s \in Requests, RequestDone(s)
  PROVE  IInv'
<1>1. s \in Slots /\ call[s].at = "obeyed" /\ CallOK(call[s])
  BY DEF Slots, RequestDone, IInv, CallsOK
<1>2. ~call[s].changed /\ call[s].mac \in Values
  BY <1>1 DEF RequestDone, CallOK
<1>3. TypesOK
  BY DEF IInv
<1>4. CASE call[s].op \in {"pause", "resume"}
  <2> DEFINE d == [call[s] EXCEPT !.at = "persist"]
  <2>1. Goto(s, d) /\ Persist(s, managed') /\ UNCHANGED <<scheduled, paused, manual, saved, up>>
    BY <1>4, MoveIsGoto DEF RequestDone
  <2>2. managed' \in Values
    BY <1>2, <1>3, <1>4 DEF RequestDone, TypesOK, Values
  <2>3. CallOK(d) /\ d.at = "persist"
    BY <1>1, <1>2, MovedOK DEF Places
  <2> HIDE DEF d
  <2> QED BY <1>1, <2>1, <2>2, <2>3, GoingOn, PersistStep
<1>5. CASE call[s].op \in {"block", "unblock"}
  <2>1. Goto(s, Idle) /\ UNCHANGED <<scheduled, paused, managed, saved, writes, behind, up>>
    BY <1>5 DEF RequestDone
  <2>2. manual' \in Values
    BY <1>2, <1>3, <1>5 DEF RequestDone, TypesOK, Values
  <2> QED BY <1>1, <1>2, <1>3, <2>1, <2>2, EndStep DEF TypesOK
<1> QED BY <1>4, <1>5 DEF RequestDone

LEMMA LoadPreserves ==
  ASSUME IInv, up, Load
  PROVE  IInv'
<1> DEFINE d == [call[Boot] EXCEPT !.at = "schedules"]
<1>1. CallOK(call[Boot]) /\ call[Boot].at = "load" /\ Boot \in Slots
  BY SweepsAreSlots DEF Load, IInv, CallsOK
<1>2. ~call[Boot].changed
  BY <1>1 DEF CallOK
<1>3. CallOK(d) /\ d.at = "schedules" /\ d.changed = call[Boot].changed
  BY <1>1, <1>2, MovedOK DEF Places
<1>4. Goto(Boot, d)
  BY MoveIsGoto DEF Load
<1> HIDE DEF d
<1>5. /\ call'[Boot] = d
      /\ \A r \in Slots : r # Boot => call'[r] = call[r]
      /\ call' = [r \in Slots |-> call'[r]]
  BY <1>1, <1>4, GotoEffect DEF IInv
<1>6. managed = {} /\ writes = <<>> /\ managed' = saved /\ UNCHANGED <<rows, saved, writes, behind, up>>
  BY <1>1 DEF Load, IInv, LoadOK, Loading
<1>7. TypesOK'
  BY <1>6 DEF IInv, TypesOK, rows
<1>8. CallsOK'
  BY <1>3, <1>5 DEF IInv, CallsOK
<1>9. QueueOK'
  BY <1>6 DEF QueueOK
<1>10. LoadOK' /\ ~Loading'
  BY <1>3, <1>5, <1>6 DEF IInv, LoadOK, Loading
<1>11. StoredOK'
  BY <1>6 DEF StoredOK, Stored
<1>12. SweepsOwe'
  BY <1>2, <1>3, <1>5 DEF IInv, SweepsOwe
<1> QED BY <1>7, <1>8, <1>9, <1>10, <1>11, <1>12 DEF IInv

LEMMA SweepSchedulesPreserves ==
  ASSUME IInv, up, NEW w \in Sweeps, SweepSchedules(w)
  PROVE  IInv'
<1> DEFINE d == [NoCall("pauses", "sweep") EXCEPT !.active = scheduled]
<1>1. w \in Slots /\ Boot \in Slots /\ CallOK(call[w])
  BY SweepsAreSlots DEF IInv, CallsOK
<1>2. Goto(w, d) /\ UNCHANGED <<rows, managed, saved, writes, behind, up>>
  BY DEF SweepSchedules
<1>3. CallOK(d) /\ d.at = "pauses" /\ d.changed = FALSE
  BY DEF NoCall, CallOK, Calls, Values, Places, Ops, IInv, TypesOK
<1>4. call[w].at \in {"schedules", "idle"} /\ ~call[w].changed
  BY <1>1, IdleOK DEF SweepSchedules, CallOK
<1>5. ~Loading
  <2>1. CASE call[w].at = "schedules"
    BY <1>1, <2>1, GoingOn
  <2>2. CASE BootIsOver
    BY <2>2, IdleOK DEF BootIsOver, Loading
  <2> QED BY <2>1, <2>2 DEF SweepSchedules
<1>6. scheduled' \in Values /\ paused' \in Values /\ manual' \in Values
  BY <1>2 DEF IInv, TypesOK, rows
<1> HIDE DEF d
<1> QED BY <1>1, <1>2, <1>3, <1>4, <1>5, <1>6, QuietStep

LEMMA SweepPausesPreserves ==
  ASSUME IInv, up, NEW w \in Sweeps, SweepPauses(w)
  PROVE  IInv'
<1> DEFINE active == call[w].active \cup paused
           c == [call[w] EXCEPT !.active = active, !.todo = active \cup managed]
<1>1. w \in Slots /\ call[w].at = "pauses" /\ CallOK(call[w])
  BY SweepsAreSlots DEF SweepPauses, IInv, CallsOK
<1>2. PICK m, p : call[w] \in Calls(m, p) /\ m = call[w].mac /\ p = call[w].plan
  BY <1>1 DEF CallOK
<1>3. active \in Values /\ managed \in Values
  BY <1>2 DEF Calls, Values, IInv, TypesOK
<1>4. /\ c \in Calls(m, p) /\ c.at = call[w].at /\ c.op = call[w].op
      /\ c.mac = m /\ c.plan = p /\ c.changed = call[w].changed
  BY <1>2, <1>3 DEF Calls, Values
<1>5. CallOK(c) /\ c.op = "sweep" /\ ~c.changed /\ ~call[w].changed
  BY <1>1, <1>2, <1>4 DEF CallOK
<1>6. managed' = managed /\ UNCHANGED <<scheduled, paused, manual, saved, up>>
  BY DEF SweepPauses, rows
<1>7. Proceed(w, c, managed')
  BY <1>6 DEF SweepPauses
<1> HIDE DEF c, active
<1> QED BY <1>1, <1>3, <1>5, <1>6, <1>7, ProceedStep

\* The record of a device follows; the sweep owes a persist from now on.
LEMMA RecordStep ==
  ASSUME IInv, up, NEW w \in Sweeps, Record(w), call[w].op = "sweep",
         call[w].at \in {"device", "obeyed"},
         UNCHANGED <<rows, saved, up>>
  PROVE  IInv'
<1> DEFINE c == [call[w] EXCEPT !.changed = TRUE]
<1>1. w \in Slots /\ CallOK(call[w])
  BY SweepsAreSlots DEF IInv, CallsOK
<1>2. PICK m, p : call[w] \in Calls(m, p) /\ m = call[w].mac /\ p = call[w].plan
  BY <1>1 DEF CallOK
<1>3. /\ c \in Calls(m, p) /\ c.at = call[w].at /\ c.op = call[w].op
      /\ c.mac = m /\ c.plan = p /\ c.changed = TRUE
  BY <1>2 DEF Calls
<1>4. CallOK(c) /\ c.op = "sweep" /\ c.changed
  BY <1>1, <1>2, <1>3 DEF CallOK
<1>5. call[w].mac \in Values /\ managed \in Values
  BY <1>1 DEF CallOK, IInv, TypesOK
<1>6. managed' \in Values
  BY <1>5 DEF Record, Recorded, Values
<1>7. Proceed(w, c, managed') /\ UNCHANGED <<scheduled, paused, manual, saved, up>>
  BY DEF Record, rows
<1> HIDE DEF c
<1> QED BY <1>1, <1>4, <1>6, <1>7, ProceedStep

LEMMA SweepDevicePreserves ==
  ASSUME IInv, up, NEW w \in Sweeps, SweepDevice(w)
  PROVE  IInv'
<1>1. w \in Slots /\ call[w].at = "device" /\ CallOK(call[w])
  BY SweepsAreSlots DEF SweepDevice, IInv, CallsOK
<1>2. call[w].op = "sweep" /\ UNCHANGED <<rows, saved, up>>
  BY <1>1 DEF SweepDevice, CallOK
<1>3. CASE Record(w)
  BY <1>1, <1>2, <1>3, RecordStep
<1>4. ASSUME NEW at \in {"blocking", "unblocking"}, Move(w, at), UNCHANGED <<managed, writes, behind>>
      PROVE  IInv'
  <2>1. at \in Places
    BY DEF Places
  <2>2. scheduled' \in Values /\ paused' \in Values /\ manual' \in Values
    BY <1>2 DEF IInv, TypesOK, rows
  <2> QED BY <1>1, <1>2, <1>4, <2>1, <2>2, MoveStep
<1> QED BY <1>3, <1>4 DEF SweepDevice

LEMMA SweepDonePreserves ==
  ASSUME IInv, up, NEW w \in Sweeps, SweepDone(w)
  PROVE  IInv'
  BY RecordStep DEF SweepDone

LEMMA SweepManualsPreserves ==
  ASSUME IInv, up, NEW w \in Sweeps, SweepManuals(w)
  PROVE  IInv'
<1>1. w \in Slots /\ call[w].at = "manuals" /\ CallOK(call[w])
  BY SweepsAreSlots DEF SweepManuals, IInv, CallsOK
<1>2. ~call[w].changed
  BY <1>1 DEF CallOK
<1>3. UNCHANGED <<rows, managed, saved, writes, behind, up>>
  BY DEF SweepManuals
<1>4. PICK plan : SendReaffirmations(w, plan)
  BY DEF SweepManuals
<1> QED BY <1>1, <1>2, <1>3, <1>4, ReaffirmStep

LEMMA ReaffirmedPreserves ==
  ASSUME IInv, up, NEW w \in Sweeps, Reaffirmed(w)
  PROVE  IInv'
<1>1. w \in Slots /\ call[w].at = "obeyed" /\ CallOK(call[w])
  BY SweepsAreSlots DEF Reaffirmed, IInv, CallsOK
<1>2. ~call[w].changed
  BY <1>1 DEF Reaffirmed, CallOK
<1>3. UNCHANGED <<rows, managed, saved, writes, behind, up>> /\ SendReaffirmations(w, call[w].plan)
  BY DEF Reaffirmed
<1> QED BY <1>1, <1>2, <1>3, ReaffirmStep

LEMMA ObeysPreserves ==
  ASSUME IInv, up, NEW s \in Slots, NEW m, NEW kind \in Sending, Obeys(s, m, kind)
  PROVE  IInv'
<1>1. call[s].at \in {"blocking", "unblocking"} /\ Move(s, "obeyed")
      /\ UNCHANGED <<rows, managed, saved, writes, behind, up>>
  BY DEF Obeys, Sending
<1>2. scheduled' \in Values /\ paused' \in Values /\ manual' \in Values
  BY <1>1 DEF IInv, TypesOK, rows
<1>3. "obeyed" \in Places
  BY DEF Places
<1> QED BY <1>1, <1>2, <1>3, MoveStep

LEMMA FailsPreserves ==
  ASSUME IInv, up, NEW s \in Slots, Fails(s)
  PROVE  IInv'
<1>1. call[s].at \in {"blocking", "unblocking"} /\ CallOK(call[s])
      /\ UNCHANGED <<rows, saved, up>>
  BY DEF Fails, Sending, IInv, CallsOK
<1>2. scheduled' \in Values /\ paused' \in Values /\ manual' \in Values
  BY <1>1 DEF IInv, TypesOK, rows
<1>3. CASE call[s].op = "sweep"
  <2>1. managed' = managed /\ Proceed(s, call[s], managed')
    BY <1>3 DEF Fails, RecordOnFailure
  <2>2. managed' \in Values /\ (call[s].changed => s \in Sweeps)
    BY <2>1 DEF IInv, TypesOK, SweepsOwe
  <2>3. UNCHANGED <<scheduled, paused, manual, saved, up>>
    BY <1>1 DEF rows
  <2> QED BY <1>1, <1>3, <2>1, <2>2, <2>3, ProceedStep
<1>4. CASE call[s].op # "sweep"
  <2>1. ~call[s].changed
    BY <1>1, <1>4 DEF CallOK
  <2>2. UNCHANGED <<managed, writes, behind>>
        /\ (SendReaffirmations(s, call[s].plan) \/ Goto(s, Idle))
    BY <1>4 DEF Fails
  <2> QED BY <1>1, <1>2, <2>1, <2>2, ReaffirmStep, EndStep
<1> QED BY <1>3, <1>4

\* The oldest upsert is answered: it landed, or it was refused.
LEMMA AnsweredPreserves ==
  ASSUME IInv, Answered,
         \/ saved' = Head(writes).value /\ UNCHANGED behind
         \/ UNCHANGED saved /\ behind' = (behind \/ Len(writes) = 1)
  PROVE  IInv'
<1> DEFINE s == Head(writes).slot
           d == IF s \in Sweeps THEN NoCall("manuals", "sweep") ELSE Idle
<1>1. /\ TypesOK /\ up /\ writes # <<>> /\ writes \in Seq(Upserts)
      /\ writes' = Tail(writes) /\ Goto(s, d)
      /\ UNCHANGED <<scheduled, paused, manual, managed, up>>
      /\ (saved' = Head(writes).value \/ saved' = saved)
      /\ behind \in BOOLEAN /\ behind' \in BOOLEAN
  BY DEF Answered, IInv, TypesOK, rows
<1>2. /\ DOMAIN writes = 1 .. Len(writes) /\ Len(writes) \in Nat \ {0}
      /\ Head(writes) = writes[1]
      /\ writes' \in Seq(Upserts) /\ DOMAIN writes' = 1 .. Len(writes')
      /\ Len(writes') = Len(writes) - 1
      /\ \A i \in DOMAIN writes' : writes'[i] = writes[i + 1]
  BY <1>1, HeadTailProperties, LenProperties, EmptySeq
<1>3. s \in Slots /\ Head(writes).value \in Values /\ call[s].at = "persist"
  BY <1>1, <1>2, QueueTypes DEF IInv, QueueOK
<1>4. CallOK(d) /\ d.at \in {"manuals", "idle"} /\ ~d.changed
  <2>1. /\ CallOK(NoCall("manuals", "sweep")) /\ NoCall("manuals", "sweep").at = "manuals"
        /\ NoCall("manuals", "sweep").changed = FALSE
    BY NoCallOK DEF Places, Ops
  <2> QED BY <2>1, IdleOK
<1>5. ~call[s].changed
  BY <1>3 DEF IInv, CallsOK, CallOK
<1> HIDE DEF d, s
<1>6. /\ call'[s] = d
      /\ \A r \in Slots : r # s => call'[r] = call[r]
      /\ call' = [r \in Slots |-> call'[r]]
  BY <1>1, <1>3, GotoEffect DEF IInv
<1>7. ~Loading
  BY <1>1 DEF IInv, LoadOK
<1>8. TypesOK'
  BY <1>1, <1>2, <1>3 DEF TypesOK
<1>9. CallsOK'
  BY <1>4, <1>6 DEF IInv, CallsOK
<1>10. QueueOK'
  <2>1. ASSUME NEW i \in DOMAIN writes'
        PROVE  /\ i + 1 \in DOMAIN writes /\ writes'[i] = writes[i + 1]
               /\ writes'[i].slot \in Slots /\ writes'[i].slot # s
               /\ call[writes'[i].slot].at = "persist"
    <3>1. i + 1 \in DOMAIN writes /\ 1 \in DOMAIN writes /\ i + 1 # 1 /\ writes'[i] = writes[i + 1]
      BY <1>2
    <3> QED BY <1>1, <1>2, <3>1, QueueTypes DEF s, IInv, QueueOK
  <2>2. ASSUME NEW i \in DOMAIN writes', NEW j \in DOMAIN writes', writes'[i].slot = writes'[j].slot
        PROVE  i = j
    <3>1. i + 1 = j + 1
      BY <2>1, <2>2 DEF IInv, QueueOK
    <3> QED BY <3>1, <1>2
  <2>3. \A i \in DOMAIN writes' : call'[writes'[i].slot].at = "persist"
    BY <2>1, <1>6
  <2> QED BY <2>2, <2>3 DEF QueueOK
<1>11. LoadOK' /\ ~Loading'
  BY <1>1, <1>3, <1>4, <1>6, <1>7, SweepsAreSlots DEF IInv, LoadOK, Loading
<1>12. (behind' \/ Stored' = Stored) /\ (behind => behind')
  <2>1. CASE Len(writes) = 1
    <3>1. writes' = <<>>
      BY <1>2, <2>1, EmptySeq
    <3>2. Stored = Head(writes).value /\ Stored' = saved'
      BY <3>1, <1>1, <1>2, <2>1 DEF Stored
    <3>3. CASE saved' = Head(writes).value /\ UNCHANGED behind
      BY <3>2, <3>3
    <3>4. CASE behind' = (behind \/ Len(writes) = 1)
      <4>1. behind' = TRUE
        BY <2>1, <3>4
      <4> QED BY <4>1
    <3> QED BY <3>3, <3>4
  <2>2. CASE Len(writes) > 1
    <3>1. Len(writes') \in DOMAIN writes' /\ Len(writes') + 1 = Len(writes)
      BY <1>2, <2>2
    <3>2. writes' # <<>> /\ writes'[Len(writes')] = writes[Len(writes)]
      BY <1>2, <3>1
    <3> QED BY <3>2, <1>1 DEF Stored
  <2> QED BY <1>2, <2>1, <2>2
<1>13. StoredOK'
  BY <1>1, <1>3, <1>4, <1>5, <1>6, <1>7, <1>12, SweepsAreSlots DEF IInv, StoredOK
<1>14. SweepsOwe'
  BY <1>4, <1>6 DEF IInv, SweepsOwe
<1> QED BY <1>8, <1>9, <1>10, <1>11, <1>13, <1>14 DEF IInv

LEMMA WritePreserves == ASSUME IInv, WriteLands \/ WriteFails PROVE IInv'
  BY AnsweredPreserves DEF WriteLands, WriteFails

\* A statement throws: what its call has recorded stays unpersisted.
LEMMA StatementFailsPreserves ==
  ASSUME IInv, up, NEW s \in Slots, StatementFails(s)
  PROVE  IInv'
<1>1. /\ Goto(s, Idle) /\ UNCHANGED <<scheduled, paused, manual, managed, saved, writes, up>>
      /\ call[s].at \notin {"idle", "persist"}
      /\ behind' = (behind \/ call[s].at = "load" \/ call[s].changed)
  BY DEF StatementFails, Throwing, rows
<1>2. /\ call'[s] = Idle
      /\ \A r \in Slots : r # s => call'[r] = call[r]
      /\ call' = [r \in Slots |-> call'[r]]
  BY <1>1, GotoEffect DEF IInv
<1>3. call[s].changed \in BOOLEAN /\ behind \in BOOLEAN
  BY DEF IInv, TypesOK, CallsOK, CallOK, Calls
<1>4. TypesOK'
  BY <1>1, <1>3 DEF IInv, TypesOK
<1>5. CallsOK' /\ SweepsOwe'
  BY <1>2, IdleOK DEF IInv, CallsOK, SweepsOwe
<1>6. QueueOK'
  BY <1>1, <1>2, QueueTypes DEF IInv, QueueOK
<1>7. LoadOK' /\ ~Loading'
  <2>1. Boot \in Slots /\ \A r \in Slots : call'[r].at = "load" => r # s /\ call[r].at = "load"
    BY <1>2, IdleOK, SweepsAreSlots
  <2>2. call'[Boot].at # "load"
    <3>1. CASE s = Boot
      BY <3>1, <1>2, IdleOK
    <3>2. CASE s # Boot
      BY <3>2, <1>1, <1>2, SweepsAreSlots DEF IInv, LoadOK, Loading
    <3> QED BY <3>1, <3>2
  <2> QED BY <1>1, <2>1, <2>2 DEF IInv, LoadOK, Loading
<1>8. StoredOK'
  BY <1>1, <1>2, <1>3, SweepsAreSlots DEF IInv, StoredOK, Stored, Loading, LoadOK
<1> QED BY <1>4, <1>5, <1>6, <1>7, <1>8 DEF IInv

\* What moves outside the process leaves all this alone.
LEMMA OutsideStep ==
  ASSUME IInv, UNCHANGED <<manual, managed, saved, writes, behind, call, up>>,
         scheduled' \in Values, paused' \in Values
  PROVE  IInv'
<1>1. UNCHANGED Loading /\ UNCHANGED Stored
  BY DEF Loading, Stored
<1> QED BY <1>1 DEF IInv, TypesOK, CallsOK, QueueOK, LoadOK, StoredOK, SweepsOwe, CallOK

LEMMA CrashPreserves ==
  ASSUME IInv, AgentCrash
  PROVE  IInv'
<1>1. /\ up' = FALSE /\ managed' = {} /\ writes' = <<>>
      /\ call' = [s \in Slots |-> Idle] /\ UNCHANGED <<rows, saved>>
  BY DEF AgentCrash
<1>2. CallsOK' /\ SweepsOwe'
  BY <1>1, IdleOK DEF CallsOK, SweepsOwe
<1>3. LoadOK' /\ StoredOK'
  BY <1>1, IdleOK, SweepsAreSlots DEF LoadOK, StoredOK, Loading
<1>4. writes' \in Seq(Upserts) /\ DOMAIN writes' = {} /\ managed' \in Values
  BY <1>1, EmptySeq DEF Values
<1>7. behind' = FALSE
  BY DEF AgentCrash
<1>5. TypesOK'
  BY <1>1, <1>4, <1>7 DEF IInv, TypesOK, rows
<1>6. QueueOK'
  BY <1>4 DEF QueueOK
<1> QED BY <1>2, <1>3, <1>5, <1>6 DEF IInv

LEMMA RestartPreserves ==
  ASSUME IInv, Restart
  PROVE  IInv'
<1> DEFINE d == NoCall("load", "sweep")
<1>1. CallOK(d) /\ d.at = "load" /\ d.changed = FALSE
  BY NoCallOK DEF Places, Ops
<1>2. /\ ~up /\ up' = TRUE /\ Goto(Boot, d)
      /\ UNCHANGED <<rows, managed, saved, writes, behind>>
  BY DEF Restart
<1> HIDE DEF d
<1>3. /\ call'[Boot] = d
      /\ \A r \in Slots : r # Boot => call'[r] = call[r]
      /\ call' = [r \in Slots |-> call'[r]]
  BY <1>2, GotoEffect, SweepsAreSlots DEF IInv
<1>4. managed' = {} /\ writes' = <<>>
  BY <1>2 DEF IInv, LoadOK, Loading
<1>5. CallsOK' /\ SweepsOwe'
  BY <1>1, <1>3 DEF IInv, CallsOK, SweepsOwe
<1>6. LoadOK' /\ StoredOK'
  BY <1>1, <1>2, <1>3, <1>4 DEF IInv, LoadOK, StoredOK, Loading
<1>7. TypesOK' /\ QueueOK'
  BY <1>2, <1>4 DEF IInv, TypesOK, QueueOK, rows
<1> QED BY <1>5, <1>6, <1>7 DEF IInv

LEMMA NextInvariant == IInv /\ [AccessNext]_accessVars => IInv'
<1> SUFFICES ASSUME IInv, [AccessNext]_accessVars PROVE IInv'
  OBVIOUS
<1> USE DEF Answer, RequestStep, SweepStep
<1>1. ASSUME up, NEW s \in Requests, NEW m \in Macs, NEW op \in Uses, Request(s, m, op)
      PROVE  IInv'
  BY <1>1, RequestPreserves
<1>2. ASSUME up, NEW s \in Requests, RequestStep(s)
      PROVE  IInv'
  BY <1>2, GuardsPreserves, RequestDonePreserves
<1>3. CASE up /\ Load
  BY <1>3, LoadPreserves
<1>4. ASSUME up, NEW w \in Sweeps, SweepStep(w)
      PROVE  IInv'
  BY <1>4, SweepSchedulesPreserves, SweepPausesPreserves, SweepDevicePreserves,
     SweepDonePreserves, SweepManualsPreserves, ReaffirmedPreserves
<1>5. ASSUME up, NEW s \in Slots, Answer(s)
      PROVE  IInv'
  BY <1>5, ObeysPreserves, FailsPreserves
<1>6. CASE RouterReboot \/ MarkAges \/ UNCHANGED accessVars
  BY <1>6, OutsideStep DEF RouterReboot, MarkAges, accessVars, rows, IInv, TypesOK
<1>7. ASSUME NEW m \in Macs, WindowMoves(m) \/ PauseEnds(m)
      PROVE  IInv'
  <2>1. scheduled' \in Values /\ paused' \in Values
    BY <1>7 DEF WindowMoves, PauseEnds, IInv, TypesOK, Values
  <2> QED BY <1>7, <2>1, OutsideStep DEF WindowMoves, PauseEnds
<1>8. CASE WriteLands \/ WriteFails
  BY <1>8, WritePreserves
<1>9. CASE AgentCrash \/ Restart
  BY <1>9, CrashPreserves, RestartPreserves
<1>10. ASSUME up, NEW s \in Slots, StatementFails(s)
       PROVE  IInv'
  BY <1>10, StatementFailsPreserves
<1> QED BY <1>1, <1>2, <1>3, <1>4, <1>5, <1>6, <1>7, <1>8, <1>9, <1>10 DEF AccessNext

-----------------------------------------------------------------------------
\* However requests, sweeps, refused commands and statements, crashes and
\* restarts interleave: with the queue drained and nothing owed, the row has
\* what this.managedBlocked has, so a restart forgets no rule (persistManaged
\* and reconcile, US-197), unless its last upsert was refused or a sweep was cut
\* before its persist since: whatever failed earlier, an upsert that lands
\* mends it.
THEOREM StoredIsManaged == AccessSpec => []ManagedDurable
<1>1. IInv => ManagedDurable
  BY DEF IInv, StoredOK, Stored, Loading, ManagedDurable
<1> QED BY <1>1, InitInvariant, NextInvariant, PTL DEF AccessSpec

-----------------------------------------------------------------------------
\* Who owns a rule.  A pause, a resume or an unblock that crosses the sweep, a
\* command that times out having been obeyed, a first sweep that overlaps the
\* next one and a crash between a command and its record may each leave a rule
\* nobody owns, so this is said of a house without them.
BlocksOnly ==
  /\ Uses \subseteq {"block"} /\ Failures \subseteq {"refused"}
  /\ ~DbFails /\ ~SlowBoot /\ AgentCrashes # "anytime"

OneSweep == call[Boot].at = "idle" \/ call[Loop].at = "idle"

\* A request blocks; a sweep looks at devices and sends what it wants of each,
\* or asserts again what is to be blocked.
Blocks(c) == c.op = "block" /\ c.at \in {"blocking", "obeyed"}
Aims(c) ==
  /\ c.op = "sweep"
  /\ c.at = "blocking" => c.mac \subseteq c.active
  /\ c.at = "unblocking" => ~(c.mac \subseteq c.active)
Reasserts(c, wanted) ==
  /\ c.op = "reaffirm" /\ c.at \in {"blocking", "obeyed"}
  /\ c.mac \subseteq wanted
  /\ \E n \in Nat : c.plan \in [1 .. n -> wanted]

Roles ==
  /\ \A s \in Requests : call[s].at = "idle" \/ Blocks(call[s])
  /\ \A w \in Sweeps : call[w].at = "idle" \/ Aims(call[w]) \/ Reasserts(call[w], Desired)

\* A command was obeyed and is about to be recorded: a block by hand, or a
\* device that its sweep wanted blocked.
ByHand(m) == \E s \in Slots : call[s].at = "obeyed" /\ call[s].op = "block" /\ m \in call[s].mac
Wants(c, m) == c.at = "obeyed" /\ c.op = "sweep" /\ m \in c.mac /\ c.mac \subseteq c.active
Recording(m) == \E w \in Sweeps : Wants(call[w], m)

RulesOwned == \A m \in rules : m \in OnRecord \cup manual \/ ByHand(m) \/ Recording(m)

\* If the router has a rule for the device a sweep has just released, somebody
\* has blocked it by hand since.
Releases(c) == c.at = "obeyed" /\ c.op = "sweep" /\ ~(c.mac \subseteq c.active)
Released ==
  \A w \in Sweeps : Releases(call[w]) =>
    \A m \in call[w].mac \cap rules : m \in manual \/ ByHand(m)

OwnedInv == OneSweep /\ Roles /\ RulesOwned /\ Released

LEMMA SlotsApart == Slots = Requests \cup Sweeps /\ Requests \cap Sweeps = {} /\ Sweeps = {Boot, Loop}
  BY SlotsAssumption DEF Slots, Sweeps

\* A request goes on: its rule stays owned.
LEMMA RequestOwned ==
  ASSUME IInv, OwnedInv, up, ~Loading, NEW s \in Requests, NEW d, Goto(s, d),
         d.at = "idle" \/ Blocks(d),
         manual \subseteq manual',
         rules' \subseteq rules \cup (IF d.at = "obeyed" THEN d.mac ELSE {}),
         call[s].at = "obeyed" => call[s].mac \subseteq manual',
         UNCHANGED <<managed, saved, up>>
  PROVE  OwnedInv'
<1>1. /\ call'[s] = d
      /\ \A r \in Slots : r # s => call'[r] = call[r]
  BY GotoEffect, SlotsApart DEF IInv
<1>2. \A w \in Sweeps : call'[w] = call[w]
  BY <1>1, SlotsApart
<1>3. UNCHANGED OnRecord /\ Desired \subseteq Desired'
  BY <1>2 DEF OnRecord, Desired, Sweeps
<1>4. OneSweep'
  BY <1>2, SlotsApart DEF OwnedInv, OneSweep
<1>5. Roles'
  <2>1. ASSUME NEW w \in Sweeps, Reasserts(call[w], Desired)
        PROVE  Reasserts(call[w], Desired')
    BY <2>1, <1>3 DEF Reasserts
  <2> QED BY <2>1, <1>1, <1>2, SlotsApart DEF OwnedInv, Roles
<1>6. ASSUME NEW m, ByHand(m)
      PROVE  m \in manual' \/ ByHand(m)'
  BY <1>6, <1>1 DEF ByHand
<1>7. ASSUME NEW m \in rules', m \notin rules
      PROVE  ByHand(m)'
  <2>1. d.at = "obeyed" /\ m \in d.mac /\ d.op = "block" /\ s \in Slots
    BY <1>7, SlotsApart DEF Blocks
  <2> QED BY <2>1, <1>1 DEF ByHand
<1>8. RulesOwned'
  BY <1>2, <1>3, <1>6, <1>7 DEF OwnedInv, RulesOwned, Recording
<1>9. Released'
  BY <1>2, <1>6, <1>7 DEF OwnedInv, Released
<1> QED BY <1>4, <1>5, <1>8, <1>9 DEF OwnedInv

\* A sweep goes on, the router left alone: what it stops recording is blocked
\* by hand, and what it was about to record is recorded.
LEMMA SweepOwned ==
  ASSUME IInv, OwnedInv, up, ~Loading, NEW w \in Sweeps, NEW d, Goto(w, d),
         d.at # "load", d.at # "obeyed", call[w].at = "idle" => w = Loop /\ call[Boot].at = "idle",
         d.at = "idle" \/ Aims(d) \/ Reasserts(d, Desired'),
         \A m \in rules \cap managed : m \in managed' \/ m \in manual \/ ByHand(m),
         \A m \in rules : Wants(call[w], m) => m \in managed',
         UNCHANGED <<manual, rules, up>>
  PROVE  OwnedInv'
<1>1. /\ call'[w] = d
      /\ \A r \in Slots : r # w => call'[r] = call[r]
  BY GotoEffect, SlotsApart DEF IInv
<1>2. \A v \in Sweeps : v # w => call[v].at = "idle" /\ call'[v] = call[v]
  BY <1>1, SlotsApart DEF OwnedInv, OneSweep
<1>3. OnRecord = managed /\ OnRecord' = managed'
  BY <1>1, <1>2, SlotsApart DEF OnRecord, Loading
<1>4. OneSweep'
  <2>1. call'[Boot].at = "idle" \/ call'[Loop].at = "idle"
    BY <1>2, SweepsAreSlots, SlotsApart
  <2> QED BY <2>1 DEF OneSweep
<1>9. Roles'
  <2>1. \A s \in Requests : call'[s] = call[s]
    BY <1>1, SlotsApart
  <2>2. \A v \in Sweeps : call'[v].at = "idle" \/ Aims(call'[v]) \/ Reasserts(call'[v], Desired')
    BY <1>1, <1>2, SlotsApart
  <2> QED BY <2>1, <2>2 DEF OwnedInv, Roles
<1>5. \A m : ByHand(m) => ByHand(m)'
  <2> SUFFICES ASSUME NEW m, NEW s \in Slots, call[s].at = "obeyed", call[s].op = "block", m \in call[s].mac
               PROVE  ByHand(m)'
    BY DEF ByHand
  <2>1. s # w
    BY DEF OwnedInv, Roles, Aims, Reasserts
  <2> QED BY <2>1, <1>1 DEF ByHand
<1>6. \A m \in rules : Recording(m) => m \in managed'
  BY <1>2 DEF Recording, Wants
<1>7. RulesOwned'
  BY <1>3, <1>5, <1>6 DEF OwnedInv, RulesOwned
<1>8. Released'
  BY <1>1, <1>2 DEF Released, Releases
<1> QED BY <1>4, <1>9, <1>7, <1>8 DEF OwnedInv

-----------------------------------------------------------------------------

\* One lemma per action.
LEMMA InitOwned == AccessInit => OwnedInv
<1> SUFFICES ASSUME AccessInit PROVE OwnedInv
  OBVIOUS
<1>1. call[Boot] = NoCall("load", "sweep") /\ \A s \in Slots : s # Boot => call[s] = Idle
  BY SweepsAreSlots DEF AccessInit
<1>2. OneSweep
  <2>1. call[Loop].at = "idle"
    BY <1>1, SweepsAreSlots, IdleOK
  <2> QED BY <2>1 DEF OneSweep
<1>3. Roles
  BY <1>1, SlotsApart, IdleOK DEF Roles, Aims, NoCall
<1>4. RulesOwned
  BY DEF AccessInit, RulesOwned
<1>5. \A s \in Slots : call[s].at # "obeyed"
  BY <1>1, IdleOK DEF NoCall
<1>6. Released
  BY <1>5, SlotsApart DEF Released, Releases
<1> QED BY <1>2, <1>3, <1>4, <1>6 DEF OwnedInv

LEMMA RequestKeepsOwners ==
  ASSUME IInv, OwnedInv, BlocksOnly, up,
         NEW s \in Requests, NEW m \in Macs, NEW op \in Uses, Request(s, m, op)
  PROVE  OwnedInv'
<1> DEFINE d == OnDevice("blocking", "block", m)
<1>1. op = "block" /\ call[s] = Idle /\ call[Boot].at # "load"
      /\ Goto(s, d) /\ UNCHANGED <<manual, managed, saved, rules, up>>
  BY DEF BlocksOnly, Request
<1>2. Blocks(d) /\ d.at = "blocking"
  BY DEF OnDevice, NoCall, Blocks
<1> HIDE DEF d
<1> QED BY <1>1, <1>2, IdleOK, RequestOwned DEF Loading

LEMMA RequestStepKeepsOwners ==
  ASSUME IInv, OwnedInv, up, NEW s \in Requests, RequestStep(s)
  PROVE  OwnedInv'
<1>1. call[s].at \notin {"readManual", "guardPause", "guardSchedule"} /\ (call[s].at # "idle" => Blocks(call[s]))
  BY DEF OwnedInv, Roles, Blocks
<1>2. RequestDone(s) /\ call[s].op = "block" /\ call[s].at = "obeyed"
  BY <1>1 DEF RequestStep, Guards, RequestDone, Blocks
<1>3. ~Loading
  BY <1>2, GoingOn, SlotsApart
<1>4. /\ Goto(s, Idle) /\ manual' = manual \cup call[s].mac
      /\ UNCHANGED <<managed, saved, rules, up>>
  BY <1>2 DEF RequestDone
<1> QED BY <1>3, <1>4, IdleOK, RequestOwned

LEMMA LoadKeepsOwners ==
  ASSUME IInv, OwnedInv, up, Load
  PROVE  OwnedInv'
<1> DEFINE d == [call[Boot] EXCEPT !.at = "schedules"]
<1>1. Goto(Boot, d) /\ call[Boot].at = "load" /\ managed' = managed \cup saved
      /\ UNCHANGED <<rows, rules, up, saved>>
  BY MoveIsGoto DEF Load
<1>2. CallOK(call[Boot]) /\ call[Boot].op = "sweep"
  BY <1>1, SlotsApart, SweepsAreSlots DEF OwnedInv, Roles, Aims, Reasserts, IInv, CallsOK
<1>3. d.at = "schedules" /\ d.op = "sweep"
  BY <1>2 DEF CallOK, Calls
<1> HIDE DEF d
<1>4. /\ call'[Boot] = d
      /\ \A r \in Slots : r # Boot => call'[r] = call[r] /\ call[r].at = "idle"
  BY <1>1, GotoEffect, SweepsAreSlots DEF IInv, LoadOK, Loading
<1>5. OneSweep' /\ Roles'
  <2>1. Aims(d)
    BY <1>3 DEF Aims
  <2>2. \A r \in Slots : r # Boot => call'[r].at = "idle"
    BY <1>4
  <2>3. OneSweep'
    BY <2>2, SweepsAreSlots DEF OneSweep
  <2>4. \A s \in Requests : call'[s].at = "idle"
    BY <2>2, SlotsApart
  <2>5. \A w \in Sweeps : call'[w].at = "idle" \/ Aims(call'[w])
    BY <1>4, <2>1, <2>2, SlotsApart
  <2> QED BY <2>3, <2>4, <2>5 DEF Roles
<1>6. \A s \in Slots : call[s].at # "obeyed" /\ call'[s].at # "obeyed"
  BY <1>1, <1>3, <1>4
<1>7. OnRecord = managed' /\ OnRecord' = managed'
  BY <1>1, <1>3, <1>4 DEF OnRecord
<1>8. RulesOwned'
  BY <1>1, <1>6, <1>7, SlotsApart DEF OwnedInv, RulesOwned, ByHand, Recording, Wants, rows
<1>9. Released'
  BY <1>6, SlotsApart DEF Released, Releases
<1> QED BY <1>5, <1>8, <1>9 DEF OwnedInv

LEMMA SweepSchedulesKeepsOwners ==
  ASSUME IInv, OwnedInv, BlocksOnly, up, NEW w \in Sweeps, SweepSchedules(w)
  PROVE  OwnedInv'
<1> DEFINE d == [NoCall("pauses", "sweep") EXCEPT !.active = scheduled]
<1>1. Goto(w, d) /\ UNCHANGED <<rows, managed, rules, up>>
  BY DEF SweepSchedules
<1>2. Aims(d) /\ d.at = "pauses"
  BY DEF NoCall, Aims
<1>3. call[w].at = "schedules" \/ (w = Loop /\ call[w] = Idle /\ call[Boot] = Idle)
  BY DEF SweepSchedules, BootIsOver, BlocksOnly
<1>4. ~Loading
  BY <1>3, GoingOn, SweepsAreSlots, IdleOK DEF Loading
<1>5. call[w].at = "idle" => w = Loop /\ call[Boot].at = "idle"
  BY <1>3, IdleOK
<1>6. ~Wants(call[w], call[w].mac) /\ \A m : ~Wants(call[w], m)
  BY <1>3, IdleOK DEF Wants
<1> HIDE DEF d
<1> QED BY <1>1, <1>2, <1>4, <1>5, <1>6, SweepOwned DEF rows

\* Where Proceed goes, the sweep is looking at devices or at their persist.
LEMMA ProceedAims ==
  ASSUME IInv, up, NEW w, NEW c, CallOK(c), c.op = "sweep", NEW now, Proceed(w, c, now)
  PROVE  \E d : Goto(w, d) /\ Aims(d) /\ d.at \notin {"load", "obeyed"}
<1>1. PICK q, p : c \in Calls(q, p)
  BY DEF CallOK
<1>2. ASSUME NEW m, Goto(w, [c EXCEPT !.at = "device", !.mac = {m}, !.todo = @ \ {m}])
      PROVE  \E d : Goto(w, d) /\ Aims(d) /\ d.at \notin {"load", "obeyed"}
  <2> DEFINE d == [c EXCEPT !.at = "device", !.mac = {m}, !.todo = @ \ {m}]
  <2>1. d.at = "device" /\ d.op = "sweep"
    BY <1>1 DEF Calls
  <2> HIDE DEF d
  <2>2. Goto(w, d)
    BY <1>2 DEF d
  <2> QED BY <2>1, <2>2 DEF Aims
<1>3. ASSUME NEW at \in {"persist", "manuals"}, Goto(w, NoCall(at, "sweep"))
      PROVE  \E d : Goto(w, d) /\ Aims(d) /\ d.at \notin {"load", "obeyed"}
  BY <1>3 DEF NoCall, Aims
<1> QED BY <1>2, <1>3 DEF Proceed

LEMMA SweepPausesKeepsOwners ==
  ASSUME IInv, OwnedInv, up, NEW w \in Sweeps, SweepPauses(w)
  PROVE  OwnedInv'
<1> DEFINE active == call[w].active \cup paused
           c == [call[w] EXCEPT !.active = active, !.todo = active \cup managed]
<1>1. w \in Slots /\ call[w].at = "pauses" /\ CallOK(call[w])
  BY SweepsAreSlots DEF SweepPauses, IInv, CallsOK
<1>2. PICK m, p : call[w] \in Calls(m, p) /\ m = call[w].mac /\ p = call[w].plan
  BY <1>1 DEF CallOK
<1>3. active \in Values /\ managed \in Values
  BY <1>2 DEF Calls, Values, IInv, TypesOK
<1>4. /\ c \in Calls(m, p) /\ c.at = call[w].at /\ c.op = call[w].op
      /\ c.mac = m /\ c.plan = p /\ c.changed = call[w].changed
  BY <1>2, <1>3 DEF Calls, Values
<1>5. CallOK(c) /\ c.op = "sweep"
  BY <1>1, <1>2, <1>4 DEF CallOK
<1>6. Proceed(w, c, managed) /\ UNCHANGED <<manual, managed, rules, up>>
  BY DEF SweepPauses, rows
<1> HIDE DEF c, active
<1>7. PICK d : Goto(w, d) /\ Aims(d) /\ d.at \notin {"load", "obeyed"}
  BY <1>5, <1>6, ProceedAims
<1>8. ~Loading
  BY <1>1, GoingOn
<1>9. \A q : ~Wants(call[w], q)
  BY <1>1 DEF Wants
<1> QED BY <1>1, <1>6, <1>7, <1>8, <1>9, SweepOwned

\* What a sweep records of its device.
LEMMA RecordKeepsOwners ==
  ASSUME IInv, OwnedInv, up, NEW w \in Sweeps, Record(w), call[w].op = "sweep",
         call[w].at = "obeyed" \/ (call[w].at = "device" /\ call[w].mac \subseteq manual),
         UNCHANGED <<manual, rules, up>>
  PROVE  OwnedInv'
<1> DEFINE c == [call[w] EXCEPT !.changed = TRUE]
<1>1. w \in Slots /\ CallOK(call[w])
  BY SweepsAreSlots DEF IInv, CallsOK
<1>2. PICK m, p : call[w] \in Calls(m, p) /\ m = call[w].mac /\ p = call[w].plan
  BY <1>1 DEF CallOK
<1>3. /\ c \in Calls(m, p) /\ c.at = call[w].at /\ c.op = call[w].op
      /\ c.mac = m /\ c.plan = p /\ c.changed = TRUE
  BY <1>2 DEF Calls
<1>4. CallOK(c) /\ c.op = "sweep"
  <2>1. w \in Sweeps
    OBVIOUS
  <2> QED BY <1>1, <1>2, <1>3 DEF CallOK
<1>5. Proceed(w, c, managed') /\ managed' = Recorded(call[w])
  BY DEF Record
<1> HIDE DEF c
<1>6. PICK d : Goto(w, d) /\ Aims(d) /\ d.at \notin {"load", "obeyed"}
  BY <1>4, <1>5, ProceedAims
<1>7. ~Loading
  BY <1>1, GoingOn
<1>8. ASSUME NEW q \in rules \cap managed
      PROVE  q \in managed' \/ q \in manual \/ ByHand(q)
  <2>1. CASE call[w].mac \subseteq call[w].active
    BY <1>5, <2>1 DEF Recorded
  <2>2. CASE ~(call[w].mac \subseteq call[w].active) /\ call[w].at = "obeyed"
    <3>1. Releases(call[w])
      BY <2>2 DEF Releases
    <3> QED BY <1>5, <2>2, <3>1 DEF Recorded, OwnedInv, Released
  <2> QED BY <1>5, <2>1, <2>2 DEF Recorded
<1>9. \A q \in rules : Wants(call[w], q) => q \in managed'
  BY <1>5 DEF Wants, Recorded
<1> QED BY <1>6, <1>7, <1>8, <1>9, SweepOwned

LEMMA SweepDeviceKeepsOwners ==
  ASSUME IInv, OwnedInv, up, NEW w \in Sweeps, SweepDevice(w) \/ SweepDone(w)
  PROVE  OwnedInv'
<1>1. w \in Slots /\ CallOK(call[w]) /\ call[w].at \in {"device", "obeyed"} /\ call[w].op = "sweep"
  BY SweepsAreSlots DEF SweepDevice, SweepDone, IInv, CallsOK, CallOK
<1>2. UNCHANGED <<manual, rules, up>>
  BY DEF SweepDevice, SweepDone, rows
<1>3. CASE SweepDone(w) \/ call[w].mac \subseteq manual
  <2>1. Record(w) /\ (call[w].at = "obeyed" \/ (call[w].at = "device" /\ call[w].mac \subseteq manual))
    BY <1>3 DEF SweepDevice, SweepDone
  <2> QED BY <1>1, <1>2, <2>1, RecordKeepsOwners
<1>4. CASE SweepDevice(w) /\ ~(call[w].mac \subseteq manual)
  <2> DEFINE at == IF call[w].mac \subseteq call[w].active THEN "blocking" ELSE "unblocking"
             d == [call[w] EXCEPT !.at = at]
  <2>1. Goto(w, d) /\ UNCHANGED managed /\ call[w].at = "device"
    BY <1>4, MoveIsGoto DEF SweepDevice, SweepDone
  <2>2. PICK m, p : call[w] \in Calls(m, p)
    BY <1>1 DEF CallOK
  <2>3. d.at = at /\ d.op = "sweep" /\ d.mac = call[w].mac /\ d.active = call[w].active
    BY <1>1, <2>2 DEF Calls
  <2>4. Aims(d) /\ d.at \notin {"load", "obeyed"}
    BY <2>3 DEF Aims
  <2>5. ~Loading /\ \A q : ~Wants(call[w], q)
    BY <1>1, <2>1, GoingOn DEF Wants
  <2> HIDE DEF d, at
  <2> QED BY <1>1, <1>2, <2>1, <2>4, <2>5, SweepOwned
<1> QED BY <1>3, <1>4

-----------------------------------------------------------------------------
\* Only what is to be blocked is asserted again.
LEMMA SendKeepsOwners ==
  ASSUME IInv, OwnedInv, up, NEW w \in Sweeps, call[w].at \notin {"idle", "load"},
         call[w].op = "sweep" => call[w].at # "obeyed",
         NEW n \in Nat, NEW plan \in [1 .. n -> Desired], SendReaffirmations(w, plan),
         UNCHANGED <<managed, manual, rules, up>>
  PROVE  OwnedInv'
<1>1. ~Loading /\ \A q : ~Wants(call[w], q)
  BY GoingOn, SweepsAreSlots DEF Wants
<1>2. UNCHANGED Desired
  BY DEF Desired
<1>3. CASE plan = <<>>
  BY <1>1, <1>3, IdleOK, SweepOwned DEF SendReaffirmations
<1>4. CASE plan # <<>>
  <2> DEFINE d == [OnDevice("blocking", "reaffirm", Head(plan)) EXCEPT !.plan = Tail(plan)]
  <2>1. Goto(w, d)
    BY <1>4 DEF SendReaffirmations
  <2>2. plan \in Seq(Desired) /\ Len(plan) \in Nat \ {0}
    <3>1. plan \in Seq(Desired)
      OBVIOUS
    <3> QED BY <1>4, <3>1, EmptySeq
  <2>3. Head(plan) \in Desired /\ Tail(plan) \in Seq(Desired) /\ Len(Tail(plan)) \in Nat
        /\ Tail(plan) \in [1 .. Len(Tail(plan)) -> Desired]
    BY <1>4, <2>2, HeadTailProperties, LenProperties
  <2>4. d.at = "blocking" /\ d.op = "reaffirm" /\ d.mac = {Head(plan)} /\ d.plan = Tail(plan)
    BY DEF OnDevice, NoCall
  <2> HIDE DEF d
  <2>5. Reasserts(d, Desired')
    BY <1>2, <2>3, <2>4 DEF Reasserts
  <2> QED BY <1>1, <2>1, <2>4, <2>5, SweepOwned
<1> QED BY <1>3, <1>4

LEMMA SweepManualsKeepsOwners ==
  ASSUME IInv, OwnedInv, up, NEW w \in Sweeps, SweepManuals(w)
  PROVE  OwnedInv'
<1> DEFINE cut(order) == IF Len(order) < Cap THEN Len(order) ELSE Cap
<1>1. PICK order \in DueOrders : SendReaffirmations(w, SubSeq(order, 1, cut(order)))
  BY DEF SweepManuals
<1>2. order \in [1 .. Cardinality(Desired \ fresh) -> Desired \ fresh]
  BY DEF DueOrders, OrdersBy, SetToSeqs
<1>3. Cardinality(Desired \ fresh) \in Nat
  <2>1. Desired \ fresh \subseteq Macs
    BY DEF Desired, IInv, TypesOK, Values
  <2> QED BY <2>1, MacsAssumption, FS_Subset, FS_CardinalityType
<1>4. order \in Seq(Desired) /\ Len(order) \in Nat
  <2> DEFINE k == Cardinality(Desired \ fresh)
  <2>1. k \in Nat /\ order \in [1 .. k -> Desired]
    BY <1>2, <1>3
  <2> HIDE DEF k
  <2>2. order \in Seq(Desired)
    BY <2>1
  <2> QED BY <2>2, LenProperties
<1>5. cut(order) \in Nat /\ cut(order) <= Len(order)
  BY <1>4, CapAssumption
<1> HIDE DEF cut
<1>6. SubSeq(order, 1, cut(order)) \in [1 .. cut(order) -> Desired]
  <2> DEFINE k == cut(order)
             plan == SubSeq(order, 1, k)
  <2>1. k \in Nat /\ k <= Len(order)
    BY <1>5
  <2> HIDE DEF k
  <2>2. \A i \in 1 .. k : order[i] \in Desired
    BY <1>4, <2>1, LenProperties
  <2>3. plan \in Seq(Desired) /\ Len(plan) = IF 1 <= k THEN k - 1 + 1 ELSE 0
    BY <2>1, <2>2, SubSeqProperties
  <2>4. Len(plan) = k
    BY <2>1, <2>3
  <2> HIDE DEF plan
  <2>5. plan \in [1 .. k -> Desired]
    BY <2>3, <2>4, LenProperties
  <2> QED BY <2>5 DEF plan, k
<1> QED BY <1>1, <1>5, <1>6, SendKeepsOwners DEF SweepManuals, rows

LEMMA ReaffirmedKeepsOwners ==
  ASSUME IInv, OwnedInv, up, NEW w \in Sweeps, Reaffirmed(w)
  PROVE  OwnedInv'
<1>1. Reasserts(call[w], Desired)
  BY DEF Reaffirmed, OwnedInv, Roles, Aims
<1> QED BY <1>1, SendKeepsOwners DEF Reaffirmed, Reasserts, rows

-----------------------------------------------------------------------------
LEMMA ObeysKeepsOwners ==
  ASSUME IInv, OwnedInv, up, NEW s \in Slots, NEW m, NEW kind \in Sending, Obeys(s, m, kind)
  PROVE  OwnedInv'
<1> DEFINE d == [call[s] EXCEPT !.at = "obeyed"]
<1>1. /\ call[s].at = kind /\ kind \in {"blocking", "unblocking"}
      /\ rules' = IF kind = "blocking" THEN rules \cup call[s].mac ELSE rules \ call[s].mac
      /\ Goto(s, d) /\ UNCHANGED <<manual, managed, saved, up>>
  BY MoveIsGoto DEF Obeys, Sending, Effect, rows
<1>2. CallOK(call[s]) /\ ~Loading
  BY <1>1, GoingOn DEF IInv, CallsOK
<1>3. PICK mac, plan : call[s] \in Calls(mac, plan)
  BY <1>2 DEF CallOK
<1>4. /\ d.at = "obeyed" /\ d.op = call[s].op /\ d.mac = call[s].mac
      /\ d.active = call[s].active /\ d.plan = call[s].plan
  BY <1>3 DEF Calls
<1> HIDE DEF d
<1>5. CASE s \in Requests
  <2>1. Blocks(call[s])
    BY <1>1, <1>5 DEF OwnedInv, Roles
  <2>2. Blocks(d) /\ kind = "blocking"
    BY <1>1, <1>4, <2>1 DEF Blocks
  <2> QED BY <1>1, <1>2, <1>4, <1>5, <2>2, RequestOwned
<1>6. CASE s \in Sweeps
  <2>1. /\ call'[s] = d
        /\ \A r \in Slots : r # s => call'[r] = call[r]
    BY <1>1, GotoEffect DEF IInv
  <2>2. \A v \in Sweeps : v # s => call[v].at = "idle" /\ call'[v] = call[v]
    BY <1>1, <1>6, <2>1, SlotsApart DEF OwnedInv, OneSweep
  <2>3. OnRecord = managed /\ OnRecord' = managed /\ UNCHANGED Desired
    BY <1>1, <1>2, <1>4, <2>1, <2>2, SlotsApart DEF OnRecord, Loading, Desired
  <2>4. Aims(call[s]) \/ Reasserts(call[s], Desired)
    BY <1>1, <1>6 DEF OwnedInv, Roles
  <2>5. Aims(d) \/ Reasserts(d, Desired')
    BY <1>1, <1>4, <2>3, <2>4 DEF Aims, Reasserts
  <2>6. OneSweep'
    <3>1. call'[Boot].at = "idle" \/ call'[Loop].at = "idle"
      BY <2>2, SweepsAreSlots, SlotsApart
    <3> QED BY <3>1 DEF OneSweep
  <2>7. Roles'
    <3>1. \A r \in Requests : call'[r] = call[r]
      BY <1>6, <2>1, SlotsApart
    <3>2. \A v \in Sweeps : call'[v].at = "idle" \/ Aims(call'[v]) \/ Reasserts(call'[v], Desired')
      BY <2>1, <2>2, <2>5, SlotsApart
    <3> QED BY <3>1, <3>2 DEF OwnedInv, Roles
  <2>8. \A q : ByHand(q) => ByHand(q)'
    BY <1>1, <2>1 DEF ByHand
  <2>9. \A q : ~Recording(q)
    BY <1>1, <2>2 DEF Recording, Wants
  <2>10. CASE kind = "blocking" /\ call[s].op = "sweep"
    <3>1. call[s].mac \subseteq call[s].active
      BY <1>1, <2>4, <2>10 DEF Aims, Reasserts
    <3>2. \A q \in call[s].mac : Recording(q)'
      BY <1>4, <1>6, <2>1, <2>10, <3>1 DEF Recording, Wants
    <3>3. RulesOwned'
      BY <1>1, <2>3, <2>8, <2>9, <2>10, <3>2 DEF OwnedInv, RulesOwned
    <3>4. Released'
      BY <1>4, <2>1, <2>2, <3>1 DEF Released, Releases
    <3> QED BY <2>6, <2>7, <3>3, <3>4 DEF OwnedInv
  <2>11. CASE kind = "blocking" /\ call[s].op # "sweep"
    <3>1. call[s].op = "reaffirm" /\ call[s].mac \subseteq Desired
      BY <2>4, <2>11 DEF Aims, Reasserts
    <3>2. RulesOwned'
      BY <1>1, <2>3, <2>8, <2>9, <2>11, <3>1 DEF OwnedInv, RulesOwned, Desired
    <3>3. Released'
      BY <1>4, <2>1, <2>2, <3>1 DEF Released, Releases
    <3> QED BY <2>6, <2>7, <3>2, <3>3 DEF OwnedInv
  <2>12. CASE kind = "unblocking"
    <3>1. rules' \subseteq rules /\ call[s].mac \cap rules' = {}
      BY <1>1, <2>12
    <3>2. RulesOwned'
      BY <1>1, <2>3, <2>8, <2>9, <3>1 DEF OwnedInv, RulesOwned
    <3>3. Released'
      BY <1>4, <2>1, <2>2, <3>1 DEF Released, Releases
    <3> QED BY <2>6, <2>7, <3>2, <3>3 DEF OwnedInv
  <2> QED BY <1>1, <2>10, <2>11, <2>12
<1> QED BY <1>5, <1>6, SlotsApart

LEMMA FailsKeepsOwners ==
  ASSUME IInv, OwnedInv, BlocksOnly, up, NEW s \in Slots, Fails(s)
  PROVE  OwnedInv'
<1>1. call[s].at \in {"blocking", "unblocking"} /\ CallOK(call[s])
      /\ rules' = rules /\ UNCHANGED <<manual, saved, up>>
  BY DEF Fails, Sending, BlocksOnly, IInv, CallsOK, rows
<1>2. ~Loading /\ \A q : ~Wants(call[s], q)
  BY <1>1, GoingOn DEF Wants
<1>3. CASE s \in Requests
  <2>1. call[s].op = "block"
    BY <1>1, <1>3 DEF OwnedInv, Roles, Blocks
  <2>2. Goto(s, Idle) /\ UNCHANGED managed
    BY <2>1 DEF Fails
  <2> QED BY <1>1, <1>2, <1>3, <2>2, IdleOK, RequestOwned
<1>4. CASE s \in Sweeps /\ call[s].op = "sweep"
  <2>1. managed' = managed /\ Proceed(s, call[s], managed)
    BY <1>4 DEF Fails, RecordOnFailure
  <2>2. PICK d : Goto(s, d) /\ Aims(d) /\ d.at \notin {"load", "obeyed"}
    BY <1>1, <1>4, <2>1, ProceedAims
  <2> QED BY <1>1, <1>2, <1>4, <2>1, <2>2, SweepOwned
<1>5. CASE s \in Sweeps /\ call[s].op # "sweep"
  <2>1. Reasserts(call[s], Desired)
    BY <1>1, <1>5 DEF OwnedInv, Roles, Aims
  <2>2. SendReaffirmations(s, call[s].plan) /\ UNCHANGED managed
    BY <2>1 DEF Fails, Reasserts
  <2> QED BY <1>1, <1>5, <2>1, <2>2, SendKeepsOwners DEF Reasserts
<1> QED BY <1>3, <1>4, <1>5, SlotsApart

LEMMA WriteLandsKeepsOwners ==
  ASSUME IInv, OwnedInv, WriteLands
  PROVE  OwnedInv'
<1> DEFINE s == Head(writes).slot
           d == IF s \in Sweeps THEN NoCall("manuals", "sweep") ELSE Idle
<1>1. up /\ writes # <<>> /\ Goto(s, d) /\ UNCHANGED <<manual, managed, rules, up>>
  BY DEF WriteLands, Answered, rows
<1>2. s \in Slots /\ call[s].at = "persist"
  <2>1. 1 \in DOMAIN writes /\ Head(writes) = writes[1]
    BY <1>1, EmptySeq, LenProperties DEF IInv, TypesOK
  <2> QED BY <2>1, QueueTypes DEF IInv, QueueOK
<1>3. s \in Sweeps
  BY <1>2, SlotsApart DEF OwnedInv, Roles, Blocks
<1>4. d = NoCall("manuals", "sweep")
  BY <1>3
<1>5. d.at = "manuals" /\ Aims(d)
  BY <1>4 DEF NoCall, Aims
<1> HIDE DEF d, s
<1>6. ~Loading /\ \A q : ~Wants(call[s], q)
  BY <1>1, <1>2, GoingOn DEF Wants
<1> QED BY <1>1, <1>2, <1>3, <1>5, <1>6, SweepOwned

\* A crash between commands finds the record in its row.
LEMMA CrashKeepsOwners ==
  ASSUME IInv, OwnedInv, BlocksOnly, ~behind, AgentCrash
  PROVE  OwnedInv'
<1>1. /\ BetweenCommands /\ up' = FALSE /\ call' = [s \in Slots |-> Idle]
      /\ managed' = {} /\ UNCHANGED <<manual, saved>>
  BY DEF AgentCrash, BlocksOnly, rows
<1>2. rules' = rules
  <2>1. {s \in Slots : call[s].at \in Sending} = {}
    BY <1>1 DEF BetweenCommands
  <2>2. PICK sent \in SUBSET {s \in Slots : call[s].at \in Sending} :
          rules' = (rules \cup UNION {call[s].mac : s \in {t \in sent : call[t].at = "blocking"}})
                   \ UNION {call[s].mac : s \in {t \in sent : call[t].at = "unblocking"}}
    BY DEF AgentCrash
  <2>3. sent = {}
    BY <2>1
  <2> QED BY <2>2, <2>3
<1>3. \A s \in Slots : call'[s].at = "idle"
  BY <1>1, IdleOK
<1>4. OneSweep' /\ Roles' /\ Released'
  BY <1>3, SweepsAreSlots, SlotsApart DEF OneSweep, Roles, Released, Releases
<1>5. \A s \in Slots : call[s].at \notin {"obeyed", "persist"} /\ ~call[s].changed
  BY <1>1 DEF BetweenCommands
<1>6. \A m \in rules : m \in OnRecord \cup manual
  BY <1>5, SlotsApart DEF OwnedInv, RulesOwned, ByHand, Recording, Wants
<1>7. OnRecord \subseteq saved
  <2>1. CASE Loading
    BY <2>1 DEF OnRecord, Loading, IInv, LoadOK
  <2>2. CASE ~Loading
    <3>1. writes = <<>>
      <4>1. SUFFICES ASSUME writes # <<>> PROVE FALSE
        OBVIOUS
      <4>2. 1 \in DOMAIN writes
        BY <4>1, EmptySeq, LenProperties DEF IInv, TypesOK
      <4> QED BY <4>2, <1>5, QueueTypes DEF IInv, QueueOK
    <3>2. Stored = saved
      BY <3>1 DEF Stored
    <3>3. saved = managed
      BY <2>2, <3>2, <1>5, SlotsApart DEF IInv, StoredOK
    <3> QED BY <2>2, <3>3 DEF OnRecord, Loading
  <2> QED BY <2>1, <2>2
<1>8. OnRecord' = saved
  BY <1>1 DEF OnRecord
<1>9. RulesOwned'
  BY <1>1, <1>2, <1>6, <1>7, <1>8 DEF RulesOwned
<1> QED BY <1>4, <1>9 DEF OwnedInv

LEMMA RestartKeepsOwners ==
  ASSUME IInv, OwnedInv, Restart
  PROVE  OwnedInv'
<1> DEFINE d == NoCall("load", "sweep")
<1>1. ~up /\ Goto(Boot, d) /\ UNCHANGED <<manual, managed, saved, rules>>
  BY DEF Restart, rows
<1>2. d.at = "load" /\ Aims(d)
  BY DEF NoCall, Aims
<1> HIDE DEF d
<1>3. /\ call'[Boot] = d
      /\ \A r \in Slots : r # Boot => call'[r] = call[r] /\ call[r].at = "idle"
      /\ call[Boot].at = "idle"
  BY <1>1, GotoEffect, SweepsAreSlots DEF IInv, LoadOK, Loading
<1>4. OneSweep' /\ Roles' /\ Released'
  BY <1>2, <1>3, SlotsApart, SweepsAreSlots DEF OneSweep, Roles, Released, Releases
<1>5. OnRecord = managed \cup saved /\ OnRecord' = managed \cup saved
  BY <1>1, <1>2, <1>3 DEF OnRecord
<1>6. \A s \in Slots : call[s].at = "idle"
  BY <1>3
<1>7. RulesOwned'
  BY <1>1, <1>5, <1>6, SlotsApart DEF OwnedInv, RulesOwned, ByHand, Recording, Wants
<1> QED BY <1>4, <1>7 DEF OwnedInv

\* A database that refuses nothing leaves no row behind.
LEMMA NeverBehind == ~DbFails /\ ~behind /\ [AccessNext]_accessVars => ~behind'
<1> SUFFICES ASSUME ~DbFails, ~behind, [AccessNext]_accessVars PROVE ~behind'
  OBVIOUS
<1>1. ASSUME NEW s, NEW c, NEW now, Proceed(s, c, now)
      PROVE  ~behind'
  BY <1>1 DEF Proceed, Persist
<1>2. ASSUME NEW s, NEW m, NEW op, Request(s, m, op) \/ RequestStep(s)
      PROVE  ~behind'
  BY <1>2 DEF Request, RequestStep, Guards, RequestDone, Persist
<1>3. ASSUME NEW w, SweepStep(w)
      PROVE  ~behind'
  BY <1>1, <1>3 DEF SweepStep, SweepSchedules, SweepPauses, SweepDevice, SweepDone,
     SweepManuals, Reaffirmed, Record
<1>4. ASSUME NEW s, Answer(s)
      PROVE  ~behind'
  BY <1>1, <1>4 DEF Answer, Obeys, Fails
<1>5. CASE Load \/ RouterReboot \/ MarkAges \/ (\E m \in Macs : WindowMoves(m) \/ PauseEnds(m))
           \/ UNCHANGED accessVars
  BY <1>5 DEF Load, RouterReboot, MarkAges, WindowMoves, PauseEnds, accessVars
<1>6. CASE WriteLands \/ WriteFails \/ (\E s \in Slots : StatementFails(s)) \/ AgentCrash \/ Restart
  BY <1>6 DEF WriteLands, WriteFails, StatementFails, AgentCrash, Restart
<1> QED BY <1>2, <1>3, <1>4, <1>5, <1>6 DEF AccessNext

LEMMA NextKeepsOwners ==
  BlocksOnly /\ IInv /\ OwnedInv /\ ~behind /\ [AccessNext]_accessVars => OwnedInv'
<1> SUFFICES ASSUME BlocksOnly, IInv, OwnedInv, ~behind, [AccessNext]_accessVars PROVE OwnedInv'
  OBVIOUS
<1>1. ASSUME up, NEW s \in Requests, NEW m \in Macs, NEW op \in Uses, Request(s, m, op)
      PROVE  OwnedInv'
  BY <1>1, RequestKeepsOwners
<1>2. ASSUME up, NEW s \in Requests, RequestStep(s)
      PROVE  OwnedInv'
  BY <1>2, RequestStepKeepsOwners
<1>3. CASE up /\ Load
  BY <1>3, LoadKeepsOwners
<1>4. ASSUME up, NEW w \in Sweeps, SweepStep(w)
      PROVE  OwnedInv'
  BY <1>4, SweepSchedulesKeepsOwners, SweepPausesKeepsOwners, SweepDeviceKeepsOwners,
     SweepManualsKeepsOwners, ReaffirmedKeepsOwners DEF SweepStep
<1>5. ASSUME up, NEW s \in Slots, Answer(s)
      PROVE  OwnedInv'
  BY <1>5, ObeysKeepsOwners, FailsKeepsOwners DEF Answer
<1>6. ASSUME rules' \subseteq rules, UNCHANGED <<manual, managed, saved, call, up>>
      PROVE  OwnedInv'
  <2>1. UNCHANGED <<OneSweep, Roles, OnRecord>>
    BY <1>6 DEF OneSweep, Roles, OnRecord, Desired, Blocks, Aims, Reasserts
  <2>2. \A m : (ByHand(m) <=> ByHand(m)') /\ (Recording(m) <=> Recording(m)')
    BY <1>6 DEF ByHand, Recording
  <2>3. RulesOwned' /\ Released'
    BY <1>6, <2>1, <2>2 DEF OwnedInv, RulesOwned, Released
  <2> QED BY <2>1, <2>3 DEF OwnedInv
<1>7. CASE RouterReboot \/ MarkAges \/ (\E m \in Macs : WindowMoves(m) \/ PauseEnds(m)) \/ UNCHANGED accessVars
  BY <1>6, <1>7 DEF RouterReboot, MarkAges, WindowMoves, PauseEnds, accessVars, rows
<1>9. ~WriteFails /\ \A s \in Slots : ~StatementFails(s)
  BY DEF BlocksOnly, WriteFails, StatementFails
<1>8. CASE WriteLands \/ AgentCrash \/ Restart
  BY <1>8, WriteLandsKeepsOwners, CrashKeepsOwners, RestartKeepsOwners
<1> QED BY <1>1, <1>2, <1>3, <1>4, <1>5, <1>7, <1>8, <1>9 DEF AccessNext

\* In such a house, whoever blocks and however often the process dies between
\* two commands, the commands are refused and the router forgets its rules,
\* every rule in the router has someone who will lift it.
THEOREM RulesAreOwned == BlocksOnly => (AccessSpec => []EveryRuleIsOwned)
<1> SUFFICES ASSUME BlocksOnly PROVE AccessSpec => []EveryRuleIsOwned
  OBVIOUS
<1>1. OwnedInv => EveryRuleIsOwned
  BY SlotsApart DEF OwnedInv, RulesOwned, EveryRuleIsOwned, ByHand, Recording, Wants, Working
<1>2. IInv /\ OwnedInv /\ ~behind /\ [AccessNext]_accessVars => OwnedInv' /\ ~behind'
  BY NextKeepsOwners, NeverBehind DEF BlocksOnly
<1>3. AccessInit => ~behind
  BY DEF AccessInit
<1> QED BY <1>1, <1>2, <1>3, InitInvariant, NextInvariant, InitOwned, PTL DEF AccessSpec
=============================================================================
