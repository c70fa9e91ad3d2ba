-------------------------- MODULE Automations_proofs --------------------------
(***************************************************************************)
(* Proofs about Automations, for any devices, rules, calendars and number  *)
(* of handlers in flight: what the watcher takes for known has been told,  *)
(* of every device it was not blind to,                                    *)
(* cooldowns hold between events that race, and every instant of the       *)
(* schedule is fired or settled once.                                      *)
(***************************************************************************)
EXTENDS Automations, SequenceTheorems, FiniteSetTheorems, TLAPS

LEMMA OrderNamesAll ==
  ASSUME NEW S, IsFiniteSet(S), NEW order \in SetToSeqs(S)
  PROVE  /\ Cardinality(S) \in Nat /\ DOMAIN order = 1 .. Cardinality(S)
         /\ \A i \in DOMAIN order : order[i] \in S
         /\ \A x \in S : \E i \in DOMAIN order : order[i] = x
<1> DEFINE n == Cardinality(S)
<1>1. n \in Nat
  BY FS_CardinalityType
<1>2. order \in [1 .. n -> S] /\ \A i, j \in 1 .. n : i # j => order[i] # order[j]
  BY DEF SetToSeqs
<1>3. order \in Injection(1 .. n, S)
  BY <1>2 DEF Injection, IsInjective
<1>4. Cardinality(1 .. n) = n
  BY <1>1, FS_Interval
<1>5. order \in Surjection(1 .. n, S)
  BY <1>3, <1>4, FS_Injection
<1> QED BY <1>1, <1>2, <1>5 DEF Surjection

-----------------------------------------------------------------------------
\* Rules, their lists and the jobs that fire them.

LEMMA RulesFinite == IsFiniteSet(Rules)
<1> DEFINE n == Len(Order)
<1>1. n \in Nat /\ Order \in [1 .. n -> Rules]
  BY RoutinesAssumption, LenProperties
<1>2. Order \in Surjection(1 .. n, Rules)
  BY <1>1 DEF Surjection, Rules, ToSet
<1>3. IsFiniteSet(1 .. n)
  BY <1>1, FS_Interval
<1> QED BY <1>2, <1>3, FS_Surjection

\* What comes listed is what was chosen, each rule once.
LEMMA ListNamesChosen ==
  ASSUME NEW chosen \in SUBSET Rules, NEW list \in Listed(chosen)
  PROVE  /\ list \in Seq(Rules) /\ ToSet(list) = chosen
         /\ \A i \in DOMAIN list : list[i] \in chosen
         /\ \A i, j \in DOMAIN list : i # j => list[i] # list[j]
<1> DEFINE n == Cardinality(chosen)
<1>1. list \in SetToSeqs(chosen)
  BY DEF Listed
<1>2. IsFiniteSet(chosen)
  BY RulesFinite, FS_Subset
<1>3. /\ n \in Nat /\ DOMAIN list = 1 .. n
      /\ \A i \in DOMAIN list : list[i] \in chosen
      /\ \A r \in chosen : \E i \in DOMAIN list : list[i] = r
  BY <1>1, <1>2, OrderNamesAll
<1>4. list \in [1 .. n -> Rules] /\ \A i, j \in 1 .. n : i # j => list[i] # list[j]
  BY <1>1 DEF SetToSeqs
<1> HIDE DEF n
<1>5. list \in Seq(Rules)
  BY <1>3, <1>4
<1> QED BY <1>3, <1>4, <1>5 DEF ToSet

Firing == {"command", "answer", "record"}
Ats == {"idle", "rules", "home"} \cup Firing

LEMMA JobFields ==
  ASSUME NEW job \in Jobs
  PROVE  /\ job.at \in Ats /\ job.now \in Nat /\ job.event \in Events \cup {Unset}
         /\ job.due \in Seq(Rules) /\ job.step \in Nat
  BY DEF Jobs, Ats, Firing

\* A job that fires has a rule to fire, and a command of it to send while it
\* sends; a handler reads the rules for an event.
JobOK(w, j) ==
  /\ j.at \in Firing => j.due # <<>>
  /\ j.at \in {"command", "answer"} => j.step \in 1 .. Len(Routine[Head(j.due)].sets)
  /\ w \in Slots /\ j.at = "rules" => j.event \in Events
AutoTypes == AutoTypeOK /\ \A w \in Workers : JobOK(w, jobs[w])

LEMMA IdleType == Idle \in Jobs /\ Idle.at = "idle"
  BY EmptySeq DEF Idle, Jobs

LEMMA ActingType ==
  ASSUME NEW job \in Jobs, NEW step \in Nat
  PROVE  /\ Acting(job, step) \in Jobs
         /\ Acting(job, step).at \in {"command", "record"}
         /\ Acting(job, step).due = job.due /\ Acting(job, step).now = job.now
         /\ job.due # <<>> /\ step # 0 => \A w \in Workers : JobOK(w, Acting(job, step))
<1> DEFINE next == Acting(job, step)
           more == step <= Len(Routine[Head(job.due)].sets)
<1>1. /\ next \in Jobs /\ next.due = job.due /\ next.now = job.now
      /\ next.step = step /\ next.at = IF more THEN "command" ELSE "record"
  BY DEF Acting, Jobs
<1>2. next.at \in {"command", "record"} /\ (next.at = "command" => more)
  BY <1>1
<1> HIDE DEF next
<1>3. ASSUME job.due # <<>>, step # 0, NEW w \in Workers
      PROVE  JobOK(w, next)
  <2>1. Head(job.due) \in Rules
    BY <1>3, JobFields, HeadTailProperties
  <2>2. Len(Routine[Head(job.due)].sets) \in Nat
    BY <2>1, RoutinesAssumption, LenProperties
  <2> QED BY <1>1, <1>2, <1>3, <2>2 DEF JobOK
<1> QED BY <1>1, <1>2, <1>3 DEF next

\* An event starts a handler in a slot that is free, and touches no other job.
LEMMA StartedType ==
  ASSUME NEW events \in SUBSET Events, NEW j \in [Workers -> Jobs], clock \in Nat
  PROVE  /\ Started(events, j) \in [Workers -> Jobs]
         /\ \A w \in Workers : \/ Started(events, j)[w] = j[w]
                               \/ /\ w \in Slots /\ j[w].at = "idle"
                                  /\ Started(events, j)[w].at = "rules"
                                  /\ Started(events, j)[w].event \in Events
<1> DEFINE slotOf == CHOOSE f \in Injection(events, Free(j)) : TRUE
           eventOf(w) == CHOOSE e \in events : slotOf[e] = w
           new(w) == [Idle EXCEPT !.at = "rules", !.now = clock, !.event = eventOf(w)]
           takes(w) == w \in Free(j) /\ \E e \in events : slotOf[e] = w
<1>1. Started(events, j) = [w \in Workers |-> IF takes(w) THEN new(w) ELSE j[w]]
  BY DEF Started
<1> HIDE DEF slotOf
<1>2. ASSUME NEW w, takes(w) PROVE eventOf(w) \in Events
  BY <1>2
<1> HIDE DEF eventOf
<1>3. ASSUME NEW w, takes(w) PROVE new(w) \in Jobs /\ new(w).at = "rules" /\ new(w).event \in Events
  BY <1>2, <1>3, IdleType DEF Idle, Jobs
<1>4. ASSUME NEW w, takes(w) PROVE w \in Slots /\ j[w].at = "idle"
  BY <1>4 DEF Free
<1> HIDE DEF new, takes
<1> QED BY <1>1, <1>3, <1>4

\* A worker fires the first of its list, or is done.
LEMMA FiringType ==
  ASSUME AutoTypeOK, NEW w \in Workers, NEW list \in Seq(Rules), StartFiring(w, jobs[w], list)
  PROVE  /\ jobs' \in [Workers -> Jobs]
         /\ \A v \in Workers : v # w => jobs'[v] = jobs[v]
         /\ {lastFired, firedAt}' \subseteq [Rules -> Nat \cup {Unset}] /\ tooSoon' \subseteq Rules
         /\ list = <<>> => jobs'[w].at = "idle" /\ UNCHANGED <<lastFired, firedAt, tooSoon>>
         /\ list # <<>> => /\ jobs'[w].at \in Firing /\ jobs'[w].due = list
                           /\ jobs'[w].now = jobs[w].now /\ JobOK(w, jobs'[w])
                           /\ list[1] \in Rules /\ Fires(list[1], jobs[w].now)
<1>1. jobs \in [Workers -> Jobs] /\ jobs[w] \in Jobs /\ jobs[w].now \in Nat
  BY JobFields DEF AutoTypeOK
<1>2. CASE list = <<>>
  BY <1>1, <1>2, IdleType DEF StartFiring, AutoTypeOK
<1>3. CASE list # <<>>
  <2> DEFINE start == [jobs[w] EXCEPT !.due = list]
             next == Acting(start, 1)
  <2>1. Fires(Head(list), jobs[w].now) /\ jobs' = [jobs EXCEPT ![w] = next]
    BY <1>3 DEF StartFiring
  <2>2. Head(list) = list[1] /\ Head(list) \in Rules
    BY <1>3, HeadTailProperties
  <2>3. start \in Jobs /\ start.due = list /\ start.now = jobs[w].now
    BY <1>1 DEF Jobs
  <2> HIDE DEF start
  <2>4. next \in Jobs /\ next.at \in Firing /\ next.due = list /\ next.now = jobs[w].now
        /\ JobOK(w, next)
    BY <1>3, <2>3, ActingType DEF Firing
  <2> HIDE DEF next
  <2>5. /\ jobs' \in [Workers -> Jobs] /\ jobs'[w] = next
        /\ \A v \in Workers : v # w => jobs'[v] = jobs[v]
    BY <1>1, <2>1, <2>4
  <2>6. {lastFired, firedAt}' \subseteq [Rules -> Nat \cup {Unset}] /\ tooSoon' \subseteq Rules
    BY <1>1, <2>1, <2>2 DEF Fires, Marked, AutoTypeOK
  <2> QED BY <1>3, <2>1, <2>2, <2>4, <2>5, <2>6
<1> QED BY <1>2, <1>3

-----------------------------------------------------------------------------
\* Types.  What a step that fires no rule does to a job.
Onward(w) ==
  \/ jobs'[w] = jobs[w]
  \/ /\ jobs[w].at \in Firing /\ jobs'[w].at \in Firing
     /\ jobs'[w].due = jobs[w].due /\ jobs'[w].now = jobs[w].now
  \/ w \in Slots /\ jobs'[w].at \notin Firing
  \/ w = "sweep" /\ jobs'[w].at = "idle"

LEMMA WorkersApart == Workers = Slots \cup {"sweep"} /\ "sweep" \in Workers /\ "sweep" \notin Slots
  BY SlotsAssumption DEF Workers

LEMMA AutoInitTypes == AutoInit => AutoTypes
<1> SUFFICES ASSUME AutoInit PROVE AutoTypes
  OBVIOUS
<1>1. jobs \in [Workers -> Jobs] /\ \A w \in Workers : jobs[w] = Idle
  BY IdleType DEF AutoInit
<1>2. \A w \in Workers : JobOK(w, jobs[w])
  BY <1>1, IdleType DEF JobOK, Firing
<1>3. AutoTypeOK
  BY <1>1 DEF AutoInit, AutoTypeOK, Lists, Unknown
<1> QED BY <1>2, <1>3 DEF AutoTypes

\* A job moves on, and with it only what its command does.
LEMMA OneJobMoves ==
  ASSUME AutoTypes, NEW w \in Workers, NEW job \in Jobs, jobs' = [jobs EXCEPT ![w] = job],
         JobOK(w, job)
  PROVE  /\ jobs' \in [Workers -> Jobs] /\ jobs'[w] = job
         /\ \A v \in Workers : v # w => jobs'[v] = jobs[v]
         /\ \A v \in Workers : JobOK(v, jobs'[v])
<1>1. jobs \in [Workers -> Jobs] /\ \A v \in Workers : JobOK(v, jobs[v])
  BY DEF AutoTypes, AutoTypeOK
<1> QED BY <1>1

LEMMA CommandType ==
  ASSUME AutoTypes, NEW w \in Workers, jobs[w].at \in {"command", "answer"}
  PROVE  /\ jobs[w] \in Jobs /\ jobs[w].due # <<>> /\ Head(jobs[w].due) \in Rules
         /\ Command(w) \in Effects /\ jobs[w].step + 1 \in Nat \ {0}
<1>1. jobs[w] \in Jobs /\ JobOK(w, jobs[w])
  BY DEF AutoTypes, AutoTypeOK
<1>2. jobs[w].due \in Seq(Rules) /\ jobs[w].due # <<>> /\ jobs[w].step \in Nat
  BY <1>1, JobFields DEF JobOK, Firing
<1>3. Head(jobs[w].due) \in Rules
  BY <1>2, HeadTailProperties
<1>4. jobs[w].step \in 1 .. Len(Routine[Head(jobs[w].due)].sets)
  BY <1>1 DEF JobOK
<1>5. Command(w) \in Effects
  BY <1>3, <1>4, RoutinesAssumption, ElementOfSeq DEF Command
<1> QED BY <1>1, <1>2, <1>3, <1>5

LEMMA ObeyedTypes ==
  ASSUME AutoTypes, NEW w \in Workers, Obeyed(w)
  PROVE  AutoTypes' /\ \A v \in Workers : Onward(v)
<1> DEFINE job == [jobs[w] EXCEPT !.at = "answer"]
<1>1. /\ jobs[w] \in Jobs /\ jobs[w].at = "command" /\ JobOK(w, jobs[w]) /\ Command(w) \in Effects
  BY CommandType DEF Obeyed, AutoTypes, AutoTypeOK
<1>2. /\ job \in Jobs /\ job.at = "answer" /\ job.due = jobs[w].due /\ job.step = jobs[w].step
      /\ job.now = jobs[w].now
  BY <1>1 DEF Jobs
<1>3. jobs' = [jobs EXCEPT ![w] = job]
  BY DEF Obeyed
<1> HIDE DEF job
<1>4. JobOK(w, job)
  BY <1>1, <1>2 DEF JobOK, Firing
<1>5. world' \in [Things -> BOOLEAN]
  BY <1>1 DEF Obeyed, Effects, AutoTypes, AutoTypeOK
<1>6. AutoTypeOK'
  BY <1>2, <1>3, <1>4, <1>5, OneJobMoves DEF Obeyed, AutoTypes, AutoTypeOK, watcher, history
<1> QED BY <1>1, <1>2, <1>3, <1>4, <1>6, OneJobMoves DEF AutoTypes, Onward, Firing

LEMMA CommandFailsTypes ==
  ASSUME AutoTypes, NEW w \in Workers, CommandFails(w)
  PROVE  AutoTypes' /\ \A v \in Workers : Onward(v)
<1> DEFINE job == Acting(jobs[w], jobs[w].step + 1)
<1>1. /\ jobs[w] \in Jobs /\ jobs[w].due # <<>> /\ jobs[w].step + 1 \in Nat \ {0}
      /\ jobs[w].at \in Firing
  BY CommandType DEF CommandFails, Firing
<1>2. /\ job \in Jobs /\ job.at \in Firing /\ job.due = jobs[w].due
      /\ job.now = jobs[w].now /\ JobOK(w, job)
  BY <1>1, ActingType DEF Firing
<1>3. jobs' = [jobs EXCEPT ![w] = job]
  BY DEF CommandFails
<1> HIDE DEF job
<1>4. AutoTypeOK'
  BY <1>2, <1>3, OneJobMoves DEF CommandFails, AutoTypes, AutoTypeOK, watcher, history
<1> QED BY <1>1, <1>2, <1>3, <1>4, OneJobMoves DEF AutoTypes, Onward

-----------------------------------------------------------------------------
\* What is told on the bus.

\* The watcher has told what it takes for known, and nothing else, of each device
\* it has not been blind to.
WatchInv ==
  \A d \in Things : d \in blind \/ announced[d] = IF baseline = Unset THEN Unset ELSE baseline[d]

\* There is nothing to tell.
Silent(before, value) == before \in {Unset, Null, value} \/ value = Null

LEMMA ChangedEvents ==
  ASSUME NEW before, NEW d \in Things, NEW value \in BOOLEAN \cup {Null},
         NEW origin \in Rules \cup {Unset}
  PROVE  /\ Changed(before, d, value, origin) \subseteq Events
         /\ Silent(before[d], value) => Changed(before, d, value, origin) = {}
         /\ ~Silent(before[d], value) =>
              Changed(before, d, value, origin) = {[thing |-> d, on |-> value, origin |-> origin]}
  BY DEF Changed, Events, Silent

\* Events that tell the new value of what changed, and of nothing else, keep
\* the watcher's promise.
LEMMA ToldKeepsWatch ==
  ASSUME AutoTypes, WatchInv, NEW events \in SUBSET Events, Tells(events),
         baseline' \in Lists,
         \A e \in events : e.on = baseline'[e.thing],
         \A d \in Things :
           \/ \E e \in events : e.thing = d
           \/ baseline = Unset
           \/ baseline'[d] = baseline[d] \/ Silent(baseline[d], baseline'[d])
  PROVE  WatchInv' /\ announced' \in Lists /\ blind' \subseteq Things
<1>1. baseline' # Unset /\ announced' = Told(events)
  BY UnsetAssumption DEF Lists, Tells
<1>2. /\ announced \in Lists /\ blind \subseteq Things
      /\ baseline # Unset => baseline \in Lists
  BY DEF AutoTypes, AutoTypeOK
<1>3. \A d \in Things : baseline # Unset => baseline[d] \in BOOLEAN \cup {Unset, Null}
  BY <1>2 DEF Lists
<1>4. ASSUME NEW d \in Things
      PROVE  (d \in blind' \/ announced'[d] = baseline'[d]) /\ announced'[d] \in BOOLEAN \cup {Unset, Null}
  <2>1. CASE \E e \in events : e.thing = d
    <3> DEFINE told == CHOOSE e \in events : e.thing = d
    <3>1. told \in events /\ told.thing = d
      BY <2>1
    <3>2. announced'[d] = told.on
      BY <1>1, <2>1 DEF Told
    <3> HIDE DEF told
    <3>3. announced'[d] = baseline'[d]
      BY <3>1, <3>2
    <3> QED BY <3>3 DEF Lists
  <2>2. CASE ~\E e \in events : e.thing = d
    <3>1. announced'[d] = IF announced[d] \in BOOLEAN THEN announced[d] ELSE baseline'[d]
      BY <1>1, <2>2 DEF Told
    <3>2. d \in blind \cup Overwritten => d \in blind'
      BY <2>2 DEF Tells
    <3>3. d \in blind \/ announced[d] = IF baseline = Unset THEN Unset ELSE baseline[d]
      BY DEF WatchInv
    <3>4. announced'[d] \in BOOLEAN \cup {Unset, Null}
      BY <3>1 DEF Lists
    <3>5. CASE baseline = Unset
      BY <3>1, <3>2, <3>3, <3>4, <3>5, NullAssumption
    <3>6. CASE baseline # Unset /\ baseline[d] \in BOOLEAN /\ baseline'[d] = Null
      BY <3>2, <3>4, <3>6 DEF Overwritten
    <3>7. CASE baseline # Unset /\ ~(baseline[d] \in BOOLEAN /\ baseline'[d] = Null)
      <4>1. baseline'[d] = baseline[d] \/ baseline[d] \in {Unset, Null}
        BY <1>3, <2>2, <3>7 DEF Silent
      <4> QED BY <3>1, <3>2, <3>3, <3>4, <3>7, <4>1, NullAssumption
    <3> QED BY <3>5, <3>6, <3>7
  <2> QED BY <2>1, <2>2
<1>5. announced' = [d \in Things |-> announced'[d]]
  BY <1>1 DEF Told
<1>6. announced' \in Lists
  BY <1>4, <1>5 DEF Lists
<1>7. blind' \subseteq Things
  BY <1>2 DEF Tells, Overwritten
<1> QED BY <1>1, <1>4, <1>6, <1>7 DEF WatchInv

\* Nothing is known yet, and nothing is told.
LEMMA NothingTold ==
  ASSUME AutoTypes, WatchInv, Tells({}), baseline = Unset, baseline' = Unset
  PROVE  WatchInv' /\ announced' \in Lists /\ blind' \subseteq Things
<1>1. announced' = [d \in Things |-> announced[d]] /\ blind' = blind
  BY DEF Tells, Told, Overwritten, AutoTypes, AutoTypeOK
<1> QED BY <1>1 DEF WatchInv, AutoTypes, AutoTypeOK, Lists

LEMMA AnsweredTypes ==
  ASSUME AutoTypes, WatchInv, NEW w \in Workers, Answered(w)
  PROVE  AutoTypes' /\ WatchInv' /\ \A v \in Workers : Onward(v)
<1> DEFINE d == Command(w)[1]
           value == Command(w)[2]
           origin == Head(jobs[w].due)
           events == IF baseline # Unset THEN Changed(baseline, d, value, origin) ELSE {}
           job == Acting(jobs[w], jobs[w].step + 1)
           acted == [jobs EXCEPT ![w] = job]
<1>1. /\ jobs[w] \in Jobs /\ jobs[w].due # <<>> /\ origin \in Rules
      /\ jobs[w].step + 1 \in Nat \ {0} /\ jobs[w].at = "answer"
      /\ d \in Things /\ value \in BOOLEAN
  BY CommandType DEF Answered, Effects
<1>2. /\ baseline' = IF baseline # Unset THEN [baseline EXCEPT ![d] = value] ELSE Unset
      /\ Tells(events) /\ jobs' = Started(events, acted)
      /\ UNCHANGED <<enabled, clock, prevTick, lastFired, world, poll, history>>
  BY DEF Answered
<1>3. /\ job \in Jobs /\ job.at \in {"command", "record"} /\ job.due = jobs[w].due
      /\ job.now = jobs[w].now /\ JobOK(w, job)
  BY <1>1, ActingType
<1> HIDE DEF job
<1>4. /\ acted \in [Workers -> Jobs] /\ acted[w] = job
      /\ \A v \in Workers : v # w => acted[v] = jobs[v]
  BY <1>3 DEF AutoTypes, AutoTypeOK
<1> HIDE DEF acted
<1>5. events \in SUBSET Events
  BY <1>1, ChangedEvents
<1> HIDE DEF events
<1>6. /\ jobs' \in [Workers -> Jobs]
      /\ \A v \in Workers : \/ jobs'[v] = acted[v]
                            \/ /\ v \in Slots /\ acted[v].at = "idle"
                               /\ jobs'[v].at = "rules" /\ jobs'[v].event \in Events
  <2>1. clock \in Nat
    BY DEF AutoTypes, AutoTypeOK
  <2> QED BY <1>2, <1>4, <1>5, <2>1, StartedType
<1>7. \A v \in Workers : JobOK(v, jobs'[v]) /\ Onward(v)
  <2> SUFFICES ASSUME NEW v \in Workers PROVE JobOK(v, jobs'[v]) /\ Onward(v)
    OBVIOUS
  <2>1. CASE jobs'[v] = acted[v] /\ v = w
    BY <1>1, <1>3, <1>4, <2>1 DEF Onward, Firing
  <2>2. CASE jobs'[v] = acted[v] /\ v # w
    BY <1>4, <2>2 DEF Onward, AutoTypes
  <2>3. CASE v \in Slots /\ jobs'[v].at = "rules" /\ jobs'[v].event \in Events
    BY <2>3 DEF JobOK, Onward, Firing
  <2> QED BY <1>6, <2>1, <2>2, <2>3
<1>8. /\ WatchInv' /\ announced' \in Lists /\ blind' \subseteq Things
      /\ baseline' \in Lists \cup {Unset}
  <2>1. CASE baseline = Unset
    <3>1. events = {} /\ baseline' = Unset
      BY <1>2, <2>1 DEF events
    <3> QED BY <1>2, <2>1, <3>1, NothingTold
  <2>2. CASE baseline # Unset
    <3>1. baseline \in Lists
      BY <2>2 DEF AutoTypes, AutoTypeOK
    <3>2. /\ baseline' \in Lists /\ baseline'[d] = value
          /\ \A x \in Things : x # d => baseline'[x] = baseline[x]
      BY <1>1, <1>2, <2>2, <3>1 DEF Lists
    <3>3. events = Changed(baseline, d, value, origin)
      BY <2>2 DEF events
    <3>4. CASE Silent(baseline[d], value)
      <4>1. events = {}
        BY <1>1, <3>3, <3>4, ChangedEvents
      <4> QED BY <1>2, <1>5, <2>2, <3>2, <3>4, <4>1, ToldKeepsWatch
    <3>5. CASE ~Silent(baseline[d], value)
      <4> DEFINE e == [thing |-> d, on |-> value, origin |-> origin]
      <4>1. events = {e}
        BY <1>1, <3>3, <3>5, ChangedEvents
      <4>2. e.thing = d /\ e.on = value
        OBVIOUS
      <4> HIDE DEF e
      <4>3. (\A x \in events : x.thing = d /\ x.on = value) /\ \E x \in events : x.thing = d
        BY <4>1, <4>2
      <4> QED BY <1>2, <1>5, <2>2, <3>2, <4>3, ToldKeepsWatch
    <3> QED BY <3>4, <3>5
  <2> QED BY <2>1, <2>2
<1>9. AutoTypeOK'
  BY <1>2, <1>6, <1>8 DEF AutoTypes, AutoTypeOK, history
<1> QED BY <1>7, <1>8, <1>9 DEF AutoTypes

LEMMA PollAppliesTypes ==
  ASSUME AutoTypes, WatchInv, PollApplies
  PROVE  AutoTypes' /\ WatchInv' /\ \A v \in Workers : Onward(v)
<1> DEFINE prev == IF baseline = Unset THEN Unknown ELSE baseline
           change(d) == IF poll[d] = Unset THEN {} ELSE Changed(prev, d, poll[d], Unset)
           events == UNION {change(d) : d \in Things}
<1>1. /\ baseline' = [d \in Things |-> IF poll[d] # Unset THEN poll[d] ELSE prev[d]]
      /\ Tells(events) /\ jobs' = Started(events, jobs)
      /\ poll' = Unset /\ UNCHANGED <<enabled, clock, prevTick, lastFired, world, history>>
  BY DEF PollApplies, Remembers
<1>2. poll \in Lists /\ prev \in Lists
  BY DEF PollApplies, AutoTypes, AutoTypeOK, Lists, Unknown
<1>3. baseline' \in Lists
  BY <1>1, <1>2 DEF Lists
<1>4. ASSUME NEW d \in Things
      PROVE  /\ change(d) \in SUBSET Events
             /\ \A e \in change(d) : e.thing = d /\ e.on = baseline'[d]
             /\ \/ \E e \in change(d) : e.thing = d
                \/ baseline = Unset
                \/ baseline'[d] = baseline[d] \/ Silent(baseline[d], baseline'[d])
  <2>1. CASE poll[d] = Unset
    <3>1. change(d) = {} /\ baseline'[d] = prev[d]
      BY <1>1, <2>1
    <3> QED BY <3>1
  <2>2. CASE poll[d] # Unset
    <3>1. poll[d] \in BOOLEAN \cup {Null} /\ baseline'[d] = poll[d] /\ change(d) = Changed(prev, d, poll[d], Unset)
      BY <1>1, <1>2, <2>2 DEF Lists
    <3>2. CASE Silent(prev[d], poll[d])
      <4>1. change(d) = {}
        BY <3>1, <3>2, ChangedEvents
      <4>2. baseline = Unset \/ prev[d] = baseline[d]
        OBVIOUS
      <4> HIDE DEF change, prev
      <4> QED BY <3>1, <3>2, <4>1, <4>2
    <3>3. CASE ~Silent(prev[d], poll[d])
      <4>1. change(d) = {[thing |-> d, on |-> poll[d], origin |-> Unset]} /\ change(d) \in SUBSET Events
        BY <3>1, <3>3, ChangedEvents
      <4> HIDE DEF change, prev
      <4> QED BY <3>1, <4>1
    <3> QED BY <3>2, <3>3
  <2> QED BY <2>1, <2>2
<1> HIDE DEF change
<1>5. events \in SUBSET Events
  BY <1>4
<1>6. \A e \in events : e.on = baseline'[e.thing]
  BY <1>4
<1>7. \A d \in Things : \/ \E e \in events : e.thing = d
                        \/ baseline = Unset
                        \/ baseline'[d] = baseline[d] \/ Silent(baseline[d], baseline'[d])
  BY <1>4
<1> HIDE DEF events, prev
<1>8. WatchInv' /\ announced' \in Lists /\ blind' \subseteq Things
  BY <1>1, <1>3, <1>5, <1>6, <1>7, ToldKeepsWatch
<1>9. /\ jobs' \in [Workers -> Jobs]
      /\ \A v \in Workers : \/ jobs'[v] = jobs[v]
                            \/ /\ v \in Slots /\ jobs'[v].at = "rules"
                               /\ jobs'[v].event \in Events
  <2>1. jobs \in [Workers -> Jobs] /\ clock \in Nat
    BY DEF AutoTypes, AutoTypeOK
  <2> QED BY <1>1, <1>5, <2>1, StartedType
<1>10. \A v \in Workers : JobOK(v, jobs'[v]) /\ Onward(v)
  BY <1>9 DEF AutoTypes, JobOK, Onward, Firing
<1>11. AutoTypeOK'
  BY <1>1, <1>3, <1>8, <1>9 DEF AutoTypes, AutoTypeOK, history
<1> QED BY <1>8, <1>10, <1>11 DEF AutoTypes

-----------------------------------------------------------------------------
\* A worker fires the first rule of a list; the rest of the types is as it was.
LEMMA FiringTypes ==
  ASSUME AutoTypes, NEW w \in Workers, NEW list \in Seq(Rules), StartFiring(w, jobs[w], list),
         UNCHANGED <<enabled, clock, world, watcher>>,
         prevTick' \in Nat \cup {Unset}, spurious' \subseteq Rules,
         {owed', allowed'} \subseteq SUBSET (Rules \X Nat)
  PROVE  AutoTypes'
<1>1. AutoTypeOK /\ \A v \in Workers : JobOK(v, jobs[v])
  BY DEF AutoTypes
<1>2. /\ jobs' \in [Workers -> Jobs]
      /\ \A v \in Workers : v # w => jobs'[v] = jobs[v]
      /\ {lastFired, firedAt}' \subseteq [Rules -> Nat \cup {Unset}] /\ tooSoon' \subseteq Rules
      /\ jobs'[w].at = "idle" \/ JobOK(w, jobs'[w])
  BY <1>1, FiringType
<1>3. \A v \in Workers : JobOK(v, jobs'[v])
  BY <1>1, <1>2 DEF JobOK, Firing
<1>4. AutoTypeOK'
  BY <1>1, <1>2 DEF AutoTypeOK, watcher
<1> QED BY <1>3, <1>4 DEF AutoTypes

LEMMA TailType ==
  ASSUME NEW list \in Seq(Rules), list # <<>>
  PROVE  /\ Tail(list) \in Seq(Rules)
         /\ \A i \in DOMAIN Tail(list) : i + 1 \in DOMAIN list /\ Tail(list)[i] = list[i + 1]
<1>1. /\ Tail(list) \in Seq(Rules) /\ Len(Tail(list)) = Len(list) - 1
      /\ \A i \in 1 .. Len(Tail(list)) : Tail(list)[i] = list[i + 1]
  BY HeadTailProperties
<1>2. /\ Len(list) \in Nat /\ DOMAIN list = 1 .. Len(list)
      /\ DOMAIN Tail(list) = 1 .. Len(Tail(list))
  BY <1>1, LenProperties
<1> QED BY <1>1, <1>2

LEMMA RecordedTypes ==
  ASSUME AutoTypes, NEW w \in Workers, Recorded(w)
  PROVE  /\ AutoTypes' /\ jobs[w].due \in Seq(Rules) /\ jobs[w].due # <<>>
         /\ Tail(jobs[w].due) \in Seq(Rules)
<1>1. AutoTypeOK /\ jobs[w] \in Jobs /\ jobs[w].at = "record" /\ JobOK(w, jobs[w])
  BY DEF AutoTypes, AutoTypeOK, Recorded
<1>2. jobs[w].due \in Seq(Rules) /\ jobs[w].due # <<>>
  BY <1>1, JobFields DEF JobOK, Firing
<1>3. Tail(jobs[w].due) \in Seq(Rules)
  BY <1>2, TailType
<1>4. /\ StartFiring(w, jobs[w], Tail(jobs[w].due)) /\ UNCHANGED <<enabled, clock, world, watcher>>
      /\ prevTick' \in Nat \cup {Unset} /\ spurious' \subseteq Rules
      /\ {owed', allowed'} \subseteq SUBSET (Rules \X Nat)
  BY <1>1 DEF Recorded, AutoTypeOK
<1> QED BY <1>2, <1>3, <1>4, FiringTypes

LEMMA RulesReadTypes ==
  ASSUME AutoTypes, NEW s \in Slots, RulesRead(s)
  PROVE  /\ AutoTypes' /\ s \in Workers /\ jobs[s].event \in Events
         /\ \E list \in Listed(DueForEvent(jobs[s].event, jobs[s].now)) :
              list \in Seq(Rules) /\ StartFiring(s, jobs[s], list)
<1>1. AutoTypeOK /\ s \in Workers /\ JobOK(s, jobs[s]) /\ jobs[s].at = "rules"
  BY WorkersApart DEF AutoTypes, AutoTypeOK, RulesRead
<1>2. PICK list \in Listed(DueForEvent(jobs[s].event, jobs[s].now)) : StartFiring(s, jobs[s], list)
  BY DEF RulesRead
<1>3. DueForEvent(jobs[s].event, jobs[s].now) \in SUBSET Rules
  BY <1>1 DEF DueForEvent, AutoTypeOK
<1>4. list \in Seq(Rules)
  BY <1>2, <1>3, ListNamesChosen
<1>5. /\ UNCHANGED <<enabled, clock, world, watcher>>
      /\ prevTick' \in Nat \cup {Unset} /\ spurious' \subseteq Rules
      /\ {owed', allowed'} \subseteq SUBSET (Rules \X Nat)
  BY <1>1 DEF RulesRead, AutoTypeOK
<1>6. AutoTypes'
  BY <1>1, <1>2, <1>4, <1>5, FiringTypes
<1> QED BY <1>1, <1>2, <1>4, <1>6 DEF JobOK

LEMMA SweepReadsHomeTypes ==
  ASSUME AutoTypes, SweepReadsHome
  PROVE  /\ AutoTypes'
         /\ prevTick # Unset =>
              LET due == DueScheduled(ToSet(jobs["sweep"].due), prevTick, jobs["sweep"].now)
              IN  /\ due \subseteq Rules
                  /\ \E list \in Listed(due) :
                       list \in Seq(Rules) /\ StartFiring("sweep", jobs["sweep"], list)
         /\ prevTick = Unset => StartFiring("sweep", jobs["sweep"], <<>>)
<1> DEFINE listed == ToSet(jobs["sweep"].due)
           due == IF prevTick = Unset THEN {} ELSE DueScheduled(listed, prevTick, jobs["sweep"].now)
<1>1. AutoTypeOK /\ "sweep" \in Workers /\ jobs["sweep"] \in Jobs /\ jobs["sweep"].now \in Nat
  BY WorkersApart, JobFields DEF AutoTypes, AutoTypeOK
<1>2. listed \subseteq Rules
  BY <1>1, JobFields, LenProperties DEF ToSet
<1>3. due \in SUBSET Rules
  BY <1>2 DEF DueScheduled
<1>4. PICK list \in Listed(due) : StartFiring("sweep", jobs["sweep"], list)
  BY DEF SweepReadsHome
<1>5. /\ prevTick' = jobs["sweep"].now /\ UNCHANGED <<enabled, clock, world, watcher>>
      /\ spurious' \subseteq spurious \cup due /\ owed' \subseteq owed /\ allowed' \subseteq allowed
  BY DEF SweepReadsHome
<1> HIDE DEF due
<1>6. list \in Seq(Rules) /\ ToSet(list) = due
  BY <1>3, <1>4, ListNamesChosen
<1>7. AutoTypes'
  <2>1. /\ prevTick' \in Nat \cup {Unset} /\ spurious' \subseteq Rules
        /\ {owed', allowed'} \subseteq SUBSET (Rules \X Nat)
    BY <1>1, <1>3, <1>5 DEF AutoTypeOK
  <2> QED BY <1>1, <1>4, <1>5, <1>6, <2>1, FiringTypes
<1>8. ASSUME prevTick = Unset
      PROVE  list = <<>>
  <2>1. due = {}
    BY <1>8 DEF due
  <2>2. SUFFICES ASSUME list # <<>> PROVE FALSE
    OBVIOUS
  <2>3. 1 \in DOMAIN list
    BY <1>6, <2>2, EmptySeq, LenProperties
  <2>4. list[1] \in ToSet(list)
    BY <2>3 DEF ToSet
  <2> QED BY <1>6, <2>1, <2>4
<1> QED BY <1>3, <1>4, <1>6, <1>7, <1>8 DEF due

LEMMA SweepBeginsTypes ==
  ASSUME AutoTypes, SweepStarts \/ SweepReadsRules
  PROVE  /\ AutoTypes' /\ UNCHANGED <<lastFired, firedAt, tooSoon>>
         /\ jobs'["sweep"].at \in {"rules", "home"}
         /\ \A v \in Slots : jobs'[v] = jobs[v]
         /\ SweepStarts => jobs'["sweep"].at = "rules" /\ jobs'["sweep"].now = clock
         /\ SweepReadsRules => /\ jobs'["sweep"].at = "home" /\ ToSet(jobs'["sweep"].due) = enabled
                               /\ jobs'["sweep"].now = jobs["sweep"].now
<1>1. /\ AutoTypeOK /\ "sweep" \in Workers /\ jobs["sweep"] \in Jobs
      /\ \A v \in Slots : v \in Workers /\ v # "sweep"
  BY WorkersApart DEF AutoTypes, AutoTypeOK
<1>2. PICK job \in Jobs :
        /\ jobs' = [jobs EXCEPT !["sweep"] = job] /\ job.at \in {"rules", "home"}
        /\ SweepStarts => job.at = "rules" /\ job.now = clock
        /\ SweepReadsRules => /\ job.at = "home" /\ ToSet(job.due) = enabled
                              /\ job.now = jobs["sweep"].now
        /\ UNCHANGED <<enabled, clock, prevTick, lastFired, world, watcher, history>>
  <2>1. CASE SweepStarts
    <3> DEFINE job == [Idle EXCEPT !.at = "rules", !.now = clock]
    <3>1. job \in Jobs /\ job.at = "rules" /\ job.now = clock
      BY <1>1, IdleType DEF Idle, Jobs, AutoTypeOK
    <3>2. /\ jobs' = [jobs EXCEPT !["sweep"] = job] /\ jobs["sweep"].at = "idle"
          /\ UNCHANGED <<enabled, clock, prevTick, lastFired, world, watcher, history>>
      BY <2>1 DEF SweepStarts
    <3>3. ~SweepReadsRules
      BY <3>2 DEF SweepReadsRules
    <3> HIDE DEF job
    <3> QED BY <3>1, <3>2, <3>3
  <2>2. CASE SweepReadsRules
    <3>1. PICK rules \in Listed(enabled) :
            jobs' = [jobs EXCEPT !["sweep"].at = "home", !["sweep"].due = rules]
      BY <2>2 DEF SweepReadsRules
    <3>2. rules \in Seq(Rules) /\ ToSet(rules) = enabled
      BY <1>1, ListNamesChosen DEF AutoTypeOK
    <3> DEFINE job == [jobs["sweep"] EXCEPT !.at = "home", !.due = rules]
    <3>3. /\ job \in Jobs /\ job.at = "home" /\ job.due = rules /\ job.now = jobs["sweep"].now
      BY <1>1, <3>2 DEF Jobs
    <3>4. jobs' = [jobs EXCEPT !["sweep"] = job]
      BY <1>1, <3>1 DEF AutoTypeOK
    <3>5. ~SweepStarts /\ UNCHANGED <<enabled, clock, prevTick, lastFired, world, watcher, history>>
      BY <2>2 DEF SweepStarts, SweepReadsRules
    <3> HIDE DEF job
    <3> QED BY <3>2, <3>3, <3>4, <3>5
  <2> QED BY <2>1, <2>2
<1>3. JobOK("sweep", job)
  BY <1>2, WorkersApart DEF JobOK, Firing
<1>4. AutoTypeOK'
  BY <1>1, <1>2 DEF AutoTypeOK, watcher, history
<1> QED BY <1>1, <1>2, <1>3, <1>4, OneJobMoves DEF AutoTypes, history

-----------------------------------------------------------------------------
LEMMA ReadFailsTypes ==
  ASSUME AutoTypes, NEW w \in Workers, ReadFails(w)
  PROVE  AutoTypes' /\ \A v \in Workers : Onward(v)
<1>1. AutoTypeOK /\ JobOK(w, Idle) /\ Idle.at \notin Firing /\ Idle \in Jobs /\ Idle.at = "idle"
  BY IdleType DEF AutoTypes, JobOK, Firing
<1>2. jobs' = [jobs EXCEPT ![w] = Idle] /\ prevTick' = prevTick
  BY DEF ReadFails, WindowKept
<1>3. AutoTypeOK'
  BY <1>1, <1>2, OneJobMoves DEF ReadFails, AutoTypeOK, watcher, history
<1>4. \A v \in Workers : Onward(v)
  BY <1>1, <1>2, OneJobMoves, WorkersApart DEF Onward
<1> QED BY <1>1, <1>2, <1>3, <1>4, OneJobMoves DEF AutoTypes

\* What neither starts nor moves a job.
Outside ==
  \/ \E missing, silent \in SUBSET Things : PollReads(missing, silent)
  \/ PollFails
  \/ \E d \in Things : Flip(d)
  \/ \E r \in Rules : Toggle(r)
  \/ Minute
  \/ UNCHANGED autoVars

LEMMA OutsideTypes ==
  ASSUME AutoTypes, Outside
  PROVE  AutoTypes' /\ UNCHANGED <<jobs, lastFired, firedAt, tooSoon, baseline, announced, blind>>
<1>1. AutoTypeOK
  BY DEF AutoTypes
<1>2. UNCHANGED <<jobs, lastFired, firedAt, tooSoon, baseline, announced, blind>>
  BY DEF Outside, PollReads, PollFails, Flip, Toggle, Minute, autoVars, engine, watcher, history
<1>3. AutoTypeOK'
  <2>1. ASSUME NEW missing \in SUBSET Things, NEW silent \in SUBSET Things,
               PollReads(missing, silent)
        PROVE  AutoTypeOK'
    <3>1. poll' \in Lists
      BY <1>1, <2>1 DEF PollReads, AutoTypeOK, Lists
    <3> QED BY <1>1, <1>2, <2>1, <3>1 DEF PollReads, AutoTypeOK, engine, history
  <2>2. CASE PollFails
    BY <1>1, <1>2, <2>2 DEF PollFails, AutoTypeOK, engine, history
  <2>3. ASSUME NEW d \in Things, Flip(d)
        PROVE  AutoTypeOK'
    BY <1>1, <1>2, <2>3 DEF Flip, AutoTypeOK, engine, watcher, history
  <2>4. ASSUME NEW r \in Rules, Toggle(r)
        PROVE  AutoTypeOK'
    <3>1. enabled' \subseteq Rules /\ owed' \subseteq owed
      BY <1>1, <2>4 DEF Toggle, AutoTypeOK
    <3> QED BY <1>1, <1>2, <2>4, <3>1 DEF Toggle, AutoTypeOK, engine, watcher
  <2>5. CASE Minute
    <3> DEFINE now == {<<r, clock'>> : r \in {q \in Rules : Programmed(q, clock') /\ InstantOn(q, clock') = clock'}}
    <3>1. clock' = clock + 1 /\ clock' \in Nat
      BY <1>1, <2>5 DEF Minute, AutoTypeOK
    <3>2. now \subseteq Rules \X Nat
      BY <3>1
    <3>3. allowed' = allowed \cup now /\ owed' \subseteq owed \cup now
      BY <2>5 DEF Minute
    <3> HIDE DEF now
    <3>4. {owed', allowed'} \subseteq SUBSET (Rules \X Nat)
      BY <1>1, <3>2, <3>3 DEF AutoTypeOK
    <3> QED BY <1>1, <1>2, <2>5, <3>1, <3>4 DEF Minute, AutoTypeOK, engine, watcher
  <2>6. CASE UNCHANGED autoVars
    BY <1>1, <2>6 DEF AutoTypeOK, autoVars, engine, watcher, history
  <2> QED BY <2>1, <2>2, <2>3, <2>4, <2>5, <2>6 DEF Outside
<1> QED BY <1>2, <1>3 DEF AutoTypes

LEMMA RestartedTypes ==
  ASSUME AutoTypes, Restarted
  PROVE  AutoTypes' /\ WatchInv' /\ \A w \in Workers : jobs'[w].at = "idle"
<1>1. /\ jobs' \in [Workers -> Jobs]
      /\ \A w \in Workers : jobs'[w] = Idle
  BY IdleType DEF Restarted
<1>2. \A w \in Workers : JobOK(w, jobs'[w]) /\ jobs'[w].at = "idle"
  BY <1>1, IdleType DEF JobOK, Firing
<1>3. AutoTypeOK'
  BY <1>1 DEF Restarted, AutoTypes, AutoTypeOK, Lists, Unknown
<1>4. WatchInv'
  BY DEF Restarted, WatchInv, Unknown
<1> QED BY <1>2, <1>3, <1>4 DEF AutoTypes

LEMMA AutoNextTypes == AutoTypes /\ WatchInv /\ [AutoNext]_autoVars => AutoTypes' /\ WatchInv'
<1> SUFFICES ASSUME AutoTypes, WatchInv, [AutoNext]_autoVars PROVE AutoTypes' /\ WatchInv'
  OBVIOUS
<1>1. ASSUME UNCHANGED <<baseline, announced, blind>> PROVE WatchInv'
  BY <1>1 DEF WatchInv
<1>2. ASSUME NEW w \in Workers, Obeyed(w) \/ CommandFails(w) \/ Recorded(w) \/ ReadFails(w)
      PROVE  AutoTypes' /\ WatchInv'
  <2>1. UNCHANGED <<baseline, announced, blind>>
    BY <1>2 DEF Obeyed, CommandFails, Recorded, ReadFails, watcher
  <2> QED BY <1>1, <1>2, <2>1, ObeyedTypes, CommandFailsTypes, RecordedTypes, ReadFailsTypes
<1>3. ASSUME NEW s \in Slots, RulesRead(s)
      PROVE  AutoTypes' /\ WatchInv'
  <2>1. UNCHANGED <<baseline, announced, blind>>
    BY <1>3 DEF RulesRead, watcher
  <2> QED BY <1>1, <1>3, <2>1, RulesReadTypes
<1>4. CASE Sweeping
  <2>1. UNCHANGED <<baseline, announced, blind>>
    BY <1>4 DEF Sweeping, SweepStarts, SweepReadsRules, SweepReadsHome, watcher
  <2> QED BY <1>1, <1>4, <2>1, SweepBeginsTypes, SweepReadsHomeTypes DEF Sweeping
<1>5. CASE Outside
  BY <1>1, <1>5, OutsideTypes
<1> QED BY <1>2, <1>3, <1>4, <1>5, AnsweredTypes, PollAppliesTypes, RestartedTypes DEF AutoNext, Outside

LEMMA AutoInitWatch == AutoInit => WatchInv
  BY DEF AutoInit, WatchInv, Unknown

\* Whatever is read, fires, fails or restarts, the engine is in a state of its
\* types.
THEOREM AutoTypesKept == AutoSpec => []AutoTypeOK
<1>1. AutoTypes => AutoTypeOK
  BY DEF AutoTypes
<1> QED BY <1>1, AutoInitTypes, AutoInitWatch, AutoNextTypes, PTL DEF AutoSpec

\* What the watcher takes for known has been told on the bus, for any devices,
\* lists that are partial, fail or race a command, and restarts; but for the
\* devices a list had without a value since they were last told of, whose
\* changes transitions() may swallow.
THEOREM SeenDevicesAreTold == AutoSpec => []SeenIsTold
<1>1. WatchInv => SeenIsTold
  BY DEF WatchInv, SeenIsTold
<1> QED BY <1>1, AutoInitTypes, AutoInitWatch, AutoNextTypes, PTL DEF AutoSpec

-----------------------------------------------------------------------------
(***************************************************************************)
(* A rule's cooldown.                                                      *)
(***************************************************************************)

\* The rules that wait behind the one that fires: those of the schedule are
\* past their cooldown and no event touches them; those of an event have
\* another before them.
Waiting(w, j) ==
  /\ w = "sweep" =>
       /\ \A i, k \in DOMAIN j.due : i # k => j.due[i] # j.due[k]
       /\ \A i \in DOMAIN j.due : /\ Routine[j.due[i]].on = Unset
                                  /\ i > 1 => CooledDown(j.due[i], j.now)
  /\ w \in Slots =>
       \A i \in DOMAIN j.due : /\ Routine[j.due[i]].on # Unset
                               /\ i > 1 => ~Alone(j.due[i])
WaitingInv == \A w \in Workers : jobs[w].at \in Firing => Waiting(w, jobs[w])
CooldownInv == firedAt = lastFired /\ CooldownKept /\ WaitingInv

LEMMA CooldownInit == AutoInit => CooldownInv
<1> SUFFICES ASSUME AutoInit PROVE CooldownInv
  OBVIOUS
<1>1. \A w \in Workers : jobs[w].at = "idle"
  BY IdleType DEF AutoInit
<1> QED BY <1>1 DEF AutoInit, CooldownInv, CooldownKept, WaitingInv, Firing

\* A step that fires no rule.
LEMMA OnwardKeepsCooldown ==
  ASSUME CooldownInv, UNCHANGED <<lastFired, firedAt, tooSoon>>, \A w \in Workers : Onward(w)
  PROVE  CooldownInv'
<1>1. ASSUME NEW w \in Workers, jobs'[w].at \in Firing
      PROVE  Waiting(w, jobs[w]) /\ jobs'[w].due = jobs[w].due /\ jobs'[w].now = jobs[w].now
  BY <1>1 DEF Onward, CooldownInv, WaitingInv, Firing
<1>2. ASSUME NEW w \in Workers, jobs'[w].at \in Firing
      PROVE  Waiting(w, jobs[w])'
  BY <1>1, <1>2 DEF Waiting, CooledDown
<1>3. WaitingInv'
  BY <1>2 DEF WaitingInv
<1> QED BY <1>3 DEF CooldownInv, CooldownKept

LEMMA WeekdayType == ASSUME NEW m \in Nat PROVE Weekday(m) \in 0 .. Week - 1
<1>1. m \div DayLength \in Nat
  BY ClockAssumption, SMTT(30)
<1> QED BY <1>1, ClockAssumption, SMTT(30) DEF Weekday

\* A worker fires the first of a list of rules that are past their cooldown, or
\* that have another before them: nobody else waits for the same rule.
LEMMA FiringKeepsCooldown ==
  ASSUME AutoTypes, CooldownInv, NEW w \in Workers, NEW list \in Seq(Rules),
         StartFiring(w, jobs[w], list), Waiting(w, [due |-> list, now |-> jobs[w].now]),
         list # <<>> => CooledDown(list[1], jobs[w].now) \/ ~Alone(list[1])
  PROVE  CooldownInv'
<1> DEFINE r == list[1]
           now == jobs[w].now
<1>1. AutoTypeOK
  BY DEF AutoTypes
<1>2. /\ \A v \in Workers : v # w => jobs'[v] = jobs[v]
      /\ list = <<>> => jobs'[w].at = "idle" /\ UNCHANGED <<lastFired, firedAt, tooSoon>>
      /\ list # <<>> => /\ jobs'[w].due = list /\ jobs'[w].now = now
                        /\ r \in Rules /\ Fires(r, now)
  BY <1>1, FiringType
<1>3. CASE list = <<>>
  <2>1. \A v \in Workers : Onward(v)
    BY <1>2, <1>3, WorkersApart DEF Onward, Firing
  <2> QED BY <1>2, <1>3, <2>1, OnwardKeepsCooldown
<1>4. CASE list # <<>>
  <2>1. /\ lastFired' = [lastFired EXCEPT ![r] = now] /\ firedAt' = lastFired'
        /\ tooSoon' = IF lastFired[r] # Unset /\ now < lastFired[r] + Routine[r].cooldown
                        THEN tooSoon \cup {r} ELSE tooSoon
    BY <1>2, <1>4 DEF Fires, Marked, CooldownInv
  <2>2. /\ now \in Nat /\ lastFired \in [Rules -> Nat \cup {Unset}] /\ r \in Rules
        /\ Routine[r].cooldown \in Nat
    BY <1>1, <1>2, <1>4, JobFields, RoutinesAssumption DEF AutoTypeOK
  <2>3. CooldownKept'
    <3>1. CASE CooledDown(r, now)
      <4>1. ~(lastFired[r] # Unset /\ now < lastFired[r] + Routine[r].cooldown)
        BY <2>2, <3>1 DEF CooledDown
      <4> QED BY <2>1, <4>1 DEF CooldownInv, CooldownKept
    <3>2. CASE ~Alone(r)
      BY <2>1, <3>2 DEF CooldownInv, CooldownKept
    <3> QED BY <1>4, <3>1, <3>2
  <2>4. ASSUME NEW v \in Workers, jobs'[v].at \in Firing, v # w
        PROVE  Waiting(v, jobs[v])'
    <3>1. Waiting(v, jobs[v]) /\ jobs'[v] = jobs[v]
      BY <1>2, <2>4 DEF CooldownInv, WaitingInv
    <3>2. CASE v \in Slots
      BY <3>1, <3>2, WorkersApart DEF Waiting
    <3>3. CASE v = "sweep"
      <4>1. Routine[r].on # Unset
        <5>1. w \in Slots /\ 1 \in DOMAIN list
          BY <1>4, <2>4, <3>3, WorkersApart, EmptySeq, LenProperties
        <5> QED BY <5>1 DEF Waiting
      <4>2. \A i \in DOMAIN jobs[v].due : jobs[v].due[i] # r
        BY <3>1, <3>3, <4>1 DEF Waiting
      <4>3. \A i \in DOMAIN jobs[v].due : jobs[v].due[i] \in Rules
        BY <1>1, JobFields, LenProperties DEF AutoTypeOK
      <4>4. \A i \in DOMAIN jobs[v].due :
              CooledDown(jobs[v].due[i], jobs[v].now) => CooledDown(jobs[v].due[i], jobs[v].now)'
        BY <2>1, <2>2, <3>1, <4>2, <4>3 DEF CooledDown
      <4> QED BY <3>1, <3>3, <4>4, WorkersApart DEF Waiting
    <3> QED BY <3>2, <3>3, WorkersApart
  <2>5. Waiting(w, jobs[w])'
    <3>1. jobs'[w].due = list /\ jobs'[w].now = now
      BY <1>2, <1>4
    <3>2. CASE w \in Slots
      BY <3>1, <3>2, WorkersApart DEF Waiting
    <3>3. CASE w = "sweep"
      <4>1. Len(list) \in Nat \ {0} /\ DOMAIN list = 1 .. Len(list) /\ \A i \in DOMAIN list : list[i] \in Rules
        BY <1>4, EmptySeq, LenProperties
      <4>2. \A i \in DOMAIN list : i > 1 => list[i] # r /\ CooledDown(list[i], now)
        BY <3>3, <4>1 DEF Waiting
      <4>3. \A i \in DOMAIN list : i > 1 => CooledDown(list[i], now)'
        BY <2>1, <2>2, <3>1, <4>1, <4>2 DEF CooledDown
      <4> QED BY <3>1, <3>3, <4>3, WorkersApart DEF Waiting
    <3> QED BY <3>2, <3>3, WorkersApart
  <2>6. WaitingInv'
    BY <2>4, <2>5 DEF WaitingInv
  <2> QED BY <2>1, <2>3, <2>6 DEF CooldownInv
<1> QED BY <1>3, <1>4

\* The rule whose run is recorded leaves the list, and the next one fires.
LEMMA RecordedKeepsCooldown ==
  ASSUME AutoTypes, CooldownInv, NEW w \in Workers, Recorded(w)
  PROVE  CooldownInv'
<1> DEFINE due == jobs[w].due
           rest == Tail(due)
           now == jobs[w].now
<1>1. due \in Seq(Rules) /\ due # <<>> /\ rest \in Seq(Rules)
  BY RecordedTypes
<1>2. /\ DOMAIN rest = 1 .. Len(rest) /\ Len(rest) \in Nat /\ (rest # <<>> => Len(rest) # 0)
      /\ \A i \in DOMAIN rest : i + 1 \in DOMAIN due /\ rest[i] = due[i + 1]
  BY <1>1, TailType, EmptySeq, LenProperties
<1>3. Waiting(w, jobs[w]) /\ StartFiring(w, jobs[w], rest)
  BY DEF Recorded, CooldownInv, WaitingInv, Firing
<1> HIDE DEF rest
<1>4. Waiting(w, [due |-> rest, now |-> now])
  <2>1. CASE w \in Slots
    BY <1>2, <1>3, <2>1, WorkersApart DEF Waiting
  <2>2. CASE w = "sweep"
    <3>1. /\ \A i, k \in DOMAIN due : i # k => due[i] # due[k]
          /\ \A i \in DOMAIN due : Routine[due[i]].on = Unset /\ (i > 1 => CooledDown(due[i], now))
      BY <1>3, <2>2 DEF Waiting
    <3>2. \A i \in DOMAIN rest : i + 1 > 1 /\ i \in Nat
      BY <1>2
    <3>3. \A i, k \in DOMAIN rest : i # k => rest[i] # rest[k]
      <4> SUFFICES ASSUME NEW i \in DOMAIN rest, NEW k \in DOMAIN rest, i # k
                   PROVE  rest[i] # rest[k]
        OBVIOUS
      <4>1. i + 1 # k + 1
        BY <3>2
      <4> QED BY <1>2, <3>1, <4>1
    <3> QED BY <1>2, <2>2, <3>1, <3>2, <3>3, WorkersApart DEF Waiting
  <2> QED BY <2>1, <2>2, WorkersApart
<1>5. rest # <<>> => CooledDown(rest[1], now) \/ ~Alone(rest[1])
  <2> SUFFICES ASSUME rest # <<>> PROVE CooledDown(rest[1], now) \/ ~Alone(rest[1])
    OBVIOUS
  <2>1. rest[1] = due[2] /\ 2 \in DOMAIN due
    BY <1>2
  <2> QED BY <1>3, <2>1, WorkersApart DEF Waiting
<1> QED BY <1>1, <1>3, <1>4, <1>5, FiringKeepsCooldown DEF rest

\* An event touches rules of the same trigger: the first is past its cooldown,
\* and no other is alone.
LEMMA RulesReadKeepsCooldown ==
  ASSUME AutoTypes, CooldownInv, NEW s \in Slots, RulesRead(s)
  PROVE  CooldownInv'
<1> DEFINE e == jobs[s].event
           now == jobs[s].now
<1>1. AutoTypeOK /\ s \in Workers /\ s # "sweep" /\ e \in Events
  BY RulesReadTypes, WorkersApart DEF AutoTypes
<1>2. PICK list \in Listed(DueForEvent(e, now)) :
        list \in Seq(Rules) /\ StartFiring(s, jobs[s], list)
  BY RulesReadTypes
<1>3. \A r \in DueForEvent(e, now) :
        Routine[r].on = <<e.thing, e.on>> /\ Routine[r].on # Unset /\ CooledDown(r, now)
  <2>1. <<e.thing, e.on>> \in Effects
    BY <1>1 DEF Events, Effects
  <2>2. <<e.thing, e.on>> # Unset
    BY <2>1, UnsetAssumption
  <2> QED BY <2>2 DEF DueForEvent
<1>4. DueForEvent(e, now) \in SUBSET Rules
  BY <1>1 DEF DueForEvent, AutoTypeOK
<1>5. /\ \A i \in DOMAIN list : list[i] \in DueForEvent(e, now)
      /\ \A i, j \in DOMAIN list : i # j => list[i] # list[j]
      /\ DOMAIN list = 1 .. Len(list) /\ Len(list) \in Nat /\ (list # <<>> => Len(list) # 0)
  BY <1>2, <1>4, ListNamesChosen, EmptySeq, LenProperties
<1>6. ASSUME NEW i \in DOMAIN list, i > 1
      PROVE  ~Alone(list[i])
  <2>1. 1 \in DOMAIN list /\ list[1] # list[i] /\ list[1] \in Rules
    BY <1>4, <1>5, <1>6
  <2> QED BY <1>3, <1>5, <2>1 DEF Alone
<1>7. Waiting(s, [due |-> list, now |-> now])
  BY <1>1, <1>3, <1>5, <1>6 DEF Waiting
<1>8. list # <<>> => CooledDown(list[1], now)
  BY <1>3, <1>5
<1> QED BY <1>1, <1>2, <1>7, <1>8, FiringKeepsCooldown

\* The sweep fires rules that no event triggers, all past their cooldown.
LEMMA SweepReadsHomeKeepsCooldown ==
  ASSUME AutoTypes, CooldownInv, SweepReadsHome
  PROVE  CooldownInv'
<1> DEFINE now == jobs["sweep"].now
           due == DueScheduled(ToSet(jobs["sweep"].due), prevTick, now)
<1>1. AutoTypeOK /\ "sweep" \in Workers /\ "sweep" \notin Slots
  BY WorkersApart DEF AutoTypes
<1>2. CASE prevTick = Unset
  <2>1. StartFiring("sweep", jobs["sweep"], <<>>) /\ <<>> \in Seq(Rules)
    BY <1>2, SweepReadsHomeTypes, EmptySeq
  <2>2. Waiting("sweep", [due |-> <<>>, now |-> now])
    BY <1>1 DEF Waiting
  <2> QED BY <1>1, <2>1, <2>2, FiringKeepsCooldown
<1>3. CASE prevTick # Unset
  <2>1. due \subseteq Rules
    BY <1>3, SweepReadsHomeTypes
  <2>2. PICK list \in Listed(due) : list \in Seq(Rules) /\ StartFiring("sweep", jobs["sweep"], list)
    BY <1>3, SweepReadsHomeTypes
  <2>3. \A r \in due : Routine[r].on = Unset /\ CooledDown(r, now)
    <3> SUFFICES ASSUME NEW r \in due PROVE Routine[r].on = Unset /\ CooledDown(r, now)
      OBVIOUS
    <3>1. r \in Rules /\ CooledDown(r, now) /\ Crossed(r, prevTick, now)
      BY <2>1 DEF DueScheduled
    <3>2. PICK base \in {prevTick, now} : Programmed(r, base)
      BY <3>1 DEF Crossed, Dates
    <3>3. base \in Nat
      BY <1>1, <1>3, JobFields DEF AutoTypeOK
    <3>4. Weekday(base) \in 0 .. Week - 1
      BY <3>3, WeekdayType
    <3> QED BY <3>1, <3>2, <3>4, RoutinesAssumption DEF Programmed
  <2> HIDE DEF due
  <2>4. /\ \A i \in DOMAIN list : list[i] \in due
        /\ \A i, j \in DOMAIN list : i # j => list[i] # list[j]
        /\ DOMAIN list = 1 .. Len(list) /\ Len(list) \in Nat /\ (list # <<>> => Len(list) # 0)
    BY <2>1, <2>2, ListNamesChosen, EmptySeq, LenProperties
  <2>5. Waiting("sweep", [due |-> list, now |-> now])
    BY <1>1, <2>3, <2>4 DEF Waiting
  <2>6. list # <<>> => CooledDown(list[1], now)
    BY <2>3, <2>4
  <2> QED BY <1>1, <2>2, <2>5, <2>6, FiringKeepsCooldown
<1> QED BY <1>2, <1>3

LEMMA AutoNextCooldown ==
  AutoTypes /\ WatchInv /\ CooldownInv /\ [AutoNext]_autoVars => CooldownInv'
<1> SUFFICES ASSUME AutoTypes, WatchInv, CooldownInv, [AutoNext]_autoVars PROVE CooldownInv'
  OBVIOUS
<1>1. ASSUME NEW w \in Workers, Obeyed(w) \/ Answered(w) \/ CommandFails(w) \/ ReadFails(w)
      PROVE  CooldownInv'
  <2>1. UNCHANGED <<lastFired, firedAt, tooSoon>>
    BY <1>1 DEF Obeyed, Answered, CommandFails, ReadFails, history
  <2> QED BY <1>1, <2>1, OnwardKeepsCooldown, ObeyedTypes, AnsweredTypes, CommandFailsTypes, ReadFailsTypes
<1>2. CASE PollApplies
  <2>1. UNCHANGED <<lastFired, firedAt, tooSoon>>
    BY <1>2 DEF PollApplies, history
  <2> QED BY <1>2, <2>1, OnwardKeepsCooldown, PollAppliesTypes
<1>3. CASE Outside
  <2>1. UNCHANGED <<jobs, lastFired, firedAt, tooSoon>>
    BY <1>3, OutsideTypes
  <2> QED BY <2>1, OnwardKeepsCooldown DEF Onward
<1>4. CASE SweepStarts \/ SweepReadsRules
  <2>1. /\ UNCHANGED <<lastFired, firedAt, tooSoon>> /\ jobs'["sweep"].at \notin Firing
        /\ \A v \in Slots : jobs'[v] = jobs[v]
    BY <1>4, SweepBeginsTypes DEF Firing
  <2>2. ASSUME NEW v \in Workers, jobs'[v].at \in Firing
        PROVE  Waiting(v, jobs[v])'
    <3>1. v \in Slots /\ v # "sweep" /\ jobs'[v] = jobs[v]
      BY <2>1, <2>2, WorkersApart
    <3>2. Waiting(v, jobs[v])
      BY <2>2, <3>1 DEF CooldownInv, WaitingInv
    <3> QED BY <3>1, <3>2 DEF Waiting
  <2> QED BY <2>1, <2>2 DEF CooldownInv, CooldownKept, WaitingInv
<1>5. CASE Restarted
  <2>1. /\ \A w \in Workers : jobs'[w].at = "idle"
        /\ firedAt' = lastFired' /\ tooSoon' = tooSoon
    BY <1>5, RestartedTypes DEF Restarted
  <2> QED BY <2>1 DEF CooldownInv, CooldownKept, WaitingInv, Firing
<1> QED BY <1>1, <1>2, <1>3, <1>4, <1>5, RecordedKeepsCooldown, RulesReadKeepsCooldown,
           SweepReadsHomeKeepsCooldown DEF AutoNext, Outside, Sweeping

\* Events in flight at once never fire a rule twice within its cooldown when
\* they trigger that rule alone, for any rules, cooldowns and number of handlers.
THEOREM CooldownsAreKept == AutoSpec => []CooldownKept
<1>1. CooldownInv => CooldownKept
  BY DEF CooldownInv
<1> QED BY <1>1, AutoInitTypes, AutoInitWatch, CooldownInit, AutoNextTypes, AutoNextCooldown, PTL
        DEF AutoSpec

-----------------------------------------------------------------------------
(***************************************************************************)
(* The instants of the schedule.                                           *)
(***************************************************************************)

\* A day is a quotient: days in order, and a minute of its own in each.
LEMMA DaysInOrder ==
  ASSUME NEW p \in Nat, NEW q \in Nat, NEW a \in Nat, NEW b \in Nat, a < DayLength, b < DayLength,
         p * DayLength + a <= q * DayLength + b
  PROVE  p <= q
<1>1. SUFFICES ASSUME q < p PROVE FALSE
  OBVIOUS
<1>2. p - q - 1 \in Nat /\ DayLength \in Nat
  BY <1>1, ClockAssumption
<1>3. (p - q - 1) * DayLength \in Nat
  BY <1>2
<1>4. (p - q - 1) * DayLength = p * DayLength - q * DayLength - DayLength
  BY <1>2
<1>5. p * DayLength \in Nat /\ q * DayLength \in Nat
  BY <1>2
<1> QED BY <1>2, <1>3, <1>4, <1>5

LEMMA QuotientAndRest ==
  ASSUME NEW n \in Nat \ {0}, NEW x \in Nat
  PROVE  x = (x \div n) * n + (x % n)
  BY SMTT(60)

LEMMA DayOf ==
  ASSUME NEW x \in Nat
  PROVE  /\ x \div DayLength \in Nat /\ x % DayLength \in Nat /\ x % DayLength < DayLength
         /\ x = (x \div DayLength) * DayLength + (x % DayLength)
<1>1. x % DayLength \in Nat /\ x % DayLength < DayLength
  BY ClockAssumption, SMTT(30)
<1>2. x \div DayLength \in Nat
  BY ClockAssumption, SMTT(30)
<1>3. DayLength \in Nat \ {0}
  BY ClockAssumption
<1> QED BY <1>1, <1>2, <1>3, QuotientAndRest

\* A window shorter than a day lies in the days of its two ends.
LEMMA DaysOfWindow ==
  ASSUME NEW prev \in Nat, NEW m \in Nat, NEW now \in Nat, prev < m, m <= now, now < prev + DayLength
  PROVE  m \div DayLength \in {prev \div DayLength, now \div DayLength}
<1> DEFINE p == prev \div DayLength
           q == m \div DayLength
           n == now \div DayLength
           a == prev % DayLength
           b == m % DayLength
           c == now % DayLength
<1>1. /\ p \in Nat /\ a \in Nat /\ a < DayLength /\ prev = p * DayLength + a
      /\ q \in Nat /\ b \in Nat /\ b < DayLength /\ m = q * DayLength + b
      /\ n \in Nat /\ c \in Nat /\ c < DayLength /\ now = n * DayLength + c
      /\ DayLength \in Nat
  BY DayOf, ClockAssumption
<1> HIDE DEF p, q, n, a, b, c
<1>2. p <= q
  <2>1. p * DayLength + a <= q * DayLength + b
    BY <1>1
  <2> QED BY <1>1, <2>1, DaysInOrder
<1>3. q <= n
  <2>1. q * DayLength + b <= n * DayLength + c
    BY <1>1
  <2> QED BY <1>1, <2>1, DaysInOrder
<1>4. n <= p + 1
  <2>1. (p + 1) * DayLength = p * DayLength + DayLength /\ p + 1 \in Nat
    BY <1>1
  <2>2. p * DayLength \in Nat /\ n * DayLength \in Nat
    BY <1>1
  <2>3. n * DayLength + c <= (p + 1) * DayLength + a
    BY <1>1, <2>1, <2>2
  <2> QED BY <1>1, <2>1, <2>3, DaysInOrder
<1>5. q = p \/ q = n
  BY <1>1, <1>2, <1>3, <1>4
<1> QED BY <1>5 DEF p, q, n

\* The instant of a rule on the day of a minute is one of its instants.
IsInstant(r, m) == Programmed(r, m) /\ InstantOn(r, m) = m

LEMMA InstantIsOne ==
  ASSUME NEW r \in Rules, NEW base \in Nat, Programmed(r, base)
  PROVE  InstantOn(r, base) \in Nat /\ IsInstant(r, InstantOn(r, base))
<1> DEFINE p == base \div DayLength
           a == Routine[r].at[Weekday(base)]
           m == InstantOn(r, base)
           q == m \div DayLength
           b == m % DayLength
<1>1. p \in Nat /\ DayLength \in Nat /\ a \in 0 .. DayLength - 1
  <2>1. Weekday(base) \in 0 .. Week - 1
    BY WeekdayType
  <2> QED BY <2>1, DayOf, RoutinesAssumption, ClockAssumption DEF Programmed
<1>2. m = p * DayLength + a
  BY DEF InstantOn
<1> HIDE DEF p, a, m
<1>3. m \in Nat
  <2>1. p * DayLength \in Nat
    BY <1>1
  <2> QED BY <1>1, <1>2, <2>1
<1>4. q \in Nat /\ b \in Nat /\ b < DayLength /\ m = q * DayLength + b
  BY <1>3, DayOf
<1> HIDE DEF q, b
<1>5. p = q
  <2>1. a \in Nat /\ a < DayLength
    BY <1>1
  <2>2. p * DayLength + a = q * DayLength + b /\ p * DayLength \in Nat /\ q * DayLength \in Nat
    BY <1>1, <1>2, <1>4
  <2>3. p <= q
    BY <1>1, <1>4, <2>1, <2>2, DaysInOrder
  <2>4. q <= p
    BY <1>1, <1>4, <2>1, <2>2, DaysInOrder
  <2> QED BY <1>1, <1>4, <2>3, <2>4
<1>6. m \div DayLength = base \div DayLength
  BY <1>5 DEF p, q
<1>7. Weekday(m) = Weekday(base)
  BY <1>6 DEF Weekday
<1>8. InstantOn(r, m) = InstantOn(r, base) /\ Programmed(r, m)
  BY <1>6, <1>7 DEF InstantOn, Programmed
<1> QED BY <1>3, <1>8 DEF m, IsInstant

\* An instant in a window shorter than a day is seen from one of its ends.
LEMMA InstantIsCrossed ==
  ASSUME NEW r \in Rules, NEW prev \in Nat, NEW m \in Nat, NEW now \in Nat,
         prev < m, m <= now, now < prev + DayLength, IsInstant(r, m)
  PROVE  Crossed(r, prev, now)
<1>1. PICK base \in {prev, now} : m \div DayLength = base \div DayLength
  BY DaysOfWindow
<1>2. Weekday(m) = Weekday(base)
  BY <1>1 DEF Weekday
<1>3. InstantOn(r, base) = m /\ Programmed(r, base)
  BY <1>1, <1>2 DEF IsInstant, InstantOn, Programmed
<1> QED BY <1>3 DEF Crossed, Dates

\* The sweep under way, and the minutes its window, or the next one, will cover.
Sweep == jobs["sweep"]
Reading == Sweep.at \in {"rules", "home"}
Since(m) == IF prevTick # Unset THEN prevTick < m ELSE Reading /\ Sweep.now < m

\* No window is as long as a day.
ClockInv ==
  /\ prevTick # Unset => prevTick <= clock /\ clock < prevTick + DayLength
  /\ Reading => /\ Sweep.now <= clock /\ clock < Sweep.now + DayLength
                /\ prevTick # Unset => prevTick <= Sweep.now

\* What is owed passed after the last sweep, and the sweep has read its rule.
OwedInv ==
  \A p \in owed :
    /\ p[1] \in enabled /\ p[2] <= clock /\ IsInstant(p[1], p[2])
    /\ prevTick # Unset => p[2] > prevTick
    /\ Sweep.at = "home" /\ p[2] <= Sweep.now => p[1] \in ToSet(Sweep.due)

\* Whatever the window covers may still fire.
AllowedInv ==
  \A r \in Rules, m \in Nat : m <= clock /\ IsInstant(r, m) /\ Since(m) => <<r, m>> \in allowed

InstantsInv == ClockInv /\ OwedInv /\ AllowedInv /\ spurious = {}

LEMMA InstantsInit == AutoInit => InstantsInv
<1> SUFFICES ASSUME AutoInit PROVE InstantsInv
  OBVIOUS
<1>1. Sweep.at = "idle"
  BY IdleType, WorkersApart DEF AutoInit, Sweep
<1> QED BY <1>1 DEF AutoInit, InstantsInv, ClockInv, OwedInv, AllowedInv, Reading, Since

\* A step beside the schedule: it leaves the sweep alone, or fires its rules,
\* or ends it.
LEMMA BesideSchedule ==
  ASSUME InstantsInv, UNCHANGED <<clock, prevTick, enabled, owed, allowed, spurious>>,
         Sweep' = Sweep \/ Sweep'.at \notin {"rules", "home"}
  PROVE  InstantsInv'
<1>1. Reading' => Reading /\ Sweep' = Sweep
  BY DEF Reading
<1>2. ClockInv'
  BY <1>1 DEF InstantsInv, ClockInv
<1>3. OwedInv'
  <2> SUFFICES ASSUME NEW p \in owed
               PROVE  /\ p[1] \in enabled /\ p[2] <= clock /\ IsInstant(p[1], p[2])
                      /\ prevTick # Unset => p[2] > prevTick
                      /\ Sweep'.at = "home" /\ p[2] <= Sweep'.now => p[1] \in ToSet(Sweep'.due)
    BY DEF OwedInv, IsInstant, Programmed, InstantOn, Weekday
  <2>1. CASE Sweep' = Sweep
    BY <2>1 DEF InstantsInv, OwedInv
  <2>2. CASE Sweep'.at \notin {"rules", "home"}
    BY <2>2 DEF InstantsInv, OwedInv
  <2> QED BY <2>1, <2>2
<1>4. AllowedInv'
  <2> SUFFICES ASSUME NEW r \in Rules, NEW m \in Nat, m <= clock, IsInstant(r, m), Since(m)'
               PROVE  <<r, m>> \in allowed
    BY DEF AllowedInv, IsInstant, Programmed, InstantOn, Weekday
  <2>1. Since(m)
    BY <1>1 DEF Since
  <2> QED BY <2>1 DEF InstantsInv, AllowedInv
<1> QED BY <1>2, <1>3, <1>4 DEF InstantsInv

LEMMA SweepBeginsInstants ==
  ASSUME AutoTypes, InstantsInv, SweepStarts \/ SweepReadsRules
  PROVE  InstantsInv'
<1>1. AutoTypeOK
  BY DEF AutoTypes
<1>2. /\ UNCHANGED <<clock, prevTick, enabled, owed, allowed, spurious>>
      /\ clock \in Nat /\ DayLength \in Nat \ {0} /\ owed \subseteq Rules \X Nat
  BY <1>1, ClockAssumption DEF SweepStarts, SweepReadsRules, history, AutoTypeOK
<1>3. CASE SweepStarts
  <2>1. Sweep'.at = "rules" /\ Sweep'.now = clock
    BY <1>3, SweepBeginsTypes DEF Sweep
  <2>2. ClockInv'
    BY <1>1, <1>2, <2>1 DEF InstantsInv, ClockInv, Reading, AutoTypeOK
  <2>3. OwedInv'
    <3>1. \A p \in owed : (p[1] \in enabled /\ p[2] <= clock /\ IsInstant(p[1], p[2])
                          /\ (prevTick # Unset => p[2] > prevTick))
      BY DEF InstantsInv, OwedInv
    <3> QED BY <1>2, <2>1, <3>1 DEF OwedInv, IsInstant, Programmed, InstantOn, Weekday
  <2>4. AllowedInv'
    <3> SUFFICES ASSUME NEW r \in Rules, NEW m \in Nat, m <= clock, IsInstant(r, m), Since(m)'
                 PROVE  <<r, m>> \in allowed
      BY <1>2 DEF AllowedInv, IsInstant, Programmed, InstantOn, Weekday
    <3>1. Since(m)
      BY <1>2, <2>1 DEF Since
    <3> QED BY <3>1 DEF InstantsInv, AllowedInv
  <2> QED BY <1>2, <2>2, <2>3, <2>4 DEF InstantsInv
<1>4. CASE SweepReadsRules
  <2>1. /\ Sweep'.at = "home" /\ ToSet(Sweep'.due) = enabled /\ Sweep'.now = Sweep.now
        /\ Sweep.at = "rules"
    BY <1>4, SweepBeginsTypes DEF Sweep, SweepReadsRules
  <2>2. Reading /\ Reading'
    BY <2>1 DEF Reading
  <2>3. ClockInv'
    BY <1>2, <2>1, <2>2 DEF InstantsInv, ClockInv
  <2>4. OwedInv'
    BY <1>2, <2>1 DEF InstantsInv, OwedInv, IsInstant, Programmed, InstantOn, Weekday
  <2>5. AllowedInv'
    <3> SUFFICES ASSUME NEW r \in Rules, NEW m \in Nat, m <= clock, IsInstant(r, m), Since(m)'
                 PROVE  <<r, m>> \in allowed
      BY <1>2 DEF AllowedInv, IsInstant, Programmed, InstantOn, Weekday
    <3>1. Since(m)
      BY <1>2, <2>1, <2>2 DEF Since
    <3> QED BY <3>1 DEF InstantsInv, AllowedInv
  <2> QED BY <1>2, <2>3, <2>4, <2>5 DEF InstantsInv
<1> QED BY <1>3, <1>4

\* The window moves: what it covers is fired or settled, and fires only what it
\* covers.
LEMMA SweepReadsHomeInstants ==
  ASSUME AutoTypes, InstantsInv, SweepReadsHome
  PROVE  InstantsInv'
<1> DEFINE now == Sweep.now
           listed == ToSet(Sweep.due)
           due == IF prevTick = Unset THEN {} ELSE DueScheduled(listed, prevTick, now)
           settled(p) == p[2] <= now /\
             (prevTick = Unset \/ p[1] \in due \/ ~Passes(p[1], now) \/ ~CooledDown(p[1], now))
<1>1. /\ AutoTypeOK /\ Sweep \in Jobs /\ now \in Nat /\ clock \in Nat
      /\ prevTick \in Nat \cup {Unset} /\ Unset \notin Nat
      /\ owed \subseteq Rules \X Nat /\ allowed \subseteq Rules \X Nat
  BY WorkersApart, JobFields, UnsetAssumption DEF AutoTypes, AutoTypeOK, Sweep
<1>2. /\ prevTick' = now /\ UNCHANGED <<enabled, clock>> /\ Sweep.at = "home"
      /\ spurious' = spurious \cup {r \in due : Past(allowed, r, now) = {}}
      /\ owed' = {p \in owed : ~settled(p)}
      /\ allowed' = {p \in allowed : p[2] > now}
  BY DEF SweepReadsHome, Sweep
<1>3. /\ Reading /\ now <= clock /\ clock < now + DayLength
      /\ prevTick # Unset => prevTick <= now /\ clock < prevTick + DayLength
      /\ DayLength \in Nat
  BY <1>2, ClockAssumption DEF Reading, InstantsInv, ClockInv
<1>4. ~Reading'
  <2>1. \E list \in Seq(Rules) : StartFiring("sweep", jobs["sweep"], list)
    BY SweepReadsHomeTypes, EmptySeq
  <2>2. Sweep'.at \in Firing \cup {"idle"}
    BY <1>1, <2>1, FiringType, WorkersApart DEF Sweep
  <2> QED BY <2>2 DEF Reading, Firing
<1>5. listed \subseteq Rules /\ due \subseteq listed
  <2>1. listed \subseteq Rules
    BY <1>1, JobFields, LenProperties DEF ToSet
  <2> QED BY <2>1 DEF DueScheduled
<1>6. ClockInv'
  BY <1>1, <1>2, <1>3, <1>4 DEF ClockInv
<1>7. OwedInv'
  <2> SUFFICES ASSUME NEW p \in owed, ~settled(p)
               PROVE  p[2] > now
    <3>1. \A p \in owed : p[1] \in enabled /\ p[2] <= clock /\ IsInstant(p[1], p[2])
      BY DEF InstantsInv, OwedInv
    <3>2. Sweep'.at # "home"
      BY <1>4 DEF Reading
    <3>3. ASSUME \A p \in owed : ~settled(p) => p[2] > now
          PROVE  \A p \in owed' : p[1] \in enabled /\ p[2] <= clock /\ IsInstant(p[1], p[2]) /\ p[2] > now
      BY <1>2, <3>1, <3>3
    <3> QED BY <1>2, <3>2, <3>3 DEF OwedInv, IsInstant, Programmed, InstantOn, Weekday
  <2> SUFFICES ASSUME p[2] <= now PROVE FALSE
    BY <1>1
  <2> DEFINE r == p[1]
             m == p[2]
  <2>1. /\ r \in Rules /\ m \in Nat /\ m <= now /\ IsInstant(r, m) /\ r \in listed
        /\ prevTick # Unset => m > prevTick
    BY <1>1, <1>2 DEF InstantsInv, OwedInv
  <2>2. prevTick # Unset /\ r \notin due /\ Passes(r, now) /\ CooledDown(r, now)
    BY <2>1
  <2> HIDE DEF r, m
  <2>3. prevTick \in Nat /\ prevTick < m /\ now < prevTick + DayLength
    BY <1>1, <1>3, <2>1, <2>2
  <2>4. Crossed(r, prevTick, now)
    BY <1>1, <2>1, <2>3, InstantIsCrossed
  <2> QED BY <2>1, <2>2, <2>4 DEF DueScheduled
<1>8. AllowedInv'
  <2> SUFFICES ASSUME NEW r \in Rules, NEW m \in Nat, m <= clock, IsInstant(r, m), Since(m)'
               PROVE  <<r, m>> \in allowed'
    BY <1>2 DEF AllowedInv, IsInstant, Programmed, InstantOn, Weekday
  <2>1. now < m
    BY <1>1, <1>2 DEF Since
  <2>2. Since(m)
    BY <1>1, <1>3, <2>1 DEF Since
  <2>3. <<r, m>> \in allowed
    BY <2>2 DEF InstantsInv, AllowedInv
  <2> QED BY <1>1, <1>2, <2>1, <2>3
<1>9. ASSUME NEW r \in due
      PROVE  Past(allowed, r, now) # {}
  <2>1. prevTick \in Nat /\ r \in Rules /\ Crossed(r, prevTick, now)
    BY <1>1, <1>5 DEF DueScheduled
  <2>2. PICK base \in {prevTick, now} :
          /\ Programmed(r, base) /\ prevTick < InstantOn(r, base) /\ InstantOn(r, base) <= now
    BY <2>1 DEF Crossed, Dates
  <2> DEFINE m == InstantOn(r, base)
  <2>3. m \in Nat /\ IsInstant(r, m) /\ prevTick < m /\ m <= now
    BY <1>1, <2>1, <2>2, InstantIsOne
  <2> HIDE DEF m
  <2>4. Since(m) /\ m <= clock
    BY <1>1, <1>3, <2>1, <2>3 DEF Since
  <2>5. <<r, m>> \in allowed
    BY <2>1, <2>3, <2>4 DEF InstantsInv, AllowedInv
  <2>6. <<r, m>> \in Past(allowed, r, now)
    BY <2>3, <2>5 DEF Past
  <2> QED BY <2>6
<1> HIDE DEF due
<1>10. spurious' = {}
  BY <1>2, <1>9 DEF InstantsInv
<1> QED BY <1>6, <1>7, <1>8, <1>10 DEF InstantsInv

\* The clock ticks, and what is programmed for the new minute is owed.
LEMMA MinuteInstants ==
  ASSUME AutoTypes, InstantsInv, Minute
  PROVE  InstantsInv'
<1> DEFINE now == {<<r, clock'>> : r \in {q \in Rules : Programmed(q, clock') /\ InstantOn(q, clock') = clock'}}
<1>1. /\ clock \in Nat /\ clock' = clock + 1 /\ prevTick \in Nat \cup {Unset}
      /\ Sweep.now \in Nat /\ DayLength \in Nat /\ owed \subseteq Rules \X Nat
  BY WorkersApart, JobFields, ClockAssumption DEF Minute, AutoTypes, AutoTypeOK, Sweep
<1>2. /\ prevTick # Unset => clock + 1 < prevTick + DayLength
      /\ Sweep.at # "idle" => clock + 1 < Sweep.now + DayLength
      /\ UNCHANGED <<enabled, prevTick, Sweep, spurious>>
      /\ allowed' = allowed \cup now /\ owed' = owed \cup {p \in now : p[1] \in enabled}
  BY DEF Minute, engine, Sweep
<1>3. ClockInv'
  BY <1>1, <1>2 DEF InstantsInv, ClockInv, Reading
<1>4. \A r \in Rules : IsInstant(r, clock') => <<r, clock'>> \in now
  BY DEF IsInstant
<1>5. \A p \in now : p[1] \in Rules /\ p[2] = clock' /\ IsInstant(p[1], clock')
  BY DEF IsInstant
<1> HIDE DEF now
<1>6. OwedInv'
  <2> SUFFICES ASSUME NEW p \in owed'
               PROVE  /\ p[1] \in enabled /\ p[2] <= clock' /\ IsInstant(p[1], p[2])
                      /\ prevTick # Unset => p[2] > prevTick
                      /\ Sweep.at = "home" /\ p[2] <= Sweep.now => p[1] \in ToSet(Sweep.due)
    BY <1>2 DEF OwedInv, IsInstant, Programmed, InstantOn, Weekday
  <2>1. CASE p \in owed
    BY <1>1, <2>1 DEF InstantsInv, OwedInv
  <2>2. CASE p \in now /\ p[1] \in enabled
    BY <1>1, <1>5, <2>2 DEF InstantsInv, ClockInv, Reading
  <2> QED BY <1>2, <2>1, <2>2
<1>7. AllowedInv'
  <2> SUFFICES ASSUME NEW r \in Rules, NEW m \in Nat, m <= clock', IsInstant(r, m), Since(m)'
               PROVE  <<r, m>> \in allowed'
    BY DEF AllowedInv, IsInstant, Programmed, InstantOn, Weekday
  <2>1. Since(m)
    BY <1>2 DEF Since, Reading
  <2>2. CASE m <= clock
    BY <1>2, <2>1, <2>2 DEF InstantsInv, AllowedInv
  <2>3. CASE m = clock'
    BY <1>2, <1>4, <2>3
  <2> QED BY <1>1, <2>2, <2>3
<1> QED BY <1>2, <1>3, <1>6, <1>7 DEF InstantsInv

LEMMA ToggleInstants ==
  ASSUME AutoTypes, InstantsInv, NEW r \in Rules, Toggle(r)
  PROVE  InstantsInv'
<1>1. /\ UNCHANGED <<clock, prevTick, Sweep, allowed, spurious>>
      /\ owed' = {p \in owed : p[1] # r}
      /\ \A q \in enabled : q # r => q \in enabled'
  BY DEF Toggle, engine, Sweep
<1>2. ClockInv'
  BY <1>1 DEF InstantsInv, ClockInv, Reading
<1>3. OwedInv'
  <2>1. \A p \in owed' : p \in owed /\ p[1] # r
    BY <1>1
  <2> QED BY <1>1, <2>1 DEF InstantsInv, OwedInv, IsInstant, Programmed, InstantOn, Weekday
<1>4. AllowedInv'
  BY <1>1 DEF InstantsInv, AllowedInv, Since, Reading, IsInstant, Programmed, InstantOn, Weekday
<1> QED BY <1>1, <1>2, <1>3, <1>4 DEF InstantsInv

LEMMA AutoNextInstants ==
  AutoTypes /\ WatchInv /\ InstantsInv /\ [AutoNext]_autoVars => InstantsInv'
<1> SUFFICES ASSUME AutoTypes, WatchInv, InstantsInv, [AutoNext]_autoVars PROVE InstantsInv'
  OBVIOUS
<1> DEFINE Beside == /\ UNCHANGED <<clock, prevTick, enabled, owed, allowed, spurious>>
                     /\ Sweep' = Sweep \/ Sweep'.at \notin {"rules", "home"}
<1>1. ASSUME Onward("sweep") PROVE Sweep' = Sweep \/ Sweep'.at \notin {"rules", "home"}
  BY <1>1, WorkersApart DEF Onward, Sweep, Firing
<1>2. ASSUME NEW w \in Workers, Obeyed(w) \/ Answered(w) \/ CommandFails(w) \/ ReadFails(w)
      PROVE  InstantsInv'
  <2>1. UNCHANGED <<clock, prevTick, enabled, owed, allowed, spurious>>
    BY <1>2 DEF Obeyed, Answered, CommandFails, ReadFails, WindowKept, history
  <2>2. Onward("sweep")
    BY <1>2, ObeyedTypes, AnsweredTypes, CommandFailsTypes, ReadFailsTypes, WorkersApart
  <2> QED BY <1>1, <2>1, <2>2, BesideSchedule
<1>3. ASSUME NEW w \in Workers, NEW list \in Seq(Rules), StartFiring(w, jobs[w], list)
      PROVE  Sweep' = Sweep \/ Sweep'.at \notin {"rules", "home"}
  <2>1. AutoTypeOK
    BY DEF AutoTypes
  <2>2. CASE w = "sweep"
    BY <1>3, <2>1, <2>2, FiringType DEF Sweep, Firing
  <2>3. CASE w # "sweep"
    BY <1>3, <2>1, <2>3, FiringType, WorkersApart DEF Sweep
  <2> QED BY <2>2, <2>3
<1>4. ASSUME NEW w \in Workers, Recorded(w)
      PROVE  InstantsInv'
  <2>1. UNCHANGED <<clock, prevTick, enabled, owed, allowed, spurious>>
    BY <1>4 DEF Recorded
  <2>2. Tail(jobs[w].due) \in Seq(Rules) /\ StartFiring(w, jobs[w], Tail(jobs[w].due))
    BY <1>4, RecordedTypes DEF Recorded
  <2> QED BY <1>3, <2>1, <2>2, BesideSchedule
<1>5. ASSUME NEW s \in Slots, RulesRead(s)
      PROVE  InstantsInv'
  <2>1. UNCHANGED <<clock, prevTick, enabled, owed, allowed, spurious>>
    BY <1>5 DEF RulesRead
  <2>2. s \in Workers /\ \E list \in Seq(Rules) : StartFiring(s, jobs[s], list)
    BY <1>5, RulesReadTypes
  <2> QED BY <1>3, <2>1, <2>2, BesideSchedule
<1>6. CASE PollApplies
  <2>1. UNCHANGED <<clock, prevTick, enabled, owed, allowed, spurious>>
    BY <1>6 DEF PollApplies, history
  <2>2. Onward("sweep")
    BY <1>6, PollAppliesTypes, WorkersApart
  <2> QED BY <1>1, <2>1, <2>2, BesideSchedule
<1>7. CASE Sweeping
  BY <1>7, SweepBeginsInstants, SweepReadsHomeInstants DEF Sweeping
<1>8. CASE Outside
  <2>1. CASE Minute
    BY <2>1, MinuteInstants
  <2>2. CASE \E r \in Rules : Toggle(r)
    BY <2>2, ToggleInstants
  <2>3. CASE ~Minute /\ ~\E r \in Rules : Toggle(r)
    <3>1. UNCHANGED <<clock, prevTick, enabled, owed, allowed, spurious, jobs>>
      BY <1>8, <2>3 DEF Outside, PollReads, PollFails, Flip, autoVars, engine, watcher, history
    <3> QED BY <3>1, BesideSchedule DEF Sweep
  <2> QED BY <2>1, <2>2, <2>3
<1>9. CASE Restarted
  <2>1. /\ prevTick' = Unset /\ owed' = {} /\ UNCHANGED <<clock, spurious>>
        /\ Sweep'.at = "idle"
    BY <1>9, RestartedTypes, WorkersApart DEF Restarted, Sweep
  <2> QED BY <2>1 DEF InstantsInv, ClockInv, OwedInv, AllowedInv, Reading, Since
<1> QED BY <1>2, <1>4, <1>5, <1>6, <1>7, <1>8, <1>9 DEF AutoNext, Outside

\* Every instant of a rule that stays enabled is fired or settled by the sweep
\* that passes over it, and the sweep fires nothing else, for any calendar, any
\* number of rules and any sweeps that fail or come late within a day.
THEOREM InstantsFireOnce == AutoSpec => []EachInstantOnce
<1>1. InstantsInv => EachInstantOnce
  BY DEF InstantsInv, OwedInv, EachInstantOnce
<1> QED BY <1>1, AutoInitTypes, AutoInitWatch, InstantsInit, AutoNextTypes, AutoNextInstants, PTL
        DEF AutoSpec
===============================================================================
