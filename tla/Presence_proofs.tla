--------------------------- MODULE Presence_proofs ---------------------------
(***************************************************************************)
(* Proofs about Presence, for any people, devices, sweeps and crashes, as  *)
(* long as one scan runs at a time: nobody is forgotten on either side and *)
(* nobody arrives twice in a row.  Of one person, or when no report of the *)
(* router comes while a sweep works, nobody leaves twice in a row either   *)
(* and presence never leaves the house `away' with somebody in it.         *)
(***************************************************************************)
EXTENDS Presence, SequenceTheorems, FiniteSetTheorems, TLAPS

\* scanCycle() alone, or POST /rescan alone: with two scans at once one may
\* hold a reading of a row that the other has made stale.
OneScan == \A s, t \in Scanners : s = t

Modes == {"home", "away", "night"}
Kinds == {"reconcile", "findDevice", "upsert", "findStale", "markStale",
          "ownerOnline", "ownerOffline", "countOnline", "arriveUser", "arriveRow", "arriveMode",
          "leftUser", "leftRow", "countAnyone", "leftMode", "readMode", "writeMode",
          "setting1", "setting2", "setting3", "recheck"}
Args == Devices \cup People \cup {"all", "mode", "settings", "stale"}
Callers == Scanners \cup {"event", "sweep", "user"}
Items == [op : Kinds, arg : Args, carries : BOOLEAN, mode : Modes, call : Callers]
Scannings == [on : BOOLEAN, seen : SUBSET Devices, todo : SUBSET Devices]
Sweepings == [on : BOOLEAN, todo : SUBSET Args, streak : [People -> Int],
              night : BOOLEAN, met : Int]

\* (An operation that names a person carries the name as it came: that it is
\* one of People is not needed.)
PresenceTypes ==
  /\ online \subseteq Devices
  /\ pending \subseteq Args /\ ripe \subseteq Args
  /\ streak \in [People -> Int]
  /\ home \in [People -> {"yes", "no", "unknown"}]
  /\ scan \in [Scanners -> Scannings]
  /\ sweep \in Sweepings
  /\ queue \in Seq(Items)

\* An operation of one of these kinds, for one person.
Is(item, kinds, p) == item.op \in kinds /\ item.arg = p

\* What is known of a person will be as wanted once the queue is served: it is
\* already, or a maker of it waits; and no breaker comes after.
Word(q, known, p, wanted, makers, breakers) ==
  \/ known = wanted /\ \A j \in DOMAIN q : ~Is(q[j], breakers, p)
  \/ \E i \in DOMAIN q : /\ Is(q[i], makers, p)
                         /\ \A j \in DOMAIN q : j > i => ~Is(q[j], breakers, p)

Arriving == {"ownerOnline", "arriveUser"}
Leaving == {"ownerOffline", "countOnline", "leftUser"}
WillCome(p) == Word(queue, home[p], p, "yes", Arriving, {"leftUser"})
WillGo(p) == Word(queue, home[p], p, "no", Leaving, {"arriveUser"})

\* Everybody with a signal is at home or about to be; everybody without one is
\* away, about to be, or has a departure pending.
PeopleInv == Restarting \/ \A p \in People :
  /\ Signal(p) => WillCome(p)
  /\ ~Signal(p) => p \in pending \/ WillGo(p)

\* Until reconcile() has been through, only the mode may be set.
RestartInv == \A i \in DOMAIN queue : queue[i].op = "reconcile" =>
  /\ i = 1 /\ pending = {}
  /\ \A j \in DOMAIN queue : j > 1 => queue[j].op = "readMode"

\* One operation of the scan waits, and what it has read is still so.
ScanOps == {"findDevice", "upsert", "findStale", "markStale"}
Scans(item) ==
  /\ item.call \in Scanners /\ scan[item.call].on
  /\ item.op \in {"findDevice", "upsert"} => item.arg \in Devices
  /\ item.op = "upsert" => (item.carries <=> item.arg \in online)
  /\ item.op = "markStale" => scan[item.call].todo = online \ scan[item.call].seen
ScanInv ==
  /\ \A i \in DOMAIN queue : queue[i].op \in ScanOps => Scans(queue[i])
  /\ \A i, j \in DOMAIN queue : queue[i].op \in ScanOps /\ queue[j].op \in ScanOps => i = j

\* An event of arrival is handled before the scan goes on, so it is still true.
EventInv == \A i \in DOMAIN queue : queue[i].op = "ownerOnline" =>
  /\ Signal(queue[i].arg)
  /\ \A j \in DOMAIN queue : queue[j].op \in ScanOps => i < j

PresenceInv == PresenceTypes /\ RestartInv /\ ScanInv /\ EventInv /\ PeopleInv

-----------------------------------------------------------------------------
\* The queue, served or added to.

LEMMA ServedElements ==
  ASSUME NEW q \in Seq(Items), q # <<>>, NEW ops \in Seq(Items),
         NEW r, r = Tail(q) \o ops
  PROVE  /\ r \in Seq(Items)
         /\ Len(r) = Len(q) - 1 + Len(ops)
         /\ Len(q) \in Nat \ {0} /\ Len(ops) \in Nat
         /\ Head(q) = q[1] /\ q[1] \in Items
         /\ DOMAIN r = 1 .. Len(r) /\ DOMAIN q = 1 .. Len(q) /\ DOMAIN ops = 1 .. Len(ops)
         /\ \A i \in 1 .. Len(q) - 1 : r[i] = q[i + 1]
         /\ \A i \in 1 .. Len(ops) : r[Len(q) - 1 + i] = ops[i]
         /\ \A j \in DOMAIN r : \/ j + 1 \in DOMAIN q /\ r[j] = q[j + 1]
                                \/ j - Len(q) + 1 \in DOMAIN ops /\ r[j] = ops[j - Len(q) + 1]
<1>1. Len(q) \in Nat \ {0} /\ Len(ops) \in Nat
  BY EmptySeq
<1>2. Tail(q) \in Seq(Items) /\ Len(Tail(q)) = Len(q) - 1
  BY HeadTailProperties
<1>3. \A i \in 1 .. Len(q) - 1 : Tail(q)[i] = q[i + 1]
  BY HeadTailProperties
<1>4. r \in Seq(Items) /\ Len(r) = Len(q) - 1 + Len(ops)
  BY <1>2, ConcatProperties
<1>5. \A i \in 1 .. Len(r) :
        r[i] = IF i <= Len(q) - 1 THEN Tail(q)[i] ELSE ops[i - (Len(q) - 1)]
  BY <1>2, <1>4, ConcatProperties
<1>6. \A i \in 1 .. Len(q) - 1 : r[i] = q[i + 1]
  BY <1>1, <1>3, <1>4, <1>5
<1>7. \A i \in 1 .. Len(ops) : r[Len(q) - 1 + i] = ops[i]
  BY <1>1, <1>4, <1>5
<1>8. DOMAIN r = 1 .. Len(r) /\ DOMAIN q = 1 .. Len(q) /\ DOMAIN ops = 1 .. Len(ops)
  BY <1>4
<1>9. ASSUME NEW j \in DOMAIN r
      PROVE  \/ j + 1 \in DOMAIN q /\ r[j] = q[j + 1]
             \/ j - Len(q) + 1 \in DOMAIN ops /\ r[j] = ops[j - Len(q) + 1]
  <2>1. CASE j <= Len(q) - 1
    BY <1>1, <1>4, <1>6, <1>8, <2>1
  <2>2. CASE j > Len(q) - 1
    BY <1>1, <1>4, <1>5, <1>8, <2>2
  <2> QED BY <1>1, <1>4, <1>8, <2>1, <2>2
<1>10. Head(q) = q[1] /\ q[1] \in Items
  BY <1>1
<1> QED BY <1>1, <1>4, <1>6, <1>7, <1>8, <1>9, <1>10

LEMMA AddedElements ==
  ASSUME NEW q \in Seq(Items), NEW ops \in Seq(Items), NEW r, r = q \o ops
  PROVE  /\ r \in Seq(Items)
         /\ Len(r) = Len(q) + Len(ops)
         /\ Len(q) \in Nat /\ Len(ops) \in Nat
         /\ DOMAIN r = 1 .. Len(r) /\ DOMAIN q = 1 .. Len(q) /\ DOMAIN ops = 1 .. Len(ops)
         /\ \A i \in DOMAIN q : i \in DOMAIN r /\ r[i] = q[i]
         /\ \A i \in DOMAIN ops : Len(q) + i \in DOMAIN r /\ r[Len(q) + i] = ops[i]
         /\ \A j \in DOMAIN r : \/ j \in DOMAIN q /\ r[j] = q[j]
                                \/ j - Len(q) \in DOMAIN ops /\ r[j] = ops[j - Len(q)]
<1>1. Len(q) \in Nat /\ Len(ops) \in Nat
  OBVIOUS
<1>2. r \in Seq(Items) /\ Len(r) = Len(q) + Len(ops)
  BY ConcatProperties
<1>3. \A i \in 1 .. Len(r) : r[i] = IF i <= Len(q) THEN q[i] ELSE ops[i - Len(q)]
  BY <1>2, ConcatProperties
<1>4. DOMAIN r = 1 .. Len(r) /\ DOMAIN q = 1 .. Len(q) /\ DOMAIN ops = 1 .. Len(ops)
  BY <1>2
<1> QED BY <1>1, <1>2, <1>3, <1>4

LEMMA AddedOne ==
  ASSUME NEW q \in Seq(Items), NEW x \in Items, NEW r, r = q \o <<x>>
  PROVE  /\ r \in Seq(Items)
         /\ Len(q) \in Nat /\ DOMAIN q = 1 .. Len(q)
         /\ \A i \in DOMAIN q : i \in DOMAIN r /\ r[i] = q[i]
         /\ \A j \in DOMAIN r : \/ j \in DOMAIN q /\ r[j] = q[j]
                                \/ j = Len(q) + 1 /\ r[j] = x
<1> DEFINE ops == <<x>>
<1>1. ops \in Seq(Items) /\ Len(ops) = 1 /\ DOMAIN ops = 1 .. 1 /\ ops[1] = x
  OBVIOUS
<1> HIDE DEF ops
<1>2. r = q \o ops
  BY DEF ops
<1>3. /\ r \in Seq(Items) /\ Len(r) = Len(q) + 1
      /\ Len(q) \in Nat
      /\ DOMAIN r = 1 .. Len(r) /\ DOMAIN q = 1 .. Len(q)
      /\ \A i \in DOMAIN q : i \in DOMAIN r /\ r[i] = q[i]
  BY <1>1, <1>2, AddedElements
<1>4. \A i \in DOMAIN ops : r[Len(q) + i] = ops[i]
  BY <1>1, <1>2, AddedElements
<1>5. r[Len(q) + 1] = x
  BY <1>1, <1>4
<1>6. \A j \in DOMAIN r : j \in DOMAIN q \/ j = Len(q) + 1
  BY <1>3
<1> QED BY <1>3, <1>5, <1>6

LEMMA TwoItems ==
  ASSUME NEW e \in Items, NEW x \in Items, NEW ops, ops = <<e>> \o <<x>>
  PROVE  ops \in Seq(Items) /\ DOMAIN ops = {1, 2} /\ ops[1] = e /\ ops[2] = x
<1>1. <<e>> \in Seq(Items) /\ Len(<<e>>) = 1 /\ <<e>>[1] = e
  OBVIOUS
<1>2. <<x>> \in Seq(Items) /\ Len(<<x>>) = 1 /\ <<x>>[1] = x
  OBVIOUS
<1>3. DOMAIN ops = 1 .. 2
  BY <1>1, <1>2, AddedElements
<1>4. DOMAIN <<e>> = {1} /\ DOMAIN <<x>> = {1}
  OBVIOUS
<1>5. ops \in Seq(Items) /\ ops[1] = e /\ ops[1 + 1] = x
  BY <1>1, <1>2, <1>4, AddedElements
<1> QED BY <1>3, <1>5

-----------------------------------------------------------------------------
\* What a word becomes when the queue is served or added to.

LEMMA WordServed ==
  ASSUME NEW q \in Seq(Items), q # <<>>, NEW ops \in Seq(Items), NEW r, r = Tail(q) \o ops,
         NEW known, NEW next, NEW p, NEW wanted, NEW makers, NEW breakers,
         Word(q, known, p, wanted, makers, breakers),
         \A k \in DOMAIN ops : ~Is(ops[k], breakers, p),
         \/ next = wanted
         \/ next = known /\ ~Is(q[1], makers, p)
         \/ Is(q[1], breakers, p) /\ ~Is(q[1], makers, p)
  PROVE  Word(r, next, p, wanted, makers, breakers)
<1> USE ServedElements
<1>1. CASE known = wanted /\ \A j \in DOMAIN q : ~Is(q[j], breakers, p)
  <2>1. \A j \in DOMAIN r : ~Is(r[j], breakers, p)
    BY <1>1
  <2>2. ~Is(q[1], breakers, p)
    BY <1>1
  <2>3. next = wanted
    BY <1>1, <2>2
  <2> QED BY <2>1, <2>3 DEF Word
<1>2. ASSUME NEW i \in DOMAIN q, Is(q[i], makers, p),
             \A j \in DOMAIN q : j > i => ~Is(q[j], breakers, p)
      PROVE  Word(r, next, p, wanted, makers, breakers)
  <2>1. CASE i = 1
    <3>1. next = wanted
      BY <1>2, <2>1
    <3>2. \A j \in DOMAIN r : ~Is(r[j], breakers, p)
      BY <1>2, <2>1
    <3> QED BY <3>1, <3>2 DEF Word
  <2>2. CASE i # 1
    <3>1. i - 1 \in DOMAIN r /\ r[i - 1] = q[i]
      BY <2>2
    <3>2. ASSUME NEW j \in DOMAIN r, j > i - 1
          PROVE  ~Is(r[j], breakers, p)
      BY <1>2, <3>2
    <3> QED BY <1>2, <3>1, <3>2 DEF Word
  <2> QED BY <2>1, <2>2
<1> QED BY <1>1, <1>2 DEF Word

LEMMA WordMade ==
  ASSUME NEW q \in Seq(Items), q # <<>>, NEW ops \in Seq(Items), NEW r, r = Tail(q) \o ops,
         NEW next, NEW p, NEW wanted, NEW makers, NEW breakers,
         NEW k \in DOMAIN ops, Is(ops[k], makers, p),
         \A l \in DOMAIN ops : ~Is(ops[l], breakers, p)
  PROVE  Word(r, next, p, wanted, makers, breakers)
<1> USE ServedElements
<1> DEFINE i == Len(q) - 1 + k
<1>1. i \in DOMAIN r /\ r[i] = ops[k]
  OBVIOUS
<1>2. ASSUME NEW j \in DOMAIN r, j > i
      PROVE  ~Is(r[j], breakers, p)
  BY <1>2
<1> QED BY <1>1, <1>2 DEF Word

LEMMA WordAdded ==
  ASSUME NEW q \in Seq(Items), NEW ops \in Seq(Items), NEW r, r = q \o ops,
         NEW known, NEW p, NEW wanted, NEW makers, NEW breakers,
         Word(q, known, p, wanted, makers, breakers),
         \A k \in DOMAIN ops : ~Is(ops[k], breakers, p)
  PROVE  Word(r, known, p, wanted, makers, breakers)
<1> USE AddedElements
<1>1. CASE known = wanted /\ \A j \in DOMAIN q : ~Is(q[j], breakers, p)
  BY <1>1 DEF Word
<1>2. ASSUME NEW i \in DOMAIN q, Is(q[i], makers, p),
             \A j \in DOMAIN q : j > i => ~Is(q[j], breakers, p)
      PROVE  Word(r, known, p, wanted, makers, breakers)
  <2>1. i \in DOMAIN r /\ r[i] = q[i]
    OBVIOUS
  <2>2. ASSUME NEW j \in DOMAIN r, j > i
        PROVE  ~Is(r[j], breakers, p)
    BY <1>2, <2>2
  <2> QED BY <1>2, <2>1, <2>2 DEF Word
<1> QED BY <1>1, <1>2 DEF Word

-----------------------------------------------------------------------------
\* The invariants of the queue, when its head is served.

LEMMA ItemTypes ==
  ASSUME NEW kind \in Kinds, NEW arg \in Args, NEW m \in Modes, NEW caller \in Callers,
         NEW b \in BOOLEAN, NEW item \in Items
  PROVE  /\ Op(kind, arg) \in Items
         /\ [Op(kind, arg) EXCEPT !.call = caller] \in Items
         /\ SetMode(m, caller) \in Items
         /\ [item EXCEPT !.op = kind] \in Items
         /\ [item EXCEPT !.op = kind, !.carries = b] \in Items
<1>1. "home" \in Modes /\ "event" \in Callers /\ "mode" \in Args /\ "readMode" \in Kinds
  BY DEF Modes, Callers, Args, Kinds
<1>2. Op(kind, arg) \in Items /\ Op("readMode", "mode") \in Items
  BY <1>1 DEF Op, Items
<1>3. [Op(kind, arg) EXCEPT !.call = caller] \in Items
  BY <1>2 DEF Items
<1>4. SetMode(m, caller) \in Items
  BY <1>2 DEF Items, SetMode
<1>5. [item EXCEPT !.op = kind] \in Items
  BY DEF Items
<1>6. [item EXCEPT !.op = kind, !.carries = b] \in Items
  BY DEF Items
<1> QED BY <1>2, <1>3, <1>4, <1>5, <1>6

LEMMA OpType ==
  ASSUME NEW kind \in Kinds, NEW arg \in Args
  PROVE  Op(kind, arg) \in Items /\ Op(kind, arg).op = kind /\ Op(kind, arg).arg = arg
<1>1. Op(kind, arg).op = kind /\ Op(kind, arg).arg = arg
  BY DEF Op
<1>2. "home" \in Modes /\ TRUE \in BOOLEAN /\ "event" \in Callers
  BY DEF Modes, Callers
<1>3. Op(kind, arg) \in Items
  BY <1>2 DEF Op, Items
<1> QED BY <1>1, <1>3

\* No operation but reconcile itself is served before reconcile().
LEMMA RestartServed ==
  ASSUME PresenceTypes, RestartInv, queue # <<>>, Head(queue).op # "reconcile",
         NEW ops \in Seq(Items), Then(ops), \A k \in DOMAIN ops : ops[k].op # "reconcile"
  PROVE  ~Restarting /\ ~Restarting' /\ RestartInv' /\ queue' \in Seq(Items)
<1> DEFINE r == Tail(queue) \o ops
<1>1. queue \in Seq(Items) /\ queue' = r
  BY DEF PresenceTypes, Then
<1>2. \A i \in DOMAIN queue : queue[i].op # "reconcile"
  BY <1>1, ServedElements DEF RestartInv
<1>3. r \in Seq(Items) /\ \A j \in DOMAIN r : r[j].op # "reconcile"
  BY <1>1, <1>2, ServedElements
<1> QED BY <1>1, <1>2, <1>3 DEF Restarting, RestartInv

\* Serving something else leaves the scan's operation as it was ...
LEMMA ScanStands ==
  ASSUME PresenceTypes, ScanInv, queue # <<>>, NEW ops \in Seq(Items), Then(ops),
         Head(queue).op \in ScanOps \/ UNCHANGED <<online, scan>>,
         \A k \in DOMAIN ops : ops[k].op \notin ScanOps
  PROVE  ScanInv'
<1> DEFINE r == Tail(queue) \o ops
<1>1. queue \in Seq(Items) /\ queue' = r
  BY DEF PresenceTypes, Then
<1>2. \A j \in DOMAIN r : r[j].op \in ScanOps => j + 1 \in DOMAIN queue /\ r[j] = queue[j + 1]
  BY <1>1, ServedElements
<1>3. CASE Head(queue).op \in ScanOps
  <2>1. \A i \in DOMAIN queue : queue[i].op \in ScanOps => i = 1
    BY <1>1, <1>3, ServedElements DEF ScanInv
  <2>2. \A j \in DOMAIN r : r[j].op \notin ScanOps
    BY <1>1, <1>2, <2>1, ServedElements
  <2> QED BY <1>1, <2>2 DEF ScanInv
<1>4. CASE UNCHANGED <<online, scan>>
  <2>1. \A i \in DOMAIN queue : queue[i].op \in ScanOps => Scans(queue[i])
    BY DEF ScanInv
  <2>2. \A j \in DOMAIN r : r[j].op \in ScanOps => Scans(r[j])
    BY <1>2, <2>1
  <2>3. \A j \in DOMAIN r : r[j].op \in ScanOps =>
          (/\ r[j].call \in Scanners /\ scan'[r[j].call].on
           /\ r[j].op \in {"findDevice", "upsert"} => r[j].arg \in Devices
           /\ r[j].op = "upsert" => (r[j].carries <=> r[j].arg \in online')
           /\ r[j].op = "markStale" => scan'[r[j].call].todo = online' \ scan'[r[j].call].seen)
    BY <1>4, <2>2 DEF Scans
  <2>4. \A i, j \in DOMAIN r : r[i].op \in ScanOps /\ r[j].op \in ScanOps => i = j
    <3>1. \A i, j \in DOMAIN queue : queue[i].op \in ScanOps /\ queue[j].op \in ScanOps => i = j
      BY DEF ScanInv
    <3>2. ASSUME NEW i \in DOMAIN r, NEW j \in DOMAIN r, r[i].op \in ScanOps, r[j].op \in ScanOps
          PROVE  i = j
      <4>1. i + 1 = j + 1
        BY <1>2, <3>1, <3>2
      <4>2. i \in Int /\ j \in Int
        BY <1>1, ServedElements
      <4> QED BY <4>1, <4>2
    <3> QED BY <3>2
  <2> QED BY <1>1, <2>3, <2>4 DEF ScanInv, Scans
<1> QED BY <1>3, <1>4

\* ... and serving the scan's own replaces it by the next.
LEMMA ScanGoesOn ==
  ASSUME PresenceTypes, ScanInv, queue # <<>>, Head(queue).op \in ScanOps,
         NEW ops \in Seq(Items), Then(ops), NEW last \in DOMAIN ops,
         \A k \in DOMAIN ops : ops[k].op \in ScanOps => k = last,
         ops[last].call \in Scanners, scan'[ops[last].call].on,
         ops[last].op \in {"findDevice", "upsert"} => ops[last].arg \in Devices,
         ops[last].op = "upsert" => (ops[last].carries <=> ops[last].arg \in online'),
         ops[last].op = "markStale" =>
           scan'[ops[last].call].todo = online' \ scan'[ops[last].call].seen
  PROVE  ScanInv'
<1> DEFINE r == Tail(queue) \o ops
<1>1. queue \in Seq(Items) /\ queue' = r
  BY DEF PresenceTypes, Then
<1>2. \A i \in DOMAIN queue : queue[i].op \in ScanOps => i = 1
  BY <1>1, ServedElements DEF ScanInv
<1>3. \A j \in DOMAIN r : r[j].op \in ScanOps => j - Len(queue) + 1 = last /\ r[j] = ops[last]
  BY <1>1, <1>2, ServedElements
<1>4. \A j \in DOMAIN r : r[j].op \in ScanOps =>
          (/\ r[j].call \in Scanners /\ scan'[r[j].call].on
           /\ r[j].op \in {"findDevice", "upsert"} => r[j].arg \in Devices
           /\ r[j].op = "upsert" => (r[j].carries <=> r[j].arg \in online')
           /\ r[j].op = "markStale" => scan'[r[j].call].todo = online' \ scan'[r[j].call].seen)
  BY <1>3
<1>5. ASSUME NEW i \in DOMAIN r, NEW j \in DOMAIN r, r[i].op \in ScanOps, r[j].op \in ScanOps
      PROVE  i = j
  <2>1. i - Len(queue) + 1 = j - Len(queue) + 1
    BY <1>3, <1>5
  <2>2. i \in Int /\ j \in Int /\ Len(queue) \in Int
    BY <1>1, ServedElements
  <2> QED BY <2>1, <2>2
<1> QED BY <1>1, <1>4, <1>5 DEF ScanInv, Scans

LEMMA EventsStand ==
  ASSUME PresenceTypes, EventInv, queue # <<>>, NEW ops \in Seq(Items), Then(ops),
         online' = online,
         \A k \in DOMAIN ops : ops[k].op # "ownerOnline" /\ ops[k].op \notin ScanOps
  PROVE  EventInv'
<1> DEFINE r == Tail(queue) \o ops
<1>1. queue \in Seq(Items) /\ queue' = r
  BY DEF PresenceTypes, Then
<1>2. ASSUME NEW i \in DOMAIN r, r[i].op = "ownerOnline"
      PROVE  /\ Signal(r[i].arg)
             /\ \A j \in DOMAIN r : r[j].op \in ScanOps => i < j
  <2>1. i + 1 \in DOMAIN queue /\ r[i] = queue[i + 1] /\ i \in Int
    BY <1>1, <1>2, ServedElements
  <2>2. \A j \in DOMAIN r : r[j].op \in ScanOps =>
          j + 1 \in DOMAIN queue /\ r[j] = queue[j + 1] /\ j \in Int
    BY <1>1, ServedElements
  <2>3. /\ Signal(queue[i + 1].arg)
        /\ \A j \in DOMAIN queue : queue[j].op \in ScanOps => i + 1 < j
    BY <1>2, <2>1 DEF EventInv
  <2> QED BY <2>1, <2>2, <2>3
<1>3. ASSUME NEW x PROVE Signal(x)' <=> Signal(x)
  BY DEF Signal, DevicesOf
<1>4. \A i \in DOMAIN r : r[i].op = "ownerOnline" =>
        /\ DevicesOf(r[i].arg) \cap online' # {}
        /\ \A j \in DOMAIN r : r[j].op \in ScanOps => i < j
  BY <1>2 DEF Signal
<1> QED BY <1>1, <1>4 DEF EventInv, Signal, DevicesOf

\* No arrival waits behind the scan's operation.
LEMMA EventsOfScan ==
  ASSUME PresenceTypes, EventInv, queue # <<>>, Head(queue).op \in ScanOps,
         NEW ops \in Seq(Items), Then(ops),
         \A k \in DOMAIN ops : ops[k].op = "ownerOnline" =>
           /\ DevicesOf(ops[k].arg) \cap online' # {}
           /\ \A l \in DOMAIN ops : ops[l].op \in ScanOps => k < l,
         \A i, j \in DOMAIN queue : queue[i].op \in ScanOps /\ queue[j].op \in ScanOps => i = j
  PROVE  EventInv'
<1> DEFINE r == Tail(queue) \o ops
<1>1. queue \in Seq(Items) /\ queue' = r
  BY DEF PresenceTypes, Then
<1>2. 1 \in DOMAIN queue /\ queue[1].op \in ScanOps /\ DOMAIN queue \subseteq Nat \ {0}
  BY <1>1, ServedElements
<1>3. \A i \in DOMAIN queue : queue[i].op # "ownerOnline"
  BY <1>2 DEF EventInv
<1>4. \A i \in DOMAIN queue : queue[i].op \in ScanOps => i = 1
  BY <1>2
<1>5. ASSUME NEW i \in DOMAIN r, r[i].op = "ownerOnline"
      PROVE  /\ DevicesOf(r[i].arg) \cap online' # {}
             /\ \A j \in DOMAIN r : r[j].op \in ScanOps => i < j
  <2> DEFINE k == i - Len(queue) + 1
  <2>1. k \in DOMAIN ops /\ r[i] = ops[k] /\ i \in Int /\ Len(queue) \in Int
    BY <1>1, <1>3, <1>5, ServedElements
  <2>2. ASSUME NEW j \in DOMAIN r, r[j].op \in ScanOps
        PROVE  i < j
    <3>1. j - Len(queue) + 1 \in DOMAIN ops /\ r[j] = ops[j - Len(queue) + 1] /\ j \in Int
      BY <1>1, <1>4, <2>2, ServedElements
    <3>2. k < j - Len(queue) + 1
      BY <1>5, <2>1, <2>2, <3>1
    <3> QED BY <2>1, <3>1, <3>2
  <2> QED BY <1>5, <2>1, <2>2
<1> QED BY <1>1, <1>5 DEF EventInv, Signal, DevicesOf

LEMMA OneItem ==
  ASSUME NEW x \in Items
  PROVE  <<x>> \in Seq(Items) /\ DOMAIN <<x>> = {1} /\ <<x>>[1] = x
  OBVIOUS

LEMMA NoItem == <<>> \in Seq(Items) /\ DOMAIN <<>> = {}
  OBVIOUS

\* Who has a signal afterwards had it and is not disturbed, or is announced;
\* who has none is pending, is announced as lost, or is not disturbed.
LEMMA PeopleServed ==
  ASSUME PresenceTypes, queue # <<>>, NEW ops \in Seq(Items), Then(ops),
         ~Restarting, PeopleInv,
         \A p \in People : DevicesOf(p) \cap online' # {} =>
           /\ \A k \in DOMAIN ops : ~Is(ops[k], {"leftUser"}, p)
           /\ \/ /\ Signal(p)
                 /\ \/ home'[p] = "yes"
                    \/ home'[p] = home[p] /\ ~Is(queue[1], Arriving, p)
                    \/ Is(queue[1], {"leftUser"}, p)
              \/ \E k \in DOMAIN ops : Is(ops[k], Arriving, p),
         \A p \in People : DevicesOf(p) \cap online' = {} =>
           \/ p \in pending'
           \/ /\ \A k \in DOMAIN ops : ~Is(ops[k], {"arriveUser"}, p)
              /\ \/ /\ ~Signal(p) /\ p \notin pending
                    /\ \/ home'[p] = "no"
                       \/ home'[p] = home[p] /\ ~Is(queue[1], Leaving, p)
                       \/ Is(queue[1], {"arriveUser"}, p)
                 \/ \E k \in DOMAIN ops : Is(ops[k], Leaving, p)
  PROVE  PeopleInv'
<1> DEFINE r == Tail(queue) \o ops
<1>1. queue \in Seq(Items) /\ queue' = r
  BY DEF PresenceTypes, Then
<1>2. ASSUME NEW p \in People, DevicesOf(p) \cap online' # {}
      PROVE  Word(r, home'[p], p, "yes", Arriving, {"leftUser"})
  <2>1. CASE \E k \in DOMAIN ops : Is(ops[k], Arriving, p)
    BY <1>1, <1>2, <2>1, WordMade
  <2>2. CASE ~(\E k \in DOMAIN ops : Is(ops[k], Arriving, p))
    <3>1. Word(queue, home[p], p, "yes", Arriving, {"leftUser"})
      BY <1>2, <2>2 DEF PeopleInv, WillCome
    <3>2. Is(queue[1], {"leftUser"}, p) => ~Is(queue[1], Arriving, p)
      BY DEF Is, Arriving
    <3>3. \A k \in DOMAIN ops : ~Is(ops[k], {"leftUser"}, p)
      BY <1>2
    <3>4. \/ home'[p] = "yes"
          \/ home'[p] = home[p] /\ ~Is(queue[1], Arriving, p)
          \/ Is(queue[1], {"leftUser"}, p) /\ ~Is(queue[1], Arriving, p)
      BY <1>2, <2>2, <3>2
    <3> QED BY <1>1, <3>1, <3>3, <3>4, WordServed
  <2> QED BY <2>1, <2>2
<1>3. ASSUME NEW p \in People, DevicesOf(p) \cap online' = {}
      PROVE  p \in pending' \/ Word(r, home'[p], p, "no", Leaving, {"arriveUser"})
  <2>1. CASE p \in pending'
    BY <2>1
  <2>2. CASE p \notin pending'
    <3>1. \A k \in DOMAIN ops : ~Is(ops[k], {"arriveUser"}, p)
      BY <1>3, <2>2
    <3>2. CASE \E k \in DOMAIN ops : Is(ops[k], Leaving, p)
      BY <1>1, <3>1, <3>2, WordMade
    <3>3. CASE ~(\E k \in DOMAIN ops : Is(ops[k], Leaving, p))
      <4>1. Word(queue, home[p], p, "no", Leaving, {"arriveUser"})
        BY <1>3, <2>2, <3>3 DEF PeopleInv, WillGo
      <4>2. Is(queue[1], {"arriveUser"}, p) => ~Is(queue[1], Leaving, p)
        BY DEF Is, Leaving
      <4>3. \/ home'[p] = "no"
            \/ home'[p] = home[p] /\ ~Is(queue[1], Leaving, p)
            \/ Is(queue[1], {"arriveUser"}, p) /\ ~Is(queue[1], Leaving, p)
        BY <1>3, <2>2, <3>3, <4>2
      <4> QED BY <1>1, <3>1, <4>1, <4>3, WordServed
    <3> QED BY <3>2, <3>3
  <2> QED BY <2>1, <2>2
<1> QED BY <1>1, <1>2, <1>3 DEF PeopleInv, WillCome, WillGo, Signal, DevicesOf

-----------------------------------------------------------------------------
\* Most operations tell nothing of anybody's presence.
Quiet == {"arriveRow", "arriveMode", "leftRow", "countAnyone", "leftMode", "readMode",
          "writeMode", "setting1", "setting2", "setting3", "recheck"}

LEMMA QuietIs ==
  ASSUME NEW x, NEW p, x.op \in Quiet
  PROVE  /\ ~Is(x, Arriving, p) /\ ~Is(x, Leaving, p)
         /\ ~Is(x, {"leftUser"}, p) /\ ~Is(x, {"arriveUser"}, p)
         /\ x.op \notin ScanOps /\ x.op # "ownerOnline" /\ x.op # "reconcile"
  BY DEF Quiet, Is, Arriving, Leaving, ScanOps

LEMMA QuietStep ==
  ASSUME PresenceInv, queue # <<>>, Head(queue).op \in Quiet,
         NEW ops \in Seq(Items), Then(ops), \A k \in DOMAIN ops : ops[k].op \in Quiet,
         UNCHANGED <<online, home, pending, scan>>,
         ripe' \subseteq Args, streak' \in [People -> Int], sweep' \in Sweepings
  PROVE  PresenceInv'
<1>1. PresenceTypes /\ RestartInv /\ ScanInv /\ EventInv /\ PeopleInv
  BY DEF PresenceInv
<1>2. queue[1].op \in Quiet
  BY <1>1, ServedElements DEF PresenceTypes
<1>3. ~Restarting /\ ~Restarting' /\ RestartInv' /\ queue' \in Seq(Items)
  BY <1>1, QuietIs, RestartServed
<1>4. ScanInv'
  BY <1>1, QuietIs, ScanStands
<1>5. EventInv'
  BY <1>1, QuietIs, EventsStand
<1>6. \A p \in People : (DevicesOf(p) \cap online' # {}) <=> Signal(p)
  BY DEF Signal
<1>7. PeopleInv'
  <2>1. \A p \in People : DevicesOf(p) \cap online' # {} =>
           /\ \A k \in DOMAIN ops : ~Is(ops[k], {"leftUser"}, p)
           /\ Signal(p) /\ home'[p] = home[p] /\ ~Is(queue[1], Arriving, p)
    BY <1>2, <1>6, QuietIs
  <2>2. \A p \in People : DevicesOf(p) \cap online' = {} =>
           \/ p \in pending'
           \/ /\ \A k \in DOMAIN ops : ~Is(ops[k], {"arriveUser"}, p)
              /\ ~Signal(p) /\ p \notin pending
              /\ home'[p] = home[p] /\ ~Is(queue[1], Leaving, p)
    BY <1>2, <1>6, QuietIs
  <2> QED BY <1>1, <1>3, <2>1, <2>2, PeopleServed
<1>8. PresenceTypes'
  BY <1>1, <1>3 DEF PresenceTypes
<1> QED BY <1>3, <1>4, <1>5, <1>7, <1>8 DEF PresenceInv

\* The next person of a sweep, or its end.
LEMMA NextPersonQuiet ==
  ASSUME PresenceTypes, NEW todo \in SUBSET Args, NextPerson(todo)
  PROVE  /\ sweep' \in Sweepings
         /\ \E ops \in Seq(Items) : Then(ops) /\ \A k \in DOMAIN ops : ops[k].op = "recheck"
<1>1. CASE todo = {}
  <2>1. sweep' = NoSweep /\ Then(<<>>)
    BY <1>1 DEF NextPerson, Done
  <2>2. NoSweep \in Sweepings
    BY DEF NoSweep, Sweepings
  <2>3. \E ops \in Seq(Items) : Then(ops) /\ \A k \in DOMAIN ops : ops[k].op = "recheck"
    <3>1. <<>> \in Seq(Items) /\ \A k \in DOMAIN <<>> : <<>>[k].op = "recheck"
      BY NoItem
    <3> WITNESS <<>> \in Seq(Items)
    <3> QED BY <2>1, <3>1
  <2>4. sweep' \in Sweepings
    BY <2>1, <2>2
  <2> QED BY <2>3, <2>4
<1>2. CASE todo # {}
  <2>1. PICK p \in todo : /\ sweep' = [sweep EXCEPT !.todo = todo \ {p}]
                          /\ Then(<<Op("recheck", p)>>)
    BY <1>2 DEF NextPerson
  <2>2. "recheck" \in Kinds /\ p \in Args
    BY DEF Kinds, Args
  <2>3. Op("recheck", p) \in Items /\ Op("recheck", p).op = "recheck"
    BY <2>2, OpType
  <2>4. sweep' \in Sweepings
    BY <2>1 DEF PresenceTypes, Sweepings
  <2> DEFINE next == <<Op("recheck", p)>>
  <2>5. next \in Seq(Items) /\ \A k \in DOMAIN next : next[k].op = "recheck"
    BY <2>3, OneItem
  <2>6. Then(next)
    BY <2>1
  <2> HIDE DEF next
  <2> QED BY <2>4, <2>5, <2>6
<1> QED BY <1>1, <1>2

-----------------------------------------------------------------------------
\* The scan.

LEMMA HeadServed ==
  ASSUME PresenceInv, NEW kind, Serving(kind)
  PROVE  /\ PresenceTypes /\ RestartInv /\ ScanInv /\ EventInv /\ PeopleInv
         /\ queue # <<>> /\ queue \in Seq(Items)
         /\ Head(queue) = queue[1] /\ 1 \in DOMAIN queue
         /\ queue[1] \in Items /\ This \in Items /\ This = queue[1] /\ This.op = kind
<1>1. PresenceTypes /\ RestartInv /\ ScanInv /\ EventInv /\ PeopleInv
  BY DEF PresenceInv
<1>2. queue # <<>> /\ queue \in Seq(Items) /\ Head(queue).op = kind
  BY <1>1 DEF Serving, PresenceTypes
<1>3. Head(queue) = queue[1] /\ 1 \in DOMAIN queue /\ queue[1] \in Items
  BY <1>2, ServedElements
<1> QED BY <1>1, <1>2, <1>3 DEF This

LEMMA ScanIs ==
  ASSUME NEW x, NEW p, x.op \in ScanOps
  PROVE  /\ ~Is(x, Arriving, p) /\ ~Is(x, Leaving, p)
         /\ ~Is(x, {"leftUser"}, p) /\ ~Is(x, {"arriveUser"}, p)
         /\ x.op \notin Quiet /\ x.op # "ownerOnline" /\ x.op # "reconcile"
  BY DEF Quiet, Is, Arriving, Leaving, ScanOps

\* The operation by which a scan goes on.
LEMMA NextDeviceType ==
  ASSUME NEW s \in Scanners, NEW todo \in SUBSET Devices, NEW next \in NextDevice(s, todo)
  PROVE  \E x \in Items : /\ next = <<x>> /\ x.call = s
                          /\ x.op \in {"findDevice", "findStale"}
                          /\ x.op = "findDevice" => x.arg \in todo
<1>1. s \in Callers /\ "stale" \in Args /\ "findStale" \in Kinds /\ "findDevice" \in Kinds
  BY DEF Callers, Args, Kinds
<1>2. CASE todo = {}
  <2> DEFINE x == [Op("findStale", "stale") EXCEPT !.call = s]
  <2>1. next = <<x>>
    BY <1>2 DEF NextDevice
  <2>2. Op("findStale", "stale") \in Items /\ Op("findStale", "stale").op = "findStale"
    BY <1>1, OpType
  <2>3. x \in Items /\ x.call = s /\ x.op = "findStale"
    BY <1>1, <2>2 DEF Items
  <2> HIDE DEF x
  <2> QED BY <2>1, <2>3
<1>3. CASE todo # {}
  <2>1. PICK d \in todo : next = <<[Op("findDevice", d) EXCEPT !.call = s]>>
    BY <1>3 DEF NextDevice
  <2> DEFINE x == [Op("findDevice", d) EXCEPT !.call = s]
  <2>2. d \in Devices /\ d \in Args
    BY DEF Args
  <2>3. /\ Op("findDevice", d) \in Items
        /\ Op("findDevice", d).op = "findDevice" /\ Op("findDevice", d).arg = d
    BY <1>1, <2>2, OpType
  <2>4. x \in Items /\ x.call = s /\ x.op = "findDevice" /\ x.arg = d
    BY <1>1, <2>3 DEF Items
  <2>5. next = <<x>>
    BY <2>1
  <2> HIDE DEF x
  <2> QED BY <2>2, <2>4, <2>5
<1> QED BY <1>2, <1>3

\* A step of the scan that changes no row.
LEMMA ScanStep ==
  ASSUME PresenceInv, queue # <<>>, Head(queue).op \in ScanOps,
         NEW ops \in Seq(Items), Then(ops), \A k \in DOMAIN ops : ops[k].op \in ScanOps,
         UNCHANGED <<online, leaving, home, sweep>>,
         scan' \in [Scanners -> Scannings], ScanInv'
  PROVE  PresenceInv'
<1>1. PresenceTypes /\ RestartInv /\ ScanInv /\ EventInv /\ PeopleInv
  BY DEF PresenceInv
<1>2. queue[1].op \in ScanOps
  BY <1>1, ServedElements DEF PresenceTypes
<1>3. ~Restarting /\ ~Restarting' /\ RestartInv' /\ queue' \in Seq(Items)
  BY <1>1, ScanIs, RestartServed
<1>4. \A i, j \in DOMAIN queue : queue[i].op \in ScanOps /\ queue[j].op \in ScanOps => i = j
  BY <1>1 DEF ScanInv
<1>5. EventInv'
  BY <1>1, <1>4, ScanIs, EventsOfScan
<1>6. \A p \in People : (DevicesOf(p) \cap online' # {}) <=> Signal(p)
  BY DEF Signal
<1>7. PeopleInv'
  <2>1. \A p \in People : DevicesOf(p) \cap online' # {} =>
           /\ \A k \in DOMAIN ops : ~Is(ops[k], {"leftUser"}, p)
           /\ Signal(p) /\ home'[p] = home[p] /\ ~Is(queue[1], Arriving, p)
    BY <1>2, <1>6, ScanIs
  <2>2. \A p \in People : DevicesOf(p) \cap online' = {} =>
           \/ p \in pending'
           \/ /\ \A k \in DOMAIN ops : ~Is(ops[k], {"arriveUser"}, p)
              /\ ~Signal(p) /\ p \notin pending
              /\ home'[p] = home[p] /\ ~Is(queue[1], Leaving, p)
    BY <1>2, <1>6, ScanIs DEF leaving
  <2> QED BY <1>1, <1>3, <2>1, <2>2, PeopleServed
<1>8. PresenceTypes'
  BY <1>1, <1>3 DEF PresenceTypes, leaving
<1> QED BY <1>3, <1>5, <1>7, <1>8 DEF PresenceInv

LEMMA FindDeviceInv ==
  ASSUME PresenceInv, FindDevice
  PROVE  PresenceInv'
<1> USE DEF FindDevice
<1>1. /\ PresenceTypes /\ ScanInv
      /\ queue # <<>> /\ Head(queue) = queue[1] /\ 1 \in DOMAIN queue
      /\ This \in Items /\ This = queue[1] /\ This.op = "findDevice"
  BY HeadServed
<1>2. "findDevice" \in ScanOps /\ "upsert" \in ScanOps /\ "upsert" \in Kinds
  BY DEF ScanOps, Kinds
<1>3. Scans(queue[1])
  BY <1>1, <1>2 DEF ScanInv
<1> DEFINE read == This.arg \in online
           x == [This EXCEPT !.op = "upsert", !.carries = read]
           ops == <<x>>
<1>4. Then(ops) /\ UNCHANGED <<online, leaving, home, scan, sweep>>
  OBVIOUS
<1>5. read \in BOOLEAN /\ (read <=> This.arg \in online)
  OBVIOUS
<1> HIDE DEF read, FindDevice
<1>6. x \in Items /\ x.op = "upsert" /\ x.arg = This.arg /\ x.call = This.call /\ x.carries = read
  BY <1>1, <1>2, <1>5 DEF Items
<1> HIDE DEF x
<1>7. ops \in Seq(Items) /\ DOMAIN ops = {1} /\ ops[1] = x
  BY <1>6, OneItem
<1> HIDE DEF ops
<1>8. x.call \in Scanners /\ scan[x.call].on /\ x.arg \in Devices
  BY <1>1, <1>3, <1>6 DEF Scans
<1>9. x.carries <=> x.arg \in online
  BY <1>5, <1>6
<1>10. ScanInv'
  BY <1>1, <1>2, <1>4, <1>6, <1>7, <1>8, <1>9, ScanGoesOn
<1>11. scan' \in [Scanners -> Scannings]
  BY <1>1, <1>4 DEF PresenceTypes
<1> QED BY <1>1, <1>2, <1>4, <1>6, <1>7, <1>10, <1>11, ScanStep

LEMMA FindStaleInv ==
  ASSUME PresenceInv, FindStale
  PROVE  PresenceInv'
<1> USE DEF FindStale
<1>1. /\ PresenceTypes /\ ScanInv
      /\ queue # <<>> /\ Head(queue) = queue[1] /\ 1 \in DOMAIN queue
      /\ This \in Items /\ This = queue[1] /\ This.op = "findStale"
  BY HeadServed
<1>2. "findStale" \in ScanOps /\ "markStale" \in ScanOps /\ "markStale" \in Kinds
  BY DEF ScanOps, Kinds
<1>3. Scans(queue[1])
  BY <1>1, <1>2 DEF ScanInv
<1> DEFINE s == This.call
           stale == online \ scan[s].seen
<1>4. s \in Scanners /\ scan[s].on /\ scan[s] \in Scannings
  BY <1>1, <1>3 DEF Scans, PresenceTypes
<1>5. CASE stale = {}
  <2>1. EndScan(s) /\ Then(<<>>)
    BY <1>5 DEF Done
  <2>2. scan' \in [Scanners -> Scannings]
    BY <1>1, <2>1 DEF PresenceTypes, EndScan, NoScan, Scannings
  <2>3. ScanInv'
    BY <1>1, <1>2, <2>1, NoItem, ScanStands
  <2> QED BY <1>1, <1>2, <2>1, <2>2, <2>3, NoItem, ScanStep
<1>6. CASE stale # {}
  <2> DEFINE x == [This EXCEPT !.op = "markStale"]
             ops == <<x>>
  <2>1. /\ scan' = [scan EXCEPT ![s].todo = stale] /\ Then(ops)
        /\ UNCHANGED <<online, leaving, home, sweep>>
    BY <1>6
  <2> HIDE DEF FindStale
  <2>2. x \in Items /\ x.op = "markStale" /\ x.call = s
    BY <1>1, <1>2 DEF Items
  <2> HIDE DEF x
  <2>5. ops \in Seq(Items) /\ DOMAIN ops = {1} /\ ops[1] = x
    BY <2>2, OneItem
  <2> HIDE DEF ops
  <2>3. /\ scan' \in [Scanners -> Scannings]
        /\ scan'[s].on /\ scan'[s].todo = stale /\ scan'[s].seen = scan[s].seen
    BY <1>1, <1>4, <2>1 DEF PresenceTypes, Scannings
  <2>4. ScanInv'
    BY <1>1, <1>2, <1>4, <2>1, <2>2, <2>3, <2>5, ScanGoesOn
  <2> QED BY <1>1, <1>2, <2>1, <2>2, <2>3, <2>4, <2>5, ScanStep
<1> QED BY <1>5, <1>6

LEMMA UpsertInv ==
  ASSUME PresenceInv, Upsert
  PROVE  PresenceInv'
<1> DEFINE s == This.call
           left == scan[s].todo \ {This.arg}
           event == IF This.carries THEN <<>> ELSE <<Op("ownerOnline", Owner[This.arg])>>
<1>1. /\ PresenceTypes /\ RestartInv /\ ScanInv /\ EventInv /\ PeopleInv
      /\ queue # <<>> /\ Head(queue) = queue[1] /\ 1 \in DOMAIN queue
      /\ This \in Items /\ This = queue[1] /\ This.op = "upsert"
  BY HeadServed DEF Upsert
<1>2. "upsert" \in ScanOps /\ "ownerOnline" \in Kinds
  BY DEF ScanOps, Kinds
<1>3. Scans(queue[1])
  BY <1>1, <1>2 DEF ScanInv
<1>4. /\ s \in Scanners /\ scan[s].on /\ scan[s] \in Scannings
      /\ This.arg \in Devices /\ Owner[This.arg] \in People
      /\ This.carries <=> This.arg \in online
  BY <1>1, <1>3, OwnerAssumption DEF Scans, PresenceTypes
<1>5. PICK next \in NextDevice(s, left) : Then(event \o next)
  BY DEF Upsert
<1>6. /\ online' = online \cup {This.arg}
      /\ scan' = [scan EXCEPT ![s].todo = left]
      /\ UNCHANGED <<leaving, home, sweep>>
  BY DEF Upsert
<1>7. left \in SUBSET Devices
  BY <1>4 DEF Scannings
<1>8. PICK x \in Items : /\ next = <<x>> /\ x.call = s
                         /\ x.op \in {"findDevice", "findStale"}
                         /\ x.op = "findDevice" => x.arg \in Devices
  BY <1>4, <1>7, NextDeviceType
<1>9. scan' \in [Scanners -> Scannings] /\ scan'[s].on
  BY <1>1, <1>4, <1>6, <1>7 DEF PresenceTypes, Scannings
<1>10. online' \subseteq Devices
  BY <1>1, <1>4, <1>6 DEF PresenceTypes
<1> HIDE DEF left
<1>11. CASE This.carries
  <2> DEFINE ops == <<x>>
  <2>1. <<>> \o <<x>> = <<x>>
    OBVIOUS
  <2>2. Then(ops)
    BY <1>5, <1>8, <1>11, <2>1
  <2>3. ops \in Seq(Items) /\ DOMAIN ops = {1} /\ ops[1] = x
    BY <1>8, OneItem
  <2> HIDE DEF ops
  <2>4. online' = online
    BY <1>4, <1>6, <1>11
  <2>5. x.op \in ScanOps
    BY <1>8 DEF ScanOps
  <2>6. ScanInv'
    BY <1>1, <1>2, <1>4, <1>8, <1>9, <2>2, <2>3, <2>5, ScanGoesOn
  <2> QED BY <1>1, <1>2, <1>6, <1>9, <2>2, <2>3, <2>4, <2>5, <2>6, ScanStep
<1>12. CASE ~This.carries
  <2> DEFINE e == Op("ownerOnline", Owner[This.arg])
             ops == <<e>> \o <<x>>
  <2>2. Then(ops)
    BY <1>5, <1>8, <1>12
  <2>3. e \in Items /\ e.op = "ownerOnline" /\ e.arg = Owner[This.arg]
    BY <1>2, <1>4, OpType DEF Args
  <2> HIDE DEF e
  <2>4. ops \in Seq(Items) /\ DOMAIN ops = {1, 2} /\ ops[1] = e /\ ops[2] = x
    BY <1>8, <2>3, TwoItems
  <2> HIDE DEF ops
  <2>5. x.op \in ScanOps /\ e.op \notin ScanOps /\ x.op \notin {"ownerOnline", "reconcile", "upsert", "markStale"}
    BY <1>8, <2>3 DEF ScanOps
  <2>6. ScanInv'
    BY <1>1, <1>2, <1>4, <1>8, <1>9, <2>2, <2>3, <2>4, <2>5, ScanGoesOn
  <2>7. ~Restarting /\ ~Restarting' /\ RestartInv' /\ queue' \in Seq(Items)
    BY <1>1, <2>2, <2>3, <2>4, <2>5, RestartServed
  <2>8. DevicesOf(e.arg) \cap online' # {}
    BY <1>4, <1>6, <2>3 DEF DevicesOf
  <2>9. EventInv'
    <3>1. \A k \in DOMAIN ops : ops[k].op = "ownerOnline" =>
           /\ DevicesOf(ops[k].arg) \cap online' # {}
           /\ \A l \in DOMAIN ops : ops[l].op \in ScanOps => k < l
      BY <2>4, <2>5, <2>8
    <3>2. \A i, j \in DOMAIN queue : queue[i].op \in ScanOps /\ queue[j].op \in ScanOps => i = j
      BY <1>1 DEF ScanInv
    <3> QED BY <1>1, <1>2, <2>2, <2>4, <3>1, <3>2, EventsOfScan
  <2>10. PeopleInv'
    <3>1. \A p : ~Is(e, {"leftUser"}, p) /\ ~Is(e, {"arriveUser"}, p) /\ (Is(e, Arriving, p) <=> p = e.arg)
      BY <2>3 DEF Is, Arriving
    <3>2. \A p : /\ ~Is(x, {"leftUser"}, p) /\ ~Is(x, {"arriveUser"}, p)
                 /\ ~Is(queue[1], Arriving, p) /\ ~Is(queue[1], Leaving, p)
      BY <1>1, <1>2, <2>5, ScanIs
    <3>3. \A p \in People : DevicesOf(p) \cap online' # {} => Signal(p) \/ p = e.arg
      BY <1>6, <2>3 DEF Signal, DevicesOf
    <3>4. \A p \in People : Signal(p) => DevicesOf(p) \cap online' # {}
      BY <1>6 DEF Signal
    <3>5. \A p \in People : DevicesOf(p) \cap online' # {} =>
           /\ \A k \in DOMAIN ops : ~Is(ops[k], {"leftUser"}, p)
           /\ \/ Signal(p) /\ home'[p] = home[p] /\ ~Is(queue[1], Arriving, p)
              \/ \E k \in DOMAIN ops : Is(ops[k], Arriving, p)
      BY <1>6, <2>4, <3>1, <3>2, <3>3
    <3>6. \A p \in People : DevicesOf(p) \cap online' = {} =>
           \/ p \in pending'
           \/ /\ \A k \in DOMAIN ops : ~Is(ops[k], {"arriveUser"}, p)
              /\ ~Signal(p) /\ p \notin pending
              /\ home'[p] = home[p] /\ ~Is(queue[1], Leaving, p)
      BY <1>6, <2>4, <3>1, <3>2, <3>4 DEF leaving
    <3> QED BY <1>1, <2>2, <2>4, <2>7, <3>5, <3>6, PeopleServed
  <2>11. PresenceTypes'
    BY <1>1, <1>6, <1>9, <1>10, <2>7 DEF PresenceTypes, leaving
  <2> QED BY <2>6, <2>7, <2>9, <2>10, <2>11 DEF PresenceInv
<1> QED BY <1>11, <1>12

\* Some order of a finite set names each of its members.
LEMMA OrderNamesAll ==
  ASSUME NEW S, IsFiniteSet(S), NEW order \in SetToSeqs(S)
  PROVE  /\ Cardinality(S) \in Nat /\ DOMAIN order = 1 .. Cardinality(S)
         /\ \A i \in DOMAIN order : order[i] \in S
         /\ \A x \in S : \E i \in DOMAIN order : order[i] = x
<1> DEFINE n == Cardinality(S)
<1>1. n \in Nat
  BY FS_CardinalityType
<1>2. order \in [1 .. n -> S] /\ \A i, j \in 1 .. n : i # j => order[i] # order[j]
  BY DEF SetToSeqs
<1>3. order \in Injection(1 .. n, S)
  BY <1>2 DEF Injection, IsInjective
<1>4. Cardinality(1 .. n) = n
  BY <1>1, FS_Interval
<1>5. order \in Surjection(1 .. n, S)
  BY <1>3, <1>4, FS_Injection
<1> QED BY <1>1, <1>2, <1>5 DEF Surjection

LEMMA MarkStaleInv ==
  ASSUME PresenceInv, MarkStale
  PROVE  PresenceInv'
<1> DEFINE s == This.call
           todo == scan[s].todo
<1>1. /\ PresenceTypes /\ RestartInv /\ ScanInv /\ EventInv /\ PeopleInv
      /\ queue # <<>> /\ Head(queue) = queue[1] /\ 1 \in DOMAIN queue
      /\ This \in Items /\ This = queue[1] /\ This.op = "markStale"
  BY HeadServed DEF MarkStale
<1>2. "markStale" \in ScanOps /\ "ownerOffline" \in Kinds
  BY DEF ScanOps, Kinds
<1>3. Scans(queue[1])
  BY <1>1, <1>2 DEF ScanInv
<1>4. s \in Scanners /\ scan[s] \in Scannings /\ todo = online \ scan[s].seen
  BY <1>1, <1>3 DEF Scans, PresenceTypes
<1>5. PICK order \in SetToSeqs(todo) :
        Then([i \in DOMAIN order |-> Op("ownerOffline", Owner[order[i]])])
  BY DEF MarkStale
<1>6. /\ online' = online \cap scan[s].seen
      /\ scan' = [scan EXCEPT ![s] = NoScan]
      /\ UNCHANGED <<leaving, home, sweep>>
  BY DEF MarkStale, EndScan
<1>7. todo \subseteq Devices /\ IsFiniteSet(todo)
  BY <1>4, DevicesAssumption, FS_Subset DEF Scannings
<1> DEFINE n == Cardinality(todo)
           ops == [i \in DOMAIN order |-> Op("ownerOffline", Owner[order[i]])]
<1>8. /\ n \in Nat /\ DOMAIN order = 1 .. n
      /\ \A i \in DOMAIN order : order[i] \in todo
      /\ \A x \in todo : \E i \in DOMAIN order : order[i] = x
  BY <1>7, OrderNamesAll
<1> HIDE DEF todo, n
<1>9. \A i \in DOMAIN order : /\ Op("ownerOffline", Owner[order[i]]) \in Items
                              /\ Op("ownerOffline", Owner[order[i]]).op = "ownerOffline"
                              /\ Op("ownerOffline", Owner[order[i]]).arg = Owner[order[i]]
  <2>1. \A i \in DOMAIN order : Owner[order[i]] \in Args
    BY <1>7, <1>8, OwnerAssumption DEF Args
  <2> QED BY <1>2, <2>1, OpType
<1>10. /\ ops \in Seq(Items) /\ DOMAIN ops = DOMAIN order
       /\ \A i \in DOMAIN ops : ops[i].op = "ownerOffline" /\ ops[i].arg = Owner[order[i]]
  <2>1. ops \in [1 .. n -> Items]
    BY <1>8, <1>9
  <2>2. ops \in Seq(Items)
    BY <1>8, <2>1
  <2> QED BY <1>9, <2>2
<1>11. Then(ops)
  BY <1>5
<1> HIDE DEF ops
<1>12. \A k \in DOMAIN ops : ops[k].op \notin ScanOps
  BY <1>10 DEF ScanOps
<1>13. ~Restarting /\ ~Restarting' /\ RestartInv' /\ queue' \in Seq(Items)
  BY <1>1, <1>10, <1>11, RestartServed
<1>14. ScanInv'
  BY <1>1, <1>2, <1>10, <1>11, <1>12, ScanStands
<1>15. EventInv'
  <2>1. \A i, j \in DOMAIN queue : queue[i].op \in ScanOps /\ queue[j].op \in ScanOps => i = j
    BY <1>1 DEF ScanInv
  <2> QED BY <1>1, <1>2, <1>10, <1>11, <2>1, EventsOfScan
<1>16. PeopleInv'
  <2>1. \A k \in DOMAIN ops : \A p : ~Is(ops[k], {"leftUser"}, p) /\ ~Is(ops[k], {"arriveUser"}, p)
    BY <1>10 DEF Is
  <2>2. \A p : ~Is(queue[1], Arriving, p) /\ ~Is(queue[1], Leaving, p)
    BY <1>1, <1>2, ScanIs
  <2>3. \A p \in People : DevicesOf(p) \cap online' # {} => Signal(p)
    BY <1>6 DEF Signal
  <2>4. ASSUME NEW p \in People, DevicesOf(p) \cap online' = {}, Signal(p)
        PROVE  \E k \in DOMAIN ops : Is(ops[k], Leaving, p)
    <3>1. PICK d \in DevicesOf(p) \cap online : d \in todo
      BY <1>4, <1>6, <2>4 DEF Signal
    <3>2. PICK k \in DOMAIN ops : order[k] = d
      BY <1>8, <1>10, <3>1
    <3>3. ops[k].op = "ownerOffline" /\ ops[k].arg = p
      BY <1>10, <3>1, <3>2 DEF DevicesOf
    <3> QED BY <3>3 DEF Is, Leaving
  <2>5. \A p \in People : DevicesOf(p) \cap online' # {} =>
           /\ \A k \in DOMAIN ops : ~Is(ops[k], {"leftUser"}, p)
           /\ Signal(p) /\ home'[p] = home[p] /\ ~Is(queue[1], Arriving, p)
    BY <1>6, <2>1, <2>2, <2>3
  <2>6. \A p \in People : DevicesOf(p) \cap online' = {} =>
           \/ p \in pending'
           \/ /\ \A k \in DOMAIN ops : ~Is(ops[k], {"arriveUser"}, p)
              /\ \/ /\ ~Signal(p) /\ p \notin pending
                    /\ home'[p] = home[p] /\ ~Is(queue[1], Leaving, p)
                 \/ \E k \in DOMAIN ops : Is(ops[k], Leaving, p)
    BY <1>6, <2>1, <2>2, <2>4 DEF leaving
  <2> QED BY <1>1, <1>10, <1>11, <1>13, <2>5, <2>6, PeopleServed
<1>17. PresenceTypes'
  <2>1. scan' \in [Scanners -> Scannings]
    BY <1>1, <1>6 DEF PresenceTypes, Scannings, NoScan
  <2> QED BY <1>1, <1>6, <1>13, <2>1 DEF PresenceTypes, leaving
<1> QED BY <1>13, <1>14, <1>15, <1>16, <1>17 DEF PresenceInv

-----------------------------------------------------------------------------
\* Steps that deal with one person: no row of a device changes.

LEMMA PersonStep ==
  ASSUME PresenceInv, queue # <<>>, Head(queue).op \notin ScanOps, Head(queue).op # "reconcile",
         NEW ops \in Seq(Items), Then(ops),
         \A k \in DOMAIN ops : ops[k].op \notin ScanOps /\ ops[k].op \notin {"ownerOnline", "reconcile"},
         UNCHANGED <<online, scan>>,
         pending' \subseteq Args, ripe' \subseteq Args, streak' \in [People -> Int],
         home' \in [People -> {"yes", "no", "unknown"}], sweep' \in Sweepings,
         \A p \in People : Signal(p) =>
           /\ \A k \in DOMAIN ops : ~Is(ops[k], {"leftUser"}, p)
           /\ \/ home'[p] = "yes"
              \/ home'[p] = home[p] /\ ~Is(queue[1], Arriving, p)
              \/ Is(queue[1], {"leftUser"}, p)
              \/ \E k \in DOMAIN ops : Is(ops[k], Arriving, p),
         \A p \in People : ~Signal(p) =>
           \/ p \in pending'
           \/ /\ \A k \in DOMAIN ops : ~Is(ops[k], {"arriveUser"}, p)
              /\ \/ /\ p \notin pending
                    /\ \/ home'[p] = "no"
                       \/ home'[p] = home[p] /\ ~Is(queue[1], Leaving, p)
                       \/ Is(queue[1], {"arriveUser"}, p)
                 \/ \E k \in DOMAIN ops : Is(ops[k], Leaving, p)
  PROVE  PresenceInv'
<1>1. PresenceTypes /\ RestartInv /\ ScanInv /\ EventInv /\ PeopleInv
  BY DEF PresenceInv
<1>2. ~Restarting /\ ~Restarting' /\ RestartInv' /\ queue' \in Seq(Items)
  BY <1>1, RestartServed
<1>3. ScanInv' /\ EventInv'
  BY <1>1, ScanStands, EventsStand
<1>4. \A p \in People : (DevicesOf(p) \cap online' # {}) <=> Signal(p)
  BY DEF Signal
<1>5. PeopleInv'
  BY <1>1, <1>2, <1>4, PeopleServed
<1>6. PresenceTypes'
  BY <1>1, <1>2 DEF PresenceTypes
<1> QED BY <1>2, <1>3, <1>5, <1>6 DEF PresenceInv

LEMMA OwnerOnlineInv ==
  ASSUME PresenceInv, OwnerOnline
  PROVE  PresenceInv'
<1> DEFINE p == This.arg
           ops == IF home[p] = "yes" THEN <<>> ELSE <<Op("arriveUser", p)>>
<1>1. /\ PresenceTypes /\ EventInv
      /\ queue # <<>> /\ Head(queue) = queue[1] /\ 1 \in DOMAIN queue
      /\ This \in Items /\ This = queue[1] /\ This.op = "ownerOnline"
  BY HeadServed DEF OwnerOnline
<1>2. Signal(p)
  BY <1>1 DEF EventInv
<1>3. /\ pending' = pending \ {p} /\ ripe' = ripe \ {p}
      /\ Then(ops)
      /\ UNCHANGED <<online, streak, home, scan, sweep>>
  BY DEF OwnerOnline, AlreadyHome, NoLongerPending
<1>4. /\ Op("arriveUser", p) \in Items
      /\ Op("arriveUser", p).op = "arriveUser" /\ Op("arriveUser", p).arg = p
  BY <1>1, OpType DEF Items, Kinds
<1>5. /\ ops \in Seq(Items)
      /\ \A k \in DOMAIN ops : ops[k].op = "arriveUser" /\ ops[k].arg = p
      /\ home[p] # "yes" => \E k \in DOMAIN ops : ops[k].op = "arriveUser" /\ ops[k].arg = p
  <2>1. CASE home[p] = "yes"
    BY <2>1, NoItem
  <2>2. CASE home[p] # "yes"
    BY <1>4, <2>2, OneItem
  <2> QED BY <2>1, <2>2
<1> HIDE DEF ops
<1>6. \A k \in DOMAIN ops : ops[k].op \notin ScanOps /\ ops[k].op \notin {"ownerOnline", "reconcile"}
  BY <1>5 DEF ScanOps
<1>7. \A q \in People : Signal(q) =>
        /\ \A k \in DOMAIN ops : ~Is(ops[k], {"leftUser"}, q)
        /\ \/ home'[q] = "yes"
           \/ home'[q] = home[q] /\ ~Is(queue[1], Arriving, q)
           \/ \E k \in DOMAIN ops : Is(ops[k], Arriving, q)
  BY <1>1, <1>3, <1>5 DEF Is, Arriving
<1>8. \A q \in People : ~Signal(q) =>
        \/ q \in pending'
        \/ /\ \A k \in DOMAIN ops : ~Is(ops[k], {"arriveUser"}, q)
           /\ q \notin pending
           /\ home'[q] = home[q] /\ ~Is(queue[1], Leaving, q)
  BY <1>1, <1>2, <1>3, <1>5 DEF Is, Leaving
<1>9. Head(queue).op \notin ScanOps /\ Head(queue).op # "reconcile"
  BY <1>1 DEF ScanOps
<1> QED BY <1>1, <1>3, <1>5, <1>6, <1>7, <1>8, <1>9, PersonStep DEF PresenceTypes

LEMMA OwnerOfflineInv ==
  ASSUME PresenceInv, OwnerOffline
  PROVE  PresenceInv'
<1> DEFINE p == This.arg
           ops == IF home[p] = "no" THEN <<>> ELSE <<Op("countOnline", p)>>
<1>1. /\ PresenceTypes
      /\ queue # <<>> /\ Head(queue) = queue[1] /\ 1 \in DOMAIN queue
      /\ This \in Items /\ This = queue[1] /\ This.op = "ownerOffline"
  BY HeadServed DEF OwnerOffline
<1>2. Then(ops) /\ UNCHANGED <<online, leaving, home, scan, sweep>>
  BY DEF OwnerOffline
<1>3. /\ Op("countOnline", p) \in Items
      /\ Op("countOnline", p).op = "countOnline" /\ Op("countOnline", p).arg = p
  BY <1>1, OpType DEF Items, Kinds
<1>4. /\ ops \in Seq(Items)
      /\ \A k \in DOMAIN ops : ops[k].op = "countOnline" /\ ops[k].arg = p
      /\ home[p] # "no" => \E k \in DOMAIN ops : ops[k].op = "countOnline" /\ ops[k].arg = p
  <2>1. CASE home[p] = "no"
    BY <2>1, NoItem
  <2>2. CASE home[p] # "no"
    BY <1>3, <2>2, OneItem
  <2> QED BY <2>1, <2>2
<1> HIDE DEF ops
<1>5. \A k \in DOMAIN ops : ops[k].op \notin ScanOps /\ ops[k].op \notin {"ownerOnline", "reconcile"}
  BY <1>4 DEF ScanOps
<1>6. \A q \in People : Signal(q) =>
        /\ \A k \in DOMAIN ops : ~Is(ops[k], {"leftUser"}, q)
        /\ home'[q] = home[q] /\ ~Is(queue[1], Arriving, q)
  BY <1>1, <1>2, <1>4 DEF Is, Arriving
<1>7. \A q \in People : ~Signal(q) =>
        \/ q \in pending'
        \/ /\ \A k \in DOMAIN ops : ~Is(ops[k], {"arriveUser"}, q)
           /\ \/ /\ q \notin pending
                 /\ \/ home'[q] = "no"
                    \/ home'[q] = home[q] /\ ~Is(queue[1], Leaving, q)
              \/ \E k \in DOMAIN ops : Is(ops[k], Leaving, q)
  BY <1>1, <1>2, <1>4 DEF Is, Leaving, leaving
<1>8. Head(queue).op \notin ScanOps /\ Head(queue).op # "reconcile"
  BY <1>1 DEF ScanOps
<1>9. /\ pending' \subseteq Args /\ ripe' \subseteq Args /\ streak' \in [People -> Int]
      /\ home' \in [People -> {"yes", "no", "unknown"}] /\ sweep' \in Sweepings
  BY <1>1, <1>2 DEF PresenceTypes, leaving
<1> QED BY <1>1, <1>2, <1>4, <1>5, <1>6, <1>7, <1>8, <1>9, PersonStep

LEMMA CountOnlineInv ==
  ASSUME PresenceInv, CountOnline
  PROVE  PresenceInv'
<1> DEFINE p == This.arg
<1>1. /\ PresenceTypes
      /\ queue # <<>> /\ Head(queue) = queue[1] /\ 1 \in DOMAIN queue
      /\ This \in Items /\ This = queue[1] /\ This.op = "countOnline"
  BY HeadServed DEF CountOnline
<1>2. /\ IF Signal(p) \/ p \in pending
           THEN UNCHANGED leaving
           ELSE /\ pending' = pending \cup {p}
                /\ streak' = [streak EXCEPT ![p] = 0]
                /\ ripe' = ripe
      /\ Then(<<>>) /\ UNCHANGED <<online, home, scan, sweep>>
  BY DEF CountOnline, StillOnline, Done
<1>3. \A q \in People : Signal(q) => home'[q] = home[q] /\ ~Is(queue[1], Arriving, q)
  BY <1>1, <1>2 DEF Is, Arriving
<1>4. \A q \in People : ~Signal(q) =>
        \/ q \in pending'
        \/ q \notin pending /\ home'[q] = home[q] /\ ~Is(queue[1], Leaving, q)
  BY <1>1, <1>2 DEF Is, Leaving, leaving
<1>5. Head(queue).op \notin ScanOps /\ Head(queue).op # "reconcile"
  BY <1>1 DEF ScanOps
<1>6. pending' \subseteq Args /\ ripe' \subseteq Args /\ streak' \in [People -> Int]
  <2>1. p \in Args
    BY <1>1 DEF Items
  <2> QED BY <1>1, <1>2, <2>1 DEF PresenceTypes, leaving
<1>7. home' \in [People -> {"yes", "no", "unknown"}] /\ sweep' \in Sweepings
  BY <1>1, <1>2 DEF PresenceTypes
<1> QED BY <1>1, <1>2, <1>3, <1>4, <1>5, <1>6, <1>7, NoItem, PersonStep

\* markArrived() and markLeft() set the cache and go on to the row.
LEMMA SettledStep ==
  ASSUME PresenceInv, NEW kind, NEW row, NEW known \in {"yes", "no"}, Serving(kind),
         \/ kind = "arriveUser" /\ row = "arriveRow" /\ known = "yes"
         \/ kind = "leftUser" /\ row = "leftRow" /\ known = "no",
         home' = [home EXCEPT ![This.arg] = known],
         Then(<<[This EXCEPT !.op = row]>>),
         UNCHANGED <<online, leaving, scan, sweep>>
  PROVE  PresenceInv'
<1> DEFINE x == [This EXCEPT !.op = row]
           ops == <<x>>
<1>1. /\ PresenceTypes
      /\ queue # <<>> /\ Head(queue) = queue[1] /\ 1 \in DOMAIN queue
      /\ This \in Items /\ This = queue[1] /\ This.op = kind
  BY HeadServed
<1>2. row \in Kinds
  BY DEF Kinds
<1>3. x \in Items /\ x.op = row
  BY <1>1, <1>2 DEF Items
<1> HIDE DEF x
<1>4. Then(ops)
  BY DEF x
<1>5. ops \in Seq(Items) /\ DOMAIN ops = {1} /\ ops[1] = x
  BY <1>3, OneItem
<1> HIDE DEF ops
<1>6. \A k \in DOMAIN ops : ops[k].op \in Quiet
  BY <1>3, <1>5 DEF Quiet
<1>7. \A q \in People : home'[q] = IF q = This.arg THEN known ELSE home[q]
  BY <1>1 DEF PresenceTypes
<1>8. \A q \in People : Signal(q) =>
        \/ home'[q] = "yes"
        \/ home'[q] = home[q] /\ ~Is(queue[1], Arriving, q)
        \/ Is(queue[1], {"leftUser"}, q)
  BY <1>1, <1>7 DEF Is, Arriving
<1>9. \A q \in People : ~Signal(q) =>
        \/ q \in pending'
        \/ /\ q \notin pending
           /\ \/ home'[q] = "no"
              \/ home'[q] = home[q] /\ ~Is(queue[1], Leaving, q)
              \/ Is(queue[1], {"arriveUser"}, q)
  BY <1>1, <1>7 DEF Is, Leaving, leaving
<1>10. Head(queue).op \notin ScanOps /\ Head(queue).op # "reconcile"
  BY <1>1 DEF ScanOps
<1>11. /\ pending' \subseteq Args /\ ripe' \subseteq Args /\ streak' \in [People -> Int]
       /\ home' \in [People -> {"yes", "no", "unknown"}] /\ sweep' \in Sweepings
  BY <1>1 DEF PresenceTypes, leaving
<1>12. \A k \in DOMAIN ops : ops[k].op \notin ScanOps /\ ops[k].op \notin {"ownerOnline", "reconcile"}
  BY <1>6, QuietIs
<1>13. \A k \in DOMAIN ops : \A q : ~Is(ops[k], {"leftUser"}, q) /\ ~Is(ops[k], {"arriveUser"}, q)
  BY <1>6, QuietIs
<1> QED BY <1>1, <1>4, <1>5, <1>8, <1>9, <1>10, <1>11, <1>12, <1>13, PersonStep

\* The re-check of a person who is back, kept waiting, or gone.
LEMMA RecheckInv ==
  ASSUME PresenceInv, Recheck
  PROVE  PresenceInv'
<1> DEFINE p == This.arg
<1>1. /\ PresenceTypes
      /\ queue # <<>> /\ Head(queue) = queue[1] /\ 1 \in DOMAIN queue
      /\ This \in Items /\ This = queue[1] /\ This.op = "recheck"
  BY HeadServed DEF Recheck
<1>2. p \in Args /\ sweep.todo \in SUBSET Args
  BY <1>1 DEF Items, PresenceTypes, Sweepings
<1>3. UNCHANGED <<online, scan>>
  BY DEF Recheck
<1>4. Head(queue).op \notin ScanOps /\ Head(queue).op # "reconcile" /\ queue[1].op \in Quiet
  BY <1>1 DEF ScanOps, Quiet
<1>5. \A q : ~Is(queue[1], Arriving, q) /\ ~Is(queue[1], Leaving, q)
  BY <1>4, QuietIs
<1>6. ASSUME NextPerson(sweep.todo),
             pending' \subseteq Args, ripe' \subseteq Args, streak' \in [People -> Int],
             home' \in [People -> {"yes", "no", "unknown"}],
             \A q \in People : Signal(q) => home'[q] \in {"yes", home[q]},
             \A q \in People : ~Signal(q) =>
               (q \in pending => q \in pending') /\ home'[q] = home[q]
      PROVE  PresenceInv'
  <2>1. sweep' \in Sweepings
    BY <1>1, <1>2, <1>6, NextPersonQuiet
  <2>2. PICK ops \in Seq(Items) : Then(ops) /\ \A k \in DOMAIN ops : ops[k].op = "recheck"
    BY <1>1, <1>2, <1>6, NextPersonQuiet
  <2>3. \A k \in DOMAIN ops : ops[k].op \in Quiet
    BY <2>2 DEF Quiet
  <2>4. \A k \in DOMAIN ops : ops[k].op \notin ScanOps /\ ops[k].op \notin {"ownerOnline", "reconcile"}
    BY <2>3, QuietIs
  <2>5. \A k \in DOMAIN ops : \A q : ~Is(ops[k], {"leftUser"}, q) /\ ~Is(ops[k], {"arriveUser"}, q)
    BY <2>3, QuietIs
  <2> QED BY <1>1, <1>3, <1>4, <1>5, <1>6, <2>1, <2>2, <2>4, <2>5, PersonStep
<1>7. CASE /\ Signal(p)
           /\ pending' = pending \ {p} /\ ripe' = ripe \ {p}
           /\ home' = [home EXCEPT ![p] = "yes"]
           /\ NextPerson(sweep.todo)
           /\ UNCHANGED streak
  BY <1>1, <1>2, <1>6, <1>7 DEF PresenceTypes
<1>8. CASE NextPerson(sweep.todo) /\ UNCHANGED <<leaving, home>>
  BY <1>1, <1>2, <1>6, <1>8 DEF PresenceTypes, leaving
<1>9. CASE /\ ~Signal(p)
           /\ pending' = pending \cup {p} /\ ripe' = ripe \cup {p}
           /\ streak' = [streak EXCEPT ![p] = sweep.streak[p] + 1]
           /\ NextPerson(sweep.todo)
           /\ UNCHANGED home
  <2>1. streak' \in [People -> Int]
    <3>1. CASE p \in People
      <4>1. sweep.streak[p] + 1 \in Int
        BY <1>1, <3>1 DEF PresenceTypes, Sweepings
      <4> QED BY <1>1, <1>9, <4>1 DEF PresenceTypes
    <3>2. CASE p \notin People
      BY <1>1, <1>9, <3>2 DEF PresenceTypes
    <3> QED BY <3>1, <3>2
  <2> QED BY <1>1, <1>2, <1>6, <1>9, <2>1 DEF PresenceTypes
<1>10. CASE /\ ~Signal(p)
            /\ pending' = pending \ {p} /\ ripe' = ripe \ {p}
            /\ Then(<<Op("leftUser", p)>>)
            /\ UNCHANGED <<streak, home, sweep>>
  <2> DEFINE x == Op("leftUser", p)
             ops == <<x>>
  <2>1. x \in Items /\ x.op = "leftUser" /\ x.arg = p
    BY <1>2, OpType DEF Kinds
  <2> HIDE DEF x
  <2>2. Then(ops)
    BY <1>10 DEF x
  <2>3. ops \in Seq(Items) /\ DOMAIN ops = {1} /\ ops[1] = x
    BY <2>1, OneItem
  <2> HIDE DEF ops
  <2>4. \A k \in DOMAIN ops : ops[k].op \notin ScanOps /\ ops[k].op \notin {"ownerOnline", "reconcile"}
    BY <2>1, <2>3 DEF ScanOps
  <2>5. \A q \in People : Signal(q) =>
          /\ \A k \in DOMAIN ops : ~Is(ops[k], {"leftUser"}, q)
          /\ home'[q] = home[q] /\ ~Is(queue[1], Arriving, q)
    BY <1>5, <1>10, <2>1, <2>3 DEF Is
  <2>6. \A q \in People : ~Signal(q) =>
          \/ q \in pending'
          \/ /\ \A k \in DOMAIN ops : ~Is(ops[k], {"arriveUser"}, q)
             /\ \/ /\ q \notin pending
                   /\ home'[q] = home[q] /\ ~Is(queue[1], Leaving, q)
                \/ \E k \in DOMAIN ops : Is(ops[k], Leaving, q)
    BY <1>5, <1>10, <2>1, <2>3 DEF Is, Leaving
  <2>7. /\ pending' \subseteq Args /\ ripe' \subseteq Args /\ streak' \in [People -> Int]
        /\ home' \in [People -> {"yes", "no", "unknown"}] /\ sweep' \in Sweepings
    BY <1>1, <1>10 DEF PresenceTypes
  <2> QED BY <1>1, <1>3, <1>4, <2>2, <2>3, <2>4, <2>5, <2>6, <2>7, PersonStep
<1> QED BY <1>7, <1>8, <1>9, <1>10 DEF Recheck, BackAgain, NoLongerPending

-----------------------------------------------------------------------------
\* Steps that tell nothing of anybody.

LEMMA OneQuietStep ==
  ASSUME PresenceInv, NEW kind \in Quiet, Serving(kind), NEW x \in Items, x.op \in Quiet,
         Then(<<x>>), UNCHANGED <<online, home, pending, scan>>,
         ripe' \subseteq Args, streak' \in [People -> Int], sweep' \in Sweepings
  PROVE  PresenceInv'
<1> DEFINE ops == <<x>>
<1>1. queue # <<>> /\ Head(queue).op \in Quiet
  BY DEF Serving
<1>2. Then(ops)
  OBVIOUS
<1>3. ops \in Seq(Items) /\ DOMAIN ops = {1} /\ ops[1] = x
  BY OneItem
<1> HIDE DEF ops
<1> QED BY <1>1, <1>2, <1>3, QuietStep

LEMMA LastQuietStep ==
  ASSUME PresenceInv, NEW kind \in Quiet, Serving(kind), Done,
         UNCHANGED <<online, home, pending, scan>>,
         ripe' \subseteq Args, streak' \in [People -> Int], sweep' \in Sweepings
  PROVE  PresenceInv'
<1>1. queue # <<>> /\ Head(queue).op \in Quiet
  BY DEF Serving
<1> QED BY <1>1, NoItem, QuietStep DEF Done

LEMMA SweepGoesOn ==
  ASSUME PresenceInv, NEW kind \in Quiet, Serving(kind), NextPerson(sweep.todo),
         UNCHANGED <<online, home, leaving, scan>>
  PROVE  PresenceInv'
<1>1. PresenceTypes /\ queue # <<>> /\ Head(queue).op \in Quiet
  BY DEF PresenceInv, Serving
<1>2. sweep.todo \in SUBSET Args
  BY <1>1 DEF PresenceTypes, Sweepings
<1>3. sweep' \in Sweepings
  BY <1>1, <1>2, NextPersonQuiet
<1>4. PICK ops \in Seq(Items) : Then(ops) /\ \A k \in DOMAIN ops : ops[k].op = "recheck"
  BY <1>1, <1>2, NextPersonQuiet
<1>5. \A k \in DOMAIN ops : ops[k].op \in Quiet
  BY <1>4 DEF Quiet
<1>6. ripe' \subseteq Args /\ streak' \in [People -> Int]
  BY <1>1 DEF PresenceTypes, leaving
<1> QED BY <1>1, <1>3, <1>4, <1>5, <1>6, QuietStep DEF leaving

LEMMA QuietKinds ==
  /\ Quiet \subseteq Kinds
  /\ {"arriveRow", "arriveMode", "leftRow", "countAnyone", "leftMode", "readMode",
      "writeMode", "setting1", "setting2", "setting3", "recheck"} \subseteq Quiet
  BY DEF Quiet, Kinds

LEMMA SetModeType ==
  ASSUME NEW m \in Modes, NEW caller \in Callers
  PROVE  SetMode(m, caller) \in Items /\ SetMode(m, caller).op = "readMode"
<1>1. "mode" \in Args /\ "readMode" \in Kinds
  BY DEF Args, Kinds
<1>2. Op("readMode", "mode") \in Items /\ Op("readMode", "mode").op = "readMode"
  BY <1>1, OpType
<1> QED BY <1>2 DEF SetMode, Items

LEMMA RowAndModeInv ==
  ASSUME PresenceInv, ArriveRow \/ ArriveMode \/ LeftRow \/ CountAnyone
  PROVE  PresenceInv'
<1>1. PresenceTypes
  BY DEF PresenceInv
<1>2. UNCHANGED <<online, home, pending, scan, ripe, streak, sweep>>
  BY DEF ArriveRow, ArriveMode, LeftRow, CountAnyone, leaving
<1>3. ripe' \subseteq Args /\ streak' \in [People -> Int] /\ sweep' \in Sweepings
  BY <1>1, <1>2 DEF PresenceTypes
<1>4. ASSUME NEW kind \in Quiet, NEW next \in Quiet, Serving(kind), Then(<<[This EXCEPT !.op = next]>>)
      PROVE  PresenceInv'
  <2>1. This \in Items
    BY <1>4, HeadServed
  <2>2. [This EXCEPT !.op = next] \in Items /\ [This EXCEPT !.op = next].op = next
    BY <2>1, QuietKinds DEF Items
  <2> QED BY <1>2, <1>3, <1>4, <2>2, OneQuietStep
<1>5. CASE ArriveRow
  BY <1>4, <1>5, QuietKinds DEF ArriveRow
<1>6. CASE ArriveMode
  <2>1. "arriveMode" \in Quiet /\ "readMode" \in Quiet /\ Serving("arriveMode")
    BY <1>6, QuietKinds DEF ArriveMode
  <2>2. CASE ArrivalChangesMode
    <3>1. Then(<<SetMode("home", "event")>>)
      BY <1>6, <2>2 DEF ArriveMode
    <3>2. SetMode("home", "event") \in Items /\ SetMode("home", "event").op = "readMode"
      BY SetModeType DEF Modes, Callers
    <3> QED BY <1>2, <1>3, <2>1, <3>1, <3>2, OneQuietStep
  <2>3. CASE ~ArrivalChangesMode
    <3>1. Done
      BY <1>6, <2>3 DEF ArriveMode, Done
    <3> QED BY <1>2, <1>3, <2>1, <3>1, LastQuietStep
  <2> QED BY <2>2, <2>3
<1>7. CASE LeftRow
  BY <1>4, <1>7, QuietKinds DEF LeftRow
<1>8. CASE CountAnyone
  <2> DEFINE empty == (online = {})
             x == [This EXCEPT !.op = "leftMode", !.carries = empty]
  <2>1. This \in Items /\ "countAnyone" \in Quiet /\ "leftMode" \in Quiet /\ "leftMode" \in Kinds
    BY <1>8, HeadServed, QuietKinds DEF CountAnyone
  <2>2. Then(<<x>>) /\ Serving("countAnyone")
    BY <1>8 DEF CountAnyone
  <2>3. empty \in BOOLEAN
    OBVIOUS
  <2> HIDE DEF empty
  <2>4. x \in Items /\ x.op = "leftMode"
    BY <2>1, <2>3 DEF Items
  <2> HIDE DEF x
  <2> QED BY <1>2, <1>3, <2>1, <2>2, <2>4, OneQuietStep
<1> QED BY <1>5, <1>6, <1>7, <1>8

LEMMA ModeInv ==
  ASSUME PresenceInv, LeftMode \/ ReadMode \/ WriteMode
  PROVE  PresenceInv'
<1>1. PresenceTypes
  BY DEF PresenceInv
<1>2. UNCHANGED <<online, home, leaving, scan>>
  BY DEF LeftMode, ReadMode, WriteMode
<1>3. ripe' \subseteq Args /\ streak' \in [People -> Int] /\ sweep \in Sweepings
  BY <1>1, <1>2 DEF PresenceTypes, leaving
<1>4. UNCHANGED <<online, home, pending, scan>>
  BY <1>2 DEF leaving
<1>5. ASSUME NEW kind \in Quiet, Serving(kind), EndOfSetMode
      PROVE  PresenceInv'
  <2>1. CASE This.call = "sweep"
    BY <1>2, <1>5, <2>1, SweepGoesOn DEF EndOfSetMode
  <2>2. CASE This.call # "sweep"
    BY <1>3, <1>4, <1>5, <2>2, LastQuietStep DEF EndOfSetMode
  <2> QED BY <2>1, <2>2
<1>6. CASE LeftMode
  <2>1. CASE HouseIsEmpty(This.carries)
    <3>1. Then(<<SetMode("away", "sweep")>>) /\ UNCHANGED sweep /\ Serving("leftMode")
      BY <1>6, <2>1 DEF LeftMode
    <3>2. SetMode("away", "sweep") \in Items /\ SetMode("away", "sweep").op = "readMode"
      BY SetModeType DEF Modes, Callers
    <3>3. "leftMode" \in Quiet /\ "readMode" \in Quiet
      BY QuietKinds
    <3> QED BY <1>3, <1>4, <3>1, <3>2, <3>3, OneQuietStep
  <2>2. CASE ~HouseIsEmpty(This.carries)
    BY <1>2, <1>6, <2>2, SweepGoesOn, QuietKinds DEF LeftMode
  <2> QED BY <2>1, <2>2
<1>7. CASE ReadMode
  <2>1. CASE mode = This.mode
    BY <1>5, <1>7, <2>1, QuietKinds DEF ReadMode
  <2>2. CASE mode # This.mode
    <3> DEFINE x == [This EXCEPT !.op = "writeMode"]
    <3>1. Then(<<x>>) /\ UNCHANGED sweep /\ Serving("readMode")
      BY <1>7, <2>2 DEF ReadMode
    <3>2. This \in Items /\ "readMode" \in Quiet /\ "writeMode" \in Quiet /\ "writeMode" \in Kinds
      BY <3>1, HeadServed, QuietKinds
    <3>3. x \in Items /\ x.op = "writeMode"
      BY <3>2 DEF Items
    <3> HIDE DEF x
    <3> QED BY <1>3, <1>4, <3>1, <3>2, <3>3, OneQuietStep
  <2> QED BY <2>1, <2>2
<1>8. CASE WriteMode
  BY <1>5, <1>8, QuietKinds DEF WriteMode
<1> QED BY <1>6, <1>7, <1>8

LEMMA SettingsInv ==
  ASSUME PresenceInv, Settings
  PROVE  PresenceInv'
<1>1. PresenceTypes
  BY DEF PresenceInv
<1>2. UNCHANGED <<online, home, pending, scan>> /\ ripe' = ripe /\ streak' = streak
  BY DEF Settings, leaving
<1>3. /\ ripe \subseteq Args /\ ripe' \subseteq Args /\ sweep \in Sweepings
      /\ streak \in [People -> Int] /\ streak' \in [People -> Int]
  BY <1>1, <1>2 DEF PresenceTypes
<1>4. {"setting1", "setting2", "setting3", "recheck"} \subseteq Quiet \cap Kinds /\ "settings" \in Args
  BY QuietKinds DEF Args
<1>5. ASSUME NEW kind \in Quiet, Serving(kind), NEW next \in Quiet \cap Kinds, NEW arg \in Args,
             Then(<<Op(next, arg)>>), sweep' \in Sweepings
      PROVE  PresenceInv'
  <2>1. Op(next, arg) \in Items /\ Op(next, arg).op \in Quiet
    BY OpType
  <2> QED BY <1>2, <1>3, <1>5, <2>1, OneQuietStep
<1>6. CASE Serving("setting1") /\ Then(<<Op("setting2", "settings")>>) /\ UNCHANGED sweep
  BY <1>3, <1>4, <1>5, <1>6
<1>7. CASE Serving("setting2") /\ Then(<<Op("setting3", "settings")>>) /\ UNCHANGED sweep
  BY <1>3, <1>4, <1>5, <1>7
<1>8. ASSUME Serving("setting3"), NEW night \in {FALSE, Nights},
             IF ripe = {} THEN sweep' = NoSweep /\ Done
             ELSE \E p \in ripe :
                    /\ sweep' = [sweep EXCEPT !.todo = ripe \ {p}, !.streak = streak, !.night = night]
                    /\ Then(<<Op("recheck", p)>>)
      PROVE  PresenceInv'
  <2>1. CASE ripe = {}
    <3>1. NoSweep \in Sweepings
      BY DEF NoSweep, Sweepings
    <3>2. sweep' \in Sweepings /\ Done
      BY <1>8, <2>1, <3>1
    <3> QED BY <1>2, <1>3, <1>4, <1>8, <3>2, LastQuietStep
  <2>2. CASE ripe # {}
    <3>1. PICK p \in ripe :
            /\ sweep' = [sweep EXCEPT !.todo = ripe \ {p}, !.streak = streak, !.night = night]
            /\ Then(<<Op("recheck", p)>>)
      BY <1>8, <2>2
    <3>2. night \in BOOLEAN /\ ripe \ {p} \in SUBSET Args
      BY <1>3, SwitchesAssumption
    <3>3. sweep' \in Sweepings
      BY <1>3, <3>1, <3>2 DEF Sweepings
    <3> QED BY <1>3, <1>4, <1>5, <1>8, <3>1, <3>3
  <2> QED BY <2>1, <2>2
<1> QED BY <1>6, <1>7, <1>8 DEF Settings

-----------------------------------------------------------------------------
\* The restart.

\* Right after it the cache says what the devices say.
LEMMA ReconcileInv ==
  ASSUME PresenceInv, Reconcile
  PROVE  PresenceInv'
<1> DEFINE seen == {p \in People : Signal(p)}
           r == Tail(queue) \o <<>>
<1>1. /\ PresenceTypes /\ RestartInv
      /\ queue # <<>> /\ queue \in Seq(Items) /\ queue[1].op = "reconcile"
      /\ 1 \in DOMAIN queue /\ DOMAIN queue \subseteq Nat
  BY HeadServed, ServedElements DEF Reconcile
<1>2. home' = [p \in People |-> Cached(p, seen)] /\ UNCHANGED <<online, leaving, scan, sweep>>
  BY DEF Reconcile
<1>3. Then(<<>>)
  BY DEF Reconcile, Done
<1>4. \A j \in DOMAIN queue : j > 1 => queue[j].op = "readMode"
  BY <1>1 DEF RestartInv
<1>5. r \in Seq(Items) /\ \A j \in DOMAIN r : j + 1 \in DOMAIN queue /\ r[j] = queue[j + 1]
  BY <1>1, NoItem, ServedElements
<1>6. \A j \in DOMAIN r : r[j].op = "readMode"
  <2>1. \A j \in DOMAIN r : j \in Nat /\ j > 0
    BY <1>5
  <2> QED BY <1>4, <1>5, <2>1
<1>7. queue' = r
  BY <1>3 DEF Then
<1> HIDE DEF r
<1>8. \A j \in DOMAIN r : r[j].op \notin ScanOps \cup {"ownerOnline", "reconcile"}
  BY <1>6 DEF ScanOps
<1>9. RestartInv' /\ ScanInv' /\ EventInv'
  BY <1>7, <1>8 DEF RestartInv, ScanInv, EventInv
<1>10. \A p \in People : home'[p] = IF Signal(p) THEN "yes" ELSE "no"
  BY <1>2 DEF Cached
<1>11. PeopleInv'
  <2>1. \A j \in DOMAIN r : \A p : ~Is(r[j], {"leftUser"}, p) /\ ~Is(r[j], {"arriveUser"}, p)
    BY <1>6 DEF Is
  <2>2. \A p \in People : (DevicesOf(p) \cap online' # {}) <=> Signal(p)
    BY <1>2 DEF Signal
  <2>3. \A p \in People : DevicesOf(p) \cap online' # {} =>
          Word(r, home'[p], p, "yes", Arriving, {"leftUser"})
    BY <1>10, <2>1, <2>2 DEF Word
  <2>4. \A p \in People : DevicesOf(p) \cap online' = {} =>
          Word(r, home'[p], p, "no", Leaving, {"arriveUser"})
    BY <1>10, <2>1, <2>2 DEF Word
  <2> QED BY <1>7, <2>3, <2>4 DEF PeopleInv, WillCome, WillGo, Signal, DevicesOf
<1>12. PresenceTypes'
  <2>1. home' \in [People -> {"yes", "no", "unknown"}]
    BY <1>2 DEF Cached
  <2> QED BY <1>1, <1>2, <1>5, <1>7, <2>1 DEF PresenceTypes, leaving
<1> QED BY <1>9, <1>11, <1>12 DEF PresenceInv

\* At the start and after a crash nothing is known.
LEMMA ReconcileWaits ==
  /\ <<Op("reconcile", "all")>> \in Seq(Items)
  /\ DOMAIN <<Op("reconcile", "all")>> = {1}
  /\ <<Op("reconcile", "all")>>[1].op = "reconcile"
<1>1. Op("reconcile", "all") \in Items /\ Op("reconcile", "all").op = "reconcile"
  BY OpType DEF Kinds, Args
<1> QED BY <1>1, OneItem

LEMMA NothingTypes ==
  /\ NoSweep \in Sweepings /\ [s \in Scanners |-> NoScan] \in [Scanners -> Scannings]
  /\ [p \in People |-> 0] \in [People -> Int]
  /\ [p \in People |-> "unknown"] \in [People -> {"yes", "no", "unknown"}]
<1>1. NoSweep \in Sweepings
  BY DEF NoSweep, Sweepings
<1>2. NoScan \in Scannings
  BY DEF NoScan, Scannings
<1> QED BY <1>1, <1>2

LEMMA InitInvariant == Init => PresenceInv
<1> SUFFICES ASSUME Init PROVE PresenceInv
  OBVIOUS
<1> DEFINE start == <<Op("reconcile", "all")>>
<1>1. start \in Seq(Items) /\ DOMAIN start = {1} /\ start[1].op = "reconcile"
  BY ReconcileWaits
<1>2. /\ queue = start /\ pending = {} /\ ripe = {} /\ online \subseteq Devices
      /\ streak = [p \in People |-> 0] /\ home = [p \in People |-> "unknown"]
      /\ scan = [s \in Scanners |-> NoScan] /\ sweep = NoSweep
  BY DEF Init
<1> HIDE DEF start
<1>3. PresenceTypes
  BY <1>1, <1>2, NothingTypes DEF PresenceTypes
<1>4. Restarting /\ RestartInv /\ ScanInv /\ EventInv
  BY <1>1, <1>2 DEF Restarting, RestartInv, ScanInv, ScanOps, EventInv
<1> QED BY <1>3, <1>4 DEF PresenceInv, PeopleInv

LEMMA CrashInv ==
  ASSUME PresenceInv, Crash
  PROVE  PresenceInv'
<1> DEFINE start == <<Op("reconcile", "all")>>
<1>1. start \in Seq(Items) /\ DOMAIN start = {1} /\ start[1].op = "reconcile"
  BY ReconcileWaits
<1>2. /\ queue' = start /\ pending' = {} /\ ripe' = {} /\ online' = online
      /\ streak' = [p \in People |-> 0] /\ home' = [p \in People |-> "unknown"]
      /\ scan' = [s \in Scanners |-> NoScan] /\ sweep' = NoSweep
  BY DEF Crash
<1> HIDE DEF start
<1>3. PresenceTypes'
  BY <1>1, <1>2, NothingTypes DEF PresenceTypes, PresenceInv
<1>4. Restarting' /\ RestartInv' /\ ScanInv' /\ EventInv'
  BY <1>1, <1>2 DEF Restarting, RestartInv, ScanInv, ScanOps, EventInv
<1> QED BY <1>3, <1>4 DEF PresenceInv, PeopleInv

-----------------------------------------------------------------------------
\* What asks for a first operation.

\* Something is asked for at the end of the queue; before reconcile() has been
\* through, only the mode.
LEMMA AddedStep ==
  ASSUME PresenceInv, NEW x \in Items, queue' = queue \o <<x>>,
         Restarting => x.op = "readMode",
         x.op \in Quiet \cup {"findDevice", "findStale"},
         UNCHANGED <<online, leaving, home>>,
         scan' \in [Scanners -> Scannings], sweep' \in Sweepings, ScanInv'
  PROVE  PresenceInv'
<1> DEFINE ops == <<x>>
           r == queue \o ops
<1>1. PresenceTypes /\ RestartInv /\ ScanInv /\ EventInv /\ PeopleInv /\ queue \in Seq(Items)
  BY DEF PresenceInv, PresenceTypes
<1>2. ops \in Seq(Items) /\ DOMAIN ops = {1} /\ ops[1] = x
  BY OneItem
<1> HIDE DEF ops
<1>3. /\ r \in Seq(Items) /\ Len(queue) \in Nat
      /\ \A i \in DOMAIN queue : i \in DOMAIN r /\ r[i] = queue[i]
      /\ \A j \in DOMAIN r : \/ j \in DOMAIN queue /\ r[j] = queue[j]
                             \/ j = Len(queue) + 1 /\ r[j] = x
      /\ DOMAIN queue = 1 .. Len(queue)
  BY <1>1, AddedOne DEF ops
<1>4. queue' = r
  BY DEF ops
<1> HIDE DEF r
<1>5. x.op # "reconcile" /\ x.op # "ownerOnline" /\ x.op \notin {"leftUser", "arriveUser"}
  BY DEF Quiet
<1>6. RestartInv'
  <2>1. ASSUME NEW i \in DOMAIN r, r[i].op = "reconcile"
        PROVE  i = 1 /\ pending = {} /\ \A j \in DOMAIN r : j > 1 => r[j].op = "readMode"
    <3>1. i \in DOMAIN queue /\ queue[i].op = "reconcile"
      BY <1>3, <1>5, <2>1
    <3>2. Restarting
      BY <3>1 DEF Restarting
    <3> QED BY <1>1, <1>3, <3>1, <3>2 DEF RestartInv
  <2>2. pending' = pending
    BY DEF leaving
  <2> QED BY <1>4, <2>1, <2>2 DEF RestartInv
<1>7. EventInv'
  <2>1. ASSUME NEW i \in DOMAIN r, r[i].op = "ownerOnline"
        PROVE  /\ DevicesOf(r[i].arg) \cap online' # {}
               /\ \A j \in DOMAIN r : r[j].op \in ScanOps => i < j
    <3>1. i \in DOMAIN queue /\ r[i] = queue[i]
      BY <1>3, <1>5, <2>1
    <3>2. Signal(queue[i].arg) /\ \A j \in DOMAIN queue : queue[j].op \in ScanOps => i < j
      BY <1>1, <2>1, <3>1 DEF EventInv
    <3>3. i < Len(queue) + 1
      BY <1>3, <3>1
    <3>4. \A j \in DOMAIN r : r[j].op \in ScanOps => i < j
      BY <1>3, <3>2, <3>3
    <3> QED BY <3>1, <3>2, <3>4 DEF Signal
  <2> QED BY <1>4, <2>1 DEF EventInv, Signal, DevicesOf
<1>8. PeopleInv'
  <2>1. CASE Restarting
    <3>1. Restarting'
      BY <1>3, <1>4, <2>1 DEF Restarting
    <3> QED BY <3>1 DEF PeopleInv
  <2>2. CASE ~Restarting
    <3>1. \A k \in DOMAIN ops : \A p : ~Is(ops[k], {"leftUser"}, p) /\ ~Is(ops[k], {"arriveUser"}, p)
      BY <1>2, <1>5 DEF Is
    <3>2. \A p \in People : Signal(p) => Word(r, home[p], p, "yes", Arriving, {"leftUser"})
      BY <1>1, <1>2, <2>2, <3>1, WordAdded DEF PeopleInv, WillCome, r
    <3>3. \A p \in People : ~Signal(p) => p \in pending \/ Word(r, home[p], p, "no", Leaving, {"arriveUser"})
      BY <1>1, <1>2, <2>2, <3>1, WordAdded DEF PeopleInv, WillGo, r
    <3>4. online' = online /\ home' = home /\ pending' = pending
      BY DEF leaving
    <3>5. \A p \in People : (DevicesOf(p) \cap online' # {}) <=> Signal(p)
      BY <3>4 DEF Signal
    <3>6. \A p \in People :
            /\ DevicesOf(p) \cap online' # {} => Word(r, home'[p], p, "yes", Arriving, {"leftUser"})
            /\ DevicesOf(p) \cap online' = {} =>
                 p \in pending' \/ Word(r, home'[p], p, "no", Leaving, {"arriveUser"})
      BY <3>2, <3>3, <3>4, <3>5
    <3> QED BY <1>4, <3>6 DEF PeopleInv, WillCome, WillGo, Signal, DevicesOf
  <2> QED BY <2>1, <2>2
<1>9. PresenceTypes'
  BY <1>1, <1>3, <1>4 DEF PresenceTypes, leaving
<1> QED BY <1>6, <1>7, <1>8, <1>9 DEF PresenceInv

LEMMA ScanReportsInv ==
  ASSUME OneScan, PresenceInv, NEW s \in Scanners, NEW seen \in SUBSET Devices, ScanReports(s, seen)
  PROVE  PresenceInv'
<1>1. PresenceTypes /\ ScanInv /\ queue \in Seq(Items)
  BY DEF PresenceInv, PresenceTypes
<1>2. /\ ~scan[s].on /\ ~Restarting
      /\ scan' = [scan EXCEPT ![s] = [on |-> TRUE, seen |-> seen, todo |-> seen]]
      /\ IF sweep.on THEN sweep.met < ScansPerSweep /\ sweep' = [sweep EXCEPT !.met = @ + 1]
                     ELSE UNCHANGED sweep
      /\ UNCHANGED <<online, leaving, home>>
  BY DEF ScanReports
<1>3. PICK next \in NextDevice(s, seen) : queue' = queue \o next
  BY DEF ScanReports
<1>4. PICK x \in Items : /\ next = <<x>> /\ x.call = s
                         /\ x.op \in {"findDevice", "findStale"}
                         /\ x.op = "findDevice" => x.arg \in Devices
  BY NextDeviceType
<1>5. scan' \in [Scanners -> Scannings] /\ scan'[s].on
  <2>1. [on |-> TRUE, seen |-> seen, todo |-> seen] \in Scannings
    BY DEF Scannings
  <2> QED BY <1>1, <1>2, <2>1 DEF PresenceTypes
<1>6. sweep' \in Sweepings
  <2>1. sweep \in Sweepings /\ sweep.met + 1 \in Int
    BY <1>1 DEF PresenceTypes, Sweepings
  <2>2. CASE sweep.on
    <3>1. sweep' = [sweep EXCEPT !.met = sweep.met + 1]
      BY <1>2, <2>2
    <3> QED BY <2>1, <3>1 DEF Sweepings
  <2>3. CASE ~sweep.on
    BY <1>2, <2>1, <2>3
  <2> QED BY <2>2, <2>3
<1>7. \A i \in DOMAIN queue : queue[i].op \notin ScanOps
  <2>1. ASSUME NEW i \in DOMAIN queue, queue[i].op \in ScanOps
        PROVE  FALSE
    <3>1. queue[i].call \in Scanners /\ scan[queue[i].call].on
      BY <1>1, <2>1 DEF ScanInv, Scans
    <3>2. queue[i].call = s
      BY <3>1 DEF OneScan
    <3> QED BY <1>2, <3>1, <3>2
  <2> QED BY <2>1
<1>8. ScanInv'
  <2> DEFINE r == queue \o <<x>>
  <2>1. \A j \in DOMAIN r : \/ j \in DOMAIN queue /\ r[j] = queue[j]
                            \/ j = Len(queue) + 1 /\ r[j] = x
    BY <1>1, AddedOne
  <2>2. \A j \in DOMAIN r : r[j].op \in ScanOps => j = Len(queue) + 1 /\ r[j] = x
    BY <1>7, <2>1
  <2>3. queue' = r
    BY <1>3, <1>4
  <2> HIDE DEF r
  <2>4. ASSUME NEW i \in DOMAIN r, NEW j \in DOMAIN r, r[i].op \in ScanOps, r[j].op \in ScanOps
        PROVE  i = j
    BY <2>2, <2>4
  <2>5. \A j \in DOMAIN r : r[j].op \in ScanOps =>
          (/\ r[j].call \in Scanners /\ scan'[r[j].call].on
           /\ r[j].op \in {"findDevice", "upsert"} => r[j].arg \in Devices
           /\ r[j].op = "upsert" => (r[j].carries <=> r[j].arg \in online')
           /\ r[j].op = "markStale" => scan'[r[j].call].todo = online' \ scan'[r[j].call].seen)
    BY <1>4, <1>5, <2>2
  <2> QED BY <2>3, <2>4, <2>5 DEF ScanInv, Scans
<1>9. queue' = queue \o <<x>>
  BY <1>3, <1>4
<1> QED BY <1>2, <1>4, <1>5, <1>6, <1>8, <1>9, AddedStep

\* What leaves the scan alone leaves its operation as it was.
LEMMA ScanKeptWhenAdded ==
  ASSUME PresenceTypes, ScanInv, NEW x \in Items, x.op \in Quiet, queue' = queue \o <<x>>,
         UNCHANGED <<online, scan>>
  PROVE  ScanInv'
<1> DEFINE r == queue \o <<x>>
<1>1. queue \in Seq(Items)
  BY DEF PresenceTypes
<1>2. queue' = r
  OBVIOUS
<1>3. x.op \notin ScanOps
  BY QuietIs
<1>4. \A j \in DOMAIN r : \/ j \in DOMAIN queue /\ r[j] = queue[j]
                          \/ j = Len(queue) + 1 /\ r[j] = x
  BY <1>1, AddedOne
<1>5. \A j \in DOMAIN r : r[j].op \in ScanOps => j \in DOMAIN queue /\ r[j] = queue[j]
  BY <1>3, <1>4
<1> HIDE DEF r
<1>6. \A j \in DOMAIN r : r[j].op \in ScanOps => Scans(r[j])
  BY <1>5 DEF ScanInv
<1>7. \A j \in DOMAIN r : r[j].op \in ScanOps =>
          (/\ r[j].call \in Scanners /\ scan'[r[j].call].on
           /\ r[j].op \in {"findDevice", "upsert"} => r[j].arg \in Devices
           /\ r[j].op = "upsert" => (r[j].carries <=> r[j].arg \in online')
           /\ r[j].op = "markStale" => scan'[r[j].call].todo = online' \ scan'[r[j].call].seen)
  BY <1>6 DEF Scans
<1>8. \A i, j \in DOMAIN r : r[i].op \in ScanOps /\ r[j].op \in ScanOps => i = j
  BY <1>5 DEF ScanInv
<1> QED BY <1>2, <1>7, <1>8 DEF ScanInv, Scans

LEMMA PublishIsConcat ==
  ASSUME NEW x \in Items, PresenceTypes
  PROVE  Append(queue, x) = queue \o <<x>>
  BY DEF PresenceTypes

LEMMA UserSetsModeInv ==
  ASSUME PresenceInv, NEW m \in ManualModes, UserSetsMode(m)
  PROVE  PresenceInv'
<1>1. PresenceTypes /\ ScanInv
  BY DEF PresenceInv
<1>2. SetMode(m, "user") \in Items /\ SetMode(m, "user").op = "readMode"
  BY ModesAssumption, SetModeType DEF Modes, Callers
<1>3. queue' = queue \o <<SetMode(m, "user")>> /\ UNCHANGED <<online, leaving, home, scan, sweep>>
  BY <1>1, <1>2, PublishIsConcat DEF UserSetsMode
<1>4. "readMode" \in Quiet
  BY DEF Quiet
<1>5. ScanInv'
  BY <1>1, <1>2, <1>3, <1>4, ScanKeptWhenAdded
<1> QED BY <1>1, <1>2, <1>3, <1>4, <1>5, AddedStep DEF PresenceTypes

LEMMA SweepInv ==
  ASSUME PresenceInv, Sweep
  PROVE  PresenceInv'
<1>1. PresenceTypes /\ RestartInv /\ ScanInv
  BY DEF PresenceInv
<1>2. Op("setting1", "settings") \in Items /\ Op("setting1", "settings").op = "setting1"
  BY OpType DEF Kinds, Args
<1>3. /\ queue' = queue \o <<Op("setting1", "settings")>>
      /\ pending # {} /\ sweep' = [NoSweep EXCEPT !.on = TRUE]
      /\ UNCHANGED <<online, leaving, home, scan>>
  BY <1>1, <1>2, PublishIsConcat DEF Sweep
<1>4. "setting1" \in Quiet
  BY DEF Quiet
<1>5. ScanInv'
  BY <1>1, <1>2, <1>3, <1>4, ScanKeptWhenAdded
<1>6. sweep' \in Sweepings
  BY <1>3, NothingTypes DEF Sweepings
<1>7. ~Restarting
  BY <1>1, <1>3 DEF Restarting, RestartInv
<1> QED BY <1>1, <1>2, <1>3, <1>4, <1>5, <1>6, <1>7, AddedStep DEF PresenceTypes

-----------------------------------------------------------------------------
\* The theorem.

\* Nothing of the invariant reads the rows of the timeline or the mode.
LEMMA NothingHappens ==
  ASSUME PresenceInv, UNCHANGED <<online, pending, home, scan, sweep, streak, queue>>,
         ripe' \subseteq Args
  PROVE  PresenceInv'
  BY DEF PresenceInv, PresenceTypes, RestartInv, ScanInv, Scans, EventInv, PeopleInv,
         WillCome, WillGo, Word, Is, Signal, DevicesOf, Restarting

LEMMA NextInvariant == OneScan /\ PresenceInv /\ [Next]_vars => PresenceInv'
<1> SUFFICES ASSUME OneScan, PresenceInv, [Next]_vars PROVE PresenceInv'
  OBVIOUS
<1>1. CASE Serve
  <2>1. CASE FindDevice \/ Upsert \/ FindStale \/ MarkStale
    BY <2>1, FindDeviceInv, UpsertInv, FindStaleInv, MarkStaleInv
  <2>2. CASE OwnerOnline \/ OwnerOffline \/ CountOnline
    BY <2>2, OwnerOnlineInv, OwnerOfflineInv, CountOnlineInv
  <2>3. CASE ArriveUser
    BY <2>3, SettledStep DEF ArriveUser
  <2>4. CASE LeftUser
    BY <2>4, SettledStep DEF LeftUser
  <2>5. CASE ArriveRow \/ ArriveMode \/ LeftRow \/ CountAnyone
    BY <2>5, RowAndModeInv
  <2>6. CASE LeftMode \/ ReadMode \/ WriteMode
    BY <2>6, ModeInv
  <2>7. CASE Settings \/ Recheck \/ Reconcile
    BY <2>7, SettingsInv, RecheckInv, ReconcileInv
  <2> QED BY <1>1, <2>1, <2>2, <2>3, <2>4, <2>5, <2>6, <2>7 DEF Serve
<1>2. CASE Sweep \/ Crash
  BY <1>2, SweepInv, CrashInv
<1>3. CASE \E s \in Scanners, seen \in SUBSET Devices : ScanReports(s, seen)
  BY <1>3, ScanReportsInv
<1>4. ASSUME NEW p \in People, GraceEnds(p)
      PROVE  PresenceInv'
  <2>1. /\ p \in pending /\ ripe' = ripe \cup {p}
        /\ UNCHANGED <<online, pending, home, scan, sweep, streak, queue>>
    BY <1>4 DEF GraceEnds
  <2>2. ripe' \subseteq Args
    BY <2>1 DEF PresenceInv, PresenceTypes
  <2> QED BY <2>1, <2>2, NothingHappens
<1>5. CASE \E m \in ManualModes : UserSetsMode(m)
  BY <1>5, UserSetsModeInv
<1>6. CASE UNCHANGED vars
  <2>1. UNCHANGED <<online, pending, home, scan, sweep, streak, queue>> /\ ripe' = ripe
    BY <1>6 DEF vars
  <2>2. ripe' \subseteq Args
    BY <2>1 DEF PresenceInv, PresenceTypes
  <2> QED BY <2>1, <2>2, NothingHappens
<1> QED BY <1>1, <1>2, <1>3, <1>4, <1>5, <1>6 DEF Next

LEMMA NobodyForgotten ==
  ASSUME PresenceInv
  PROVE  PresenceFollowsSignal
<1> SUFFICES ASSUME queue = <<>>, NEW p \in People
             PROVE  /\ Signal(p) => home[p] = "yes"
                    /\ home[p] = "yes" /\ ~Signal(p) => p \in pending
  BY DEF PresenceFollowsSignal
<1>1. DOMAIN queue = {}
  BY NoItem
<1>2. ~Restarting
  BY <1>1 DEF Restarting
<1>3. /\ Signal(p) => Word(queue, home[p], p, "yes", Arriving, {"leftUser"})
      /\ ~Signal(p) => p \in pending \/ Word(queue, home[p], p, "no", Leaving, {"arriveUser"})
  BY <1>2 DEF PresenceInv, PeopleInv, WillCome, WillGo
<1> QED BY <1>1, <1>3 DEF Word

\* One scan at a time, whatever the people do, however often the process dies
\* and however sweeps, settings and modes fall between the operations: with
\* nothing in flight, who has a device online is at home, and who is at home
\* without one has a departure pending (onEvent, markArrived, markLeft and tick
\* of presence.service.ts).
THEOREM NobodyIsForgotten == OneScan => (Spec => []PresenceFollowsSignal)
<1> SUFFICES ASSUME OneScan PROVE Spec => []PresenceFollowsSignal
  OBVIOUS
<1>1. PresenceInv => PresenceFollowsSignal
  BY NobodyForgotten
<1>2. PresenceInv /\ [Next]_vars => PresenceInv'
  BY NextInvariant
<1> QED BY <1>1, <1>2, InitInvariant, PTL DEF Spec

-----------------------------------------------------------------------------
\* Rows of the timeline.

\* Up to position n of the queue, the last row stored for a person is not one
\* of the breakers: `known' says so of the row in the table.
LastSaid(q, known, p, makers, breakers, n) ==
  \/ known /\ \A j \in DOMAIN q : j < n => ~Is(q[j], breakers, p)
  \/ \E k \in DOMAIN q : /\ k < n /\ Is(q[k], makers, p)
                         /\ \A j \in DOMAIN q : k < j /\ j < n => ~Is(q[j], breakers, p)

\* No breaker follows a breaker; and, if one may come next, none is the last.
Rows(q, known, p, makers, breakers, open) ==
  /\ \A i \in DOMAIN q : Is(q[i], breakers, p) => LastSaid(q, known, p, makers, breakers, i)
  /\ open => LastSaid(q, known, p, makers, breakers, Len(q) + 1)

LEMMA LastServed ==
  ASSUME NEW q \in Seq(Items), q # <<>>, NEW ops \in Seq(Items), NEW r, r = Tail(q) \o ops,
         NEW known, NEW next, NEW p, NEW makers, NEW breakers,
         NEW n \in 2 .. Len(q) + 1, LastSaid(q, known, p, makers, breakers, n),
         known /\ ~Is(q[1], breakers, p) => next,
         Is(q[1], makers, p) => next
  PROVE  LastSaid(r, next, p, makers, breakers, n - 1)
<1>1. /\ Len(q) \in Nat \ {0} /\ DOMAIN q = 1 .. Len(q) /\ DOMAIN r = 1 .. Len(r)
      /\ Len(r) = Len(q) - 1 + Len(ops) /\ Len(ops) \in Nat
      /\ \A i \in 1 .. Len(q) - 1 : r[i] = q[i + 1]
  BY ServedElements
<1>2. ASSUME NEW j \in DOMAIN r, j < n - 1
      PROVE  j + 1 \in DOMAIN q /\ j + 1 < n /\ r[j] = q[j + 1]
  BY <1>1, <1>2
<1>3. CASE known /\ \A j \in DOMAIN q : j < n => ~Is(q[j], breakers, p)
  <2>1. next
    BY <1>1, <1>3
  <2>2. \A j \in DOMAIN r : j < n - 1 => ~Is(r[j], breakers, p)
    BY <1>2, <1>3
  <2> QED BY <2>1, <2>2 DEF LastSaid
<1>4. ASSUME NEW k \in DOMAIN q, k < n, Is(q[k], makers, p),
             \A j \in DOMAIN q : k < j /\ j < n => ~Is(q[j], breakers, p)
      PROVE  LastSaid(r, next, p, makers, breakers, n - 1)
  <2>1. CASE k = 1
    <3>1. next
      BY <1>4, <2>1
    <3>2. \A j \in DOMAIN r : j < n - 1 => ~Is(r[j], breakers, p)
      <4>1. ASSUME NEW j \in DOMAIN r, j < n - 1
            PROVE  1 < j + 1
        BY <1>1
      <4> QED BY <1>2, <1>4, <2>1, <4>1
    <3> QED BY <3>1, <3>2 DEF LastSaid
  <2>2. CASE k # 1
    <3>1. k - 1 \in DOMAIN r /\ r[k - 1] = q[k] /\ k - 1 < n - 1
      BY <1>1, <1>4, <2>2
    <3>2. ASSUME NEW j \in DOMAIN r, k - 1 < j, j < n - 1
          PROVE  ~Is(r[j], breakers, p)
      <4>1. k < j + 1
        BY <1>1, <3>2
      <4> QED BY <1>2, <1>4, <3>2, <4>1
    <3> QED BY <1>4, <3>1, <3>2 DEF LastSaid
  <2> QED BY <2>1, <2>2
<1> QED BY <1>3, <1>4 DEF LastSaid

LEMMA LastAdded ==
  ASSUME NEW q \in Seq(Items), NEW ops \in Seq(Items), NEW r, r = q \o ops,
         NEW known, NEW p, NEW makers, NEW breakers,
         NEW n \in 1 .. Len(q) + 1, LastSaid(q, known, p, makers, breakers, n)
  PROVE  LastSaid(r, known, p, makers, breakers, n)
<1>1. /\ Len(q) \in Nat /\ DOMAIN q = 1 .. Len(q) /\ DOMAIN r = 1 .. Len(r)
      /\ \A i \in DOMAIN q : i \in DOMAIN r /\ r[i] = q[i]
  BY AddedElements
<1>2. \A j \in DOMAIN r : j < n => j \in DOMAIN q /\ r[j] = q[j]
  BY <1>1
<1>3. CASE known /\ \A j \in DOMAIN q : j < n => ~Is(q[j], breakers, p)
  BY <1>2, <1>3 DEF LastSaid
<1>4. ASSUME NEW k \in DOMAIN q, k < n, Is(q[k], makers, p),
             \A j \in DOMAIN q : k < j /\ j < n => ~Is(q[j], breakers, p)
      PROVE  LastSaid(r, known, p, makers, breakers, n)
  <2>1. k \in DOMAIN r /\ r[k] = q[k]
    BY <1>1
  <2>2. \A j \in DOMAIN r : k < j /\ j < n => ~Is(r[j], breakers, p)
    BY <1>2, <1>4
  <2> QED BY <1>4, <2>1, <2>2 DEF LastSaid
<1> QED BY <1>3, <1>4 DEF LastSaid

\* What is added, without a breaker, keeps what the last row is; a maker sets it.
LEMMA LastToTheEnd ==
  ASSUME NEW r \in Seq(Items), NEW known, NEW p, NEW makers, NEW breakers, NEW n \in Nat \ {0},
         \A j \in DOMAIN r : j >= n => ~Is(r[j], breakers, p),
         \/ LastSaid(r, known, p, makers, breakers, n)
         \/ \E k \in DOMAIN r : k >= n /\ Is(r[k], makers, p)
  PROVE  LastSaid(r, known, p, makers, breakers, Len(r) + 1)
<1>1. Len(r) \in Nat /\ DOMAIN r = 1 .. Len(r)
  OBVIOUS
<1>2. CASE \E k \in DOMAIN r : k >= n /\ Is(r[k], makers, p)
  <2>1. PICK k \in DOMAIN r : k >= n /\ Is(r[k], makers, p)
    BY <1>2
  <2>2. k < Len(r) + 1 /\ \A j \in DOMAIN r : k < j => ~Is(r[j], breakers, p)
    BY <1>1, <2>1
  <2> QED BY <2>1, <2>2 DEF LastSaid
<1>3. CASE known /\ \A j \in DOMAIN r : j < n => ~Is(r[j], breakers, p)
  <2>1. \A j \in DOMAIN r : ~Is(r[j], breakers, p)
    BY <1>1, <1>3
  <2> QED BY <1>3, <2>1 DEF LastSaid
<1>4. ASSUME NEW k \in DOMAIN r, k < n, Is(r[k], makers, p),
             \A j \in DOMAIN r : k < j /\ j < n => ~Is(r[j], breakers, p)
      PROVE  LastSaid(r, known, p, makers, breakers, Len(r) + 1)
  <2>1. k < Len(r) + 1
    BY <1>1
  <2>2. \A j \in DOMAIN r : k < j => ~Is(r[j], breakers, p)
    BY <1>1, <1>4
  <2> QED BY <1>4, <2>1, <2>2 DEF LastSaid
<1> QED BY <1>2, <1>3, <1>4 DEF LastSaid

LEMMA RowsServed ==
  ASSUME NEW q \in Seq(Items), q # <<>>, NEW ops \in Seq(Items), NEW r, r = Tail(q) \o ops,
         NEW known, NEW next, NEW p, NEW makers, NEW breakers, NEW open, NEW opens,
         Rows(q, known, p, makers, breakers, open),
         known /\ ~Is(q[1], breakers, p) => next,
         Is(q[1], makers, p) => next,
         \A k \in DOMAIN ops : ~Is(ops[k], breakers, p),
         opens => open \/ \E k \in DOMAIN ops : Is(ops[k], makers, p)
  PROVE  Rows(r, next, p, makers, breakers, opens)
<1>1. /\ r \in Seq(Items) /\ Len(q) \in Nat \ {0} /\ DOMAIN q = 1 .. Len(q) /\ DOMAIN r = 1 .. Len(r)
      /\ Len(r) = Len(q) - 1 + Len(ops) /\ Len(ops) \in Nat /\ DOMAIN ops = 1 .. Len(ops)
      /\ \A i \in 1 .. Len(q) - 1 : r[i] = q[i + 1]
      /\ \A i \in 1 .. Len(ops) : r[Len(q) - 1 + i] = ops[i]
  BY ServedElements
<1>2. \A j \in DOMAIN r : j >= Len(q) => j - Len(q) + 1 \in DOMAIN ops /\ r[j] = ops[j - Len(q) + 1]
  BY <1>1, ServedElements
<1>3. \A j \in DOMAIN r : j >= Len(q) => ~Is(r[j], breakers, p)
  BY <1>2
<1>4. ASSUME NEW i \in DOMAIN r, Is(r[i], breakers, p)
      PROVE  LastSaid(r, next, p, makers, breakers, i)
  <2>1. i + 1 \in 2 .. Len(q) + 1 /\ i + 1 \in DOMAIN q /\ r[i] = q[i + 1] /\ (i + 1) - 1 = i
    BY <1>1, <1>3, <1>4
  <2>2. LastSaid(q, known, p, makers, breakers, i + 1)
    BY <1>4, <2>1 DEF Rows
  <2>3. LastSaid(r, next, p, makers, breakers, (i + 1) - 1)
    BY <2>1, <2>2, LastServed
  <2> QED BY <2>1, <2>3
<1>5. ASSUME opens
      PROVE  LastSaid(r, next, p, makers, breakers, Len(r) + 1)
  <2>1. CASE open
    <3>1. Len(q) + 1 \in 2 .. Len(q) + 1 /\ (Len(q) + 1) - 1 = Len(q)
      BY <1>1
    <3>2. LastSaid(q, known, p, makers, breakers, Len(q) + 1)
      BY <2>1 DEF Rows
    <3>3. LastSaid(r, next, p, makers, breakers, (Len(q) + 1) - 1)
      BY <3>1, <3>2, LastServed
    <3> QED BY <1>1, <1>3, <3>1, <3>3, LastToTheEnd
  <2>2. CASE \E k \in DOMAIN ops : Is(ops[k], makers, p)
    <3>1. PICK k \in DOMAIN ops : Is(ops[k], makers, p)
      BY <2>2
    <3>2. Len(q) - 1 + k \in DOMAIN r /\ Len(q) - 1 + k >= Len(q) /\ r[Len(q) - 1 + k] = ops[k]
      BY <1>1
    <3>3. \E j \in DOMAIN r : j >= Len(q) /\ Is(r[j], makers, p)
      BY <3>1, <3>2
    <3> QED BY <1>1, <1>3, <3>3, LastToTheEnd
  <2> QED BY <1>5, <2>1, <2>2
<1> QED BY <1>4, <1>5 DEF Rows

\* The breaker that was allowed is asked for, and no other is from then on.
LEMMA RowsBroken ==
  ASSUME NEW q \in Seq(Items), q # <<>>, NEW x \in Items, NEW r, r = Tail(q) \o <<x>>,
         NEW known, NEW next, NEW p, NEW makers, NEW breakers,
         Rows(q, known, p, makers, breakers, TRUE),
         known /\ ~Is(q[1], breakers, p) => next,
         Is(q[1], makers, p) => next
  PROVE  Rows(r, next, p, makers, breakers, FALSE)
<1> DEFINE ops == <<x>>
<1>0. ops \in Seq(Items) /\ Len(ops) = 1 /\ DOMAIN ops = {1} /\ r = Tail(q) \o ops
  OBVIOUS
<1> HIDE DEF ops
<1>1. /\ r \in Seq(Items) /\ Len(q) \in Nat \ {0} /\ DOMAIN q = 1 .. Len(q)
      /\ DOMAIN r = 1 .. Len(r) /\ Len(r) = Len(q)
      /\ \A i \in 1 .. Len(q) - 1 : r[i] = q[i + 1]
  BY <1>0, ServedElements
<1> DEFINE n == Len(q)
<1>2. n \in Nat \ {0} /\ DOMAIN r = 1 .. n /\ DOMAIN q = 1 .. n
  BY <1>1
<1>3. \A i \in 1 .. n - 1 : r[i] = q[i + 1]
  BY <1>1
<1>4. \A i \in 1 .. n + 1 : (i = n + 1 \/ Is(q[i], breakers, p)) => LastSaid(q, known, p, makers, breakers, i)
  <2>1. \A i \in DOMAIN q : Is(q[i], breakers, p) => LastSaid(q, known, p, makers, breakers, i)
    BY DEF Rows
  <2>2. LastSaid(q, known, p, makers, breakers, n + 1)
    BY DEF Rows
  <2> HIDE DEF n
  <2>3. n \in Nat
    BY <1>2
  <2>4. ASSUME NEW i \in 1 .. n + 1, i # n + 1
        PROVE  i \in 1 .. n
    BY <2>3, <2>4
  <2> QED BY <1>2, <2>1, <2>2, <2>4
<1> HIDE DEF n
<1>5. ASSUME NEW i \in 1 .. n, Is(r[i], breakers, p)
      PROVE  LastSaid(r, next, p, makers, breakers, i)
  <2>1. i + 1 \in 2 .. n + 1 /\ i + 1 \in 1 .. n + 1 /\ (i + 1) - 1 = i
    BY <1>2
  <2>2. i \in 1 .. n - 1 \/ i + 1 = n + 1
    BY <1>2
  <2>3. LastSaid(q, known, p, makers, breakers, i + 1)
    BY <1>3, <1>4, <1>5, <2>1, <2>2
  <2>4. LastSaid(r, next, p, makers, breakers, (i + 1) - 1)
    BY <1>0, <2>1, <2>3, LastServed DEF n
  <2> QED BY <2>1, <2>4
<1>6. \A i \in DOMAIN r : Is(r[i], breakers, p) => LastSaid(r, next, p, makers, breakers, i)
  BY <1>2, <1>5
<1> QED BY <1>6 DEF Rows

LEMMA RowsAdded ==
  ASSUME NEW q \in Seq(Items), NEW x \in Items, NEW r, r = q \o <<x>>,
         NEW known, NEW p, NEW makers, NEW breakers, NEW open,
         Rows(q, known, p, makers, breakers, open), ~Is(x, breakers, p)
  PROVE  Rows(r, known, p, makers, breakers, open)
<1> DEFINE ops == <<x>>
<1>0. ops \in Seq(Items) /\ Len(ops) = 1 /\ DOMAIN ops = {1} /\ ops[1] = x /\ r = q \o ops
  OBVIOUS
<1> HIDE DEF ops
<1>1. /\ r \in Seq(Items) /\ Len(q) \in Nat /\ DOMAIN q = 1 .. Len(q)
      /\ DOMAIN r = 1 .. Len(r) /\ Len(r) = Len(q) + 1
      /\ \A i \in DOMAIN q : i \in DOMAIN r /\ r[i] = q[i]
  BY <1>0, AddedElements
<1>2. r[Len(q) + 1] = x
  BY <1>0, <1>1, AddedElements
<1>3. ASSUME NEW i \in DOMAIN r, Is(r[i], breakers, p)
      PROVE  LastSaid(r, known, p, makers, breakers, i)
  <2>1. i \in DOMAIN q /\ r[i] = q[i] /\ i \in 1 .. Len(q) + 1
    BY <1>1, <1>2, <1>3
  <2>2. LastSaid(q, known, p, makers, breakers, i)
    BY <1>3, <2>1 DEF Rows
  <2> QED BY <1>0, <2>1, <2>2, LastAdded
<1>4. ASSUME open
      PROVE  LastSaid(r, known, p, makers, breakers, Len(r) + 1)
  <2>1. LastSaid(q, known, p, makers, breakers, Len(q) + 1) /\ Len(q) + 1 \in 1 .. Len(q) + 1
    BY <1>1, <1>4 DEF Rows
  <2>2. LastSaid(r, known, p, makers, breakers, Len(q) + 1)
    BY <1>0, <2>1, LastAdded
  <2>3. \A j \in DOMAIN r : j >= Len(q) + 1 => ~Is(r[j], breakers, p)
    BY <1>1, <1>2
  <2>4. Len(q) + 1 \in Nat \ {0}
    BY <1>1
  <2> QED BY <1>1, <2>2, <2>3, <2>4, LastToTheEnd
<1> QED BY <1>3, <1>4 DEF Rows

-----------------------------------------------------------------------------
\* Order of the queue.

\* Pairs of operations that stand in this order.
Ordered(q, R) == \A i, j \in DOMAIN q : i < j => <<q[i], q[j]>> \in R

\* What is in order behind the head stays in order, and the order may change.
LEMMA OrderMoves ==
  ASSUME NEW q \in Seq(Items), q # <<>>, NEW ops \in Seq(Items), NEW r, r = Tail(q) \o ops,
         NEW R, Ordered(ops, R),
         \A i, j \in DOMAIN q : i > 1 /\ i < j => <<q[i], q[j]>> \in R,
         \A i \in DOMAIN q, k \in DOMAIN ops : i > 1 => <<q[i], ops[k]>> \in R
  PROVE  Ordered(r, R)
<1> DEFINE n == Len(q)
<1>1. /\ n \in Nat \ {0} /\ DOMAIN q = 1 .. n /\ DOMAIN r \subseteq Nat \ {0}
      /\ DOMAIN ops \subseteq Nat \ {0}
      /\ \A j \in DOMAIN r : \/ j + 1 \in DOMAIN q /\ r[j] = q[j + 1]
                             \/ j - n + 1 \in DOMAIN ops /\ r[j] = ops[j - n + 1]
  BY ServedElements
<1> HIDE DEF n
<1>2. ASSUME NEW i \in DOMAIN r, NEW j \in DOMAIN r, i < j
      PROVE  <<r[i], r[j]>> \in R
  <2>1. CASE j + 1 \in DOMAIN q /\ r[j] = q[j + 1]
    <3>1. i + 1 \in DOMAIN q /\ i + 1 < j + 1
      BY <1>1, <1>2, <2>1
    <3>2. r[i] = q[i + 1]
      <4>1. i - n + 1 \notin Nat \ {0}
        BY <1>1, <3>1
      <4> QED BY <1>1, <4>1
    <3>3. i + 1 > 1
      BY <1>1
    <3> QED BY <2>1, <3>1, <3>2, <3>3
  <2>2. CASE j - n + 1 \in DOMAIN ops /\ r[j] = ops[j - n + 1]
    <3>1. CASE i + 1 \in DOMAIN q /\ r[i] = q[i + 1]
      <4>1. i + 1 > 1
        BY <1>1
      <4> QED BY <2>2, <3>1, <4>1
    <3>2. CASE i - n + 1 \in DOMAIN ops /\ r[i] = ops[i - n + 1]
      <4>1. i - n + 1 < j - n + 1
        BY <1>1, <1>2
      <4> QED BY <2>2, <3>2, <4>1 DEF Ordered
    <3> QED BY <1>1, <3>1, <3>2
  <2> QED BY <1>1, <2>1, <2>2
<1> QED BY <1>2 DEF Ordered

LEMMA OrderServed ==
  ASSUME NEW q \in Seq(Items), q # <<>>, NEW ops \in Seq(Items), NEW r, r = Tail(q) \o ops,
         NEW R, Ordered(q, R), Ordered(ops, R),
         \A i \in DOMAIN q, k \in DOMAIN ops : i > 1 => <<q[i], ops[k]>> \in R
  PROVE  Ordered(r, R)
<1>1. \A i, j \in DOMAIN q : i > 1 /\ i < j => <<q[i], q[j]>> \in R
  BY DEF Ordered
<1> QED BY <1>1, OrderMoves

LEMMA OrderAdded ==
  ASSUME NEW q \in Seq(Items), NEW x \in Items, NEW r, r = q \o <<x>>,
         NEW R, Ordered(q, R), \A i \in DOMAIN q : <<q[i], x>> \in R
  PROVE  Ordered(r, R)
<1>1. /\ Len(q) \in Nat /\ DOMAIN q = 1 .. Len(q)
      /\ \A j \in DOMAIN r : \/ j \in DOMAIN q /\ r[j] = q[j]
                             \/ j = Len(q) + 1 /\ r[j] = x
  BY AddedOne
<1>2. ASSUME NEW i \in DOMAIN r, NEW j \in DOMAIN r, i < j
      PROVE  <<r[i], r[j]>> \in R
  <2>1. i \in DOMAIN q /\ r[i] = q[i]
    BY <1>1, <1>2
  <2> QED BY <1>1, <1>2, <2>1 DEF Ordered
<1> QED BY <1>2 DEF Ordered

\* One operation alone, or none, is in order.
LEMMA OneIsOrdered ==
  ASSUME NEW R
  PROVE  Ordered(<<>>, R) /\ \A x \in Items : Ordered(<<x>>, R)
<1>1. Ordered(<<>>, R)
  BY NoItem DEF Ordered
<1>2. ASSUME NEW x \in Items
      PROVE  Ordered(<<x>>, R)
  <2> DEFINE ops == <<x>>
  <2>1. DOMAIN ops = {1}
    BY OneItem
  <2> HIDE DEF ops
  <2>2. Ordered(ops, R)
    BY <2>1 DEF Ordered
  <2> QED BY <2>2 DEF ops
<1> QED BY <1>1, <1>2

-----------------------------------------------------------------------------
\* What each step of a scan asks for.

LEMMA FindDeviceAsks ==
  ASSUME PresenceInv, FindDevice
  PROVE  \E x \in Items : /\ Then(<<x>>) /\ x.op = "upsert"
                          /\ x.arg = This.arg /\ x.call = This.call
<1> DEFINE read == This.arg \in online
           x == [This EXCEPT !.op = "upsert", !.carries = read]
<1>1. Then(<<x>>) /\ Serving("findDevice")
  BY DEF FindDevice
<1>2. This \in Items /\ "upsert" \in Kinds /\ read \in BOOLEAN
  BY <1>1, HeadServed DEF Kinds
<1> HIDE DEF read
<1>3. x \in Items /\ x.op = "upsert" /\ x.arg = This.arg /\ x.call = This.call
  BY <1>2 DEF Items
<1> HIDE DEF x
<1> QED BY <1>1, <1>3

LEMMA FindStaleAsks ==
  ASSUME PresenceInv, FindStale
  PROVE  \/ Then(<<>>)
         \/ \E x \in Items : /\ Then(<<x>>) /\ x.op = "markStale" /\ x.call = This.call
                             /\ scan' = [scan EXCEPT ![This.call].todo = online \ scan[This.call].seen]
<1> DEFINE x == [This EXCEPT !.op = "markStale"]
<1>1. \/ Then(<<>>)
      \/ /\ Then(<<x>>)
         /\ scan' = [scan EXCEPT ![This.call].todo = online \ scan[This.call].seen]
  BY DEF FindStale, Done
<1>2. This \in Items /\ "markStale" \in Kinds
  BY HeadServed DEF Kinds, FindStale
<1>3. x \in Items /\ x.op = "markStale" /\ x.call = This.call
  BY <1>2 DEF Items
<1> HIDE DEF x
<1> QED BY <1>1, <1>3

LEMMA UpsertAsks ==
  ASSUME PresenceInv, Upsert
  PROVE  \E x \in Items :
           /\ x.call = This.call /\ x.op \in {"findDevice", "findStale"}
           /\ x.op = "findDevice" => x.arg \in scan[This.call].todo
           /\ IF This.carries THEN Then(<<x>>)
              ELSE \E e \in Items : /\ Then(<<e>> \o <<x>>) /\ e.op = "ownerOnline"
                                    /\ e.arg = Owner[This.arg] /\ e.arg \in People
<1> DEFINE s == This.call
           left == scan[s].todo \ {This.arg}
           event == IF This.carries THEN <<>> ELSE <<Op("ownerOnline", Owner[This.arg])>>
<1>1. /\ PresenceTypes /\ ScanInv /\ 1 \in DOMAIN queue
      /\ This \in Items /\ This = queue[1] /\ This.op = "upsert"
  BY HeadServed DEF Upsert
<1>2. Scans(queue[1])
  BY <1>1 DEF ScanInv, ScanOps
<1>3. s \in Scanners /\ scan[s] \in Scannings /\ This.arg \in Devices /\ Owner[This.arg] \in People
  BY <1>1, <1>2, OwnerAssumption DEF Scans, PresenceTypes
<1>4. PICK next \in NextDevice(s, left) : Then(event \o next)
  BY DEF Upsert
<1>5. left \in SUBSET Devices /\ left \subseteq scan[s].todo
  BY <1>3 DEF Scannings
<1> HIDE DEF left
<1>6. PICK x \in Items : /\ next = <<x>> /\ x.call = s /\ x.op \in {"findDevice", "findStale"}
                         /\ x.op = "findDevice" => x.arg \in left
  BY <1>3, <1>5, NextDeviceType
<1>7. CASE This.carries
  <2>1. <<>> \o <<x>> = <<x>>
    OBVIOUS
  <2>2. Then(<<x>>)
    BY <1>4, <1>6, <1>7, <2>1
  <2> QED BY <1>5, <1>6, <1>7, <2>2
<1>8. CASE ~This.carries
  <2> DEFINE e == Op("ownerOnline", Owner[This.arg])
  <2>1. Then(<<e>> \o <<x>>)
    BY <1>4, <1>6, <1>8
  <2>2. e \in Items /\ e.op = "ownerOnline" /\ e.arg = Owner[This.arg]
    BY <1>3, OpType DEF Args, Kinds
  <2> HIDE DEF e
  <2> QED BY <1>3, <1>5, <1>6, <1>8, <2>1, <2>2
<1> QED BY <1>7, <1>8

LEMMA MarkStaleAsks ==
  ASSUME PresenceInv, MarkStale
  PROVE  \E ops \in Seq(Items) :
           /\ Then(ops)
           /\ \A k \in DOMAIN ops : /\ ops[k].op = "ownerOffline"
                                    /\ \E d \in online \ scan[This.call].seen : ops[k].arg = Owner[d]
<1> DEFINE s == This.call
           todo == scan[s].todo
<1>1. /\ PresenceTypes /\ ScanInv /\ 1 \in DOMAIN queue
      /\ This \in Items /\ This = queue[1] /\ This.op = "markStale"
  BY HeadServed DEF MarkStale
<1>2. Scans(queue[1])
  BY <1>1 DEF ScanInv, ScanOps
<1>3. todo = online \ scan[s].seen /\ todo \subseteq Devices /\ IsFiniteSet(todo)
  BY <1>1, <1>2, DevicesAssumption, FS_Subset DEF Scans, PresenceTypes
<1>4. PICK order \in SetToSeqs(todo) :
        Then([i \in DOMAIN order |-> Op("ownerOffline", Owner[order[i]])])
  BY DEF MarkStale
<1> DEFINE ops == [i \in DOMAIN order |-> Op("ownerOffline", Owner[order[i]])]
<1>5. /\ Cardinality(todo) \in Nat /\ DOMAIN order = 1 .. Cardinality(todo)
      /\ \A i \in DOMAIN order : order[i] \in todo
  BY <1>3, OrderNamesAll
<1> HIDE DEF todo
<1>6. \A i \in DOMAIN order : /\ Op("ownerOffline", Owner[order[i]]) \in Items
                              /\ Op("ownerOffline", Owner[order[i]]).op = "ownerOffline"
                              /\ Op("ownerOffline", Owner[order[i]]).arg = Owner[order[i]]
  <2>1. \A i \in DOMAIN order : Owner[order[i]] \in Args
    BY <1>3, <1>5, OwnerAssumption DEF Args
  <2>2. "ownerOffline" \in Kinds
    BY DEF Kinds
  <2> QED BY <2>1, <2>2, OpType
<1>7. ops \in Seq(Items)
  BY <1>5, <1>6
<1>8. \A k \in DOMAIN ops : ops[k].op = "ownerOffline" /\ \E d \in todo : ops[k].arg = Owner[d]
  BY <1>5, <1>6
<1>9. Then(ops)
  BY <1>4
<1> HIDE DEF ops
<1> QED BY <1>3, <1>7, <1>8, <1>9

-----------------------------------------------------------------------------

\* Arrivals: a person who is absent, or on the way in, is not the last one
\* recorded as arrived, and no two arrivals are under way.
Comers == Arriving \cup {"arriveRow"}
ComesBefore(x, y) ==
  x.op \in Arriving /\ y.op \in Arriving => x.op = "arriveUser" /\ y.op = "ownerOnline"
ArrivalOrder == {xy \in Items \X Items : ComesBefore(xy[1], xy[2])}
Absent(p) == home[p] # "yes" \/ \E i \in DOMAIN queue : Is(queue[i], {"arriveUser"}, p)
ArrivalsRecorded(p) ==
  Rows(queue, recorded[p] # "arrived", p, {"leftRow"}, {"arriveRow"}, Absent(p))
RowTypes == recorded \in [People -> {"none", "arrived", "left"}]

ArrivalInv ==
  /\ RowTypes
  /\ \A i \in DOMAIN queue : queue[i].op \in Comers => queue[i].arg \in People
  /\ Ordered(queue, ArrivalOrder)
  /\ Restarting \/ \A p \in People : ArrivalsRecorded(p)

LEMMA ArrivalOrderIs ==
  ASSUME NEW x \in Items, NEW y \in Items
  PROVE  <<x, y>> \in ArrivalOrder <=> ComesBefore(x, y)
  BY DEF ArrivalOrder

LEMMA ArrivalServed ==
  ASSUME PresenceTypes, ArrivalInv, ~Restarting, queue # <<>>, NEW ops \in Seq(Items), Then(ops),
         RowTypes',
         \A k \in DOMAIN ops : ops[k].op \in Comers => ops[k].arg \in People,
         Ordered(ops, ArrivalOrder),
         \A i \in DOMAIN queue, k \in DOMAIN ops : i > 1 => ComesBefore(queue[i], ops[k]),
         \A p \in People :
           /\ recorded[p] # "arrived" /\ ~Is(queue[1], {"arriveRow"}, p) => recorded'[p] # "arrived"
           /\ Is(queue[1], {"leftRow"}, p) => recorded'[p] # "arrived"
           /\ \/ /\ \A k \in DOMAIN ops : ~Is(ops[k], {"arriveRow"}, p)
                 /\ \/ home'[p] = "yes"
                    \/ home[p] # "yes"
                    \/ \E k \in DOMAIN ops : Is(ops[k], {"leftRow"}, p)
                 /\ \A k \in DOMAIN ops : Is(ops[k], {"arriveUser"}, p) => home[p] # "yes"
              \/ /\ Is(queue[1], {"arriveUser"}, p) /\ home'[p] = "yes"
                 /\ \E x \in Items : ops = <<x>> /\ Is(x, {"arriveRow"}, p)
  PROVE  ArrivalInv'
<1> DEFINE r == Tail(queue) \o ops
<1>1. queue \in Seq(Items) /\ queue' = r
  BY DEF PresenceTypes, Then
<1>2. /\ r \in Seq(Items) /\ Len(queue) \in Nat \ {0} /\ DOMAIN queue = 1 .. Len(queue)
      /\ queue[1] \in Items /\ DOMAIN r \subseteq Nat \ {0}
      /\ \A j \in DOMAIN r : \/ j + 1 \in DOMAIN queue /\ r[j] = queue[j + 1]
                             \/ j - Len(queue) + 1 \in DOMAIN ops /\ r[j] = ops[j - Len(queue) + 1]
  BY <1>1, ServedElements
<1>3. \A j \in DOMAIN r : \/ \E i \in DOMAIN queue : i > 1 /\ r[j] = queue[i]
                          \/ \E k \in DOMAIN ops : r[j] = ops[k]
  <2>1. ASSUME NEW j \in DOMAIN r
        PROVE  j + 1 > 1
    BY <1>2
  <2> QED BY <1>2, <2>1
<1>4. \A i \in DOMAIN queue : queue[i] \in Items
  BY <1>1
<1>5. \A k \in DOMAIN ops : ops[k] \in Items
  OBVIOUS
<1> HIDE DEF r
<1>6. \A j \in DOMAIN r : r[j].op \in Comers => r[j].arg \in People
  BY <1>3 DEF ArrivalInv
<1>7. Ordered(r, ArrivalOrder)
  <2>1. \A i \in DOMAIN queue, k \in DOMAIN ops : i > 1 => <<queue[i], ops[k]>> \in ArrivalOrder
    BY <1>4, <1>5, ArrivalOrderIs
  <2>2. Ordered(queue, ArrivalOrder)
    BY DEF ArrivalInv
  <2> QED BY <1>1, <2>1, <2>2, OrderServed DEF r
<1>8. ASSUME NEW p \in People
      PROVE  ArrivalsRecorded(p)'
  <2> DEFINE known == recorded[p] # "arrived"
             next == recorded'[p] # "arrived"
             open == Absent(p)
             opens == Absent(p)'
  <2>1. Rows(queue, known, p, {"leftRow"}, {"arriveRow"}, open)
    BY DEF ArrivalInv, ArrivalsRecorded
  <2>2. /\ known /\ ~Is(queue[1], {"arriveRow"}, p) => next
        /\ Is(queue[1], {"leftRow"}, p) => next
    BY <1>8
  <2>3. opens <=> (home'[p] # "yes" \/ \E j \in DOMAIN r : Is(r[j], {"arriveUser"}, p))
    BY <1>1 DEF Absent, Is, r
  <2>4. CASE /\ \A k \in DOMAIN ops : ~Is(ops[k], {"arriveRow"}, p)
             /\ \/ home'[p] = "yes"
                \/ home[p] # "yes"
                \/ \E k \in DOMAIN ops : Is(ops[k], {"leftRow"}, p)
             /\ \A k \in DOMAIN ops : Is(ops[k], {"arriveUser"}, p) => home[p] # "yes"
    <3>1. opens => open \/ \E k \in DOMAIN ops : Is(ops[k], {"leftRow"}, p)
      BY <1>3, <2>3, <2>4 DEF Absent
    <3> HIDE DEF known, next, open, opens
    <3>2. Rows(r, next, p, {"leftRow"}, {"arriveRow"}, opens)
      BY <1>1, <2>1, <2>2, <2>4, <3>1, RowsServed DEF r
    <3> QED BY <1>1, <3>2 DEF ArrivalsRecorded, next, opens
  <2>5. CASE /\ Is(queue[1], {"arriveUser"}, p) /\ home'[p] = "yes"
             /\ \E x \in Items : ops = <<x>> /\ Is(x, {"arriveRow"}, p)
    <3>1. PICK x \in Items : ops = <<x>> /\ Is(x, {"arriveRow"}, p)
      BY <2>5
    <3>2. 1 \in DOMAIN queue
      BY <1>2
    <3>3. open
      BY <2>5, <3>2 DEF Absent
    <3>4. \A i \in DOMAIN queue : i > 1 => ~Is(queue[i], {"arriveUser"}, p)
      <4>1. \A i \in DOMAIN queue : i > 1 => <<queue[1], queue[i]>> \in ArrivalOrder
        BY <3>2 DEF ArrivalInv, Ordered
      <4>2. \A i \in DOMAIN queue : i > 1 => ComesBefore(queue[1], queue[i])
        BY <1>2, <1>4, <4>1, ArrivalOrderIs
      <4> QED BY <2>5, <4>2 DEF ComesBefore, Is, Arriving
    <3>5. \A k \in DOMAIN ops : ~Is(ops[k], {"arriveUser"}, p)
      <4>1. \A k \in DOMAIN ops : ops[k] = x
        BY <3>1, OneItem
      <4> QED BY <3>1, <4>1 DEF Is
    <3>6. ~opens
      BY <1>3, <2>3, <2>5, <3>4, <3>5
    <3> HIDE DEF known, next, open, opens
    <3>7. Rows(queue, known, p, {"leftRow"}, {"arriveRow"}, TRUE)
      BY <2>1, <3>3 DEF Rows
    <3>8. Rows(r, next, p, {"leftRow"}, {"arriveRow"}, FALSE)
      BY <1>1, <2>2, <3>1, <3>7, RowsBroken DEF r
    <3>9. Rows(r, next, p, {"leftRow"}, {"arriveRow"}, opens)
      BY <3>6, <3>8 DEF Rows
    <3> QED BY <1>1, <3>9 DEF ArrivalsRecorded, next, opens
  <2> QED BY <1>8, <2>4, <2>5
<1> QED BY <1>1, <1>6, <1>7, <1>8 DEF ArrivalInv

\* What tells nothing of arrivals leaves them as they were.
LEMMA ArrivalStands ==
  ASSUME PresenceTypes, ArrivalInv, ~Restarting, queue # <<>>, NEW ops \in Seq(Items), Then(ops),
         recorded' = recorded, queue[1].op \notin {"arriveRow", "leftRow"},
         \A k \in DOMAIN ops : ops[k].op \notin Comers,
         \A p \in People : home'[p] \in {home[p], "yes"} \/ \E k \in DOMAIN ops : Is(ops[k], {"leftRow"}, p)
  PROVE  ArrivalInv'
<1>1. Ordered(ops, ArrivalOrder)
  <2>1. \A k \in DOMAIN ops : ops[k] \in Items
    OBVIOUS
  <2>2. \A k, l \in DOMAIN ops : <<ops[k], ops[l]>> \in ArrivalOrder
    BY <2>1, ArrivalOrderIs DEF ComesBefore, Comers
  <2> QED BY <2>2 DEF Ordered
<1>2. \A i \in DOMAIN queue, k \in DOMAIN ops : i > 1 => ComesBefore(queue[i], ops[k])
  BY DEF ComesBefore, Comers
<1>3. \A p \in People :
        /\ ~Is(queue[1], {"arriveRow"}, p) /\ ~Is(queue[1], {"leftRow"}, p)
        /\ \A k \in DOMAIN ops : ~Is(ops[k], {"arriveRow"}, p) /\ ~Is(ops[k], {"arriveUser"}, p)
  BY DEF Is, Comers, Arriving
<1>4. RowTypes'
  BY DEF ArrivalInv, RowTypes
<1> QED BY <1>1, <1>2, <1>3, <1>4, ArrivalServed

LEMMA ArrivalAdded ==
  ASSUME PresenceTypes, ArrivalInv, NEW x \in Items, queue' = queue \o <<x>>,
         x.op \notin Comers, UNCHANGED <<home, recorded>>
  PROVE  ArrivalInv'
<1> DEFINE r == queue \o <<x>>
<1>1. queue \in Seq(Items) /\ queue' = r
  BY DEF PresenceTypes
<1>2. /\ \A i \in DOMAIN queue : i \in DOMAIN r /\ r[i] = queue[i]
      /\ \A j \in DOMAIN r : r[j] = x \/ (j \in DOMAIN queue /\ r[j] = queue[j])
  BY <1>1, AddedOne
<1> HIDE DEF r
<1>3. \A j \in DOMAIN r : r[j].op \in Comers => r[j].arg \in People
  BY <1>2 DEF ArrivalInv
<1>4. Ordered(r, ArrivalOrder)
  <2>1. \A i \in DOMAIN queue : <<queue[i], x>> \in ArrivalOrder
    BY <1>1, ArrivalOrderIs DEF ComesBefore, Comers
  <2> QED BY <1>1, <2>1, OrderAdded DEF ArrivalInv, r
<1>5. CASE Restarting
  <2>1. Restarting'
    BY <1>1, <1>2, <1>5 DEF Restarting
  <2> QED BY <1>1, <1>3, <1>4, <2>1 DEF ArrivalInv, RowTypes
<1>6. ASSUME ~Restarting, NEW p \in People
      PROVE  ArrivalsRecorded(p)'
  <2> DEFINE known == recorded[p] # "arrived"
             open == Absent(p)
  <2>1. Rows(queue, known, p, {"leftRow"}, {"arriveRow"}, open)
    BY <1>6 DEF ArrivalInv, ArrivalsRecorded
  <2>2. ~Is(x, {"arriveRow"}, p) /\ ~Is(x, {"arriveUser"}, p)
    BY DEF Is, Comers, Arriving
  <2>3. open <=> (home'[p] # "yes" \/ \E j \in DOMAIN r : Is(r[j], {"arriveUser"}, p))
    BY <1>2, <2>2 DEF Absent
  <2>4. open <=> Absent(p)'
    BY <1>1, <2>3 DEF Absent, Is
  <2> HIDE DEF known, open
  <2>5. Rows(r, known, p, {"leftRow"}, {"arriveRow"}, open)
    BY <1>1, <2>1, <2>2, RowsAdded DEF r
  <2>6. Rows(r, known, p, {"leftRow"}, {"arriveRow"}, Absent(p)')
    BY <2>4, <2>5 DEF Rows
  <2> QED BY <1>1, <2>6 DEF ArrivalsRecorded, known
<1> QED BY <1>1, <1>3, <1>4, <1>5, <1>6 DEF ArrivalInv, RowTypes

LEMMA NotRestarting ==
  ASSUME PresenceInv, queue # <<>>, Head(queue).op # "reconcile"
  PROVE  ~Restarting
<1>1. PresenceTypes /\ RestartInv /\ queue \in Seq(Items) /\ queue[1].op # "reconcile"
  BY ServedElements DEF PresenceInv, PresenceTypes
<1> QED BY <1>1 DEF Restarting, RestartInv

\* A step of the scan, or one that deals with a departure or the mode.
LEMMA ArrivalOne ==
  ASSUME PresenceInv, ArrivalInv, queue # <<>>,
         Head(queue).op \notin {"arriveRow", "leftRow", "reconcile"},
         UNCHANGED <<home, recorded>>,
         \/ Then(<<>>)
         \/ \E x \in Items : Then(<<x>>) /\ x.op \notin Comers
  PROVE  ArrivalInv'
<1>1. ~Restarting /\ PresenceTypes /\ queue[1].op \notin {"arriveRow", "leftRow"}
  BY NotRestarting, ServedElements DEF PresenceInv, PresenceTypes
<1>2. CASE Then(<<>>)
  BY <1>1, <1>2, NoItem, ArrivalStands
<1>3. ASSUME NEW x \in Items, Then(<<x>>), x.op \notin Comers
      PROVE  ArrivalInv'
  <2> DEFINE ops == <<x>>
  <2>1. ops \in Seq(Items) /\ DOMAIN ops = {1} /\ ops[1] = x /\ Then(ops)
    BY <1>3, OneItem
  <2> HIDE DEF ops
  <2> QED BY <1>1, <1>3, <2>1, ArrivalStands
<1> QED BY <1>2, <1>3

LEMMA ScanArrivals ==
  ASSUME PresenceInv, ArrivalInv, FindDevice \/ FindStale \/ MarkStale
  PROVE  ArrivalInv'
<1>1. UNCHANGED <<home, recorded>> /\ queue # <<>>
  BY DEF FindDevice, FindStale, MarkStale, Serving
<1>2. CASE FindDevice
  BY <1>1, <1>2, FindDeviceAsks, ArrivalOne DEF FindDevice, Serving, Comers, Arriving
<1>3. CASE FindStale
  BY <1>1, <1>3, FindStaleAsks, ArrivalOne DEF FindStale, Serving, Comers, Arriving
<1>4. CASE MarkStale
  <2>1. PICK ops \in Seq(Items) : Then(ops) /\ \A k \in DOMAIN ops : ops[k].op = "ownerOffline"
    BY <1>4, MarkStaleAsks
  <2>2. \A k \in DOMAIN ops : ops[k].op \notin Comers
    BY <2>1 DEF Comers, Arriving
  <2>3. PresenceTypes /\ ~Restarting /\ queue[1].op = "markStale"
    BY <1>4, NotRestarting, HeadServed DEF MarkStale, Serving
  <2> QED BY <1>1, <2>1, <2>2, <2>3, ArrivalStands
<1> QED BY <1>2, <1>3, <1>4

\* An arrival is announced when none is: all those before were handled before
\* the scan went on.
LEMMA UpsertArrivals ==
  ASSUME PresenceInv, ArrivalInv, Upsert
  PROVE  ArrivalInv'
<1>1. /\ PresenceTypes /\ EventInv /\ queue # <<>> /\ 1 \in DOMAIN queue /\ This = queue[1]
      /\ queue[1].op = "upsert" /\ queue \in Seq(Items)
  BY HeadServed DEF Upsert
<1>2. ~Restarting
  BY NotRestarting DEF Upsert, Serving
<1>3. UNCHANGED <<home, recorded>>
  BY DEF Upsert
<1>4. PICK x \in Items :
        /\ x.op \in {"findDevice", "findStale"}
        /\ IF This.carries THEN Then(<<x>>)
           ELSE \E e \in Items : /\ Then(<<e>> \o <<x>>) /\ e.op = "ownerOnline" /\ e.arg \in People
  BY UpsertAsks
<1>5. CASE This.carries
  BY <1>1, <1>3, <1>4, <1>5, ArrivalOne DEF Upsert, Serving, Comers, Arriving
<1>6. CASE ~This.carries
  <2>1. PICK e \in Items : Then(<<e>> \o <<x>>) /\ e.op = "ownerOnline" /\ e.arg \in People
    BY <1>4, <1>6
  <2> DEFINE ops == <<e>> \o <<x>>
  <2>2. ops \in Seq(Items) /\ DOMAIN ops = {1, 2} /\ ops[1] = e /\ ops[2] = x /\ Then(ops)
    BY <2>1, TwoItems
  <2> HIDE DEF ops
  <2>3. \A i \in DOMAIN queue : queue[i].op # "ownerOnline"
    <3>1. ASSUME NEW i \in DOMAIN queue, queue[i].op = "ownerOnline" PROVE FALSE
      <4>1. i < 1
        BY <1>1, <3>1 DEF EventInv, ScanOps
      <4> QED BY <1>1, <4>1
    <3> QED BY <3>1
  <2>4. Ordered(ops, ArrivalOrder)
    <3>1. ComesBefore(e, x)
      BY <1>4 DEF ComesBefore, Arriving
    <3>2. <<e, x>> \in ArrivalOrder
      BY <3>1, ArrivalOrderIs
    <3>3. \A k, l \in DOMAIN ops : k < l => k = 1 /\ l = 2
      BY <2>2
    <3> QED BY <2>2, <3>2, <3>3 DEF Ordered
  <2>5. \A i \in DOMAIN queue, k \in DOMAIN ops : i > 1 => ComesBefore(queue[i], ops[k])
    BY <1>4, <2>1, <2>2, <2>3 DEF ComesBefore, Arriving
  <2>6. \A k \in DOMAIN ops : ops[k].op \in Comers => ops[k].arg \in People
    BY <1>4, <2>1, <2>2 DEF Comers, Arriving
  <2>7. \A p \in People :
          /\ ~Is(queue[1], {"arriveRow"}, p) /\ ~Is(queue[1], {"leftRow"}, p)
          /\ \A k \in DOMAIN ops : ~Is(ops[k], {"arriveRow"}, p) /\ ~Is(ops[k], {"arriveUser"}, p)
    BY <1>1, <1>4, <2>1, <2>2 DEF Is
  <2>8. RowTypes'
    BY <1>3 DEF ArrivalInv, RowTypes
  <2> QED BY <1>1, <1>2, <1>3, <2>2, <2>4, <2>5, <2>6, <2>7, <2>8, ArrivalServed
<1> QED BY <1>5, <1>6

\* The person is on the way in only if not at home; nobody else is then.
LEMMA OwnerOnlineArrivals ==
  ASSUME PresenceInv, ArrivalInv, OwnerOnline
  PROVE  ArrivalInv'
<1> DEFINE p == This.arg
<1>1. /\ PresenceTypes /\ queue # <<>> /\ 1 \in DOMAIN queue /\ This = queue[1]
      /\ queue[1].op = "ownerOnline" /\ queue \in Seq(Items) /\ queue[1] \in Items
  BY HeadServed DEF OwnerOnline
<1>2. ~Restarting
  BY NotRestarting DEF OwnerOnline, Serving
<1>3. UNCHANGED <<home, recorded>>
  BY DEF OwnerOnline
<1>4. CASE home[p] = "yes"
  BY <1>1, <1>3, <1>4, ArrivalOne DEF OwnerOnline, AlreadyHome, Serving
<1>5. CASE home[p] # "yes"
  <2> DEFINE x == Op("arriveUser", p)
             ops == <<x>>
  <2>1. Then(ops)
    BY <1>5 DEF OwnerOnline, AlreadyHome
  <2>2. x \in Items /\ x.op = "arriveUser" /\ x.arg = p
    BY <1>1, OpType DEF Items, Kinds
  <2> HIDE DEF x
  <2>3. ops \in Seq(Items) /\ DOMAIN ops = {1} /\ ops[1] = x /\ Ordered(ops, ArrivalOrder)
    BY <2>2, OneItem, OneIsOrdered
  <2> HIDE DEF ops
  <2>4. p \in People
    BY <1>1 DEF ArrivalInv, Comers, Arriving
  <2>5. \A i \in DOMAIN queue : i > 1 => queue[i].op \notin Arriving
    <3>1. \A i \in DOMAIN queue : queue[i] \in Items
      BY <1>1
    <3>2. \A i \in DOMAIN queue : i > 1 => ComesBefore(queue[1], queue[i])
      BY <1>1, <3>1, ArrivalOrderIs DEF ArrivalInv, Ordered
    <3> QED BY <1>1, <3>2 DEF ComesBefore, Arriving
  <2>6. \A i \in DOMAIN queue, k \in DOMAIN ops : i > 1 => ComesBefore(queue[i], ops[k])
    BY <2>5 DEF ComesBefore
  <2>7. \A q \in People :
          /\ ~Is(queue[1], {"arriveRow"}, q) /\ ~Is(queue[1], {"leftRow"}, q)
          /\ \A k \in DOMAIN ops : ~Is(ops[k], {"arriveRow"}, q)
          /\ \A k \in DOMAIN ops : Is(ops[k], {"arriveUser"}, q) => home[q] # "yes"
    BY <1>1, <1>5, <2>2, <2>3 DEF Is
  <2>8. \A k \in DOMAIN ops : ops[k].op \in Comers => ops[k].arg \in People
    BY <2>2, <2>3, <2>4
  <2>9. RowTypes' /\ \A q \in People : home'[q] = "yes" \/ home[q] # "yes"
    BY <1>3 DEF ArrivalInv, RowTypes
  <2> QED BY <1>1, <1>2, <1>3, <2>1, <2>3, <2>6, <2>7, <2>8, <2>9, ArrivalServed
<1> QED BY <1>4, <1>5

LEMMA ArriveUserArrivals ==
  ASSUME PresenceInv, ArrivalInv, ArriveUser
  PROVE  ArrivalInv'
<1> DEFINE p == This.arg
           x == [This EXCEPT !.op = "arriveRow"]
           ops == <<x>>
<1>1. /\ PresenceTypes /\ queue # <<>> /\ 1 \in DOMAIN queue /\ This = queue[1]
      /\ queue[1].op = "arriveUser" /\ queue \in Seq(Items) /\ This \in Items
  BY HeadServed DEF ArriveUser
<1>2. ~Restarting
  BY NotRestarting DEF ArriveUser, Serving
<1>3. Then(ops) /\ home' = [home EXCEPT ![p] = "yes"] /\ recorded' = recorded
  BY DEF ArriveUser
<1>4. p \in People
  BY <1>1 DEF ArrivalInv, Comers, Arriving
<1>5. x \in Items /\ x.op = "arriveRow" /\ x.arg = p
  BY <1>1 DEF Items, Kinds
<1> HIDE DEF x
<1>6. ops \in Seq(Items) /\ DOMAIN ops = {1} /\ ops[1] = x /\ Ordered(ops, ArrivalOrder)
  BY <1>5, OneItem, OneIsOrdered
<1>7. ops = <<x>>
  OBVIOUS
<1> HIDE DEF ops
<1>8. \A q \in People : home'[q] = IF q = p THEN "yes" ELSE home[q]
  BY <1>1, <1>3 DEF PresenceTypes
<1>9. \A i \in DOMAIN queue, k \in DOMAIN ops : i > 1 => ComesBefore(queue[i], ops[k])
  BY <1>5, <1>6 DEF ComesBefore, Arriving
<1>10. ASSUME NEW q \in People, q # p
       PROVE  /\ \A k \in DOMAIN ops : ~Is(ops[k], {"arriveRow"}, q) /\ ~Is(ops[k], {"arriveUser"}, q)
              /\ home'[q] = "yes" \/ home[q] # "yes"
  BY <1>5, <1>6, <1>8, <1>10 DEF Is
<1>11. /\ Is(queue[1], {"arriveUser"}, p) /\ home'[p] = "yes"
       /\ Is(x, {"arriveRow"}, p)
  BY <1>1, <1>4, <1>5, <1>8 DEF Is
<1>12. \A q \in People : ~Is(queue[1], {"arriveRow"}, q) /\ ~Is(queue[1], {"leftRow"}, q)
  BY <1>1 DEF Is
<1>13. RowTypes' /\ \A k \in DOMAIN ops : ops[k].op \in Comers => ops[k].arg \in People
  BY <1>3, <1>4, <1>5, <1>6 DEF ArrivalInv, RowTypes
<1>14. \A q \in People :
         \/ /\ \A k \in DOMAIN ops : ~Is(ops[k], {"arriveRow"}, q)
            /\ home'[q] = "yes" \/ home[q] # "yes"
            /\ \A k \in DOMAIN ops : Is(ops[k], {"arriveUser"}, q) => home[q] # "yes"
         \/ /\ Is(queue[1], {"arriveUser"}, q) /\ home'[q] = "yes"
            /\ \E y \in Items : ops = <<y>> /\ Is(y, {"arriveRow"}, q)
  BY <1>5, <1>7, <1>10, <1>11
<1> QED BY <1>1, <1>2, <1>3, <1>6, <1>9, <1>12, <1>13, <1>14, ArrivalServed

\* A row is stored: the timeline says what it says.
LEMMA RowArrivals ==
  ASSUME PresenceInv, ArrivalInv, ArriveRow \/ LeftRow
  PROVE  ArrivalInv'
<1> DEFINE p == This.arg
<1>0. PICK kind \in {"arriveRow", "leftRow"}, next \in {"arriveMode", "countAnyone"}, row \in {"arrived", "left"} :
        /\ Serving(kind) /\ Then(<<[This EXCEPT !.op = next]>>)
        /\ recorded' = [recorded EXCEPT ![p] = row]
        /\ kind = "leftRow" => row = "left"
        /\ home' = home
  BY DEF ArriveRow, LeftRow
<1>1. /\ PresenceTypes /\ queue # <<>> /\ 1 \in DOMAIN queue /\ This = queue[1]
      /\ queue[1].op = kind /\ queue \in Seq(Items) /\ This \in Items
  BY <1>0, HeadServed
<1>2. ~Restarting
  BY <1>0, NotRestarting DEF Serving
<1> DEFINE x == [This EXCEPT !.op = next]
           ops == <<x>>
<1>3. x \in Items /\ x.op \notin Comers /\ x.arg = p
  BY <1>1 DEF Items, Kinds, Comers, Arriving
<1>4. Then(ops)
  BY <1>0
<1> HIDE DEF x
<1>5. ops \in Seq(Items) /\ DOMAIN ops = {1} /\ ops[1] = x /\ Ordered(ops, ArrivalOrder)
  BY <1>3, OneItem, OneIsOrdered
<1> HIDE DEF ops
<1>6. \A q \in People : recorded'[q] = IF q = p THEN row ELSE recorded[q]
  BY <1>0 DEF ArrivalInv, RowTypes
<1>7. RowTypes'
  BY <1>0 DEF ArrivalInv, RowTypes
<1>8. \A i \in DOMAIN queue, k \in DOMAIN ops : i > 1 => ComesBefore(queue[i], ops[k])
  BY <1>3, <1>5 DEF ComesBefore, Comers
<1>9. \A q \in People :
        /\ recorded[q] # "arrived" /\ ~Is(queue[1], {"arriveRow"}, q) => recorded'[q] # "arrived"
        /\ Is(queue[1], {"leftRow"}, q) => recorded'[q] # "arrived"
  BY <1>0, <1>1, <1>6 DEF Is
<1>10. \A q \in People :
         /\ \A k \in DOMAIN ops : ~Is(ops[k], {"arriveRow"}, q) /\ ~Is(ops[k], {"arriveUser"}, q)
         /\ home'[q] = "yes" \/ home[q] # "yes"
  BY <1>0, <1>3, <1>5 DEF Is, Comers, Arriving
<1> QED BY <1>1, <1>2, <1>3, <1>4, <1>5, <1>7, <1>8, <1>9, <1>10, ArrivalServed

LEMMA LeftUserArrivals ==
  ASSUME PresenceInv, ArrivalInv, LeftUser
  PROVE  ArrivalInv'
<1> DEFINE p == This.arg
           x == [This EXCEPT !.op = "leftRow"]
           ops == <<x>>
<1>1. /\ PresenceTypes /\ queue # <<>> /\ 1 \in DOMAIN queue /\ This = queue[1]
      /\ queue[1].op = "leftUser" /\ This \in Items
  BY HeadServed DEF LeftUser
<1>2. ~Restarting
  BY NotRestarting DEF LeftUser, Serving
<1>3. Then(ops) /\ home' = [home EXCEPT ![p] = "no"] /\ recorded' = recorded
  BY DEF LeftUser
<1>4. x \in Items /\ x.op = "leftRow" /\ x.arg = p
  BY <1>1 DEF Items, Kinds
<1> HIDE DEF x
<1>5. ops \in Seq(Items) /\ DOMAIN ops = {1} /\ ops[1] = x
  BY <1>4, OneItem
<1> HIDE DEF ops
<1>6. \A k \in DOMAIN ops : ops[k].op \notin Comers
  BY <1>4, <1>5 DEF Comers, Arriving
<1>7. \A q \in People : home'[q] = home[q] \/ \E k \in DOMAIN ops : Is(ops[k], {"leftRow"}, q)
  BY <1>1, <1>3, <1>4, <1>5 DEF PresenceTypes, Is
<1> QED BY <1>1, <1>2, <1>3, <1>5, <1>6, <1>7, ArrivalStands

\* What a sweep goes on with.
LEMMA NextPersonAsks ==
  ASSUME NEW todo \in SUBSET Args, NextPerson(todo)
  PROVE  \/ todo = {} /\ sweep' = NoSweep /\ Then(<<>>)
         \/ \E x \in Items : /\ Then(<<x>>) /\ x.op = "recheck" /\ x.arg \in todo
                             /\ sweep' = [sweep EXCEPT !.todo = todo \ {x.arg}]
<1>1. CASE todo = {}
  BY <1>1 DEF NextPerson, Done
<1>2. CASE todo # {}
  <2>1. PICK p \in todo : /\ sweep' = [sweep EXCEPT !.todo = todo \ {p}]
                          /\ Then(<<Op("recheck", p)>>)
    BY <1>2 DEF NextPerson
  <2> DEFINE x == Op("recheck", p)
  <2>2. x \in Items /\ x.op = "recheck" /\ x.arg = p
    BY OpType DEF Kinds
  <2>3. Then(<<x>>)
    BY <2>1
  <2> HIDE DEF x
  <2> QED BY <2>1, <2>2, <2>3
<1> QED BY <1>1, <1>2

\* The mode and the settings: one more operation of another kind, or none.
ModeKinds == {"readMode", "writeMode", "countAnyone", "leftMode", "setting1", "setting2", "setting3", "recheck"}
LEMMA ModeAsks ==
  ASSUME PresenceInv, ArriveMode \/ CountAnyone \/ LeftMode \/ ReadMode \/ WriteMode \/ Settings
  PROVE  /\ UNCHANGED <<online, leaving, home, recorded, scan>>
         /\ queue # <<>> /\ Head(queue).op \in ModeKinds \cup {"arriveMode"}
         /\ \/ Then(<<>>)
            \/ \E x \in Items : Then(<<x>>) /\ x.op \in ModeKinds
<1>1. UNCHANGED <<online, leaving, home, recorded, scan>>
  BY DEF ArriveMode, CountAnyone, LeftMode, ReadMode, WriteMode, Settings
<1>2. queue # <<>> /\ Head(queue).op \in ModeKinds \cup {"arriveMode"}
  BY DEF ArriveMode, CountAnyone, LeftMode, ReadMode, WriteMode, Settings, Serving, ModeKinds
<1> SUFFICES Then(<<>>) \/ \E x \in Items : Then(<<x>>) /\ x.op \in ModeKinds
  BY <1>1, <1>2
<1>3. PresenceTypes /\ This \in Items
  BY <1>2, HeadServed DEF Serving, PresenceInv
<1>4. sweep.todo \in SUBSET Args /\ ripe \in SUBSET Args
  BY <1>3 DEF PresenceTypes, Sweepings
<1>5. \A k \in ModeKinds : k \in Kinds
  BY DEF ModeKinds, Kinds
<1>6. ASSUME NEW todo \in SUBSET Args, NextPerson(todo)
      PROVE  Then(<<>>) \/ \E x \in Items : Then(<<x>>) /\ x.op \in ModeKinds
  BY <1>6, NextPersonAsks DEF ModeKinds
<1>7. ASSUME EndOfSetMode
      PROVE  Then(<<>>) \/ \E x \in Items : Then(<<x>>) /\ x.op \in ModeKinds
  BY <1>4, <1>6, <1>7 DEF EndOfSetMode, Done
<1>8. ASSUME NEW m \in Modes, NEW caller \in Callers, Then(<<SetMode(m, caller)>>)
      PROVE  \E x \in Items : Then(<<x>>) /\ x.op \in ModeKinds
  BY <1>8, SetModeType DEF ModeKinds
<1>9. ASSUME NEW kind \in ModeKinds, Then(<<[This EXCEPT !.op = kind]>>)
      PROVE  \E x \in Items : Then(<<x>>) /\ x.op \in ModeKinds
  <2> DEFINE x == [This EXCEPT !.op = kind]
  <2>1. x \in Items /\ x.op = kind
    BY <1>3, <1>5 DEF Items
  <2>2. Then(<<x>>)
    BY <1>9
  <2> HIDE DEF x
  <2> QED BY <2>1, <2>2
<1>10. ASSUME NEW kind \in ModeKinds, NEW arg \in Args, Then(<<Op(kind, arg)>>)
       PROVE  \E x \in Items : Then(<<x>>) /\ x.op \in ModeKinds
  <2> DEFINE x == Op(kind, arg)
  <2>1. x \in Items /\ x.op = kind
    BY <1>5, OpType
  <2>2. Then(<<x>>)
    BY <1>10
  <2> HIDE DEF x
  <2> QED BY <2>1, <2>2
<1>11. {"home", "away"} \subseteq Modes /\ {"event", "sweep"} \subseteq Callers
  BY DEF Modes, Callers
<1>12. CASE ArriveMode
  BY <1>8, <1>11, <1>12 DEF ArriveMode
<1>13. CASE CountAnyone
  <2> DEFINE empty == (online = {})
             x == [This EXCEPT !.op = "leftMode", !.carries = empty]
  <2>1. Then(<<x>>)
    BY <1>13 DEF CountAnyone
  <2>2. empty \in BOOLEAN
    OBVIOUS
  <2> HIDE DEF empty
  <2>3. x \in Items /\ x.op = "leftMode"
    BY <1>3, <2>2 DEF Items, Kinds
  <2> HIDE DEF x
  <2> QED BY <2>1, <2>3 DEF ModeKinds
<1>14. CASE LeftMode
  BY <1>4, <1>6, <1>8, <1>11, <1>14 DEF LeftMode
<1>15. CASE ReadMode
  BY <1>7, <1>9, <1>15 DEF ReadMode, ModeKinds
<1>16. CASE WriteMode
  BY <1>7, <1>16 DEF WriteMode
<1>17. CASE Settings
  <2>1. "settings" \in Args /\ \A p \in ripe : p \in Args
    BY <1>4 DEF Args
  <2>2. \/ \E kind \in {"setting2", "setting3"} : Then(<<Op(kind, "settings")>>)
        \/ Then(<<>>)
        \/ \E p \in ripe : Then(<<Op("recheck", p)>>)
    BY <1>17 DEF Settings, Done
  <2> QED BY <1>10, <2>1, <2>2 DEF ModeKinds
<1> QED BY <1>12, <1>13, <1>14, <1>15, <1>16, <1>17

LEMMA ModeArrivals ==
  ASSUME PresenceInv, ArrivalInv,
         ArriveMode \/ CountAnyone \/ LeftMode \/ ReadMode \/ WriteMode \/ Settings
  PROVE  ArrivalInv'
<1>1. \A k \in ModeKinds \cup {"arriveMode"} : k \notin Comers /\ k \notin {"leftRow", "reconcile"}
  BY DEF ModeKinds, Comers, Arriving
<1>2. \A k \in ModeKinds \cup {"arriveMode"} : k # "arriveRow"
  BY DEF ModeKinds
<1> QED BY <1>1, <1>2, ModeAsks, ArrivalOne

LEMMA LeavingArrivals ==
  ASSUME PresenceInv, ArrivalInv, OwnerOffline \/ CountOnline
  PROVE  ArrivalInv'
<1>1. /\ UNCHANGED <<home, recorded>> /\ queue # <<>>
      /\ Head(queue).op \in {"ownerOffline", "countOnline"}
  BY DEF OwnerOffline, CountOnline, Serving
<1>2. This \in Items
  BY <1>1, HeadServed DEF Serving
<1>3. \/ Then(<<>>)
      \/ \E x \in Items : Then(<<x>>) /\ x.op \notin Comers
  <2>1. Op("countOnline", This.arg) \in Items /\ Op("countOnline", This.arg).op = "countOnline"
    BY <1>2, OpType DEF Items, Kinds
  <2>2. Then(<<>>) \/ Then(<<Op("countOnline", This.arg)>>)
    BY DEF OwnerOffline, CountOnline, Done
  <2> QED BY <2>1, <2>2 DEF Comers, Arriving
<1> QED BY <1>1, <1>3, ArrivalOne

LEMMA RecheckArrivals ==
  ASSUME PresenceInv, ArrivalInv, Recheck
  PROVE  ArrivalInv'
<1>1. /\ PresenceTypes /\ queue # <<>> /\ queue[1].op = "recheck" /\ This \in Items
  BY HeadServed DEF Recheck
<1>2. ~Restarting
  BY NotRestarting DEF Recheck, Serving
<1>3. recorded' = recorded /\ \A q \in People : home'[q] \in {home[q], "yes"}
  BY <1>1 DEF Recheck, PresenceTypes
<1>4. \/ Then(<<>>)
      \/ \E x \in Items : Then(<<x>>) /\ x.op \in {"recheck", "leftUser"}
  <2>1. sweep.todo \in SUBSET Args
    BY <1>1 DEF PresenceTypes, Sweepings
  <2>2. Op("leftUser", This.arg) \in Items /\ Op("leftUser", This.arg).op = "leftUser"
    BY <1>1, OpType DEF Items, Kinds
  <2>3. NextPerson(sweep.todo) \/ Then(<<Op("leftUser", This.arg)>>)
    BY DEF Recheck
  <2> QED BY <2>1, <2>2, <2>3, NextPersonAsks
<1>5. CASE Then(<<>>)
  BY <1>1, <1>2, <1>3, <1>5, NoItem, ArrivalStands
<1>6. ASSUME NEW x \in Items, Then(<<x>>), x.op \in {"recheck", "leftUser"}
      PROVE  ArrivalInv'
  <2> DEFINE ops == <<x>>
  <2>1. ops \in Seq(Items) /\ DOMAIN ops = {1} /\ ops[1] = x /\ Then(ops)
    BY <1>6, OneItem
  <2> HIDE DEF ops
  <2>2. \A k \in DOMAIN ops : ops[k].op \notin Comers
    BY <1>6, <2>1 DEF Comers, Arriving
  <2> QED BY <1>1, <1>2, <1>3, <2>1, <2>2, ArrivalStands
<1> QED BY <1>4, <1>5, <1>6

\* Right after a restart the last row says what the devices say.
LEMMA ReconcileArrivals ==
  ASSUME PresenceInv, ArrivalInv, Reconcile
  PROVE  ArrivalInv'
<1> DEFINE seen == {p \in People : Signal(p)}
           r == Tail(queue) \o <<>>
<1>1. /\ PresenceTypes /\ RestartInv
      /\ queue # <<>> /\ queue \in Seq(Items) /\ queue[1].op = "reconcile"
      /\ 1 \in DOMAIN queue /\ DOMAIN queue \subseteq Nat
  BY HeadServed, ServedElements DEF Reconcile
<1>2. /\ home' = [p \in People |-> Cached(p, seen)]
      /\ recorded' = [p \in People |->
                           IF ~Contradicts(p, seen) THEN recorded[p]
                           ELSE IF p \in seen THEN "arrived" ELSE "left"]
  BY DEF Reconcile
<1>3. queue' = r
  BY DEF Reconcile, Done, Then
<1>4. \A j \in DOMAIN queue : j > 1 => queue[j].op = "readMode"
  BY <1>1 DEF RestartInv
<1>5. r \in Seq(Items) /\ \A j \in DOMAIN r : j + 1 \in DOMAIN queue /\ r[j] = queue[j + 1]
  BY <1>1, NoItem, ServedElements
<1>6. \A j \in DOMAIN r : r[j].op = "readMode" /\ r[j] \in Items
  <2>1. \A j \in DOMAIN r : j \in Nat /\ j > 0
    BY <1>5
  <2> QED BY <1>4, <1>5, <2>1
<1> HIDE DEF r
<1>7. RowTypes'
  BY <1>2 DEF ArrivalInv, RowTypes
<1>8. \A j \in DOMAIN r : r[j].op \notin Comers
  BY <1>6 DEF Comers, Arriving
<1>9. Ordered(r, ArrivalOrder)
  <2>1. \A i, j \in DOMAIN r : <<r[i], r[j]>> \in ArrivalOrder
    BY <1>6, <1>8, ArrivalOrderIs DEF ComesBefore, Comers
  <2> QED BY <2>1 DEF Ordered
<1>10. ASSUME NEW p \in People
       PROVE  ArrivalsRecorded(p)'
  <2>1. \A j \in DOMAIN r : ~Is(r[j], {"arriveRow"}, p) /\ ~Is(r[j], {"arriveUser"}, p)
    BY <1>6 DEF Is
  <2>2. home'[p] # "yes" => recorded'[p] # "arrived"
    BY <1>2 DEF Cached, Contradicts, ArrivalInv, RowTypes
  <2>3. Absent(p)' => recorded'[p] # "arrived"
    BY <1>3, <2>1, <2>2 DEF Absent, Is
  <2> DEFINE next == recorded'[p] # "arrived"
             opens == Absent(p)'
  <2>4. opens => next
    BY <2>3
  <2> HIDE DEF next, opens
  <2>5. Rows(r, next, p, {"leftRow"}, {"arriveRow"}, opens)
    BY <2>1, <2>4 DEF Rows, LastSaid
  <2> QED BY <1>3, <2>5 DEF ArrivalsRecorded, next, opens
<1> QED BY <1>3, <1>7, <1>8, <1>9, <1>10 DEF ArrivalInv

LEMMA StartArrivals ==
  ASSUME RowTypes
  PROVE  LET start == <<Op("reconcile", "all")>>
         IN  /\ \A i \in DOMAIN start : start[i].op \notin Comers
             /\ Ordered(start, ArrivalOrder)
             /\ \E i \in DOMAIN start : start[i].op = "reconcile"
<1>1. Op("reconcile", "all") \in Items
  BY OpType DEF Kinds, Args
<1> QED BY <1>1, ReconcileWaits, OneIsOrdered DEF Comers, Arriving

LEMMA InitArrivals == Init => ArrivalInv
  BY StartArrivals DEF Init, ArrivalInv, RowTypes, Restarting

LEMMA CrashArrivals ==
  ASSUME ArrivalInv, Crash
  PROVE  ArrivalInv'
<1>1. RowTypes /\ recorded' = recorded /\ queue' = <<Op("reconcile", "all")>>
  BY DEF Crash, ArrivalInv
<1> QED BY <1>1, StartArrivals DEF ArrivalInv, RowTypes, Restarting

LEMMA AddedArrivals ==
  ASSUME PresenceInv, ArrivalInv,
         \/ Sweep
         \/ \E s \in Scanners, seen \in SUBSET Devices : ScanReports(s, seen)
         \/ \E m \in ManualModes : UserSetsMode(m)
  PROVE  ArrivalInv'
<1>1. UNCHANGED <<home, recorded>> /\ PresenceTypes
  BY DEF Sweep, ScanReports, UserSetsMode, PresenceInv
<1>2. \E x \in Items : queue' = queue \o <<x>> /\ x.op \in {"setting1", "findDevice", "findStale", "readMode"}
  <2>1. CASE Sweep
    <3>1. Op("setting1", "settings") \in Items /\ Op("setting1", "settings").op = "setting1"
      BY OpType DEF Kinds, Args
    <3>2. queue' = queue \o <<Op("setting1", "settings")>>
      BY <1>1, <2>1, <3>1, PublishIsConcat DEF Sweep
    <3> QED BY <3>1, <3>2
  <2>2. ASSUME NEW s \in Scanners, NEW seen \in SUBSET Devices, ScanReports(s, seen)
        PROVE  \E x \in Items : queue' = queue \o <<x>> /\ x.op \in {"findDevice", "findStale"}
    <3>1. PICK next \in NextDevice(s, seen) : queue' = queue \o next
      BY <2>2 DEF ScanReports
    <3> QED BY <3>1, NextDeviceType
  <2>3. ASSUME NEW m \in ManualModes, UserSetsMode(m)
        PROVE  \E x \in Items : queue' = queue \o <<x>> /\ x.op = "readMode"
    <3>1. SetMode(m, "user") \in Items /\ SetMode(m, "user").op = "readMode"
      BY ModesAssumption, SetModeType DEF Modes, Callers
    <3>2. queue' = queue \o <<SetMode(m, "user")>>
      BY <1>1, <2>3, <3>1, PublishIsConcat DEF UserSetsMode
    <3> QED BY <3>1, <3>2
  <2> QED BY <2>1, <2>2, <2>3
<1> QED BY <1>1, <1>2, ArrivalAdded DEF Comers, Arriving

LEMMA ArrivalsKept ==
  ASSUME PresenceInv, ArrivalInv, [Next]_vars
  PROVE  ArrivalInv'
<1>1. CASE Serve
  <2>1. CASE FindDevice \/ Upsert \/ FindStale \/ MarkStale
    BY <2>1, ScanArrivals, UpsertArrivals
  <2>2. CASE OwnerOnline \/ OwnerOffline \/ CountOnline
    BY <2>2, OwnerOnlineArrivals, LeavingArrivals
  <2>3. CASE ArriveUser \/ ArriveRow \/ ArriveMode
    BY <2>3, ArriveUserArrivals, RowArrivals, ModeArrivals
  <2>4. CASE LeftUser \/ LeftRow \/ CountAnyone \/ LeftMode
    BY <2>4, LeftUserArrivals, RowArrivals, ModeArrivals
  <2>5. CASE ReadMode \/ WriteMode \/ Settings \/ Recheck \/ Reconcile
    BY <2>5, ModeArrivals, RecheckArrivals, ReconcileArrivals
  <2> QED BY <1>1, <2>1, <2>2, <2>3, <2>4, <2>5 DEF Serve
<1>2. CASE Crash
  BY <1>2, CrashArrivals
<1>3. CASE \/ Sweep
           \/ \E s \in Scanners, seen \in SUBSET Devices : ScanReports(s, seen)
           \/ \E m \in ManualModes : UserSetsMode(m)
  BY <1>3, AddedArrivals
<1>4. CASE (\E p \in People : GraceEnds(p)) \/ UNCHANGED vars
  <2>1. UNCHANGED <<home, recorded, queue>>
    BY <1>4 DEF GraceEnds, vars
  <2> QED BY <2>1 DEF ArrivalInv, RowTypes, Restarting, ArrivalsRecorded, Absent, Is
<1> QED BY <1>1, <1>2, <1>3, <1>4 DEF Next

LEMMA ArrivalIsNew ==
  ASSUME PresenceInv, ArrivalInv
  PROVE  ArrivalsAlternate
<1> SUFFICES ASSUME queue # <<>>, This.op = "arriveRow"
             PROVE  recorded[This.arg] # "arrived"
  BY DEF ArrivalsAlternate
<1>1. /\ 1 \in DOMAIN queue /\ This = queue[1] /\ queue \in Seq(Items)
      /\ DOMAIN queue \subseteq Nat \ {0} /\ queue[1].op = "arriveRow"
  BY HeadServed, ServedElements DEF Serving, This
<1> DEFINE p == This.arg
           known == recorded[p] # "arrived"
<1>2. p \in People
  BY <1>1 DEF ArrivalInv, Comers
<1>3. ~Restarting
  BY <1>1, NotRestarting DEF This
<1>4. Rows(queue, known, p, {"leftRow"}, {"arriveRow"}, Absent(p))
  BY <1>2, <1>3 DEF ArrivalInv, ArrivalsRecorded
<1> HIDE DEF known
<1>5. LastSaid(queue, known, p, {"leftRow"}, {"arriveRow"}, 1)
  BY <1>1, <1>4 DEF Rows, Is
<1>6. \A k \in DOMAIN queue : ~(k < 1)
  BY <1>1
<1>7. known
  BY <1>5, <1>6 DEF LastSaid
<1> QED BY <1>7 DEF known

\* With one scan at a time nobody is recorded as arrived twice in a row, and an
\* automation on arrivals runs once per arrival, however scans, sweeps,
\* settings, modes and crashes fall between the operations (onEvent and
\* markArrived of presence.service.ts): whoever is not at home, or is on the
\* way in, is not the last one recorded, and the event of an arrival is handled
\* before the scan that told it announces another.
THEOREM ArrivalsAreNew == OneScan => (Spec => []ArrivalsAlternate)
<1> SUFFICES ASSUME OneScan PROVE Spec => []ArrivalsAlternate
  OBVIOUS
<1>1. PresenceInv /\ ArrivalInv => ArrivalsAlternate
  BY ArrivalIsNew
<1>2. PresenceInv /\ [Next]_vars => PresenceInv'
  BY NextInvariant
<1>3. PresenceInv /\ ArrivalInv /\ [Next]_vars => ArrivalInv'
  BY ArrivalsKept
<1> QED BY <1>1, <1>2, <1>3, InitInvariant, InitArrivals, PTL DEF Spec

-----------------------------------------------------------------------------
\* What is in the queue.

\* The queue without its head.
Rest == {queue[i] : i \in DOMAIN queue \ {1}}

LEMMA RestIs ==
  ASSUME PresenceTypes, queue # <<>>
  PROVE  /\ Range(queue) = {queue[1]} \cup Rest
         /\ Range(queue) \subseteq Items /\ queue[1] \in Items /\ Rest \subseteq Items
         /\ \A R : Ordered(queue, R) => \A x \in Rest : <<queue[1], x>> \in R
<1>1. queue \in Seq(Items)
  BY DEF PresenceTypes
<1>2. 1 \in DOMAIN queue /\ \A i \in DOMAIN queue \ {1} : 1 < i
  BY <1>1, ServedElements, NoItem
<1>3. Range(queue) = {queue[1]} \cup Rest
  BY <1>2 DEF Rest, Range
<1>4. Range(queue) \subseteq Items
  <2>1. \A i \in DOMAIN queue : queue[i] \in Items
    BY <1>1
  <2> QED BY <2>1 DEF Range
<1>5. \A R : Ordered(queue, R) => \A x \in Rest : <<queue[1], x>> \in R
  BY <1>2 DEF Ordered, Rest
<1> QED BY <1>3, <1>4, <1>5

LEMMA ServedItems ==
  ASSUME PresenceTypes, queue # <<>>, NEW ops \in Seq(Items), Then(ops)
  PROVE  /\ Range(queue') = Rest \cup Range(ops)
         /\ Range(queue) = {queue[1]} \cup Rest
         /\ Range(queue) \subseteq Items /\ Range(ops) \subseteq Items
         /\ queue[1] \in Items /\ Rest \subseteq Items
         /\ \A R : Ordered(queue, R) => \A x \in Rest : <<queue[1], x>> \in R
<1> DEFINE r == Tail(queue) \o ops
           n == Len(queue)
<1>1. queue \in Seq(Items) /\ queue' = r
  BY DEF PresenceTypes, Then
<1>2. /\ n \in Nat \ {0} /\ DOMAIN queue = 1 .. n /\ DOMAIN r = 1 .. Len(r)
      /\ Len(r) = n - 1 + Len(ops) /\ Len(ops) \in Nat /\ DOMAIN ops = 1 .. Len(ops)
      /\ \A i \in 1 .. n - 1 : r[i] = queue[i + 1]
      /\ \A i \in 1 .. Len(ops) : r[n - 1 + i] = ops[i]
      /\ \A j \in DOMAIN r : \/ j + 1 \in DOMAIN queue /\ r[j] = queue[j + 1]
                             \/ j - n + 1 \in DOMAIN ops /\ r[j] = ops[j - n + 1]
  BY <1>1, ServedElements
<1> HIDE DEF r, n
<1>3. \A j \in DOMAIN r : r[j] \in Rest \cup Range(ops)
  <2>1. ASSUME NEW j \in DOMAIN r
        PROVE  j + 1 # 1
    BY <1>2
  <2> QED BY <1>2, <2>1 DEF Rest, Range
<1>4. \A i \in DOMAIN queue \ {1} : queue[i] \in Range(r)
  <2>1. ASSUME NEW i \in DOMAIN queue \ {1}
        PROVE  i - 1 \in 1 .. n - 1 /\ i - 1 \in DOMAIN r /\ (i - 1) + 1 = i
    BY <1>2
  <2>2. \A i \in DOMAIN queue \ {1} : r[i - 1] = queue[i]
    BY <1>2, <2>1
  <2> QED BY <2>1, <2>2 DEF Range
<1>5. \A k \in DOMAIN ops : ops[k] \in Range(r)
  <2>1. ASSUME NEW k \in DOMAIN ops
        PROVE  n - 1 + k \in DOMAIN r
    BY <1>2
  <2>2. \A k \in DOMAIN ops : r[n - 1 + k] = ops[k]
    BY <1>2
  <2> QED BY <2>1, <2>2 DEF Range
<1>6. Range(r) = Rest \cup Range(ops)
  BY <1>3, <1>4, <1>5 DEF Rest, Range
<1>7. Range(ops) \subseteq Items
  <2>1. \A i \in DOMAIN ops : ops[i] \in Items
    OBVIOUS
  <2> QED BY <2>1 DEF Range
<1> QED BY <1>1, <1>6, <1>7, RestIs

\* The head is served, and what was in one order is in another.
LEMMA OrderMoved ==
  ASSUME PresenceTypes, queue # <<>>, NEW ops \in Seq(Items), Then(ops),
         NEW R, NEW S, Ordered(queue, R), Ordered(ops, S),
         \A x, y \in Rest : <<x, y>> \in R => <<x, y>> \in S,
         \A x \in Rest, y \in Range(ops) : <<x, y>> \in S
  PROVE  Ordered(queue', S)
<1>1. queue \in Seq(Items) /\ queue' = Tail(queue) \o ops
  BY DEF PresenceTypes, Then
<1>2. \A i \in DOMAIN queue : i > 1 => queue[i] \in Rest
  BY <1>1 DEF Rest
<1>3. \A k \in DOMAIN ops : ops[k] \in Range(ops)
  BY DEF Range
<1>4. \A i, j \in DOMAIN queue : i > 1 /\ i < j => <<queue[i], queue[j]>> \in S
  <2>1. ASSUME NEW i \in DOMAIN queue, NEW j \in DOMAIN queue, i > 1, i < j
        PROVE  <<queue[i], queue[j]>> \in S
    <3>1. j > 1
      BY <1>1, <2>1
    <3>2. <<queue[i], queue[j]>> \in R
      BY <2>1 DEF Ordered
    <3> QED BY <1>2, <2>1, <3>1, <3>2
  <2> QED BY <2>1
<1>5. \A i \in DOMAIN queue, k \in DOMAIN ops : i > 1 => <<queue[i], ops[k]>> \in S
  BY <1>2, <1>3
<1> QED BY <1>1, <1>4, <1>5, OrderMoves

LEMMA AddedItems ==
  ASSUME PresenceTypes, NEW x \in Items, queue' = queue \o <<x>>
  PROVE  Range(queue') = Range(queue) \cup {x} /\ Range(queue) \subseteq Items
<1> DEFINE r == queue \o <<x>>
           n == Len(queue)
           ops == <<x>>
<1>1. queue \in Seq(Items) /\ queue' = r /\ r = queue \o ops
  BY DEF PresenceTypes
<1>2. ops \in Seq(Items) /\ DOMAIN ops = {1} /\ ops[1] = x
  BY OneItem
<1> HIDE DEF ops
<1>3. /\ \A i \in DOMAIN queue : i \in DOMAIN r /\ r[i] = queue[i]
      /\ \A j \in DOMAIN r : r[j] = x \/ (j \in DOMAIN queue /\ r[j] = queue[j])
      /\ n + 1 \in DOMAIN r /\ r[n + 1] = x
  BY <1>1, <1>2, AddedOne, AddedElements DEF ops
<1> HIDE DEF r
<1>4. Range(r) = Range(queue) \cup {x}
  BY <1>3 DEF Range
<1>5. \A i \in DOMAIN queue : queue[i] \in Items
  BY <1>1
<1> QED BY <1>1, <1>4, <1>5 DEF Range

LEMMA OrderGrown ==
  ASSUME PresenceTypes, NEW x \in Items, queue' = queue \o <<x>>,
         NEW R, NEW S, Ordered(queue, R),
         \A y, z \in Range(queue) : <<y, z>> \in R => <<y, z>> \in S,
         \A y \in Range(queue) : <<y, x>> \in S
  PROVE  Ordered(queue', S)
<1>1. queue \in Seq(Items)
  BY DEF PresenceTypes
<1>2. \A i \in DOMAIN queue : queue[i] \in Range(queue)
  BY DEF Range
<1>3. Ordered(queue, S)
  BY <1>2 DEF Ordered
<1> QED BY <1>1, <1>2, <1>3, OrderAdded

-----------------------------------------------------------------------------
\* Departures, of one person, or when no report comes while a sweep runs.

OnePerson == \A p, q \in People : p = q

OfSweep(x) ==
  \/ x.op \in {"setting1", "setting2", "setting3", "recheck", "leftUser", "leftRow", "countAnyone", "leftMode"}
  \/ x.op \in {"readMode", "writeMode"} /\ x.call = "sweep"
Goers == {"ownerOffline", "countOnline", "recheck", "leftUser", "leftRow"}

\* One operation of the sweep waits; a person who is told lost is not one the
\* sweep looks at; and a count of devices never waits beside their departure.
Both(x, y, a, b) == x.arg = y.arg /\ x.op = a /\ y.op = b
LeavesBefore(x, y) ==
  /\ ~(OfSweep(x) /\ OfSweep(y))
  /\ ~Both(x, y, "recheck", "ownerOffline") /\ ~Both(x, y, "ownerOffline", "recheck")
  /\ ~Both(x, y, "recheck", "countOnline")
  /\ ~Both(x, y, "leftUser", "countOnline") /\ ~Both(x, y, "countOnline", "leftUser")
  /\ ~Both(x, y, "ownerOffline", "leftUser")
  /\ ~Both(x, y, "countOnline", "ownerOffline")
  /\ ~(x.op \in ScanOps /\ y.op = "ownerOffline")
  /\ ~(x.op = "ownerOffline" /\ y.op = "markStale")
  /\ ~(x.op = "markStale" /\ y.op = "countOnline")
DepartureOrder == {xy \in Items \X Items : LeavesBefore(xy[1], xy[2])}

LEMMA DepartureOrderIs ==
  ASSUME NEW x \in Items, NEW y \in Items
  PROVE  <<x, y>> \in DepartureOrder <=> LeavesBefore(x, y)
  BY DEF DepartureOrder

GoersAre ==
  /\ pending \subseteq People /\ ripe \subseteq pending /\ sweep.todo \subseteq People
  /\ \A x \in Range(queue) : x.op \in Goers => x.arg \in People

\* The sweep's operations are those of a sweep that is on.
SweepIs ==
  /\ sweep.met >= 0 /\ (sweep.todo # {} => sweep.on)
  /\ Restarting => sweep.todo = {}
  /\ \A x \in Range(queue) : OfSweep(x) => sweep.on

\* Whoever is being lost is at home, and only once.
Going == pending \cup sweep.todo
HomeIs ==
  /\ \A p \in Going : home[p] = "yes"
  /\ \A x \in Range(queue) :
       /\ x.op \in {"countOnline", "recheck", "leftUser"} => home[x.arg] = "yes"
       /\ x.op \in {"ownerOffline", "leftUser"} => x.arg \notin Going
       /\ x.op = "recheck" => x.arg \notin sweep.todo
  /\ Restarting \/ \A p \in People : home[p] # "unknown"

\* A scan has seen whatever is online of those who are being lost, and of whom
\* the sweep looks at after it.
SeenBefore(x, y) ==
  x.op \in ScanOps /\ y.op = "recheck" => DevicesOf(y.arg) \cap online \subseteq scan[x.call].seen
SeenOrder == {xy \in Items \X Items : SeenBefore(xy[1], xy[2])}
SeenIs ==
  /\ \A x \in Range(queue) : x.op \in ScanOps =>
       /\ \A p \in Going : DevicesOf(p) \cap online \subseteq scan[x.call].seen
       /\ x.op \in {"findDevice", "upsert"} =>
            x.arg \in scan[x.call].seen /\ scan[x.call].todo \subseteq scan[x.call].seen
  /\ Ordered(queue, SeenOrder)

\* Whoever is back is about to be told so, by a scan that goes on.
BackIs ==
  /\ \A p \in pending : Signal(p) => \E x \in Range(queue) : Is(x, {"ownerOnline"}, p)
  /\ \A x \in Range(queue) : x.op = "ownerOnline" => \E s \in Scanners : scan[s].on

DeparturesRecorded(p) ==
  Rows(queue, recorded[p] # "left", p, {"arriveRow"}, {"leftRow"}, home[p] = "yes")

DepartureInv ==
  /\ RowTypes
  /\ Ordered(queue, DepartureOrder)
  /\ GoersAre /\ SweepIs /\ HomeIs /\ SeenIs /\ BackIs
  /\ Restarting \/ \A p \in People : DeparturesRecorded(p)

\* The timeline of departures when the queue is served.
LEMMA RecordServed ==
  ASSUME NEW p, DeparturesRecorded(p), queue \in Seq(Items), queue # <<>>, NEW ops \in Seq(Items),
         queue' = Tail(queue) \o ops,
         recorded[p] # "left" /\ ~Is(queue[1], {"leftRow"}, p) => recorded'[p] # "left",
         Is(queue[1], {"arriveRow"}, p) => recorded'[p] # "left",
         \/ /\ \A k \in DOMAIN ops : ~Is(ops[k], {"leftRow"}, p)
            /\ \/ home'[p] # "yes"
               \/ home[p] = "yes"
               \/ \E k \in DOMAIN ops : Is(ops[k], {"arriveRow"}, p)
         \/ /\ home[p] = "yes" /\ home'[p] = "no"
            /\ \E x \in Items : ops = <<x>> /\ Is(x, {"leftRow"}, p)
  PROVE  DeparturesRecorded(p)'
<1> DEFINE r == Tail(queue) \o ops
           known == recorded[p] # "left"
           next == recorded'[p] # "left"
           open == home[p] = "yes"
           opens == home'[p] = "yes"
<1>1. SUFFICES Rows(r, next, p, {"arriveRow"}, {"leftRow"}, opens)
  BY DEF DeparturesRecorded
<1>2. /\ Rows(queue, known, p, {"arriveRow"}, {"leftRow"}, open)
      /\ known /\ ~Is(queue[1], {"leftRow"}, p) => next
      /\ Is(queue[1], {"arriveRow"}, p) => next
  BY DEF DeparturesRecorded
<1>3. CASE /\ \A k \in DOMAIN ops : ~Is(ops[k], {"leftRow"}, p)
           /\ \/ home'[p] # "yes"
              \/ home[p] = "yes"
              \/ \E k \in DOMAIN ops : Is(ops[k], {"arriveRow"}, p)
  <2>1. opens => open \/ \E k \in DOMAIN ops : Is(ops[k], {"arriveRow"}, p)
    BY <1>3
  <2> HIDE DEF known, next, open, opens
  <2> QED BY <1>2, <1>3, <2>1, RowsServed
<1>4. CASE /\ home[p] = "yes" /\ home'[p] = "no"
           /\ \E x \in Items : ops = <<x>> /\ Is(x, {"leftRow"}, p)
  <2>1. PICK x \in Items : ops = <<x>> /\ Is(x, {"leftRow"}, p)
    BY <1>4
  <2>2. open /\ ~opens
    BY <1>4
  <2> HIDE DEF known, next, open, opens
  <2>3. Rows(queue, known, p, {"arriveRow"}, {"leftRow"}, TRUE)
    BY <1>2, <2>2 DEF Rows
  <2>4. Rows(r, next, p, {"arriveRow"}, {"leftRow"}, FALSE)
    BY <1>2, <2>1, <2>3, RowsBroken
  <2> QED BY <2>2, <2>4 DEF Rows
<1> QED BY <1>3, <1>4

\* What the queue keeps when its head is served, but for what the scan has seen.
LEMMA DepartureServed ==
  ASSUME PresenceInv, DepartureInv, queue # <<>>, Head(queue).op # "reconcile",
         NEW ops \in Seq(Items), Then(ops), \A y \in Range(ops) : y.op # "reconcile",
         RowTypes',
         Ordered(ops, DepartureOrder),
         \A x \in Rest, y \in Range(ops) : LeavesBefore(x, y),
         pending' \subseteq People, ripe' \subseteq pending', sweep'.todo \subseteq People,
         \A y \in Range(ops) : y.op \in Goers => y.arg \in People,
         sweep'.met >= 0, sweep'.todo # {} => sweep'.on,
         \/ sweep' = sweep /\ \A y \in Range(ops) : OfSweep(y) => OfSweep(queue[1])
         \/ OfSweep(queue[1]) /\ \A y \in Range(ops) : OfSweep(y) => sweep'.on,
         \A q \in People : q \in Going' =>
           q \in Going \/ (home[q] = "yes" /\ \A x \in Rest : ~Is(x, {"ownerOffline", "leftUser"}, q)),
         \A q \in sweep'.todo : q \in sweep.todo \/ \A x \in Rest : x.op # "recheck",
         \A q \in People :
           \/ home'[q] \in {home[q], "yes"}
           \/ /\ home'[q] = "no" /\ q \notin Going'
              /\ \A x \in Rest : ~Is(x, {"countOnline", "recheck", "leftUser"}, q),
         \A y \in Range(ops) :
           /\ y.op \in {"countOnline", "recheck", "leftUser"} => home'[y.arg] = "yes"
           /\ y.op \in {"ownerOffline", "leftUser"} => y.arg \notin Going'
           /\ y.op = "recheck" => y.arg \notin sweep'.todo,
         \A q \in People :
           /\ recorded[q] # "left" /\ ~Is(queue[1], {"leftRow"}, q) => recorded'[q] # "left"
           /\ Is(queue[1], {"arriveRow"}, q) => recorded'[q] # "left"
           /\ \/ /\ \A k \in DOMAIN ops : ~Is(ops[k], {"leftRow"}, q)
                 /\ \/ home'[q] # "yes"
                    \/ home[q] = "yes"
                    \/ \E k \in DOMAIN ops : Is(ops[k], {"arriveRow"}, q)
              \/ /\ home[q] = "yes" /\ home'[q] = "no"
                 /\ \E x \in Items : ops = <<x>> /\ Is(x, {"leftRow"}, q),
         SeenIs', BackIs'
  PROVE  DepartureInv'
<1>1. PresenceTypes /\ RestartInv /\ ~Restarting
  BY NotRestarting DEF PresenceInv
<1>2. /\ Range(queue') = Rest \cup Range(ops) /\ Range(queue) = {queue[1]} \cup Rest
      /\ queue[1] \in Items /\ Rest \subseteq Items /\ Range(ops) \subseteq Items
      /\ \A x \in Rest : <<queue[1], x>> \in DepartureOrder
  BY <1>1, ServedItems DEF DepartureInv
<1>3. /\ Ordered(queue, DepartureOrder) /\ GoersAre /\ SweepIs /\ HomeIs
      /\ \A p \in People : DeparturesRecorded(p)
  BY <1>1 DEF DepartureInv
<1>4. \A x \in Rest : LeavesBefore(queue[1], x)
  BY <1>2, DepartureOrderIs
<1>5. queue \in Seq(Items) /\ queue' = Tail(queue) \o ops
  BY <1>1 DEF PresenceTypes, Then
<1>6. ~Restarting'
  <2>1. \A y \in Range(ops) : y.op # "reconcile"
    OBVIOUS
  <2>2. \A k \in DOMAIN ops : ops[k].op # "reconcile"
    BY <2>1 DEF Range
  <2> QED BY <1>1, <2>2, RestartServed
<1>7. Ordered(queue', DepartureOrder)
  <2>1. \A i \in DOMAIN queue, k \in DOMAIN ops : i > 1 => <<queue[i], ops[k]>> \in DepartureOrder
    <3>1. ASSUME NEW i \in DOMAIN queue, NEW k \in DOMAIN ops, i > 1
          PROVE  <<queue[i], ops[k]>> \in DepartureOrder
      <4>1. queue[i] \in Rest /\ ops[k] \in Range(ops)
        BY <3>1 DEF Rest, Range
      <4>2. queue[i] \in Items /\ ops[k] \in Items
        BY <1>2, <4>1
      <4> QED BY <4>1, <4>2, DepartureOrderIs
    <3> QED BY <3>1
  <2> QED BY <1>3, <1>5, <2>1, OrderServed
<1>8. GoersAre'
  BY <1>2, <1>3 DEF GoersAre
<1>9. SweepIs'
  <2>1. \A x \in Rest : OfSweep(queue[1]) => ~OfSweep(x)
    BY <1>4 DEF LeavesBefore
  <2> QED BY <1>2, <1>3, <1>6, <2>1 DEF SweepIs, OfSweep
<1>10. HomeIs'
  <2>1. \A p \in Going' : home'[p] = "yes"
    BY <1>3, <1>8 DEF HomeIs, GoersAre, Going
  <2>2. ASSUME NEW x \in Rest
        PROVE  /\ x.op \in {"countOnline", "recheck", "leftUser"} => home'[x.arg] = "yes"
               /\ x.op \in {"ownerOffline", "leftUser"} => x.arg \notin Going'
               /\ x.op = "recheck" => x.arg \notin sweep'.todo
    <3>1. /\ x.op \in Goers => x.arg \in People
          /\ x.op \in {"countOnline", "recheck", "leftUser"} => home[x.arg] = "yes"
          /\ x.op \in {"ownerOffline", "leftUser"} => x.arg \notin Going
          /\ x.op = "recheck" => x.arg \notin sweep.todo
      BY <1>2, <1>3 DEF GoersAre, HomeIs
    <3>2. x.op \in {"countOnline", "recheck", "leftUser"} => home'[x.arg] = "yes"
      BY <3>1 DEF Goers, Is
    <3>3. x.op \in {"ownerOffline", "leftUser"} => x.arg \notin Going'
      BY <3>1 DEF Goers, Is
    <3>4. x.op = "recheck" => x.arg \notin sweep'.todo
      BY <3>1
    <3> QED BY <3>2, <3>3, <3>4
  <2>3. \A p \in People : home'[p] # "unknown"
    BY <1>1, <1>3 DEF HomeIs
  <2> QED BY <1>2, <2>1, <2>2, <2>3 DEF HomeIs
<1>11. \A p \in People : DeparturesRecorded(p)'
  <2>1. ASSUME NEW p \in People
        PROVE  DeparturesRecorded(p)'
    <3>1. DeparturesRecorded(p)
      BY <1>3
    <3> QED BY <1>5, <3>1, RecordServed
  <2> QED BY <2>1
<1> QED BY <1>7, <1>8, <1>9, <1>10, <1>11 DEF DepartureInv

LEMMA RangeOne ==
  /\ Range(<<>>) = {}
  /\ \A x \in Items : Range(<<x>>) = {x}
<1>1. Range(<<>>) = {}
  BY NoItem DEF Range
<1>2. ASSUME NEW x \in Items
      PROVE  Range(<<x>>) = {x}
  <2> DEFINE ops == <<x>>
  <2>1. DOMAIN ops = {1} /\ ops[1] = x
    BY OneItem
  <2> HIDE DEF ops
  <2>2. Range(ops) = {x}
    BY <2>1 DEF Range
  <2> QED BY <2>2 DEF ops
<1> QED BY <1>1, <1>2

\* What is known of departures when the head is served.
LEMMA DepartureFacts ==
  ASSUME PresenceInv, DepartureInv, queue # <<>>, Head(queue).op # "reconcile"
  PROVE  /\ PresenceTypes /\ ScanInv /\ EventInv /\ ~Restarting /\ ~(This.op = "reconcile")
         /\ RowTypes /\ GoersAre /\ SweepIs /\ HomeIs /\ SeenIs /\ BackIs
         /\ queue \in Seq(Items) /\ This = queue[1] /\ 1 \in DOMAIN queue
         /\ This \in Items /\ This \in Range(queue) /\ Rest \subseteq Range(queue) /\ Rest \subseteq Items
         /\ \A x \in Rest : LeavesBefore(This, x)
         /\ \A p \in People : home[p] \in {"yes", "no"}
<1>1. /\ PresenceTypes /\ ScanInv /\ EventInv /\ ~Restarting
      /\ RowTypes /\ GoersAre /\ SweepIs /\ HomeIs /\ SeenIs /\ BackIs /\ Ordered(queue, DepartureOrder)
  BY NotRestarting DEF PresenceInv, DepartureInv
<1>2. /\ queue \in Seq(Items) /\ This = queue[1] /\ 1 \in DOMAIN queue
  BY <1>1, HeadServed DEF Serving
<1>3. /\ Range(queue) = {queue[1]} \cup Rest
      /\ queue[1] \in Items /\ Rest \subseteq Items
      /\ \A x \in Rest : <<queue[1], x>> \in DepartureOrder
  BY <1>1, RestIs
<1>4. \A x \in Rest : LeavesBefore(This, x)
  BY <1>2, <1>3, DepartureOrderIs
<1>5. \A p \in People : home[p] \in {"yes", "no"}
  BY <1>1 DEF HomeIs, PresenceTypes
<1> QED BY <1>1, <1>2, <1>3, <1>4, <1>5

\* What the scans before somebody have seen, when the head is served.
LEMMA SeenMoved ==
  ASSUME PresenceTypes, queue # <<>>, Ordered(queue, SeenOrder),
         NEW ops \in Seq(Items), Then(ops),
         \A x \in Rest : x.op \in ScanOps => UNCHANGED <<online, scan>>,
         \A x \in Rest, y \in Range(ops) : SeenBefore(x, y)',
         \A x, y \in Range(ops) : ~(x.op \in ScanOps /\ y.op = "recheck")
  PROVE  Ordered(queue', SeenOrder')
<1>1. Rest \subseteq Items /\ Range(ops) \subseteq Items
  BY ServedItems
<1>2. /\ \A x, y \in Items : <<x, y>> \in SeenOrder <=> SeenBefore(x, y)
      /\ \A x, y \in Items : <<x, y>> \in SeenOrder' <=> SeenBefore(x, y)'
  BY DEF SeenOrder
<1>3. \A x, y \in Rest : <<x, y>> \in SeenOrder => <<x, y>> \in SeenOrder'
  BY <1>1, <1>2 DEF SeenBefore, DevicesOf
<1>4. \A x \in Rest, y \in Range(ops) : <<x, y>> \in SeenOrder'
  BY <1>1, <1>2
<1>5. Ordered(ops, SeenOrder')
  <2>1. \A k \in DOMAIN ops : ops[k] \in Range(ops)
    BY DEF Range
  <2>2. \A x, y \in Range(ops) : SeenBefore(x, y)'
    BY DEF SeenBefore
  <2> QED BY <1>1, <1>2, <2>1, <2>2 DEF Ordered
<1> QED BY <1>3, <1>4, <1>5, OrderMoved

\* ... by a scan: the others have nothing to look at.
LEMMA SeenByScan ==
  ASSUME PresenceTypes, queue # <<>>, Ordered(queue, SeenOrder),
         NEW ops \in Seq(Items), Then(ops),
         \A x \in Rest : x.op \notin ScanOps, \A y \in Range(ops) : y.op # "recheck"
  PROVE  Ordered(queue', SeenOrder')
  BY SeenMoved DEF SeenBefore

\* A step that leaves the devices and the scans alone.
SeenStays(ops) ==
  /\ UNCHANGED <<online, scan>>
  /\ \A y \in Range(ops) : y.op \notin ScanOps \cup {"reconcile", "ownerOnline"}
  /\ \A y \in Range(ops) : y.op = "recheck" => y.arg \in Going
  /\ \A q \in Going' : q \in Going \/ ~Signal(q)
  /\ \A p \in pending' : Signal(p) => p \in pending /\ ~Is(This, {"ownerOnline"}, p)

LEMMA SeenAndBack ==
  ASSUME PresenceInv, DepartureInv, queue # <<>>, Head(queue).op # "reconcile",
         NEW ops \in Seq(Items), Then(ops), SeenStays(ops)
  PROVE  SeenIs' /\ BackIs'
<1>1. /\ PresenceTypes /\ SeenIs /\ BackIs /\ This = queue[1]
  BY DepartureFacts
<1>2. /\ Range(queue') = Rest \cup Range(ops) /\ Range(queue) = {queue[1]} \cup Rest
  BY <1>1, ServedItems
<1>4. \A p : Signal(p)' <=> Signal(p)
  BY DEF SeenStays, Signal, DevicesOf
<1>5. SeenIs'
  <2>1. ASSUME NEW x \in Range(queue'), x.op \in ScanOps
        PROVE  x \in Range(queue)
    BY <1>2, <2>1 DEF SeenStays
  <2>2. \A q \in Going' : q \in Going \/ ~Signal(q)
    BY DEF SeenStays
  <2>3. \A q \in Going' :
           \A x \in Range(queue) : x.op \in ScanOps => DevicesOf(q) \cap online \subseteq scan[x.call].seen
    BY <1>1, <2>2 DEF SeenIs, Signal
  <2>4. online' = online /\ scan' = scan
    BY DEF SeenStays
  <2>5. \A x \in Rest, y \in Range(ops) : SeenBefore(x, y)'
    <3>1. \A y \in Range(ops) : y.op = "recheck" => y.arg \in Going
      BY DEF SeenStays
    <3>2. \A x \in Rest : x.op \in ScanOps => \A p \in Going : DevicesOf(p) \cap online \subseteq scan[x.call].seen
      BY <1>1, <1>2 DEF SeenIs
    <3> QED BY <2>4, <3>1, <3>2 DEF SeenBefore, DevicesOf
  <2>6. \A x, y \in Range(ops) : ~(x.op \in ScanOps /\ y.op = "recheck")
    BY DEF SeenStays
  <2>7. Ordered(queue', SeenOrder')
    BY <1>1, <2>4, <2>5, <2>6, SeenMoved DEF SeenIs
  <2>8. \A x \in Range(queue') : x.op \in ScanOps =>
           /\ \A p \in Going' : DevicesOf(p)' \cap online' \subseteq scan'[x.call].seen
           /\ x.op \in {"findDevice", "upsert"} =>
                x.arg \in scan'[x.call].seen /\ scan'[x.call].todo \subseteq scan'[x.call].seen
    BY <1>1, <2>1, <2>3, <2>4 DEF SeenIs, DevicesOf
  <2> QED BY <2>7, <2>8 DEF SeenIs
<1>6. BackIs'
  <2>1. ASSUME NEW p \in pending', Signal(p)'
        PROVE  \E x \in Range(queue') : Is(x, {"ownerOnline"}, p)
    <3>1. p \in pending /\ Signal(p) /\ ~Is(This, {"ownerOnline"}, p)
      BY <1>4, <2>1 DEF SeenStays
    <3>2. PICK x \in Range(queue) : Is(x, {"ownerOnline"}, p)
      BY <1>1, <3>1 DEF BackIs
    <3> QED BY <1>1, <1>2, <3>1, <3>2
  <2>2. ASSUME NEW x \in Range(queue'), x.op = "ownerOnline"
        PROVE  \E s \in Scanners : scan'[s].on
    <3>1. x \in Range(queue) /\ scan' = scan
      BY <1>2, <2>2 DEF SeenStays
    <3> QED BY <1>1, <2>2, <3>1 DEF BackIs
  <2> QED BY <2>1, <2>2 DEF BackIs
<1> QED BY <1>5, <1>6

\* A step that settles nobody: it changes no departure and no cache, and asks
\* for one more operation or for none.
LEMMA DepartureQuiet ==
  ASSUME PresenceInv, DepartureInv, queue # <<>>, Head(queue).op \notin {"reconcile", "ownerOnline"},
         NEW ops \in Seq(Items), Then(ops), Ordered(ops, DepartureOrder),
         UNCHANGED <<online, leaving, home, scan, sweep>>, RowTypes',
         \A y \in Range(ops) :
           /\ y.op \notin ScanOps \cup {"reconcile", "ownerOnline", "ownerOffline", "recheck", "leftUser", "leftRow"}
           /\ OfSweep(y) => OfSweep(This)
           /\ y.op = "countOnline" => /\ y.arg \in People /\ home[y.arg] = "yes"
                                     /\ This.op = "ownerOffline" /\ This.arg = y.arg,
         \A q \in People :
           /\ recorded[q] # "left" /\ ~Is(This, {"leftRow"}, q) => recorded'[q] # "left"
           /\ Is(This, {"arriveRow"}, q) => recorded'[q] # "left"
  PROVE  DepartureInv'
<1>1. /\ PresenceTypes /\ ~Restarting /\ GoersAre /\ SweepIs /\ HomeIs
      /\ This = queue[1] /\ This \in Range(queue)
      /\ \A x \in Rest : LeavesBefore(This, x)
  BY DepartureFacts
<1>2. Range(ops) \subseteq Items /\ DOMAIN ops = 1 .. Len(ops)
  BY <1>1, ServedItems
<1>3. \A x \in Rest, y \in Range(ops) : LeavesBefore(x, y)
  <2>1. \A x \in Rest, y \in Range(ops) : ~(OfSweep(x) /\ OfSweep(y))
    BY <1>1 DEF LeavesBefore
  <2>2. ASSUME NEW x \in Rest, NEW y \in Range(ops), y.op = "countOnline"
        PROVE  /\ ~Both(x, y, "recheck", "countOnline") /\ ~Both(x, y, "leftUser", "countOnline")
               /\ x.op # "markStale"
    <3>1. LeavesBefore(This, x) /\ This.op = "ownerOffline" /\ This.arg = y.arg
      BY <1>1, <2>2
    <3> QED BY <3>1 DEF LeavesBefore, Both
  <2>3. ASSUME NEW x \in Rest, NEW y \in Range(ops)
        PROVE  /\ y.op # "recheck" /\ y.op # "ownerOffline" /\ y.op # "leftUser" /\ y.op # "markStale"
    BY <2>3 DEF ScanOps
  <2> QED BY <2>1, <2>2, <2>3 DEF LeavesBefore, Both
<1>4. SeenIs' /\ BackIs'
  <2>1. This.op # "ownerOnline"
    BY DEF This
  <2>2. SeenStays(ops)
    BY <2>1 DEF SeenStays, Going, Is, leaving
  <2> QED BY <2>2, SeenAndBack
<1>5. Going' = Going /\ \A q \in People : home'[q] = home[q]
  BY DEF Going, leaving
<1>6. \A k \in DOMAIN ops : ops[k] \in Range(ops)
  BY DEF Range
<1>7. /\ pending' \subseteq People /\ ripe' \subseteq pending' /\ sweep'.todo \subseteq People
      /\ sweep'.met >= 0 /\ (sweep'.todo # {} => sweep'.on)
  BY <1>1 DEF GoersAre, SweepIs, leaving
<1>8. \A y \in Range(ops) :
        /\ y.op \in Goers => y.arg \in People
        /\ y.op \in {"countOnline", "recheck", "leftUser"} => home'[y.arg] = "yes"
        /\ y.op \in {"ownerOffline", "leftUser"} => y.arg \notin Going'
        /\ y.op = "recheck" => y.arg \notin sweep'.todo
        /\ y.op # "reconcile"
        /\ OfSweep(y) => OfSweep(queue[1])
  BY <1>1 DEF Goers
<1>9. \A q \in People, k \in DOMAIN ops : ~Is(ops[k], {"leftRow"}, q)
  BY <1>6 DEF Is
<1> QED
  <2>1. \A q \in People :
           /\ recorded[q] # "left" /\ ~Is(queue[1], {"leftRow"}, q) => recorded'[q] # "left"
           /\ Is(queue[1], {"arriveRow"}, q) => recorded'[q] # "left"
           /\ \A k \in DOMAIN ops : ~Is(ops[k], {"leftRow"}, q)
           /\ home'[q] # "yes" \/ home[q] = "yes"
    BY <1>1, <1>5, <1>9
  <2> QED BY <1>3, <1>4, <1>5, <1>7, <1>8, <2>1, DepartureServed

\* The sweep goes on with somebody, or ends; the person it has just looked at
\* may be pending again.
LEMMA DepartureNext ==
  ASSUME PresenceInv, DepartureInv, queue # <<>>, Head(queue).op # "reconcile", OfSweep(This),
         UNCHANGED <<online, home, recorded, scan>>,
         ripe' \subseteq pending',
         \A q \in pending' :
           \/ q \in pending
           \/ This.op = "recheck" /\ q = This.arg /\ ~Signal(q),
         \/ sweep' = NoSweep /\ Then(<<>>)
         \/ \E x \in Items : /\ Then(<<x>>) /\ x.op = "recheck" /\ x.arg \in Going
                             /\ sweep'.todo \subseteq Going /\ x.arg \notin sweep'.todo
                             /\ sweep'.on /\ sweep'.met = sweep.met
  PROVE  DepartureInv'
<1>1. /\ PresenceTypes /\ ~Restarting /\ RowTypes /\ GoersAre /\ SweepIs /\ HomeIs
      /\ This = queue[1] /\ This \in Range(queue) /\ Rest \subseteq Range(queue)
      /\ \A x \in Rest : LeavesBefore(This, x)
  BY DepartureFacts
<1>2. PICK ops \in Seq(Items) :
        /\ Then(ops) /\ Ordered(ops, DepartureOrder)
        /\ \A y \in Range(ops) : y.op = "recheck" /\ y.arg \in Going /\ y.arg \notin sweep'.todo /\ sweep'.on
        /\ sweep'.todo \subseteq Going /\ sweep'.met >= 0
        /\ sweep'.todo # {} => sweep'.on
  <2>1. CASE sweep' = NoSweep /\ Then(<<>>)
    <3>1. NoSweep.todo = {} /\ NoSweep.met = 0
      BY DEF NoSweep
    <3>2. Range(<<>>) = {} /\ <<>> \in Seq(Items) /\ Ordered(<<>>, DepartureOrder)
      BY RangeOne, NoItem, OneIsOrdered
    <3>3. sweep'.todo = {} /\ sweep'.met >= 0
      BY <2>1, <3>1
    <3> QED BY <2>1, <3>2, <3>3
  <2>2. ASSUME NEW x \in Items, Then(<<x>>), x.op = "recheck", x.arg \in Going,
               sweep'.todo \subseteq Going, x.arg \notin sweep'.todo, sweep'.on, sweep'.met = sweep.met
        PROVE  \E ops \in Seq(Items) :
                 /\ Then(ops) /\ Ordered(ops, DepartureOrder)
                 /\ \A y \in Range(ops) : y.op = "recheck" /\ y.arg \in Going /\ y.arg \notin sweep'.todo /\ sweep'.on
                 /\ sweep'.todo \subseteq Going /\ sweep'.met >= 0
                 /\ sweep'.todo # {} => sweep'.on
    <3> DEFINE ops == <<x>>
    <3>1. ops \in Seq(Items) /\ Range(ops) = {x} /\ Ordered(ops, DepartureOrder) /\ Then(ops)
      BY <2>2, RangeOne, OneItem, OneIsOrdered
    <3>2. sweep'.met >= 0
      BY <1>1, <2>2 DEF SweepIs
    <3> HIDE DEF ops
    <3> QED BY <2>2, <3>1, <3>2
  <2> QED BY <2>1, <2>2
<1>3. Going \subseteq People
  BY <1>1 DEF GoersAre, Going
<1>4. ASSUME NEW q \in pending', q \notin pending
      PROVE  /\ q \in People /\ home[q] = "yes" /\ ~Signal(q)
             /\ \A x \in Rest : ~Is(x, {"ownerOffline", "leftUser"}, q)
  <2>1. This.op = "recheck" /\ q = This.arg /\ ~Signal(q)
    BY <1>4
  <2>2. q \in People /\ home[q] = "yes"
    BY <1>1, <2>1 DEF GoersAre, HomeIs, Goers
  <2>3. ASSUME NEW x \in Rest
        PROVE  ~Is(x, {"ownerOffline", "leftUser"}, q)
    <3>1. LeavesBefore(This, x)
      BY <1>1
    <3> QED BY <2>1, <3>1 DEF LeavesBefore, Both, Is, OfSweep
  <2> QED BY <2>1, <2>2, <2>3
<1>5. \A x \in Rest : ~OfSweep(x)
  BY <1>1 DEF LeavesBefore
<1>6. \A x \in Rest, y \in Range(ops) : LeavesBefore(x, y)
  <2>1. ASSUME NEW x \in Rest, NEW y \in Range(ops), x.op = "ownerOffline"
        PROVE  x.arg # y.arg
    BY <1>1, <1>2, <2>1 DEF HomeIs
  <2>2. \A y \in Range(ops) : y.op = "recheck"
    BY <1>2
  <2> QED BY <1>5, <2>1, <2>2 DEF LeavesBefore, Both
<1>7. \A q \in Going' : q \in Going \/ q \in pending' \ pending
  BY <1>2 DEF Going
<1>8. SeenIs' /\ BackIs'
  <2>1. ~Is(This, {"ownerOnline"}, This.arg) /\ \A p : ~Is(This, {"ownerOnline"}, p)
    BY DEF Is, OfSweep
  <2>2. \A y \in Range(ops) : y.op \notin ScanOps \cup {"reconcile", "ownerOnline"}
    BY <1>2 DEF ScanOps
  <2>3. SeenStays(ops)
    BY <1>2, <1>4, <1>7, <2>1, <2>2 DEF SeenStays
  <2> QED BY <1>2, <2>3, SeenAndBack
<1>9. /\ pending' \subseteq People /\ sweep'.todo \subseteq People
      /\ RowTypes' /\ \A q \in People : home'[q] = home[q] /\ recorded'[q] = recorded[q]
  BY <1>1, <1>2, <1>3, <1>4 DEF GoersAre, RowTypes
<1>10. \A y \in Range(ops) :
        /\ y.op \in Goers => y.arg \in People
        /\ y.op \in {"countOnline", "recheck", "leftUser"} => home'[y.arg] = "yes"
        /\ y.op \in {"ownerOffline", "leftUser"} => y.arg \notin Going'
        /\ y.op = "recheck" => y.arg \notin sweep'.todo
        /\ y.op # "reconcile"
        /\ OfSweep(y) => sweep'.on
  BY <1>1, <1>2, <1>3 DEF HomeIs
<1>11. \A q \in People :
         /\ recorded[q] # "left" /\ ~Is(queue[1], {"leftRow"}, q) => recorded'[q] # "left"
         /\ Is(queue[1], {"arriveRow"}, q) => recorded'[q] # "left"
         /\ \A k \in DOMAIN ops : ~Is(ops[k], {"leftRow"}, q)
         /\ home'[q] # "yes" \/ home[q] = "yes"
  <2>1. \A k \in DOMAIN ops : ops[k] \in Range(ops)
    BY DEF Range
  <2> QED BY <1>1, <1>2, <1>9, <2>1 DEF Is, OfSweep
<1>12. \A q \in People : q \in Going' =>
         q \in Going \/ (home[q] = "yes" /\ \A x \in Rest : ~Is(x, {"ownerOffline", "leftUser"}, q))
  BY <1>4, <1>7
<1>13. \A q \in sweep'.todo : q \in sweep.todo \/ \A x \in Rest : x.op # "recheck"
  BY <1>5 DEF OfSweep
<1> QED BY <1>1, <1>2, <1>6, <1>8, <1>9, <1>10, <1>11, <1>12, <1>13, DepartureServed

\* One more operation, or none, that settles nobody.
LEMMA DepartureAsks ==
  ASSUME PresenceInv, DepartureInv, queue # <<>>, Head(queue).op \notin {"reconcile", "ownerOnline"},
         UNCHANGED <<online, leaving, home, scan, sweep>>, RowTypes',
         \A q \in People :
           /\ recorded[q] # "left" /\ ~Is(This, {"leftRow"}, q) => recorded'[q] # "left"
           /\ Is(This, {"arriveRow"}, q) => recorded'[q] # "left",
         \/ Then(<<>>)
         \/ \E x \in Items :
              /\ Then(<<x>>)
              /\ x.op \in {"setting2", "setting3", "countAnyone", "leftMode", "readMode", "writeMode",
                           "arriveMode", "countOnline"}
              /\ OfSweep(x) => OfSweep(This)
              /\ x.op = "countOnline" => /\ x.arg \in People /\ home[x.arg] = "yes"
                                         /\ This.op = "ownerOffline" /\ This.arg = x.arg
  PROVE  DepartureInv'
<1>1. CASE Then(<<>>)
  <2>1. Range(<<>>) = {} /\ <<>> \in Seq(Items) /\ Ordered(<<>>, DepartureOrder)
    BY RangeOne, NoItem, OneIsOrdered
  <2> QED BY <1>1, <2>1, DepartureQuiet
<1>2. ASSUME NEW x \in Items, Then(<<x>>),
             x.op \in {"setting2", "setting3", "countAnyone", "leftMode", "readMode", "writeMode",
                       "arriveMode", "countOnline"},
             OfSweep(x) => OfSweep(This),
             x.op = "countOnline" => /\ x.arg \in People /\ home[x.arg] = "yes"
                                     /\ This.op = "ownerOffline" /\ This.arg = x.arg
      PROVE  DepartureInv'
  <2> DEFINE ops == <<x>>
  <2>1. ops \in Seq(Items) /\ Range(ops) = {x} /\ Ordered(ops, DepartureOrder) /\ Then(ops)
    BY <1>2, RangeOne, OneItem, OneIsOrdered
  <2>2. x.op \notin ScanOps \cup {"reconcile", "ownerOnline", "ownerOffline", "recheck", "leftUser", "leftRow"}
    BY <1>2 DEF ScanOps
  <2> HIDE DEF ops
  <2> QED BY <1>2, <2>1, <2>2, DepartureQuiet
<1> QED BY <1>1, <1>2

LEMMA SweepGoes ==
  ASSUME PresenceInv, DepartureInv, queue # <<>>, Head(queue).op # "reconcile", OfSweep(This),
         NextPerson(sweep.todo)
  PROVE  \/ sweep' = NoSweep /\ Then(<<>>)
         \/ \E x \in Items : /\ Then(<<x>>) /\ x.op = "recheck" /\ x.arg \in Going
                             /\ sweep'.todo \subseteq Going /\ x.arg \notin sweep'.todo
                             /\ sweep'.on /\ sweep'.met = sweep.met
<1>1. /\ PresenceTypes /\ SweepIs /\ This \in Range(queue)
  BY DepartureFacts
<1>2. sweep.on /\ sweep \in Sweepings /\ sweep.todo \in SUBSET Args
  BY <1>1 DEF SweepIs, PresenceTypes, Sweepings
<1>3. CASE sweep' = NoSweep /\ Then(<<>>)
  BY <1>3
<1>4. ASSUME NEW x \in Items, Then(<<x>>), x.op = "recheck", x.arg \in sweep.todo,
             sweep' = [sweep EXCEPT !.todo = sweep.todo \ {x.arg}]
      PROVE  /\ x.arg \in Going /\ sweep'.todo \subseteq Going /\ x.arg \notin sweep'.todo
             /\ sweep'.on /\ sweep'.met = sweep.met
  BY <1>2, <1>4 DEF Sweepings, Going
<1> QED BY <1>2, <1>3, <1>4, NextPersonAsks

LEMMA NextPersonDepartures ==
  ASSUME PresenceInv, DepartureInv, queue # <<>>, Head(queue).op # "reconcile", OfSweep(This),
         UNCHANGED <<online, leaving, home, recorded, scan>>, NextPerson(sweep.todo)
  PROVE  DepartureInv'
<1>1. ripe' \subseteq pending' /\ pending' = pending
  <2>1. GoersAre
    BY DEF DepartureInv
  <2> QED BY <2>1 DEF leaving, GoersAre
<1> QED BY <1>1, SweepGoes, DepartureNext

LEMMA RowDepartures ==
  ASSUME PresenceInv, DepartureInv, ArriveRow \/ LeftRow
  PROVE  DepartureInv'
<1> DEFINE p == This.arg
<1>0. PICK kind \in {"arriveRow", "leftRow"}, next \in {"arriveMode", "countAnyone"}, row \in {"arrived", "left"} :
        /\ Serving(kind) /\ Then(<<[This EXCEPT !.op = next]>>)
        /\ recorded' = [recorded EXCEPT ![p] = row]
        /\ IF kind = "leftRow" THEN next = "countAnyone" ELSE row = "arrived" /\ next = "arriveMode"
        /\ UNCHANGED <<online, leaving, home, scan, sweep>>
  BY DEF ArriveRow, LeftRow
<1>1. /\ queue # <<>> /\ This.op = kind /\ Head(queue).op = kind /\ This \in Items
  BY <1>0, HeadServed DEF Serving
<1> DEFINE x == [This EXCEPT !.op = next]
<1>2. x \in Items /\ x.op = next
  BY <1>1 DEF Items, Kinds
<1>3. Then(<<x>>)
  BY <1>0
<1> HIDE DEF x
<1>4. RowTypes /\ RowTypes'
  BY <1>0 DEF DepartureInv, RowTypes
<1>5. \A q \in People : recorded'[q] = IF q = p THEN row ELSE recorded[q]
  BY <1>0, <1>4 DEF RowTypes
<1>6. \A q \in People :
        /\ recorded[q] # "left" /\ ~Is(This, {"leftRow"}, q) => recorded'[q] # "left"
        /\ Is(This, {"arriveRow"}, q) => recorded'[q] # "left"
  BY <1>0, <1>1, <1>5 DEF Is
<1>7. OfSweep(x) => OfSweep(This)
  BY <1>0, <1>1, <1>2 DEF OfSweep
<1> QED BY <1>0, <1>1, <1>2, <1>3, <1>4, <1>6, <1>7, DepartureAsks

LEMMA OwnerOfflineDepartures ==
  ASSUME PresenceInv, DepartureInv, OwnerOffline
  PROVE  DepartureInv'
<1> DEFINE p == This.arg
           x == Op("countOnline", p)
<1>1. /\ queue # <<>> /\ This.op = "ownerOffline" /\ Head(queue).op = "ownerOffline" /\ This \in Items
  BY HeadServed DEF Serving, OwnerOffline
<1>2. /\ GoersAre /\ RowTypes /\ This \in Range(queue) /\ \A q \in People : home[q] \in {"yes", "no"}
  BY <1>1, DepartureFacts
<1>3. p \in People
  BY <1>1, <1>2 DEF GoersAre, Goers
<1>4. x \in Items /\ x.op = "countOnline" /\ x.arg = p
  BY <1>1, OpType DEF Items, Kinds
<1>5. (home[p] = "yes" /\ Then(<<x>>)) \/ Then(<<>>)
  BY <1>2, <1>3 DEF OwnerOffline
<1>6. UNCHANGED <<online, leaving, home, recorded, scan, sweep>>
  BY DEF OwnerOffline
<1>7. RowTypes'
  BY <1>2, <1>6 DEF RowTypes
<1>8. \A q \in People : ~Is(This, {"arriveRow"}, q) /\ recorded'[q] = recorded[q]
  BY <1>1, <1>6 DEF Is
<1> HIDE DEF x
<1>9. ~OfSweep(x)
  BY <1>4 DEF OfSweep
<1> QED BY <1>1, <1>3, <1>4, <1>5, <1>6, <1>7, <1>8, <1>9, DepartureAsks

\* One more operation, or none, about the person whose turn it is: what
\* DepartureServed asks, when the sweep and the rows stay as they are.
LEMMA DepartureOne ==
  ASSUME PresenceInv, DepartureInv, queue # <<>>, Head(queue).op \notin {"reconcile", "arriveRow", "leftRow"},
         UNCHANGED <<online, scan, sweep, recorded>>,
         NEW ops \in Seq(Items), Then(ops), Ordered(ops, DepartureOrder),
         \A y \in Range(ops) :
           /\ y.op \in {"arriveUser", "arriveRow", "leftUser", "leftRow"}
           /\ y.op \in {"leftUser", "leftRow"} => OfSweep(This) /\ y.arg \in People
           /\ y.op = "leftUser" => /\ home'[y.arg] = "yes" /\ y.arg \notin Going'
                                   /\ This.op = "recheck" /\ y.arg = This.arg,
         pending' \subseteq People, ripe' \subseteq pending',
         \A q \in pending' :
           /\ Signal(q) => q \in pending /\ ~Is(This, {"ownerOnline"}, q)
           /\ \/ q \in pending
              \/ home[q] = "yes" /\ \A x \in Rest : ~Is(x, {"ownerOffline", "leftUser"}, q),
         \A q \in People :
           \/ home'[q] = home[q] /\ \A k \in DOMAIN ops : ~Is(ops[k], {"leftRow"}, q)
           \/ /\ home'[q] = "yes" /\ (\A k \in DOMAIN ops : ~Is(ops[k], {"leftRow"}, q))
              /\ \E k \in DOMAIN ops : Is(ops[k], {"arriveRow"}, q)
           \/ /\ home[q] = "yes" /\ home'[q] = "no" /\ q \notin Going'
              /\ \A x \in Rest : ~Is(x, {"countOnline", "recheck", "leftUser"}, q)
              /\ \E x \in Items : ops = <<x>> /\ Is(x, {"leftRow"}, q)
  PROVE  DepartureInv'
<1>1. /\ PresenceTypes /\ ~Restarting /\ RowTypes /\ GoersAre /\ SweepIs /\ HomeIs
      /\ This = queue[1] /\ This \in Range(queue) /\ Rest \subseteq Range(queue)
      /\ \A x \in Rest : LeavesBefore(This, x)
  BY DepartureFacts
<1>2. \A k \in DOMAIN ops : ops[k] \in Range(ops)
  BY DEF Range
<1>3. \A x \in Rest, y \in Range(ops) : LeavesBefore(x, y)
  <2>1. \A x \in Rest, y \in Range(ops) : ~(OfSweep(x) /\ OfSweep(y))
    BY <1>1 DEF LeavesBefore, OfSweep
  <2>2. ASSUME NEW x \in Rest, NEW y \in Range(ops), y.op = "leftUser"
        PROVE  ~Both(x, y, "countOnline", "leftUser") /\ ~Both(x, y, "ownerOffline", "leftUser")
    <3>1. LeavesBefore(This, x) /\ This.op = "recheck" /\ This.arg = y.arg
      BY <1>1, <2>2
    <3> QED BY <3>1 DEF LeavesBefore, Both
  <2>3. ASSUME NEW y \in Range(ops)
        PROVE  y.op \notin {"recheck", "ownerOffline", "countOnline", "markStale"}
    BY <2>3
  <2> QED BY <2>1, <2>2, <2>3 DEF LeavesBefore, Both
<1>4. \A q \in Going' : q \in Going \/ (q \in pending' /\ q \notin pending)
  BY DEF Going
<1>5. SeenIs' /\ BackIs'
  <2>1. \A y \in Range(ops) : y.op \notin ScanOps \cup {"reconcile", "ownerOnline", "recheck"}
    BY DEF ScanOps
  <2>2. SeenStays(ops)
    BY <1>4, <2>1 DEF SeenStays
  <2> QED BY <2>2, SeenAndBack
<1>6. /\ sweep'.todo \subseteq People /\ sweep'.met >= 0 /\ (sweep'.todo # {} => sweep'.on) /\ RowTypes'
  BY <1>1 DEF GoersAre, SweepIs, RowTypes
<1>7. \A q \in People : q \in Going' =>
         q \in Going \/ (home[q] = "yes" /\ \A x \in Rest : ~Is(x, {"ownerOffline", "leftUser"}, q))
  BY <1>4
<1>8. \A q \in People :
         \/ home'[q] \in {home[q], "yes"}
         \/ /\ home'[q] = "no" /\ q \notin Going'
            /\ \A x \in Rest : ~Is(x, {"countOnline", "recheck", "leftUser"}, q)
  OBVIOUS
<1>9. \A y \in Range(ops) :
        /\ y.op \in Goers => y.arg \in People
        /\ y.op \in {"countOnline", "recheck", "leftUser"} => home'[y.arg] = "yes"
        /\ y.op \in {"ownerOffline", "leftUser"} => y.arg \notin Going'
        /\ y.op = "recheck" => y.arg \notin sweep'.todo
        /\ y.op # "reconcile"
        /\ OfSweep(y) => OfSweep(queue[1])
  BY <1>1 DEF Goers, OfSweep
<1>10. \A q \in People :
           /\ recorded[q] # "left" /\ ~Is(queue[1], {"leftRow"}, q) => recorded'[q] # "left"
           /\ Is(queue[1], {"arriveRow"}, q) => recorded'[q] # "left"
  BY <1>1 DEF Is
<1>11. \A q \in People :
           \/ /\ \A k \in DOMAIN ops : ~Is(ops[k], {"leftRow"}, q)
              /\ \/ home'[q] # "yes"
                 \/ home[q] = "yes"
                 \/ \E k \in DOMAIN ops : Is(ops[k], {"arriveRow"}, q)
           \/ /\ home[q] = "yes" /\ home'[q] = "no"
              /\ \E x \in Items : ops = <<x>> /\ Is(x, {"leftRow"}, q)
  <2>1. ASSUME NEW q \in People, home'[q] = home[q]
        PROVE  home'[q] # "yes" \/ home[q] = "yes"
    BY <2>1
  <2> QED BY <2>1
<1> QED BY <1>3, <1>5, <1>6, <1>7, <1>8, <1>9, <1>10, <1>11, DepartureServed

LEMMA OwnerOnlineDepartures ==
  ASSUME PresenceInv, DepartureInv, OwnerOnline
  PROVE  DepartureInv'
<1> DEFINE p == This.arg
           x == Op("arriveUser", p)
<1>1. /\ queue # <<>> /\ This.op = "ownerOnline" /\ Head(queue).op = "ownerOnline" /\ This \in Items
  BY HeadServed DEF Serving, OwnerOnline
<1>2. GoersAre
  BY DEF DepartureInv
<1>3. x \in Items /\ x.op = "arriveUser"
  BY <1>1, OpType DEF Items, Kinds
<1>4. Then(<<x>>) \/ Then(<<>>)
  BY DEF OwnerOnline
<1>5. /\ pending' = pending \ {p} /\ ripe' = ripe \ {p}
      /\ UNCHANGED <<online, home, recorded, scan, sweep>>
  BY DEF OwnerOnline, NoLongerPending
<1> HIDE DEF x
<1>6. PICK ops \in Seq(Items) :
        /\ Then(ops) /\ Ordered(ops, DepartureOrder)
        /\ \A y \in Range(ops) : y.op = "arriveUser"
  <2>1. CASE Then(<<x>>)
    <3> DEFINE ops == <<x>>
    <3>1. ops \in Seq(Items) /\ Range(ops) = {x} /\ Ordered(ops, DepartureOrder) /\ Then(ops)
      BY <1>3, <2>1, RangeOne, OneItem, OneIsOrdered
    <3> HIDE DEF ops
    <3> QED BY <1>3, <3>1
  <2>2. CASE Then(<<>>)
    <3>1. Range(<<>>) = {} /\ <<>> \in Seq(Items) /\ Ordered(<<>>, DepartureOrder)
      BY RangeOne, NoItem, OneIsOrdered
    <3> QED BY <2>2, <3>1
  <2> QED BY <1>4, <2>1, <2>2
<1>7. \A q \in People : home'[q] = home[q] /\ \A k \in DOMAIN ops : ~Is(ops[k], {"leftRow"}, q)
  <2>1. \A k \in DOMAIN ops : ops[k] \in Range(ops)
    BY DEF Range
  <2> QED BY <1>5, <1>6, <2>1 DEF Is
<1>8. /\ pending' \subseteq People /\ ripe' \subseteq pending'
      /\ \A q \in pending' : q \in pending /\ ~Is(This, {"ownerOnline"}, q)
  BY <1>2, <1>5 DEF GoersAre, Is
<1> QED BY <1>1, <1>5, <1>6, <1>7, <1>8, DepartureOne

LEMMA CountOnlineDepartures ==
  ASSUME PresenceInv, DepartureInv, CountOnline
  PROVE  DepartureInv'
<1> DEFINE p == This.arg
<1>1. /\ queue # <<>> /\ This.op = "countOnline" /\ Head(queue).op = "countOnline"
  BY HeadServed DEF Serving, CountOnline
<1>2. /\ GoersAre /\ HomeIs /\ This \in Range(queue) /\ \A x \in Rest : LeavesBefore(This, x)
  BY <1>1, DepartureFacts
<1>3. p \in People /\ home[p] = "yes"
  BY <1>1, <1>2 DEF GoersAre, HomeIs, Goers
<1>4. /\ \/ pending' = pending
         \/ pending' = pending \cup {p} /\ ~Signal(p)
      /\ ripe' = ripe
  BY DEF CountOnline, StillOnline, leaving
<1>5. UNCHANGED <<online, home, recorded, scan, sweep>> /\ Then(<<>>)
  BY DEF CountOnline, Done
<1>6. <<>> \in Seq(Items) /\ Range(<<>>) = {} /\ Ordered(<<>>, DepartureOrder)
  BY NoItem, RangeOne, OneIsOrdered
<1>7. pending' \subseteq People /\ ripe' \subseteq pending'
  BY <1>2, <1>3, <1>4 DEF GoersAre
<1>8. ASSUME NEW q \in pending'
      PROVE  /\ Signal(q) => q \in pending /\ ~Is(This, {"ownerOnline"}, q)
             /\ q \in pending \/ (home[q] = "yes" /\ \A x \in Rest : ~Is(x, {"ownerOffline", "leftUser"}, q))
  <2>1. \A x \in Rest : ~Is(x, {"ownerOffline", "leftUser"}, p)
    BY <1>1, <1>2 DEF LeavesBefore, Both, Is
  <2>2. q \in pending \/ (q = p /\ ~Signal(p))
    BY <1>4
  <2> QED BY <1>1, <1>3, <2>1, <2>2 DEF Is
<1> DEFINE ops == <<>>
<1>9. \A q \in People : home'[q] = home[q] /\ \A k \in DOMAIN ops : ~Is(ops[k], {"leftRow"}, q)
  BY <1>5, NoItem
<1>10. ops \in Seq(Items) /\ Range(ops) = {} /\ Ordered(ops, DepartureOrder) /\ Then(ops)
  BY <1>5, <1>6
<1> HIDE DEF ops
<1> QED BY <1>1, <1>5, <1>7, <1>8, <1>9, <1>10, DepartureOne

LEMMA ArriveUserDepartures ==
  ASSUME PresenceInv, DepartureInv, ArriveUser
  PROVE  DepartureInv'
<1> DEFINE p == This.arg
           x == [This EXCEPT !.op = "arriveRow"]
           ops == <<x>>
<1>1. /\ queue # <<>> /\ This.op = "arriveUser" /\ Head(queue).op = "arriveUser" /\ This \in Items
  BY HeadServed DEF Serving, ArriveUser
<1>2. GoersAre /\ PresenceTypes
  BY <1>1, DepartureFacts
<1>3. x \in Items /\ x.op = "arriveRow" /\ x.arg = p
  BY <1>1 DEF Items, Kinds
<1>4. Then(ops)
  BY DEF ArriveUser
<1>5. /\ home' = [home EXCEPT ![p] = "yes"]
      /\ UNCHANGED <<online, leaving, recorded, scan, sweep>>
  BY DEF ArriveUser
<1> HIDE DEF x
<1>6. ops \in Seq(Items) /\ Range(ops) = {x} /\ Ordered(ops, DepartureOrder) /\ DOMAIN ops = {1} /\ ops[1] = x
  BY <1>3, RangeOne, OneItem, OneIsOrdered
<1> HIDE DEF ops
<1>7. \A q \in People :
        /\ \A k \in DOMAIN ops : ~Is(ops[k], {"leftRow"}, q)
        /\ home'[q] = home[q] \/ (home'[q] = "yes" /\ \E k \in DOMAIN ops : Is(ops[k], {"arriveRow"}, q))
  BY <1>2, <1>3, <1>5, <1>6 DEF Is, PresenceTypes
<1>8. /\ pending' \subseteq People /\ ripe' \subseteq pending'
      /\ \A q \in pending' : q \in pending /\ ~Is(This, {"ownerOnline"}, q)
  BY <1>1, <1>2, <1>5 DEF GoersAre, Is, leaving
<1>9. \A y \in Range(ops) : y.op = "arriveRow"
  BY <1>3, <1>6
<1> QED BY <1>1, <1>4, <1>5, <1>6, <1>7, <1>8, <1>9, DepartureOne

LEMMA LeftUserDepartures ==
  ASSUME PresenceInv, DepartureInv, LeftUser
  PROVE  DepartureInv'
<1> DEFINE p == This.arg
           x == [This EXCEPT !.op = "leftRow"]
           ops == <<x>>
<1>1. /\ queue # <<>> /\ This.op = "leftUser" /\ Head(queue).op = "leftUser" /\ This \in Items
  BY HeadServed DEF Serving, LeftUser
<1>2. /\ GoersAre /\ PresenceTypes /\ HomeIs /\ This \in Range(queue)
      /\ \A y \in Rest : LeavesBefore(This, y)
  BY <1>1, DepartureFacts
<1>3. x \in Items /\ x.op = "leftRow" /\ x.arg = p
  BY <1>1 DEF Items, Kinds
<1>4. Then(ops)
  BY DEF LeftUser
<1>5. /\ home' = [home EXCEPT ![p] = "no"]
      /\ UNCHANGED <<online, leaving, recorded, scan, sweep>>
  BY DEF LeftUser
<1> HIDE DEF x
<1>6. /\ ops \in Seq(Items) /\ Range(ops) = {x} /\ Ordered(ops, DepartureOrder)
      /\ DOMAIN ops = {1} /\ ops[1] = x /\ ops = <<x>>
  BY <1>3, RangeOne, OneItem, OneIsOrdered
<1> HIDE DEF ops
<1>7. p \in People /\ home[p] = "yes" /\ p \notin Going /\ Going' = Going /\ OfSweep(This)
  BY <1>1, <1>2, <1>5 DEF GoersAre, Goers, HomeIs, Going, leaving, OfSweep
<1>8. \A y \in Rest : ~Is(y, {"countOnline", "recheck", "leftUser"}, p)
  BY <1>1, <1>2, <1>7 DEF LeavesBefore, Both, Is, OfSweep
<1>9. \A q \in People :
        \/ home'[q] = home[q] /\ \A k \in DOMAIN ops : ~Is(ops[k], {"leftRow"}, q)
        \/ /\ home[q] = "yes" /\ home'[q] = "no" /\ q \notin Going'
           /\ \A y \in Rest : ~Is(y, {"countOnline", "recheck", "leftUser"}, q)
           /\ \E y \in Items : ops = <<y>> /\ Is(y, {"leftRow"}, q)
  <2>1. ASSUME NEW q \in People, q # p
        PROVE  home'[q] = home[q] /\ \A k \in DOMAIN ops : ~Is(ops[k], {"leftRow"}, q)
    BY <1>2, <1>3, <1>5, <1>6, <2>1 DEF Is, PresenceTypes
  <2>2. home'[p] = "no" /\ Is(x, {"leftRow"}, p)
    BY <1>2, <1>3, <1>5, <1>7 DEF Is, PresenceTypes
  <2> QED BY <1>3, <1>6, <1>7, <1>8, <2>1, <2>2
<1>10. /\ pending' \subseteq People /\ ripe' \subseteq pending'
       /\ \A q \in pending' : q \in pending /\ ~Is(This, {"ownerOnline"}, q)
  BY <1>1, <1>2, <1>5 DEF GoersAre, Is, leaving
<1>11. \A y \in Range(ops) : y.op = "leftRow" /\ y.arg \in People
  BY <1>3, <1>6, <1>7
<1> QED BY <1>1, <1>4, <1>5, <1>6, <1>7, <1>9, <1>10, <1>11, DepartureOne

LEMMA RecheckDepartures ==
  ASSUME PresenceInv, DepartureInv, Recheck
  PROVE  DepartureInv'
<1> DEFINE p == This.arg
<1>1. /\ queue # <<>> /\ This.op = "recheck" /\ Head(queue).op = "recheck" /\ This \in Items /\ OfSweep(This)
  BY HeadServed DEF Serving, Recheck, OfSweep
<1>2. /\ GoersAre /\ PresenceTypes /\ HomeIs /\ This \in Range(queue)
      /\ \A y \in Rest : LeavesBefore(This, y)
  BY <1>1, DepartureFacts
<1>3. p \in People /\ home[p] = "yes" /\ p \notin sweep.todo
  BY <1>1, <1>2 DEF GoersAre, Goers, HomeIs
<1>4. UNCHANGED <<online, recorded, scan>>
  BY DEF Recheck
<1>5. CASE /\ NextPerson(sweep.todo) /\ home' = home
           /\ \/ pending' = pending \ {p} /\ ripe' = ripe \ {p}
              \/ pending' = pending /\ ripe' = ripe
              \/ pending' = pending \cup {p} /\ ripe' = ripe \cup {p} /\ ~Signal(p)
  <2>1. ripe' \subseteq pending' /\ \A q \in pending' : q \in pending \/ (q = p /\ ~Signal(p))
    BY <1>2, <1>5 DEF GoersAre
  <2> QED BY <1>1, <1>4, <1>5, <2>1, SweepGoes, DepartureNext
<1>6. CASE /\ pending' = pending \ {p} /\ ripe' = ripe \ {p}
           /\ Then(<<Op("leftUser", p)>>) /\ UNCHANGED <<home, sweep>>
  <2> DEFINE x == Op("leftUser", p)
             ops == <<x>>
  <2>1. x \in Items /\ x.op = "leftUser" /\ x.arg = p
    BY <1>1, OpType DEF Items, Kinds
  <2>2. Then(ops)
    BY <1>6
  <2> HIDE DEF x
  <2>3. ops \in Seq(Items) /\ Range(ops) = {x} /\ Ordered(ops, DepartureOrder)
    BY <2>1, RangeOne, OneItem, OneIsOrdered
  <2> HIDE DEF ops
  <2>4. \A k \in DOMAIN ops : ops[k] \in Range(ops)
    BY DEF Range
  <2>5. \A q \in People : home'[q] = home[q] /\ \A k \in DOMAIN ops : ~Is(ops[k], {"leftRow"}, q)
    BY <1>6, <2>1, <2>3, <2>4 DEF Is
  <2>6. \A y \in Range(ops) :
          /\ y.op = "leftUser" /\ y.arg = p /\ y.arg \in People
          /\ home'[y.arg] = "yes" /\ y.arg \notin Going'
    BY <1>3, <1>6, <2>1, <2>3 DEF Going
  <2>7. /\ pending' \subseteq People /\ ripe' \subseteq pending'
        /\ \A q \in pending' : q \in pending /\ ~Is(This, {"ownerOnline"}, q)
    BY <1>1, <1>2, <1>6 DEF GoersAre, Is
  <2> QED BY <1>1, <1>4, <1>6, <2>2, <2>3, <2>5, <2>6, <2>7, DepartureOne
<1>7. [home EXCEPT ![p] = "yes"] = home
  BY <1>2, <1>3 DEF PresenceTypes
<1> QED BY <1>5, <1>6, <1>7 DEF Recheck, NoLongerPending, leaving, BackAgain

LEMMA ModeDepartures ==
  ASSUME PresenceInv, DepartureInv,
         ArriveMode \/ CountAnyone \/ LeftMode \/ ReadMode \/ WriteMode
  PROVE  DepartureInv'
<1>1. /\ UNCHANGED <<online, leaving, home, recorded, scan>> /\ queue # <<>>
      /\ Head(queue).op \in {"arriveMode", "countAnyone", "leftMode", "readMode", "writeMode"}
  BY DEF ArriveMode, CountAnyone, LeftMode, ReadMode, WriteMode, Serving
<1>2. PresenceTypes /\ RowTypes /\ This \in Items
  BY <1>1, DepartureFacts
<1>3. /\ RowTypes'
      /\ \A q \in People :
           /\ recorded[q] # "left" /\ ~Is(This, {"leftRow"}, q) => recorded'[q] # "left"
           /\ Is(This, {"arriveRow"}, q) => recorded'[q] # "left"
  BY <1>1, <1>2 DEF RowTypes, Is, This
<1>4. ASSUME OfSweep(This), NextPerson(sweep.todo)
      PROVE  DepartureInv'
  BY <1>1, <1>4, NextPersonDepartures
<1>5. ASSUME NEW x \in Items, Then(<<x>>), sweep' = sweep, x.op \in {"leftMode", "readMode", "writeMode"},
             OfSweep(x) => OfSweep(This)
      PROVE  DepartureInv'
  BY <1>1, <1>3, <1>5, DepartureAsks
<1>6. ASSUME Then(<<>>), sweep' = sweep
      PROVE  DepartureInv'
  BY <1>1, <1>3, <1>6, DepartureAsks
<1>7. ASSUME This.op \in {"readMode", "writeMode"}, EndOfSetMode
      PROVE  DepartureInv'
  BY <1>4, <1>6, <1>7 DEF EndOfSetMode, Done, OfSweep
<1>8. ASSUME NEW m \in Modes, NEW caller \in Callers, Then(<<SetMode(m, caller)>>), sweep' = sweep,
             caller = "sweep" => OfSweep(This)
      PROVE  DepartureInv'
  <2> DEFINE x == SetMode(m, caller)
  <2>1. x \in Items /\ x.op = "readMode"
    BY SetModeType
  <2>2. x.call = caller
    BY DEF SetMode, Op
  <2>3. Then(<<x>>)
    BY <1>8
  <2> HIDE DEF x
  <2>4. OfSweep(x) => OfSweep(This)
    BY <1>8, <2>1, <2>2 DEF OfSweep
  <2> QED BY <1>5, <1>8, <2>1, <2>3, <2>4
<1>9. {"home", "away"} \subseteq Modes /\ {"event", "sweep"} \subseteq Callers
  BY DEF Modes, Callers
<1>10. CASE ArriveMode
  BY <1>6, <1>8, <1>9, <1>10 DEF ArriveMode
<1>11. CASE CountAnyone
  <2> DEFINE empty == (online = {})
             x == [This EXCEPT !.op = "leftMode", !.carries = empty]
  <2>1. Then(<<x>>) /\ sweep' = sweep /\ This.op = "countAnyone"
    BY <1>11 DEF CountAnyone, Serving, This
  <2>2. empty \in BOOLEAN
    OBVIOUS
  <2> HIDE DEF empty
  <2>3. x \in Items /\ x.op = "leftMode"
    BY <1>2, <2>2 DEF Items, Kinds
  <2> HIDE DEF x
  <2>4. OfSweep(This)
    BY <2>1 DEF OfSweep
  <2> QED BY <1>5, <2>1, <2>3, <2>4
<1>12. CASE LeftMode
  <2>1. OfSweep(This)
    BY <1>12 DEF LeftMode, Serving, This, OfSweep
  <2> QED BY <1>4, <1>8, <1>9, <1>12, <2>1 DEF LeftMode
<1>13. CASE ReadMode
  <2> DEFINE x == [This EXCEPT !.op = "writeMode"]
  <2>1. This.op = "readMode" /\ (EndOfSetMode \/ (Then(<<x>>) /\ sweep' = sweep))
    BY <1>13 DEF ReadMode, Serving, This
  <2>2. x \in Items /\ x.op = "writeMode" /\ x.call = This.call
    BY <1>2 DEF Items, Kinds
  <2> HIDE DEF x
  <2>3. OfSweep(x) => OfSweep(This)
    BY <2>1, <2>2 DEF OfSweep
  <2> QED BY <1>5, <1>7, <2>1, <2>2, <2>3
<1>14. CASE WriteMode
  BY <1>7, <1>14 DEF WriteMode, Serving, This
<1> QED BY <1>10, <1>11, <1>12, <1>13, <1>14

LEMMA SettingsDepartures ==
  ASSUME PresenceInv, DepartureInv, Settings
  PROVE  DepartureInv'
<1>1. /\ UNCHANGED <<online, leaving, home, recorded, scan>> /\ queue # <<>>
      /\ Head(queue).op \in {"setting1", "setting2", "setting3"}
  BY DEF Settings, Serving
<1>2. /\ PresenceTypes /\ RowTypes /\ This \in Items /\ GoersAre /\ SweepIs /\ This \in Range(queue)
  BY <1>1, DepartureFacts
<1>3. OfSweep(This) /\ sweep.on
  BY <1>1, <1>2 DEF OfSweep, SweepIs, This
<1>4. CASE \E kind \in {"setting2", "setting3"} : Then(<<Op(kind, "settings")>>) /\ sweep' = sweep
  <2>1. PICK kind \in {"setting2", "setting3"} : Then(<<Op(kind, "settings")>>) /\ sweep' = sweep
    BY <1>4
  <2> DEFINE x == Op(kind, "settings")
  <2>2. x \in Items /\ x.op = kind
    BY OpType DEF Kinds, Args
  <2>3. Then(<<x>>)
    BY <2>1
  <2> HIDE DEF x
  <2>4. /\ RowTypes'
        /\ \A q \in People :
             /\ recorded[q] # "left" /\ ~Is(This, {"leftRow"}, q) => recorded'[q] # "left"
             /\ Is(This, {"arriveRow"}, q) => recorded'[q] # "left"
    BY <1>1, <1>2 DEF RowTypes, Is, This
  <2> QED BY <1>1, <1>3, <2>1, <2>2, <2>3, <2>4, DepartureAsks
<1>5. ripe' \subseteq pending' /\ pending' = pending
  BY <1>1, <1>2 DEF GoersAre, leaving
<1>6. CASE sweep' = NoSweep /\ Then(<<>>)
  BY <1>1, <1>3, <1>5, <1>6, DepartureNext
<1>7. ASSUME NEW p \in ripe, NEW night,
             sweep' = [sweep EXCEPT !.todo = ripe \ {p}, !.streak = streak, !.night = night],
             Then(<<Op("recheck", p)>>)
      PROVE  DepartureInv'
  <2> DEFINE x == Op("recheck", p)
  <2>1. p \in Args /\ p \in Going /\ ripe \subseteq Going
    BY <1>2, <1>7 DEF PresenceTypes, GoersAre, Going
  <2>2. x \in Items /\ x.op = "recheck" /\ x.arg = p
    BY <2>1, OpType DEF Kinds
  <2>3. Then(<<x>>)
    BY <1>7
  <2>4. sweep'.todo = ripe \ {p} /\ sweep'.on /\ sweep'.met = sweep.met
    BY <1>2, <1>3, <1>7 DEF PresenceTypes, Sweepings
  <2> HIDE DEF x
  <2> QED BY <1>1, <1>3, <1>5, <2>1, <2>2, <2>3, <2>4, DepartureNext
<1> QED BY <1>4, <1>6, <1>7 DEF Settings, Done

\* When the scan goes on nothing else of it waits, no arrival is on its way,
\* and so nobody who has a departure pending is back.
LEMMA ScanAlone ==
  ASSUME PresenceInv, DepartureInv, queue # <<>>, Head(queue).op \in ScanOps
  PROVE  /\ \A x \in Range(queue) : x.op # "ownerOnline"
         /\ \A x \in Rest : x.op \notin ScanOps
         /\ \A p \in pending : ~Signal(p)
         /\ Scans(This) /\ This.call \in Scanners /\ scan[This.call] \in Scannings
<1>1. Head(queue).op # "reconcile"
  BY DEF ScanOps
<1>2. /\ PresenceTypes /\ ScanInv /\ EventInv /\ BackIs
      /\ queue \in Seq(Items) /\ This = queue[1] /\ 1 \in DOMAIN queue
  BY <1>1, DepartureFacts
<1>3. \A i \in DOMAIN queue : i \in Nat \ {0}
  BY <1>2
<1>4. This.op \in ScanOps
  BY DEF This
<1>5. \A i \in DOMAIN queue : queue[i].op # "ownerOnline"
  BY <1>2, <1>3, <1>4 DEF EventInv
<1>6. \A x \in Range(queue) : x.op # "ownerOnline"
  BY <1>5 DEF Range
<1>7. \A x \in Rest : x.op \notin ScanOps
  BY <1>2, <1>4 DEF ScanInv, Rest
<1>8. \A p \in pending : ~Signal(p)
  BY <1>2, <1>6 DEF BackIs, Is
<1>9. Scans(This) /\ This.call \in Scanners /\ scan[This.call] \in Scannings
  BY <1>2, <1>4 DEF ScanInv, Scans, PresenceTypes
<1> QED BY <1>6, <1>7, <1>8, <1>9

\* What DepartureServed asks of a step of the scan.
LEMMA DepartureScan ==
  ASSUME PresenceInv, DepartureInv, queue # <<>>, Head(queue).op \in ScanOps,
         UNCHANGED <<leaving, home, recorded, sweep>>,
         NEW ops \in Seq(Items), Then(ops), Ordered(ops, DepartureOrder),
         \A y \in Range(ops) :
           /\ y.op \in ScanOps \cup {"ownerOnline", "ownerOffline"}
           /\ y.op = "markStale" => This.op = "findStale"
           /\ y.op = "ownerOffline" => /\ This.op = "markStale"
                                       /\ y.arg \in People /\ y.arg \notin Going
                                       /\ \A x \in Rest : ~Is(x, {"recheck"}, y.arg),
         SeenIs', BackIs'
  PROVE  DepartureInv'
<1>1. Head(queue).op # "reconcile" /\ This.op \in ScanOps
  BY DEF ScanOps, This
<1>2. /\ PresenceTypes /\ ~Restarting /\ RowTypes /\ GoersAre /\ SweepIs /\ HomeIs
      /\ This = queue[1] /\ This \in Range(queue) /\ Rest \subseteq Range(queue)
      /\ \A x \in Rest : LeavesBefore(This, x)
  BY <1>1, DepartureFacts
<1>3. \A x \in Rest : x.op \notin ScanOps
  BY ScanAlone
<1>4. \A y \in Range(ops) : y.op \notin {"recheck", "leftUser", "leftRow", "countOnline", "reconcile"} /\ ~OfSweep(y)
  BY DEF ScanOps, OfSweep
<1>5. \A x \in Rest, y \in Range(ops) : LeavesBefore(x, y)
  <2>1. ASSUME NEW x \in Rest, NEW y \in Range(ops), y.op = "ownerOffline"
        PROVE  /\ ~Both(x, y, "recheck", "ownerOffline") /\ ~Both(x, y, "countOnline", "ownerOffline")
    <3>1. This.op = "markStale" /\ LeavesBefore(This, x)
      BY <1>2, <2>1
    <3>2. x.op # "countOnline"
      BY <3>1 DEF LeavesBefore
    <3>3. x.op = "recheck" => x.arg # y.arg
      BY <2>1 DEF Is
    <3> QED BY <3>2, <3>3 DEF Both
  <2>2. ASSUME NEW x \in Rest, NEW y \in Range(ops)
        PROVE  ~(x.op = "ownerOffline" /\ y.op = "markStale")
    <3>1. LeavesBefore(This, x)
      BY <1>2
    <3> QED BY <1>1, <3>1 DEF LeavesBefore
  <2> QED BY <1>3, <1>4, <2>1, <2>2 DEF LeavesBefore, Both
<1>6. /\ pending' \subseteq People /\ ripe' \subseteq pending' /\ sweep'.todo \subseteq People
      /\ sweep'.met >= 0 /\ (sweep'.todo # {} => sweep'.on) /\ RowTypes' /\ Going' = Going
      /\ \A q \in People : home'[q] = home[q] /\ recorded'[q] = recorded[q]
  BY <1>2 DEF GoersAre, SweepIs, RowTypes, leaving, Going
<1>7. \A y \in Range(ops) :
        /\ y.op \in Goers => y.arg \in People
        /\ y.op \in {"countOnline", "recheck", "leftUser"} => home'[y.arg] = "yes"
        /\ y.op \in {"ownerOffline", "leftUser"} => y.arg \notin Going'
        /\ y.op = "recheck" => y.arg \notin sweep'.todo
        /\ y.op # "reconcile"
        /\ OfSweep(y) => OfSweep(queue[1])
  BY <1>4, <1>6 DEF Goers
<1>8. \A q \in People :
         /\ recorded[q] # "left" /\ ~Is(queue[1], {"leftRow"}, q) => recorded'[q] # "left"
         /\ Is(queue[1], {"arriveRow"}, q) => recorded'[q] # "left"
         /\ \A k \in DOMAIN ops : ~Is(ops[k], {"leftRow"}, q)
         /\ home'[q] # "yes" \/ home[q] = "yes"
  <2>1. \A k \in DOMAIN ops : ops[k] \in Range(ops)
    BY DEF Range
  <2> QED BY <1>1, <1>2, <1>4, <1>6, <2>1 DEF Is, ScanOps
<1> QED BY <1>1, <1>5, <1>6, <1>7, <1>8, DepartureServed

LEMMA FindDeviceDepartures ==
  ASSUME PresenceInv, DepartureInv, FindDevice
  PROVE  DepartureInv'
<1>1. queue # <<>> /\ Head(queue).op = "findDevice" /\ This.op = "findDevice" /\ Head(queue).op # "reconcile"
  BY DEF FindDevice, Serving, This
<1>2. Head(queue).op \in ScanOps
  BY <1>1 DEF ScanOps
<1>3. /\ PresenceTypes /\ SeenIs /\ BackIs /\ This \in Range(queue) /\ Rest \subseteq Range(queue)
  BY <1>1, DepartureFacts
<1>4. PICK x \in Items : Then(<<x>>) /\ x.op = "upsert" /\ x.arg = This.arg /\ x.call = This.call
  BY FindDeviceAsks
<1>5. UNCHANGED <<online, leaving, home, recorded, scan, sweep>>
  BY DEF FindDevice
<1> DEFINE ops == <<x>>
<1>6. ops \in Seq(Items) /\ Range(ops) = {x} /\ Ordered(ops, DepartureOrder) /\ Then(ops)
  BY <1>4, RangeOne, OneItem, OneIsOrdered
<1> HIDE DEF ops
<1>7. Range(queue') = Rest \cup {x}
  BY <1>1, <1>3, <1>6, ServedItems
<1>8. Going' = Going
  BY <1>5 DEF Going, leaving
<1>9. SeenIs'
  <2>1. ASSUME NEW y \in Range(queue'), y.op \in ScanOps
        PROVE  \E z \in Range(queue) : /\ z.op \in ScanOps /\ z.call = y.call
                                       /\ y.op \in {"findDevice", "upsert"} =>
                                            z.op \in {"findDevice", "upsert"} /\ z.arg = y.arg
    <3>1. CASE y = x
      BY <1>1, <1>2, <1>3, <1>4, <3>1 DEF ScanOps
    <3>2. CASE y \in Rest
      BY <1>3, <2>1, <3>2
    <3> QED BY <1>7, <3>1, <3>2
  <2>2. Ordered(queue', SeenOrder')
    <3>1. \A y \in Rest : y.op \notin ScanOps
      BY <1>1, <1>2, ScanAlone
    <3> QED BY <1>1, <1>3, <1>4, <1>6, <3>1, SeenByScan DEF SeenIs
  <2> QED BY <1>3, <1>5, <1>8, <2>1, <2>2 DEF SeenIs, DevicesOf
<1>10. BackIs'
  <2>1. \A x1 \in Range(queue) : x1.op # "ownerOnline"
    BY <1>1, <1>2, ScanAlone
  <2>2. \A p \in pending' : ~Signal(p)'
    BY <1>1, <1>2, <1>5, ScanAlone DEF leaving, Signal, DevicesOf
  <2>3. \A y \in Range(queue') : y.op # "ownerOnline"
    BY <1>3, <1>4, <1>7, <2>1
  <2> QED BY <2>2, <2>3 DEF BackIs
<1>11. \A y \in Range(ops) : y.op = "upsert" /\ y.op \in ScanOps
  BY <1>4, <1>6 DEF ScanOps
<1> QED BY <1>1, <1>2, <1>5, <1>6, <1>9, <1>10, <1>11, DepartureScan

\* The scan ends: nothing of it waits and nobody has just come back.
LEMMA ScanEnds ==
  ASSUME PresenceInv, DepartureInv, queue # <<>>, Head(queue).op \in ScanOps,
         NEW ops \in Seq(Items), Then(ops),
         \A y \in Range(ops) : y.op \notin ScanOps \cup {"ownerOnline", "recheck"},
         online' \subseteq online, pending' = pending
  PROVE  SeenIs' /\ BackIs'
<1>1. PresenceTypes /\ Rest \subseteq Range(queue) /\ SeenIs
  <2>1. Head(queue).op # "reconcile"
    BY DEF ScanOps
  <2> QED BY <2>1, DepartureFacts
<1>2. Range(queue') = Rest \cup Range(ops)
  BY <1>1, ServedItems
<1>3. \A x \in Range(queue') : x.op \notin ScanOps \cup {"ownerOnline"}
  BY <1>1, <1>2, ScanAlone
<1>4. \A p \in pending' : ~Signal(p)'
  BY ScanAlone DEF Signal, DevicesOf
<1>5. Ordered(queue', SeenOrder')
  <2>1. \A x \in Rest : x.op \notin ScanOps
    BY ScanAlone
  <2> QED BY <1>1, <2>1, SeenByScan DEF SeenIs
<1> QED BY <1>3, <1>4, <1>5 DEF SeenIs, BackIs

LEMMA FindStaleDepartures ==
  ASSUME PresenceInv, DepartureInv, FindStale
  PROVE  DepartureInv'
<1> DEFINE s == This.call
<1>1. queue # <<>> /\ Head(queue).op = "findStale" /\ This.op = "findStale" /\ Head(queue).op # "reconcile"
  BY DEF FindStale, Serving, This
<1>2. Head(queue).op \in ScanOps
  BY <1>1 DEF ScanOps
<1>3. UNCHANGED <<online, leaving, home, recorded, sweep>>
  BY DEF FindStale
<1>4. CASE Then(<<>>)
  <2> DEFINE ops == <<>>
  <2>1. ops \in Seq(Items) /\ Range(ops) = {} /\ Ordered(ops, DepartureOrder) /\ Then(ops)
    BY <1>4, RangeOne, NoItem, OneIsOrdered
  <2> HIDE DEF ops
  <2>2. SeenIs' /\ BackIs'
    BY <1>1, <1>2, <1>3, <2>1, ScanEnds DEF leaving
  <2> QED BY <1>1, <1>2, <1>3, <2>1, <2>2, DepartureScan
<1>5. ASSUME NEW x \in Items, Then(<<x>>), x.op = "markStale", x.call = s,
             scan' = [scan EXCEPT ![s].todo = online \ scan[s].seen]
      PROVE  DepartureInv'
  <2> DEFINE ops == <<x>>
  <2>1. ops \in Seq(Items) /\ Range(ops) = {x} /\ Ordered(ops, DepartureOrder) /\ Then(ops)
    BY <1>5, RangeOne, OneItem, OneIsOrdered
  <2> HIDE DEF ops
  <2>2. /\ PresenceTypes /\ SeenIs /\ This \in Range(queue) /\ Rest \subseteq Range(queue)
    BY <1>1, DepartureFacts
  <2>3. /\ \A y \in Rest : y.op \notin ScanOps
        /\ \A y \in Range(queue) : y.op # "ownerOnline"
        /\ \A p \in pending : ~Signal(p)
        /\ s \in Scanners /\ scan[s] \in Scannings
    BY <1>1, <1>2, ScanAlone
  <2>4. Range(queue') = Rest \cup {x}
    BY <1>1, <2>1, <2>2, ServedItems
  <2>5. Going' = Going
    BY <1>3 DEF Going, leaving
  <2>6. SeenIs'
    <3>1. scan'[s].seen = scan[s].seen
      BY <1>5, <2>2, <2>3 DEF PresenceTypes, Scannings
    <3>2. \A p \in Going : DevicesOf(p) \cap online \subseteq scan[s].seen
      BY <1>1, <1>2, <2>2 DEF SeenIs, This
    <3>3. \A y \in Range(queue') : y.op \in ScanOps => y = x
      BY <2>3, <2>4
    <3>4. Ordered(queue', SeenOrder')
      BY <1>1, <1>5, <2>1, <2>2, <2>3, SeenByScan DEF SeenIs
    <3> QED BY <1>3, <1>5, <2>5, <3>1, <3>2, <3>3, <3>4 DEF SeenIs, DevicesOf
  <2>7. BackIs'
    <3>1. \A y \in Range(queue') : y.op # "ownerOnline"
      BY <1>5, <2>2, <2>3, <2>4
    <3>2. \A p \in pending' : ~Signal(p)'
      BY <1>3, <2>3 DEF leaving, Signal, DevicesOf
    <3> QED BY <3>1, <3>2 DEF BackIs
  <2>8. \A y \in Range(ops) : y.op = "markStale" /\ y.op \in ScanOps
    BY <1>5, <2>1 DEF ScanOps
  <2> QED BY <1>1, <1>2, <1>3, <2>1, <2>6, <2>7, <2>8, DepartureScan
<1> QED BY <1>4, <1>5, FindStaleAsks

LEMMA MarkStaleDepartures ==
  ASSUME PresenceInv, DepartureInv, MarkStale
  PROVE  DepartureInv'
<1> DEFINE s == This.call
<1>1. queue # <<>> /\ Head(queue).op = "markStale" /\ This.op = "markStale" /\ Head(queue).op # "reconcile"
  BY DEF MarkStale, Serving, This
<1>2. Head(queue).op \in ScanOps
  BY <1>1 DEF ScanOps
<1>3. UNCHANGED <<leaving, home, recorded, sweep>> /\ online' = online \cap scan[s].seen
  BY DEF MarkStale
<1>4. PICK ops \in Seq(Items) :
        /\ Then(ops)
        /\ \A k \in DOMAIN ops : /\ ops[k].op = "ownerOffline"
                                 /\ \E d \in online \ scan[s].seen : ops[k].arg = Owner[d]
  BY MarkStaleAsks
<1>5. PresenceTypes /\ SeenIs /\ This \in Range(queue)
  BY <1>1, DepartureFacts
<1>6. \A y \in Range(ops) : y.op = "ownerOffline" /\ \E d \in online \ scan[s].seen : y.arg = Owner[d]
  BY <1>4 DEF Range
<1>7. Ordered(ops, DepartureOrder)
  <2>1. \A k \in DOMAIN ops : ops[k] \in Items
    BY <1>4
  <2>2. ASSUME NEW k \in DOMAIN ops, NEW l \in DOMAIN ops
        PROVE  <<ops[k], ops[l]>> \in DepartureOrder
    <3>1. LeavesBefore(ops[k], ops[l])
      BY <1>4 DEF LeavesBefore, Both, OfSweep, ScanOps
    <3> QED BY <2>1, <3>1, DepartureOrderIs
  <2> QED BY <2>2 DEF Ordered
<1>8. ASSUME NEW y \in Range(ops)
      PROVE  /\ y.arg \in People /\ y.arg \notin Going
             /\ \A x \in Rest : ~Is(x, {"recheck"}, y.arg)
  <2>1. PICK d \in online \ scan[s].seen : y.arg = Owner[d]
    BY <1>6
  <2>2. d \in Devices /\ Owner[d] \in People
    BY <1>5, OwnerAssumption DEF PresenceTypes
  <2>3. d \in DevicesOf(y.arg) \cap online
    BY <2>1, <2>2 DEF DevicesOf
  <2>4. \A p \in Going : DevicesOf(p) \cap online \subseteq scan[s].seen
    BY <1>1, <1>2, <1>5 DEF SeenIs, This
  <2>5. ASSUME NEW x \in Rest, Is(x, {"recheck"}, y.arg)
        PROVE  FALSE
    <3>1. /\ <<queue[1], x>> \in SeenOrder /\ queue[1] \in Items /\ x \in Items
          /\ queue[1] = This
      BY <1>1, <1>5, <2>5, RestIs, DepartureFacts DEF SeenIs
    <3>2. SeenBefore(This, x)
      BY <3>1 DEF SeenOrder
    <3> QED BY <1>1, <1>2, <2>1, <2>3, <2>5, <3>2 DEF SeenBefore, Is, This
  <2> QED BY <2>1, <2>2, <2>3, <2>4, <2>5
<1>9. SeenIs' /\ BackIs'
  <2>1. \A y \in Range(ops) : y.op \notin ScanOps \cup {"ownerOnline", "recheck"}
    BY <1>6 DEF ScanOps
  <2> QED BY <1>1, <1>2, <1>3, <1>4, <2>1, ScanEnds DEF leaving
<1> QED BY <1>1, <1>2, <1>3, <1>4, <1>6, <1>7, <1>8, <1>9, DepartureScan

\* The device is online now; if it was not, its owner is about to be told.
LEMMA UpsertDepartures ==
  ASSUME PresenceInv, DepartureInv, Upsert
  PROVE  DepartureInv'
<1> DEFINE s == This.call
           d == This.arg
<1>1. queue # <<>> /\ Head(queue).op = "upsert" /\ This.op = "upsert" /\ Head(queue).op # "reconcile"
  BY DEF Upsert, Serving, This
<1>2. Head(queue).op \in ScanOps /\ This.op \in ScanOps
  BY <1>1 DEF ScanOps
<1>3. /\ UNCHANGED <<leaving, home, recorded, sweep>> /\ online' = online \cup {d}
      /\ scan' = [scan EXCEPT ![s].todo = scan[s].todo \ {d}]
  BY DEF Upsert
<1>4. /\ PresenceTypes /\ SeenIs /\ BackIs /\ This \in Range(queue) /\ Rest \subseteq Range(queue)
  BY <1>1, DepartureFacts
<1>5. /\ \A y \in Rest : y.op \notin ScanOps
      /\ \A y \in Range(queue) : y.op # "ownerOnline"
      /\ \A p \in pending : ~Signal(p)
      /\ Scans(This) /\ s \in Scanners /\ scan[s] \in Scannings
  BY <1>1, <1>2, ScanAlone
<1>6. d \in Devices /\ (This.carries <=> d \in online) /\ scan[s].on
  BY <1>1, <1>5 DEF Scans
<1>7. PICK x \in Items :
        /\ x.call = s /\ x.op \in {"findDevice", "findStale"}
        /\ x.op = "findDevice" => x.arg \in scan[s].todo
        /\ IF This.carries THEN Then(<<x>>)
           ELSE \E e \in Items : /\ Then(<<e>> \o <<x>>) /\ e.op = "ownerOnline"
                                 /\ e.arg = Owner[d] /\ e.arg \in People
  BY UpsertAsks
<1>8. PICK ops \in Seq(Items) :
        /\ Then(ops) /\ Ordered(ops, DepartureOrder) /\ x \in Range(ops)
        /\ \A y \in Range(ops) : y = x \/ y.op = "ownerOnline"
        /\ ~This.carries => \E y \in Range(ops) : Is(y, {"ownerOnline"}, Owner[d])
  <2>1. CASE This.carries
    <3> DEFINE ops == <<x>>
    <3>1. ops \in Seq(Items) /\ Range(ops) = {x} /\ Ordered(ops, DepartureOrder) /\ Then(ops)
      BY <1>7, <2>1, RangeOne, OneItem, OneIsOrdered
    <3> HIDE DEF ops
    <3> QED BY <2>1, <3>1
  <2>2. CASE ~This.carries
    <3>1. PICK e \in Items : /\ Then(<<e>> \o <<x>>) /\ e.op = "ownerOnline" /\ e.arg = Owner[d]
      BY <1>7, <2>2
    <3> DEFINE ops == <<e>> \o <<x>>
    <3>2. ops \in Seq(Items) /\ DOMAIN ops = {1, 2} /\ ops[1] = e /\ ops[2] = x /\ Then(ops)
      BY <3>1, TwoItems
    <3> HIDE DEF ops
    <3>3. Range(ops) = {e, x}
      BY <3>2 DEF Range
    <3>4. <<e, x>> \in DepartureOrder
      <4>1. LeavesBefore(e, x)
        BY <1>7, <3>1 DEF LeavesBefore, Both, OfSweep, ScanOps
      <4> QED BY <4>1, DepartureOrderIs
    <3>5. Ordered(ops, DepartureOrder)
      <4>1. \A k, l \in DOMAIN ops : k < l => k = 1 /\ l = 2
        BY <3>2
      <4> QED BY <3>2, <3>4, <4>1 DEF Ordered
    <3>6. Is(e, {"ownerOnline"}, Owner[d])
      BY <3>1 DEF Is
    <3> QED BY <3>1, <3>2, <3>3, <3>5, <3>6
  <2> QED BY <2>1, <2>2
<1>9. Range(queue') = Rest \cup Range(ops)
  BY <1>1, <1>4, <1>8, ServedItems
<1>10. Going' = Going
  BY <1>3 DEF Going, leaving
<1>11. /\ \A t \in Scanners : scan'[t].on = scan[t].on
       /\ scan'[s].seen = scan[s].seen /\ scan'[s].todo = scan[s].todo \ {d}
  BY <1>3, <1>4, <1>5 DEF PresenceTypes, Scannings
<1>12. SeenIs'
  <2>1. /\ \A p \in Going : DevicesOf(p) \cap online \subseteq scan[s].seen
        /\ d \in scan[s].seen /\ scan[s].todo \subseteq scan[s].seen
    BY <1>1, <1>2, <1>4 DEF SeenIs
  <2>2. \A p \in Going' : DevicesOf(p) \cap online' \subseteq scan'[s].seen
    BY <1>3, <1>10, <1>11, <2>1
  <2>3. \A y \in Range(queue') : y.op \in ScanOps => y = x
    BY <1>5, <1>8, <1>9 DEF ScanOps
  <2>4. x.op \in {"findDevice", "upsert"} => x.arg \in scan'[s].seen /\ scan'[s].todo \subseteq scan'[s].seen
    BY <1>7, <1>11, <2>1
  <2>5. Ordered(queue', SeenOrder')
    <3>1. \A y \in Range(ops) : y.op # "recheck"
      BY <1>7, <1>8
    <3> QED BY <1>1, <1>4, <1>5, <1>8, <3>1, SeenByScan DEF SeenIs
  <2> QED BY <1>7, <2>2, <2>3, <2>4, <2>5 DEF SeenIs, DevicesOf
<1>13. BackIs'
  <2>1. ASSUME NEW p \in pending', Signal(p)'
        PROVE  \E y \in Range(queue') : Is(y, {"ownerOnline"}, p)
    <3>1. ~Signal(p)
      BY <1>3, <1>5, <2>1 DEF leaving
    <3>2. Owner[d] = p /\ d \notin online
      BY <1>3, <1>6, <2>1, <3>1 DEF Signal, DevicesOf
    <3> QED BY <1>6, <1>8, <1>9, <3>2
  <2>2. \E t \in Scanners : scan'[t].on
    BY <1>5, <1>6, <1>11
  <2> QED BY <2>1, <2>2 DEF BackIs
<1>14. \A y \in Range(ops) : /\ y.op \in ScanOps \cup {"ownerOnline"}
                             /\ y.op # "markStale" /\ y.op # "ownerOffline"
  BY <1>7, <1>8 DEF ScanOps
<1> QED BY <1>1, <1>2, <1>3, <1>8, <1>12, <1>13, <1>14, DepartureScan

Started ==
  /\ RowTypes /\ queue = <<Op("reconcile", "all")>>
  /\ pending = {} /\ ripe = {} /\ sweep = NoSweep

LEMMA StartDepartures == Started => DepartureInv
<1> SUFFICES ASSUME Started PROVE DepartureInv
  OBVIOUS
<1> DEFINE x == Op("reconcile", "all")
           ops == <<x>>
<1>1. x \in Items /\ x.op = "reconcile"
  BY OpType DEF Kinds, Args
<1>2. queue = ops
  BY DEF Started
<1> HIDE DEF x
<1>3. DOMAIN ops = {1} /\ ops[1] = x /\ Range(ops) = {x} /\ Ordered(ops, DepartureOrder)
  BY <1>1, RangeOne, OneItem, OneIsOrdered
<1> HIDE DEF ops
<1>4. /\ sweep.todo = {} /\ sweep.met = 0
  BY DEF NoSweep, Started
<1>5. GoersAre /\ SweepIs
  BY <1>1, <1>2, <1>3, <1>4 DEF Started, GoersAre, SweepIs, Goers, OfSweep
<1>6. Restarting
  BY <1>1, <1>2, <1>3 DEF Restarting
<1>7. HomeIs
  BY <1>1, <1>2, <1>3, <1>4, <1>6 DEF Started, HomeIs, Going
<1>8. SeenIs /\ BackIs
  <2>1. Ordered(ops, SeenOrder)
    BY <1>3 DEF Ordered
  <2> QED BY <1>1, <1>2, <1>3, <2>1 DEF Started, SeenIs, BackIs, ScanOps
<1> QED BY <1>2, <1>3, <1>5, <1>6, <1>7, <1>8 DEF Started, DepartureInv

LEMMA InitDepartures == Init => DepartureInv
<1>1. Init => Started
  BY DEF Init, Started, RowTypes
<1> QED BY <1>1, StartDepartures

LEMMA CrashDepartures == DepartureInv /\ Crash => DepartureInv'
<1>1. DepartureInv /\ Crash => Started'
  BY DEF Crash, Started, RowTypes, DepartureInv
<1> QED BY <1>1, StartDepartures, PTL

LEMMA ReconcileDepartures ==
  ASSUME PresenceInv, DepartureInv, Reconcile
  PROVE  DepartureInv'
<1> DEFINE seen == {p \in People : Signal(p)}
           r == Tail(queue) \o <<>>
<1>1. /\ PresenceTypes /\ RestartInv /\ queue # <<>> /\ queue \in Seq(Items) /\ queue[1].op = "reconcile"
      /\ 1 \in DOMAIN queue /\ DOMAIN queue \subseteq Nat
  BY HeadServed, ServedElements DEF Reconcile
<1>2. /\ home' = [p \in People |-> Cached(p, seen)]
      /\ recorded' = [p \in People |->
                           IF ~Contradicts(p, seen) THEN recorded[p]
                           ELSE IF p \in seen THEN "arrived" ELSE "left"]
      /\ UNCHANGED <<online, leaving, scan, sweep>> /\ Then(<<>>)
  BY DEF Reconcile, Done
<1>3. /\ RowTypes /\ Ordered(queue, DepartureOrder) /\ GoersAre /\ SweepIs /\ HomeIs
  BY DEF DepartureInv
<1>4. pending = {} /\ \A j \in DOMAIN queue : j > 1 => queue[j].op = "readMode"
  BY <1>1 DEF RestartInv
<1>5. \A x \in Rest : x.op = "readMode" /\ x \in Range(queue)
  <2>1. \A i \in DOMAIN queue \ {1} : i > 1
    BY <1>1, ServedElements, NoItem
  <2> QED BY <1>4, <2>1, <1>1, RestIs DEF Rest
<1>6. Range(queue') = Rest
  <2>1. <<>> \in Seq(Items) /\ Range(<<>>) = {}
    BY NoItem, RangeOne
  <2>2. Range(queue') = Rest \cup Range(<<>>)
    BY <1>1, <1>2, <2>1, ServedItems
  <2> QED BY <2>1, <2>2
<1>7. Ordered(queue', DepartureOrder)
  <2>1. <<>> \in Seq(Items) /\ DOMAIN <<>> = {} /\ Ordered(<<>>, DepartureOrder)
    BY NoItem, OneIsOrdered
  <2>2. queue' = Tail(queue) \o <<>>
    BY <1>2 DEF Then
  <2> QED BY <1>1, <1>3, <2>1, <2>2, OrderServed
<1>8. RowTypes'
  BY <1>2, <1>3 DEF RowTypes
<1>9. pending' = {} /\ ripe' = {} /\ sweep'.todo = {} /\ GoersAre' /\ SweepIs'
  <2>1. sweep.todo = {}
    BY <1>1, <1>3 DEF SweepIs, Restarting
  <2> QED BY <1>2, <1>3, <1>4, <1>5, <1>6, <2>1 DEF GoersAre, SweepIs, leaving, Goers
<1>10. HomeIs'
  <2>1. \A p \in People : home'[p] # "unknown"
    BY <1>2 DEF Cached
  <2>2. \A p \in Going' : home'[p] = "yes"
    BY <1>9 DEF Going
  <2> QED BY <1>5, <1>6, <2>1, <2>2 DEF HomeIs
<1>11. SeenIs' /\ BackIs'
  <2>1. <<>> \in Seq(Items) /\ Range(<<>>) = {}
    BY NoItem, RangeOne
  <2>2. \A x \in Rest : x.op \notin ScanOps
    BY <1>5 DEF ScanOps
  <2>3. Ordered(queue, SeenOrder)
    BY DEF DepartureInv, SeenIs
  <2>4. Ordered(queue', SeenOrder')
    BY <1>1, <1>2, <2>1, <2>2, <2>3, SeenByScan
  <2> QED BY <1>5, <1>6, <1>9, <2>4 DEF SeenIs, BackIs, ScanOps
<1>12. ASSUME NEW p \in People
       PROVE  DeparturesRecorded(p)'
  <2>1. \A j \in DOMAIN queue' : ~Is(queue'[j], {"leftRow"}, p)
    BY <1>5, <1>6 DEF Is, Range
  <2> DEFINE next == recorded'[p] # "left"
             opens == home'[p] = "yes"
  <2>2. opens => next
    BY <1>2, <1>3 DEF Cached, Contradicts, RowTypes
  <2> HIDE DEF next, opens
  <2>3. Rows(queue', next, p, {"arriveRow"}, {"leftRow"}, opens)
    BY <2>1, <2>2 DEF Rows, LastSaid
  <2> QED BY <2>3 DEF DeparturesRecorded, next, opens
<1> QED BY <1>7, <1>8, <1>9, <1>10, <1>11, <1>12 DEF DepartureInv

\* A report, a sweep or a person setting the mode: one more operation waits.
LEMMA DepartureAdded ==
  ASSUME PresenceInv, DepartureInv, NEW x \in Items, queue' = queue \o <<x>>,
         x.op \in {"setting1", "findDevice", "findStale", "readMode"},
         UNCHANGED <<online, leaving, home, recorded>>,
         sweep'.todo = sweep.todo, sweep'.met >= 0, sweep.on => sweep'.on,
         OfSweep(x) => ~sweep.on /\ sweep'.on,
         SeenIs', BackIs'
  PROVE  DepartureInv'
<1>1. /\ PresenceTypes /\ RowTypes /\ Ordered(queue, DepartureOrder) /\ queue \in Seq(Items)
      /\ GoersAre /\ SweepIs /\ HomeIs /\ (Restarting \/ \A p \in People : DeparturesRecorded(p))
  BY DEF PresenceInv, PresenceTypes, DepartureInv
<1>2. Range(queue') = Range(queue) \cup {x} /\ Range(queue) \subseteq Items
  BY <1>1, AddedItems
<1>3. Restarting' <=> Restarting
  <2>1. Restarting <=> \E y \in Range(queue) : y.op = "reconcile"
    BY DEF Restarting, Range
  <2>2. Restarting' <=> \E y \in Range(queue') : y.op = "reconcile"
    BY DEF Restarting, Range
  <2> QED BY <1>2, <2>1, <2>2
<1>4. Ordered(queue', DepartureOrder)
  <2>1. ASSUME NEW y \in Range(queue)
        PROVE  <<y, x>> \in DepartureOrder
    <3>1. ~(OfSweep(y) /\ OfSweep(x))
      BY <1>1 DEF SweepIs
    <3>2. LeavesBefore(y, x)
      BY <3>1 DEF LeavesBefore, Both
    <3> QED BY <1>2, <3>2, DepartureOrderIs
  <2>2. \A i \in DOMAIN queue : <<queue[i], x>> \in DepartureOrder
    BY <2>1 DEF Range
  <2> QED BY <1>1, <2>2, OrderAdded
<1>5. GoersAre'
  BY <1>1, <1>2 DEF GoersAre, Goers, leaving
<1>6. SweepIs'
  BY <1>1, <1>2, <1>3 DEF SweepIs
<1>7. HomeIs'
  <2>1. Going' = Going
    BY DEF Going, leaving
  <2> QED BY <1>1, <1>2, <1>3, <2>1 DEF HomeIs
<1>8. ASSUME NEW p \in People, DeparturesRecorded(p)
      PROVE  DeparturesRecorded(p)'
  <2> DEFINE known == recorded[p] # "left"
             open == home[p] = "yes"
  <2>1. Rows(queue, known, p, {"arriveRow"}, {"leftRow"}, open) /\ ~Is(x, {"leftRow"}, p)
    BY <1>8 DEF DeparturesRecorded, Is
  <2>2. DeparturesRecorded(p)' <=> Rows(queue', known, p, {"arriveRow"}, {"leftRow"}, open)
    BY DEF DeparturesRecorded
  <2> HIDE DEF known, open
  <2> QED BY <1>1, <2>1, <2>2, RowsAdded
<1>9. RowTypes'
  BY <1>1 DEF RowTypes
<1> QED BY <1>1, <1>3, <1>4, <1>5, <1>6, <1>7, <1>8, <1>9 DEF DepartureInv

LEMMA ScanReportsDepartures ==
  ASSUME OneScan, OnePerson \/ ScansPerSweep = 0, PresenceInv, DepartureInv,
         OnePerson => sweep.todo = {},
         NEW s \in Scanners, NEW seen \in SUBSET Devices, ScanReports(s, seen)
  PROVE  DepartureInv'
<1>1. /\ PresenceTypes /\ ScanInv /\ SweepIs /\ BackIs /\ GoersAre
  BY DEF PresenceInv, DepartureInv
<1>2. /\ ~scan[s].on
      /\ scan' = [scan EXCEPT ![s] = [on |-> TRUE, seen |-> seen, todo |-> seen]]
      /\ sweep.on => sweep.met < ScansPerSweep
      /\ sweep' = IF sweep.on THEN [sweep EXCEPT !.met = @ + 1] ELSE sweep
      /\ UNCHANGED <<online, leaving, home, recorded>>
  BY DEF ScanReports
<1>3. PICK next \in NextDevice(s, seen) : queue' = queue \o next
  BY DEF ScanReports
<1>4. PICK x \in Items : /\ next = <<x>> /\ x.call = s
                         /\ x.op \in {"findDevice", "findStale"}
                         /\ x.op = "findDevice" => x.arg \in seen
  BY NextDeviceType
<1>5. sweep.todo = {} /\ sweep'.todo = {} /\ sweep'.met >= 0 /\ (sweep.on => sweep'.on)
  <2>1. sweep \in Sweepings /\ sweep.met \in Int /\ sweep.met >= 0
    BY <1>1 DEF SweepIs, PresenceTypes, Sweepings
  <2>2. sweep.todo = {}
    <3>1. ScansPerSweep = 0 => ~sweep.on
      BY <1>2, <2>1
    <3> QED BY <1>1, <3>1 DEF SweepIs
  <2>3. CASE sweep.on
    <3>1. sweep' = [sweep EXCEPT !.met = sweep.met + 1]
      BY <1>2, <2>3
    <3>2. sweep'.todo = sweep.todo /\ sweep'.met = sweep.met + 1 /\ sweep'.on = sweep.on
      BY <2>1, <3>1 DEF Sweepings
    <3> QED BY <2>1, <2>2, <3>2
  <2>4. CASE ~sweep.on
    BY <1>2, <2>1, <2>2, <2>4
  <2> QED BY <2>2, <2>3, <2>4
<1>6. Range(queue') = Range(queue) \cup {x}
  BY <1>1, <1>3, <1>4, AddedItems
<1>7. \A y \in Range(queue) : y.op \notin ScanOps /\ y.op # "ownerOnline"
  <2>1. \A t \in Scanners : ~scan[t].on
    BY <1>2 DEF OneScan
  <2>2. \A i \in DOMAIN queue : queue[i].op \notin ScanOps
    BY <1>1, <2>1 DEF ScanInv, Scans
  <2>3. \A y \in Range(queue) : y.op \notin ScanOps
    BY <2>2 DEF Range
  <2>4. \A y \in Range(queue) : y.op # "ownerOnline"
    BY <1>1, <2>1 DEF BackIs
  <2> QED BY <2>3, <2>4
<1>8. \A p \in pending : ~Signal(p)
  BY <1>1, <1>7 DEF BackIs, Is
<1>9. scan'[s] = [on |-> TRUE, seen |-> seen, todo |-> seen]
  BY <1>1, <1>2 DEF PresenceTypes
<1>10. SeenIs'
  <2>1. Going' = pending
    BY <1>2, <1>5 DEF Going, leaving
  <2>2. \A p \in Going' : DevicesOf(p) \cap online' = {}
    BY <1>2, <1>8, <2>1 DEF Signal
  <2>3. \A y \in Range(queue') : y.op \in ScanOps => y = x
    BY <1>6, <1>7
  <2>4. scan'[x.call].seen = seen /\ scan'[x.call].todo = seen
    BY <1>4, <1>9
  <2>5. x.op \in {"findDevice", "upsert"} => x.arg \in seen
    BY <1>4
  <2>6. Ordered(queue', SeenOrder')
    <3>1. /\ \A y, z \in Items : <<y, z>> \in SeenOrder' <=> SeenBefore(y, z)'
          /\ Range(queue) \subseteq Items /\ queue' = queue \o <<x>>
          /\ Ordered(queue, SeenOrder)
      BY <1>1, <1>3, <1>4, AddedItems DEF SeenOrder, DepartureInv, SeenIs
    <3>2. \A y \in Range(queue), z \in Items : <<y, z>> \in SeenOrder'
      BY <1>7, <3>1 DEF SeenBefore
    <3> QED BY <1>1, <3>1, <3>2, OrderGrown
  <2> QED BY <2>2, <2>3, <2>4, <2>5, <2>6 DEF SeenIs, DevicesOf
<1>11. BackIs'
  <2>1. \A p \in pending' : ~Signal(p)'
    BY <1>2, <1>8 DEF leaving, Signal, DevicesOf
  <2>2. \A y \in Range(queue') : y.op # "ownerOnline"
    BY <1>4, <1>6, <1>7
  <2> QED BY <2>1, <2>2 DEF BackIs
<1>12. queue' = queue \o <<x>> /\ ~OfSweep(x)
  BY <1>3, <1>4 DEF OfSweep
<1> QED BY <1>2, <1>4, <1>5, <1>10, <1>11, <1>12, DepartureAdded

\* A sweep or a mode set by hand tells a scan nothing.
LEMMA AddedDepartures ==
  ASSUME PresenceInv, DepartureInv, Sweep \/ \E m \in ManualModes : UserSetsMode(m)
  PROVE  DepartureInv'
<1>1. /\ PresenceTypes /\ SweepIs /\ SeenIs /\ BackIs /\ queue \in Seq(Items)
  BY DEF PresenceInv, DepartureInv, PresenceTypes
<1>2. UNCHANGED <<online, leaving, home, recorded, scan>>
  BY DEF Sweep, UserSetsMode
<1>3. ASSUME NEW x \in Items, queue' = queue \o <<x>>, x.op \in {"setting1", "readMode"},
             sweep'.todo = sweep.todo
      PROVE  SeenIs' /\ BackIs'
  <2>1. Range(queue') = Range(queue) \cup {x}
    BY <1>1, <1>3, AddedItems
  <2>2. Going' = Going
    BY <1>2, <1>3 DEF Going, leaving
  <2>3. SeenIs'
    <3>1. /\ \A y, z \in Items : <<y, z>> \in SeenOrder <=> SeenBefore(y, z)
          /\ \A y, z \in Items : <<y, z>> \in SeenOrder' <=> SeenBefore(y, z)'
          /\ Range(queue) \subseteq Items /\ Ordered(queue, SeenOrder)
      BY <1>1, <1>3, AddedItems DEF SeenOrder, SeenIs
    <3>2. \A y, z \in Items : SeenBefore(y, z)' <=> SeenBefore(y, z)
      BY <1>2 DEF SeenBefore, DevicesOf
    <3>3. \A y \in Items : SeenBefore(y, x)
      BY <1>3 DEF SeenBefore
    <3>4. Ordered(queue', SeenOrder')
      BY <1>1, <1>3, <3>1, <3>2, <3>3, OrderGrown
    <3> QED BY <1>1, <1>2, <1>3, <2>1, <2>2, <3>4 DEF SeenIs, ScanOps, DevicesOf
  <2>4. BackIs'
    BY <1>1, <1>2, <1>3, <2>1 DEF BackIs, Is, leaving, Signal, DevicesOf
  <2> QED BY <2>3, <2>4
<1>4. CASE Sweep
  <2> DEFINE x == Op("setting1", "settings")
  <2>1. x \in Items /\ x.op = "setting1"
    BY OpType DEF Kinds, Args
  <2>2. queue' = queue \o <<x>>
    BY <1>1, <1>4, <2>1, PublishIsConcat DEF Sweep
  <2> HIDE DEF x
  <2>3. ~sweep.on /\ sweep' = [NoSweep EXCEPT !.on = TRUE]
    BY <1>4 DEF Sweep
  <2>4. sweep'.on /\ sweep'.todo = {} /\ sweep'.met = 0 /\ sweep.todo = {}
    BY <1>1, <2>3 DEF NoSweep, SweepIs
  <2> QED BY <1>2, <1>3, <2>1, <2>2, <2>3, <2>4, DepartureAdded
<1>5. ASSUME NEW m \in ManualModes, UserSetsMode(m)
      PROVE  DepartureInv'
  <2> DEFINE x == SetMode(m, "user")
  <2>1. x \in Items /\ x.op = "readMode"
    BY ModesAssumption, SetModeType DEF Modes, Callers
  <2>2. x.call = "user"
    BY DEF SetMode, Op
  <2>3. queue' = queue \o <<x>> /\ sweep' = sweep
    BY <1>1, <1>5, <2>1, PublishIsConcat DEF UserSetsMode
  <2> HIDE DEF x
  <2>4. ~OfSweep(x) /\ sweep.met >= 0
    BY <1>1, <2>1, <2>2 DEF OfSweep, SweepIs
  <2> QED BY <1>2, <1>3, <2>1, <2>3, <2>4, DepartureAdded
<1> QED BY <1>4, <1>5

LEMMA GraceDepartures ==
  ASSUME DepartureInv, (\E p \in People : GraceEnds(p)) \/ UNCHANGED vars
  PROVE  DepartureInv'
<1>1. /\ UNCHANGED <<online, pending, home, recorded, scan, sweep, queue>>
      /\ ripe \subseteq pending => ripe' \subseteq pending'
  BY DEF GraceEnds, vars
<1>2. RowTypes' /\ Ordered(queue, DepartureOrder)'
  BY <1>1 DEF DepartureInv, RowTypes
<1>3. GoersAre' /\ SweepIs' /\ HomeIs'
  BY <1>1 DEF DepartureInv, GoersAre, SweepIs, HomeIs, Going, Restarting
<1>4. SeenIs'
  BY <1>1 DEF DepartureInv, SeenIs, Going, DevicesOf, SeenOrder, SeenBefore
<1>5. BackIs'
  BY <1>1 DEF DepartureInv, BackIs, Signal, DevicesOf
<1>6. Restarting' \/ \A p \in People : DeparturesRecorded(p)'
  BY <1>1 DEF DepartureInv, DeparturesRecorded, Restarting
<1> QED BY <1>2, <1>3, <1>4, <1>5, <1>6 DEF DepartureInv

LEMMA DeparturesKept ==
  ASSUME OneScan, OnePerson \/ ScansPerSweep = 0, PresenceInv, DepartureInv,
         OnePerson => sweep.todo = {}, [Next]_vars
  PROVE  DepartureInv'
<1>1. CASE Serve
  <2>1. CASE FindDevice \/ Upsert \/ FindStale \/ MarkStale
    BY <2>1, FindDeviceDepartures, UpsertDepartures, FindStaleDepartures, MarkStaleDepartures
  <2>2. CASE OwnerOnline \/ OwnerOffline \/ CountOnline
    BY <2>2, OwnerOnlineDepartures, OwnerOfflineDepartures, CountOnlineDepartures
  <2>3. CASE ArriveUser \/ ArriveRow \/ ArriveMode
    BY <2>3, ArriveUserDepartures, RowDepartures, ModeDepartures
  <2>4. CASE LeftUser \/ LeftRow \/ CountAnyone \/ LeftMode
    BY <2>4, LeftUserDepartures, RowDepartures, ModeDepartures
  <2>5. CASE ReadMode \/ WriteMode \/ Settings \/ Recheck \/ Reconcile
    BY <2>5, ModeDepartures, SettingsDepartures, RecheckDepartures, ReconcileDepartures
  <2> QED BY <1>1, <2>1, <2>2, <2>3, <2>4, <2>5 DEF Serve
<1>2. CASE Crash
  BY <1>2, CrashDepartures
<1>3. CASE Sweep \/ \E m \in ManualModes : UserSetsMode(m)
  BY <1>3, AddedDepartures
<1>4. CASE \E s \in Scanners, seen \in SUBSET Devices : ScanReports(s, seen)
  BY <1>4, ScanReportsDepartures
<1>5. CASE (\E p \in People : GraceEnds(p)) \/ UNCHANGED vars
  BY <1>5, GraceDepartures
<1> QED BY <1>1, <1>2, <1>3, <1>4, <1>5 DEF Next

\* Of one person there is nobody else for the sweep to go on with.
AloneInv == OnePerson => sweep.todo = {}

LEMMA NobodyElse == PresenceInv /\ DepartureInv /\ AloneInv /\ [Next]_vars => AloneInv'
<1> SUFFICES ASSUME PresenceInv, DepartureInv, OnePerson, sweep.todo = {}, [Next]_vars
             PROVE  sweep'.todo = {}
  BY DEF AloneInv
<1>1. sweep \in Sweepings /\ ripe \subseteq People
  BY DEF PresenceInv, PresenceTypes, DepartureInv, GoersAre
<1>2. NoSweep.todo = {}
  BY DEF NoSweep
<1>3. NextPerson(sweep.todo) => sweep'.todo = {}
  BY <1>2 DEF NextPerson
<1>4. CASE UNCHANGED sweep \/ sweep' = NoSweep
  BY <1>2, <1>4
<1>5. CASE Settings
  <2>1. CASE \E p \in ripe, night \in {FALSE, Nights} :
               sweep' = [sweep EXCEPT !.todo = ripe \ {p}, !.streak = streak, !.night = night]
    <3>1. PICK p \in ripe, night \in {FALSE, Nights} :
            sweep' = [sweep EXCEPT !.todo = ripe \ {p}, !.streak = streak, !.night = night]
      BY <2>1
    <3>2. ripe \ {p} = {}
      BY <1>1, <3>1 DEF OnePerson
    <3> QED BY <1>1, <3>1, <3>2 DEF Sweepings
  <2> QED BY <1>4, <1>5, <2>1 DEF Settings
<1>6. CASE LeftMode \/ ReadMode \/ WriteMode \/ Recheck
  BY <1>3, <1>4, <1>6 DEF LeftMode, ReadMode, WriteMode, Recheck, EndOfSetMode
<1>7. CASE Sweep
  <2>1. sweep' = [NoSweep EXCEPT !.on = TRUE]
    BY <1>7 DEF Sweep
  <2> QED BY <2>1 DEF NoSweep
<1>8. CASE \E s \in Scanners, seen \in SUBSET Devices : ScanReports(s, seen)
  <2>1. UNCHANGED sweep \/ sweep' = [sweep EXCEPT !.met = sweep.met + 1]
    BY <1>8 DEF ScanReports
  <2> QED BY <1>1, <2>1 DEF Sweepings
<1>9. CASE Serve
  <2>1. CASE FindDevice \/ Upsert \/ FindStale \/ MarkStale \/ OwnerOnline \/ OwnerOffline \/ CountOnline
    BY <1>4, <2>1 DEF FindDevice, Upsert, FindStale, MarkStale, OwnerOnline, OwnerOffline, CountOnline
  <2>2. CASE ArriveUser \/ ArriveRow \/ ArriveMode \/ LeftUser \/ LeftRow \/ CountAnyone \/ Reconcile
    BY <1>4, <2>2 DEF ArriveUser, ArriveRow, ArriveMode, LeftUser, LeftRow, CountAnyone, Reconcile
  <2> QED BY <1>5, <1>6, <1>9, <2>1, <2>2 DEF Serve
<1>10. CASE Crash \/ (\E p \in People : GraceEnds(p)) \/ (\E m \in ManualModes : UserSetsMode(m)) \/ UNCHANGED vars
  BY <1>4, <1>10 DEF Crash, GraceEnds, UserSetsMode, vars
<1> QED BY <1>7, <1>8, <1>9, <1>10 DEF Next

LEMMA InitAlone == Init => AloneInv
  BY DEF Init, AloneInv, NoSweep

LEMMA DepartureIsNew ==
  ASSUME PresenceInv, DepartureInv
  PROVE  DeparturesAlternate
<1> SUFFICES ASSUME queue # <<>>, This.op = "leftRow"
             PROVE  recorded[This.arg] # "left"
  BY DEF DeparturesAlternate
<1>1. Head(queue).op # "reconcile"
  BY DEF This
<1>2. /\ ~Restarting /\ GoersAre /\ queue \in Seq(Items) /\ This = queue[1] /\ 1 \in DOMAIN queue
      /\ This \in Range(queue)
  BY <1>1, DepartureFacts
<1> DEFINE p == This.arg
           known == recorded[p] # "left"
           open == home[p] = "yes"
<1>3. p \in People
  BY <1>2 DEF GoersAre, Goers
<1>4. Rows(queue, known, p, {"arriveRow"}, {"leftRow"}, open)
  BY <1>2, <1>3 DEF DepartureInv, DeparturesRecorded
<1> HIDE DEF known, open
<1>5. LastSaid(queue, known, p, {"arriveRow"}, {"leftRow"}, 1)
  BY <1>2, <1>4 DEF Rows, Is
<1>6. \A k \in DOMAIN queue : ~(k < 1)
  BY <1>2
<1>7. known
  BY <1>5, <1>6 DEF LastSaid
<1> QED BY <1>7 DEF known

\* With one scan at a time, and of one person or when no report of the router
\* comes while a sweep works, nobody is recorded as left twice in a row either,
\* so the timeline alternates (tick and markLeft of presence.service.ts):
\* whoever is at home is not the last one recorded as left, and whoever is
\* being lost is at home and is being lost once.  With several people, reports
\* inside a sweep may lose again somebody the sweep is about to let go, so the
\* second hypothesis is needed.
THEOREM RowsAlternate ==
  OneScan /\ (OnePerson \/ ScansPerSweep = 0) => (Spec => []TimelineAlternates)
<1> SUFFICES ASSUME OneScan, OnePerson \/ ScansPerSweep = 0 PROVE Spec => []TimelineAlternates
  OBVIOUS
<1>1. PresenceInv /\ ArrivalInv /\ DepartureInv => TimelineAlternates
  BY ArrivalIsNew, DepartureIsNew DEF TimelineAlternates
<1>2. PresenceInv /\ [Next]_vars => PresenceInv'
  BY NextInvariant
<1>3. PresenceInv /\ ArrivalInv /\ [Next]_vars => ArrivalInv'
  BY ArrivalsKept
<1>4. PresenceInv /\ DepartureInv /\ AloneInv /\ [Next]_vars => DepartureInv'
  BY DeparturesKept DEF AloneInv
<1> HIDE DEF OnePerson
<1> QED BY <1>1, <1>2, <1>3, <1>4, InitInvariant, InitArrivals, InitDepartures, InitAlone, NobodyElse, PTL DEF Spec

-----------------------------------------------------------------------------
\* What each operation that is served asks for, and what it changes.

Follows(x, y) ==
  \/ x.op = "findDevice" /\ y.op = "upsert" /\ y.call = x.call
  \/ x.op = "upsert" /\ y.op \in {"findDevice", "findStale"} /\ y.call = x.call
  \/ x.op = "upsert" /\ y.op = "ownerOnline"
  \/ x.op = "findStale" /\ y.op = "markStale" /\ y.call = x.call
  \/ x.op = "markStale" /\ y.op = "ownerOffline"
  \/ x.op = "ownerOnline" /\ y.op = "arriveUser"
  \/ x.op = "ownerOffline" /\ y.op = "countOnline"
  \/ x.op = "arriveUser" /\ y.op = "arriveRow"
  \/ x.op = "arriveRow" /\ y.op = "arriveMode"
  \/ x.op = "arriveMode" /\ y.op = "readMode" /\ y.call = "event" /\ y.mode = "home"
  \/ x.op = "setting1" /\ y.op = "setting2"
  \/ x.op = "setting2" /\ y.op = "setting3"
  \/ OfSweep(x) /\ x.op \notin {"setting1", "setting2"} /\ y.op = "recheck"
  \/ x.op = "recheck" /\ y.op = "leftUser" /\ ~Signal(x.arg)
  \/ x.op = "leftUser" /\ y.op = "leftRow"
  \/ x.op = "leftRow" /\ y.op = "countAnyone"
  \/ x.op = "countAnyone" /\ y.op = "leftMode" /\ (y.carries => online = {})
  \/ x.op = "leftMode" /\ y.op = "readMode" /\ y.call = "sweep" /\ y.mode = "away" /\ x.carries /\ pending = {}
  \/ x.op = "readMode" /\ y.op = "writeMode" /\ y.call = x.call /\ y.mode = x.mode

\* Only events of the scan are asked for before something else.
Follow(ops) ==
  /\ \A y \in Range(ops) : Follows(This, y)
  /\ \A i, j \in DOMAIN ops : i < j => ops[i].op \in {"ownerOnline", "ownerOffline"}
                                       /\ ops[j].op \in {"findDevice", "findStale", "ownerOffline"}
  /\ This.op = "upsert" => \E y \in Range(ops) : y.op \in {"findDevice", "findStale"}
  /\ This.op = "arriveUser" => \E y \in Range(ops) : y.op = "arriveRow"
  /\ This.op = "arriveRow" => \E y \in Range(ops) : y.op = "arriveMode"
  /\ This.op = "arriveMode" /\ mode = "away" => \E y \in Range(ops) : y.op = "readMode" /\ y.mode = "home"
  /\ This.op = "readMode" /\ mode # This.mode => \E y \in Range(ops) : y.op = "writeMode" /\ y.mode = This.mode

LEMMA FollowOne ==
  ASSUME NEW x \in Items, Then(<<x>>), Follows(This, x),
         This.op = "upsert" => x.op \in {"findDevice", "findStale"},
         This.op = "readMode" => mode = This.mode \/ x.op = "writeMode"
  PROVE  \E ops \in Seq(Items) : Then(ops) /\ Follow(ops)
<1> DEFINE ops == <<x>>
<1>1. ops \in Seq(Items) /\ Range(ops) = {x} /\ DOMAIN ops = {1} /\ Then(ops)
  BY RangeOne, OneItem
<1> HIDE DEF ops
<1>2. \A i, j \in DOMAIN ops : ~(i < j)
  BY <1>1
<1>3. Follow(ops)
  BY <1>1, <1>2 DEF Follow, Follows, OfSweep
<1> QED BY <1>1, <1>3

LEMMA FollowNone ==
  ASSUME Then(<<>>), This.op \notin {"upsert", "arriveUser", "arriveRow"},
         This.op = "arriveMode" => mode # "away", This.op = "readMode" => mode = This.mode
  PROVE  \E ops \in Seq(Items) : Then(ops) /\ Follow(ops)
<1> DEFINE ops == <<>>
<1>1. ops \in Seq(Items) /\ Range(ops) = {} /\ DOMAIN ops = {} /\ Then(ops)
  BY RangeOne, NoItem
<1> HIDE DEF ops
<1>2. Follow(ops)
  BY <1>1 DEF Follow
<1> QED BY <1>1, <1>2

LEMMA ScanFollows ==
  ASSUME PresenceInv, FindDevice \/ Upsert \/ FindStale \/ MarkStale
  PROVE  \E ops \in Seq(Items) : Then(ops) /\ Follow(ops)
<1>1. CASE FindDevice
  <2>1. This.op = "findDevice"
    BY <1>1 DEF FindDevice, Serving, This
  <2>2. PICK x \in Items : Then(<<x>>) /\ x.op = "upsert" /\ x.call = This.call
    BY <1>1, FindDeviceAsks
  <2> QED BY <2>1, <2>2, FollowOne DEF Follows
<1>2. CASE Upsert
  <2>1. This.op = "upsert"
    BY <1>2 DEF Upsert, Serving, This
  <2>2. PICK x \in Items :
          /\ x.call = This.call /\ x.op \in {"findDevice", "findStale"}
          /\ IF This.carries THEN Then(<<x>>)
             ELSE \E e \in Items : Then(<<e>> \o <<x>>) /\ e.op = "ownerOnline"
    BY <1>2, UpsertAsks
  <2>3. CASE This.carries
    BY <2>1, <2>2, <2>3, FollowOne DEF Follows
  <2>4. CASE ~This.carries
    <3>1. PICK e \in Items : Then(<<e>> \o <<x>>) /\ e.op = "ownerOnline"
      BY <2>2, <2>4
    <3> DEFINE ops == <<e>> \o <<x>>
    <3>2. ops \in Seq(Items) /\ DOMAIN ops = {1, 2} /\ ops[1] = e /\ ops[2] = x /\ Then(ops)
      BY <3>1, TwoItems
    <3> HIDE DEF ops
    <3>3. Range(ops) = {e, x}
      BY <3>2 DEF Range
    <3>4. \A i, j \in DOMAIN ops : i < j => i = 1 /\ j = 2
      BY <3>2
    <3>5. Follow(ops)
      BY <2>1, <2>2, <3>1, <3>2, <3>3, <3>4 DEF Follow, Follows
    <3> QED BY <3>2, <3>5
  <2> QED BY <2>3, <2>4
<1>3. CASE FindStale
  <2>1. This.op = "findStale"
    BY <1>3 DEF FindStale, Serving, This
  <2>2. Then(<<>>) \/ \E x \in Items : Then(<<x>>) /\ x.op = "markStale" /\ x.call = This.call
    BY <1>3, FindStaleAsks
  <2> QED BY <2>1, <2>2, FollowOne, FollowNone DEF Follows
<1>4. CASE MarkStale
  <2>1. This.op = "markStale"
    BY <1>4 DEF MarkStale, Serving, This
  <2>2. PICK ops \in Seq(Items) : Then(ops) /\ \A k \in DOMAIN ops : ops[k].op = "ownerOffline"
    BY <1>4, MarkStaleAsks
  <2>3. \A y \in Range(ops) : y.op = "ownerOffline"
    BY <2>2 DEF Range
  <2>4. Follow(ops)
    BY <2>1, <2>2, <2>3 DEF Follow, Follows
  <2> QED BY <2>2, <2>4
<1> QED BY <1>1, <1>2, <1>3, <1>4

LEMMA EventFollows ==
  ASSUME PresenceInv, \/ OwnerOnline \/ OwnerOffline \/ CountOnline
                      \/ ArriveUser \/ ArriveRow \/ ArriveMode \/ LeftUser \/ LeftRow
  PROVE  \E ops \in Seq(Items) : Then(ops) /\ Follow(ops)
<1>1. This \in Items /\ This.op \in {"ownerOnline", "ownerOffline", "countOnline", "arriveUser",
                                     "arriveRow", "arriveMode", "leftUser", "leftRow"}
  BY HeadServed DEF OwnerOnline, OwnerOffline, CountOnline, ArriveUser, ArriveRow, ArriveMode, LeftUser, LeftRow
<1>2. ASSUME NEW kind \in Kinds, Then(<<Op(kind, This.arg)>>),
             \/ This.op = "ownerOnline" /\ kind = "arriveUser"
             \/ This.op = "ownerOffline" /\ kind = "countOnline"
      PROVE  \E ops \in Seq(Items) : Then(ops) /\ Follow(ops)
  <2> DEFINE x == Op(kind, This.arg)
  <2>1. This.arg \in Args
    BY <1>1 DEF Items
  <2>2. x \in Items /\ x.op = kind
    BY <2>1, OpType
  <2>3. Then(<<x>>)
    BY <1>2
  <2> HIDE DEF x
  <2> QED BY <1>2, <2>2, <2>3, FollowOne DEF Follows
<1>3. ASSUME NEW kind \in Kinds, Then(<<[This EXCEPT !.op = kind]>>),
             \/ This.op = "arriveUser" /\ kind = "arriveRow"
             \/ This.op = "arriveRow" /\ kind = "arriveMode"
             \/ This.op = "leftUser" /\ kind = "leftRow"
             \/ This.op = "leftRow" /\ kind = "countAnyone"
      PROVE  \E ops \in Seq(Items) : Then(ops) /\ Follow(ops)
  <2> DEFINE x == [This EXCEPT !.op = kind]
  <2>1. x \in Items /\ x.op = kind
    BY <1>1 DEF Items
  <2>2. Then(<<x>>)
    BY <1>3
  <2> HIDE DEF x
  <2> QED BY <1>3, <2>1, <2>2, FollowOne DEF Follows
<1>4. {"arriveUser", "countOnline", "arriveRow", "arriveMode", "leftRow", "countAnyone"} \subseteq Kinds
  BY DEF Kinds
<1>5. CASE OwnerOnline \/ OwnerOffline \/ CountOnline
  BY <1>2, <1>4, <1>5, FollowNone DEF OwnerOnline, OwnerOffline, CountOnline, Serving, This, Done
<1>6. CASE ArriveUser \/ ArriveRow \/ LeftUser \/ LeftRow
  BY <1>3, <1>4, <1>6 DEF ArriveUser, ArriveRow, LeftUser, LeftRow, Serving, This
<1>7. CASE ArriveMode
  <2> DEFINE x == SetMode("home", "event")
  <2>1. This.op = "arriveMode" /\ (mode = "away" => Then(<<x>>)) /\ (mode # "away" => Then(<<>>))
    BY <1>7 DEF ArriveMode, Serving, This, ArrivalChangesMode
  <2>2. "home" \in Modes /\ "event" \in Callers
    BY DEF Modes, Callers
  <2>3. x \in Items /\ x.op = "readMode"
    BY <2>2, SetModeType
  <2>4. x.call = "event" /\ x.mode = "home"
    BY DEF SetMode, Op
  <2> HIDE DEF x
  <2>5. CASE mode = "away"
    BY <2>1, <2>3, <2>4, <2>5, FollowOne DEF Follows
  <2>6. CASE mode # "away"
    BY <2>1, <2>6, FollowNone
  <2> QED BY <2>5, <2>6
<1> QED BY <1>5, <1>6, <1>7

LEMMA NextFollows ==
  ASSUME PresenceInv, NextPerson(sweep.todo), OfSweep(This),
         This.op \notin {"setting1", "setting2", "upsert"},
         This.op = "readMode" => mode = This.mode
  PROVE  \E ops \in Seq(Items) : Then(ops) /\ Follow(ops)
<1>1. sweep.todo \in SUBSET Args
  BY DEF PresenceInv, PresenceTypes, Sweepings
<1>2. Then(<<>>) \/ \E x \in Items : Then(<<x>>) /\ x.op = "recheck"
  BY <1>1, NextPersonAsks
<1>3. This.op \notin {"upsert", "arriveUser", "arriveRow", "arriveMode"}
  BY DEF OfSweep
<1> QED BY <1>2, <1>3, FollowOne, FollowNone DEF Follows

LEMMA ModeFollows ==
  ASSUME PresenceInv, LeftMode \/ ReadMode \/ WriteMode
  PROVE  \E ops \in Seq(Items) : Then(ops) /\ Follow(ops)
<1>1. This \in Items
  BY HeadServed DEF LeftMode, ReadMode, WriteMode
<1>2. CASE LeftMode
  <2>1. This.op = "leftMode" /\ OfSweep(This)
    BY <1>2 DEF LeftMode, Serving, This, OfSweep
  <2>2. CASE NextPerson(sweep.todo)
    BY <2>1, <2>2, NextFollows
  <2>3. CASE Then(<<SetMode("away", "sweep")>>) /\ This.carries /\ pending = {}
    <3> DEFINE x == SetMode("away", "sweep")
    <3>1. "away" \in Modes /\ "sweep" \in Callers
      BY DEF Modes, Callers
    <3>2. x \in Items /\ x.op = "readMode"
      BY <3>1, SetModeType
    <3>3. x.call = "sweep" /\ x.mode = "away"
      BY DEF SetMode, Op
    <3>4. Then(<<x>>)
      BY <2>3
    <3> HIDE DEF x
    <3> QED BY <2>1, <2>3, <3>2, <3>3, <3>4, FollowOne DEF Follows
  <2> QED BY <1>2, <2>2, <2>3 DEF LeftMode, HouseIsEmpty
<1>3. ASSUME This.op \in {"readMode", "writeMode"}, EndOfSetMode, This.op = "readMode" => mode = This.mode
      PROVE  \E ops \in Seq(Items) : Then(ops) /\ Follow(ops)
  <2>1. CASE This.call = "sweep"
    <3>1. OfSweep(This)
      BY <1>3, <2>1 DEF OfSweep
    <3> QED BY <1>3, <2>1, <3>1, NextFollows DEF EndOfSetMode
  <2>2. CASE This.call # "sweep"
    BY <1>3, <2>2, FollowNone DEF EndOfSetMode, Done
  <2> QED BY <2>1, <2>2
<1>4. CASE ReadMode
  <2>1. This.op = "readMode"
    BY <1>4 DEF ReadMode, Serving, This
  <2>2. CASE mode # This.mode
    <3> DEFINE x == [This EXCEPT !.op = "writeMode"]
    <3>1. x \in Items /\ x.op = "writeMode" /\ x.call = This.call /\ x.mode = This.mode
      BY <1>1 DEF Items, Kinds
    <3>2. Then(<<x>>)
      BY <1>4, <2>2 DEF ReadMode
    <3> HIDE DEF x
    <3> QED BY <2>1, <3>1, <3>2, FollowOne DEF Follows
  <2> QED BY <1>3, <1>4, <2>1, <2>2 DEF ReadMode
<1>5. CASE WriteMode
  <2>1. This.op = "writeMode"
    BY <1>5 DEF WriteMode, Serving, This
  <2> QED BY <1>3, <1>5, <2>1 DEF WriteMode
<1> QED BY <1>2, <1>4, <1>5

LEMMA SweepFollows ==
  ASSUME PresenceInv, CountAnyone \/ Settings \/ Recheck
  PROVE  \E ops \in Seq(Items) : Then(ops) /\ Follow(ops)
<1>1. This \in Items /\ This.op \in {"countAnyone", "setting1", "setting2", "setting3", "recheck"}
  BY HeadServed DEF CountAnyone, Settings, Recheck
<1>2. OfSweep(This) /\ "settings" \in Args /\ This.arg \in Args
  BY <1>1 DEF OfSweep, Args, Items
<1>3. ASSUME NEW kind \in Kinds, NEW arg \in Args, Then(<<Op(kind, arg)>>),
             \A x \in Items : x.op = kind => Follows(This, x),
             This.op # "upsert", This.op # "readMode"
      PROVE  \E ops \in Seq(Items) : Then(ops) /\ Follow(ops)
  <2> DEFINE x == Op(kind, arg)
  <2>1. x \in Items /\ x.op = kind
    BY OpType
  <2>2. Then(<<x>>)
    BY <1>3
  <2> HIDE DEF x
  <2> QED BY <1>3, <2>1, <2>2, FollowOne
<1>4. {"setting2", "setting3", "recheck", "leftUser"} \subseteq Kinds
  BY DEF Kinds
<1>5. CASE CountAnyone
  <2> DEFINE empty == (online = {})
             x == [This EXCEPT !.op = "leftMode", !.carries = empty]
  <2>1. Then(<<x>>) /\ This.op = "countAnyone"
    BY <1>5 DEF CountAnyone, Serving, This
  <2>2. empty \in BOOLEAN
    OBVIOUS
  <2> HIDE DEF empty
  <2>3. x \in Items /\ x.op = "leftMode" /\ x.carries = empty
    BY <1>1, <2>2 DEF Items, Kinds
  <2> HIDE DEF x
  <2>4. Follows(This, x)
    BY <2>1, <2>3 DEF Follows, empty
  <2> QED BY <2>1, <2>3, <2>4, FollowOne
<1>6. CASE Settings
  <2>1. CASE This.op = "setting1" /\ Then(<<Op("setting2", "settings")>>)
    BY <1>2, <1>3, <1>4, <2>1 DEF Follows
  <2>2. CASE This.op = "setting2" /\ Then(<<Op("setting3", "settings")>>)
    BY <1>2, <1>3, <1>4, <2>2 DEF Follows
  <2>3. CASE This.op = "setting3" /\ Then(<<>>)
    BY <2>3, FollowNone
  <2>4. ASSUME This.op = "setting3", NEW p \in ripe, Then(<<Op("recheck", p)>>)
        PROVE  \E ops \in Seq(Items) : Then(ops) /\ Follow(ops)
    <3>1. p \in Args
      BY <2>4 DEF PresenceInv, PresenceTypes
    <3> QED BY <1>2, <1>3, <1>4, <2>4, <3>1 DEF Follows
  <2> QED BY <1>6, <2>1, <2>2, <2>3, <2>4 DEF Settings, Serving, This, Done
<1>7. CASE Recheck
  <2>1. This.op = "recheck"
    BY <1>7 DEF Recheck, Serving, This
  <2>2. CASE NextPerson(sweep.todo)
    BY <1>2, <2>1, <2>2, NextFollows
  <2>3. CASE Then(<<Op("leftUser", This.arg)>>) /\ ~Signal(This.arg)
    BY <1>2, <1>3, <1>4, <2>1, <2>3 DEF Follows
  <2> QED BY <1>7, <2>2, <2>3 DEF Recheck, BackAgain
<1> QED BY <1>5, <1>6, <1>7

LEMMA ServeFollows ==
  ASSUME PresenceInv, Serve, Head(queue).op # "reconcile"
  PROVE  \E ops \in Seq(Items) : Then(ops) /\ Follow(ops)
<1>1. ~Reconcile
  BY DEF Reconcile, Serving
<1>2. CASE FindDevice \/ Upsert \/ FindStale \/ MarkStale
  BY <1>2, ScanFollows
<1>3. CASE \/ OwnerOnline \/ OwnerOffline \/ CountOnline
           \/ ArriveUser \/ ArriveRow \/ ArriveMode \/ LeftUser \/ LeftRow
  BY <1>3, EventFollows
<1>4. CASE CountAnyone \/ LeftMode \/ ReadMode \/ WriteMode \/ Settings \/ Recheck
  BY <1>4, ModeFollows, SweepFollows
<1> QED BY <1>1, <1>2, <1>3, <1>4 DEF Serve

-----------------------------------------------------------------------------
LEMMA ServeChanges ==
  ASSUME PresenceInv, DepartureInv, Serve, Head(queue).op # "reconcile"
  PROVE  /\ This.op \notin ScanOps => UNCHANGED <<online, scan>>
         /\ This.op # "writeMode" => UNCHANGED modes
         /\ This.op = "writeMode" => mode' = This.mode /\ home' = home
                                     /\ (source' = "presence" => This.call # "user")
         /\ \A p \in People : home'[p] = "yes" => home[p] = "yes" \/ This.op = "arriveUser"
         /\ This.op = "leftUser" => This.arg \in People /\ home'[This.arg] = "no"
         /\ This.op \notin {"countOnline", "recheck"} => pending' \subseteq pending
<1>1. queue # <<>>
  BY DEF Serve, FindDevice, Upsert, FindStale, MarkStale, OwnerOnline, OwnerOffline, CountOnline,
         ArriveUser, ArriveRow, ArriveMode, LeftUser, LeftRow, CountAnyone, LeftMode,
         ReadMode, WriteMode, Settings, Recheck, Reconcile, Serving
<1>2. PresenceTypes /\ HomeIs /\ GoersAre /\ This \in Range(queue) /\ This = Head(queue)
  BY <1>1, DepartureFacts DEF This
<1>3. home \in [People -> {"yes", "no", "unknown"}]
  BY <1>2 DEF PresenceTypes
<1>4. This.op = "leftUser" => This.arg \in People
  BY <1>2 DEF GoersAre, Goers
<1>5. This.op = "recheck" => home[This.arg] = "yes"
  BY <1>2 DEF HomeIs
<1>6. CASE FindDevice \/ Upsert \/ FindStale \/ MarkStale
  <2>1. This.op \in ScanOps /\ UNCHANGED <<leaving, home, modes>>
    BY <1>2, <1>6 DEF FindDevice, Upsert, FindStale, MarkStale, Serving, ScanOps
  <2> QED BY <2>1 DEF ScanOps, leaving
<1>7. CASE OwnerOnline \/ OwnerOffline \/ CountOnline
  <2>1. /\ This.op \in {"ownerOnline", "ownerOffline", "countOnline"}
        /\ UNCHANGED <<online, home, modes, scan>>
        /\ This.op # "countOnline" => pending' \subseteq pending
    BY <1>2, <1>7 DEF OwnerOnline, OwnerOffline, CountOnline, Serving, NoLongerPending, leaving
  <2> QED BY <2>1
<1>8. CASE ArriveUser \/ LeftUser
  <2>1. /\ UNCHANGED <<online, leaving, modes, scan>>
        /\ This.op \in {"arriveUser", "leftUser"}
        /\ This.op = "leftUser" => home' = [home EXCEPT ![This.arg] = "no"]
    BY <1>2, <1>8 DEF ArriveUser, LeftUser, Serving
  <2> QED BY <1>3, <1>4, <2>1 DEF leaving
<1>9. CASE ArriveRow \/ ArriveMode \/ LeftRow \/ CountAnyone \/ LeftMode \/ ReadMode \/ Settings
  <2>1. /\ UNCHANGED <<online, leaving, home, modes, scan>>
        /\ This.op \notin {"leftUser", "writeMode"}
    BY <1>2, <1>9 DEF ArriveRow, ArriveMode, LeftRow, CountAnyone, LeftMode, ReadMode, Settings, Serving
  <2> QED BY <2>1 DEF leaving
<1>10. CASE WriteMode
  <2>1. /\ UNCHANGED <<online, leaving, home, scan>> /\ This.op = "writeMode" /\ mode' = This.mode
        /\ source' = IF This.call = "user" THEN "user" ELSE "presence"
    BY <1>2, <1>10 DEF WriteMode, Serving
  <2> QED BY <2>1 DEF leaving
<1>11. CASE Recheck
  <2>1. /\ UNCHANGED <<online, modes, scan>> /\ This.op = "recheck"
        /\ home' = home \/ home' = [home EXCEPT ![This.arg] = "yes"]
    BY <1>2, <1>11 DEF Recheck, Serving
  <2> QED BY <1>3, <1>5, <2>1
<1>12. ~Reconcile
  BY DEF Reconcile, Serving
<1> QED BY <1>6, <1>7, <1>8, <1>9, <1>10, <1>11, <1>12 DEF Serve

\* What a step of the scan makes of the devices that are online.
LEMMA ScanChanges ==
  ASSUME OneScan, PresenceInv, DepartureInv, Serve, queue # <<>>, This.op \in ScanOps,
         NEW ops \in Seq(Items), Then(ops), Follow(ops)
  PROVE  /\ This.op \in {"findDevice", "findStale"} => online' = online
         /\ This.op = "upsert" => online' = online \cup {This.arg} /\ This.arg \in scan[This.call].seen
         /\ This.op = "markStale" => online' = online \cap scan[This.call].seen
         /\ \A x \in Rest : x.op \notin ScanOps
         /\ \A y \in Range(ops) : y.op \in ScanOps =>
              y.call = This.call /\ scan'[y.call].seen = scan[This.call].seen
<1>1. Head(queue).op # "reconcile" /\ This = Head(queue)
  BY DEF This, ScanOps
<1>2. /\ PresenceTypes /\ ScanInv /\ SeenIs /\ This \in Range(queue) /\ This = queue[1] /\ 1 \in DOMAIN queue
  BY <1>1, DepartureFacts
<1>3. /\ This.call \in Scanners /\ scan \in [Scanners -> Scannings]
  BY <1>2 DEF ScanInv, Scans, PresenceTypes
<1>4. \A x \in Rest : x.op \notin ScanOps
  BY <1>2 DEF ScanInv, Rest
<1>5. This.op = "upsert" => This.arg \in scan[This.call].seen
  BY <1>2 DEF SeenIs
<1>6. ScanInv'
  <2>1. [Next]_vars
    BY DEF Next
  <2> QED BY <2>1, NextInvariant DEF PresenceInv
<1>7. Range(queue') = Rest \cup Range(ops)
  BY <1>2, ServedItems
<1>8. ASSUME NEW y \in Range(ops), y.op \in ScanOps
      PROVE  /\ This.op # "markStale" /\ y.call = This.call /\ scan'[y.call].on
  <2>1. Follows(This, y)
    BY DEF Follow
  <2>2. This.op # "markStale" /\ y.call = This.call
    BY <1>8, <2>1 DEF Follows, ScanOps, OfSweep
  <2>3. y \in Range(queue')
    BY <1>7
  <2>4. scan'[y.call].on
    BY <1>6, <1>8, <2>3 DEF ScanInv, Scans, Range
  <2> QED BY <2>2, <2>4
<1>9. /\ This.op = "findDevice" => FindDevice
      /\ This.op = "upsert" => Upsert
      /\ This.op = "findStale" => FindStale
      /\ This.op = "markStale" => MarkStale
  BY <1>1 DEF Serve, FindDevice, Upsert, FindStale, MarkStale, OwnerOnline, OwnerOffline, CountOnline,
              ArriveUser, ArriveRow, ArriveMode, LeftUser, LeftRow, CountAnyone, LeftMode,
              ReadMode, WriteMode, Settings, Recheck, Reconcile, Serving
<1>10. CASE This.op = "findDevice"
  BY <1>4, <1>8, <1>9, <1>10 DEF FindDevice
<1>11. CASE This.op = "upsert"
  <2>1. /\ online' = online \cup {This.arg}
        /\ scan' = [scan EXCEPT ![This.call].todo = scan[This.call].todo \ {This.arg}]
    BY <1>9, <1>11 DEF Upsert
  <2>2. scan'[This.call].seen = scan[This.call].seen
    BY <1>3, <2>1 DEF Scannings
  <2> QED BY <1>4, <1>5, <1>8, <1>11, <2>1, <2>2
<1>12. CASE This.op = "findStale"
  <2>1. online' = online
    BY <1>9, <1>12 DEF FindStale
  <2>2. CASE scan' = [scan EXCEPT ![This.call] = NoScan]
    <3>1. ~scan'[This.call].on
      BY <1>3, <2>2 DEF NoScan
    <3> QED BY <1>4, <1>8, <1>12, <2>1, <3>1
  <2>3. CASE scan' = [scan EXCEPT ![This.call].todo = online \ scan[This.call].seen]
    <3>1. scan'[This.call].seen = scan[This.call].seen
      BY <1>3, <2>3 DEF Scannings
    <3> QED BY <1>4, <1>8, <1>12, <2>1, <3>1
  <2> QED BY <1>9, <1>12, <2>2, <2>3 DEF FindStale, EndScan
<1>13. CASE This.op = "markStale"
  <2>1. online' = online \cap scan[This.call].seen
    BY <1>9, <1>13 DEF MarkStale
  <2> QED BY <1>4, <1>8, <1>13, <2>1
<1> QED BY <1>10, <1>11, <1>12, <1>13 DEF ScanOps

-----------------------------------------------------------------------------
\* The mode of the house.

\* What will turn the house to `home'.
Arrives(x) == x.op \in {"arriveRow", "arriveMode"}
TurnsHome(x) == x.op \in {"readMode", "writeMode"} /\ x.mode = "home"
SomebodyHome == \E p \in People : home[p] = "yes"

HouseInv ==
  /\ mode = "away" /\ source = "presence" /\ SomebodyHome =>
       \E x \in Range(queue) : Arrives(x) \/ TurnsHome(x)
  /\ \A x \in Range(queue) : x.op \in {"readMode", "writeMode"} =>
       \/ x.call = "user"
       \/ x.call = "sweep" /\ x.mode = "away"
       \/ x.call = "event" /\ x.mode = "home"
  /\ Restarting => /\ source = "before"
                   /\ \A x \in Range(queue) : x.op = "readMode" => x.call = "user"

\* The sweep sets `away' with nobody at home, or with an arrival on its way.
AwayIsRight ==
  This.op = "writeMode" /\ This.call = "sweep" /\ SomebodyHome => \E x \in Rest : Arrives(x)

LEMMA HouseServed ==
  ASSUME PresenceInv, DepartureInv, HouseInv, Serve, queue # <<>>, Head(queue).op # "reconcile",
         NEW ops \in Seq(Items), Then(ops), Follow(ops), AwayIsRight
  PROVE  HouseInv'
<1>1. /\ PresenceTypes /\ ~Restarting /\ This \in Range(queue) /\ This = queue[1]
  BY DepartureFacts
<1>2. /\ Range(queue') = Rest \cup Range(ops) /\ Range(queue) = {This} \cup Rest
  BY <1>1, ServedItems
<1>3. /\ This.op # "writeMode" => UNCHANGED modes
      /\ This.op = "writeMode" => mode' = This.mode /\ home' = home
                                  /\ (source' = "presence" => This.call # "user")
      /\ \A p \in People : home'[p] = "yes" => home[p] = "yes" \/ This.op = "arriveUser"
  BY ServeChanges
<1>4. \A y \in Range(ops) : Follows(This, y)
  BY DEF Follow
<1>5. ~Restarting'
  <2>1. \A y \in Range(ops) : y.op # "reconcile"
    BY <1>4 DEF Follows
  <2>2. \A k \in DOMAIN ops : ops[k].op # "reconcile"
    BY <2>1 DEF Range
  <2>3. queue \in Seq(Items) /\ queue' = Tail(queue) \o ops
    BY <1>1 DEF PresenceTypes, Then
  <2> QED BY <1>1, <2>2, <2>3, RestartServed DEF PresenceInv
<1>6. \A x \in Range(queue') : x.op \in {"readMode", "writeMode"} =>
         \/ x.call = "user"
         \/ x.call = "sweep" /\ x.mode = "away"
         \/ x.call = "event" /\ x.mode = "home"
  <2>1. ASSUME NEW y \in Range(ops), y.op \in {"readMode", "writeMode"}
        PROVE  \/ y.call = "user"
               \/ y.call = "sweep" /\ y.mode = "away"
               \/ y.call = "event" /\ y.mode = "home"
    <3>1. Follows(This, y)
      BY <1>4
    <3>2. \/ y.call = "event" /\ y.mode = "home"
          \/ y.call = "sweep" /\ y.mode = "away"
          \/ This.op = "readMode" /\ y.call = This.call /\ y.mode = This.mode
      BY <2>1, <3>1 DEF Follows
    <3> QED BY <1>1, <3>2 DEF HouseInv
  <2> QED BY <1>2, <2>1 DEF HouseInv
<1>7. ASSUME mode' = "away", source' = "presence", SomebodyHome'
      PROVE  \E x \in Range(queue') : Arrives(x) \/ TurnsHome(x)
  <2>1. CASE This.op = "writeMode"
    <3>1. This.mode = "away" /\ This.call # "user" /\ SomebodyHome
      BY <1>3, <1>7, <2>1 DEF SomebodyHome
    <3>2. This.call = "sweep"
      BY <1>1, <2>1, <3>1 DEF HouseInv
    <3> QED BY <1>2, <2>1, <3>1, <3>2 DEF AwayIsRight
  <2>2. CASE This.op = "arriveUser"
    <3>1. \E y \in Range(ops) : y.op = "arriveRow"
      BY <2>2 DEF Follow
    <3> QED BY <1>2, <3>1 DEF Arrives
  <2>3. CASE This.op \notin {"writeMode", "arriveUser"}
    <3>1. mode = "away" /\ source = "presence" /\ SomebodyHome
      BY <1>3, <1>7, <2>3 DEF modes, SomebodyHome
    <3>2. PICK x \in Range(queue) : Arrives(x) \/ TurnsHome(x)
      BY <3>1 DEF HouseInv
    <3>3. CASE x \in Rest
      BY <1>2, <3>2, <3>3
    <3>4. CASE x = This
      <4>1. /\ This.op = "arriveRow" => \E y \in Range(ops) : y.op = "arriveMode"
            /\ This.op = "arriveMode" /\ mode = "away" => \E y \in Range(ops) : y.op = "readMode" /\ y.mode = "home"
            /\ This.op = "readMode" /\ mode # This.mode =>
                 \E y \in Range(ops) : y.op = "writeMode" /\ y.mode = This.mode
        BY DEF Follow
      <4>2. \E y \in Range(ops) : Arrives(y) \/ TurnsHome(y)
        BY <2>3, <3>1, <3>2, <3>4, <4>1 DEF Arrives, TurnsHome
      <4> QED BY <1>2, <4>2
    <3> QED BY <1>2, <3>3, <3>4
  <2> QED BY <2>1, <2>2, <2>3
<1> QED BY <1>5, <1>6, <1>7 DEF HouseInv

LEMMA HouseAdded ==
  ASSUME PresenceInv, HouseInv, UNCHANGED <<home, modes>>, NEW x \in Items, queue' = queue \o <<x>>,
         x.op \in {"setting1", "findDevice", "findStale"} \/ (x.op = "readMode" /\ x.call = "user")
  PROVE  HouseInv'
<1>1. Range(queue') = Range(queue) \cup {x}
  BY AddedItems DEF PresenceInv
<1>2. Restarting' <=> Restarting
  <2>1. Restarting <=> \E y \in Range(queue) : y.op = "reconcile"
    BY DEF Restarting, Range
  <2>2. Restarting' <=> \E y \in Range(queue') : y.op = "reconcile"
    BY DEF Restarting, Range
  <2> QED BY <1>1, <2>1, <2>2
<1> QED BY <1>1, <1>2 DEF HouseInv, SomebodyHome, modes

-----------------------------------------------------------------------------
\* The steps, as what they do to the queue.

\* Right after a start only people set the mode.
Fresh ==
  /\ source = "before"
  /\ \A x \in Range(queue) : x.op = "reconcile" \/ (x.op = "readMode" /\ x.call = "user")

Added(x) ==
  /\ queue' = queue \o <<x>> /\ UNCHANGED <<online, pending, home, modes>>
  /\ \/ x.op = "setting1" /\ UNCHANGED scan
     \/ x.op = "readMode" /\ x.call = "user" /\ UNCHANGED scan
     \/ /\ x.op \in {"findDevice", "findStale"}
        /\ \E s \in Scanners, seen \in SUBSET Devices : ScanReports(s, seen)

Served(ops) ==
  /\ Serve /\ queue # <<>> /\ Head(queue).op # "reconcile"
  /\ Then(ops) /\ Follow(ops)

LEMMA FreshHouse == Fresh => HouseInv
  BY DEF Fresh, HouseInv

LEMMA StartFresh ==
  ASSUME queue = <<Op("reconcile", "all")>>, source = "before"
  PROVE  Fresh
<1> DEFINE x == Op("reconcile", "all")
<1>1. x \in Items /\ x.op = "reconcile"
  BY OpType DEF Kinds, Args
<1>2. queue = <<x>>
  OBVIOUS
<1> HIDE DEF x
<1>3. Range(queue) = {x}
  BY <1>1, <1>2, RangeOne
<1> QED BY <1>1, <1>3 DEF Fresh

LEMMA InitFresh == Init => Fresh
  BY StartFresh DEF Init

LEMMA CrashFresh == Crash => Fresh'
<1>1. Crash => (queue = <<Op("reconcile", "all")>> /\ source = "before")'
  BY DEF Crash
<1>2. queue = <<Op("reconcile", "all")>> /\ source = "before" => Fresh
  BY StartFresh
<1> QED BY <1>1, <1>2, PTL

LEMMA ReconcileFresh ==
  ASSUME PresenceInv, HouseInv, Reconcile
  PROVE  Fresh'
<1>1. /\ PresenceTypes /\ RestartInv /\ queue # <<>> /\ 1 \in DOMAIN queue
      /\ This = queue[1] /\ This.op = "reconcile"
  BY HeadServed DEF Reconcile
<1>2. Restarting /\ Then(<<>>) /\ source' = source
  BY <1>1 DEF Restarting, Reconcile, Done, modes
<1>3. \A x \in Rest : x.op = "readMode"
  <2>1. \A j \in DOMAIN queue \ {1} : j > 1
    BY <1>1, ServedElements DEF PresenceTypes
  <2> QED BY <1>1, <2>1 DEF RestartInv, Rest
<1>4. Range(queue') = Rest /\ Rest \subseteq Range(queue)
  <2> DEFINE ops == <<>>
  <2>1. ops \in Seq(Items) /\ Range(ops) = {} /\ Then(ops)
    BY <1>2, NoItem, RangeOne
  <2> HIDE DEF ops
  <2> QED BY <1>1, <2>1, ServedItems
<1> QED BY <1>2, <1>3, <1>4 DEF Fresh, HouseInv

LEMMA StepsAre ==
  ASSUME PresenceInv, DepartureInv, HouseInv, [Next]_vars
  PROVE  \/ Fresh'
         \/ \E ops \in Seq(Items) : Served(ops)
         \/ \E x \in Items : Added(x)
         \/ UNCHANGED <<online, pending, home, modes, scan, queue>>
<1>1. CASE Serve
  <2>1. queue # <<>>
    BY <1>1 DEF Serve, FindDevice, Upsert, FindStale, MarkStale, OwnerOnline, OwnerOffline, CountOnline,
           ArriveUser, ArriveRow, ArriveMode, LeftUser, LeftRow, CountAnyone, LeftMode,
           ReadMode, WriteMode, Settings, Recheck, Reconcile, Serving
  <2>2. CASE Head(queue).op # "reconcile"
    BY <1>1, <2>1, <2>2, ServeFollows DEF Served
  <2>3. CASE Head(queue).op = "reconcile"
    <3>1. Reconcile
      BY <1>1, <2>3 DEF Serve, FindDevice, Upsert, FindStale, MarkStale, OwnerOnline, OwnerOffline, CountOnline,
             ArriveUser, ArriveRow, ArriveMode, LeftUser, LeftRow, CountAnyone, LeftMode,
             ReadMode, WriteMode, Settings, Recheck, Serving
    <3> QED BY <3>1, ReconcileFresh
  <2> QED BY <2>2, <2>3
<1>2. queue \in Seq(Items)
  BY DEF PresenceInv, PresenceTypes
<1>3. CASE Sweep
  <2> DEFINE x == Op("setting1", "settings")
  <2>1. x \in Items /\ x.op = "setting1"
    BY OpType DEF Kinds, Args
  <2>2. queue' = queue \o <<x>> /\ UNCHANGED <<online, pending, home, modes, scan>>
    BY <1>2, <1>3, <2>1, PublishIsConcat DEF Sweep, leaving
  <2> HIDE DEF x
  <2> QED BY <2>1, <2>2 DEF Added
<1>4. ASSUME NEW m \in ManualModes, UserSetsMode(m)
      PROVE  \E x \in Items : Added(x)
  <2> DEFINE x == SetMode(m, "user")
  <2>1. x \in Items /\ x.op = "readMode"
    BY ModesAssumption, SetModeType DEF Modes, Callers
  <2>2. x.call = "user"
    BY DEF SetMode, Op
  <2>3. queue' = queue \o <<x>> /\ UNCHANGED <<online, pending, home, modes, scan>>
    BY <1>2, <1>4, <2>1, PublishIsConcat DEF UserSetsMode, leaving
  <2> HIDE DEF x
  <2> QED BY <2>1, <2>2, <2>3 DEF Added
<1>5. ASSUME NEW s \in Scanners, NEW seen \in SUBSET Devices, ScanReports(s, seen)
      PROVE  \E x \in Items : Added(x)
  <2>1. PICK next \in NextDevice(s, seen) : queue' = queue \o next
    BY <1>5 DEF ScanReports
  <2>2. PICK x \in Items : next = <<x>> /\ x.op \in {"findDevice", "findStale"}
    BY NextDeviceType
  <2>3. UNCHANGED <<online, pending, home, modes>>
    BY <1>5 DEF ScanReports, leaving
  <2> QED BY <1>5, <2>1, <2>2, <2>3 DEF Added
<1>6. CASE (\E p \in People : GraceEnds(p)) \/ UNCHANGED vars
  BY <1>6 DEF GraceEnds, vars, leaving, modes
<1>7. CASE Crash
  BY <1>7, CrashFresh
<1> QED BY <1>1, <1>3, <1>4, <1>5, <1>6, <1>7 DEF Next

LEMMA HouseKept ==
  ASSUME PresenceInv, DepartureInv, HouseInv, [Next]_vars,
         \A ops \in Seq(Items) : Served(ops) => AwayIsRight
  PROVE  HouseInv'
<1>1. CASE Fresh'
  BY <1>1, FreshHouse, PTL
<1>2. ASSUME NEW ops \in Seq(Items), Served(ops)
      PROVE  HouseInv'
  BY <1>2, HouseServed DEF Served
<1>3. ASSUME NEW x \in Items, Added(x)
      PROVE  HouseInv'
  BY <1>3, HouseAdded DEF Added
<1>4. CASE UNCHANGED <<online, pending, home, modes, scan, queue>>
  BY <1>4 DEF HouseInv, SomebodyHome, modes, Restarting
<1> QED BY <1>1, <1>2, <1>3, <1>4, StepsAre

\* When nothing is in flight nothing will turn the house to `home'.
LEMMA AwayIsEmptyNow ==
  ASSUME HouseInv
  PROVE  AwayMeansEmpty
<1>1. queue = <<>> => Range(queue) = {}
  BY RangeOne
<1> QED BY <1>1 DEF HouseInv, AwayMeansEmpty, SomebodyHome

-----------------------------------------------------------------------------
\* The empty house, when no report comes while a sweep works.

\* The scan saw something that is online.
Shown(x) == scan[x.call].seen \cap online # {}
Late(x) == \/ x.op \in {"leftUser", "leftRow", "countAnyone", "leftMode"}
           \/ x.op \in {"readMode", "writeMode"} /\ x.call = "sweep"
Counts == {"ownerOffline", "countOnline"}

\* A scan that a sweep meets has shown somebody; with nothing online nobody is
\* about to be told lost beside a departure.
EmptyBefore(x, y) ==
  /\ x.op \in ScanOps /\ (y.op \in {"setting3", "recheck"} \/ Late(y)) => Shown(x)
  /\ OfSweep(x) /\ y.op \in ScanOps => Shown(y) \/ (x.op = "setting1" /\ y.op \in {"upsert", "markStale"})
  /\ x.op \in ScanOps /\ y.op = "setting2" => Shown(x) \/ x.op \in {"upsert", "markStale"}
  /\ online = {} =>
       /\ ~(x.op \in Counts /\ Late(y)) /\ ~(Late(x) /\ y.op \in Counts)
       /\ ~(x.op = "recheck" /\ y.op \in Counts) /\ ~(x.op = "ownerOffline" /\ y.op = "recheck")
       /\ ~(x.op = "setting3" /\ y.op = "ownerOffline")
EmptyOrder == {xy \in Items \X Items : EmptyBefore(xy[1], xy[2])}

\* What the sweep counted is still so when it sets the mode.
Decided(x) ==
  /\ x.op = "leftMode" /\ x.carries => online = {}
  /\ x.op \in {"readMode", "writeMode"} /\ x.call = "sweep" => online = {} /\ pending = {}

EmptyInv ==
  /\ Ordered(queue, EmptyOrder)
  /\ \A x \in Range(queue) : Decided(x)

LEMMA EmptyOrderIs ==
  /\ \A x, y \in Items : <<x, y>> \in EmptyOrder <=> EmptyBefore(x, y)
  /\ \A x, y \in Items : <<x, y>> \in EmptyOrder' <=> EmptyBefore(x, y)'
  BY DEF EmptyOrder

LEMMA AllOrdered ==
  ASSUME NEW q, NEW R, \A x, y \in Range(q) : <<x, y>> \in R
  PROVE  Ordered(q, R)
<1>1. \A i \in DOMAIN q : q[i] \in Range(q)
  BY DEF Range
<1> QED BY <1>1 DEF Ordered

\* What one step asks for is in order.
LEMMA FollowOrdered ==
  ASSUME NEW ops \in Seq(Items), Follow(ops), NEW R,
         \A x, y \in Items :
           x.op \in {"ownerOnline", "ownerOffline"} /\ y.op \in {"findDevice", "findStale", "ownerOffline"}
             => <<x, y>> \in R
  PROVE  Ordered(ops, R)
<1>1. \A i \in DOMAIN ops : ops[i] \in Items
  OBVIOUS
<1> QED BY <1>1 DEF Follow, Ordered

LEMMA EmptyFresh == PresenceTypes /\ Fresh => EmptyInv
<1> SUFFICES ASSUME PresenceTypes, Fresh PROVE EmptyInv
  OBVIOUS
<1>1. \A x \in Range(queue) : x \in Items
  <2>1. \A i \in DOMAIN queue : queue[i] \in Items
    BY DEF PresenceTypes
  <2> QED BY <2>1 DEF Range
<1>2. ASSUME NEW x \in Range(queue), NEW y \in Range(queue)
      PROVE  <<x, y>> \in EmptyOrder
  <2>1. x.op \in {"reconcile", "readMode"} /\ y.op \in {"reconcile", "readMode"} /\ ~Late(x) /\ ~Late(y) /\ ~OfSweep(x)
    BY DEF Fresh, Late, OfSweep
  <2>2. EmptyBefore(x, y)
    BY <2>1 DEF EmptyBefore, ScanOps, Counts
  <2> QED BY <1>1, <2>2, EmptyOrderIs
<1>3. Ordered(queue, EmptyOrder)
  BY <1>2, AllOrdered
<1> QED BY <1>3 DEF EmptyInv, Fresh, Decided

\* What is known when an operation is served.
LEMMA EmptyFacts ==
  ASSUME PresenceInv, DepartureInv, EmptyInv, NEW ops \in Seq(Items), Served(ops)
  PROVE  /\ PresenceTypes /\ This \in Items /\ Rest \subseteq Items /\ Range(ops) \subseteq Items
         /\ Range(queue') = Rest \cup Range(ops)
         /\ \A x \in Rest : EmptyBefore(This, x) /\ LeavesBefore(This, x) /\ Decided(x)
         /\ Decided(This) /\ \A y \in Range(ops) : Follows(This, y)
<1>1. PresenceTypes /\ This = queue[1] /\ \A x \in Rest : LeavesBefore(This, x)
  BY DepartureFacts DEF Served
<1>2. /\ This \in Items /\ Rest \subseteq Items /\ Range(ops) \subseteq Items
      /\ Range(queue') = Rest \cup Range(ops) /\ Range(queue) = {This} \cup Rest
      /\ \A x \in Rest : <<This, x>> \in EmptyOrder
  BY <1>1, ServedItems DEF Served, EmptyInv
<1>3. \A x \in Rest : EmptyBefore(This, x)
  BY <1>2, EmptyOrderIs
<1> QED BY <1>1, <1>2, <1>3 DEF EmptyInv, Served, Follow

\* A scan goes on.
LEMMA EmptyByScan ==
  ASSUME OneScan, PresenceInv, DepartureInv, EmptyInv, NEW ops \in Seq(Items), Served(ops),
         This.op \in ScanOps
  PROVE  /\ \A x, y \in Rest : EmptyBefore(x, y) => EmptyBefore(x, y)'
         /\ \A x \in Rest, y \in Range(ops) : EmptyBefore(x, y)'
         /\ \A x \in Rest : Decided(x)'
         /\ \A y \in Range(ops) : Decided(y)'
<1>1. /\ \A x \in Rest : EmptyBefore(This, x) /\ LeavesBefore(This, x) /\ Decided(x)
      /\ \A y \in Range(ops) : Follows(This, y)
  BY EmptyFacts
<1>2. /\ This.op \in {"findDevice", "findStale"} => online' = online
      /\ This.op = "upsert" => online' = online \cup {This.arg} /\ This.arg \in scan[This.call].seen
      /\ This.op = "markStale" => online' = online \cap scan[This.call].seen
      /\ \A x \in Rest : x.op \notin ScanOps
      /\ \A y \in Range(ops) : y.op \in ScanOps =>
           y.call = This.call /\ scan'[y.call].seen = scan[This.call].seen
  BY ScanChanges DEF Served
<1>3. pending' \subseteq pending
  BY ServeChanges DEF Served, ScanOps
<1>4. Shown(This) => online # {} /\ online' # {}
  BY <1>2 DEF Shown, ScanOps
<1>5. ASSUME NEW x \in Rest, Late(x) \/ x.op \in {"setting3", "recheck"}
      PROVE  Shown(This)
  BY <1>1, <1>5 DEF EmptyBefore
<1>6. ASSUME NEW x \in Rest, NEW y \in Rest, EmptyBefore(x, y)
      PROVE  EmptyBefore(x, y)'
  <2>1. Late(x)' <=> Late(x)
    BY DEF Late
  <2>2. x.op \notin ScanOps /\ y.op \notin ScanOps
    BY <1>2
  <2>3. online' = {} => /\ ~(Late(x) \/ x.op \in {"setting3", "recheck"})
                        /\ ~(Late(y) \/ y.op \in {"setting3", "recheck"})
    BY <1>4, <1>5
  <2> QED BY <2>2, <2>3 DEF EmptyBefore, Late
<1>7. ASSUME NEW x \in Rest, NEW y \in Range(ops)
      PROVE  EmptyBefore(x, y)'
  <2>1. x.op \notin ScanOps
    BY <1>2
  <2>2. y.op \in ScanOps \cup {"ownerOnline", "ownerOffline"} /\ ~Late(y) /\ y.op # "recheck"
    BY <1>1 DEF Follows, ScanOps, OfSweep, Late
  <2>3. online' = {} => ~(Late(x) \/ x.op \in {"setting3", "recheck"})
    BY <1>4, <1>5
  <2>4. ASSUME OfSweep(x), y.op \in ScanOps
        PROVE  Shown(y)' \/ (x.op = "setting1" /\ y.op \in {"upsert", "markStale"})
    <3>1. Follows(This, y) /\ y.call = This.call /\ scan'[y.call].seen = scan[This.call].seen
      BY <1>1, <1>2, <2>4
    <3>2. CASE This.op = "upsert"
      BY <1>2, <3>1, <3>2 DEF Shown
    <3>3. CASE This.op \in {"findDevice", "findStale"}
      <4>1. y.op \in {"upsert", "markStale"}
        BY <3>1, <3>3 DEF Follows, OfSweep
      <4>2. Shown(This) => Shown(y)'
        BY <1>2, <3>1, <3>3 DEF Shown
      <4>3. x.op = "setting1" \/ Shown(This)
        <5>1. x.op = "setting2" => Shown(This)
          BY <1>1, <3>3 DEF EmptyBefore, ScanOps
        <5>2. x.op \in {"setting1", "setting2", "setting3", "recheck"} \/ Late(x)
          BY <2>4 DEF OfSweep, Late
        <5> QED BY <1>5, <5>1, <5>2
      <4> QED BY <4>1, <4>2, <4>3
    <3>4. This.op # "markStale"
      BY <2>4, <3>1 DEF Follows, ScanOps, OfSweep
    <3> QED BY <3>2, <3>3, <3>4 DEF ScanOps
  <2> QED BY <2>1, <2>2, <2>3, <2>4 DEF EmptyBefore, Late, Counts, OfSweep
<1>8. ASSUME NEW x \in Rest
      PROVE  Decided(x)'
  <2>1. Decided(x)
    BY <1>1
  <2>2. CASE \/ x.op = "leftMode" /\ x.carries
             \/ x.op \in {"readMode", "writeMode"} /\ x.call = "sweep"
    <3>1. Late(x) /\ online = {}
      BY <2>1, <2>2 DEF Decided, Late
    <3> QED BY <1>4, <1>5, <3>1
  <2> QED BY <2>2 DEF Decided
<1>9. ASSUME NEW y \in Range(ops)
      PROVE  Decided(y)'
  <2>1. y.op \notin {"leftMode", "readMode", "writeMode"}
    BY <1>1 DEF Follows, ScanOps, OfSweep
  <2> QED BY <2>1 DEF Decided
<1> QED BY <1>6, <1>7, <1>8, <1>9

\* Anything else leaves the devices and the scans alone.
LEMMA EmptyByOthers ==
  ASSUME PresenceInv, DepartureInv, EmptyInv, NEW ops \in Seq(Items), Served(ops),
         This.op \notin ScanOps
  PROVE  /\ \A x, y \in Rest : EmptyBefore(x, y) => EmptyBefore(x, y)'
         /\ \A x \in Rest, y \in Range(ops) : EmptyBefore(x, y)'
         /\ \A x \in Rest : Decided(x)'
         /\ \A y \in Range(ops) : Decided(y)'
<1>1. /\ \A x \in Rest : EmptyBefore(This, x) /\ LeavesBefore(This, x) /\ Decided(x)
      /\ \A y \in Range(ops) : Follows(This, y)
      /\ Decided(This)
  BY EmptyFacts
<1>2. /\ UNCHANGED <<online, scan>>
      /\ This.op \notin {"countOnline", "recheck"} => pending' \subseteq pending
  BY ServeChanges DEF Served
<1>3. \A x, y \in Rest : EmptyBefore(x, y) => EmptyBefore(x, y)'
  BY <1>2 DEF EmptyBefore, Shown, Late
<1>4. ASSUME NEW x \in Rest, NEW y \in Range(ops)
      PROVE  EmptyBefore(x, y)'
  <2>1. EmptyBefore(This, x) /\ Follows(This, y) /\ y.op \notin ScanOps
    <3>1. Follows(This, y)
      BY <1>1
    <3>2. y.op \notin ScanOps
      BY <3>1 DEF Follows, ScanOps, OfSweep
    <3> QED BY <1>1, <3>1, <3>2
  <2>2. (Shown(x)' <=> Shown(x)) /\ (Late(x)' <=> Late(x)) /\ (Late(y)' <=> Late(y))
    BY <1>2 DEF Shown, Late
  <2>3. SUFFICES /\ x.op \in ScanOps /\ (y.op \in {"setting3", "recheck"} \/ Late(y)) => Shown(x)
                 /\ x.op \in ScanOps /\ y.op = "setting2" => Shown(x) \/ x.op \in {"upsert", "markStale"}
                 /\ online = {} =>
                      /\ ~(x.op \in Counts /\ Late(y)) /\ ~(Late(x) /\ y.op \in Counts)
                      /\ ~(x.op = "recheck" /\ y.op \in Counts) /\ ~(x.op = "ownerOffline" /\ y.op = "recheck")
                      /\ ~(x.op = "setting3" /\ y.op = "ownerOffline")
    BY <1>2, <2>1, <2>2 DEF EmptyBefore
  <2>4. Late(y) => Late(This) \/ This.op = "recheck"
    BY <2>1 DEF Follows, Late, OfSweep
  <2>5. Late(y) => OfSweep(This) /\ This.op \notin {"setting1", "setting2"}
    BY <2>4 DEF Late, OfSweep
  <2>6. y.op = "setting3" => This.op = "setting2" /\ OfSweep(This)
    BY <2>1 DEF Follows, OfSweep
  <2>7. y.op = "recheck" => OfSweep(This) /\ This.op \notin {"setting1", "setting2"}
    BY <2>1 DEF Follows
  <2>8. y.op = "setting2" => OfSweep(This) /\ This.op = "setting1"
    BY <2>1 DEF Follows, OfSweep
  <2>9. y.op \in Counts => This.op = "ownerOffline"
    BY <1>1, <2>1 DEF Follows, Counts, ScanOps, OfSweep
  <2>10. x.op \in ScanOps /\ (y.op \in {"setting3", "recheck"} \/ Late(y)) => Shown(x)
    BY <2>1, <2>5, <2>6, <2>7 DEF EmptyBefore
  <2>11. x.op \in ScanOps /\ y.op = "setting2" => Shown(x) \/ x.op \in {"upsert", "markStale"}
    BY <2>1, <2>8 DEF EmptyBefore
  <2>12. ASSUME online = {}
         PROVE  /\ ~(x.op \in Counts /\ Late(y)) /\ ~(Late(x) /\ y.op \in Counts)
                /\ ~(x.op = "recheck" /\ y.op \in Counts) /\ ~(x.op = "ownerOffline" /\ y.op = "recheck")
                /\ ~(x.op = "setting3" /\ y.op = "ownerOffline")
    <3>1. ~(x.op \in Counts /\ Late(y))
      BY <2>1, <2>4, <2>12 DEF EmptyBefore
    <3>2. ~(Late(x) /\ y.op \in Counts) /\ ~(x.op = "recheck" /\ y.op \in Counts)
      BY <2>1, <2>9, <2>12 DEF EmptyBefore, Counts
    <3>3. ~(x.op = "ownerOffline" /\ y.op = "recheck")
      <4>1. y.op = "recheck" => This.op \in {"setting3", "recheck"} \/ Late(This)
        BY <2>7 DEF OfSweep, Late
      <4> QED BY <2>1, <2>12, <4>1 DEF EmptyBefore, Counts
    <3>4. y.op # "ownerOffline"
      BY <2>1 DEF Follows, OfSweep, ScanOps
    <3> QED BY <3>1, <3>2, <3>3, <3>4
  <2> QED BY <2>10, <2>11, <2>12
<1>5. ASSUME NEW x \in Rest
      PROVE  Decided(x)'
  <2>1. Decided(x)
    BY <1>1
  <2>2. ASSUME x.op \in {"readMode", "writeMode"}, x.call = "sweep"
        PROVE  pending' \subseteq pending
    <3>1. Late(x) /\ OfSweep(x) /\ online = {}
      BY <2>1, <2>2 DEF Late, OfSweep, Decided
    <3>2. This.op \notin {"countOnline", "recheck"}
      BY <1>1, <3>1 DEF EmptyBefore, LeavesBefore, OfSweep, Counts
    <3> QED BY <1>2, <3>2
  <2> QED BY <1>2, <2>1, <2>2 DEF Decided
<1>6. ASSUME NEW y \in Range(ops)
      PROVE  Decided(y)'
  <2>1. Follows(This, y)
    BY <1>1
  <2>2. y.op = "leftMode" /\ y.carries => online = {}
    BY <2>1 DEF Follows, OfSweep
  <2>3. ASSUME y.op \in {"readMode", "writeMode"}, y.call = "sweep"
        PROVE  online = {} /\ pending = {} /\ This.op \in {"leftMode", "readMode"}
    <3>1. \/ This.op = "leftMode" /\ This.carries /\ pending = {}
          \/ This.op = "readMode" /\ This.call = "sweep"
      BY <2>1, <2>3 DEF Follows, OfSweep
    <3> QED BY <1>1, <3>1 DEF Decided
  <2> QED BY <1>2, <2>2, <2>3 DEF Decided
<1> QED BY <1>3, <1>4, <1>5, <1>6

LEMMA EmptyServed ==
  ASSUME OneScan, PresenceInv, DepartureInv, EmptyInv, NEW ops \in Seq(Items), Served(ops)
  PROVE  EmptyInv'
<1>1. /\ PresenceTypes /\ Rest \subseteq Items /\ Range(ops) \subseteq Items
      /\ Range(queue') = Rest \cup Range(ops)
  BY EmptyFacts
<1>2. /\ \A x, y \in Rest : EmptyBefore(x, y) => EmptyBefore(x, y)'
      /\ \A x \in Rest, y \in Range(ops) : EmptyBefore(x, y)'
      /\ \A x \in Rest : Decided(x)'
      /\ \A y \in Range(ops) : Decided(y)'
  BY EmptyByScan, EmptyByOthers
<1>3. Ordered(queue', EmptyOrder')
  <2>1. \A x, y \in Rest : <<x, y>> \in EmptyOrder => <<x, y>> \in EmptyOrder'
    BY <1>1, <1>2, EmptyOrderIs
  <2>2. \A x \in Rest, y \in Range(ops) : <<x, y>> \in EmptyOrder'
    BY <1>1, <1>2, EmptyOrderIs
  <2>3. Ordered(ops, EmptyOrder')
    <3>1. ASSUME NEW x \in Items, NEW y \in Items, x.op \in {"ownerOnline", "ownerOffline"},
                 y.op \in {"findDevice", "findStale", "ownerOffline"}
          PROVE  <<x, y>> \in EmptyOrder'
      <4>1. EmptyBefore(x, y)'
        BY <3>1 DEF EmptyBefore, ScanOps, OfSweep, Late, Counts
      <4> QED BY <4>1, EmptyOrderIs
    <3> QED BY <3>1, FollowOrdered DEF Served
  <2>4. queue # <<>> /\ Then(ops) /\ Ordered(queue, EmptyOrder)
    BY DEF Served, EmptyInv
  <2> QED BY <1>1, <2>1, <2>2, <2>3, <2>4, OrderMoved
<1> QED BY <1>1, <1>2, <1>3 DEF EmptyInv

LEMMA EmptyAdded ==
  ASSUME OneScan, ScansPerSweep = 0, PresenceInv, DepartureInv, EmptyInv, NEW x \in Items, Added(x)
  PROVE  EmptyInv'
<1>1. /\ PresenceTypes /\ ScanInv /\ SweepIs /\ queue' = queue \o <<x>> /\ UNCHANGED <<online, pending>>
  BY DEF PresenceInv, DepartureInv, Added
<1>2. /\ Range(queue') = Range(queue) \cup {x} /\ Range(queue) \subseteq Items
  BY <1>1, AddedItems
<1>3. /\ x.op \in {"setting1", "readMode", "findDevice", "findStale"} /\ ~Late(x) /\ Decided(x)'
  BY DEF Added, Late, Decided
<1>4. \/ UNCHANGED scan /\ x.op \notin ScanOps
      \/ \A y \in Range(queue) : y.op \notin ScanOps /\ ~OfSweep(y)
  <2>1. CASE x.op \in {"setting1", "readMode"} /\ UNCHANGED scan
    BY <2>1 DEF ScanOps
  <2>2. ASSUME NEW s \in Scanners, NEW seen \in SUBSET Devices, ScanReports(s, seen)
        PROVE  \A y \in Range(queue) : y.op \notin ScanOps /\ ~OfSweep(y)
    <3>1. ~scan[s].on /\ (sweep.on => sweep.met < ScansPerSweep)
      BY <2>2 DEF ScanReports
    <3>2. ~sweep.on
      BY <1>1, <3>1 DEF SweepIs, PresenceTypes, Sweepings
    <3>3. \A i \in DOMAIN queue : queue[i].op \notin ScanOps
      BY <1>1, <3>1 DEF ScanInv, Scans, OneScan
    <3>4. \A y \in Range(queue) : y.op \notin ScanOps
      BY <3>3 DEF Range
    <3> QED BY <1>1, <3>2, <3>4 DEF SweepIs
  <2> QED BY <2>1, <2>2 DEF Added
<1>5. ASSUME NEW y \in Range(queue), NEW z \in Range(queue), EmptyBefore(y, z)
      PROVE  EmptyBefore(y, z)'
  BY <1>1, <1>4, <1>5 DEF EmptyBefore, Shown, Late
<1>6. ASSUME NEW y \in Range(queue)
      PROVE  EmptyBefore(y, x)'
  BY <1>3, <1>4 DEF EmptyBefore, Late, Counts, OfSweep
<1>7. Ordered(queue', EmptyOrder')
  <2>1. \A y, z \in Range(queue) : <<y, z>> \in EmptyOrder => <<y, z>> \in EmptyOrder'
    BY <1>2, <1>5, EmptyOrderIs
  <2>2. \A y \in Range(queue) : <<y, x>> \in EmptyOrder'
    BY <1>2, <1>6, EmptyOrderIs
  <2> QED BY <1>1, <2>1, <2>2, OrderGrown DEF EmptyInv
<1>8. \A y \in Range(queue) : Decided(y)'
  BY <1>1 DEF EmptyInv, Decided
<1> QED BY <1>2, <1>3, <1>7, <1>8 DEF EmptyInv

LEMMA EmptyKept ==
  ASSUME OneScan, ScansPerSweep = 0, PresenceInv, DepartureInv, HouseInv, EmptyInv, [Next]_vars
  PROVE  EmptyInv'
<1>1. CASE Fresh'
  <2>1. PresenceInv'
    BY NextInvariant
  <2>2. PresenceTypes'
    BY <2>1 DEF PresenceInv
  <2> QED BY <1>1, <2>2, EmptyFresh, PTL
<1>2. ASSUME NEW ops \in Seq(Items), Served(ops)
      PROVE  EmptyInv'
  BY <1>2, EmptyServed
<1>3. ASSUME NEW x \in Items, Added(x)
      PROVE  EmptyInv'
  BY <1>3, EmptyAdded
<1>4. CASE UNCHANGED <<online, pending, home, modes, scan, queue>>
  <2>1. EmptyOrder' = EmptyOrder
    BY <1>4 DEF EmptyOrder, EmptyBefore, Shown, Late
  <2> QED BY <1>4, <2>1 DEF EmptyInv, Decided
<1> QED BY <1>1, <1>2, <1>3, <1>4, StepsAre

\* The sweep sets `away' when everybody is known to have left.
LEMMA EmptyIsRight ==
  ASSUME PresenceInv, DepartureInv, EmptyInv, NEW ops \in Seq(Items), Served(ops)
  PROVE  AwayIsRight
<1> SUFFICES ASSUME This.op = "writeMode", This.call = "sweep"
             PROVE  ~SomebodyHome
  BY DEF AwayIsRight
<1>1. /\ \A x \in Rest : EmptyBefore(This, x) /\ LeavesBefore(This, x)
      /\ Decided(This)
  BY EmptyFacts
<1>2. Late(This) /\ OfSweep(This) /\ online = {} /\ pending = {}
  BY <1>1 DEF Late, OfSweep, Decided
<1>3. \A x \in Range(queue) : x.op \notin Leaving
  <2>1. \A x \in Rest : x.op \notin Leaving
    BY <1>1, <1>2 DEF EmptyBefore, LeavesBefore, Leaving, Counts, OfSweep
  <2>2. Range(queue) = {This} \cup Rest
    BY DepartureFacts, RestIs DEF Served
  <2> QED BY <2>1, <2>2 DEF Leaving
<1>4. ASSUME NEW p \in People
      PROVE  home[p] = "no"
  <2>1. ~Restarting /\ ~Signal(p)
    BY <1>2, DepartureFacts DEF Served, Signal
  <2>2. WillGo(p)
    BY <1>2, <2>1 DEF PresenceInv, PeopleInv
  <2>3. \A i \in DOMAIN queue : ~Is(queue[i], Leaving, p)
    BY <1>3 DEF Range, Is
  <2> QED BY <2>2, <2>3 DEF WillGo, Word
<1> QED BY <1>4 DEF SomebodyHome

-----------------------------------------------------------------------------
\* The empty house of one person, whatever reports come while a sweep works.

\* The scan has seen all that is online.
Kept(x) == online \subseteq scan[x.call].seen
\* The operations by which the sweep turns the house to `away'.
Departs(x, kind) ==
  /\ x.op = kind
  /\ IF kind = "leftMode" THEN x.carries ELSE x.call = "sweep"
Leaves(x) == Departs(x, "leftMode") \/ Departs(x, "readMode") \/ Departs(x, "writeMode")

\* A departure under way and an arrival that would be lost behind it never meet.
NotMet(x, y) ==
  /\ Departs(x, "leftMode") => y.op \notin {"arriveRow", "arriveMode"}
  /\ Departs(y, "leftMode") => x.op \notin {"arriveUser", "arriveRow", "arriveMode"}
  /\ Departs(x, "readMode") => y.op # "arriveMode"
  /\ Departs(y, "readMode") => x.op \notin {"arriveRow", "arriveMode"}
  /\ Departs(y, "writeMode") => x.op # "arriveMode"
\* Nor do they before, once nothing is online ...
NotBack(x, y) == online = {} =>
  /\ x.op = "leftUser" => y.op # "arriveUser"
  /\ x.op = "leftRow" => y.op \notin {"arriveUser", "arriveRow"}
  /\ y.op = "leftRow" => x.op # "arriveUser"
  /\ x.op = "countAnyone" => y.op \notin {"arriveUser", "arriveRow", "arriveMode"}
  /\ y.op = "countAnyone" => x.op \notin {"arriveUser", "arriveRow"}
\* ... and until then the scan beside a departure takes nothing off line.
NotTaken(x, y) ==
  /\ x.op \in ScanOps /\ y.op = "leftUser" => online = {}
  /\ x.op \in ScanOps /\ y.op = "leftRow" => Kept(x)
  /\ x.op \in ScanOps /\ y.op = "countAnyone" => Kept(x) \/ x.op \in {"findDevice", "findStale"}
  /\ x.op = "leftUser" /\ y.op \in ScanOps => Kept(y)
  /\ x.op = "leftRow" /\ y.op \in ScanOps => Kept(y) \/ y.op \in {"findDevice", "findStale"}
AloneOrder == {xy \in Items \X Items :
                 NotMet(xy[1], xy[2]) /\ NotBack(xy[1], xy[2]) /\ NotTaken(xy[1], xy[2])}

\* Nobody is at home, or is about to be.
Settled(x) ==
  /\ x.op \in {"leftRow", "countAnyone"} /\ online = {} => ~SomebodyHome
  /\ Leaves(x) /\ SomebodyHome => \E y \in Range(queue) : Arrives(y)

AloneHome ==
  /\ Ordered(queue, AloneOrder)
  /\ \A x \in Range(queue) : x.op = "leftUser" /\ online # {} => \E y \in Range(queue) : y.op \in ScanOps
  /\ \A x \in Range(queue) : Settled(x)

LEMMA AloneOrderIs ==
  /\ \A x, y \in Items : <<x, y>> \in AloneOrder <=> NotMet(x, y) /\ NotBack(x, y) /\ NotTaken(x, y)
  /\ \A x, y \in Items : <<x, y>> \in AloneOrder' <=> NotMet(x, y)' /\ NotBack(x, y)' /\ NotTaken(x, y)'
  BY DEF AloneOrder

LEMMA AloneFresh == PresenceTypes /\ Fresh => AloneHome
<1> SUFFICES ASSUME PresenceTypes, Fresh PROVE AloneHome
  OBVIOUS
<1>1. \A x \in Range(queue) : x \in Items
  <2>1. \A i \in DOMAIN queue : queue[i] \in Items
    BY DEF PresenceTypes
  <2> QED BY <2>1 DEF Range
<1>2. \A x \in Range(queue) : x.op \in {"reconcile", "readMode"} /\ ~Leaves(x)
  BY DEF Fresh, Leaves, Departs
<1>3. ASSUME NEW x \in Range(queue), NEW y \in Range(queue)
      PROVE  <<x, y>> \in AloneOrder
  <2>1. x.op \in {"reconcile", "readMode"} /\ y.op \in {"reconcile", "readMode"} /\ ~Leaves(x) /\ ~Leaves(y)
    BY <1>2
  <2>2. NotMet(x, y) /\ NotBack(x, y) /\ NotTaken(x, y)
    BY <2>1 DEF NotMet, NotBack, NotTaken, ScanOps, Leaves
  <2> QED BY <1>1, <2>2, AloneOrderIs
<1>4. Ordered(queue, AloneOrder)
  BY <1>3, AllOrdered
<1> QED BY <1>2, <1>4 DEF AloneHome, Settled

\* What is known when an operation is served.
LEMMA AloneFacts ==
  ASSUME PresenceInv, DepartureInv, AloneHome, NEW ops \in Seq(Items), Served(ops)
  PROVE  /\ PresenceTypes /\ This \in Items /\ Rest \subseteq Items /\ Range(ops) \subseteq Items
         /\ Range(queue') = Rest \cup Range(ops) /\ Range(queue) = {This} \cup Rest
         /\ \A x \in Rest : NotMet(This, x) /\ NotBack(This, x) /\ NotTaken(This, x)
         /\ \A y \in Range(ops) : Follows(This, y)
<1>1. PresenceTypes /\ This = queue[1]
  BY DepartureFacts DEF Served
<1>2. /\ This \in Items /\ Rest \subseteq Items /\ Range(ops) \subseteq Items
      /\ Range(queue') = Rest \cup Range(ops) /\ Range(queue) = {This} \cup Rest
      /\ \A x \in Rest : <<This, x>> \in AloneOrder
  BY <1>1, ServedItems DEF Served, AloneHome
<1>3. \A x \in Rest : NotMet(This, x) /\ NotBack(This, x) /\ NotTaken(This, x)
  BY <1>2, AloneOrderIs
<1> QED BY <1>1, <1>2, <1>3 DEF Served, Follow

\* If a scan takes the last device off line, no departure is beside it.
LEMMA LastIsAlone ==
  ASSUME OneScan, PresenceInv, DepartureInv, AloneHome, NEW ops \in Seq(Items), Served(ops),
         online # {}, online' = {}
  PROVE  \A x \in Rest : x.op \notin {"leftUser", "leftRow", "countAnyone"}
<1>1. This.op = "markStale" /\ online' = online \cap scan[This.call].seen
  <2>1. This.op \in ScanOps
    BY ServeChanges DEF Served
  <2> QED BY <2>1, ScanChanges DEF Served, ScanOps
<1>2. ~Kept(This)
  BY <1>1 DEF Kept
<1>3. \A x \in Rest : NotTaken(This, x)
  BY AloneFacts
<1> QED BY <1>1, <1>2, <1>3 DEF NotTaken, ScanOps

\* What waits stays in order.
LEMMA AloneStands ==
  ASSUME OneScan, PresenceInv, DepartureInv, AloneHome, NEW ops \in Seq(Items), Served(ops),
         NEW x \in Rest, NEW y \in Rest, NotMet(x, y), NotBack(x, y), NotTaken(x, y)
  PROVE  NotMet(x, y)' /\ NotBack(x, y)' /\ NotTaken(x, y)'
<1>1. NotMet(x, y)'
  BY DEF NotMet, Departs
<1>2. NotBack(x, y)'
  <2>1. CASE online = {} \/ online' # {}
    BY <2>1 DEF NotBack
  <2>2. CASE online # {} /\ online' = {}
    <3>1. x.op \notin {"leftUser", "leftRow", "countAnyone"} /\ y.op \notin {"leftUser", "leftRow", "countAnyone"}
      BY <2>2, LastIsAlone
    <3> QED BY <3>1 DEF NotBack
  <2> QED BY <2>1, <2>2
<1>3. NotTaken(x, y)'
  <2>1. CASE This.op \in ScanOps
    <3>1. x.op \notin ScanOps /\ y.op \notin ScanOps
      BY <2>1, ScanChanges DEF Served
    <3> QED BY <3>1 DEF NotTaken
  <2>2. CASE This.op \notin ScanOps
    <3>1. UNCHANGED <<online, scan>>
      BY <2>2, ServeChanges DEF Served
    <3> QED BY <3>1 DEF NotTaken, Kept
  <2> QED BY <2>1, <2>2
<1> QED BY <1>1, <1>2, <1>3

\* What is asked for is in order with what waits.
LEMMA AloneFollows ==
  ASSUME OneScan, PresenceInv, DepartureInv, AloneHome, NEW ops \in Seq(Items), Served(ops),
         NEW x \in Rest, NEW y \in Range(ops)
  PROVE  NotMet(x, y)' /\ NotBack(x, y)'
<1>1. NotMet(This, x) /\ NotBack(This, x) /\ Follows(This, y)
  BY AloneFacts
<1>2. This.op \notin ScanOps => UNCHANGED <<online, scan>>
  BY ServeChanges DEF Served
<1>3. This.op \in ScanOps => y.op \in ScanOps \cup {"ownerOnline", "ownerOffline"}
  BY <1>1 DEF Follows, ScanOps, OfSweep
<1>4. CASE This.op \in ScanOps
  BY <1>3, <1>4 DEF NotMet, NotBack, Departs, ScanOps
<1>5. ASSUME This.op \notin ScanOps
      PROVE  NotMet(x, y)'
  <2>1. /\ y.op = "arriveRow" => This.op = "arriveUser"
        /\ y.op = "arriveMode" => This.op = "arriveRow"
        /\ Departs(y, "leftMode") => This.op = "countAnyone" /\ online = {}
        /\ Departs(y, "readMode") => Departs(This, "leftMode")
        /\ Departs(y, "writeMode") => Departs(This, "readMode")
    BY <1>1 DEF Follows, OfSweep, Departs
  <2> QED BY <1>1, <2>1 DEF NotMet, NotBack, Departs
<1>6. ASSUME This.op \notin ScanOps
      PROVE  NotBack(x, y)'
  <2>1. y.op = "arriveUser" => online # {}
    <3>1. y.op = "arriveUser" => This.op = "ownerOnline"
      BY <1>1 DEF Follows, OfSweep
    <3>2. This.op = "ownerOnline" => Signal(This.arg)
      BY DepartureFacts DEF Served, EventInv
    <3> QED BY <3>1, <3>2 DEF Signal
  <2>2. /\ y.op = "arriveRow" => This.op = "arriveUser"
        /\ y.op = "arriveMode" => This.op = "arriveRow"
        /\ y.op = "leftRow" => This.op = "leftUser"
        /\ y.op = "countAnyone" => This.op = "leftRow"
        /\ y.op # "leftUser" \/ This.op = "recheck"
    BY <1>1 DEF Follows, OfSweep
  <2> QED BY <1>1, <1>2, <1>6, <2>1, <2>2 DEF NotBack
<1> QED BY <1>4, <1>5, <1>6

\* The one person has no signal: nothing is online.
LEMMA NothingOnline ==
  ASSUME PresenceTypes, OnePerson, NEW p \in People, ~Signal(p)
  PROVE  online = {}
<1> SUFFICES ASSUME NEW d \in online PROVE FALSE
  OBVIOUS
<1>1. d \in Devices /\ Owner[d] \in People
  BY OwnerAssumption DEF PresenceTypes
<1>2. Owner[d] = p
  BY <1>1 DEF OnePerson
<1> QED BY <1>1, <1>2 DEF Signal, DevicesOf

LEMMA AloneTaken ==
  ASSUME OneScan, OnePerson, PresenceInv, DepartureInv, AloneHome, NEW ops \in Seq(Items), Served(ops),
         NEW x \in Rest, NEW y \in Range(ops)
  PROVE  NotTaken(x, y)'
<1>1. NotTaken(This, x) /\ Follows(This, y)
  BY AloneFacts
<1>2. CASE This.op \in ScanOps
  <2>1. /\ This.op \in {"findDevice", "findStale"} => online' = online
        /\ This.op = "upsert" => online' = online \cup {This.arg} /\ This.arg \in scan[This.call].seen
        /\ x.op \notin ScanOps
        /\ y.op \in ScanOps => y.call = This.call /\ scan'[y.call].seen = scan[This.call].seen
    BY <1>2, ScanChanges DEF Served
  <2>2. ASSUME y.op \in ScanOps, x.op = "leftUser"
        PROVE  Kept(y)'
    <3>1. online = {} /\ This.op # "markStale"
      BY <1>1, <1>2, <2>2 DEF NotTaken, Follows, ScanOps, OfSweep
    <3> QED BY <1>2, <2>1, <2>2, <3>1 DEF Kept, ScanOps
  <2>3. ASSUME y.op \in ScanOps, x.op = "leftRow"
        PROVE  Kept(y)' \/ y.op \in {"findDevice", "findStale"}
    <3>1. Kept(This)
      BY <1>1, <1>2, <2>3 DEF NotTaken
    <3>2. This.op = "upsert" => y.op \in {"findDevice", "findStale"}
      BY <1>1, <2>3 DEF Follows, ScanOps, OfSweep
    <3>3. This.op # "markStale"
      BY <1>1, <2>3 DEF Follows, ScanOps, OfSweep
    <3> QED BY <1>2, <2>1, <2>3, <3>1, <3>2, <3>3 DEF Kept, ScanOps
  <2> QED BY <2>1, <2>2, <2>3 DEF NotTaken
<1>3. CASE This.op \notin ScanOps
  <2>1. UNCHANGED <<online, scan>>
    BY <1>3, ServeChanges DEF Served
  <2>2. y.op \notin ScanOps
    BY <1>1, <1>3 DEF Follows, ScanOps, OfSweep
  <2>3. /\ y.op = "leftUser" => online = {}
        /\ y.op = "leftRow" => This.op = "leftUser"
        /\ y.op = "countAnyone" => This.op = "leftRow"
    <3>1. y.op = "leftUser" => This.op = "recheck" /\ ~Signal(This.arg)
      BY <1>1 DEF Follows, OfSweep
    <3>2. PresenceTypes /\ (This.op = "recheck" => This.arg \in People)
      BY DepartureFacts DEF Served, GoersAre, Goers
    <3>3. y.op = "leftRow" => This.op = "leftUser"
      BY <1>1 DEF Follows, OfSweep
    <3>4. y.op = "countAnyone" => This.op = "leftRow"
      BY <1>1 DEF Follows, OfSweep
    <3> QED BY <3>1, <3>2, <3>3, <3>4, NothingOnline
  <2> QED BY <1>1, <2>1, <2>2, <2>3 DEF NotTaken, Kept
<1> QED BY <1>2, <1>3

\* Nobody is at home once a departure has gone that far.
LEMMA SettledStays ==
  ASSUME OneScan, OnePerson, PresenceInv, DepartureInv, AloneHome, NEW ops \in Seq(Items), Served(ops),
         NEW x \in Range(queue'), x.op \in {"leftRow", "countAnyone"}, online' = {}
  PROVE  ~SomebodyHome'
<1>1. /\ Range(queue') = Rest \cup Range(ops) /\ This \in Range(queue) /\ Rest \subseteq Range(queue)
      /\ \A y \in Rest : NotBack(This, y)
      /\ \A y \in Range(ops) : Follows(This, y)
  BY AloneFacts, DepartureFacts DEF Served
<1>2. /\ \A p \in People : home'[p] = "yes" => home[p] = "yes" \/ This.op = "arriveUser"
      /\ This.op = "leftUser" => This.arg \in People /\ home'[This.arg] = "no"
      /\ This.op \notin ScanOps => online' = online
  BY ServeChanges DEF Served
<1>3. CASE x \in Rest
  <2>1. online = {}
    BY <1>3, LastIsAlone
  <2>2. ~SomebodyHome
    BY <1>1, <1>3, <2>1 DEF AloneHome, Settled
  <2>3. This.op # "arriveUser"
    BY <1>1, <1>3, <2>1 DEF NotBack
  <2> QED BY <1>2, <2>2, <2>3 DEF SomebodyHome
<1>4. CASE x \in Range(ops)
  <2>1. \/ This.op = "leftUser"
        \/ This.op = "leftRow"
    BY <1>1, <1>4 DEF Follows, OfSweep
  <2>2. CASE This.op = "leftUser"
    BY <1>2, <2>2 DEF OnePerson, SomebodyHome
  <2>3. CASE This.op = "leftRow"
    <3>1. online = {}
      BY <1>2, <2>3 DEF ScanOps
    <3>2. ~SomebodyHome
      BY <1>1, <2>3, <3>1 DEF AloneHome, Settled
    <3> QED BY <1>2, <2>3, <3>2 DEF SomebodyHome
  <2> QED BY <2>1, <2>2, <2>3
<1> QED BY <1>1, <1>3, <1>4

\* An arrival that will come after `away' stays on its way.
LEMMA ArrivalStays ==
  ASSUME OneScan, OnePerson, PresenceInv, DepartureInv, AloneHome, NEW ops \in Seq(Items), Served(ops),
         NEW x \in Range(queue'), Leaves(x), SomebodyHome'
  PROVE  \E y \in Range(queue') : Arrives(y)
<1>1. /\ Range(queue') = Rest \cup Range(ops) /\ Range(queue) = {This} \cup Rest
      /\ \A y \in Rest : NotMet(This, y)
      /\ \A y \in Range(ops) : Follows(This, y)
  BY AloneFacts
<1>2. /\ This.op = "arriveUser" => \E y \in Range(ops) : y.op = "arriveRow"
      /\ This.op = "arriveRow" => \E y \in Range(ops) : y.op = "arriveMode"
  BY DEF Served, Follow
<1>3. CASE This.op \in {"arriveUser", "arriveRow"}
  BY <1>1, <1>2, <1>3 DEF Arrives
<1>4. CASE This.op \notin {"arriveUser", "arriveRow"}
  <2>1. SomebodyHome
    BY <1>4, ServeChanges DEF Served, SomebodyHome
  <2>2. CASE x \in Rest
    <3>1. PICK y \in Range(queue) : Arrives(y)
      BY <1>1, <2>1, <2>2 DEF AloneHome, Settled
    <3>2. This.op # "arriveMode"
      BY <1>1, <2>2 DEF NotMet, Leaves
    <3>3. y # This
      BY <1>4, <3>1, <3>2 DEF Arrives
    <3> QED BY <1>1, <3>1, <3>3
  <2>3. CASE x \in Range(ops)
    <3>1. \/ This.op = "countAnyone" /\ online = {}
          \/ Leaves(This) /\ ~Arrives(This)
      BY <1>1, <2>3 DEF Follows, OfSweep, Leaves, Departs, Arrives
    <3>2. ~(This.op = "countAnyone" /\ online = {})
      BY <1>1, <2>1 DEF AloneHome, Settled
    <3>3. PICK y \in Range(queue) : Arrives(y)
      BY <1>1, <2>1, <3>1, <3>2 DEF AloneHome, Settled
    <3> QED BY <1>1, <3>1, <3>2, <3>3
  <2> QED BY <1>1, <2>2, <2>3
<1> QED BY <1>3, <1>4

LEMMA AloneServed ==
  ASSUME OneScan, OnePerson, PresenceInv, DepartureInv, AloneHome, NEW ops \in Seq(Items), Served(ops)
  PROVE  AloneHome'
<1>1. /\ PresenceTypes /\ Rest \subseteq Items /\ Range(ops) \subseteq Items
      /\ Range(queue') = Rest \cup Range(ops) /\ Range(queue) = {This} \cup Rest
      /\ \A x \in Rest : NotTaken(This, x)
      /\ \A y \in Range(ops) : Follows(This, y)
  BY AloneFacts
<1>2. Ordered(queue', AloneOrder')
  <2>1. \A x, y \in Rest : <<x, y>> \in AloneOrder => <<x, y>> \in AloneOrder'
    BY <1>1, AloneStands, AloneOrderIs
  <2>2. \A x \in Rest, y \in Range(ops) : <<x, y>> \in AloneOrder'
    BY <1>1, AloneFollows, AloneTaken, AloneOrderIs
  <2>3. Ordered(ops, AloneOrder')
    <3>1. ASSUME NEW x \in Items, NEW y \in Items, x.op \in {"ownerOnline", "ownerOffline"},
                 y.op \in {"findDevice", "findStale", "ownerOffline"}
          PROVE  <<x, y>> \in AloneOrder'
      <4>1. NotMet(x, y)' /\ NotBack(x, y)' /\ NotTaken(x, y)'
        BY <3>1 DEF NotMet, NotBack, NotTaken, ScanOps, Departs
      <4> QED BY <4>1, AloneOrderIs
    <3> QED BY <3>1, FollowOrdered DEF Served
  <2>4. queue # <<>> /\ Then(ops) /\ Ordered(queue, AloneOrder)
    BY DEF Served, AloneHome
  <2> QED BY <1>1, <2>1, <2>2, <2>3, <2>4, OrderMoved
<1>3. ASSUME NEW x \in Range(queue'), x.op = "leftUser", online' # {}
      PROVE  \E y \in Range(queue') : y.op \in ScanOps
  <2>1. CASE This.op \in ScanOps
    <3>1. x \in Rest
      BY <1>1, <1>3, <2>1 DEF Follows, ScanOps, OfSweep
    <3>2. online = {}
      BY <1>1, <1>3, <2>1, <3>1 DEF NotTaken
    <3>3. This.op = "upsert"
      BY <1>3, <2>1, <3>2, ScanChanges DEF Served, ScanOps
    <3>4. \E y \in Range(ops) : y.op \in {"findDevice", "findStale"}
      BY <3>3 DEF Served, Follow
    <3> QED BY <1>1, <3>4 DEF ScanOps
  <2>2. CASE This.op \notin ScanOps
    <3>1. online' = online
      BY <2>2, ServeChanges DEF Served
    <3>2. x \in Rest
      <4>1. ASSUME x \in Range(ops)
            PROVE  FALSE
        <5>1. This.op = "recheck" /\ ~Signal(This.arg)
          BY <1>1, <1>3, <4>1 DEF Follows, OfSweep
        <5>2. This.arg \in People
          BY <5>1, DepartureFacts DEF Served, GoersAre, Goers
        <5> QED BY <1>1, <1>3, <3>1, <5>1, <5>2, NothingOnline
      <4> QED BY <1>1, <4>1
    <3>3. PICK y \in Range(queue) : y.op \in ScanOps
      BY <1>1, <1>3, <3>1, <3>2 DEF AloneHome
    <3> QED BY <1>1, <2>2, <3>3
  <2> QED BY <2>1, <2>2
<1>4. ASSUME NEW x \in Range(queue')
      PROVE  Settled(x)'
  BY SettledStays, ArrivalStays DEF Settled, Leaves, Departs, Arrives
<1> QED BY <1>2, <1>3, <1>4 DEF AloneHome, ScanOps

LEMMA AloneAdded ==
  ASSUME OneScan, PresenceInv, DepartureInv, AloneHome, NEW x \in Items, Added(x)
  PROVE  AloneHome'
<1>1. /\ PresenceTypes /\ ScanInv /\ queue' = queue \o <<x>> /\ UNCHANGED <<online, home>>
  BY DEF PresenceInv, Added
<1>2. /\ Range(queue') = Range(queue) \cup {x} /\ Range(queue) \subseteq Items
  BY <1>1, AddedItems
<1>3. /\ x.op \in {"setting1", "readMode", "findDevice", "findStale"} /\ ~Leaves(x)
      /\ x.op = "readMode" => x.call = "user"
  BY DEF Added, Leaves, Departs
<1>4. \/ UNCHANGED scan /\ x.op \notin ScanOps
      \/ \A y \in Range(queue) : y.op \notin ScanOps
  <2>1. CASE x.op \in {"setting1", "readMode"} /\ UNCHANGED scan
    BY <2>1 DEF ScanOps
  <2>2. ASSUME NEW s \in Scanners, NEW seen \in SUBSET Devices, ScanReports(s, seen)
        PROVE  \A y \in Range(queue) : y.op \notin ScanOps
    <3>1. ~scan[s].on
      BY <2>2 DEF ScanReports
    <3>2. \A i \in DOMAIN queue : queue[i].op \notin ScanOps
      BY <1>1, <3>1 DEF ScanInv, Scans, OneScan
    <3> QED BY <3>2 DEF Range
  <2> QED BY <2>1, <2>2 DEF Added
<1>5. ASSUME NEW y \in Range(queue), NEW z \in Range(queue), <<y, z>> \in AloneOrder
      PROVE  <<y, z>> \in AloneOrder'
  <2>1. NotMet(y, z) /\ NotBack(y, z) /\ NotTaken(y, z)
    BY <1>2, <1>5, AloneOrderIs
  <2>2. NotMet(y, z)' /\ NotBack(y, z)'
    BY <1>1, <2>1 DEF NotMet, NotBack, Departs
  <2>3. NotTaken(y, z)'
    BY <1>1, <1>4, <2>1 DEF NotTaken, Kept
  <2> QED BY <1>2, <2>2, <2>3, AloneOrderIs
<1>6. ASSUME NEW y \in Range(queue)
      PROVE  <<y, x>> \in AloneOrder'
  <2>1. NotMet(y, x)' /\ NotBack(y, x)'
    BY <1>3 DEF NotMet, NotBack, Departs
  <2>2. y.op = "leftUser" /\ x.op \in ScanOps => online = {}
    BY <1>4 DEF AloneHome
  <2>3. NotTaken(y, x)'
    BY <1>1, <1>3, <2>2 DEF NotTaken, Kept, ScanOps
  <2> QED BY <1>2, <2>1, <2>3, AloneOrderIs
<1>7. Ordered(queue', AloneOrder')
  BY <1>1, <1>5, <1>6, OrderGrown DEF AloneHome
<1>8. ASSUME NEW y \in Range(queue')
      PROVE  Settled(y)'
  <2>1. ~(y.op \in {"leftRow", "countAnyone"} \/ Leaves(y)) \/ (y \in Range(queue) /\ Settled(y))
    BY <1>2, <1>3 DEF AloneHome
  <2> QED BY <1>1, <1>2, <2>1 DEF Settled, SomebodyHome, Leaves, Departs, Arrives
<1>9. \A y \in Range(queue') : y.op = "leftUser" /\ online' # {} => \E z \in Range(queue') : z.op \in ScanOps
  BY <1>1, <1>2, <1>3 DEF AloneHome
<1> QED BY <1>7, <1>8, <1>9 DEF AloneHome, ScanOps

LEMMA AloneKept ==
  ASSUME OneScan, OnePerson, PresenceInv, DepartureInv, HouseInv, AloneHome, [Next]_vars
  PROVE  AloneHome'
<1>1. CASE Fresh'
  <2>1. PresenceInv'
    BY NextInvariant
  <2>2. PresenceTypes'
    BY <2>1 DEF PresenceInv
  <2> QED BY <1>1, <2>2, AloneFresh, PTL
<1>2. ASSUME NEW ops \in Seq(Items), Served(ops)
      PROVE  AloneHome'
  BY <1>2, AloneServed
<1>3. ASSUME NEW x \in Items, Added(x)
      PROVE  AloneHome'
  BY <1>3, AloneAdded
<1>4. CASE UNCHANGED <<online, pending, home, modes, scan, queue>>
  <2>1. AloneOrder' = AloneOrder
    BY <1>4 DEF AloneOrder, NotMet, NotBack, NotTaken, Kept, Departs
  <2> QED BY <1>4, <2>1 DEF AloneHome, Settled, SomebodyHome, Leaves, Departs
<1> QED BY <1>1, <1>2, <1>3, <1>4, StepsAre

\* If anybody is at home when the sweep sets `away', an arrival comes after it.
LEMMA AloneIsRight ==
  ASSUME PresenceInv, DepartureInv, AloneHome, NEW ops \in Seq(Items), Served(ops)
  PROVE  AwayIsRight
<1> SUFFICES ASSUME This.op = "writeMode", This.call = "sweep", SomebodyHome
             PROVE  \E x \in Rest : Arrives(x)
  BY DEF AwayIsRight
<1>1. Range(queue) = {This} \cup Rest
  BY AloneFacts
<1>2. Leaves(This) /\ ~Arrives(This)
  BY DEF Leaves, Departs, Arrives
<1>3. PICK x \in Range(queue) : Arrives(x)
  BY <1>1, <1>2 DEF AloneHome, Settled
<1> QED BY <1>1, <1>2, <1>3

-----------------------------------------------------------------------------
\* What the queue keeps, of one person or when no report comes in a sweep.
HomeInv ==
  /\ PresenceInv /\ DepartureInv /\ AloneInv /\ HouseInv
  /\ ScansPerSweep = 0 => EmptyInv
  /\ OnePerson => AloneHome

LEMMA HomeKept ==
  ASSUME OneScan, OnePerson \/ ScansPerSweep = 0, HomeInv, [Next]_vars
  PROVE  HomeInv'
<1>1. PresenceInv' /\ DepartureInv' /\ AloneInv'
  BY NextInvariant, DeparturesKept, NobodyElse DEF HomeInv, AloneInv
<1>2. ScansPerSweep = 0 => EmptyInv'
  BY EmptyKept DEF HomeInv
<1>3. OnePerson => AloneHome'
  BY AloneKept DEF HomeInv
<1>4. HouseInv'
  BY HouseKept, EmptyIsRight, AloneIsRight DEF HomeInv
<1> QED BY <1>1, <1>2, <1>3, <1>4 DEF HomeInv, OnePerson

LEMMA InitHome == Init => HomeInv
<1> SUFFICES ASSUME Init PROVE HomeInv
  OBVIOUS
<1>1. PresenceInv /\ DepartureInv /\ AloneInv /\ Fresh
  BY InitInvariant, InitDepartures, InitAlone, InitFresh
<1>2. PresenceTypes
  BY <1>1 DEF PresenceInv
<1> QED BY <1>1, <1>2, FreshHouse, EmptyFresh, AloneFresh DEF HomeInv

\* When presence has set `away' and nothing is in flight, nobody is at home, so
\* the alarm is not armed on somebody (tick, markLeft and markArrived of
\* presence.service.ts), with one scan at a time, and of one person or when no
\* report of the router comes while a sweep works: a scan that the sweep still
\* meets has shown somebody, so the sweep does not count an empty house; and
\* whoever arrives beside a departure finds `away' and turns it.  With several
\* people and reports inside a sweep somebody may be counted out before their
\* own departure is pending, so the second hypothesis is needed.
THEOREM AwayIsEmpty ==
  OneScan /\ (OnePerson \/ ScansPerSweep = 0) => (Spec => []AwayMeansEmpty)
<1> SUFFICES ASSUME OneScan, OnePerson \/ ScansPerSweep = 0 PROVE Spec => []AwayMeansEmpty
  OBVIOUS
<1>1. HomeInv => AwayMeansEmpty
  BY AwayIsEmptyNow DEF HomeInv
<1>2. HomeInv /\ [Next]_vars => HomeInv'
  BY HomeKept
<1> HIDE DEF OnePerson
<1> QED BY <1>1, <1>2, InitHome, PTL DEF Spec
=============================================================================
