------------------------------ MODULE Presence ------------------------------
(***************************************************************************)
(* Who is at home: the network scan of modules/inventory/                  *)
(* inventory.service.ts, whose device-online and device-offline events     *)
(* modules/presence/presence.service.ts turns into arrivals, departures    *)
(* (after a grace period and several sweeps) and the mode of the home.     *)
(*                                                                         *)
(* Every call is a chain of database operations.  The agent's SQLite       *)
(* adapter serves them in the order they are asked for (DbMutex), so the   *)
(* model has one queue: serving an operation runs the code up to the next  *)
(* await, which asks for the next operation and may publish events, whose  *)
(* handlers ask for theirs.  What is left open is when scans, sweeps and   *)
(* people start something.                                                 *)
(*                                                                         *)
(* Abstracted: clocks (a departure is ripe when its grace is over), the    *)
(* night window (a sweep is suppressed or not), sockets, names.            *)
(***************************************************************************)
EXTENDS Integers, Sequences, FiniteSets, SequencesExt

CONSTANTS
  Devices, People,
  Owner,          \* the person each device belongs to
  Scanners,       \* the periodic scan and the one of POST /rescan
  RequiredSweeps, \* presenceLeaveSweeps
  ScansPerSweep,  \* scans that may report while one sweep runs
  Nights,         \* is there a suppression window?
  ManualModes,    \* the modes people set by hand
  Crashes         \* may the process die and be restarted?

ASSUME DevicesAssumption == IsFiniteSet(Devices)
ASSUME OwnerAssumption == Owner \in [Devices -> People]
ASSUME SweepsAssumption == RequiredSweeps \in Nat \ {0} /\ ScansPerSweep \in Nat
ASSUME ModesAssumption == ManualModes \subseteq {"home", "away", "night"}
ASSUME SwitchesAssumption == {Nights, Crashes} \subseteq BOOLEAN

VARIABLES
  online,   \* devices whose row says online
  pending,  \* keys of this.pendingLeave
  ripe,     \* those whose grace is over
  streak,   \* the sweeps counted for each
  home,     \* this.homeState: "yes", "no", or "unknown"
  recorded, \* the last PresenceEvent of each person, or "none"
  mode,     \* the stored mode of the home
  source,   \* who set it: "presence", "user", or "before" this process
  scan,     \* each scan: what the router reported and what is left to store
  sweep,    \* the running sweep, a snapshot of pendingLeave
  queue     \* database operations asked for, with what follows each

vars == <<online, pending, ripe, streak, home, recorded, mode, source, scan, sweep, queue>>
leaving == <<pending, ripe, streak>>
modes == <<mode, source>>

DevicesOf(p) == {d \in Devices : Owner[d] = p}
Signal(p) == DevicesOf(p) \cap online # {}

\* A queued operation: what it is, for whom, what it carries, and which call
\* goes on when it is done.
Op(kind, arg) == [op |-> kind, arg |-> arg, carries |-> FALSE, mode |-> "home", call |-> "event"]
SetMode(m, caller) == [Op("readMode", "mode") EXCEPT !.mode = m, !.call = caller]

NoScan == [on |-> FALSE, seen |-> {}, todo |-> {}]
NoSweep == [on |-> FALSE, todo |-> {}, streak |-> [p \in People |-> 0], night |-> FALSE, met |-> 0]

TypeOK ==
  /\ online \subseteq Devices
  /\ pending \subseteq People /\ ripe \subseteq pending
  /\ streak \in [People -> 0 .. RequiredSweeps - 1]
  /\ home \in [People -> {"yes", "no", "unknown"}]
  /\ recorded \in [People -> {"none", "arrived", "left"}]
  /\ mode \in {"home", "away", "night"} /\ source \in {"presence", "user", "before"}
  /\ sweep.todo \subseteq People /\ (sweep.todo # {} => sweep.on)
  /\ \A s \in Scanners : scan[s].todo \cup scan[s].seen \subseteq Devices /\ (~scan[s].on => scan[s] = NoScan)

\* start() asks for the first read of reconcile() before the server listens.
Init ==
  /\ online \in SUBSET Devices
  /\ pending = {} /\ ripe = {} /\ streak = [p \in People |-> 0]
  /\ home = [p \in People |-> "unknown"]
  /\ recorded \in [People -> {"none", "arrived", "left"}]
  /\ mode \in {"home", "away"} /\ source = "before"
  /\ scan = [s \in Scanners |-> NoScan]
  /\ sweep = NoSweep
  /\ queue = <<Op("reconcile", "all")>>

-----------------------------------------------------------------------------
\* Serving the operation at the head of the queue.
Serving(kind) == queue # <<>> /\ Head(queue).op = kind
This == Head(queue)
Then(ops) == queue' = Tail(queue) \o ops
Done == Then(<<>>)
\* reconcile() has not been through yet.
Restarting == \E i \in DOMAIN queue : queue[i].op = "reconcile"

-----------------------------------------------------------------------------
\* The scan: the router reports the devices it sees; they are stored one by one.

\* What the scan goes on to do with the devices that are left.
NextDevice(s, todo) ==
  IF todo = {} THEN {<<[Op("findStale", "stale") EXCEPT !.call = s]>>}
               ELSE {<<[Op("findDevice", d) EXCEPT !.call = s]>> : d \in todo}

\* scanCycle() does not start while another cycle runs; POST /rescan may.  A
\* report of nothing at all is taken for a failure of the router, so every
\* report names the router itself, a device nobody owns; `seen' are the others.
ScanReports(s, seen) ==
  /\ ~scan[s].on
  /\ ~Restarting
  /\ scan' = [scan EXCEPT ![s] = [on |-> TRUE, seen |-> seen, todo |-> seen]]
  /\ \E next \in NextDevice(s, seen) : queue' = queue \o next
  /\ IF sweep.on THEN sweep.met < ScansPerSweep /\ sweep' = [sweep EXCEPT !.met = @ + 1]
                 ELSE UNCHANGED sweep
  /\ UNCHANGED <<online, leaving, home, recorded, modes>>

\* upsertDiscovered(): the row is read, and whether it was online is kept ...
FindDevice ==
  /\ Serving("findDevice")
  /\ Then(<<[This EXCEPT !.op = "upsert", !.carries = This.arg \in online]>>)
  /\ UNCHANGED <<online, leaving, home, recorded, modes, scan, sweep>>

\* ... until the row is written and the transition announced.
Upsert ==
  /\ Serving("upsert")
  /\ LET s == This.call
         left == scan[s].todo \ {This.arg}
         event == IF This.carries THEN <<>> ELSE <<Op("ownerOnline", Owner[This.arg])>>
     IN  /\ online' = online \cup {This.arg}
         /\ scan' = [scan EXCEPT ![s].todo = left]
         /\ \E next \in NextDevice(s, left) : Then(event \o next)
  /\ UNCHANGED <<leaving, home, recorded, modes, sweep>>

EndScan(s) == scan' = [scan EXCEPT ![s] = NoScan]

\* The devices that are online and were not seen are read and then written.
FindStale ==
  /\ Serving("findStale")
  /\ LET s == This.call
         stale == online \ scan[s].seen
     IN  IF stale = {}
           THEN EndScan(s) /\ Done
           ELSE /\ scan' = [scan EXCEPT ![s].todo = stale]
                /\ Then(<<[This EXCEPT !.op = "markStale"]>>)
  /\ UNCHANGED <<online, leaving, home, recorded, modes, sweep>>

MarkStale ==
  /\ Serving("markStale")
  /\ LET s == This.call
     IN  /\ online' = online \cap scan[s].seen
         /\ \E order \in SetToSeqs(scan[s].todo) :
              Then([i \in DOMAIN order |-> Op("ownerOffline", Owner[order[i]])])
         /\ EndScan(s)
  /\ UNCHANGED <<leaving, home, recorded, modes, sweep>>

-----------------------------------------------------------------------------
\* onEvent().

NoLongerPending(p) == pending' = pending \ {p} /\ ripe' = ripe \ {p}
NotInCache(p) == FALSE
AlreadyHome(p) == home[p] = "yes"

\* The signal is back: no departure is pending any longer.
OwnerOnline ==
  /\ Serving("ownerOnline")
  /\ LET p == This.arg
     IN  /\ NoLongerPending(p)
         /\ Then(IF AlreadyHome(p) THEN <<>> ELSE <<Op("arriveUser", p)>>)
  /\ UNCHANGED <<online, streak, home, recorded, modes, scan, sweep>>

OwnerOffline ==
  /\ Serving("ownerOffline")
  /\ Then(IF home[This.arg] = "no" THEN <<>> ELSE <<Op("countOnline", This.arg)>>)
  /\ UNCHANGED <<online, leaving, home, recorded, modes, scan, sweep>>

CountIsNeverZero(p) == TRUE
StillOnline(p) == Signal(p)

\* Without a signal the departure becomes pending.
CountOnline ==
  /\ Serving("countOnline")
  /\ LET p == This.arg
     IN  IF StillOnline(p) \/ p \in pending
           THEN UNCHANGED leaving
           ELSE /\ pending' = pending \cup {p}
                /\ streak' = [streak EXCEPT ![p] = 0]
                /\ UNCHANGED ripe
  /\ Done
  /\ UNCHANGED <<online, home, recorded, modes, scan, sweep>>

-----------------------------------------------------------------------------
\* markArrived() and markLeft(): the user is read, the cache set, the event
\* stored, and the mode derived.

ArriveUser ==
  /\ Serving("arriveUser")
  /\ home' = [home EXCEPT ![This.arg] = "yes"]
  /\ Then(<<[This EXCEPT !.op = "arriveRow"]>>)
  /\ UNCHANGED <<online, leaving, recorded, modes, scan, sweep>>

ArriveRow ==
  /\ Serving("arriveRow")
  /\ recorded' = [recorded EXCEPT ![This.arg] = "arrived"]
  /\ Then(<<[This EXCEPT !.op = "arriveMode"]>>)
  /\ UNCHANGED <<online, leaving, home, modes, scan, sweep>>

ArrivalTurnsHome == mode # "away"
ArrivalChangesMode == mode = "away"

ArriveMode ==
  /\ Serving("arriveMode")
  /\ Then(IF ArrivalChangesMode THEN <<SetMode("home", "event")>> ELSE <<>>)
  /\ UNCHANGED <<online, leaving, home, recorded, modes, scan, sweep>>

\* The rest of the sweep after a person is dealt with.
NextPerson(todo) ==
  IF todo = {} THEN sweep' = NoSweep /\ Done
  ELSE \E p \in todo :
         /\ sweep' = [sweep EXCEPT !.todo = todo \ {p}]
         /\ Then(<<Op("recheck", p)>>)

LeftUser ==
  /\ Serving("leftUser")
  /\ home' = [home EXCEPT ![This.arg] = "no"]
  /\ Then(<<[This EXCEPT !.op = "leftRow"]>>)
  /\ UNCHANGED <<online, leaving, recorded, modes, scan, sweep>>

LeftRow ==
  /\ Serving("leftRow")
  /\ recorded' = [recorded EXCEPT ![This.arg] = "left"]
  /\ Then(<<[This EXCEPT !.op = "countAnyone"]>>)
  /\ UNCHANGED <<online, leaving, home, modes, scan, sweep>>

CountAnyone ==
  /\ Serving("countAnyone")
  /\ Then(<<[This EXCEPT !.op = "leftMode", !.carries = (online = {})]>>)
  /\ UNCHANGED <<online, leaving, home, recorded, modes, scan, sweep>>

NeverEmpty(count) == FALSE
HouseIsEmpty(count) == count /\ pending = {} /\ mode # "away"

LeftMode ==
  /\ Serving("leftMode")
  /\ IF HouseIsEmpty(This.carries)
       THEN Then(<<SetMode("away", "sweep")>>) /\ UNCHANGED sweep
       ELSE NextPerson(sweep.todo)
  /\ UNCHANGED <<online, leaving, home, recorded, modes, scan>>

-----------------------------------------------------------------------------
\* setMode(): read, and write if it is another one.

EndOfSetMode == IF This.call = "sweep" THEN NextPerson(sweep.todo)
                                       ELSE Done /\ UNCHANGED sweep

ReadMode ==
  /\ Serving("readMode")
  /\ IF mode = This.mode THEN EndOfSetMode
     ELSE Then(<<[This EXCEPT !.op = "writeMode"]>>) /\ UNCHANGED sweep
  /\ UNCHANGED <<online, leaving, home, recorded, modes, scan>>

WriteMode ==
  /\ Serving("writeMode")
  /\ mode' = This.mode
  /\ source' = IF This.call = "user" THEN "user" ELSE "presence"
  /\ EndOfSetMode
  /\ UNCHANGED <<online, leaving, home, recorded, scan>>

\* POST /mode, one at a time.
UserSetsMode(m) ==
  /\ ~\E i \in DOMAIN queue : queue[i].call = "user"
  /\ queue' = Append(queue, SetMode(m, "user"))
  /\ UNCHANGED <<online, leaving, home, recorded, modes, scan, sweep>>

-----------------------------------------------------------------------------
\* The sweep.

GraceEnds(p) ==
  /\ p \in pending \ ripe
  /\ ripe' = ripe \cup {p}
  /\ UNCHANGED <<online, pending, streak, home, recorded, modes, scan, sweep, queue>>

\* tick() reads three settings and then takes a copy of pendingLeave.
Sweep ==
  /\ ~sweep.on
  /\ pending # {}
  /\ sweep' = [NoSweep EXCEPT !.on = TRUE]
  /\ queue' = Append(queue, Op("setting1", "settings"))
  /\ UNCHANGED <<online, leaving, home, recorded, modes, scan>>

Settings ==
  /\ \/ /\ Serving("setting1") /\ Then(<<Op("setting2", "settings")>>) /\ UNCHANGED sweep
     \/ /\ Serving("setting2") /\ Then(<<Op("setting3", "settings")>>) /\ UNCHANGED sweep
     \/ /\ Serving("setting3")
        /\ \E night \in {FALSE, Nights} :
             IF ripe = {} THEN sweep' = NoSweep /\ Done
             ELSE \E p \in ripe :
                    /\ sweep' = [sweep EXCEPT !.todo = ripe \ {p}, !.streak = streak, !.night = night]
                    /\ Then(<<Op("recheck", p)>>)
  /\ UNCHANGED <<online, leaving, home, recorded, modes, scan>>

BackAgain(p) == Signal(p)
\* The streak, counted in the copy of pendingLeave, is not long enough yet.
MoreSweepsNeeded(p) == sweep.streak[p] + 1 < RequiredSweeps

\* Each ripe departure is checked against the devices' rows again: the person
\* is back, the night keeps it pending, the streak grows, or they have left.
Recheck ==
  /\ Serving("recheck")
  /\ LET p == This.arg IN
     \/ /\ BackAgain(p)
        /\ NoLongerPending(p)
        /\ home' = [home EXCEPT ![p] = "yes"]
        /\ NextPerson(sweep.todo)
        /\ UNCHANGED streak
     \/ /\ ~BackAgain(p) /\ sweep.night
        /\ NextPerson(sweep.todo)
        /\ UNCHANGED <<leaving, home>>
     \/ /\ ~BackAgain(p) /\ ~sweep.night /\ MoreSweepsNeeded(p)
        /\ pending' = pending \cup {p} /\ ripe' = ripe \cup {p}
        /\ streak' = [streak EXCEPT ![p] = sweep.streak[p] + 1]
        /\ NextPerson(sweep.todo)
        /\ UNCHANGED home
     \/ /\ ~BackAgain(p) /\ ~sweep.night /\ ~MoreSweepsNeeded(p)
        /\ NoLongerPending(p)
        /\ Then(<<Op("leftUser", p)>>)
        /\ UNCHANGED <<streak, home, sweep>>
  /\ UNCHANGED <<online, recorded, modes, scan>>

-----------------------------------------------------------------------------
\* reconcile(): one read of everybody; then a correction of the timeline where
\* it contradicts the signal, and the cache.  The mode is left alone.

Contradicts(p, seen) == recorded[p] # "none" /\ (recorded[p] = "arrived") # (p \in seen)
Cached(p, seen) == IF p \in seen THEN "yes" ELSE "no"

\* (The awaits between two people are not modelled: a scan takes the router
\* longer to answer than the corrections take, so nothing meets them.)
Reconcile ==
  /\ Serving("reconcile")
  /\ LET seen == {p \in People : Signal(p)}
     IN  /\ home' = [p \in People |-> Cached(p, seen)]
         /\ recorded' = [p \in People |->
                           IF ~Contradicts(p, seen) THEN recorded[p]
                           ELSE IF p \in seen THEN "arrived" ELSE "left"]
  /\ Done
  /\ UNCHANGED <<online, leaving, modes, scan, sweep>>

Crash ==
  /\ Crashes
  /\ ~Restarting
  /\ pending' = {} /\ ripe' = {} /\ streak' = [p \in People |-> 0]
  /\ home' = [p \in People |-> "unknown"]
  /\ scan' = [s \in Scanners |-> NoScan] /\ sweep' = NoSweep
  /\ queue' = <<Op("reconcile", "all")>>
  /\ source' = "before"
  /\ UNCHANGED <<online, recorded, mode>>

-----------------------------------------------------------------------------
Serve ==
  \/ FindDevice \/ Upsert \/ FindStale \/ MarkStale
  \/ OwnerOnline \/ OwnerOffline \/ CountOnline
  \/ ArriveUser \/ ArriveRow \/ ArriveMode
  \/ LeftUser \/ LeftRow \/ CountAnyone \/ LeftMode
  \/ ReadMode \/ WriteMode \/ Settings \/ Recheck \/ Reconcile

Next ==
  \/ Serve \/ Sweep \/ Crash
  \/ \E s \in Scanners, seen \in SUBSET Devices : ScanReports(s, seen)
  \/ \E p \in People : GraceEnds(p)
  \/ \E m \in ManualModes : UserSetsMode(m)

Spec == Init /\ [][Next]_vars

\* The database serves its queue, time passes, the sweep comes every minute
\* and the night ends.
Fairness ==
  /\ WF_vars(Serve) /\ WF_vars(Sweep)
  /\ \A p \in People : WF_vars(GraceEnds(p))
  /\ SF_vars(Settings /\ Serving("setting3") /\ ~sweep'.night)

FairSpec == Spec /\ Fairness

-----------------------------------------------------------------------------
\* Properties.

\* When nothing is in flight: who has a device online is at home, and who is
\* at home without one has a departure pending, so nobody is forgotten on
\* either side (onEvent against the re-check of tick).
PresenceFollowsSignal ==
  queue = <<>> => \A p \in People : /\ Signal(p) => home[p] = "yes"
                                    /\ home[p] = "yes" /\ ~Signal(p) => p \in pending

\* When nothing is in flight and presence, not a person, chose `away' (which
\* arms the alarm), nobody is at home, waiting out a departure or not.
AwayMeansEmpty ==
  queue = <<>> /\ mode = "away" /\ source = "presence" => \A p \in People : home[p] # "yes"

\* Nobody arrives twice in a row, so an automation on arrivals runs once per
\* arrival (presence.arrived, from onEvent through markArrived).
ArrivalsAlternate ==
  queue # <<>> /\ This.op = "arriveRow" => recorded[This.arg] # "arrived"

\* Nobody leaves twice in a row (presence.left, from tick through markLeft).
DeparturesAlternate ==
  queue # <<>> /\ This.op = "leftRow" => recorded[This.arg] # "left"

\* The timeline alternates: of what is stored of a person, no two in a row are
\* arrivals, and no two are departures.
TimelineAlternates == ArrivalsAlternate /\ DeparturesAlternate

\* "la ultima persona en salir pone away" (presence.service.ts): once every
\* device stays offline the house goes to `away', or the process dies first (a
\* restart forgets the departures and leaves the mode alone).
EmptyHouseGoesAway ==
  (online = {} /\ \E p \in People : home[p] = "yes")
    ~> (online # {} \/ mode = "away" \/ Restarting)
=============================================================================
