------------------------------ MODULE IotReads ------------------------------
(***************************************************************************)
(* How the agent reads its IoT devices: the list iot/composite.iot.ts      *)
(* collects from its backends, each within a time limit                    *)
(* (iot/action-timeout.ts), and the cached view of iot/device-cache.ts     *)
(* that the sweeps share: the alarm, the watcher, energy.  The routes read *)
(* the composite directly.                                                 *)
(*                                                                         *)
(* One action is the code between two awaits.  A list is told apart from   *)
(* another by the backends it lacks.                                       *)
(***************************************************************************)
EXTENDS FiniteSets

CONSTANTS
  Backends,    \* members of the composite
  Readers,     \* those who read through the cache
  Reads,       \* slots for readings that run at once (a bound)
  RouteReads,  \* those that routes may take
  Nil

ASSUME ReadsAssumption == RouteReads \subseteq Reads /\ RouteReads # Reads /\ Nil \notin Reads

VARIABLES
  answering, \* the backends that answer in time
  read,      \* the readings of the composite that run
  failures,  \* this.failures of the composite
  cached,  \* what the list of the cache lacks, or Nil
  young,     \* is it younger than its TTL?
  inFlight,  \* the reading the cache shares, or Nil
  reader     \* each sweep waits, was last told the whole list, or was not

cacheVars == <<cached, young, inFlight>>
readVars == <<answering, read, failures, cacheVars, reader>>

NoRead == [on |-> FALSE, left |-> {}, lost |-> {}, missing |-> {}]

ReadsInit ==
  /\ answering \in SUBSET Backends
  /\ read = [r \in Reads |-> NoRead]
  /\ failures = {}
  /\ cached = Nil /\ young = FALSE /\ inFlight = Nil
  /\ reader = [c \in Readers |-> "told nothing"]

-----------------------------------------------------------------------------
\* CompositeIotManager.listDevices: every member is asked at once.

\* What is asked of a backend that hangs gets no answer, not even later.
Asked == [on |-> TRUE, left |-> Backends, lost |-> Backends \ answering, missing |-> {}]
Begins(r) == ~read[r].on /\ read' = [read EXCEPT ![r] = Asked]

RouteAsks(r) ==
  /\ Begins(r)
  /\ UNCHANGED <<answering, failures, cacheVars, reader>>

MemberAnswers(r, b) ==
  /\ b \in read[r].left /\ b \in answering \ read[r].lost
  /\ read' = [read EXCEPT ![r].left = @ \ {b}]
  /\ UNCHANGED <<answering, failures, cacheVars, reader>>

\* It refuses, or withActionTimeout gives up on it.
Silent(r, b) == b \notin answering \/ b \in read[r].lost
MemberFails(r, b) ==
  /\ b \in read[r].left /\ Silent(r, b)
  /\ read' = [read EXCEPT ![r].left = @ \ {b}, ![r].lost = @ \ {b}, ![r].missing = @ \cup {b}]
  /\ UNCHANGED <<answering, failures, cacheVars, reader>>

-----------------------------------------------------------------------------
\* withDeviceCache.

Told(missing) == IF missing = {} THEN "told all" ELSE "told less"
TellAll(what) == reader' = [c \in Readers |-> IF reader[c] = "waits" THEN what ELSE reader[c]]

\* The snapshot, the reading in flight, or a new one.
AskList(c) ==
  /\ reader[c] # "waits"
  /\ \/ /\ cached # Nil /\ young
        /\ reader' = [reader EXCEPT ![c] = Told(cached)]
        /\ UNCHANGED <<read, inFlight>>
     \/ /\ cached = Nil \/ ~young
        /\ reader' = [reader EXCEPT ![c] = "waits"]
        /\ \/ inFlight # Nil /\ UNCHANGED <<read, inFlight>>
           \/ /\ inFlight = Nil
              /\ \E r \in Reads : Begins(r) /\ inFlight' = r
  /\ UNCHANGED <<answering, failures, cached, young>>

\* finally(): a reading that failed is forgotten like one that did not.
KeptOnFailure(failed) == IF failed THEN inFlight ELSE Nil
Released(failed) == Nil

\* Every member has settled: the composite notes who failed, and throws when
\* all did.  The cache keeps a list, even a partial one, and no failure.
Collected(r) ==
  /\ read[r].on /\ read[r].left = {}
  /\ failures' = read[r].missing
  /\ read' = [read EXCEPT ![r] = NoRead]
  /\ LET failed == read[r].missing = Backends IN
       IF r # inFlight
         THEN UNCHANGED <<cacheVars, reader>>
         ELSE /\ inFlight' = Released(failed)
              /\ TellAll(IF failed THEN "told nothing" ELSE Told(read[r].missing))
              /\ IF failed THEN UNCHANGED <<cached, young>>
                           ELSE cached' = read[r].missing /\ young' = TRUE
  /\ UNCHANGED answering

\* The limit of the whole reading: it goes on, but nobody waits for it.
GivenUp ==
  /\ inFlight # Nil
  /\ \E b \in read[inFlight].left : Silent(inFlight, b)
  /\ inFlight' = Released(TRUE)
  /\ TellAll("told nothing")
  /\ UNCHANGED <<answering, read, failures, cached, young>>

CacheAges ==
  /\ young
  /\ young' = FALSE
  /\ UNCHANGED <<answering, read, failures, cached, inFlight, reader>>

\* setState through the cache, answered.
Invalidate ==
  /\ cached # Nil
  /\ cached' = Nil /\ young' = FALSE
  /\ UNCHANGED <<answering, read, failures, inFlight, reader>>

BackendMoves(b) ==
  /\ answering' = IF b \in answering THEN answering \ {b} ELSE answering \cup {b}
  /\ UNCHANGED <<read, failures, cacheVars, reader>>

\* What a reading does next: its members settle one by one, then it ends.
ReadGoesOn(r) == Collected(r) \/ \E b \in Backends : MemberAnswers(r, b) \/ MemberFails(r, b)

ReadsNext ==
  \/ \E r \in RouteReads : RouteAsks(r)
  \/ \E c \in Readers : AskList(c)
  \/ \E r \in Reads : ReadGoesOn(r)
  \/ GivenUp \/ CacheAges \/ Invalidate
  \/ \E b \in Backends : BackendMoves(b)

ReadsSpec == ReadsInit /\ [][ReadsNext]_readVars

\* The sweeps come round, a backend that is up answers, the others run out of
\* time, the code goes on.
ReadsFairness ==
  /\ \A c \in Readers : WF_readVars(AskList(c))
  /\ \A r \in Reads : WF_readVars(ReadGoesOn(r))
  /\ WF_readVars(CacheAges)
FairReadsSpec == ReadsSpec /\ ReadsFairness

-----------------------------------------------------------------------------
\* Properties.

\* Whoever waits for the list waits for a reading that still runs: a reading that
\* failed, or was given up, is not left to be shared (device-cache.ts:
\* `.finally' on what `listDevices' hands to everybody).
NobodyWaitsInVain ==
  \A c \in Readers : reader[c] = "waits" => inFlight # Nil /\ read[inFlight].on

\* "para que un transporte colgado no congele la cache", "un fallo no se
\* cachea" (device-cache.ts): whatever hung, refused or was given up before,
\* once the backends all answer every sweep gets whole lists again.
ListsComeBack ==
  <>[](answering = Backends) => \A c \in Readers : []<>(reader[c] = "told all")

\* "`listFailures()` pasa tal cual los fallos de esa misma lectura"
\* (device-cache.ts): what the composite says next to a list served from the
\* cache is which backends that list lacks.
FailuresOfThisRead == cached # Nil /\ young => failures = cached
=============================================================================
