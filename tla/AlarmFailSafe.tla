--------------------------- MODULE AlarmFailSafe ---------------------------
(***************************************************************************)
(* The fail-safe of the alarm: failSafeCheck of                            *)
(* modules/alarm/alarm.service.ts, over the list of devices that           *)
(* iot/composite.iot.ts collects from its backends.  The check announces   *)
(* what the alarm cannot see, once per outage: a watched sensor while the  *)
(* alarm is active, a smoke detector always, a backend that does not       *)
(* answer, and an IoT that cannot be read at all.                          *)
(*                                                                         *)
(* One action is the code between two awaits.  Alarm has the phases in     *)
(* full; here only whether the alarm is active matters.                    *)
(***************************************************************************)
EXTENDS FiniteSets

CONSTANTS
  Sensors,   \* config.sensorDeviceIds
  Smokes,    \* the devices of kind `smoke'
  Backends,  \* members of the composite
  BackendOf  \* the backend of each device

Devices == Sensors \cup Smokes

ASSUME BackendsAssumption == Backends # {} /\ BackendOf \in [Devices -> Backends]

VARIABLES
  stance,           \* "disarmed", "arming" or "active"
  down,            \* devices that are not reachable
  failing,         \* backends that do not answer
  check,           \* the check: where it waits and what it has read
  faultNotified, faultNotifiedVital, faultNotifiedBackend, iotOutageNotified,
  told             \* history: lasting outages that are announced (those of the
                   \* sensors and of the IoT, in this arming)

notified == <<faultNotified, faultNotifiedVital, faultNotifiedBackend, iotOutageNotified>>
failSafeVars == <<stance, down, failing, check, notified, told>>

Outages == ({"sensor"} \X Sensors) \cup ({"smoke"} \X Smokes)
           \cup ({"backend"} \X Backends) \cup {<<"iot", "all">>}
OfArming == ({"sensor"} \X Sensors) \cup {<<"iot", "all">>}

NoCheck == [at |-> "idle", activa |-> FALSE, failing |-> {}, down |-> {}]
Unreadable == failing = Backends
\* A device is missing from a list its backend did not contribute to.
Lost(d) == d \in down \/ BackendOf[d] \in failing
\* An outage is over when a list shows so.
Lasts(o) ==
  \/ o[1] \in {"sensor", "smoke"} /\ Lost(o[2])
  \/ o[1] = "backend" /\ o[2] \in failing
  \/ o[1] = "iot" /\ Unreadable

\* AlarmService is built disarmed and reconcile() may find it active.
FailSafeInit ==
  /\ stance \in {"disarmed", "active"}
  /\ down \in SUBSET Devices /\ failing \in SUBSET Backends
  /\ check = NoCheck
  /\ faultNotified = {} /\ faultNotifiedVital = {} /\ faultNotifiedBackend = {}
  /\ iotOutageNotified = FALSE
  /\ told = {}

-----------------------------------------------------------------------------
\* The alarm: armAlarm, the end of the exit delay, disarmAlarm.

Kept == faultNotified
Forgotten == {}

\* (Arming an alarm that is already active is not a new arming for the IoT.)
Arm(p) ==
  /\ stance' = p
  /\ faultNotified' = Forgotten
  /\ told' = told \ (IF stance = "active" THEN {"sensor"} \X Sensors ELSE OfArming)
  /\ UNCHANGED <<down, failing, check, faultNotifiedVital, faultNotifiedBackend, iotOutageNotified>>

ExitDelayEnds ==
  /\ stance = "arming"
  /\ stance' = "active"
  /\ UNCHANGED <<down, failing, check, notified, told>>

Disarm ==
  /\ stance' = "disarmed"
  /\ faultNotified' = Forgotten
  /\ told' = told \ OfArming
  /\ UNCHANGED <<down, failing, check, faultNotifiedVital, faultNotifiedBackend, iotOutageNotified>>

-----------------------------------------------------------------------------
\* The devices and their backends fail and recover.

DeviceMoves(d) ==
  /\ down' = IF d \in down THEN down \ {d} ELSE down \cup {d}
  /\ UNCHANGED <<stance, failing, check, notified, told>>

BackendFails(b) ==
  /\ failing' = failing \cup {b}
  /\ UNCHANGED <<stance, down, check, notified, told>>

BackendAnswers(b) ==
  /\ b \in failing
  /\ failing' = failing \ {b}
  /\ UNCHANGED <<stance, down, check, notified, told>>

-----------------------------------------------------------------------------
\* failSafeCheck(), every 30 seconds.

OutageRearmed == stance = "active" /\ iotOutageNotified

CheckStarts ==
  /\ check.at = "idle"
  /\ check' = [NoCheck EXCEPT !.at = "config", !.activa = (stance = "active")]
  /\ faultNotified' = IF stance = "active" THEN faultNotified ELSE {}
  /\ iotOutageNotified' = OutageRearmed
  /\ told' = IF stance = "active" THEN told ELSE told \ OfArming
  /\ UNCHANGED <<stance, down, failing, faultNotifiedVital, faultNotifiedBackend>>

\* The configuration is read and the list is asked for ...
ConfigRead ==
  /\ check.at = "config"
  /\ check' = [check EXCEPT !.at = "list"]
  /\ UNCHANGED <<stance, down, failing, notified, told>>

\* ... which shows the devices as they are now.
ListRead ==
  /\ check.at = "list"
  /\ check' = [check EXCEPT !.at = "apply", !.failing = failing, !.down = down]
  /\ told' = {o \in told : Lasts(o)}
  /\ UNCHANGED <<stance, down, failing, notified>>

\* What the list shows.
Watched == IF check.activa THEN Sensors ELSE {}
Failed == check.failing = Backends
SensorsSeenDown == {d \in Watched : d \in check.down \/ BackendOf[d] \in check.failing}
DetectorsOnly == Smokes
DetectorsListed == {d \in DetectorsOnly : BackendOf[d] \notin check.failing}
OutageAgain == Failed /\ Watched # {}
OutageIsNews == Failed /\ ~iotOutageNotified /\ Watched # {}

StillVital == (faultNotifiedVital \ DetectorsListed) \cup (DetectorsListed \cap check.down)
StillFailing == check.failing
BackendsNews == check.failing \ faultNotifiedBackend

\* The outages this check announces.
News ==
  IF Failed THEN IF OutageIsNews THEN {<<"iot", "all">>} ELSE {}
  ELSE    {<<"sensor", d>> : d \in SensorsSeenDown \ faultNotified}
     \cup {<<"smoke", d>> : d \in (DetectorsListed \cap check.down) \ faultNotifiedVital}
     \cup {<<"backend", b>> : b \in BackendsNews}

CheckApplies ==
  /\ check.at = "apply"
  /\ check' = NoCheck
  /\ told' = told \cup News
  /\ IF Failed
       THEN /\ iotOutageNotified' = (iotOutageNotified \/ OutageIsNews)
            /\ UNCHANGED <<faultNotified, faultNotifiedVital, faultNotifiedBackend>>
       ELSE /\ iotOutageNotified' = FALSE
            /\ faultNotifiedBackend' = StillFailing
            /\ faultNotified' = (faultNotified \ Watched) \cup SensorsSeenDown
            /\ faultNotifiedVital' = StillVital
  /\ UNCHANGED <<stance, down, failing>>

-----------------------------------------------------------------------------
Check == CheckStarts \/ ConfigRead \/ ListRead \/ CheckApplies

FailSafeNext ==
  \/ Check \/ ExitDelayEnds \/ Disarm
  \/ \E p \in {"arming", "active"} : Arm(p)
  \/ \E d \in Devices : DeviceMoves(d)
  \/ \E b \in Backends : BackendFails(b) \/ BackendAnswers(b)

FailSafeSpec == FailSafeInit /\ [][FailSafeNext]_failSafeVars

\* The sweep runs every second, and its awaits end: a list that takes more
\* than ten seconds counts as failed.
FailSafeFairSpec == FailSafeSpec /\ WF_failSafeVars(Check)

-----------------------------------------------------------------------------
\* Properties.

\* "avisa una sola vez" (alarm.service.test.ts): an outage is announced once,
\* however the alarm is armed and disarmed while the list is read.
OutageToldOnce == check.at = "apply" => News \cap told = {}

\* A watched sensor that stays lost while the alarm is active is announced in
\* this arming, unless nothing can be read.
LostSensorIsTold ==
  \A d \in Sensors :
    (stance = "active" /\ Lost(d) /\ ~Unreadable)
      ~> (<<"sensor", d>> \in told \/ stance # "active" \/ ~Lost(d) \/ Unreadable)

\* A smoke detector the list shows as unreachable is announced, armed or not.
DetectorDownIsTold ==
  \A d \in Smokes :
    (d \in down /\ BackendOf[d] \notin failing)
      ~> (<<"smoke", d>> \in told \/ d \notin down \/ BackendOf[d] \in failing)

\* A backend that stays silent is announced, armed or not, unless all are.
BackendDownIsTold ==
  \A b \in Backends :
    (b \in failing /\ ~Unreadable) ~> (<<"backend", b>> \in told \/ b \notin failing \/ Unreadable)

\* Nothing that lasts goes unsaid: the three together.
OutageIsTold == LostSensorIsTold /\ DetectorDownIsTold /\ BackendDownIsTold

\* "Cada ARMADO con el IoT caido es una situacion nueva" (failSafeCheck): an
\* IoT that stays unreadable would be announced in every arming.  It is not:
\* armAlarm does not clear iotOutageNotified.
BlindArmingIsTold ==
  (stance = "active" /\ Unreadable /\ Sensors # {})
    ~> (<<"iot", "all">> \in told \/ stance # "active" \/ ~Unreadable)
=============================================================================
