--------------------------- MODULE MCAlarmFailSafe ---------------------------
\* The alarm with everything that fails around it, on small instances: its
\* phases, and the fail-safe that says what it cannot see.  AlarmFailSafe has
\* an abstract alarm of its own, so one waits in an initial state while the
\* other runs.
EXTENDS MCAlarm, AlarmFailSafe

CONSTANTS door, smoke, hue, mqtt

OneSensor == {door}
OneDetector == {smoke}
TwoBackends == {hue, mqtt}
OneBackend == {hue}
Together == [d \in {door, smoke} |-> hue]
Apart == [d \in {door, smoke} |-> IF d = door THEN hue ELSE mqtt]

\* (one of the initial states of each is enough to wait in)
AlarmWaits == Init /\ cfg.exit /\ cfg.entry
FailSafeWaits == FailSafeInit /\ stance = "disarmed" /\ down = {} /\ failing = {}

FaultsInit == Init /\ FailSafeInit /\ (AlarmWaits \/ FailSafeWaits)

AlarmRuns == FailSafeWaits /\ Next /\ UNCHANGED failSafeVars
FailSafeRuns == AlarmWaits /\ FailSafeNext /\ UNCHANGED vars

\* No fair action of the alarm is enabled in its initial states; the check of
\* the fail-safe is enabled in its own, and owes nothing while the alarm runs.
WorksSpec ==
  /\ FaultsInit
  /\ [][AlarmRuns \/ FailSafeRuns]_<<vars, failSafeVars>>
  /\ Fairness
  /\ WF_failSafeVars(AlarmWaits /\ Check)

FailSafeAlone ==
  /\ AlarmWaits /\ FailSafeInit
  /\ [][FailSafeRuns]_<<vars, failSafeVars>> /\ WF_failSafeVars(Check)
=============================================================================
