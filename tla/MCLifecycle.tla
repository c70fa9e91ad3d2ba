----------------------------- MODULE MCLifecycle -----------------------------
\* The life of an installation, on small instances: an update, a restore, its
\* integrations reconfigured, and its devices read.  They share nothing that
\* these modules model, so three wait in an initial state while one runs.
EXTENDS Update, Boot, Integrations, IotReads

CONSTANTS r1, r2, shelly, d1, d2, e1, e2, hue, mqtt, alarm, q1, q2

OneRequest == {r1}
TwoRequests == {r1, r2}
OneKind == {shelly}
TwoDevices == {d1, d2}
OneDevice == {d2}
TwoEditors == {e1, e2}
TwoBackends == {hue, mqtt}
OneSweep == {alarm}
TwoReads == {q1, q2}
OneRouteRead == {q2}

\* (one of the initial states of each is enough to wait in)
BootWaits == BootInit /\ live.keys = "none"
ReadsWait == ReadsInit /\ answering = {}

UpdateRuns ==
  /\ BootWaits /\ IntegrationsInit /\ ReadsWait
  /\ Next
  /\ UNCHANGED <<bootVars, integrationVars, readVars>>
BootRuns ==
  /\ Init /\ IntegrationsInit /\ ReadsWait
  /\ BootNext
  /\ UNCHANGED <<vars, integrationVars, readVars>>
IntegrationsRun ==
  /\ Init /\ BootWaits /\ ReadsWait
  /\ IntegrationsNext
  /\ UNCHANGED <<vars, bootVars, readVars>>
OthersWait == Init /\ BootWaits /\ IntegrationsInit
ReadsRun == OthersWait /\ ReadsNext /\ UNCHANGED <<vars, bootVars, integrationVars>>

LifecycleInit ==
  /\ Init /\ BootInit /\ IntegrationsInit /\ ReadsInit
  /\ BootWaits \/ ReadsWait

\* No fair action of Update and Boot is enabled in their initial states, so
\* they have here the fairness they have alone; what reads the devices has it
\* while the others wait.
LifecycleSpec ==
  /\ LifecycleInit
  /\ [][UpdateRuns \/ BootRuns \/ IntegrationsRun \/ ReadsRun]_<<vars, bootVars, integrationVars, readVars>>
  /\ UpdateFairness /\ BootFairness
  /\ \A c \in Readers : WF_readVars(OthersWait /\ AskList(c))
  /\ \A r \in Reads : WF_readVars(OthersWait /\ ReadGoesOn(r))
  /\ WF_readVars(OthersWait /\ CacheAges)
=============================================================================
