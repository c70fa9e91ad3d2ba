------------------------------ MODULE MCHouse ------------------------------
\* Who is at home, and who may use the network, on small instances.  The two
\* share nothing that these modules model, so one waits in an initial state
\* while the other runs.
EXTENDS MCPresence, MCAccess

\* (one of the initial states of each is enough to wait in)
PresenceWaits == Init /\ online = {} /\ mode = "home" /\ \A p \in People : recorded[p] = "none"
AccessWaits == AccessInit /\ scheduled = {} /\ manual = {} /\ paused = {}

PresenceRuns == AccessWaits /\ Next /\ UNCHANGED accessVars
AccessRuns == PresenceWaits /\ AccessNext /\ UNCHANGED vars

HouseInit == Init /\ AccessInit /\ (PresenceWaits \/ AccessWaits)

\* The fairness of Presence, while the network waits; there is no liveness of
\* the network here.
HouseSpec ==
  /\ HouseInit
  /\ [][PresenceRuns \/ AccessRuns]_<<vars, accessVars>>
  /\ WF_vars(AccessWaits /\ Serve) /\ WF_vars(AccessWaits /\ Sweep)
  /\ \A p \in People : WF_vars(AccessWaits /\ GraceEnds(p))
  /\ SF_vars(AccessWaits /\ Settings /\ Serving("setting3") /\ ~sweep'.night)
=============================================================================
