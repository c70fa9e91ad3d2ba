------------------------------ MODULE MCStorage ------------------------------
\* Where the agent keeps its things, on small instances: the database behind
\* its mutex and a JSON file behind its queue.  They share nothing, so one
\* waits in its initial states while the other runs.
EXTENDS SerializedDb, JsonStore

CONSTANTS r1, r2, r3, ana, luis, i1, i2, x, f1, f2

ThreeRequests == {r1, r2, r3}
TwoAccounts == {ana, luis}
TwoIds == {i1, i2}
OneItem == {x}
TwoCallers == {f1, f2}
AllFaults == {"io", "crash", "power", "damage"}

DbRuns == FileInit /\ Next /\ UNCHANGED fileVars
\* (one of the initial tables is enough to wait with)
FileRuns == Init /\ rows[luis] = "gone" /\ FileNext /\ UNCHANGED vars

StorageInit == Init /\ FileInit

\* No fair action of one is enabled in its initial states, so each has here
\* the fairness it has alone.
StorageSpec ==
  /\ StorageInit
  /\ [][DbRuns \/ FileRuns]_<<vars, fileVars>>
  /\ DbFairness /\ FileFairness
=============================================================================
