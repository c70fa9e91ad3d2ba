------------------------------ MODULE MCAccess ------------------------------
\* Small instances of Access: one or two devices, one request at a time.
EXTENDS Access

CONSTANTS m1, m2, r1

OneMac == {m1}
TwoMacs == {m1, m2}
OneRequest == {r1}
BlockOnly == {"block"}
Everything == {"pause", "resume", "block", "unblock"}
Refusals == {"refused"}
AnyFailure == {"refused", "timeout"}

\* Who owns a rule is asked of a home whose database refuses nothing (MCHouse
\* has one that does, and there every action of Access happens).
OwnedSpec ==
  /\ AccessInit
  /\ [][~DbFails /\ AccessNext]_accessVars
  /\ AccessFairness
=============================================================================
