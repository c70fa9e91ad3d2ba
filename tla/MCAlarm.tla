------------------------------ MODULE MCAlarm ------------------------------
\* Small instances of Alarm: two request slots, the sweep, and the
\* configurations that make a difference.
EXTENDS Alarm, TLC

CONSTANTS r1, r2

TwoRequests == {r1, r2}
Symmetry == Permutations(Requests)

\* A home with a PIN, a siren and automatic arming; delays 0 or positive.
Delays == [exit : BOOLEAN, entry : BOOLEAN, siren : {TRUE}, pin : {TRUE}, autoArm : {TRUE}]
\* The same with everything the owner may switch off.
AnyConfig == [exit : BOOLEAN, entry : BOOLEAN, siren : BOOLEAN, pin : BOOLEAN, autoArm : BOOLEAN]
TwoConfigs == {c \in AnyConfig : c.exit = c.entry /\ c.autoArm = c.entry /\ c.siren /\ c.pin}
=============================================================================
