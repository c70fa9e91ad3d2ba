----------------------------- MODULE MCPresence -----------------------------
\* Small instances of Presence: two people, one or two devices each.
EXTENDS Presence

CONSTANTS d1, d2, ana, luis, cycle

TwoPeople == {ana, luis}
OnePerson == {ana}
OneEach == {d1, d2}
Both == {d1, d2}
OwnerOneEach == [d \in OneEach |-> IF d = d1 THEN ana ELSE luis]
OwnerBoth == [d \in Both |-> ana]
CycleOnly == {cycle}
NoModes == {}
AllModes == {"home", "away", "night"}
=============================================================================
