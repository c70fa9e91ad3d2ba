------------------------------ MODULE MCPeople ------------------------------
\* The people of a house, on small instances: who is at home, what the house
\* does by itself, who is signed in.  The three share nothing that these
\* modules model, so two wait in their initial states while one runs.
EXTENDS MCPresence, Automations, Sessions, TLC

CONSTANTS lamp, dusk, off, night, t1, t2, t3, k1, r1, c1, c2

OneThing == {lamp}
ThreeRules == <<dusk, off, night>>
AllDay == 0 .. 2
\* dusk moves from one day to the next; off switches the lamp off again.
Routines ==
  [r \in {dusk, off, night} |->
     CASE r = dusk -> [on |-> Unset, at |-> [w \in 0 .. 1 |-> 1 - w], hours |-> AllDay,
                       sets |-> <<<<lamp, TRUE>>>>, cooldown |-> 1]
       [] r = off -> [on |-> <<lamp, TRUE>>, at |-> [w \in 0 .. 1 |-> Unset], hours |-> AllDay,
                      sets |-> <<<<lamp, FALSE>>>>, cooldown |-> 1]
       [] r = night -> [on |-> Unset, at |-> [w \in 0 .. 1 |-> IF w = 0 THEN 2 ELSE Unset],
                        hours |-> {0, 2}, sets |-> <<>>, cooldown |-> 1]]
TwoSlots == {"h1", "h2"}

ThreeTokens == {t1, t2, t3}
OneTicket == {k1}
OneCode == {r1}
OfAna == [r \in OneCode |-> ana]
TwoHandlers == {c1, c2}
HandlerSymmetry == Permutations(TwoHandlers)

\* (one of the initial houses is enough to wait with)
AtHome == Init /\ online = {} /\ mode = "home" /\ \A p \in People : recorded[p] = "none"

PresenceRuns == AutoInit /\ SessionsInit /\ Next /\ UNCHANGED <<autoVars, sessionVars>>

\* Events are followed through the first day and instants through the second;
\* a device does not answer in the first minute only; and it is dusk that its
\* owner edits (three bounds).
Bounded ==
  /\ clock' > 0 => poll' # [d \in OneThing |-> Null]
  /\ clock' > 1 => baseline' = Unset /\ poll' = Unset
  /\ {off, night} \subseteq enabled'
AutoRuns == AtHome /\ SessionsInit /\ AutoNext /\ Bounded /\ UNCHANGED <<vars, sessionVars>>

\* There are API tokens only before the first session, since no step looks at
\* them but to delete them; and a request begins only while there is a token
\* left to issue (two bounds).
Worthwhile ==
  /\ apiKeys' # {} => Fresh' = Tokens
  /\ Fresh = {} => \A c \in Handlers : calls[c] = NoCall => calls'[c] = NoCall
SessionsRun ==
  /\ AtHome /\ AutoInit
  /\ SessionsNext /\ Worthwhile
  /\ UNCHANGED <<vars, autoVars>>

PeopleInit == Init /\ AutoInit /\ SessionsInit

PeopleSpec ==
  /\ PeopleInit
  /\ [][PresenceRuns \/ AutoRuns \/ SessionsRun]_<<vars, autoVars, sessionVars>>
=============================================================================
