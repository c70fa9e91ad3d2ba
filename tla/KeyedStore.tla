----------------------------- MODULE KeyedStore -----------------------------
(***************************************************************************)
(* What a store of things with an id promises its callers (JsonStore of    *)
(* store/json-store.ts): each request takes effect at one moment, at most  *)
(* once, and whoever is told that it worked has seen it done.  Only a cut  *)
(* of the power may bring back an older collection, and a whole one.       *)
(***************************************************************************)
CONSTANTS Ids, Items, Absent, Calls

VARIABLES
  items,    \* the collection
  settled,  \* what a cut of the power would bring back
  asked,    \* what each request in flight wants
  done,     \* the requests in flight that took effect
  told      \* the answer to each caller's last request

storeVars == <<items, settled, asked, done, told>>

Nothing == [op |-> "nothing"]
Wishes == [op : {"list"}] \cup [op : {"put"}, id : Ids, item : Items] \cup [op : {"remove"}, id : Ids]
Applied(wish, to) ==
  CASE wish.op = "put" -> [to EXCEPT ![wish.id] = wish.item]
    [] wish.op = "remove" -> [to EXCEPT ![wish.id] = Absent]
    [] OTHER -> to

Init ==
  /\ items = [i \in Ids |-> Absent] /\ settled = items
  /\ asked = [c \in Calls |-> Nothing]
  /\ done = {}
  /\ told = [c \in Calls |-> "nothing"]

Ask(c, wish) ==
  /\ asked[c] = Nothing
  /\ asked' = [asked EXCEPT ![c] = wish]
  /\ told' = [told EXCEPT ![c] = "nothing"]
  /\ UNCHANGED <<items, settled, done>>

Do(c) ==
  /\ asked[c] # Nothing /\ c \notin done
  /\ items' = Applied(asked[c], items)
  /\ done' = done \cup {c}
  /\ UNCHANGED <<settled, asked, told>>

\* "worked" when it was done, "failed" when nothing was.
Answer(c) ==
  /\ asked[c] # Nothing
  /\ told' = [told EXCEPT ![c] = IF c \in done THEN "worked" ELSE "failed"]
  /\ asked' = [asked EXCEPT ![c] = Nothing]
  /\ done' = done \ {c}
  /\ UNCHANGED <<items, settled>>

Settle == settled' = items /\ UNCHANGED <<items, asked, done, told>>

\* The process dies, with the power or without.
Stop ==
  /\ items' \in {items, settled}
  /\ settled' \in {settled, items'}
  /\ asked' = [c \in Calls |-> Nothing]
  /\ done' = {}
  /\ UNCHANGED told

Next ==
  \/ \E c \in Calls : Do(c) \/ Answer(c) \/ \E wish \in Wishes : Ask(c, wish)
  \/ Settle \/ Stop

Spec == Init /\ [][Next]_storeVars
=============================================================================
