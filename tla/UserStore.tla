------------------------------ MODULE UserStore ------------------------------
(***************************************************************************)
(* What the accounts of the home promise (modules/users/users.service.ts): *)
(* every change happens at once or not at all, and one active              *)
(* administrator remains after each.  SerializedDb implements it with      *)
(* statements and transactions over one SQLite connection.                 *)
(***************************************************************************)
CONSTANT Accounts

VARIABLE accounts  \* each account is an active administrator, another one, or gone

Kinds == {"admin", "other"}
HasAdmin(table) == \E u \in Accounts : table[u] = "admin"

Init == accounts \in [Accounts -> Kinds \cup {"gone"}] /\ HasAdmin(accounts)

Create(u, k) ==
  /\ accounts[u] = "gone"
  /\ accounts' = [accounts EXCEPT ![u] = k]

Change(u, k) ==
  /\ accounts[u] # "gone"
  /\ accounts' = [accounts EXCEPT ![u] = k]
  /\ HasAdmin(accounts')

Next ==
  \E u \in Accounts :
    \/ \E k \in Kinds : Create(u, k)
    \/ \E k \in Kinds \cup {"gone"} : Change(u, k)

Spec == Init /\ [][Next]_accounts

\* "siempre debe quedar >=1 administrador activo" (users.service.ts).
LastAdmin == HasAdmin(accounts)
=============================================================================
