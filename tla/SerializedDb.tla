---------------------------- MODULE SerializedDb ----------------------------
(***************************************************************************)
(* The single SQLite connection of the agent: the FIFO mutex of            *)
(* db/serialized-adapter.ts, under the loose statements and the            *)
(* interactive transactions of modules/users/users.service.ts.             *)
(*                                                                         *)
(* The connection has no isolation of its own: whatever statement reaches  *)
(* it between BEGIN and the end of a transaction belongs to that           *)
(* transaction, and a ROLLBACK undoes it.  The mutex is what keeps the     *)
(* statements of other requests out.                                       *)
(***************************************************************************)
EXTENDS Sequences, FiniteSets

CONSTANTS
  Requests,    \* concurrent requests of the users' routes
  Accounts,
  DbFails,     \* may BEGIN, a statement or COMMIT fail, or a transaction time out?
  Crashes      \* may the process die?

ASSUME SwitchesAssumption == {DbFails, Crashes} \subseteq BOOLEAN

VARIABLES
  rows,   \* the user table as the connection sees it
  disk,   \* the table without the open transaction
  open,   \* is a transaction open?
  turns,  \* the mutex: who holds it, then who waits for it
  call    \* each request: what it does and where it waits

vars == <<rows, disk, open, turns, call>>

Kinds == {"admin", "other"}
Tables == [Accounts -> Kinds \cup {"gone"}]
HasAdmin(table) == \E u \in Accounts : table[u] = "admin"
Idle == [at |-> "idle", who |-> "nobody", kind |-> "gone", good |-> FALSE]
Calls == [at : {"loose", "begin", "read", "write", "count", "end"},
          who : Accounts, kind : Kinds \cup {"gone"}, good : BOOLEAN]
InTransaction == {"read", "write", "count", "end"}

TypeOK ==
  /\ rows \in Tables /\ disk \in Tables
  /\ open \in BOOLEAN
  /\ turns \in Seq(Requests)
  /\ call \in [Requests -> Calls \cup {Idle}]
  /\ \A i, j \in DOMAIN turns : turns[i] = turns[j] => i = j
  /\ \A i \in DOMAIN turns : call[turns[i]] # Idle

Init ==
  /\ rows \in Tables /\ HasAdmin(rows)
  /\ disk = rows /\ open = FALSE
  /\ turns = <<>>
  /\ call = [c \in Requests |-> Idle]

-----------------------------------------------------------------------------
\* The mutex: acquire() queues, the head holds it, release() lets the next in.

WithoutMutex(c) == TRUE
Turn(c) == turns # <<>> /\ Head(turns) = c
StuckTurns(c) == turns
Released(c) == Tail(turns)
Answer(c) == call' = [call EXCEPT ![c] = Idle]
Busy(c) == call[c] # Idle
Going(c, where, good) == [at |-> where, who |-> call[c].who, kind |-> call[c].kind, good |-> good]
Goto(c, where, good) == call' = [call EXCEPT ![c] = Going(c, where, good)]

\* The turn that only statements outside transactions need.
LooseTurn(c) == Turn(c)

-----------------------------------------------------------------------------
\* create(): one INSERT, refused when the email is taken.

AskCreate(c, u, k) ==
  /\ ~Busy(c)
  /\ call' = [call EXCEPT ![c] = [at |-> "loose", who |-> u, kind |-> k, good |-> TRUE]]
  /\ turns' = Append(turns, c)
  /\ UNCHANGED <<rows, disk, open>>

Insert(c) ==
  /\ call[c].at = "loose" /\ LooseTurn(c)
  /\ rows' = IF rows[call[c].who] = "gone"
               THEN [rows EXCEPT ![call[c].who] = call[c].kind] ELSE rows
  /\ disk' = IF open THEN disk ELSE rows'
  /\ turns' = Released(c)
  /\ Answer(c)
  /\ UNCHANGED open

-----------------------------------------------------------------------------
\* update() and remove(): a transaction that reads the account, writes it,
\* counts the active administrators and rolls back when none is left.

AskChange(c, u, k) ==
  /\ ~Busy(c)
  /\ call' = [call EXCEPT ![c] = [at |-> "begin", who |-> u, kind |-> k, good |-> FALSE]]
  /\ turns' = Append(turns, c)
  /\ UNCHANGED <<rows, disk, open>>

Begin(c) ==
  /\ call[c].at = "begin" /\ Turn(c)
  /\ open' = TRUE
  /\ Goto(c, "read", FALSE)
  /\ UNCHANGED <<rows, disk, turns>>

AfterBeginFails(c) == Released(c)

BeginFails(c) ==
  /\ DbFails
  /\ call[c].at = "begin" /\ Turn(c)
  /\ turns' = AfterBeginFails(c)
  /\ Answer(c)
  /\ UNCHANGED <<rows, disk, open>>

\* An account that is gone ends the transaction with nothing done.
Read(c) ==
  /\ call[c].at = "read"
  /\ Goto(c, IF rows[call[c].who] = "gone" THEN "end" ELSE "write", TRUE)
  /\ UNCHANGED <<rows, disk, open, turns>>

Write(c) ==
  /\ call[c].at = "write"
  /\ rows' = [rows EXCEPT ![call[c].who] = call[c].kind]
  /\ Goto(c, "count", TRUE)
  /\ UNCHANGED <<disk, open, turns>>

Unchecked == TRUE
AdminRemains == HasAdmin(rows)

Count(c) ==
  /\ call[c].at = "count"
  /\ Goto(c, "end", AdminRemains)
  /\ UNCHANGED <<rows, disk, open, turns>>

\* A statement fails or the transaction times out.
StatementFails(c) ==
  /\ DbFails
  /\ call[c].at \in {"read", "write", "count"}
  /\ Goto(c, "end", FALSE)
  /\ UNCHANGED <<rows, disk, open, turns>>

Commit(c) ==
  /\ call[c].at = "end" /\ call[c].good
  /\ disk' = rows
  /\ open' = FALSE
  /\ turns' = Released(c)
  /\ Answer(c)
  /\ UNCHANGED rows

\* (So ends a COMMIT that fails too: the error rolls the transaction back.)
Rollback(c) ==
  /\ call[c].at = "end" /\ (~call[c].good \/ DbFails)
  /\ rows' = disk
  /\ open' = FALSE
  /\ turns' = Released(c)
  /\ Answer(c)
  /\ UNCHANGED disk

\* SQLite forgets an open transaction when the process dies.
Crash ==
  /\ Crashes
  /\ rows' = disk
  /\ open' = FALSE
  /\ turns' = <<>>
  /\ call' = [c \in Requests |-> Idle]
  /\ UNCHANGED disk

-----------------------------------------------------------------------------
Step(c) ==
  \/ Insert(c) \/ Begin(c) \/ BeginFails(c) \/ Read(c) \/ Write(c) \/ Count(c)
  \/ StatementFails(c) \/ Commit(c) \/ Rollback(c)

Next ==
  \/ \E c \in Requests : Step(c)
  \/ \E c \in Requests, u \in Accounts, k \in Kinds : AskCreate(c, u, k)
  \/ \E c \in Requests, u \in Accounts, k \in Kinds \cup {"gone"} : AskChange(c, u, k)
  \/ Crash

Spec == Init /\ [][Next]_vars

\* better-sqlite3 answers every statement, and Prisma ends every transaction.
DbFairness == \A c \in Requests : WF_vars(Step(c))
FairSpec == Spec /\ DbFairness

-----------------------------------------------------------------------------
\* Properties.

\* A transaction is open exactly while the holder of the mutex is in it, so no
\* statement of another request can slip in between BEGIN and its end.
Serialized ==
  /\ open => turns # <<>> /\ call[Head(turns)].at \in InTransaction
  /\ \A c \in Requests : call[c].at \in InTransaction => open /\ Turn(c)

\* "siempre debe quedar >=1 administrador activo" (users.service.ts), though
\* two requests demote each other's administrator and any of them fails.
AdminStays == HasAdmin(disk)

\* A transaction is all or nothing, and takes no other request's write with it
\* when it is rolled back: the detailed system implements UserStore.
Store == INSTANCE UserStore WITH accounts <- disk
ImplementsStore == Store!Spec

\* Every request is answered: no path of a transaction keeps the mutex.
EveryoneIsServed == \A c \in Requests : Busy(c) ~> ~Busy(c)
=============================================================================
