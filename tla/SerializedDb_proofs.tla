------------------------- MODULE SerializedDb_proofs -------------------------
(***************************************************************************)
(* Proofs about SerializedDb, for any number of requests and accounts: an  *)
(* active administrator remains, transactions are serialised, and the      *)
(* connection implements UserStore.                                        *)
(***************************************************************************)
EXTENDS SerializedDb, SequenceTheorems, TLAPS

\* What each place of a transaction knows of the tables.
Changed(c) == [disk EXCEPT ![call[c].who] = call[c].kind]
Progress(c) ==
  /\ call[c].at \in {"read", "write"} => rows = disk
  /\ call[c].at \in {"write", "count"} => disk[call[c].who] # "gone"
  /\ call[c].at = "count" => rows = Changed(c)
  /\ call[c].at = "end" /\ call[c].good =>
       \/ rows = disk
       \/ rows = Changed(c) /\ HasAdmin(rows) /\ disk[call[c].who] # "gone"

\* The inductive invariant.
IInv ==
  /\ TypeOK
  /\ Serialized
  /\ AdminStays
  /\ ~open => rows = disk
  /\ \A c \in Requests : Progress(c)

-----------------------------------------------------------------------------
\* The turns after the holder of the mutex lets the next request in.
LEMMA TailOfTurns ==
  ASSUME TypeOK, turns # <<>>
  PROVE  /\ Tail(turns) \in Seq(Requests)
         /\ \A i, j \in DOMAIN Tail(turns) : Tail(turns)[i] = Tail(turns)[j] => i = j
         /\ \A i \in DOMAIN Tail(turns) : Tail(turns)[i] # Head(turns)
         /\ \A i \in DOMAIN Tail(turns) : call[Tail(turns)[i]] # Idle
<1>1. turns \in Seq(Requests) BY DEF TypeOK
<1>2. /\ Tail(turns) \in Seq(Requests)
      /\ Len(Tail(turns)) = Len(turns) - 1
      /\ \A i \in 1 .. Len(Tail(turns)) : Tail(turns)[i] = turns[i + 1]
      /\ Head(turns) = turns[1]
  BY <1>1, HeadTailProperties
<1>3. /\ DOMAIN turns = 1 .. Len(turns) /\ Len(turns) \in Nat
      /\ DOMAIN Tail(turns) = 1 .. Len(Tail(turns))
  BY <1>1, <1>2
<1>4. \A i \in DOMAIN Tail(turns) : i + 1 \in DOMAIN turns /\ 1 \in DOMAIN turns /\ i + 1 # 1
  BY <1>2, <1>3
<1>5. \A i, j \in DOMAIN Tail(turns) : i + 1 = j + 1 => i = j
  BY <1>2, <1>3
<1> QED BY <1>2, <1>3, <1>4, <1>5 DEF TypeOK

\* The turns after a request that was idle asks for its own.
LEMMA AppendToTurns ==
  ASSUME TypeOK, NEW c \in Requests, call[c] = Idle
  PROVE  /\ Append(turns, c) \in Seq(Requests)
         /\ \A i, j \in DOMAIN Append(turns, c) :
              Append(turns, c)[i] = Append(turns, c)[j] => i = j
         /\ \A i \in DOMAIN Append(turns, c) :
              Append(turns, c)[i] = c \/ call[Append(turns, c)[i]] # Idle
         /\ Append(turns, c) # <<>>
         /\ turns # <<>> => Head(Append(turns, c)) = Head(turns)
<1>1. turns \in Seq(Requests) BY DEF TypeOK
<1>2. /\ Append(turns, c) \in Seq(Requests)
      /\ Len(Append(turns, c)) = Len(turns) + 1
      /\ \A i \in 1 .. Len(turns) : Append(turns, c)[i] = turns[i]
      /\ Append(turns, c)[Len(turns) + 1] = c
  BY <1>1, AppendProperties
<1>3. /\ DOMAIN turns = 1 .. Len(turns) /\ Len(turns) \in Nat
      /\ DOMAIN Append(turns, c) = 1 .. Len(turns) + 1
  BY <1>1, <1>2
<1>4. \A i \in DOMAIN Append(turns, c) : i \in DOMAIN turns \/ i = Len(turns) + 1
  BY <1>3
<1>5. \A i \in DOMAIN turns : turns[i] # c
  BY DEF TypeOK
<1>6. \A i, j \in DOMAIN Append(turns, c) :
        Append(turns, c)[i] = Append(turns, c)[j] => i = j
  BY <1>2, <1>3, <1>4, <1>5 DEF TypeOK
<1>7. \A i \in DOMAIN Append(turns, c) :
        Append(turns, c)[i] = c \/ call[Append(turns, c)[i]] # Idle
  BY <1>2, <1>3, <1>4 DEF TypeOK
<1>8. Append(turns, c) # <<>>
  BY <1>2, <1>3, EmptySeq
<1>9. turns # <<>> => Head(Append(turns, c)) = Head(turns)
  BY <1>1, <1>2, <1>3, <1>8, HeadTailProperties, EmptySeq
<1> QED BY <1>2, <1>6, <1>7, <1>8, <1>9

-----------------------------------------------------------------------------
\* A request in a transaction holds the mutex, and no other is in one.
LEMMA Holder ==
  ASSUME IInv, NEW c \in Requests, Turn(c),
         NEW d \in Requests, d # c
  PROVE  call[d].at \notin InTransaction
BY DEF IInv, Serialized, Turn

\* Outside transactions there is nothing to know.
LEMMA OutsideProgress ==
  ASSUME NEW c \in Requests, call'[c].at \notin InTransaction
  PROVE  Progress(c)'
BY DEF Progress, InTransaction

\* A request that was idle queues for the mutex.
LEMMA Asking ==
  ASSUME IInv, NEW c \in Requests, ~Busy(c),
         NEW r \in Calls, r.at \in {"loose", "begin"},
         call' = [call EXCEPT ![c] = r],
         turns' = Append(turns, c),
         UNCHANGED <<rows, disk, open>>
  PROVE  IInv'
<1>0. TypeOK /\ call[c] = Idle BY DEF IInv, Busy
<1>1. /\ call' \in [Requests -> Calls \cup {Idle}]
      /\ call'[c] = r
      /\ \A d \in Requests : d # c => call'[d] = call[d]
  BY <1>0 DEF TypeOK
<1>2. r # Idle
  BY DEF Idle
<1>3. turns' \in Seq(Requests) /\ turns' # <<>> /\ (turns # <<>> => Head(turns') = Head(turns))
  BY <1>0, AppendToTurns
<1>4. \A i, j \in DOMAIN turns' : turns'[i] = turns'[j] => i = j
  BY <1>0, AppendToTurns
<1>5. \A i \in DOMAIN turns' : call'[turns'[i]] # Idle
  <2>1. ASSUME NEW i \in DOMAIN turns' PROVE turns'[i] \in Requests
    BY <1>3, ElementOfSeq
  <2> QED BY <1>0, <1>1, <1>2, <2>1, AppendToTurns
<1>6. TypeOK'
  BY <1>0, <1>1, <1>3, <1>4, <1>5 DEF TypeOK
<1>7. call'[c].at \notin InTransaction
  BY <1>1 DEF InTransaction
<1>8. call[c].at \notin InTransaction
  BY <1>0 DEF Idle, InTransaction
<1>9. Serialized'
  <2>1. ASSUME open' PROVE turns' # <<>> /\ call'[Head(turns')].at \in InTransaction
    <3>1. turns # <<>> /\ call[Head(turns)].at \in InTransaction
      BY <2>1 DEF IInv, Serialized
    <3>2. Head(turns) \in Requests
      BY <1>0, <3>1, HeadTailProperties DEF TypeOK
    <3> QED BY <1>1, <1>3, <1>8, <3>1, <3>2
  <2>2. ASSUME NEW d \in Requests, call'[d].at \in InTransaction PROVE open' /\ Turn(d)'
    <3>1. d # c /\ call[d].at \in InTransaction
      BY <1>1, <1>7, <2>2
    <3> QED BY <1>3, <3>1 DEF IInv, Serialized, Turn
  <2> QED BY <2>1, <2>2 DEF Serialized
<1>10. \A d \in Requests : Progress(d)'
  <2>1. ASSUME NEW d \in Requests, d # c PROVE Progress(d)'
    BY <1>1, <2>1 DEF IInv, Progress, Changed
  <2> QED BY <1>7, <2>1, OutsideProgress
<1> QED BY <1>6, <1>9, <1>10 DEF IInv, AdminStays

\* The holder of the mutex goes on within its transaction.
LEMMA Moving ==
  ASSUME IInv, NEW c \in Requests, call[c].at \in InTransaction,
         NEW r \in Calls, r.at \in InTransaction,
         call' = [call EXCEPT ![c] = r],
         rows' \in Tables, Progress(c)',
         UNCHANGED <<disk, open, turns>>
  PROVE  IInv'
<1>0. TypeOK /\ open /\ Turn(c) /\ Serialized
  BY DEF IInv, Serialized
<1>1. /\ call' \in [Requests -> Calls \cup {Idle}]
      /\ call'[c] = r
      /\ \A d \in Requests : d # c => call'[d] = call[d]
  BY <1>0 DEF TypeOK
<1>2. r # Idle
  BY DEF Idle, InTransaction
<1>3. \A i \in DOMAIN turns' : call'[turns'[i]] # Idle
  <2>1. ASSUME NEW i \in DOMAIN turns PROVE turns[i] \in Requests
    BY <1>0, ElementOfSeq DEF TypeOK
  <2> QED BY <1>0, <1>1, <1>2, <2>1 DEF TypeOK
<1>4. TypeOK'
  BY <1>0, <1>1, <1>3 DEF TypeOK
<1>5. \A d \in Requests : d # c => call'[d].at \notin InTransaction
  BY <1>0, <1>1, Holder
<1>6. Serialized'
  BY <1>0, <1>1, <1>5 DEF Serialized, Turn
<1>7. \A d \in Requests : Progress(d)'
  BY <1>5, OutsideProgress
<1> QED BY <1>0, <1>4, <1>6, <1>7 DEF IInv, AdminStays

\* The holder of the mutex is answered, and no transaction is left open.
LEMMA Releasing ==
  ASSUME IInv, NEW c \in Requests, Turn(c),
         call' = [call EXCEPT ![c] = Idle],
         turns' = Tail(turns), open' = FALSE,
         disk' \in Tables, HasAdmin(disk'), rows' = disk'
  PROVE  IInv'
<1>0. TypeOK /\ turns # <<>> /\ Head(turns) = c
  BY DEF IInv, Turn
<1>1. /\ call' \in [Requests -> Calls \cup {Idle}]
      /\ call'[c] = Idle
      /\ \A d \in Requests : d # c => call'[d] = call[d]
  BY <1>0 DEF TypeOK
<1>2. /\ turns' \in Seq(Requests)
      /\ \A i, j \in DOMAIN turns' : turns'[i] = turns'[j] => i = j
  BY <1>0, TailOfTurns
<1>3. \A i \in DOMAIN turns' : call'[turns'[i]] # Idle
  <2>1. ASSUME NEW i \in DOMAIN turns'
        PROVE  turns'[i] \in Requests /\ turns'[i] # c /\ call[turns'[i]] # Idle
    BY <1>0, <1>2, TailOfTurns, ElementOfSeq
  <2> QED BY <1>1, <2>1
<1>4. TypeOK'
  BY <1>1, <1>2, <1>3 DEF TypeOK
<1>5. \A d \in Requests : call'[d].at \notin InTransaction
  BY <1>1, Holder DEF Idle, InTransaction
<1>6. Serialized'
  BY <1>5 DEF Serialized
<1>7. \A d \in Requests : Progress(d)'
  BY <1>5, OutsideProgress
<1> QED BY <1>4, <1>6, <1>7 DEF IInv, AdminStays

-----------------------------------------------------------------------------
LEMMA InitInvariant == Init => IInv
<1> SUFFICES ASSUME Init PROVE IInv
  OBVIOUS
<1>1. \A c \in Requests : call[c] = Idle /\ call[c].at \notin InTransaction
  BY DEF Init, Idle, InTransaction
<1>2. turns \in Seq(Requests) /\ DOMAIN turns = {}
  BY DEF Init
<1>3. TypeOK
  BY <1>2 DEF Init, TypeOK
<1>4. Serialized
  BY <1>1 DEF Init, Serialized
<1>5. \A c \in Requests : Progress(c)
  BY <1>1 DEF Progress, InTransaction
<1> QED BY <1>3, <1>4, <1>5 DEF Init, IInv, AdminStays

\* A call that waits at a place is a call, and not an idle one.
LEMMA WaitingCall ==
  ASSUME TypeOK, NEW c \in Requests, call[c].at # "idle"
  PROVE  call[c] \in Calls /\ ~Busy(c) = FALSE
BY DEF TypeOK, Idle, Busy

LEMMA TableUpdate ==
  ASSUME NEW table \in Tables, NEW u \in Accounts, NEW k \in Kinds \cup {"gone"}
  PROVE  [table EXCEPT ![u] = k] \in Tables
BY DEF Tables

\* Going to another place of the transaction: what Moving needs of the call.
LEMMA GoingWithin ==
  ASSUME TypeOK, NEW c \in Requests, call[c].at \in InTransaction \cup {"begin"},
         NEW where \in InTransaction, NEW good \in BOOLEAN, Goto(c, where, good)
  PROVE  /\ Going(c, where, good) \in Calls
         /\ Going(c, where, good).at = where
         /\ Going(c, where, good).good = good
         /\ Going(c, where, good).who = call[c].who
         /\ Going(c, where, good).kind = call[c].kind
         /\ call' = [call EXCEPT ![c] = Going(c, where, good)]
         /\ call'[c] = Going(c, where, good)
<1>1. call[c] \in Calls
  BY WaitingCall DEF InTransaction
<1>2. /\ Going(c, where, good) \in Calls
      /\ Going(c, where, good).at = where
      /\ Going(c, where, good).good = good
      /\ Going(c, where, good).who = call[c].who
      /\ Going(c, where, good).kind = call[c].kind
  BY <1>1 DEF Going, Calls, InTransaction
<1>3. call' = [call EXCEPT ![c] = Going(c, where, good)]
  BY DEF Goto
<1>4. call'[c] = Going(c, where, good)
  BY <1>3 DEF TypeOK
<1> QED BY <1>2, <1>3, <1>4

LEMMA InsertSteps == ASSUME IInv, NEW c \in Requests, Insert(c) PROVE IInv'
<1>1. TypeOK /\ Turn(c) /\ call[c] \in Calls
  BY WaitingCall DEF IInv, Insert, LooseTurn
<1>2. ~open /\ rows = disk
  BY <1>1 DEF IInv, Serialized, Turn, InTransaction, Insert
<1>3. disk' = rows' /\ rows' \in Tables /\ HasAdmin(rows')
  <2>1. call[c].who \in Accounts /\ call[c].kind \in Kinds \cup {"gone"}
    BY <1>1 DEF Calls
  <2>2. disk' = rows' /\ rows' \in Tables
    BY <1>1, <1>2, <2>1, TableUpdate DEF Insert, TypeOK
  <2>3. PICK u \in Accounts : rows[u] = "admin"
    BY <1>2 DEF IInv, AdminStays, HasAdmin
  <2>4. rows'[u] = "admin"
    BY <1>1, <2>3 DEF Insert, TypeOK, Tables
  <2> QED BY <2>2, <2>4 DEF HasAdmin
<1>4. open' = FALSE
  BY <1>1, <1>2, Zenon DEF Insert, TypeOK
<1>5. call' = [call EXCEPT ![c] = Idle] /\ turns' = Tail(turns) /\ rows' = disk' /\ disk' \in Tables
  BY <1>3 DEF Insert, Answer, Released
<1> QED BY <1>1, <1>3, <1>4, <1>5, Releasing

LEMMA BeginSteps == ASSUME IInv, NEW c \in Requests, Begin(c) PROVE IInv'
<1>0. TypeOK /\ Turn(c) /\ call[c] \in Calls /\ turns # <<>> /\ Head(turns) = c
  BY WaitingCall DEF IInv, Begin, Turn
<1>1. ~open /\ rows = disk
  BY <1>0 DEF IInv, Serialized, InTransaction, Begin
<1> DEFINE r == Going(c, "read", FALSE)
<1>2. r \in Calls /\ call' = [call EXCEPT ![c] = r] /\ r.at = "read"
  <2>1. call[c].at \in InTransaction \cup {"begin"} /\ Goto(c, "read", FALSE)
    BY DEF Begin
  <2>2. "read" \in InTransaction
    BY DEF InTransaction
  <2> QED BY <1>0, <2>1, <2>2, GoingWithin
<1> HIDE DEF r
<1>3. r # Idle
  BY <1>2 DEF Idle
<1>4. /\ call' \in [Requests -> Calls \cup {Idle}]
      /\ call'[c] = r
      /\ \A d \in Requests : d # c => call'[d] = call[d]
  BY <1>0, <1>2, <1>3 DEF TypeOK
<1>5. UNCHANGED <<rows, disk, turns>> /\ open'
  BY DEF Begin
<1>6. \A i \in DOMAIN turns : turns[i] \in Requests
  BY <1>0, ElementOfSeq DEF TypeOK
<1>7. TypeOK'
  <2>1. \A i \in DOMAIN turns' : call'[turns'[i]] # Idle
    BY <1>0, <1>3, <1>4, <1>5, <1>6 DEF TypeOK
  <2> QED BY <1>0, <1>4, <1>5, <2>1 DEF TypeOK
<1>8. \A d \in Requests : d # c => call'[d].at \notin InTransaction
  BY <1>0, <1>4, Holder
<1>9. Serialized'
  BY <1>0, <1>2, <1>4, <1>5, <1>8 DEF Serialized, Turn, InTransaction
<1>10. \A d \in Requests : Progress(d)'
  <2>1. Progress(c)'
    BY <1>1, <1>2, <1>4, <1>5 DEF Progress
  <2> QED BY <1>8, <2>1, OutsideProgress
<1> QED BY <1>1, <1>5, <1>7, <1>9, <1>10 DEF IInv, AdminStays

LEMMA BeginFailsSteps == ASSUME IInv, NEW c \in Requests, BeginFails(c) PROVE IInv'
<1>1. ~open /\ rows = disk
  BY DEF IInv, Serialized, Turn, InTransaction, BeginFails
<1>2. /\ Turn(c) /\ open' = FALSE /\ rows' = disk' /\ disk' \in Tables /\ HasAdmin(disk')
      /\ call' = [call EXCEPT ![c] = Idle] /\ turns' = Tail(turns)
  BY <1>1, Zenon DEF BeginFails, AfterBeginFails, Answer, Released, IInv, TypeOK, AdminStays
<1> QED BY <1>2, Releasing
LEMMA ReadSteps == ASSUME IInv, NEW c \in Requests, Read(c) PROVE IInv'
<1>0. TypeOK /\ call[c] \in Calls /\ call[c].at = "read" /\ call[c].at \in InTransaction
  BY WaitingCall DEF IInv, Read, InTransaction
<1>1. rows = disk BY <1>0 DEF IInv, Progress
<1> DEFINE where == IF rows[call[c].who] = "gone" THEN "end" ELSE "write"
<1>2. where \in InTransaction BY DEF InTransaction
<1>3. Goto(c, where, TRUE) BY DEF Read
<1>4. where = "end" \/ (where = "write" /\ disk[call[c].who] # "gone")
  <2>1. CASE rows[call[c].who] = "gone" BY <2>1
  <2>2. CASE rows[call[c].who] # "gone" BY <1>1, <2>2
  <2> QED BY <2>1, <2>2
<1> HIDE DEF where
<1> DEFINE r == Going(c, where, TRUE)
<1>5. /\ r \in Calls
      /\ call' = [call EXCEPT ![c] = r] /\ call'[c] = r
      /\ r.at = where /\ r.who = call[c].who
  <2>1. call[c].at \in InTransaction \cup {"begin"} BY <1>0
  <2> QED BY <1>0, <1>2, <1>3, <2>1, GoingWithin
<1> HIDE DEF r
<1>6. UNCHANGED <<rows, disk, open, turns>> BY DEF Read
<1>7. Progress(c)'
  BY <1>1, <1>4, <1>5, <1>6 DEF Progress
<1>8. rows' \in Tables BY <1>0, <1>6 DEF TypeOK
<1> QED BY <1>0, <1>2, <1>5, <1>6, <1>7, <1>8, Moving

LEMMA WriteSteps == ASSUME IInv, NEW c \in Requests, Write(c) PROVE IInv'
<1>0. TypeOK /\ call[c] \in Calls /\ call[c].at = "write" /\ call[c].at \in InTransaction
  BY WaitingCall DEF IInv, Write, InTransaction
<1>1. rows = disk /\ disk[call[c].who] # "gone" BY <1>0 DEF IInv, Progress
<1>2. "count" \in InTransaction /\ TRUE \in BOOLEAN BY DEF InTransaction
<1>3. Goto(c, "count", TRUE) BY DEF Write
<1> DEFINE r == Going(c, "count", TRUE)
<1>5. /\ r \in Calls
      /\ call' = [call EXCEPT ![c] = r] /\ call'[c] = r
      /\ r.at = "count" /\ r.who = call[c].who /\ r.kind = call[c].kind
  <2>1. call[c].at \in InTransaction \cup {"begin"} BY <1>0
  <2> QED BY <1>0, <1>2, <1>3, <2>1, GoingWithin
<1> HIDE DEF r
<1>6. /\ UNCHANGED <<disk, open, turns>>
      /\ rows' = [disk EXCEPT ![call[c].who] = call[c].kind]
  BY <1>1 DEF Write
<1>7. Progress(c)'
  BY <1>1, <1>5, <1>6 DEF Progress, Changed
<1>8. rows' \in Tables
  BY <1>0, <1>6, TableUpdate DEF TypeOK, Calls
<1> QED BY <1>0, <1>2, <1>5, <1>6, <1>7, <1>8, Moving

LEMMA CountSteps == ASSUME IInv, NEW c \in Requests, Count(c) PROVE IInv'
<1>0. TypeOK /\ call[c] \in Calls /\ call[c].at = "count" /\ call[c].at \in InTransaction
  BY WaitingCall DEF IInv, Count, InTransaction
<1>1. rows = Changed(c) /\ disk[call[c].who] # "gone" BY <1>0 DEF IInv, Progress
<1>2. "end" \in InTransaction /\ AdminRemains \in BOOLEAN
  BY DEF InTransaction, AdminRemains, HasAdmin
<1>3. Goto(c, "end", AdminRemains) BY DEF Count
<1> DEFINE r == Going(c, "end", AdminRemains)
<1>5. /\ r \in Calls
      /\ call' = [call EXCEPT ![c] = r] /\ call'[c] = r
      /\ r.at = "end" /\ r.good = AdminRemains
      /\ r.who = call[c].who /\ r.kind = call[c].kind
  <2>1. call[c].at \in InTransaction \cup {"begin"} BY <1>0
  <2> QED BY <1>0, <1>2, <1>3, <2>1, GoingWithin
<1> HIDE DEF r
<1>6. UNCHANGED <<rows, disk, open, turns>> BY DEF Count
<1>7. Progress(c)'
  <2>1. Changed(c)' = Changed(c)
    BY <1>5, <1>6 DEF Changed
  <2>2. call'[c].at = "end" /\ call'[c].good = HasAdmin(rows)
    BY <1>5 DEF AdminRemains
  <2>3. HasAdmin(rows) => HasAdmin(rows')
    BY <1>6
  <2>4. rows' = Changed(c)' /\ disk'[call'[c].who] # "gone"
    BY <1>1, <1>5, <1>6, <2>1
  <2>5. call'[c].good => HasAdmin(rows')
    BY <2>2, <2>3
  <2> QED BY <2>2, <2>4, <2>5 DEF Progress
<1>8. rows' \in Tables BY <1>0, <1>6 DEF TypeOK
<1> QED BY <1>0, <1>2, <1>5, <1>6, <1>7, <1>8, Moving

LEMMA StatementFailsSteps == ASSUME IInv, NEW c \in Requests, StatementFails(c) PROVE IInv'
<1>0. TypeOK /\ call[c] \in Calls /\ call[c].at \in InTransaction
  BY WaitingCall DEF IInv, StatementFails, InTransaction
<1>2. "end" \in InTransaction /\ FALSE \in BOOLEAN BY DEF InTransaction
<1>3. Goto(c, "end", FALSE) BY DEF StatementFails
<1> DEFINE r == Going(c, "end", FALSE)
<1>5. /\ r \in Calls
      /\ call' = [call EXCEPT ![c] = r] /\ call'[c] = r
      /\ r.at = "end" /\ r.good = FALSE
  <2>1. call[c].at \in InTransaction \cup {"begin"} BY <1>0
  <2> QED BY <1>0, <1>2, <1>3, <2>1, GoingWithin
<1> HIDE DEF r
<1>6. UNCHANGED <<rows, disk, open, turns>> BY DEF StatementFails
<1>7. Progress(c)'
  BY <1>5 DEF Progress
<1>8. rows' \in Tables BY <1>0, <1>6 DEF TypeOK
<1> QED BY <1>0, <1>2, <1>5, <1>6, <1>7, <1>8, Moving

LEMMA CommitSteps == ASSUME IInv, NEW c \in Requests, Commit(c) PROVE IInv'
<1>0. TypeOK /\ call[c].at = "end" /\ call[c].at \in InTransaction
  BY DEF IInv, Commit, InTransaction
<1>1. Turn(c) BY <1>0 DEF IInv, Serialized
<1>2. HasAdmin(rows)
  BY <1>0 DEF IInv, Progress, AdminStays, Commit
<1>3. disk' = rows /\ rows' = rows /\ rows \in Tables
  BY <1>0 DEF Commit, TypeOK
<1>4. HasAdmin(disk') /\ disk' \in Tables /\ rows' = disk'
  BY <1>2, <1>3
<1>5. open' = FALSE /\ turns' = Tail(turns) /\ call' = [call EXCEPT ![c] = Idle]
  BY DEF Commit, Released, Answer
<1> QED BY <1>1, <1>4, <1>5, Releasing

LEMMA RollbackSteps == ASSUME IInv, NEW c \in Requests, Rollback(c) PROVE IInv'
<1>0. TypeOK /\ call[c].at = "end" /\ call[c].at \in InTransaction
  BY DEF IInv, Rollback, InTransaction
<1>1. Turn(c) BY <1>0 DEF IInv, Serialized
<1>3. disk' = disk /\ rows' = disk
  BY DEF Rollback
<1>4. HasAdmin(disk') /\ disk' \in Tables /\ rows' = disk'
  BY <1>0, <1>3 DEF IInv, AdminStays, TypeOK
<1>5. open' = FALSE /\ turns' = Tail(turns) /\ call' = [call EXCEPT ![c] = Idle]
  BY DEF Rollback, Released, Answer
<1> QED BY <1>1, <1>4, <1>5, Releasing

LEMMA CrashSteps == ASSUME IInv, Crash PROVE IInv'
<1>1. \A c \in Requests : call'[c] = Idle /\ call'[c].at \notin InTransaction
  BY DEF Crash, Idle, InTransaction
<1>2. TypeOK'
  <2>1. turns' \in Seq(Requests) /\ DOMAIN turns' = {}
    BY DEF Crash
  <2>2. rows' \in Tables /\ disk' \in Tables /\ open' \in BOOLEAN
    BY DEF Crash, IInv, TypeOK
  <2>3. call' \in [Requests -> Calls \cup {Idle}]
    BY DEF Crash
  <2> QED BY <2>1, <2>2, <2>3 DEF TypeOK
<1>3. Serialized' BY <1>1 DEF Crash, Serialized
<1>4. \A c \in Requests : Progress(c)' BY <1>1, OutsideProgress
<1> QED BY <1>2, <1>3, <1>4 DEF Crash, IInv, AdminStays

\* What a request asks for.
LEMMA AskedCall ==
  ASSUME NEW u \in Accounts, NEW k \in Kinds \cup {"gone"},
         NEW where \in {"loose", "begin"}, NEW good \in BOOLEAN
  PROVE  /\ [at |-> where, who |-> u, kind |-> k, good |-> good] \in Calls
         /\ [at |-> where, who |-> u, kind |-> k, good |-> good].at \in {"loose", "begin"}
BY DEF Calls

LEMMA AskCreateSteps ==
  ASSUME IInv, NEW c \in Requests, NEW u \in Accounts, NEW k \in Kinds, AskCreate(c, u, k)
  PROVE  IInv'
<1> DEFINE r == [at |-> "loose", who |-> u, kind |-> k, good |-> TRUE]
<1>1. r \in Calls /\ r.at \in {"loose", "begin"}
  BY AskedCall
<1>2. /\ ~Busy(c) /\ call' = [call EXCEPT ![c] = r]
      /\ turns' = Append(turns, c) /\ UNCHANGED <<rows, disk, open>>
  BY DEF AskCreate
<1> HIDE DEF r
<1> QED BY <1>1, <1>2, Asking

LEMMA AskChangeSteps ==
  ASSUME IInv, NEW c \in Requests, NEW u \in Accounts, NEW k \in Kinds \cup {"gone"},
         AskChange(c, u, k)
  PROVE  IInv'
<1> DEFINE r == [at |-> "begin", who |-> u, kind |-> k, good |-> FALSE]
<1>1. r \in Calls /\ r.at \in {"loose", "begin"}
  BY AskedCall
<1>2. /\ ~Busy(c) /\ call' = [call EXCEPT ![c] = r]
      /\ turns' = Append(turns, c) /\ UNCHANGED <<rows, disk, open>>
  BY DEF AskChange
<1> HIDE DEF r
<1> QED BY <1>1, <1>2, Asking

LEMMA StutterSteps == ASSUME IInv, UNCHANGED vars PROVE IInv'
<1>1. UNCHANGED <<rows, disk, open, turns, call>>
  BY DEF vars
<1>2. TypeOK' BY <1>1 DEF IInv, TypeOK
<1>3. Serialized' BY <1>1 DEF IInv, Serialized, Turn
<1>4. ASSUME NEW c \in Requests PROVE Progress(c)'
  BY <1>1 DEF IInv, Progress, Changed
<1> QED BY <1>1, <1>2, <1>3, <1>4 DEF IInv, AdminStays

LEMMA NextInvariant == IInv /\ [Next]_vars => IInv'
<1> SUFFICES ASSUME IInv, [Next]_vars PROVE IInv'
  OBVIOUS
<1>1. ASSUME NEW c \in Requests, Step(c) PROVE IInv'
  BY <1>1, InsertSteps, BeginSteps, BeginFailsSteps, ReadSteps, WriteSteps, CountSteps,
     StatementFailsSteps, CommitSteps, RollbackSteps DEF Step
<1>2. ASSUME NEW c \in Requests, NEW u \in Accounts, NEW k \in Kinds, AskCreate(c, u, k)
      PROVE  IInv'
  BY <1>2, AskCreateSteps
<1>3. ASSUME NEW c \in Requests, NEW u \in Accounts, NEW k \in Kinds \cup {"gone"},
             AskChange(c, u, k)
      PROVE  IInv'
  BY <1>3, AskChangeSteps
<1> QED BY <1>1, <1>2, <1>3, CrashSteps, StutterSteps DEF Next

-----------------------------------------------------------------------------
\* Every variable keeps to its type, and nobody queues twice for the mutex.
THEOREM DbTypeCorrect == Spec => []TypeOK
<1>1. IInv => TypeOK BY DEF IInv
<1> QED BY <1>1, InitInvariant, NextInvariant, PTL DEF Spec

\* No statement of another request reaches the connection between the BEGIN of
\* a transaction and its end, whatever fails and whenever the process dies.
THEOREM TransactionsAreSerialized == Spec => []Serialized
<1>1. IInv => Serialized BY DEF IInv
<1> QED BY <1>1, InitInvariant, NextInvariant, PTL DEF Spec

\* An active administrator always remains in the file, however many requests
\* demote or delete administrators at once.
THEOREM AnAdminAlwaysRemains == Spec => []AdminStays
<1>1. IInv => AdminStays BY DEF IInv
<1> QED BY <1>1, InitInvariant, NextInvariant, PTL DEF Spec

-----------------------------------------------------------------------------
\* The refinement: what is in the file changes as UserStore's accounts do.

LEMMA InsertCreates ==
  ASSUME IInv, NEW c \in Requests, Insert(c) PROVE [Store!Next]_disk
<1>1. TypeOK /\ Turn(c) /\ call[c] \in Calls
  BY WaitingCall DEF IInv, Insert, LooseTurn
<1>2. ~open /\ rows = disk
  BY <1>1 DEF IInv, Serialized, Turn, InTransaction, Insert
<1>3. disk' = rows'
  BY <1>2 DEF Insert
<1>4. CASE rows[call[c].who] # "gone"
  BY <1>2, <1>3, <1>4 DEF Insert
<1>5. CASE rows[call[c].who] = "gone"
  <2>1. call[c].who \in Accounts /\ call[c].kind \in Kinds \cup {"gone"}
    BY <1>1 DEF Calls
  <2>2. disk' = [disk EXCEPT ![call[c].who] = call[c].kind] /\ disk[call[c].who] = "gone"
    BY <1>2, <1>3, <1>5 DEF Insert
  <2>3. CASE call[c].kind = "gone"
    <3>1. disk' = disk BY <1>1, <2>1, <2>2, <2>3 DEF TypeOK, Tables
    <3> QED BY <3>1
  <2>4. CASE call[c].kind \in Kinds
    BY <2>1, <2>2, <2>4 DEF Store!Next, Store!Create, Store!Kinds, Kinds
  <2> QED BY <2>1, <2>3, <2>4
<1> QED BY <1>4, <1>5

LEMMA CommitChanges ==
  ASSUME IInv, NEW c \in Requests, Commit(c) PROVE [Store!Next]_disk
<1>1. TypeOK /\ call[c] \in Calls /\ call[c].at = "end" /\ call[c].good /\ disk' = rows
  BY WaitingCall DEF IInv, Commit
<1>2. \/ rows = disk
      \/ rows = Changed(c) /\ HasAdmin(rows) /\ disk[call[c].who] # "gone"
  BY <1>1 DEF IInv, Progress
<1>3. CASE rows = Changed(c) /\ HasAdmin(rows) /\ disk[call[c].who] # "gone"
  <2>1. call[c].who \in Accounts /\ call[c].kind \in Kinds \cup {"gone"}
    BY <1>1 DEF Calls
  <2>2. Store!Change(call[c].who, call[c].kind)
    BY <1>1, <1>3 DEF Store!Change, Store!HasAdmin, HasAdmin, Changed
  <2> QED BY <2>1, <2>2 DEF Store!Next, Store!Kinds, Kinds
<1> QED BY <1>1, <1>2, <1>3

\* Nothing else touches the file.
LEMMA StepRefines == IInv /\ [Next]_vars => [Store!Next]_disk
<1> SUFFICES ASSUME IInv, [Next]_vars PROVE [Store!Next]_disk
  OBVIOUS
<1>1. ASSUME NEW c \in Requests, Step(c) PROVE [Store!Next]_disk
  <2>1. CASE Insert(c) BY <2>1, InsertCreates
  <2>2. CASE Commit(c) BY <2>2, CommitChanges
  <2>3. CASE Begin(c) \/ BeginFails(c) \/ Read(c) \/ Write(c) \/ Count(c)
             \/ StatementFails(c) \/ Rollback(c)
    BY <2>3 DEF Begin, BeginFails, Read, Write, Count, StatementFails, Rollback
  <2> QED BY <1>1, <2>1, <2>2, <2>3 DEF Step
<1>2. ASSUME NEW c \in Requests, NEW u \in Accounts, NEW k \in Kinds \cup {"gone"},
             AskCreate(c, u, k) \/ AskChange(c, u, k)
      PROVE  [Store!Next]_disk
  BY <1>2 DEF AskCreate, AskChange
<1>3. CASE Crash BY <1>3 DEF Crash
<1>4. CASE UNCHANGED vars BY <1>4 DEF vars
<1> QED BY <1>1, <1>2, <1>3, <1>4 DEF Next

\* Transactions over one connection give what UserStore promises: each change
\* is all or nothing, none undoes another's, and an administrator remains.
THEOREM TransactionsImplementTheStore == Spec => ImplementsStore
<1>1. Init => Store!Init
  BY DEF Init, Store!Init, Store!HasAdmin, HasAdmin, Tables, Store!Kinds, Kinds
<1> QED BY <1>1, InitInvariant, NextInvariant, StepRefines, PTL DEF Spec, ImplementsStore, Store!Spec
=============================================================================
