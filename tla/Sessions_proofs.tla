-------------------------- MODULE Sessions_proofs ---------------------------
(***************************************************************************)
(* Proofs about Sessions, for any accounts, tokens, tickets, codes and     *)
(* requests: a session never forks, a proof of identity is used once, and  *)
(* a request of an account that stays out gets nothing.                    *)
(***************************************************************************)
EXTENDS Sessions, TLAPS

\* Nobody can take these again.
Used == {t \in Tokens : State(t) \in {"rotated", "deleted"}} \cup consumed \cup (Codes \ codes)

\* What a request alone may still turn into a session.
Spent(c) ==
  CASE calls[c].at \in {"session", "stamp", "create"} -> calls[c].with
    [] calls[c].at \in {"user", "passkey", "code"} -> calls[c].with \cap Tickets
    [] OTHER -> {}

\* What a request carries at each step, and what is known of its account.
CallOK(c) == calls[c] # NoCall =>
  /\ calls[c].at \in {"user", "passkey", "code"} => calls[c].with \subseteq Tickets \cup Codes
  /\ calls[c].at = "passkey" => calls[c].with \cap Codes = {}
  /\ calls[c].at = "verify" => calls[c].with = {}
  /\ calls[c].at \in {"find", "owner", "claim"} => \E t \in Tokens : calls[c].with = {t}
  /\ calls[c].barred => ~InService(calls[c].user)
  /\ calls[c].at \in {"stamp", "claim", "create"} => ~calls[c].barred

\* What was taken has one holder: a request, or the session it became.
Exclusive ==
  /\ \A c \in Handlers : Spent(c) \subseteq Used
  /\ \A t \in Tokens : sessions[t].from \subseteq Used
  /\ \A c, d \in Handlers : c # d => Spent(c) \cap Spent(d) = {}
  /\ \A c \in Handlers, t \in Tokens : Spent(c) \cap sessions[t].from = {}
  /\ \A t, s \in Tokens : t # s => sessions[t].from \cap sessions[s].from = {}

\* The inductive invariant.
IInv ==
  /\ SessionsTypeOK
  /\ \A c \in Handlers : CallOK(c)
  /\ Exclusive

-----------------------------------------------------------------------------
LEMMA NoCallIsIdle == NoCall.at = "idle" /\ \A r \in InFlight : r # NoCall
BY DEF NoCall, InFlight, Steps

LEMMA NothingSpent ==
  ASSUME NEW c \in Handlers,
         calls[c].at \notin {"session", "stamp", "create", "user", "passkey", "code"}
  PROVE  Spent(c) = {}
BY DEF Spent

\* A step of one request, that takes nothing that was used.
LEMMA Progressing ==
  ASSUME IInv, NEW c \in Handlers, SessionsTypeOK', standing' = standing,
         \A d \in Handlers : d # c => calls'[d] = calls[d],
         CallOK(c)',
         Used \subseteq Used',
         \A t \in Tokens : sessions'[t].from = sessions[t].from,
         \A p \in Spent(c)' : p \in Spent(c) \/ (p \notin Used /\ p \in Used')
  PROVE  IInv'
<1>1. \A d \in Handlers : CallOK(d)'
  BY DEF IInv, CallOK, InService
<1>2. \A d \in Handlers : d # c => Spent(d)' = Spent(d)
  BY DEF Spent
<1>3. Exclusive'
  <2>1. \A d \in Handlers : Spent(d)' \subseteq Used'
    BY <1>2 DEF IInv, Exclusive
  <2>2. \A t \in Tokens : sessions'[t].from \subseteq Used'
    BY DEF IInv, Exclusive
  <2>3. \A d, e \in Handlers : d # e => Spent(d)' \cap Spent(e)' = {}
    <3>1. ASSUME NEW d \in Handlers, d # c PROVE Spent(d)' \cap Spent(c)' = {}
      BY <1>2, <3>1 DEF IInv, Exclusive
    <3>2. ASSUME NEW d \in Handlers, NEW e \in Handlers, d # c, e # c, d # e
          PROVE  Spent(d)' \cap Spent(e)' = {}
      BY <1>2, <3>2 DEF IInv, Exclusive
    <3> QED BY <3>1, <3>2
  <2>4. \A d \in Handlers, t \in Tokens : Spent(d)' \cap sessions'[t].from = {}
    BY <1>2 DEF IInv, Exclusive
  <2>5. \A t, s \in Tokens : t # s => sessions'[t].from \cap sessions'[s].from = {}
    BY DEF IInv, Exclusive
  <2> QED BY <2>1, <2>2, <2>3, <2>4, <2>5 DEF Exclusive
<1> QED BY <1>1, <1>3 DEF IInv

\* A step of the accounts and their sessions, beside every request.
LEMMA Beside ==
  ASSUME IInv, SessionsTypeOK',
         \A c \in Handlers : CallOK(c)' /\ Spent(c)' = Spent(c),
         Used \subseteq Used',
         \A t \in Tokens : sessions'[t].from = sessions[t].from
  PROVE  IInv'
BY DEF IInv, Exclusive

-----------------------------------------------------------------------------
\* What each way of going on does to the calls.
LEMMA Awaiting ==
  ASSUME SessionsTypeOK, NEW c \in Handlers, calls[c] # NoCall, NEW step \in Steps, Await(c, step)
  PROVE  /\ calls' \in [Handlers -> InFlight \cup {NoCall}]
         /\ calls'[c] # NoCall
         /\ calls'[c].at = step /\ calls'[c].user = calls[c].user
         /\ calls'[c].with = calls[c].with /\ calls'[c].barred = calls[c].barred
         /\ \A d \in Handlers : d # c => calls'[d] = calls[d]
<1>1. calls[c] \in InFlight /\ calls \in [Handlers -> InFlight \cup {NoCall}]
  BY DEF SessionsTypeOK
<1> DEFINE r == [calls[c] EXCEPT !.at = step]
<1>2. /\ r \in InFlight /\ r.at = step /\ r.user = calls[c].user
      /\ r.with = calls[c].with /\ r.barred = calls[c].barred
  BY <1>1 DEF InFlight
<1>3. calls' = [calls EXCEPT ![c] = r]
  BY DEF Await
<1> HIDE DEF r
<1> QED BY <1>1, <1>2, <1>3, NoCallIsIdle

LEMMA Reusing ==
  ASSUME SessionsTypeOK, NEW c \in Handlers, calls[c] # NoCall, Reuse(c)
  PROVE  /\ calls' \in [Handlers -> InFlight \cup {NoCall}]
         /\ calls'[c] # NoCall
         /\ calls'[c].at = "revoke" /\ calls'[c].user = calls[c].user
         /\ calls'[c].barred = calls[c].barred
         /\ \A d \in Handlers : d # c => calls'[d] = calls[d]
<1>1. calls[c] \in InFlight /\ calls \in [Handlers -> InFlight \cup {NoCall}]
  BY DEF SessionsTypeOK
<1> DEFINE r == [calls[c] EXCEPT !.at = "revoke", !.reuse = TRUE]
<1>2. /\ r \in InFlight /\ r.at = "revoke" /\ r.user = calls[c].user
      /\ r.barred = calls[c].barred
  BY <1>1 DEF InFlight, Steps
<1>3. calls' = [calls EXCEPT ![c] = r]
  BY DEF Reuse
<1> HIDE DEF r
<1> QED BY <1>1, <1>2, <1>3, NoCallIsIdle

LEMMA Responding ==
  ASSUME SessionsTypeOK, NEW c \in Handlers, Respond(c)
  PROVE  /\ calls' \in [Handlers -> InFlight \cup {NoCall}]
         /\ calls'[c] = NoCall /\ CallOK(c)' /\ Spent(c)' = {}
         /\ \A d \in Handlers : d # c => calls'[d] = calls[d]
<1>1. /\ calls' \in [Handlers -> InFlight \cup {NoCall}]
      /\ calls'[c] = NoCall
      /\ \A d \in Handlers : d # c => calls'[d] = calls[d]
  BY DEF SessionsTypeOK, Respond
<1> QED BY <1>1, NoCallIsIdle DEF CallOK, Spent

LEMMA Asking ==
  ASSUME SessionsTypeOK, NEW c \in Handlers, NEW step \in Steps, NEW u \in Users,
         NEW with \in SUBSET Proofs, Ask(c, step, u, with)
  PROVE  /\ calls' \in [Handlers -> InFlight \cup {NoCall}]
         /\ calls'[c] # NoCall
         /\ calls'[c].at = step /\ calls'[c].user = u
         /\ calls'[c].with = with /\ calls'[c].barred = ~InService(u)
         /\ \A d \in Handlers : d # c => calls'[d] = calls[d]
<1> DEFINE r == [at |-> step, user |-> u, with |-> with, barred |-> ~InService(u), reuse |-> FALSE]
<1>1. calls \in [Handlers -> InFlight \cup {NoCall}]
  BY DEF SessionsTypeOK
<1>2. r \in InFlight
  BY DEF InFlight, InService
<1>3. /\ r.at = step /\ r.user = u /\ r.with = with /\ r.barred = ~InService(u)
  OBVIOUS
<1>4. calls' = [calls EXCEPT ![c] = r]
  BY DEF Ask
<1> HIDE DEF r
<1> QED BY <1>1, <1>2, <1>3, <1>4, NoCallIsIdle

-----------------------------------------------------------------------------
\* Steps that leave everything but the calls (and the tickets issued) alone.
LEMMA Quietly ==
  ASSUME IInv, NEW c \in Handlers,
         calls' \in [Handlers -> InFlight \cup {NoCall}],
         \A d \in Handlers : d # c => calls'[d] = calls[d],
         tickets' \in [Tickets -> Users \cup {None}],
         UNCHANGED <<standing, sessions, apiKeys, codes, consumed>>,
         CallOK(c)', Spent(c)' \subseteq Spent(c)
  PROVE  IInv'
<1>1. SessionsTypeOK'
  BY DEF IInv, SessionsTypeOK
<1>2. Used' = Used /\ \A t \in Tokens : sessions'[t].from = sessions[t].from
  BY DEF Used, State
<1> QED BY <1>1, <1>2, Progressing

LEMMA RespondSteps ==
  ASSUME IInv, NEW c \in Handlers, Respond(c), tickets' \in [Tickets -> Users \cup {None}],
         UNCHANGED <<standing, sessions, apiKeys, codes, consumed>>
  PROVE  IInv'
BY Responding, Quietly DEF IInv

LEMMA TicketsKeepTheirType == SessionsTypeOK /\ UNCHANGED tickets => tickets' \in [Tickets -> Users \cup {None}]
BY DEF SessionsTypeOK

\* Going on to a step that holds no more than the request already does.
LEMMA AwaitSteps ==
  ASSUME IInv, NEW c \in Handlers, calls[c] # NoCall, NEW step \in Steps, Await(c, step),
         UNCHANGED <<standing, sessions, apiKeys, codes, tickets, consumed>>,
         \/ calls[c].at \in {"verify", "passkey"} /\ step = "session"
         \/ calls[c].at = "user" /\ step = "code"
         \/ calls[c].at = "user" /\ step = "passkey" /\ calls[c].with \cap Codes = {}
         \/ calls[c].at = "session" /\ step = "stamp"
         \/ calls[c].at = "stamp" /\ step = "create"
         \/ calls[c].at = "find" /\ step = "owner"
         \/ calls[c].at = "owner" /\ step = "claim"
         \/ step \in {"revoke", "keys"},
         step \in {"stamp", "claim"} => InService(calls[c].user)
  PROVE  IInv'
<1>1. /\ calls' \in [Handlers -> InFlight \cup {NoCall}]
      /\ calls'[c] # NoCall
      /\ calls'[c].at = step /\ calls'[c].user = calls[c].user
      /\ calls'[c].with = calls[c].with /\ calls'[c].barred = calls[c].barred
      /\ \A d \in Handlers : d # c => calls'[d] = calls[d]
  BY Awaiting DEF IInv
<1>2. CallOK(c)
  BY DEF IInv
<1>3. CallOK(c)'
  BY <1>1, <1>2 DEF CallOK, InService
<1>4. Spent(c)' \subseteq Spent(c)
  <2>1. CASE step \in {"owner", "claim", "revoke", "keys"}
    BY <1>1, <2>1 DEF Spent
  <2>2. CASE calls[c].at = "verify" /\ step = "session"
    BY <1>1, <1>2, <2>2 DEF Spent, CallOK
  <2>3. CASE calls[c].at = "user" /\ step \in {"code", "passkey"}
    BY <1>1, <2>3 DEF Spent
  <2>4. CASE calls[c].at \in {"session", "stamp"} /\ step \in {"stamp", "create"}
    BY <1>1, <2>4 DEF Spent
  <2>5. CASE calls[c].at = "passkey" /\ step = "session"
    <3>1. calls[c].with \subseteq Tickets
      BY <1>2, <2>5 DEF CallOK
    <3> QED BY <1>1, <2>5, <3>1 DEF Spent
  <2> QED BY <2>1, <2>2, <2>3, <2>4, <2>5
<1> QED BY <1>1, <1>3, <1>4, TicketsKeepTheirType, Quietly DEF IInv

LEMMA AskSteps ==
  ASSUME IInv, NEW c \in Handlers, NEW u \in Users, NEW with \in SUBSET Proofs,
         NEW step \in {"verify", "code", "find"}, Ask(c, step, u, with),
         step = "verify" => with = {},
         step = "code" => with \subseteq Codes,
         step = "find" => \E t \in Tokens : with = {t},
         UNCHANGED <<standing, sessions, apiKeys, codes, tickets, consumed>>
  PROVE  IInv'
<1>1. /\ calls' \in [Handlers -> InFlight \cup {NoCall}]
      /\ calls'[c] # NoCall
      /\ calls'[c].at = step /\ calls'[c].user = u
      /\ calls'[c].with = with /\ calls'[c].barred = ~InService(u)
      /\ \A d \in Handlers : d # c => calls'[d] = calls[d]
  BY Asking DEF IInv, Steps
<1>2. CallOK(c)'
  BY <1>1 DEF CallOK, InService
<1>3. Spent(c)' = {}
  BY <1>1, SessionsAssumption DEF Spent
<1> QED BY <1>1, <1>2, <1>3, TicketsKeepTheirType, Quietly DEF IInv

-----------------------------------------------------------------------------
\* A call in flight, and the types of what it carries.
LEMMA InFlightCall ==
  ASSUME IInv, NEW c \in Handlers, NEW step, At(c, step)
  PROVE  /\ calls[c] # NoCall /\ calls[c] \in InFlight /\ calls[c].at = step
         /\ calls[c].user \in Users /\ calls[c].with \subseteq Proofs
BY DEF IInv, SessionsTypeOK, At, InFlight

LEMMA VerifyCredentialsSteps ==
  ASSUME IInv, NEW c \in Handlers, VerifyCredentials(c) PROVE IInv'
<1>1. /\ calls[c] # NoCall /\ calls[c].at = "verify" /\ calls[c].user \in Users
      /\ UNCHANGED <<standing, sessions, apiKeys, codes, consumed>>
  BY InFlightCall DEF VerifyCredentials
<1>2. CASE Respond(c) /\ \E k \in Tickets : tickets' = [tickets EXCEPT ![k] = calls[c].user]
  <2>1. tickets' \in [Tickets -> Users \cup {None}]
    BY <1>1, <1>2 DEF IInv, SessionsTypeOK
  <2> QED BY <1>1, <1>2, <2>1, RespondSteps
<1>3. CASE Respond(c) /\ UNCHANGED tickets
  BY <1>1, <1>3, TicketsKeepTheirType, RespondSteps DEF IInv
<1>4. CASE Await(c, "session") /\ UNCHANGED tickets
  BY <1>1, <1>4, AwaitSteps DEF Steps
<1> QED BY <1>2, <1>3, <1>4 DEF VerifyCredentials, GoIf

LEMMA AskSecondFactorSteps ==
  ASSUME IInv, NEW c \in Handlers, NEW k \in Tickets, NEW extra \in SUBSET Codes,
         AskSecondFactor(c, k, {k} \cup extra)
  PROVE  IInv'
<1> DEFINE with == {k} \cup extra
<1>1. tickets[k] \in Users
  BY DEF IInv, SessionsTypeOK, AskSecondFactor
<1>2. with \in SUBSET Proofs /\ with \cap Tickets = {k}
  BY SessionsAssumption DEF Proofs
<1>3. /\ calls' \in [Handlers -> InFlight \cup {NoCall}]
      /\ calls'[c] # NoCall
      /\ calls'[c].at = "user" /\ calls'[c].user = tickets[k]
      /\ calls'[c].with = with /\ calls'[c].barred = ~InService(tickets[k])
      /\ \A d \in Handlers : d # c => calls'[d] = calls[d]
  <2>1. Ask(c, "user", tickets[k], with) /\ "user" \in Steps
    BY DEF AskSecondFactor, Steps
  <2> HIDE DEF with
  <2> QED BY <1>1, <1>2, <2>1, Asking DEF IInv
<1>4. /\ k \notin consumed /\ consumed' = consumed \cup {k}
      /\ UNCHANGED <<standing, sessions, apiKeys, codes, tickets>>
  BY DEF AskSecondFactor, FirstUse
<1>5. CallOK(c)'
  BY <1>3, <1>4 DEF CallOK, InService
<1>6. Spent(c)' = {k}
  BY <1>2, <1>3 DEF Spent
<1>7. SessionsTypeOK'
  BY <1>3, <1>4 DEF IInv, SessionsTypeOK
<1>8. Used' = Used \cup {k} /\ \A t \in Tokens : sessions'[t].from = sessions[t].from
  BY <1>4 DEF Used, State
<1>9. k \notin Used
  BY <1>4, SessionsAssumption DEF Used
<1> QED BY <1>3, <1>4, <1>5, <1>6, <1>7, <1>8, <1>9, Progressing

LEMMA SpendCodeSteps == ASSUME IInv, NEW c \in Handlers, SpendCode(c) PROVE IInv'
<1>1. /\ calls[c] # NoCall /\ calls[c].at = "code" /\ calls[c].with \subseteq Proofs
      /\ codes' = codes \ calls[c].with
      /\ UNCHANGED <<standing, sessions, apiKeys, tickets, consumed>>
  BY InFlightCall DEF SpendCode
<1>2. /\ Used \subseteq Used' /\ \A t \in Tokens : sessions'[t].from = sessions[t].from
      /\ \A r \in Codes : r \in calls[c].with => r \in Used'
  BY <1>1 DEF Used, State
<1>3. CASE Respond(c)
  <2>1. /\ calls' \in [Handlers -> InFlight \cup {NoCall}] /\ CallOK(c)' /\ Spent(c)' = {}
        /\ \A d \in Handlers : d # c => calls'[d] = calls[d]
    BY <1>3, Responding DEF IInv
  <2>2. SessionsTypeOK'
    BY <1>1, <2>1 DEF IInv, SessionsTypeOK
  <2> QED BY <1>1, <1>2, <2>1, <2>2, Progressing
<1>4. CASE Await(c, "session") /\ Unspent(c)
  <2>1. /\ calls' \in [Handlers -> InFlight \cup {NoCall}]
        /\ calls'[c] # NoCall
        /\ calls'[c].at = "session" /\ calls'[c].user = calls[c].user
        /\ calls'[c].with = calls[c].with /\ calls'[c].barred = calls[c].barred
        /\ \A d \in Handlers : d # c => calls'[d] = calls[d]
    BY <1>1, <1>4, Awaiting DEF IInv, Steps
  <2>2. CallOK(c)
    BY DEF IInv
  <2>3. CallOK(c)'
    BY <1>1, <2>1, <2>2 DEF CallOK, InService
  <2>4. SessionsTypeOK'
    BY <1>1, <2>1 DEF IInv, SessionsTypeOK
  <2>5. ASSUME NEW p \in Spent(c)' PROVE p \in Spent(c) \/ (p \notin Used /\ p \in Used')
    <3>1. p \in calls[c].with /\ p \in Tickets \cup Codes
      BY <1>1, <2>1, <2>2, <2>5 DEF Spent, CallOK
    <3>2. CASE p \in Tickets
      BY <1>1, <3>1, <3>2 DEF Spent
    <3>3. CASE p \in Codes
      <4>1. p \in codes
        BY <1>4, <3>1, <3>3 DEF Unspent
      <4>2. p \notin Used
        BY <3>3, <4>1, SessionsAssumption DEF Used, IInv, SessionsTypeOK
      <4> QED BY <1>2, <3>1, <3>3, <4>2
    <3> QED BY <3>1, <3>2, <3>3
  <2> QED BY <1>1, <1>2, <2>1, <2>3, <2>4, <2>5, Progressing
<1> QED BY <1>3, <1>4 DEF SpendCode, GoIf

\* The account is read as it is now.
LEMMA ReadAccountSteps == ASSUME IInv, NEW c \in Handlers, ReadAccount(c) PROVE IInv'
<1>1. /\ calls[c] # NoCall /\ calls[c].at = "session"
      /\ UNCHANGED <<standing, sessions, apiKeys, codes, tickets, consumed>>
  BY DEF ReadAccount, At
<1>2. CASE Respond(c)
  BY <1>1, <1>2, TicketsKeepTheirType, RespondSteps DEF IInv
<1>3. CASE Await(c, "stamp") /\ InService(calls[c].user)
  BY <1>1, <1>3, AwaitSteps DEF Steps
<1> QED BY <1>2, <1>3 DEF ReadAccount, GoIf, MayEnter

LEMMA MfaSteps ==
  ASSUME IInv, NEW c \in Handlers, ResolveMfaUser(c) \/ VerifyPasskey(c) \/ StampLogin(c) PROVE IInv'
<1>1. calls[c] # NoCall /\ UNCHANGED <<standing, sessions, apiKeys, codes, tickets, consumed>>
  BY DEF ResolveMfaUser, VerifyPasskey, StampLogin, At
<1>2. CASE Respond(c)
  BY <1>1, <1>2, TicketsKeepTheirType, RespondSteps DEF IInv
<1>3. CASE ~Respond(c)
  <2>1. \/ calls[c].at = "user" /\ Await(c, "passkey") /\ calls[c].with \cap Codes = {}
        \/ calls[c].at = "user" /\ Await(c, "code")
        \/ calls[c].at = "passkey" /\ Await(c, "session")
        \/ calls[c].at = "stamp" /\ Await(c, "create")
    BY <1>3 DEF ResolveMfaUser, VerifyPasskey, StampLogin, GoIf, At
  <2>2. {"passkey", "code", "session", "create"} \subseteq Steps
    BY DEF Steps
  <2> QED BY <1>1, <2>1, <2>2, AwaitSteps
<1> QED BY <1>2, <1>3

LEMMA CreateRowSteps == ASSUME IInv, NEW c \in Handlers, CreateRow(c) PROVE IInv'
<1>1. /\ calls[c] # NoCall /\ calls[c].at = "create" /\ calls[c].user \in Users
      /\ calls[c].with \subseteq Proofs /\ Respond(c)
      /\ UNCHANGED <<standing, apiKeys, codes, tickets, consumed>>
  BY InFlightCall DEF CreateRow
<1>2. CASE UNCHANGED sessions
  BY <1>1, <1>2, TicketsKeepTheirType, RespondSteps DEF IInv
<1>3. CASE ~UNCHANGED sessions
  <2> DEFINE row == [state |-> "live", owner |-> calls[c].user, from |-> calls[c].with]
  <2>1. PICK t \in Fresh : sessions' = [sessions EXCEPT ![t] = row]
    BY <1>3 DEF CreateRow
  <2>2. t \in Tokens /\ State(t) = "unused" /\ row \in Rows
    BY <1>1, <2>1 DEF Fresh, Rows, RowStates
  <2>3. row.state = "live" /\ row.from = calls[c].with
    OBVIOUS
  <2> HIDE DEF row
  <2>4. /\ sessions' \in [Tokens -> Rows] /\ sessions'[t] = row
        /\ \A s \in Tokens : s # t => sessions'[s] = sessions[s]
    BY <2>1, <2>2 DEF IInv, SessionsTypeOK
  <2>5. /\ calls' \in [Handlers -> InFlight \cup {NoCall}]
        /\ CallOK(c)' /\ Spent(c)' = {}
        /\ \A d \in Handlers : d # c => calls'[d] = calls[d]
    BY <1>1, Responding DEF IInv
  <2>6. SessionsTypeOK'
    BY <1>1, <2>4, <2>5 DEF IInv, SessionsTypeOK
  <2>7. \A d \in Handlers : CallOK(d)'
    BY <1>1, <2>5 DEF IInv, CallOK, InService
  <2>8. \A d \in Handlers : d # c => Spent(d)' = Spent(d)
    BY <2>5 DEF Spent
  <2>9. Spent(c) = calls[c].with
    BY <1>1 DEF Spent
  <2>10. Used' = Used
    BY <1>1, <2>2, <2>3, <2>4 DEF Used, State
  <2>11. Exclusive'
    <3>1. \A d \in Handlers : Spent(d)' \subseteq Used'
      BY <2>5, <2>8, <2>10 DEF IInv, Exclusive
    <3>2. \A s \in Tokens : sessions'[s].from \subseteq Used'
      BY <2>3, <2>4, <2>9, <2>10 DEF IInv, Exclusive
    <3>3. \A d, e \in Handlers : d # e => Spent(d)' \cap Spent(e)' = {}
      BY <2>5, <2>8 DEF IInv, Exclusive
    <3>4. \A d \in Handlers, s \in Tokens : Spent(d)' \cap sessions'[s].from = {}
      BY <2>3, <2>4, <2>5, <2>8, <2>9 DEF IInv, Exclusive
    <3>5. \A r, s \in Tokens : r # s => sessions'[r].from \cap sessions'[s].from = {}
      BY <2>2, <2>3, <2>4, <2>9 DEF IInv, Exclusive
    <3> QED BY <3>1, <3>2, <3>3, <3>4, <3>5 DEF Exclusive
  <2> QED BY <2>6, <2>7, <2>11 DEF IInv
<1> QED BY <1>2, <1>3

LEMMA FindTokenSteps == ASSUME IInv, NEW c \in Handlers, FindToken(c) PROVE IInv'
<1>1. /\ calls[c] # NoCall /\ calls[c].at = "find"
      /\ UNCHANGED <<standing, sessions, apiKeys, codes, tickets, consumed>>
  BY DEF FindToken, At
<1>2. CASE Reuse(c)
  <2>1. /\ calls' \in [Handlers -> InFlight \cup {NoCall}]
        /\ calls'[c] # NoCall
        /\ calls'[c].at = "revoke" /\ calls'[c].user = calls[c].user
        /\ calls'[c].barred = calls[c].barred
        /\ \A d \in Handlers : d # c => calls'[d] = calls[d]
    BY <1>1, <1>2, Reusing DEF IInv
  <2>2. CallOK(c)' /\ Spent(c)' = {}
    BY <1>1, <2>1 DEF IInv, CallOK, InService, Spent
  <2> QED BY <1>1, <2>1, <2>2, TicketsKeepTheirType, Quietly DEF IInv
<1>3. CASE Await(c, "owner")
  BY <1>1, <1>3, AwaitSteps DEF Steps
<1>4. CASE Respond(c)
  BY <1>1, <1>4, TicketsKeepTheirType, RespondSteps DEF IInv
<1> QED BY <1>2, <1>3, <1>4 DEF FindToken

LEMMA FindOwnerSteps == ASSUME IInv, NEW c \in Handlers, FindOwner(c) PROVE IInv'
<1>1. /\ calls[c] # NoCall /\ calls[c].at = "owner"
      /\ UNCHANGED <<standing, sessions, apiKeys, codes, tickets, consumed>>
  BY DEF FindOwner, At
<1>2. {"claim", "revoke"} \subseteq Steps
  BY DEF Steps
<1>3. CASE Respond(c)
  BY <1>1, <1>3, TicketsKeepTheirType, RespondSteps DEF IInv
<1>4. CASE Await(c, "claim") /\ InService(calls[c].user)
  BY <1>1, <1>2, <1>4, AwaitSteps
<1>5. CASE Await(c, "revoke")
  BY <1>1, <1>2, <1>5, AwaitSteps
<1> QED BY <1>3, <1>4, <1>5 DEF FindOwner, MayEnter

\* The conditional update takes a token that nobody had taken.
LEMMA ClaimSteps == ASSUME IInv, NEW c \in Handlers, Claim(c) PROVE IInv'
<1>1. /\ calls[c] # NoCall /\ calls[c].at = "claim"
      /\ UNCHANGED <<standing, apiKeys, codes, tickets, consumed>>
  BY DEF Claim, At
<1>2. CallOK(c)
  BY DEF IInv
<1>3. PICK t \in Tokens : calls[c].with = {t}
  BY <1>1, <1>2 DEF CallOK
<1>4. CASE Claimable(t)
  <2>1. /\ Await(c, "create") /\ sessions' = [sessions EXCEPT ![t].state = "rotated"]
        /\ State(t) = "live"
    BY <1>3, <1>4 DEF Claim, Claimable
  <2>2. /\ calls' \in [Handlers -> InFlight \cup {NoCall}]
        /\ calls'[c] # NoCall
        /\ calls'[c].at = "create" /\ calls'[c].user = calls[c].user
        /\ calls'[c].with = calls[c].with /\ calls'[c].barred = calls[c].barred
        /\ \A d \in Handlers : d # c => calls'[d] = calls[d]
    BY <1>1, <2>1, Awaiting DEF IInv, Steps
  <2>3. /\ sessions' \in [Tokens -> Rows]
        /\ \A s \in Tokens : sessions'[s].from = sessions[s].from
        /\ sessions'[t].state = "rotated"
        /\ \A s \in Tokens : s # t => sessions'[s] = sessions[s]
    BY <2>1 DEF IInv, SessionsTypeOK, Rows, RowStates
  <2>4. SessionsTypeOK'
    BY <1>1, <2>2, <2>3 DEF IInv, SessionsTypeOK
  <2>5. CallOK(c)'
    BY <1>1, <1>2, <2>2 DEF CallOK, InService
  <2>6. Used' = Used \cup {t}
    BY <1>1, <2>3 DEF Used, State
  <2>7. t \notin Used
    BY <2>1, SessionsAssumption DEF Used, IInv, SessionsTypeOK
  <2>8. Spent(c)' = {t}
    BY <1>3, <2>2 DEF Spent
  <2> QED BY <1>1, <2>2, <2>3, <2>4, <2>5, <2>6, <2>7, <2>8, Progressing
<1>5. CASE ~Claimable(t)
  <2>1. Reuse(c) /\ UNCHANGED sessions
    BY <1>3, <1>5 DEF Claim
  <2>2. /\ calls' \in [Handlers -> InFlight \cup {NoCall}]
        /\ calls'[c] # NoCall
        /\ calls'[c].at = "revoke" /\ calls'[c].user = calls[c].user
        /\ calls'[c].barred = calls[c].barred
        /\ \A d \in Handlers : d # c => calls'[d] = calls[d]
    BY <1>1, <2>1, Reusing DEF IInv
  <2>3. CallOK(c)' /\ Spent(c)' = {}
    BY <1>1, <2>2 DEF IInv, CallOK, InService, Spent
  <2> QED BY <1>1, <2>1, <2>2, <2>3, TicketsKeepTheirType, Quietly DEF IInv
<1> QED BY <1>4, <1>5

-----------------------------------------------------------------------------
\* Revoking takes nothing: a revoked row is neither rotated nor deleted.
LEMMA RevokedRows ==
  ASSUME SessionsTypeOK, NEW which, sessions' = Revoked(which), UNCHANGED <<codes, consumed>>
  PROVE  /\ sessions' \in [Tokens -> Rows]
         /\ Used' = Used
         /\ \A t \in Tokens : sessions'[t].from = sessions[t].from
<1>1. sessions \in [Tokens -> Rows]
  BY DEF SessionsTypeOK
<1>2. ASSUME NEW t \in Tokens
      PROVE  /\ sessions'[t] \in Rows /\ sessions'[t].from = sessions[t].from
             /\ sessions'[t] # sessions[t] => sessions[t].state = "live" /\ sessions'[t].state = "revoked"
  <2>1. CASE t \in which /\ State(t) = "live"
    <3>1. sessions'[t] = [sessions[t] EXCEPT !.state = "revoked"]
      BY <2>1 DEF Revoked
    <3> QED BY <1>1, <2>1, <3>1 DEF Rows, RowStates, State
  <2>2. CASE ~(t \in which /\ State(t) = "live")
    <3>1. sessions'[t] = sessions[t]
      BY <2>2 DEF Revoked
    <3> QED BY <1>1, <3>1
  <2> QED BY <2>1, <2>2
<1>3. Used' = Used
  BY <1>2 DEF Used, State
<1> QED BY <1>2, <1>3 DEF Revoked

LEMMA RevokeSteps == ASSUME IInv, NEW which, Revoke(which) PROVE IInv'
<1>1. sessions' = Revoked(which) /\ UNCHANGED <<standing, apiKeys, codes, tickets, consumed, calls>>
  BY DEF Revoke
<1>2. /\ sessions' \in [Tokens -> Rows] /\ Used' = Used
      /\ \A t \in Tokens : sessions'[t].from = sessions[t].from
  BY <1>1, RevokedRows DEF IInv
<1>3. SessionsTypeOK'
  BY <1>1, <1>2 DEF IInv, SessionsTypeOK
<1>4. \A c \in Handlers : CallOK(c)' /\ Spent(c)' = Spent(c)
  BY <1>1 DEF IInv, CallOK, InService, Spent
<1> QED BY <1>2, <1>3, <1>4, Beside

LEMMA RevokeAllSteps == ASSUME IInv, NEW c \in Handlers, RevokeAll(c) PROVE IInv'
<1>1. /\ calls[c] # NoCall /\ calls[c].at = "revoke" /\ Await(c, "keys")
      /\ sessions' = Revoked(OwnedBy(calls[c].user))
      /\ UNCHANGED <<standing, apiKeys, codes, tickets, consumed>>
  BY DEF RevokeAll, At
<1>2. /\ sessions' \in [Tokens -> Rows] /\ Used' = Used
      /\ \A t \in Tokens : sessions'[t].from = sessions[t].from
  BY <1>1, RevokedRows DEF IInv
<1>3. /\ calls' \in [Handlers -> InFlight \cup {NoCall}]
      /\ calls'[c] # NoCall
      /\ calls'[c].at = "keys" /\ calls'[c].user = calls[c].user
      /\ calls'[c].with = calls[c].with /\ calls'[c].barred = calls[c].barred
      /\ \A d \in Handlers : d # c => calls'[d] = calls[d]
  BY <1>1, Awaiting DEF IInv, Steps
<1>4. SessionsTypeOK'
  BY <1>1, <1>2, <1>3 DEF IInv, SessionsTypeOK
<1>5. CallOK(c)' /\ Spent(c)' = {}
  BY <1>1, <1>3 DEF IInv, CallOK, InService, Spent
<1> QED BY <1>1, <1>2, <1>3, <1>4, <1>5, Progressing

LEMMA DeleteKeysSteps == ASSUME IInv, NEW c \in Handlers, DeleteKeys(c) PROVE IInv'
<1>1. /\ Respond(c) /\ apiKeys' \subseteq apiKeys
      /\ UNCHANGED <<standing, sessions, codes, tickets, consumed>>
  BY DEF DeleteKeys
<1>2. /\ calls' \in [Handlers -> InFlight \cup {NoCall}] /\ CallOK(c)' /\ Spent(c)' = {}
      /\ \A d \in Handlers : d # c => calls'[d] = calls[d]
  BY <1>1, Responding DEF IInv
<1>3. SessionsTypeOK'
  BY <1>1, <1>2 DEF IInv, SessionsTypeOK
<1>4. Used' = Used /\ \A t \in Tokens : sessions'[t].from = sessions[t].from
  BY <1>1 DEF Used, State
<1> QED BY <1>1, <1>2, <1>3, <1>4, Progressing

-----------------------------------------------------------------------------
\* Accounts.

LEMMA ChangeAccountSteps ==
  ASSUME IInv, NEW c \in Handlers, NEW u \in Users, ChangeAccount(c, u) PROVE IInv'
<1> DEFINE r == [at |-> "revoke", user |-> u, with |-> {}, barred |-> FALSE, reuse |-> FALSE]
<1>1. /\ standing' \in {standing, [standing EXCEPT ![u] = "out"]}
      /\ calls' = [calls EXCEPT ![c] = r]
      /\ UNCHANGED <<sessions, apiKeys, codes, tickets, consumed>>
  BY DEF ChangeAccount
<1>2. r \in InFlight /\ r.at = "revoke" /\ r.barred = FALSE
  BY DEF InFlight, Steps
<1> HIDE DEF r
<1>3. /\ calls' \in [Handlers -> InFlight \cup {NoCall}] /\ calls'[c] = r
      /\ \A d \in Handlers : d # c => calls'[d] = calls[d]
  BY <1>1, <1>2 DEF IInv, SessionsTypeOK
<1>4. /\ standing' \in [Users -> Standings]
      /\ \A v \in Users : standing'[v] = "active" => standing[v] = "active"
  BY <1>1 DEF IInv, SessionsTypeOK, Standings
<1>5. SessionsTypeOK'
  BY <1>1, <1>3, <1>4 DEF IInv, SessionsTypeOK
<1>6. ASSUME NEW d \in Handlers PROVE CallOK(d)'
  <2>1. CASE d = c
    BY <1>2, <1>3, <2>1 DEF CallOK
  <2>2. CASE d # c /\ calls[d] # NoCall
    <3>1. calls[d].user \in Users /\ calls'[d] = calls[d]
      BY <1>3, <2>2 DEF IInv, SessionsTypeOK, InFlight
    <3> QED BY <1>4, <2>2, <3>1 DEF IInv, CallOK, InService
  <2>3. CASE d # c /\ calls[d] = NoCall
    BY <1>3, <2>3 DEF CallOK
  <2> QED BY <2>1, <2>2, <2>3
<1>7. \A d \in Handlers : d # c => Spent(d)' = Spent(d)
  BY <1>3 DEF Spent
<1>8. Spent(c)' = {}
  BY <1>2, <1>3 DEF Spent
<1>9. Used' = Used /\ \A t \in Tokens : sessions'[t].from = sessions[t].from
  BY <1>1 DEF Used, State
<1>10. Exclusive'
  BY <1>7, <1>8, <1>9 DEF IInv, Exclusive
<1> QED BY <1>5, <1>6, <1>10 DEF IInv

LEMMA ReturnAccountSteps == ASSUME IInv, NEW u \in Users, ReturnAccount(u) PROVE IInv'
<1>1. /\ standing' = [standing EXCEPT ![u] = "active"] /\ calls' = Served({u})
      /\ UNCHANGED <<sessions, apiKeys, codes, tickets, consumed>>
  BY DEF ReturnAccount
<1>2. ASSUME NEW c \in Handlers
      PROVE  /\ calls'[c] \in InFlight \cup {NoCall}
             /\ calls'[c].at = calls[c].at /\ calls'[c].with = calls[c].with
             /\ CallOK(c)'
  <2>1. CASE calls[c] # NoCall /\ calls[c].user = u
    <3>1. calls[c] \in InFlight
      BY <2>1 DEF IInv, SessionsTypeOK
    <3>2. calls'[c] = [calls[c] EXCEPT !.barred = FALSE]
      BY <1>1, <2>1 DEF Served
    <3>3. /\ calls'[c] \in InFlight /\ calls'[c].barred = FALSE
          /\ calls'[c].at = calls[c].at /\ calls'[c].with = calls[c].with
      BY <3>1, <3>2 DEF InFlight
    <3> QED BY <2>1, <3>3 DEF IInv, CallOK
  <2>2. CASE calls[c] # NoCall /\ calls[c].user # u
    <3>1. calls[c] \in InFlight /\ calls[c].user \in Users
      BY <2>2 DEF IInv, SessionsTypeOK, InFlight
    <3>2. calls'[c] = calls[c]
      BY <1>1, <2>2 DEF Served
    <3>3. standing'[calls[c].user] = standing[calls[c].user]
      BY <1>1, <2>2, <3>1 DEF IInv, SessionsTypeOK
    <3> QED BY <3>1, <3>2, <3>3 DEF IInv, CallOK, InService
  <2>3. CASE calls[c] = NoCall
    <3>1. calls'[c] = calls[c]
      BY <1>1, <2>3 DEF Served
    <3> QED BY <2>3, <3>1 DEF CallOK
  <2> QED BY <2>1, <2>2, <2>3
<1>3. SessionsTypeOK'
  <2>1. standing' \in [Users -> Standings]
    BY <1>1 DEF IInv, SessionsTypeOK, Standings
  <2>2. calls' \in [Handlers -> InFlight \cup {NoCall}]
    BY <1>1, <1>2 DEF Served
  <2> QED BY <1>1, <2>1, <2>2 DEF IInv, SessionsTypeOK
<1>4. \A c \in Handlers : Spent(c)' = Spent(c)
  BY <1>2 DEF Spent
<1>5. Used' = Used /\ \A t \in Tokens : sessions'[t].from = sessions[t].from
  BY <1>1 DEF Used, State
<1> QED BY <1>2, <1>3, <1>4, <1>5, Beside

\* An account that goes out, or away, gives no request anything.
LEMMA LeavingCalls ==
  ASSUME IInv, NEW u \in Users, NEW s \in {"out", "gone"},
         standing' = [standing EXCEPT ![u] = s], UNCHANGED calls
  PROVE  /\ standing' \in [Users -> Standings]
         /\ \A c \in Handlers : CallOK(c)' /\ Spent(c)' = Spent(c)
<1>1. /\ standing' \in [Users -> Standings]
      /\ \A v \in Users : standing'[v] = "active" => standing[v] = "active"
  BY DEF IInv, SessionsTypeOK, Standings
<1>2. ASSUME NEW c \in Handlers, calls[c] # NoCall PROVE CallOK(c)'
  <2>1. calls[c].user \in Users
    BY <1>2 DEF IInv, SessionsTypeOK, InFlight
  <2> QED BY <1>1, <2>1 DEF IInv, CallOK, InService
<1> QED BY <1>1, <1>2 DEF CallOK, Spent

LEMMA ExpireSteps == ASSUME IInv, NEW u \in Users, Expire(u) PROVE IInv'
<1>1. /\ standing' = [standing EXCEPT ![u] = "out"]
      /\ UNCHANGED <<sessions, apiKeys, codes, tickets, consumed, calls>>
  BY DEF Expire
<1>2. /\ standing' \in [Users -> Standings]
      /\ \A c \in Handlers : CallOK(c)' /\ Spent(c)' = Spent(c)
  BY <1>1, LeavingCalls
<1>3. SessionsTypeOK'
  BY <1>1, <1>2 DEF IInv, SessionsTypeOK
<1>4. Used' = Used /\ \A t \in Tokens : sessions'[t].from = sessions[t].from
  BY <1>1 DEF Used, State
<1> QED BY <1>2, <1>3, <1>4, Beside

LEMMA RemoveAccountSteps == ASSUME IInv, NEW u \in Users, RemoveAccount(u) PROVE IInv'
<1>1. /\ standing' = [standing EXCEPT ![u] = "gone"]
      /\ sessions' = [t \in Tokens |-> IF t \in OwnedBy(u)
                        THEN [sessions[t] EXCEPT !.state = "deleted"] ELSE sessions[t]]
      /\ apiKeys' \subseteq apiKeys /\ codes' \subseteq codes
      /\ UNCHANGED <<tickets, consumed, calls>>
  BY DEF RemoveAccount
<1>2. /\ standing' \in [Users -> Standings]
      /\ \A c \in Handlers : CallOK(c)' /\ Spent(c)' = Spent(c)
  BY <1>1, LeavingCalls
<1>3. ASSUME NEW t \in Tokens
      PROVE  /\ sessions'[t] \in Rows /\ sessions'[t].from = sessions[t].from
             /\ sessions'[t].state \in {sessions[t].state, "deleted"}
  <2>1. CASE t \in OwnedBy(u)
    <3>1. sessions'[t] = [sessions[t] EXCEPT !.state = "deleted"] /\ sessions[t] \in Rows
      BY <1>1, <2>1 DEF IInv, SessionsTypeOK
    <3> QED BY <3>1 DEF Rows, RowStates
  <2>2. CASE t \notin OwnedBy(u)
    BY <1>1, <2>2 DEF IInv, SessionsTypeOK
  <2> QED BY <2>1, <2>2
<1>4. SessionsTypeOK'
  <2>1. sessions' \in [Tokens -> Rows]
    BY <1>1, <1>3
  <2> QED BY <1>1, <1>2, <2>1 DEF IInv, SessionsTypeOK
<1>5. Used \subseteq Used'
  BY <1>1, <1>3 DEF Used, State
<1> QED BY <1>2, <1>3, <1>4, <1>5, Beside

LEMMA CreateKeySteps == ASSUME IInv, NEW u \in Users, CreateKey(u) PROVE IInv'
<1>1. /\ apiKeys' = apiKeys \cup {u}
      /\ UNCHANGED <<standing, sessions, codes, tickets, consumed, calls>>
  BY DEF CreateKey
<1>2. SessionsTypeOK'
  BY <1>1 DEF IInv, SessionsTypeOK
<1>3. Used' = Used /\ \A t \in Tokens : sessions'[t].from = sessions[t].from
  BY <1>1 DEF Used, State
<1>4. \A c \in Handlers : CallOK(c)' /\ Spent(c)' = Spent(c)
  BY <1>1 DEF IInv, CallOK, InService, Spent
<1> QED BY <1>2, <1>3, <1>4, Beside

\* What the process forgets is forgotten of the sessions too.
LEMMA RestartSteps == ASSUME IInv, Restart PROVE IInv'
<1>1. /\ calls' = [c \in Handlers |-> NoCall] /\ consumed' = {}
      /\ sessions' = [t \in Tokens |-> [sessions[t] EXCEPT !.from = @ \ Tickets]]
      /\ UNCHANGED <<standing, apiKeys, codes, tickets>>
  BY DEF Restart
<1>2. ASSUME NEW t \in Tokens
      PROVE  /\ sessions'[t] \in Rows /\ sessions'[t].state = sessions[t].state
             /\ sessions'[t].from = sessions[t].from \ Tickets
  <2>1. sessions[t] \in Rows /\ sessions'[t] = [sessions[t] EXCEPT !.from = @ \ Tickets]
    BY <1>1 DEF IInv, SessionsTypeOK
  <2> QED BY <2>1 DEF Rows
<1>3. SessionsTypeOK'
  <2>1. sessions' \in [Tokens -> Rows]
    BY <1>1, <1>2
  <2> QED BY <1>1, <2>1 DEF IInv, SessionsTypeOK
<1>4. \A c \in Handlers : CallOK(c)' /\ Spent(c)' = {}
  BY <1>1, NoCallIsIdle DEF CallOK, Spent
<1>5. Used \ Tickets \subseteq Used'
  BY <1>1, <1>2 DEF Used, State, IInv, SessionsTypeOK
<1>6. Exclusive'
  BY <1>2, <1>4, <1>5 DEF IInv, Exclusive
<1> QED BY <1>3, <1>4, <1>6 DEF IInv

-----------------------------------------------------------------------------
LEMMA InitInvariant == SessionsInit => IInv
<1> SUFFICES ASSUME SessionsInit PROVE IInv
  OBVIOUS
<1>1. SessionsTypeOK
  BY DEF SessionsInit, SessionsTypeOK, Standings, Rows, RowStates
<1>2. \A c \in Handlers : calls[c] = NoCall /\ CallOK(c) /\ Spent(c) = {}
  BY NoCallIsIdle DEF SessionsInit, CallOK, Spent
<1>3. \A t \in Tokens : sessions[t].from = {}
  BY DEF SessionsInit
<1>4. Exclusive
  BY <1>2, <1>3 DEF Exclusive
<1> QED BY <1>1, <1>2, <1>4 DEF IInv

LEMMA SignInSteps == ASSUME IInv, NEW c \in Handlers, SignIn(c) PROVE IInv'
<1>1. ASSUME NEW u \in Users, AskLogin(c, u) PROVE IInv'
  BY <1>1, AskSteps DEF AskLogin
<1>2. ASSUME NEW k \in Tickets, NEW r \in Codes, AskSecondFactor(c, k, {k, r}) PROVE IInv'
  <2>1. {k, r} = {k} \cup {r} /\ {r} \in SUBSET Codes
    OBVIOUS
  <2> QED BY <1>2, <2>1, AskSecondFactorSteps
<1>3. ASSUME NEW k \in Tickets, AskSecondFactor(c, k, {k}) PROVE IInv'
  <2>1. {k} = {k} \cup {} /\ {} \in SUBSET Codes
    OBVIOUS
  <2> QED BY <1>3, <2>1, AskSecondFactorSteps
<1>4. ASSUME NEW r \in Codes, AskRecover(c, r) PROVE IInv'
  <2>1. {r} \in SUBSET Proofs /\ {r} \subseteq Codes /\ Holder[r] \in Users
    BY SessionsAssumption DEF Proofs
  <2> QED BY <1>4, <2>1, AskSteps DEF AskRecover
<1> QED BY <1>1, <1>2, <1>3, <1>4, VerifyCredentialsSteps, MfaSteps, SpendCodeSteps,
          ReadAccountSteps, CreateRowSteps DEF SignIn

LEMMA RefreshSteps == ASSUME IInv, NEW c \in Handlers, Refresh(c) PROVE IInv'
<1>1. ASSUME NEW t \in Tokens, AskRefresh(c, t) PROVE IInv'
  <2>1. {t} \in SUBSET Proofs /\ sessions[t].owner \in Users
    BY <1>1 DEF Proofs, AskRefresh, IInv, SessionsTypeOK, Rows
  <2> QED BY <1>1, <2>1, AskSteps DEF AskRefresh
<1> QED BY <1>1, FindTokenSteps, FindOwnerSteps, ClaimSteps, RevokeAllSteps, DeleteKeysSteps
       DEF Refresh

LEMMA NextInvariant == IInv /\ [SessionsNext]_sessionVars => IInv'
<1> SUFFICES ASSUME IInv, [SessionsNext]_sessionVars PROVE IInv'
  OBVIOUS
<1>1. ASSUME NEW c \in Handlers, StatementThrows(c) PROVE IInv'
  BY <1>1, TicketsKeepTheirType, RespondSteps DEF StatementThrows, IInv
<1>2. ASSUME NEW which, Revoke(which) PROVE IInv'
  BY <1>2, RevokeSteps
<1>3. CASE \/ \E t \in Tokens : Logout(t)
           \/ \E u \in Users, kept \in Tokens : RevokeOthers(u, kept)
           \/ RevokeAllSessions
  BY <1>2, <1>3 DEF Logout, RevokeOthers, RevokeAllSessions
<1>4. CASE UNCHANGED sessionVars
  <2>1. SessionsTypeOK'
    BY <1>4 DEF sessionVars, IInv, SessionsTypeOK
  <2>2. \A c \in Handlers : CallOK(c)' /\ Spent(c)' = Spent(c)
    BY <1>4 DEF sessionVars, IInv, CallOK, InService, Spent
  <2>3. Used' = Used /\ sessions' = sessions
    BY <1>4 DEF sessionVars, Used, State
  <2> QED BY <2>1, <2>2, <2>3, Beside
<1> QED BY <1>1, <1>3, <1>4, SignInSteps, RefreshSteps, ChangeAccountSteps, ReturnAccountSteps,
          ExpireSteps, RemoveAccountSteps, CreateKeySteps, RestartSteps DEF SessionsNext

-----------------------------------------------------------------------------
\* The model keeps its types.
THEOREM SessionTypesKept == SessionsSpec => []SessionsTypeOK
<1>1. IInv => SessionsTypeOK
  BY DEF IInv
<1> QED BY <1>1, InitInvariant, NextInvariant, PTL DEF SessionsSpec

\* However refreshes, revocations, failures and restarts interleave, a refresh
\* token is rotated into at most one session (AuthService.refresh).
THEOREM SessionsNeverFork == SessionsSpec => []SessionNeverForks
<1>1. IInv => SessionNeverForks
  BY DEF IInv, Exclusive, SessionNeverForks
<1> QED BY <1>1, InitInvariant, NextInvariant, PTL DEF SessionsSpec

\* A ticket or a recovery code becomes at most one session, however many
\* requests present it (mfa-token-store, backup-codes.service).
THEOREM ProofsUsedOnce == SessionsSpec => []ProofUsedOnce
<1>1. IInv => ProofUsedOnce
  BY DEF IInv, Exclusive, ProofUsedOnce
<1> QED BY <1>1, InitInvariant, NextInvariant, PTL DEF SessionsSpec

\* A request whose account is out or gone throughout never gets to write a
\* session (issueSessionForUserId and refresh).
THEOREM OutMeansOut == SessionsSpec => []BarredGetsNothing
<1>1. IInv => BarredGetsNothing
  BY DEF IInv, CallOK, BarredGetsNothing, At
<1> QED BY <1>1, InitInvariant, NextInvariant, PTL DEF SessionsSpec
=============================================================================
