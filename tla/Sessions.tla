------------------------------ MODULE Sessions ------------------------------
(***************************************************************************)
(* Sign-in, rotation and revocation of sessions: modules/auth, the second  *)
(* factor of modules/webauthn and the revocations of modules/users.        *)
(*                                                                         *)
(* A request is a sequence of awaits.  Each action below is what the       *)
(* handler does from the answer of one await to the start of the next, so  *)
(* requests interleave exactly where the code lets them.  A session is a   *)
(* row of RefreshToken: the client holds the token, the database its hash. *)
(***************************************************************************)
EXTENDS FiniteSets

CONSTANTS
  Users,
  Passkeys,  \* the accounts that have a passkey
  Tokens,    \* refresh tokens, never issued twice
  Tickets,   \* mfa-pending tokens: the password was right
  Codes,     \* recovery codes
  Holder,    \* whose each code is
  Handlers,     \* requests in flight
  None

ASSUME SessionsAssumption ==
  /\ Passkeys \subseteq Users
  /\ Holder \in [Codes -> Users]
  /\ None \notin Users
  /\ Tokens \cap (Tickets \cup Codes) = {}
  /\ Tickets \cap Codes = {}

VARIABLES
  standing,  \* status and expiresAt of each account
  sessions,  \* the RefreshToken rows
  apiKeys,   \* the accounts with API tokens
  codes,     \* recovery codes not used yet
  tickets,   \* whose password each issued ticket accredits
  consumed,  \* the tickets used, in memory
  calls

sessionVars == <<standing, sessions, apiKeys, codes, tickets, consumed, calls>>

\* "out": disabled or expired, which the code treats alike.
Standings == {"active", "out", "gone"}
\* A revoked row is "rotated" when rotatedAt is set.
RowStates == {"unused", "live", "rotated", "revoked", "deleted"}
Steps == {"verify", "user", "passkey", "code", "session", "stamp", "create",
          "find", "owner", "claim", "revoke", "keys"}
Proofs == Tokens \cup Tickets \cup Codes

\* `from', what a session was obtained with, `barred' and `reuse' are history.
Rows == [state : RowStates, owner : Users \cup {None}, from : SUBSET Proofs]
\* barred: the account has not been active at any moment of this call.
\* reuse: the call answers AUTH_REFRESH_REUSE.
InFlight == [at : Steps, user : Users, with : SUBSET Proofs, barred : BOOLEAN, reuse : BOOLEAN]
NoCall == [at |-> "idle"]

SessionsTypeOK ==
  /\ standing \in [Users -> Standings]
  /\ sessions \in [Tokens -> Rows]
  /\ apiKeys \subseteq Users
  /\ codes \subseteq Codes
  /\ tickets \in [Tickets -> Users \cup {None}]
  /\ consumed \subseteq Tickets
  /\ calls \in [Handlers -> InFlight \cup {NoCall}]

SessionsInit ==
  /\ standing = [u \in Users |-> "active"]
  /\ sessions = [t \in Tokens |-> [state |-> "unused", owner |-> None, from |-> {}]]
  /\ apiKeys = {}
  /\ codes = Codes
  /\ tickets = [k \in Tickets |-> None]
  /\ consumed = {}
  /\ calls = [c \in Handlers |-> NoCall]

-----------------------------------------------------------------------------
InService(u) == standing[u] = "active"
State(t) == sessions[t].state

At(c, step) == calls[c] # NoCall /\ calls[c].at = step
Ask(c, step, u, with) ==
  /\ calls[c] = NoCall
  /\ calls' = [calls EXCEPT ![c] = [at |-> step, user |-> u, with |-> with,
                                    barred |-> ~InService(u), reuse |-> FALSE]]
Await(c, step) == calls' = [calls EXCEPT ![c].at = step]
Reuse(c) == calls' = [calls EXCEPT ![c].at = "revoke", ![c].reuse = TRUE]
Respond(c) == calls' = [calls EXCEPT ![c] = NoCall]
\* go on when the condition holds, else throw an AuthError
GoIf(c, condition, step) == IF condition THEN Await(c, step) ELSE Respond(c)

-----------------------------------------------------------------------------
\* The first factor.

AskLogin(c, u) ==
  /\ Ask(c, "verify", u, {})
  /\ UNCHANGED <<standing, sessions, apiKeys, codes, tickets, consumed>>

\* verifyCredentials; a wrong password changes nothing here.  With passkeys
\* the answer is a ticket, without them the session follows.
VerifyCredentials(c) ==
  /\ At(c, "verify")
  /\ LET u == calls[c].user IN
     IF InService(u) /\ u \in Passkeys
       THEN /\ \E k \in Tickets :
                 tickets[k] = None /\ tickets' = [tickets EXCEPT ![k] = u]
            /\ Respond(c)
       ELSE /\ GoIf(c, InService(u), "session")
            /\ UNCHANGED tickets
  /\ UNCHANGED <<standing, sessions, apiKeys, codes, consumed>>

-----------------------------------------------------------------------------
\* The second factor, with a passkey or with a recovery code, and the sign-in
\* with a recovery code alone.

UsedAgain(k) == TRUE
FirstUse(k) == k \notin consumed

\* consumeMfaPendingToken checks and marks the ticket before any await.
AskSecondFactor(c, k, with) ==
  /\ tickets[k] # None
  /\ FirstUse(k)
  /\ consumed' = consumed \cup {k}
  /\ Ask(c, "user", tickets[k], with)
  /\ UNCHANGED <<standing, sessions, apiKeys, codes, tickets>>

AskRecover(c, r) ==
  /\ Ask(c, "code", Holder[r], {r})
  /\ UNCHANGED <<standing, sessions, apiKeys, codes, tickets, consumed>>

ResolveMfaUser(c) ==
  /\ At(c, "user")
  /\ GoIf(c, standing[calls[c].user] # "gone",
          IF calls[c].with \cap Codes = {} THEN "passkey" ELSE "code")
  /\ UNCHANGED <<standing, sessions, apiKeys, codes, tickets, consumed>>

VerifyPasskey(c) ==
  /\ At(c, "passkey")
  /\ Await(c, "session") \/ Respond(c)
  /\ UNCHANGED <<standing, sessions, apiKeys, codes, tickets, consumed>>

Unspent(c) == calls[c].with \cap Codes \subseteq codes

\* One conditional UPDATE: the code is spent whatever comes next.
SpendCode(c) ==
  /\ At(c, "code")
  /\ GoIf(c, Unspent(c), "session")
  /\ codes' = codes \ calls[c].with
  /\ UNCHANGED <<standing, sessions, apiKeys, tickets, consumed>>

-----------------------------------------------------------------------------
\* issueSessionForUserId and issueTokens.

EntersAnyway(c) == TRUE
MayEnter(c) == InService(calls[c].user)

ReadAccount(c) ==
  /\ At(c, "session")
  /\ GoIf(c, MayEnter(c), "stamp")
  /\ UNCHANGED <<standing, sessions, apiKeys, codes, tickets, consumed>>

\* lastLoginAt: the update of an account that is gone throws.
StampLogin(c) ==
  /\ At(c, "stamp")
  /\ GoIf(c, standing[calls[c].user] # "gone", "create")
  /\ UNCHANGED <<standing, sessions, apiKeys, codes, tickets, consumed>>

Fresh == {t \in Tokens : State(t) = "unused"}

\* The foreign key refuses the row of an account that is gone.
CreateRow(c) ==
  /\ At(c, "create")
  /\ Respond(c)
  /\ IF standing[calls[c].user] = "gone"
       THEN UNCHANGED sessions
       ELSE /\ Fresh # {}
            /\ sessions' = [sessions EXCEPT ![CHOOSE t \in Fresh : TRUE] =
                 [state |-> "live", owner |-> calls[c].user, from |-> calls[c].with]]
  /\ UNCHANGED <<standing, apiKeys, codes, tickets, consumed>>

-----------------------------------------------------------------------------
\* refresh: the client presents a token it was given once.

AskRefresh(c, t) ==
  /\ sessions[t].owner # None
  /\ Ask(c, "find", sessions[t].owner, {t})
  /\ UNCHANGED <<standing, sessions, apiKeys, codes, tickets, consumed>>

\* A token that is too old is refused whatever became of it.
FindToken(c) ==
  /\ At(c, "find")
  /\ \E t \in calls[c].with :
       \/ State(t) = "rotated" /\ Reuse(c)
       \/ State(t) = "live" /\ Await(c, "owner")
       \/ Respond(c)
  /\ UNCHANGED <<standing, sessions, apiKeys, codes, tickets, consumed>>

FindOwner(c) ==
  /\ At(c, "owner")
  /\ CASE standing[calls[c].user] = "gone" -> Respond(c)
       [] MayEnter(c) -> Await(c, "claim")
       [] OTHER -> Await(c, "revoke")
  /\ UNCHANGED <<standing, sessions, apiKeys, codes, tickets, consumed>>

ClaimsAnything(t) == TRUE
Claimable(t) == State(t) = "live"

\* UPDATE ... WHERE id AND NOT revoked: only one caller gets a count of one.
Claim(c) ==
  /\ At(c, "claim")
  /\ \E t \in calls[c].with :
       IF Claimable(t)
         THEN Await(c, "create") /\ sessions' = [sessions EXCEPT ![t].state = "rotated"]
         ELSE Reuse(c) /\ UNCHANGED sessions
  /\ UNCHANGED <<standing, apiKeys, codes, tickets, consumed>>

-----------------------------------------------------------------------------
\* Revocations.

Revoked(which) ==
  [t \in Tokens |-> IF t \in which /\ State(t) = "live"
                      THEN [sessions[t] EXCEPT !.state = "revoked"] ELSE sessions[t]]
OwnedBy(u) == {t \in Tokens : sessions[t].owner = u}

\* revokeAllForUser: two statements.
RevokeAll(c) ==
  /\ At(c, "revoke")
  /\ sessions' = Revoked(OwnedBy(calls[c].user))
  /\ Await(c, "keys")
  /\ UNCHANGED <<standing, apiKeys, codes, tickets, consumed>>

DeleteKeys(c) ==
  /\ At(c, "keys")
  /\ apiKeys' = apiKeys \ {calls[c].user}
  /\ Respond(c)
  /\ UNCHANGED <<standing, sessions, codes, tickets, consumed>>

\* logout, revokeSession, revokeOtherSessions (which change-password calls
\* too) and revokeAllSessions: one statement each.
Revoke(which) ==
  /\ sessions' = Revoked(which)
  /\ UNCHANGED <<standing, apiKeys, codes, tickets, consumed, calls>>
Logout(t) == Revoke({t})
RevokeOthers(u, kept) == Revoke(OwnedBy(u) \ {kept})
RevokeAllSessions == Revoke(Tokens)

-----------------------------------------------------------------------------
\* Users: the transactions of users.service, then the revocation.

\* A call whose account is back in service is barred no longer.
Served(back) ==
  [c \in Handlers |-> IF calls[c] # NoCall /\ calls[c].user \in back
                     THEN [calls[c] EXCEPT !.barred = FALSE] ELSE calls[c]]

\* Disabled, given another role, or its password reset by an administrator.
ChangeAccount(c, u) ==
  /\ standing[u] # "gone"
  /\ standing' \in {standing, [standing EXCEPT ![u] = "out"]}
  /\ calls[c] = NoCall
  /\ calls' = [calls EXCEPT ![c] = [at |-> "revoke", user |-> u, with |-> {},
                                    barred |-> FALSE, reuse |-> FALSE]]
  /\ UNCHANGED <<sessions, apiKeys, codes, tickets, consumed>>

\* Enabled again, or a guest's access extended.
ReturnAccount(u) ==
  /\ standing[u] = "out"
  /\ standing' = [standing EXCEPT ![u] = "active"]
  /\ calls' = Served({u})
  /\ UNCHANGED <<sessions, apiKeys, codes, tickets, consumed>>

\* The access of a guest ends with no call at all.
Expire(u) ==
  /\ standing[u] = "active"
  /\ standing' = [standing EXCEPT ![u] = "out"]
  /\ UNCHANGED <<sessions, apiKeys, codes, tickets, consumed, calls>>

\* The foreign keys take the rows of the account with it.
RemoveAccount(u) ==
  /\ standing[u] # "gone"
  /\ standing' = [standing EXCEPT ![u] = "gone"]
  /\ sessions' = [t \in Tokens |-> IF t \in OwnedBy(u)
                    THEN [sessions[t] EXCEPT !.state = "deleted"] ELSE sessions[t]]
  /\ apiKeys' = apiKeys \ {u}
  /\ codes' = {r \in codes : Holder[r] # u}
  /\ UNCHANGED <<tickets, consumed, calls>>

CreateKey(u) ==
  /\ standing[u] # "gone"
  /\ apiKeys' = apiKeys \cup {u}
  /\ UNCHANGED <<standing, sessions, codes, tickets, consumed, calls>>

-----------------------------------------------------------------------------
\* A statement throws and so does the request: nothing else is undone.
StatementThrows(c) ==
  /\ calls[c] # NoCall
  /\ Respond(c)
  /\ UNCHANGED <<standing, sessions, apiKeys, codes, tickets, consumed>>

\* The process dies and starts again.  It forgets which tickets were used, so
\* `from' forgets them too: what is said of tickets is said of one process.
Restart ==
  /\ calls' = [c \in Handlers |-> NoCall]
  /\ consumed' = {}
  /\ sessions' = [t \in Tokens |-> [sessions[t] EXCEPT !.from = @ \ Tickets]]
  /\ UNCHANGED <<standing, apiKeys, codes, tickets>>

SignIn(c) ==
  \/ \E u \in Users : AskLogin(c, u)
  \/ \E k \in Tickets, r \in Codes : AskSecondFactor(c, k, {k, r})
  \/ \E k \in Tickets : AskSecondFactor(c, k, {k})
  \/ \E r \in Codes : AskRecover(c, r)
  \/ VerifyCredentials(c) \/ ResolveMfaUser(c) \/ VerifyPasskey(c) \/ SpendCode(c)
  \/ ReadAccount(c) \/ StampLogin(c) \/ CreateRow(c)

Refresh(c) ==
  \/ \E t \in Tokens : AskRefresh(c, t)
  \/ FindToken(c) \/ FindOwner(c) \/ Claim(c) \/ RevokeAll(c) \/ DeleteKeys(c)

SessionsNext ==
  \/ \E c \in Handlers : SignIn(c) \/ Refresh(c) \/ StatementThrows(c)
  \/ \E c \in Handlers, u \in Users : ChangeAccount(c, u)
  \/ \E u \in Users : ReturnAccount(u) \/ Expire(u) \/ RemoveAccount(u) \/ CreateKey(u)
  \/ \E t \in Tokens : Logout(t)
  \/ \E u \in Users, kept \in Tokens : RevokeOthers(u, kept)
  \/ RevokeAllSessions
  \/ Restart

SessionsSpec == SessionsInit /\ [][SessionsNext]_sessionVars

-----------------------------------------------------------------------------
\* Properties.

\* "NUNCA salgan dos sesiones vivas del mismo token" (auth-refresh-reuse.test):
\* however refreshes, revocations and failures interleave, a token is rotated
\* into at most one session, so the sessions of a sign-in never fork.
SessionNeverForks ==
  \A t, s \in Tokens : t # s => sessions[t].from \cap sessions[s].from \cap Tokens = {}

\* One password entry or one recovery code signs in at most once, though two
\* requests present it together (mfa-token-store, backup-codes.service).
ProofUsedOnce ==
  \A t, s \in Tokens :
    t # s => sessions[t].from \cap sessions[s].from \cap (Tickets \cup Codes) = {}

\* A request that runs wholly while its account is disabled, expired or gone
\* never gets as far as a session, on any of the ways in.
BarredGetsNothing == \A c \in Handlers : At(c, "create") => ~calls[c].barred

\* "Un token revocado por logout/admin (sin `rotatedAt`) no dispara esto:
\* rechazo simple" (auth.service): only a token rotated before is reuse.
ReuseMeansRotated ==
  \A c \in Handlers : calls[c] # NoCall /\ calls[c].reuse =>
    \A t \in calls[c].with : State(t) \in {"rotated", "deleted"}

=============================================================================
