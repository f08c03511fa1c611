---------------------------- MODULE AccountSessions ----------------------------
(***************************************************************************)
(* The browser sessions of one account (services/sessions.py) and the reset  *)
(* of its password (services/password_reset.py), as transactions on the same *)
(* rows: a refresh locks its token, the session and the account, a reset its *)
(* capability, the account, the sessions and the tokens.  What a transaction *)
(* writes is visible when it commits; the locks are what it holds till then. *)
(***************************************************************************)
EXTENDS Integers, FiniteSets

CONSTANTS Calls,      \* requests under way at a time
          Sessions, Tokens, \* rows that can be created (bounds)
          Resets,     \* reset capabilities that can be issued (bound)
          Account,    \* the users row
          None,
          MaxFaults   \* bound: failed statements, dead processes

Rows == Sessions \cup Tokens \cup Resets \cup {Account}

ASSUME AccountAssumption ==
  /\ None \notin Rows /\ Account \notin Sessions \cup Tokens \cup Resets
  /\ Sessions \cap Tokens = {} /\ Sessions \cap Resets = {} /\ Tokens \cap Resets = {}
  /\ MaxFaults \in Nat

VARIABLES
  active,    \* status = ACTIVE, with an active membership
  password,  \* the hash: whose it is, and whether of the legacy algorithm
  sess,      \* auth_sessions: "none", "live", "expired", "revoked"
  token,     \* auth_refresh_tokens: "none", "fresh", "consumed", "revoked", "both"
  of,        \* session of a token
  reset,     \* password_reset_tokens.state, "none" before it is issued
  overdue,   \* capabilities whose expires_at has passed
  notified,  \* password-changed mails in the outbox
  pc, arg,   \* where a call is, and the row it was called with
  got,       \* the hash that a sign-in read
  holds,     \* row locks
  cut,       \* history: sessions that existed when a reset completed
  late,      \* history: overdue before the last look at the clock of their reset
  applied,   \* history: how often a capability set the password
  faults

account == <<active, password>>
browser == <<sess, token, of>>
resets  == <<reset, overdue, notified>>
call    == <<pc, arg, got, holds>>
history == <<cut, late, applied>>
vars == <<account, browser, resets, call, history, faults>>

Existing  == {s \in Sessions : sess[s] # "none"}
TokensOf(S) == {t \in Tokens : token[t] # "none" /\ of[t] \in S}
Usable(s) == {t \in TokensOf({s}) : token[t] = "fresh"}

Hashes == [of : Resets \cup {None}, legacy : BOOLEAN]
Nothing == [of |-> None, legacy |-> FALSE]

Refreshing == {"session", "user", "rotate", "refuse"}
Resetting  == {"account", "hash", "tokens", "recheck", "commit"}
LoggingIn  == {"verify", "create"}

Init ==
  /\ active = TRUE /\ password = [of |-> None, legacy |-> TRUE]
  /\ sess = [s \in Sessions |-> "none"] /\ token = [t \in Tokens |-> "none"]
  /\ of = [t \in Tokens |-> None]
  /\ reset = [r \in Resets |-> "none"] /\ overdue = {} /\ notified = {}
  /\ pc = [c \in Calls |-> "idle"] /\ arg = [c \in Calls |-> None]
  /\ got = [c \in Calls |-> Nothing] /\ holds = [c \in Calls |-> {}]
  /\ cut = [r \in Resets |-> {}] /\ late = {}
  /\ applied = [r \in Resets |-> 0] /\ faults = MaxFaults

--------------------------------------------------------------------------------
\* A row lock is waited for while another transaction holds it.
Free(c, rows) == \A d \in Calls \ {c} : holds[d] \cap rows = {}

\* A call goes on to its next statement with more locks.
Locks(c, rows, next) ==
  /\ Free(c, rows)
  /\ holds' = [holds EXCEPT ![c] = @ \cup rows] /\ pc' = [pc EXCEPT ![c] = next]

\* Commit or rollback: the locks go, the call is answered.
Ends(c) ==
  /\ pc' = [pc EXCEPT ![c] = "idle"] /\ arg' = [arg EXCEPT ![c] = None]
  /\ got' = [got EXCEPT ![c] = Nothing] /\ holds' = [holds EXCEPT ![c] = {}]

\* A sign-in or a refresh is only admitted with rows left to create (bound).
Creating == {c \in Calls : pc[c] \in Refreshing \cup LoggingIn}
RowsLeft ==
  /\ Cardinality({t \in Tokens : token[t] = "none"}) > Cardinality(Creating)
  /\ Cardinality({s \in Sessions : sess[s] = "none"})
       > Cardinality({c \in Creating : pc[c] \in LoggingIn})
Left(rows) == \E x \in DOMAIN rows : rows[x] = "none"
New(rows)  == CHOOSE x \in DOMAIN rows : rows[x] = "none"

--------------------------------------------------------------------------------
\* login_user reads the account without a lock and checks the password against
\* the hash it read; the sign-ins of Google, Microsoft and GitHub have no password.
Login(c) ==
  /\ pc[c] = "idle" /\ active /\ RowsLeft
  /\ \/ /\ pc' = [pc EXCEPT ![c] = "verify"] /\ got' = [got EXCEPT ![c] = password]
     \/ /\ pc' = [pc EXCEPT ![c] = "create"] /\ UNCHANGED got
  /\ UNCHANGED <<account, browser, resets, arg, holds, history, faults>>

\* update_hashed_password_silent: the password that was checked, in the new
\* algorithm, by primary key.
Upgrade(c) ==
  /\ pc[c] = "verify"
  /\ IF got[c].legacy THEN Free(c, {Account}) /\ password' = [of |-> got[c].of, legacy |-> FALSE]
                      ELSE UNCHANGED password
  /\ pc' = [pc EXCEPT ![c] = "create"] /\ got' = [got EXCEPT ![c] = Nothing]
  /\ UNCHANGED <<active, browser, resets, arg, holds, history, faults>>

\* create_session: the foreign key waits while a reset holds the account.
CreateSession(c) ==
  /\ pc[c] = "create" /\ Free(c, {Account}) /\ Left(sess) /\ Left(token)
  /\ sess' = [sess EXCEPT ![New(sess)] = "live"]
  /\ token' = [token EXCEPT ![New(token)] = "fresh"] /\ of' = [of EXCEPT ![New(token)] = New(sess)]
  /\ Ends(c)
  /\ UNCHANGED <<account, resets, history, faults>>

--------------------------------------------------------------------------------
\* rotate_refresh_token: one SELECT ... FOR UPDATE over the join of token, session
\* and account locks them in this order.
Refresh(c) ==
  /\ pc[c] = "idle" /\ RowsLeft
  /\ \E t \in Tokens : /\ token[t] # "none" /\ Locks(c, {t}, "session")
                       /\ arg' = [arg EXCEPT ![c] = t]
  /\ UNCHANGED <<account, browser, resets, got, history, faults>>

SkipSessionLock(c) ==
  /\ pc[c] = "session" /\ Locks(c, {}, "user")
  /\ UNCHANGED <<account, browser, resets, arg, got, history, faults>>

LockSession(c) ==
  /\ pc[c] = "session" /\ Locks(c, {of[arg[c]]}, "user")
  /\ UNCHANGED <<account, browser, resets, arg, got, history, faults>>

\* A token that is not fresh (one that was consumed is reuse), a session that is
\* over or an account that may not sign in is refused.
Verdict(t) ==
  IF token[t] = "fresh" /\ sess[of[t]] = "live" /\ active THEN "rotate" ELSE "refuse"

LockUser(c) ==
  /\ pc[c] = "user"
  /\ \E next \in {Verdict(arg[c]), "refuse"} : Locks(c, {Account}, next) \* or a wrong CSRF token
  /\ UNCHANGED <<account, browser, resets, arg, got, history, faults>>

KeepPrevious(c) ==
  /\ pc[c] = "rotate" /\ Left(token)
  /\ token' = [token EXCEPT ![New(token)] = "fresh"]
  /\ of' = [of EXCEPT ![New(token)] = of[arg[c]]]
  /\ Ends(c)
  /\ UNCHANGED <<account, sess, resets, history, faults>>

Rotate(c) ==
  /\ pc[c] = "rotate" /\ Left(token)
  /\ token' = [token EXCEPT ![arg[c]] = "consumed", ![New(token)] = "fresh"]
  /\ of' = [of EXCEPT ![New(token)] = of[arg[c]]]
  /\ Ends(c)
  /\ UNCHANGED <<account, sess, resets, history, faults>>

\* A refused refresh ends its session.
Refuse(c) ==
  /\ pc[c] = "refuse"
  /\ sess' = [sess EXCEPT ![of[arg[c]]] = "revoked"]
  /\ Ends(c)
  /\ UNCHANGED <<account, token, of, resets, history, faults>>

\* revoke_session: the token is read without a lock, its session updated.
Logout(c) ==
  /\ pc[c] = "idle"
  /\ \E t \in Tokens : /\ token[t] # "none" /\ Free(c, {of[t]})
                       /\ sess' = [sess EXCEPT ![of[t]] = "revoked"]
  /\ UNCHANGED <<account, token, of, resets, call, history, faults>>

--------------------------------------------------------------------------------
\* issue_password_reset: the capability and its mail in one transaction.
Forgot(c) ==
  /\ pc[c] = "idle" /\ active /\ Free(c, {Account})
  /\ \E r \in Resets : reset[r] = "none" /\ reset' = [reset EXCEPT ![r] = "issued"]
  /\ UNCHANGED <<account, browser, overdue, notified, call, history, faults>>

ClaimUnlocked(c) ==
  /\ pc[c] = "idle"
  /\ \E r \in Resets \ overdue : /\ reset[r] = "issued" /\ Locks(c, {}, "account")
                                 /\ arg' = [arg EXCEPT ![c] = r]
  /\ UNCHANGED <<account, browser, resets, got, history, faults>>

\* complete_password_reset: only one submission of a capability at a time.  One that
\* is not issued any more is answered as it stands.
ClaimReset(c) ==
  /\ pc[c] = "idle"
  /\ \E r \in Resets \ overdue : /\ reset[r] = "issued" /\ Locks(c, {r}, "account")
                                 /\ arg' = [arg EXCEPT ![c] = r]
  /\ UNCHANGED <<account, browser, resets, got, history, faults>>

RefuseOverdue(c) ==
  /\ pc[c] = "idle"
  /\ \E r \in overdue : /\ reset[r] = "issued" /\ Free(c, {r})
                        /\ reset' = [reset EXCEPT ![r] = "expired"]
  /\ UNCHANGED <<account, browser, overdue, notified, call, history, faults>>

ReadAccount(c) ==
  /\ pc[c] = "account" /\ active /\ Locks(c, {}, "hash")
  /\ UNCHANGED <<account, browser, resets, arg, got, history, faults>>

LockAccount(c) ==
  /\ pc[c] = "account" /\ active /\ Locks(c, {Account}, "hash")
  /\ UNCHANGED <<account, browser, resets, arg, got, history, faults>>

Invalidate(c) ==
  /\ pc[c] = "account" /\ ~active /\ Free(c, {Account})
  /\ reset' = [reset EXCEPT ![arg[c]] = "invalidated"]
  /\ Ends(c)
  /\ UNCHANGED <<account, browser, overdue, notified, history, faults>>

\* update_password_with_timestamp, after the slow hash: every session of the
\* account, then every token of them that is not revoked.
RevokeSessions(c) ==
  /\ pc[c] = "hash" /\ Locks(c, Existing, "tokens")
  /\ UNCHANGED <<account, browser, resets, arg, got, history, faults>>

Unrevoked == {t \in TokensOf(Existing) : token[t] \in {"fresh", "consumed"}}

RevokeTokens(c) ==
  /\ pc[c] = "tokens" /\ Locks(c, Unrevoked, "recheck")
  /\ UNCHANGED <<account, browser, resets, arg, got, history, faults>>

\* The clock is read again after the hash: a capability that ran out meanwhile
\* rolls everything back.
Recheck(c) ==
  /\ pc[c] = "recheck"
  /\ IF arg[c] \in overdue
       THEN Ends(c)
       ELSE pc' = [pc EXCEPT ![c] = "commit"] /\ UNCHANGED <<arg, got, holds>>
  /\ UNCHANGED <<account, browser, resets, history, faults>>

RevokedToken(t) == CASE token[t] = "fresh" -> "revoked"
                     [] token[t] = "consumed" -> "both"
                     [] OTHER -> token[t]

\* The rows that were updated are those it holds.
CommitReset(c) ==
  /\ pc[c] = "commit"
  /\ password' = [of |-> arg[c], legacy |-> FALSE]
  /\ sess' = [s \in Sessions |-> IF s \in holds[c] THEN "revoked" ELSE sess[s]]
  /\ token' = [t \in Tokens |-> IF t \in holds[c] THEN RevokedToken(t) ELSE token[t]]
  /\ reset' = [reset EXCEPT ![arg[c]] = "completed"]
  /\ notified' = notified \cup {arg[c]}
  /\ cut' = [cut EXCEPT ![arg[c]] = Existing] /\ applied' = [applied EXCEPT ![arg[c]] = @ + 1]
  /\ Ends(c)
  /\ UNCHANGED <<active, of, overdue, late, faults>>

--------------------------------------------------------------------------------
\* What a transaction waits for next.
Needs(c) ==
  CASE pc[c] \in {"account", "user"} -> {Account}
    [] pc[c] = "session" -> {of[arg[c]]}
    [] pc[c] = "hash" -> Existing
    [] pc[c] = "tokens" -> Unrevoked
    [] OTHER -> {}

Waits(c, d) == c # d /\ Needs(c) \cap holds[d] # {}

Deadlocked(c) ==
  \E S \in SUBSET Calls :
    c \in S /\ \A d \in S : (\E e \in S : Waits(d, e)) /\ (\E e \in S : Waits(e, d))

NotRolledBack(c) ==
  /\ Deadlocked(c) /\ pc' = [pc EXCEPT ![c] = "idle"] /\ arg' = [arg EXCEPT ![c] = None]
  /\ got' = [got EXCEPT ![c] = Nothing] /\ UNCHANGED holds
  /\ UNCHANGED <<account, browser, resets, history, faults>>

\* PostgreSQL ends a deadlock by failing one statement of it; _rollback_safely, or
\* the session's exit, gives the locks back.
Victim(c) ==
  /\ Deadlocked(c) /\ Ends(c)
  /\ UNCHANGED <<account, browser, resets, history, faults>>

\* A statement fails, the request is cancelled or the process dies.
Abort(c) ==
  /\ pc[c] # "idle" /\ faults > 0 /\ faults' = faults - 1 /\ Ends(c)
  /\ UNCHANGED <<account, browser, resets, history>>

\* expires_at of a session, which its tokens share, and of a capability.
ExpireSession(s) ==
  /\ sess[s] = "live" /\ sess' = [sess EXCEPT ![s] = "expired"]
  /\ UNCHANGED <<account, token, of, resets, call, history, faults>>

ExpireReset(r) ==
  /\ reset[r] = "issued" /\ r \notin overdue /\ overdue' = overdue \cup {r}
  /\ late' = IF \E c \in Calls : pc[c] = "commit" /\ arg[c] = r THEN late ELSE late \cup {r}
  /\ UNCHANGED <<account, browser, reset, notified, call, cut, applied, faults>>

\* An operator suspends the account or its membership.
Suspend ==
  /\ active /\ active' = FALSE /\ Free(None, {Account})
  /\ UNCHANGED <<password, browser, resets, call, history, faults>>

RefreshStep(c) == LockSession(c) \/ LockUser(c) \/ Rotate(c) \/ Refuse(c)
ResetStep(c) ==
  \/ LockAccount(c) \/ Invalidate(c) \/ RevokeSessions(c) \/ RevokeTokens(c)
  \/ Recheck(c) \/ CommitReset(c)
LoginStep(c) == Upgrade(c) \/ CreateSession(c)
Proceed(c) == LoginStep(c) \/ RefreshStep(c) \/ ResetStep(c)
Begin(c) == Login(c) \/ Refresh(c) \/ Logout(c) \/ Forgot(c) \/ ClaimReset(c) \/ RefuseOverdue(c)

Next ==
  \/ \E c \in Calls : Begin(c) \/ Proceed(c) \/ Victim(c) \/ Abort(c)
  \/ \E s \in Sessions : ExpireSession(s)
  \/ \E r \in Resets : ExpireReset(r)
  \/ Suspend

Spec == Init /\ [][Next]_vars

\* Row locks are granted in the order of arrival, and a deadlock is found after
\* deadlock_timeout.
FairSpec ==
  /\ Spec
  /\ \A c \in Calls : SF_vars(Proceed(c))
  /\ WF_vars(\E c \in Calls : Victim(c))

--------------------------------------------------------------------------------
TypeOK ==
  /\ active \in BOOLEAN /\ password \in Hashes
  /\ sess \in [Sessions -> {"none", "live", "expired", "revoked"}]
  /\ token \in [Tokens -> {"none", "fresh", "consumed", "revoked", "both"}]
  /\ of \in [Tokens -> Sessions \cup {None}]
  /\ reset \in [Resets -> {"none", "issued", "completed", "expired", "invalidated"}]
  /\ overdue \subseteq Resets /\ notified \subseteq Resets
  /\ pc \in [Calls -> {"idle"} \cup LoggingIn \cup Refreshing \cup Resetting]
  /\ arg \in [Calls -> Tokens \cup Resets \cup {None}]
  /\ got \in [Calls -> Hashes]
  /\ holds \in [Calls -> SUBSET Rows]
  /\ cut \in [Resets -> SUBSET Sessions] /\ late \subseteq Resets
  /\ applied \in [Resets -> Nat] /\ faults \in Nat

\* A completed reset left no session of its time alive and none of their tokens
\* usable, whatever sign-in, refresh or other reset ran beside it, and its notice
\* waits in the outbox (password_reset.py, lines 165-262).
ResetCutsSessions ==
  \A r \in Resets : reset[r] = "completed" =>
    /\ r \in notified
    /\ \A s \in cut[r] : sess[s] = "revoked" /\ Usable(s) = {}

\* A session has at most one token that a refresh would accept, however many
\* requests present its tokens at the same time (sessions.py, lines 63-144).
OneUsableToken == \A s \in Sessions : Cardinality(Usable(s)) <= 1

\* A session that was revoked, by logout, reuse or reset, stays so and gets no
\* further token from a refresh that was under way.
RevokedIsOver ==
  [][\A s \in Sessions : sess[s] = "revoked" =>
       sess'[s] = "revoked" /\ TokensOf({s})' = TokensOf({s})]_vars

\* A capability sets the password once, also when it is submitted twice at the same
\* time or again after an answer that was lost (password_reset.py, lines 172-186), and
\* never when it ran out before the second look at the clock, although its submission
\* was admitted before the slow hash (lines 240-247).
AppliedOnce ==
  \A r \in Resets : applied[r] = IF reset[r] = "completed" THEN 1 ELSE 0
OverdueNeverCompletes == \A r \in late : reset[r] # "completed"
AppliedInTime == AppliedOnce /\ OverdueNeverCompletes

\* Every request is answered: refreshes and resets that wait for each other's rows
\* do not wait for ever.
EventuallyAnswered == \A c \in Calls : pc[c] # "idle" ~> pc[c] = "idle"

================================================================================
