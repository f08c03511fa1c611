------------------------- MODULE AccountSessionsProofs -------------------------
(***************************************************************************)
(* Safety of sessions and password reset for any number of requests, rows    *)
(* and failures: what row locks buy.  A transaction finds the rows it holds   *)
(* as it read them, and whoever holds the account sees no session or token    *)
(* come into being.                                                           *)
(***************************************************************************)
EXTENDS AccountSessions, FiniteSetTheorems, TLAPS

USE AccountAssumption

\* What the position of a call says about its locks and the rows behind them.
Position(c) ==
  /\ \A t \in holds[c] \cap Tokens : token[t] # "none"
  /\ \A s \in holds[c] \cap Sessions : sess[s] # "none"
  /\ \A r \in holds[c] \cap Resets : reset[r] = "issued"
  /\ pc[c] \in {"idle"} \cup LoggingIn => holds[c] = {}
  /\ pc[c] \in Refreshing => arg[c] \in Tokens /\ arg[c] \in holds[c]
  /\ pc[c] \in {"user", "rotate", "refuse"} => of[arg[c]] \in holds[c]
  /\ pc[c] \in {"rotate", "refuse", "hash", "tokens", "recheck", "commit"} => Account \in holds[c]
  /\ pc[c] = "rotate" => token[arg[c]] = "fresh" /\ sess[of[arg[c]]] # "revoked"
  /\ pc[c] \in Resetting => arg[c] \in Resets /\ arg[c] \in holds[c]
  /\ pc[c] \in {"tokens", "recheck", "commit"} => Existing \subseteq holds[c]
  /\ pc[c] \in {"recheck", "commit"} => Unrevoked \subseteq holds[c]
  /\ pc[c] = "commit" => arg[c] \notin late

Exclusive == \A c, d \in Calls : c # d => holds[c] \cap holds[d] = {}
TokensHaveSessions == \A t \in Tokens : token[t] # "none" => of[t] \in Existing
OneFresh == \A t, u \in Tokens :
              token[t] = "fresh" /\ token[u] = "fresh" /\ of[t] = of[u] => t = u
CutIsOver == \A r \in Resets : reset[r] = "completed" =>
               r \in notified /\ \A s \in cut[r] : sess[s] = "revoked"
                              /\ \A t \in Tokens : of[t] = s => token[t] # "fresh"

LockInv == Exclusive /\ TokensHaveSessions /\ \A c \in Calls : Position(c)
IInv == TypeOK /\ LockInv /\ OneFresh /\ CutIsOver /\ AppliedOnce /\ late \subseteq overdue
               /\ OverdueNeverCompletes

--------------------------------------------------------------------------------
\* Type correctness.
LEMMA InitType == Init => TypeOK
BY DEF Init, TypeOK, Hashes, Nothing

LEMMA NewRow ==
  ASSUME NEW rows, Left(rows)
  PROVE  New(rows) \in DOMAIN rows /\ rows[New(rows)] = "none"
BY DEF Left, New

LEMMA CallType ==
  ASSUME TypeOK, NEW c \in Calls, Ends(c)
  PROVE  /\ pc' \in [Calls -> {"idle"} \cup LoggingIn \cup Refreshing \cup Resetting]
         /\ arg' \in [Calls -> Tokens \cup Resets \cup {None}]
         /\ got' \in [Calls -> Hashes]
         /\ holds' \in [Calls -> SUBSET Rows]
BY DEF TypeOK, Ends, Hashes, Nothing

LEMMA LocksType ==
  ASSUME TypeOK, NEW c \in Calls, NEW rows \in SUBSET Rows,
         NEW next \in LoggingIn \cup Refreshing \cup Resetting, Locks(c, rows, next)
  PROVE  /\ pc' \in [Calls -> {"idle"} \cup LoggingIn \cup Refreshing \cup Resetting]
         /\ holds' \in [Calls -> SUBSET Rows]
BY DEF TypeOK, Locks

LEMMA LoginType ==
  ASSUME TypeOK, NEW c \in Calls, Login(c) \/ LoginStep(c)
  PROVE  TypeOK'
<1> USE DEF account, browser, resets, call, history
<1>1. CASE Login(c)   BY <1>1 DEF Login, TypeOK, LoggingIn
<1>2. CASE Upgrade(c)
  <2>1. password' \in Hashes
    <3>1. got[c].of \in Resets \cup {None} /\ password \in Hashes
      BY DEF TypeOK, Hashes
    <3>2. [of |-> got[c].of, legacy |-> FALSE] \in Hashes
      BY <3>1 DEF Hashes
    <3> QED BY <1>2, <3>1, <3>2 DEF Upgrade
  <2> QED BY <1>2, <2>1 DEF Upgrade, TypeOK, LoggingIn, Hashes, Nothing
<1>3. CASE CreateSession(c)
  <2>1. /\ New(sess) \in Sessions /\ New(token) \in Tokens
    BY <1>3, NewRow DEF CreateSession, TypeOK
  <2> QED BY <1>3, <2>1, CallType DEF CreateSession, TypeOK
<1> QED BY <1>1, <1>2, <1>3 DEF LoginStep

LEMMA RefreshType ==
  ASSUME TypeOK, LockInv, NEW c \in Calls, Refresh(c) \/ RefreshStep(c) \/ Logout(c)
  PROVE  TypeOK'
<1> USE DEF account, browser, resets, call, history, Refreshing
<1>0. pc[c] \in Refreshing => arg[c] \in Tokens /\ of[arg[c]] \in Sessions
  BY DEF LockInv, Position, TokensHaveSessions, Existing
<1>1. CASE Refresh(c)
  <2>1. PICK t \in Tokens : Locks(c, {t}, "session") /\ arg' = [arg EXCEPT ![c] = t]
    BY <1>1 DEF Refresh
  <2>2. {t} \in SUBSET Rows
    BY DEF Rows
  <2>3. /\ pc' \in [Calls -> {"idle"} \cup LoggingIn \cup Refreshing \cup Resetting]
        /\ holds' \in [Calls -> SUBSET Rows]
    BY <2>1, <2>2, LocksType
  <2> QED BY <1>1, <2>1, <2>3 DEF Refresh, TypeOK
<1>2. CASE LockSession(c)
  <2>1. {of[arg[c]]} \in SUBSET Rows
    BY <1>0, <1>2 DEF LockSession, Rows
  <2>2. /\ pc' \in [Calls -> {"idle"} \cup LoggingIn \cup Refreshing \cup Resetting]
        /\ holds' \in [Calls -> SUBSET Rows]
    BY <1>2, <2>1, LocksType DEF LockSession
  <2> QED BY <1>2, <2>2 DEF LockSession, TypeOK
<1>3. CASE LockUser(c)
  <2>1. PICK next \in {Verdict(arg[c]), "refuse"} : Locks(c, {Account}, next)
    BY <1>3 DEF LockUser
  <2>2. next \in Refreshing
    BY DEF Verdict
  <2> QED BY <1>3, <2>1, <2>2, LocksType DEF LockUser, TypeOK, Rows
<1>4. CASE Rotate(c)
  <2>1. New(token) \in Tokens
    BY <1>4, NewRow DEF Rotate, TypeOK
  <2> QED BY <1>0, <1>4, <2>1, CallType DEF Rotate, TypeOK
<1>5. CASE Refuse(c)   BY <1>5, CallType DEF Refuse, TypeOK
<1>6. CASE Logout(c)   BY <1>6 DEF Logout, TypeOK
<1> QED BY <1>1, <1>2, <1>3, <1>4, <1>5, <1>6 DEF RefreshStep

LEMMA ResetType ==
  ASSUME TypeOK, LockInv, NEW c \in Calls,
         Forgot(c) \/ ClaimReset(c) \/ RefuseOverdue(c) \/ ResetStep(c)
  PROVE  TypeOK'
<1> USE DEF account, browser, resets, call, history, Resetting
<1>0. pc[c] \in Resetting => arg[c] \in Resets
  BY DEF LockInv, Position
<1>1. CASE Forgot(c)         BY <1>1 DEF Forgot, TypeOK
<1>2. CASE ClaimReset(c)
  <2>1. PICK r \in Resets : Locks(c, {r}, "account") /\ arg' = [arg EXCEPT ![c] = r]
    BY <1>2 DEF ClaimReset
  <2>2. {r} \in SUBSET Rows
    BY DEF Rows
  <2>3. /\ pc' \in [Calls -> {"idle"} \cup LoggingIn \cup Refreshing \cup Resetting]
        /\ holds' \in [Calls -> SUBSET Rows]
    BY <2>1, <2>2, LocksType
  <2> QED BY <1>2, <2>1, <2>3 DEF ClaimReset, TypeOK
<1>3. CASE RefuseOverdue(c)  BY <1>3 DEF RefuseOverdue, TypeOK
<1>4. CASE LockAccount(c)    BY <1>4, LocksType DEF LockAccount, TypeOK, Rows
<1>5. CASE Invalidate(c)     BY <1>5, CallType DEF Invalidate, TypeOK
<1>6. CASE RevokeSessions(c) BY <1>6, LocksType DEF RevokeSessions, TypeOK, Rows, Existing
<1>7. CASE RevokeTokens(c)
  BY <1>7, LocksType DEF RevokeTokens, TypeOK, Rows, Unrevoked, TokensOf
<1>8. CASE Recheck(c)        BY <1>8, CallType DEF Recheck, TypeOK
<1>9. CASE CommitReset(c)
  <2>1. /\ password' \in Hashes /\ reset' \in [Resets -> {"none", "issued", "completed", "expired", "invalidated"}]
        /\ notified' \subseteq Resets
    BY <1>0, <1>9 DEF CommitReset, TypeOK, Hashes
  <2>2. /\ sess' \in [Sessions -> {"none", "live", "expired", "revoked"}]
        /\ token' \in [Tokens -> {"none", "fresh", "consumed", "revoked", "both"}]
    BY <1>9 DEF CommitReset, TypeOK, RevokedToken
  <2>3. cut' \in [Resets -> SUBSET Sessions] /\ applied' \in [Resets -> Nat]
    BY <1>0, <1>9 DEF CommitReset, TypeOK, Existing
  <2> QED BY <1>9, <2>1, <2>2, <2>3, CallType DEF CommitReset, TypeOK
<1> QED BY <1>1, <1>2, <1>3, <1>4, <1>5, <1>6, <1>7, <1>8, <1>9 DEF ResetStep

LEMMA StepType == TypeOK /\ LockInv /\ [Next]_vars => TypeOK'
<1> SUFFICES ASSUME TypeOK, LockInv, [Next]_vars PROVE TypeOK'
  OBVIOUS
<1> USE DEF account, browser, resets, call, history
<1>1. ASSUME NEW c \in Calls, Begin(c) \/ Proceed(c) PROVE TypeOK'
  BY <1>1, LoginType, RefreshType, ResetType DEF Begin, Proceed
<1>2. ASSUME NEW c \in Calls, Victim(c) \/ Abort(c) PROVE TypeOK'
  BY <1>2, CallType DEF Victim, Abort, TypeOK
<1>3. ASSUME NEW s \in Sessions, ExpireSession(s) PROVE TypeOK'
  BY <1>3 DEF ExpireSession, TypeOK
<1>4. ASSUME NEW r \in Resets, ExpireReset(r) PROVE TypeOK'
  BY <1>4 DEF ExpireReset, TypeOK
<1>5. CASE Suspend
  BY <1>5 DEF Suspend, TypeOK
<1>6. CASE UNCHANGED vars
  BY <1>6 DEF vars, TypeOK
<1> QED BY <1>1, <1>2, <1>3, <1>4, <1>5, <1>6 DEF Next

--------------------------------------------------------------------------------
\* The order of locks: how a call moves while the others stay where they are.
Others(c) == \A d \in Calls \ {c} : pc'[d] = pc[d] /\ arg'[d] = arg[d] /\ holds'[d] = holds[d]

LEMMA Frame ==
  ASSUME TypeOK, NEW c \in Calls, Begin(c) \/ Proceed(c) \/ Victim(c) \/ Abort(c)
  PROVE  Others(c)
<1> USE DEF Others, Ends, Locks, TypeOK, call
<1>1. CASE Begin(c)
  BY <1>1 DEF Begin, Login, Refresh, Logout, Forgot, ClaimReset, RefuseOverdue
<1>2. CASE LoginStep(c)    BY <1>2 DEF LoginStep, Upgrade, CreateSession
<1>3. CASE RefreshStep(c)
  BY <1>3 DEF RefreshStep, LockSession, LockUser, Rotate, Refuse
<1>4. CASE ResetStep(c)
  BY <1>4 DEF ResetStep, LockAccount, Invalidate, RevokeSessions, RevokeTokens, Recheck, CommitReset
<1>5. CASE Victim(c) \/ Abort(c)  BY <1>5 DEF Victim, Abort
<1> QED BY <1>1, <1>2, <1>3, <1>4, <1>5 DEF Proceed

\* No row is held twice.
LEMMA StepExclusive ==
  ASSUME TypeOK, Exclusive, NEW c \in Calls, Begin(c) \/ Proceed(c) \/ Victim(c) \/ Abort(c)
  PROVE  Exclusive'
<1>1. Others(c)
  BY Frame
<1>2. holds'[c] \subseteq holds[c] \/ \E rows : Free(c, rows) /\ holds'[c] = holds[c] \cup rows
  <2> USE DEF Ends, Locks, TypeOK, call
  <2>1. CASE Begin(c)
    <3>1. CASE Login(c) \/ Logout(c) \/ Forgot(c) \/ RefuseOverdue(c)
      BY <3>1 DEF Login, Logout, Forgot, RefuseOverdue
    <3>2. CASE Refresh(c) \/ ClaimReset(c)
      <4>1. \E x, next : Locks(c, {x}, next)
        BY <3>2 DEF Refresh, ClaimReset
      <4> QED BY <4>1
    <3> QED BY <2>1, <3>1, <3>2 DEF Begin
  <2>2. CASE LoginStep(c)    BY <2>2 DEF LoginStep, Upgrade, CreateSession
  <2>3. CASE RefreshStep(c)
    BY <2>3 DEF RefreshStep, LockSession, LockUser, Rotate, Refuse
  <2>4. CASE ResetStep(c)
    BY <2>4 DEF ResetStep, LockAccount, Invalidate, RevokeSessions, RevokeTokens, Recheck, CommitReset
  <2>5. CASE Victim(c) \/ Abort(c)  BY <2>5 DEF Victim, Abort
  <2> QED BY <2>1, <2>2, <2>3, <2>4, <2>5 DEF Proceed
<1>3. \A d \in Calls \ {c} : holds'[c] \cap holds'[d] = {}
  BY <1>1, <1>2 DEF Others, Exclusive, Free
<1> QED BY <1>1, <1>3 DEF Others, Exclusive

\* Rows that d holds stay as d found them; a session may only run out.
Kept(d) ==
  /\ \A t \in Tokens \cap holds[d] : token'[t] = token[t] /\ of'[t] = of[t]
  /\ \A s \in Sessions \cap holds[d] :
       sess[s] # "none" => sess'[s] = sess[s] \/ sess'[s] = "expired"
  /\ \A r \in Resets \cap holds[d] : reset'[r] = reset[r]
  /\ Account \in holds[d] =>
       Existing' = Existing /\ UNCHANGED <<token, of>>

LEMMA KeptRows ==
  ASSUME TypeOK, LockInv, NEW c \in Calls, Begin(c) \/ Proceed(c) \/ Victim(c) \/ Abort(c),
         NEW d \in Calls \ {c}
  PROVE  Kept(d)
<1> USE DEF account, browser, resets, call, history
<1>0. /\ holds[c] \cap holds[d] = {} /\ Position(c) /\ Position(d)
  BY DEF LockInv, Exclusive
<1>1. CASE Begin(c)
  <2>1. CASE Login(c) \/ Refresh(c) \/ ClaimReset(c)
    BY <2>1 DEF Login, Refresh, ClaimReset, Kept, Existing
  <2>2. CASE Logout(c)
    <3>1. PICK t \in Tokens : /\ token[t] # "none" /\ Free(c, {of[t]})
                              /\ sess' = [sess EXCEPT ![of[t]] = "revoked"]
      BY <2>2 DEF Logout
    <3>2. of[t] \in Sessions /\ sess[of[t]] # "none" /\ of[t] \notin holds[d]
      BY <3>1 DEF Free, LockInv, TokensHaveSessions, Existing
    <3> QED BY <2>2, <3>1, <3>2 DEF Logout, Kept, Existing, TypeOK
  <2>3. CASE Forgot(c) \/ RefuseOverdue(c)
    <3>1. UNCHANGED browser /\ \E r \in Resets : \E v : reset' = [reset EXCEPT ![r] = v] /\ r \notin holds[d]
      BY <2>3, <1>0 DEF Forgot, RefuseOverdue, Free, Position, TypeOK, Resetting, Refreshing, LoggingIn
    <3> QED BY <3>1 DEF Kept, Existing, TypeOK
  <2> QED BY <1>1, <2>1, <2>2, <2>3 DEF Begin
<1>2. CASE Upgrade(c) \/ LockSession(c) \/ LockUser(c) \/ LockAccount(c) \/ RevokeSessions(c)
           \/ RevokeTokens(c) \/ Recheck(c) \/ Victim(c) \/ Abort(c)
  BY <1>2 DEF Upgrade, LockSession, LockUser, LockAccount, RevokeSessions, RevokeTokens, Recheck,
              Victim, Abort, Kept, Existing
<1>3. CASE CreateSession(c)
  <2>1. New(sess) \in Sessions /\ sess[New(sess)] = "none" /\ New(token) \in Tokens /\ token[New(token)] = "none"
    BY <1>3, NewRow DEF CreateSession, TypeOK
  <2>2. Account \notin holds[d] /\ New(sess) \notin holds[d] /\ New(token) \notin holds[d]
    BY <1>0, <1>3, <2>1 DEF CreateSession, Free, Position
  <2> QED BY <1>3, <2>1, <2>2 DEF CreateSession, Kept, TypeOK
<1>4. CASE Rotate(c)
  <2>1. New(token) \in Tokens /\ token[New(token)] = "none"
    BY <1>4, NewRow DEF Rotate, TypeOK
  <2>2. /\ Account \notin holds[d] /\ arg[c] \in Tokens /\ arg[c] \notin holds[d]
        /\ New(token) \notin holds[d]
    BY <1>0, <1>4, <2>1 DEF Rotate, Position, Refreshing
  <2> QED BY <1>4, <2>1, <2>2 DEF Rotate, Kept, TypeOK
<1>5. CASE Refuse(c)
  <2>1. of[arg[c]] \notin holds[d] /\ of[arg[c]] \in holds[c]
    BY <1>0, <1>5 DEF Refuse, Position
  <2>2. of[arg[c]] \in Sessions => sess[of[arg[c]]] # "none"
    BY <1>0, <2>1 DEF Position
  <2> QED BY <1>5, <2>1, <2>2 DEF Refuse, Kept, Existing, TypeOK
<1>6. CASE Invalidate(c)
  <2>1. arg[c] \in holds[c]
    BY <1>0, <1>6 DEF Invalidate, Position, Resetting
  <2> QED BY <1>0, <1>6, <2>1 DEF Invalidate, Kept, Existing, TypeOK
<1>7. CASE CommitReset(c)
  <2>1. arg[c] \in holds[c] /\ Account \notin holds[d]
    BY <1>0, <1>7 DEF CommitReset, Position, Resetting
  <2> QED BY <1>0, <1>7, <2>1 DEF CommitReset, Kept, TypeOK
<1> QED BY <1>1, <1>2, <1>3, <1>4, <1>5, <1>6, <1>7 DEF Proceed, LoginStep, RefreshStep, ResetStep

LEMMA Elsewhere ==
  ASSUME TypeOK, NEW d \in Calls, Position(d), TokensHaveSessions, Kept(d), late' = late,
         pc'[d] = pc[d], arg'[d] = arg[d], holds'[d] = holds[d]
  PROVE  Position(d)'
<1>1. \A t \in holds[d] \cap Tokens : token'[t] # "none"
  BY DEF Position, Kept
<1>2. \A s \in holds[d] \cap Sessions : sess'[s] # "none"
  BY DEF Position, Kept
<1>3. \A r \in holds[d] \cap Resets : reset'[r] = "issued"
  BY DEF Position, Kept
<1>4. pc[d] \in {"user", "rotate", "refuse"} => of'[arg[d]] \in holds[d]
  BY DEF Position, Kept, Refreshing
<1>5. pc[d] = "rotate" => token'[arg[d]] = "fresh" /\ sess'[of'[arg[d]]] # "revoked"
  <2> SUFFICES ASSUME pc[d] = "rotate" PROVE token'[arg[d]] = "fresh" /\ sess'[of'[arg[d]]] # "revoked"
    OBVIOUS
  <2>1. arg[d] \in Tokens \cap holds[d] /\ of[arg[d]] \in Sessions \cap holds[d]
    BY DEF Position, Refreshing, TokensHaveSessions, Existing
  <2> QED BY <2>1 DEF Position, Kept
<1>6. pc[d] \in {"tokens", "recheck", "commit"} => Existing' \subseteq holds[d]
  BY DEF Position, Kept
<1>7. pc[d] \in {"recheck", "commit"} => Unrevoked' \subseteq holds[d]
  BY DEF Position, Kept, Unrevoked, TokensOf
<1> QED BY <1>1, <1>2, <1>3, <1>4, <1>5, <1>6, <1>7 DEF Position

\* A call that ends holds nothing.
LEMMA Ended == ASSUME TypeOK, NEW c \in Calls, Ends(c) PROVE Position(c)'
BY DEF Ends, Position, TypeOK, LoggingIn, Refreshing, Resetting

LEMMA Moves ==
  ASSUME TypeOK, LockInv, late \subseteq overdue, NEW c \in Calls, Begin(c) \/ Proceed(c) \/ Victim(c) \/ Abort(c)
  PROVE  Position(c)'
<1> USE DEF account, browser, resets, call, history
<1>0. Position(c) /\ TokensHaveSessions
  BY DEF LockInv
<1>1. CASE Begin(c)
  <2>1. CASE Login(c)
    BY <1>0, <2>1 DEF Login, Position, TypeOK, LoggingIn, Refreshing, Resetting
  <2>2. CASE Logout(c) \/ Forgot(c) \/ RefuseOverdue(c)
    BY <1>0, <2>2 DEF Logout, Forgot, RefuseOverdue, Position, TypeOK, LoggingIn, Refreshing, Resetting
  <2>3. CASE Refresh(c)
    <3>1. PICK t \in Tokens : token[t] # "none" /\ Locks(c, {t}, "session") /\ arg' = [arg EXCEPT ![c] = t]
      BY <2>3 DEF Refresh
    <3>2. holds'[c] = {t} /\ pc'[c] = "session" /\ arg'[c] = t /\ t \notin Sessions \cup Resets
      BY <1>0, <2>3, <3>1 DEF Refresh, Locks, Position, TypeOK
    <3> QED BY <2>3, <3>1, <3>2 DEF Refresh, Position, LoggingIn, Refreshing, Resetting
  <2>4. CASE ClaimReset(c)
    <3>1. PICK r \in Resets : reset[r] = "issued" /\ Locks(c, {r}, "account") /\ arg' = [arg EXCEPT ![c] = r]
      BY <2>4 DEF ClaimReset
    <3>2. holds'[c] = {r} /\ pc'[c] = "account" /\ arg'[c] = r /\ r \notin Sessions \cup Tokens
      BY <1>0, <2>4, <3>1 DEF ClaimReset, Locks, Position, TypeOK
    <3> QED BY <2>4, <3>1, <3>2 DEF ClaimReset, Position, LoggingIn, Refreshing, Resetting
  <2> QED BY <1>1, <2>1, <2>2, <2>3, <2>4 DEF Begin
<1>2. CASE Upgrade(c)
  BY <1>0, <1>2 DEF Upgrade, Position, TypeOK, LoggingIn, Refreshing, Resetting
<1>3. CASE CreateSession(c) \/ Rotate(c) \/ Refuse(c) \/ Invalidate(c) \/ CommitReset(c)
           \/ Victim(c) \/ Abort(c)
  BY <1>3, Ended DEF CreateSession, Rotate, Refuse, Invalidate, CommitReset, Victim, Abort
<1>4. CASE LockSession(c)
  <2>1. /\ holds'[c] = holds[c] \cup {of[arg[c]]} /\ pc'[c] = "user" /\ arg'[c] = arg[c]
        /\ arg[c] \in Tokens /\ arg[c] \in holds[c] /\ of[arg[c]] \in Existing
        /\ of[arg[c]] \notin Tokens \cup Resets
    BY <1>0, <1>4 DEF LockSession, Locks, Position, TypeOK, Refreshing, TokensHaveSessions, Existing
  <2> QED BY <1>0, <1>4, <2>1 DEF LockSession, Position, LoggingIn, Refreshing, Resetting, Existing
<1>5. CASE LockUser(c)
  <2>1. PICK next \in {Verdict(arg[c]), "refuse"} : Locks(c, {Account}, next)
    BY <1>5 DEF LockUser
  <2>2. /\ holds'[c] = holds[c] \cup {Account} /\ pc'[c] = next /\ arg'[c] = arg[c]
        /\ arg[c] \in Tokens /\ arg[c] \in holds[c]
    BY <1>0, <1>5, <2>1 DEF LockUser, Locks, Position, TypeOK, Refreshing
  <2>3. next = "refuse" \/ (next = "rotate" /\ token[arg[c]] = "fresh" /\ sess[of[arg[c]]] = "live")
    BY DEF Verdict
  <2> QED BY <1>0, <1>5, <2>2, <2>3 DEF LockUser, Position, LoggingIn, Refreshing, Resetting
<1>6. CASE LockAccount(c)
  BY <1>0, <1>6 DEF LockAccount, Locks, Position, TypeOK, LoggingIn, Refreshing, Resetting
<1>7. CASE RevokeSessions(c)
  <2>1. holds'[c] = holds[c] \cup Existing /\ pc'[c] = "tokens" /\ arg'[c] = arg[c] /\ Existing' = Existing
    BY <1>7 DEF RevokeSessions, Locks, TypeOK, Existing
  <2> QED BY <1>0, <1>7, <2>1 DEF RevokeSessions, Position, LoggingIn, Refreshing, Resetting, Existing
<1>8. CASE RevokeTokens(c)
  <2>1. /\ holds'[c] = holds[c] \cup Unrevoked /\ pc'[c] = "recheck" /\ arg'[c] = arg[c]
        /\ Existing' = Existing /\ Unrevoked' = Unrevoked
    BY <1>8 DEF RevokeTokens, Locks, TypeOK, Existing, Unrevoked, TokensOf
  <2>2. \A t \in Unrevoked : t \in Tokens /\ token[t] # "none"
    BY DEF Unrevoked, TokensOf
  <2> QED BY <1>0, <1>8, <2>1, <2>2 DEF RevokeTokens, Position, LoggingIn, Refreshing, Resetting
<1>9. CASE Recheck(c)
  <2>1. CASE arg[c] \in overdue
    BY <1>9, <2>1, Ended DEF Recheck
  <2>2. CASE arg[c] \notin overdue
    BY <1>0, <1>9, <2>2 DEF Recheck, Position, TypeOK, LoggingIn, Refreshing, Resetting,
                            Existing, Unrevoked, TokensOf
  <2> QED BY <2>1, <2>2
<1> QED BY <1>1, <1>2, <1>3, <1>4, <1>5, <1>6, <1>7, <1>8, <1>9
        DEF Proceed, LoginStep, RefreshStep, ResetStep

LEMMA StepTokens ==
  ASSUME TypeOK, LockInv, NEW c \in Calls, Begin(c) \/ Proceed(c) \/ Victim(c) \/ Abort(c)
  PROVE  TokensHaveSessions'
<1> USE DEF account, browser, resets, call, history, TokensHaveSessions, Existing
<1>0. Position(c) /\ TokensHaveSessions
  BY DEF LockInv
<1>1. CASE Begin(c)
  <2>1. CASE Logout(c)
    BY <1>0, <2>1 DEF Logout, TypeOK
  <2>2. CASE Login(c) \/ Refresh(c) \/ Forgot(c) \/ ClaimReset(c) \/ RefuseOverdue(c)
    BY <1>0, <2>2 DEF Login, Refresh, Forgot, ClaimReset, RefuseOverdue
  <2> QED BY <1>1, <2>1, <2>2 DEF Begin
<1>2. CASE CreateSession(c)
  <2>1. New(sess) \in Sessions /\ New(token) \in Tokens
    BY <1>2, NewRow DEF CreateSession, TypeOK
  <2> QED BY <1>0, <1>2, <2>1 DEF CreateSession, TypeOK
<1>3. CASE Rotate(c)
  <2>1. New(token) \in Tokens /\ arg[c] \in Tokens /\ of[arg[c]] \in Existing
    BY <1>0, <1>3, NewRow DEF Rotate, TypeOK, Position, Refreshing
  <2> QED BY <1>0, <1>3, <2>1 DEF Rotate, TypeOK
<1>4. CASE CommitReset(c)
  BY <1>0, <1>4 DEF CommitReset, TypeOK, RevokedToken
<1>5. CASE Refuse(c)
  BY <1>0, <1>5 DEF Refuse, TypeOK
<1>6. CASE Upgrade(c) \/ LockSession(c) \/ LockUser(c) \/ LockAccount(c) \/ Invalidate(c)
           \/ RevokeSessions(c) \/ RevokeTokens(c) \/ Recheck(c) \/ Victim(c) \/ Abort(c)
  BY <1>0, <1>6 DEF Upgrade, LockSession, LockUser, LockAccount, Invalidate, RevokeSessions,
                    RevokeTokens, Recheck, Victim, Abort
<1> QED BY <1>1, <1>2, <1>3, <1>4, <1>5, <1>6 DEF Proceed, LoginStep, RefreshStep, ResetStep

\* What happens to an account beside the calls.
Beside == (\E s \in Sessions : ExpireSession(s)) \/ (\E r \in Resets : ExpireReset(r))
          \/ Suspend \/ UNCHANGED vars

LEMMA BesideKeeps ==
  ASSUME TypeOK, LockInv, Beside
  PROVE  /\ LockInv' /\ UNCHANGED <<pc, arg, holds, token, of, reset, notified, cut, applied>>
         /\ \A s \in Sessions : sess'[s] = sess[s] \/ (sess[s] = "live" /\ sess'[s] = "expired")
<1> USE DEF account, browser, resets, call, history
<1>1. UNCHANGED <<pc, arg, holds, token, of, reset, notified, cut, applied>>
  BY DEF Beside, ExpireSession, ExpireReset, Suspend, vars
<1>2. \A s \in Sessions : sess'[s] = sess[s] \/ (sess[s] = "live" /\ sess'[s] = "expired")
  BY DEF Beside, ExpireSession, ExpireReset, Suspend, vars, TypeOK
<1>3. Existing' = Existing /\ Unrevoked' = Unrevoked
  BY <1>1, <1>2 DEF Existing, Unrevoked, TokensOf
<1>4. \A c \in Calls : pc[c] = "commit" => (arg[c] \in late' <=> arg[c] \in late)
  BY DEF Beside, ExpireSession, ExpireReset, Suspend, vars
<1>5. ASSUME NEW c \in Calls PROVE Position(c)'
  <2>1. Position(c) /\ TokensHaveSessions
    BY DEF LockInv
  <2>2. pc[c] = "rotate" => of[arg[c]] \in Sessions
    BY <2>1 DEF Position, TokensHaveSessions, Existing, Refreshing
  <2> QED BY <1>1, <1>2, <1>3, <1>4, <2>1, <2>2 DEF Position
<1>6. Exclusive' /\ TokensHaveSessions'
  BY <1>1, <1>3 DEF LockInv, Exclusive, TokensHaveSessions
<1> QED BY <1>1, <1>2, <1>5, <1>6 DEF LockInv

LEMMA StepLocks ==
  ASSUME TypeOK, LockInv, late \subseteq overdue, [Next]_vars
  PROVE  LockInv'
<1>1. ASSUME NEW c \in Calls, Begin(c) \/ Proceed(c) \/ Victim(c) \/ Abort(c) PROVE LockInv'
  <2>1. late' = late
    BY <1>1 DEF Begin, Login, Refresh, Logout, Forgot, ClaimReset, RefuseOverdue, Proceed,
       LoginStep, Upgrade, CreateSession, RefreshStep, LockSession, LockUser, Rotate, Refuse,
       ResetStep, LockAccount, Invalidate, RevokeSessions, RevokeTokens, Recheck, CommitReset,
       Victim, Abort, history
  <2>2. ASSUME NEW d \in Calls \ {c} PROVE Position(d)'
    <3>1. Kept(d) /\ Others(c)
      BY <1>1, KeptRows, Frame
    <3> QED BY <2>1, <3>1, Elsewhere DEF LockInv, Others
  <2>3. Position(c)'
    BY <1>1, Moves
  <2>4. Exclusive' /\ TokensHaveSessions'
    BY <1>1, StepExclusive, StepTokens DEF LockInv
  <2> QED BY <2>2, <2>3, <2>4 DEF LockInv
<1>2. CASE Beside
  BY <1>2, BesideKeeps
<1> QED BY <1>1, <1>2 DEF Next, Beside

--------------------------------------------------------------------------------
\* What only the four writing commits of a call can change.
Quiet(c) ==
  \/ Login(c) \/ Refresh(c) \/ ClaimReset(c) \/ Upgrade(c) \/ LockSession(c) \/ LockUser(c)
  \/ LockAccount(c) \/ RevokeSessions(c) \/ RevokeTokens(c) \/ Recheck(c) \/ Victim(c) \/ Abort(c)
Revoking(c) == Logout(c) \/ Refuse(c)
Deciding(c) == Forgot(c) \/ RefuseOverdue(c) \/ Invalidate(c)

LEMMA Steps ==
  ASSUME NEW c \in Calls, Begin(c) \/ Proceed(c) \/ Victim(c) \/ Abort(c)
  PROVE  Quiet(c) \/ Revoking(c) \/ Deciding(c) \/ CreateSession(c) \/ Rotate(c) \/ CommitReset(c)
BY DEF Begin, Proceed, LoginStep, RefreshStep, ResetStep, Quiet, Revoking, Deciding

LEMMA QuietKeeps ==
  ASSUME NEW c \in Calls, Quiet(c)
  PROVE  UNCHANGED <<browser, resets, history>>
BY DEF Quiet, Login, Refresh, ClaimReset, Upgrade, LockSession, LockUser, LockAccount,
       RevokeSessions, RevokeTokens, Recheck, Victim, Abort, history

LEMMA RevokingKeeps ==
  ASSUME TypeOK, NEW c \in Calls, Revoking(c)
  PROVE  /\ UNCHANGED <<token, of, resets, history>>
         /\ \A s \in Sessions : sess'[s] \in {sess[s], "revoked"}
BY DEF Revoking, Logout, Refuse, TypeOK, history

LEMMA DecidingKeeps ==
  ASSUME TypeOK, LockInv, NEW c \in Calls, Deciding(c)
  PROVE  /\ UNCHANGED <<browser, overdue, notified, history>>
         /\ \A r \in Resets : reset'[r] = reset[r] \/ (reset[r] # "completed" /\ reset'[r] # "completed")
<1> USE DEF history, TypeOK
<1>1. CASE Forgot(c) \/ RefuseOverdue(c)  BY <1>1 DEF Forgot, RefuseOverdue
<1>2. CASE Invalidate(c)
  <2>1. reset[arg[c]] = "issued"
    BY <1>2 DEF Invalidate, LockInv, Position, Resetting
  <2> QED BY <1>2, <2>1 DEF Invalidate
<1> QED BY <1>1, <1>2 DEF Deciding

\* A new session has no token yet; a rotation replaces the one usable token.
LEMMA StepOneFresh == TypeOK /\ LockInv /\ OneFresh /\ [Next]_vars => OneFresh'
<1> SUFFICES ASSUME TypeOK, LockInv, OneFresh, [Next]_vars PROVE OneFresh'
  OBVIOUS
<1>1. ASSUME NEW c \in Calls, Begin(c) \/ Proceed(c) \/ Victim(c) \/ Abort(c) PROVE OneFresh'
  <2>1. CASE Quiet(c) \/ Revoking(c) \/ Deciding(c)
    BY <2>1, QuietKeeps, RevokingKeeps, DecidingKeeps DEF OneFresh, browser
  <2>2. CASE CreateSession(c)
    <3>1. /\ New(sess) \in Sessions /\ sess[New(sess)] = "none"
          /\ New(token) \in Tokens /\ token[New(token)] = "none"
      BY <2>2, NewRow DEF CreateSession, TypeOK
    <3>2. \A t \in Tokens : token[t] = "fresh" => of[t] # New(sess)
      BY <3>1 DEF LockInv, TokensHaveSessions, Existing
    <3> QED BY <2>2, <3>1, <3>2 DEF CreateSession, OneFresh, TypeOK
  <2>3. CASE Rotate(c)
    <3>1. /\ New(token) \in Tokens /\ token[New(token)] = "none"
          /\ arg[c] \in Tokens /\ token[arg[c]] = "fresh"
      BY <2>3, NewRow DEF Rotate, TypeOK, LockInv, Position, Refreshing
    <3> QED BY <2>3, <3>1 DEF Rotate, OneFresh, TypeOK
  <2>4. CASE CommitReset(c)
    <3>1. \A t \in Tokens : token'[t] = "fresh" => token[t] = "fresh"
      BY <2>4 DEF CommitReset, RevokedToken, TypeOK
    <3> QED BY <2>4, <3>1 DEF CommitReset, OneFresh
  <2> QED BY <1>1, <2>1, <2>2, <2>3, <2>4, Steps
<1>2. CASE Beside
  BY <1>2, BesideKeeps DEF OneFresh
<1> QED BY <1>1, <1>2 DEF Next, Beside

\* A commit revokes all there is; later steps bring no revoked session back.
LEMMA StepCut == TypeOK /\ LockInv /\ CutIsOver /\ [Next]_vars => CutIsOver'
<1> SUFFICES ASSUME TypeOK, LockInv, CutIsOver, [Next]_vars PROVE CutIsOver'
  OBVIOUS
<1>1. ASSUME NEW c \in Calls, Begin(c) \/ Proceed(c) \/ Victim(c) \/ Abort(c) PROVE CutIsOver'
  <2> USE DEF resets, browser, history
  <2>1. CASE Quiet(c) \/ Deciding(c)
    BY <2>1, QuietKeeps, DecidingKeeps DEF CutIsOver
  <2>2. CASE Revoking(c)
    BY <2>2, RevokingKeeps DEF CutIsOver, TypeOK
  <2>3. CASE CreateSession(c)
    <3>1. /\ New(sess) \in Sessions /\ sess[New(sess)] = "none"
          /\ New(token) \in Tokens
      BY <2>3, NewRow DEF CreateSession, TypeOK
    <3> QED BY <2>3, <3>1 DEF CreateSession, CutIsOver, TypeOK
  <2>4. CASE Rotate(c)
    <3>1. /\ New(token) \in Tokens /\ arg[c] \in Tokens /\ sess[of[arg[c]]] # "revoked"
      BY <2>4, NewRow DEF Rotate, TypeOK, LockInv, Position, Refreshing
    <3> QED BY <2>4, <3>1 DEF Rotate, CutIsOver, TypeOK
  <2>5. CASE CommitReset(c)
    <3>1. arg[c] \in Resets /\ Existing \subseteq holds[c] /\ Unrevoked \subseteq holds[c]
      BY <2>5 DEF CommitReset, LockInv, Position, Resetting
    <3>2. \A s \in Sessions : sess[s] = "revoked" => sess'[s] = "revoked"
      BY <2>5 DEF CommitReset, TypeOK
    <3>3. \A t \in Tokens : token'[t] = "fresh" => token[t] = "fresh"
      BY <2>5 DEF CommitReset, RevokedToken, TypeOK
    <3>4. ASSUME NEW r \in Resets \ {arg[c]}, reset'[r] = "completed"
          PROVE  r \in notified' /\ \A s \in cut'[r] : sess'[s] = "revoked"
                              /\ \A t \in Tokens : of'[t] = s => token'[t] # "fresh"
      <4>1. reset[r] = "completed" /\ cut'[r] = cut[r] /\ notified \subseteq notified' /\ of' = of
        BY <2>5, <3>1, <3>4 DEF CommitReset, TypeOK
      <4>2. \A s \in cut[r] : s \in Sessions
        BY DEF TypeOK
      <4> QED BY <3>2, <3>3, <4>1, <4>2 DEF CutIsOver
    <3>5. /\ arg[c] \in notified' /\ cut'[arg[c]] = Existing /\ of' = of
      BY <2>5, <3>1 DEF CommitReset, TypeOK
    <3>6. \A s \in Existing : sess'[s] = "revoked"
      BY <2>5, <3>1 DEF CommitReset, Existing
    <3>7. \A t \in Tokens : of[t] \in Existing => token'[t] # "fresh"
      <4> SUFFICES ASSUME NEW t \in Tokens, of[t] \in Existing, token'[t] = "fresh" PROVE FALSE
        OBVIOUS
      <4>1. token[t] = "fresh" /\ t \in holds[c]
        BY <3>1, <3>3 DEF Unrevoked, TokensOf
      <4> QED BY <2>5, <4>1 DEF CommitReset, RevokedToken
    <3> QED BY <3>4, <3>5, <3>6, <3>7 DEF CutIsOver
  <2> QED BY <1>1, <2>1, <2>2, <2>3, <2>4, <2>5, Steps
<1>2. CASE Beside
  BY <1>2, BesideKeeps DEF CutIsOver, TypeOK
<1> QED BY <1>1, <1>2 DEF Next, Beside

Clock == late \subseteq overdue /\ OverdueNeverCompletes

LEMMA StepOnce ==
  TypeOK /\ LockInv /\ AppliedOnce /\ Clock /\ [Next]_vars => AppliedOnce' /\ Clock'
<1> SUFFICES ASSUME TypeOK, LockInv, AppliedOnce, Clock, [Next]_vars PROVE AppliedOnce' /\ Clock'
  OBVIOUS
<1> USE DEF Clock, AppliedOnce, OverdueNeverCompletes
<1>1. ASSUME NEW c \in Calls, Begin(c) \/ Proceed(c) \/ Victim(c) \/ Abort(c) PROVE AppliedOnce' /\ Clock'
  <2> USE DEF resets, browser, history
  <2>1. CASE Quiet(c) \/ Deciding(c)
    BY <2>1, QuietKeeps, DecidingKeeps DEF TypeOK
  <2>2. CASE Revoking(c)
    BY <2>2, RevokingKeeps
  <2>3. CASE CreateSession(c) \/ Rotate(c)
    BY <2>3 DEF CreateSession, Rotate
  <2>4. CASE CommitReset(c)
    <3>1. arg[c] \in Resets /\ reset[arg[c]] = "issued" /\ arg[c] \notin late
      BY <2>4 DEF CommitReset, LockInv, Position, Resetting
    <3> QED BY <2>4, <3>1 DEF CommitReset, TypeOK
  <2> QED BY <1>1, <2>1, <2>2, <2>3, <2>4, Steps
<1>2. CASE Beside
  <2>1. UNCHANGED <<reset, applied>>
    BY <1>2, BesideKeeps
  <2>2. late' \subseteq overdue' /\ \A r \in late' \ late : reset[r] = "issued"
    BY <1>2 DEF Beside, ExpireSession, ExpireReset, Suspend, vars, resets, history
  <2> QED BY <2>1, <2>2
<1> QED BY <1>1, <1>2 DEF Next, Beside

--------------------------------------------------------------------------------
LEMMA InitInv == Init => IInv
<1> SUFFICES ASSUME Init PROVE IInv
  OBVIOUS
<1>1. TypeOK
  BY InitType
<1>2. LockInv
  BY DEF Init, LockInv, Exclusive, TokensHaveSessions, Position, LoggingIn, Refreshing, Resetting
<1>3. OneFresh /\ CutIsOver /\ AppliedOnce /\ late \subseteq overdue /\ OverdueNeverCompletes
  BY DEF Init, OneFresh, CutIsOver, AppliedOnce, OverdueNeverCompletes
<1> QED BY <1>1, <1>2, <1>3 DEF IInv

LEMMA StepInv == IInv /\ [Next]_vars => IInv'
BY StepType, StepLocks, StepOneFresh, StepCut, StepOnce DEF IInv, Clock

\* The rows, the locks and what the position of each request says of them: whoever
\* runs beside it, a transaction finds the rows it holds as it read them.
THEOREM AccountSafety == Spec => []IInv
BY InitInv, StepInv, PTL DEF Spec

\* The shape of the state, for any number of requests and rows.
THEOREM TypeCorrect == Spec => []TypeOK
<1>1. IInv => TypeOK
  BY DEF IInv
<1> QED BY <1>1, AccountSafety, PTL

\* A completed reset left no session of its time alive and no token of them usable.
THEOREM CutSafety == Spec => []ResetCutsSessions
<1>1. IInv => ResetCutsSessions
  BY DEF IInv, CutIsOver, ResetCutsSessions, Usable, TokensOf
<1> QED BY <1>1, AccountSafety, PTL

\* A capability sets the password at most once, and never when it ran out before the
\* last look at the clock.
THEOREM ResetSafety == Spec => []AppliedInTime
<1>1. IInv => AppliedInTime
  BY DEF IInv, AppliedInTime
<1> QED BY <1>1, AccountSafety, PTL

\* A session has at most one token that a refresh would accept.
THEOREM RotationSafety == Spec => []OneUsableToken
<1>1. ASSUME IInv, NEW s \in Sessions PROVE Cardinality(Usable(s)) <= 1
  <2>1. \A t, u \in Usable(s) : t = u
    BY <1>1 DEF IInv, OneFresh, Usable, TokensOf
  <2>2. CASE Usable(s) = {}
    BY <2>2, FS_EmptySet
  <2>3. CASE Usable(s) # {}
    <3>1. PICK t \in Usable(s) : TRUE
      BY <2>3
    <3>2. Usable(s) = {t}
      BY <2>1, <3>1
    <3> QED BY <3>2, FS_Singleton
  <2> QED BY <2>2, <2>3
<1>2. IInv => OneUsableToken
  BY <1>1 DEF OneUsableToken
<1> QED BY <1>2, AccountSafety, PTL

\* No step of any request brings a revoked session back or gives it a token.
LEMMA StepRevoked ==
  ASSUME IInv, [Next]_vars, NEW s \in Sessions, sess[s] = "revoked"
  PROVE  sess'[s] = "revoked" /\ TokensOf({s})' = TokensOf({s})
<1> USE DEF IInv, TokensOf, browser
<1>1. ASSUME NEW c \in Calls, Begin(c) \/ Proceed(c) \/ Victim(c) \/ Abort(c)
      PROVE  sess'[s] = "revoked" /\ TokensOf({s})' = TokensOf({s})
  <2>1. CASE Quiet(c) \/ Deciding(c)
    BY <2>1, QuietKeeps, DecidingKeeps
  <2>2. CASE Revoking(c)
    BY <2>2, RevokingKeeps
  <2>3. CASE CreateSession(c)
    <3>1. /\ New(sess) \in Sessions /\ New(sess) # s
          /\ New(token) \in Tokens /\ token[New(token)] = "none"
      BY <2>3, NewRow DEF CreateSession, TypeOK
    <3> QED BY <2>3, <3>1 DEF CreateSession, TypeOK
  <2>4. CASE Rotate(c)
    <3>1. /\ New(token) \in Tokens /\ token[New(token)] = "none"
          /\ arg[c] \in Tokens /\ of[arg[c]] # s /\ arg[c] # New(token)
      BY <2>4, NewRow DEF Rotate, TypeOK, LockInv, Position, Refreshing
    <3> QED BY <2>4, <3>1 DEF Rotate, TypeOK
  <2>5. CASE CommitReset(c)
    <3>1. \A t \in Tokens : token'[t] = "none" <=> token[t] = "none"
      BY <2>5 DEF CommitReset, RevokedToken, TypeOK
    <3>2. of' = of /\ sess'[s] = "revoked"
      BY <2>5 DEF CommitReset, TypeOK
    <3> QED BY <3>1, <3>2
  <2> QED BY <1>1, <2>1, <2>2, <2>3, <2>4, <2>5, Steps
<1>2. CASE Beside
  BY <1>2, BesideKeeps
<1> QED BY <1>1, <1>2 DEF Next, Beside

THEOREM RevocationSafety == Spec => RevokedIsOver
<1>1. IInv /\ [Next]_vars =>
        [\A s \in Sessions : sess[s] = "revoked" =>
           sess'[s] = "revoked" /\ TokensOf({s})' = TokensOf({s})]_vars
  BY StepRevoked
<1> QED BY <1>1, AccountSafety, PTL DEF Spec, RevokedIsOver

================================================================================
