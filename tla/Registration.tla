------------------------------ MODULE Registration ------------------------------
(***************************************************************************)
(* How an address becomes a verified account: register, resend and verify    *)
(* (routers/auth_router.py) on the users table, the verification code, its   *)
(* cooldown and its hourly window in Valkey (services/auth_cache.py) and the  *)
(* mail in the outbox, beside the hourly deletion of unverified accounts.     *)
(* One address: requests for others share no row and no key with it.          *)
(***************************************************************************)
EXTENDS Integers, FiniteSets

CONSTANTS Calls,       \* requests, or the deletion task, under way at a time
          Users,       \* ids that can be given to an account (bound)
          Codes,       \* codes that can be generated (bound)
          None,
          MaxAttempts, \* wrong submissions of a code
          HourlyLimit, \* mails of the sliding window
          MaxFaults    \* bound: failed or unanswered calls, dead processes

ASSUME RegistrationAssumption ==
  /\ None \notin Users \cup Codes \cup Calls
  /\ MaxAttempts \in Nat \ {0} /\ HourlyLimit \in Nat \ {0} /\ MaxFaults \in Nat

VARIABLES
  status,   \* of an account: "unborn", "inserted" (not committed), "pending",
            \* "active", "deleted", "void" (rolled back)
  owner,    \* whose password it has: the call that set it
  aged,     \* accounts with created_at before the cutoff of the deletion
  lock,     \* the call that holds the row of the pending account
  code,     \* email_verify:{email}: code, attempts and account, or Absent
  cooldown, \* email_verify_cooldown:{email} is set
  sends,    \* events in email_verify_rate:{email}
  mailed,   \* codes whose mail is in the outbox
  pc, at, mine, \* where a call is, its account, the code it generated
  codeOf,   \* history: the account a code was generated for
  refused,  \* history: wrong submissions while a code was stored
  faults

rows    == <<status, owner, aged, lock>>
cache   == <<code, cooldown, sends>>
call    == <<pc, at, mine>>
history == <<codeOf, refused>>
vars == <<rows, cache, mailed, call, history, faults>>

Absent == [is |-> None, tries |-> 0, of |-> None]
Committed == {u \in Users : status[u] \in {"pending", "active"}}
Pending == {u \in Users : status[u] = "pending"}
Inserted == {u \in Users : status[u] = "inserted"}

Init ==
  /\ status = [u \in Users |-> "unborn"] /\ owner = [u \in Users |-> None]
  /\ aged = {} /\ lock = None
  /\ code = Absent /\ cooldown = FALSE /\ sends = 0 /\ mailed = {}
  /\ pc = [c \in Calls |-> "idle"] /\ at = [c \in Calls |-> None]
  /\ mine = [c \in Calls |-> None]
  /\ codeOf = [k \in Codes |-> None]
  /\ refused = [k \in Codes |-> 0] /\ faults = MaxFaults

Free(c) == lock \in {None, c}
Fault == faults > 0 /\ faults' = faults - 1

Goes(c, next) == pc' = [pc EXCEPT ![c] = next] /\ UNCHANGED <<at, mine>>
Starts(c, next, u) ==
  /\ pc[c] = "idle" /\ pc' = [pc EXCEPT ![c] = next]
  /\ at' = [at EXCEPT ![c] = u] /\ UNCHANGED mine
Ends(c) ==
  /\ pc' = [pc EXCEPT ![c] = "idle"] /\ at' = [at EXCEPT ![c] = None]
  /\ mine' = [mine EXCEPT ![c] = None]

--------------------------------------------------------------------------------
\* register_user reads the account FOR UPDATE.  An unverified one is taken over under
\* the cooldown; its row stays locked while the new password is hashed.
RenewUnlocked(c) ==
  /\ Free(c) /\ ~cooldown /\ cooldown' = TRUE
  /\ \E u \in Pending : Starts(c, "rehash", u)
  /\ UNCHANGED <<rows, code, sends, mailed, history, faults>>

Renew(c) ==
  /\ Free(c) /\ ~cooldown /\ cooldown' = TRUE
  /\ \E u \in Pending : Starts(c, "rehash", u)
  /\ lock' = c
  /\ UNCHANGED <<status, owner, aged, code, sends, mailed, history, faults>>

Rehash(c) ==
  /\ pc[c] = "rehash" /\ Free(c)
  /\ owner' = [owner EXCEPT ![at[c]] = c] /\ aged' = aged \ {at[c]} /\ lock' = None
  /\ Goes(c, "store")
  /\ UNCHANGED <<status, cache, mailed, history, faults>>

\* Without an account the cooldown is set whether it was free or not.
Register(c) ==
  /\ Committed = {} /\ Starts(c, "create", None) /\ cooldown' = TRUE
  /\ UNCHANGED <<rows, code, sends, mailed, history, faults>>

\* create_user flushes the row; the unique address lets one insert at a time through.
Create(c) ==
  /\ pc[c] = "create" /\ Inserted = {} /\ Committed = {}
  /\ \E u \in Users :
       /\ status[u] = "unborn" /\ status' = [status EXCEPT ![u] = "inserted"]
       /\ owner' = [owner EXCEPT ![u] = c] /\ at' = [at EXCEPT ![c] = u]
  /\ pc' = [pc EXCEPT ![c] = "store"] /\ UNCHANGED mine
  /\ UNCHANGED <<aged, lock, cache, mailed, history, faults>>

\* IntegrityError: another request was first; its cooldown goes with this one's.
Conflict(c) ==
  /\ pc[c] = "create" /\ Inserted = {} /\ Committed # {}
  /\ cooldown' = FALSE /\ Ends(c)
  /\ UNCHANGED <<rows, code, sends, mailed, history, faults>>

\* store_verification_code replaces the code and its attempts; a request that raises
\* may have stored it.
Stores(c) ==
  \E k \in Codes :
    /\ codeOf[k] = None /\ codeOf' = [codeOf EXCEPT ![k] = at[c]]
    /\ code' = [is |-> k, tries |-> 0, of |-> at[c]] /\ mine' = [mine EXCEPT ![c] = k]

Store(c) ==
  /\ pc[c] \in {"store", "restore"}
  /\ \/ /\ Stores(c) /\ pc' = [pc EXCEPT ![c] = IF pc[c] = "store" THEN "record" ELSE "mail"]
        /\ UNCHANGED faults
     \/ (Stores(c) \/ UNCHANGED <<code, codeOf, mine>>) /\ Fault
        /\ pc' = [pc EXCEPT ![c] = IF pc[c] = "store" THEN "undo" ELSE "free"]
  /\ UNCHANGED <<rows, cooldown, sends, mailed, at, refused>>

\* record_email_send.
Record(c) ==
  /\ pc[c] = "record"
  /\ \/ sends' = sends + 1 /\ Goes(c, "mail") /\ UNCHANGED faults
     \/ UNCHANGED sends /\ Goes(c, "undo") /\ Fault
  /\ UNCHANGED <<rows, code, cooldown, mailed, history>>

UndoAny(c) ==
  /\ pc[c] = "undo" /\ Goes(c, "free")
  /\ status' = [status EXCEPT ![at[c]] = "void"]
  /\ UNCHANGED <<owner, aged, lock, cache, mailed, history, faults>>

\* The code could not be kept: a new account is deleted before it was committed, an
\* older one stays as it is.
Undo(c) ==
  /\ pc[c] = "undo" /\ Goes(c, "free")
  /\ status' = [status EXCEPT ![at[c]] = IF @ = "inserted" THEN "void" ELSE @]
  /\ UNCHANGED <<owner, aged, lock, cache, mailed, history, faults>>

\* delete_cooldown, which may raise as well.
FreeCooldown(c) ==
  /\ pc[c] = "free" /\ Ends(c)
  /\ \/ cooldown' = FALSE /\ UNCHANGED faults
     \/ UNCHANGED cooldown /\ Fault
  /\ UNCHANGED <<rows, code, sends, mailed, history>>

MailOutside(c) ==
  /\ pc[c] = "mail" /\ Ends(c)
  /\ mailed' = mailed \cup {mine[c]}
  /\ \/ status' = [status EXCEPT ![at[c]] = IF @ = "inserted" THEN "pending" ELSE @] /\ UNCHANGED faults
     \/ status' = [status EXCEPT ![at[c]] = IF @ = "inserted" THEN "void" ELSE @] /\ Fault
  /\ UNCHANGED <<owner, aged, lock, cache, history>>

MailActive(c) ==
  /\ pc[c] = "mail" /\ Ends(c)
  /\ IF status[at[c]] = "deleted"
       THEN UNCHANGED <<status, mailed>>
       ELSE /\ mailed' = mailed \cup {mine[c]}
            /\ status' = [status EXCEPT ![at[c]] = IF @ = "inserted" THEN "active" ELSE @]
  /\ UNCHANGED <<owner, aged, lock, cache, history, faults>>

\* enqueue_email commits the mail together with a new account; the mail of an account
\* that was deleted meanwhile fails on its foreign key.
Mail(c) ==
  /\ pc[c] = "mail" /\ Ends(c)
  /\ IF status[at[c]] = "deleted"
       THEN UNCHANGED <<status, mailed>>
       ELSE /\ mailed' = mailed \cup {mine[c]}
            /\ status' = [status EXCEPT ![at[c]] = IF @ = "inserted" THEN "pending" ELSE @]
  /\ UNCHANGED <<owner, aged, lock, cache, history, faults>>

--------------------------------------------------------------------------------
\* resend_verification reads the account without a lock and reserves the cooldown,
\* then a place in the window.
Resend(c) ==
  /\ ~cooldown /\ cooldown' = TRUE
  /\ \E u \in Pending : Starts(c, "reserve", u)
  /\ UNCHANGED <<rows, code, sends, mailed, history, faults>>

Reserve(c) ==
  /\ pc[c] = "reserve"
  /\ IF sends < HourlyLimit THEN sends' = sends + 1 /\ Goes(c, "restore")
                            ELSE UNCHANGED sends /\ Goes(c, "free")
  /\ UNCHANGED <<rows, code, cooldown, mailed, history, faults>>

\* verify_code, one script: the right code is consumed, a wrong one is counted, and
\* the key goes with the submission after the last attempt.
ExhaustedLate == code.tries > MaxAttempts
Exhausted == code.tries >= MaxAttempts

Accept(c) ==
  /\ pc[c] = "idle" /\ code.is \in mailed /\ ~Exhausted
  /\ code' = Absent
  /\ pc' = [pc EXCEPT ![c] = "activate"] /\ at' = [at EXCEPT ![c] = code.of]
  /\ UNCHANGED mine
  /\ UNCHANGED <<rows, cooldown, sends, mailed, history, faults>>

Reject(c) ==
  /\ pc[c] = "idle" /\ code # Absent
  /\ IF Exhausted THEN code' = Absent /\ UNCHANGED refused
     ELSE /\ code' = [code EXCEPT !.tries = @ + 1]
          /\ refused' = [refused EXCEPT ![code.is] = @ + 1]
  /\ UNCHANGED <<rows, cooldown, sends, mailed, call, codeOf, faults>>

\* The code is gone: an account that is not pending any more ends the request.
Activate(c) ==
  /\ pc[c] = "activate"
  /\ IF status[at[c]] = "pending" THEN Goes(c, "write") ELSE Ends(c)
  /\ UNCHANGED <<rows, cache, mailed, history, faults>>

\* activate_user commits what was read before; a row that was deleted since raises.
\* The session it opens is CreateSession of AccountSessions.
Write(c) ==
  /\ pc[c] = "write" /\ Free(c) /\ Ends(c)
  /\ status' = [status EXCEPT ![at[c]] = IF @ = "deleted" THEN @ ELSE "active"]
  /\ UNCHANGED <<owner, aged, lock, cache, mailed, history, faults>>

\* A sign-in of a provider creates an account that is active from the start.
SignUp ==
  /\ Committed = {} /\ Inserted = {}
  /\ \E u \in Users : status[u] = "unborn" /\ status' = [status EXCEPT ![u] = "active"]
  /\ UNCHANGED <<owner, aged, lock, cache, mailed, call, history, faults>>

--------------------------------------------------------------------------------
\* cleanup_pending_users: DELETE ... WHERE id IN (SELECT ...).  A row that is locked
\* when the statement reaches it is waited for, and its id still matches then.
Collect(c) ==
  /\ \E u \in Pending \cap aged : Starts(c, "delete", u)
  /\ UNCHANGED <<rows, cache, mailed, history, faults>>

Delete(c) ==
  /\ pc[c] = "delete" /\ Free(c) /\ Ends(c)
  /\ status' = [status EXCEPT ![at[c]] = "deleted"]
  /\ UNCHANGED <<owner, aged, lock, cache, mailed, history, faults>>

--------------------------------------------------------------------------------
\* A failed statement, a cancelled request or a dead process: an open transaction is
\* rolled back, the keys in Valkey stay.
Abort(c) ==
  /\ pc[c] # "idle" /\ Fault /\ Ends(c)
  /\ status' = [u \in Users |-> IF u = at[c] /\ status[u] = "inserted" THEN "void" ELSE status[u]]
  /\ lock' = IF lock = c THEN None ELSE lock
  /\ UNCHANGED <<owner, aged, cache, mailed, history>>

Age(u) ==
  /\ u \in Pending \ aged /\ aged' = aged \cup {u}
  /\ UNCHANGED <<status, owner, lock, cache, mailed, call, history, faults>>

\* The keys' time to live, and the passing of the window.
ExpireCode ==
  /\ code # Absent /\ code' = Absent
  /\ UNCHANGED <<rows, cooldown, sends, mailed, call, history, faults>>
ExpireCooldown ==
  /\ cooldown /\ cooldown' = FALSE
  /\ UNCHANGED <<rows, code, sends, mailed, call, history, faults>>
Slide ==
  /\ sends > 0 /\ sends' = sends - 1
  /\ UNCHANGED <<rows, code, cooldown, mailed, call, history, faults>>

Registering(c) ==
  \/ Renew(c) \/ Rehash(c) \/ Register(c) \/ Create(c) \/ Conflict(c) \/ Store(c)
  \/ Record(c) \/ Undo(c) \/ FreeCooldown(c) \/ Mail(c)
Resending(c) == Resend(c) \/ Reserve(c)
Verifying(c) == Accept(c) \/ Reject(c) \/ Activate(c) \/ Write(c)
Deleting(c)  == Collect(c) \/ Delete(c)

Next ==
  \/ \E c \in Calls :
       Registering(c) \/ Resending(c) \/ Verifying(c) \/ Deleting(c) \/ Abort(c)
  \/ \E u \in Users : Age(u)
  \/ SignUp \/ ExpireCode \/ ExpireCooldown \/ Slide

Spec == Init /\ [][Next]_vars

--------------------------------------------------------------------------------
TypeOK ==
  /\ status \in [Users -> {"unborn", "inserted", "pending", "active", "deleted", "void"}]
  /\ owner \in [Users -> Calls \cup {None}] /\ aged \subseteq Users
  /\ lock \in Calls \cup {None}
  /\ code \in [is : Codes \cup {None}, tries : Nat, of : Users \cup {None}]
  /\ cooldown \in BOOLEAN /\ sends \in Nat /\ mailed \subseteq Codes
  /\ pc \in [Calls -> {"idle", "rehash", "create", "store", "record", "undo", "free", "mail",
                        "reserve", "restore", "activate", "write", "delete"}]
  /\ at \in [Calls -> Users \cup {None}] /\ mine \in [Calls -> Codes \cup {None}]
  /\ codeOf \in [Codes -> Users \cup {None}]
  /\ refused \in [Codes -> Nat] /\ faults \in Nat

\* A registration that overlaps the verification of the account it takes over never
\* changes the password of the verified one (auth_router.py, lines 363-424: "row-level
\* lock to prevent TOCTOU race condition").
PasswordSettled ==
  [][\A u \in Users : status[u] = "active" => owner'[u] = owner[u]]_vars

\* A code in the outbox belongs to an account that was committed: no failure between
\* the row, the code and the mail leaves a mail without its account, and a registration
\* that fails takes back what it inserted and nothing older (lines 433-487).
MailedMeansAccount ==
  \A k \in mailed : status[codeOf[k]] \in {"pending", "active", "deleted"}

\* However submissions and resends are interleaved, no code is tried more often than
\* allowed (auth_cache.py, lines 60-75).
AttemptsBounded == \A k \in Codes : refused[k] <= MaxAttempts

================================================================================
