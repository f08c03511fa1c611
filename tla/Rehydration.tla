------------------------------ MODULE Rehydration ------------------------------
(***************************************************************************)
(* Archive rehydration (archive/rehydration.py): POST /query stages the rows *)
(* of some archives in a table of its own, under a session that records how  *)
(* far it came; ArchiveWorker drops the tables of expired sessions.  Every   *)
(* step is a transaction of its own, no update of a session looks at the     *)
(* status it replaces, and both sides update the same rows.                  *)
(***************************************************************************)
EXTENDS Integers, FiniteSets

CONSTANTS Requests,       \* POST /query calls; each names a new staging table
          Keys, KeyOf,    \* request_key: same tenant, owner and archives
          Cleaners,       \* replicas of ArchiveWorker
          MaxConcurrent,  \* max_concurrent_rehydrations
          Parts,          \* bound: archives of one request
          None,
          MaxStalls,      \* bound: sessions that expire under a running request
          MaxFaults       \* bound: errors, timeouts, lost replies, stopped processes

ASSUME RehydrationAssumption ==
  /\ KeyOf \in [Requests -> Keys] /\ None \notin Requests
  /\ MaxConcurrent \in Nat \ {0} /\ Parts \in Nat
  /\ MaxStalls \in Nat /\ MaxFaults \in Nat

VARIABLES
  status,     \* of the session of a request, "none" before its row exists
  live,       \* expires_at > NOW()
  reported,   \* rehydrated_rows, counted in archives
  tables,     \* staging tables that exist
  loaded,     \* archives whose rows are in the table
  want,       \* manifests the request found STORED or VERIFIED
  pc,         \* what a request does next
  todo, cur, step, \* a cleaner's selection, the table it works on, and where
  overtaken,  \* history: sessions that expired while their request still ran
  stalls, faults

session == <<status, live, reported>>
staging == <<tables, loaded>>
request == <<want, pc>>
cleaner == <<todo, cur, step>>
bounds  == <<stalls, faults>>
vars == <<session, staging, request, cleaner, overtaken, bounds>>

Active   == {"REQUESTED", "AUTHORIZED", "DOWNLOADING", "STAGING"}
Finished == {"CLEANUP_PENDING", "DELETED"}   \* or EXPIRED, on the way to the first

\* Inside asyncio.timeout; the clean-up of a failed request runs after it.
Working == {"authorize", "create", "download", "fetch", "insert", "ready"}
Failing == {"fail", "drop", "delete"}

Init ==
  /\ status = [r \in Requests |-> "none"] /\ live = [r \in Requests |-> FALSE]
  /\ reported = [r \in Requests |-> 0]
  /\ tables = {} /\ loaded = [r \in Requests |-> 0]
  /\ want = [r \in Requests |-> 0] /\ pc = [r \in Requests |-> "idle"]
  /\ todo = [c \in Cleaners |-> {}] /\ cur = [c \in Cleaners |-> None]
  /\ step = [c \in Cleaners |-> "idle"]
  /\ overtaken = {} /\ stalls = MaxStalls /\ faults = MaxFaults

Fault == faults > 0 /\ faults' = faults - 1 /\ UNCHANGED stalls
Goto(r, next) == pc' = [pc EXCEPT ![r] = next]

--------------------------------------------------------------------------------
\* _mark_session: an update by table name, without a condition on the status.
Mark(r, s) == status' = [status EXCEPT ![r] = IF @ = "none" THEN @ ELSE s]

MarkOnly(r, s) == Mark(r, s) /\ UNCHANGED <<live, reported, staging>>

\* _drop_staging_table: DROP TABLE IF EXISTS.
DropTable(r) ==
  /\ tables' = tables \ {r} /\ loaded' = [loaded EXCEPT ![r] = 0]
  /\ UNCHANGED session

\* A step of a request goes on, or it raises: with its effect (the reply was lost)
\* or without it (also a timeout or a rejected archive).
Does(r, here, effect, next, failed) ==
  /\ pc[r] = here
  /\ \/ effect /\ Goto(r, next) /\ UNCHANGED bounds
     \/ effect /\ Goto(r, failed) /\ Fault
     \/ UNCHANGED <<session, staging>> /\ Goto(r, failed) /\ Fault
  /\ UNCHANGED <<want, cleaner, overtaken>>

--------------------------------------------------------------------------------
\* rehydrate_archives: admission is one transaction under an advisory lock.
SameKey(r) == {s \in Requests : KeyOf[s] = KeyOf[r] /\ status[s] # "none"}
Existing(r) == {s \in SameKey(r) : status[s] \in Active \cup {"READY"} /\ live[s]}
ActiveSessions == {s \in Requests : status[s] \in Active}

\* An earlier session of the key answers as it stands, also before it is READY.
Join(r) ==
  /\ pc[r] = "idle" /\ Existing(r) # {} /\ Goto(r, "done")
  /\ UNCHANGED <<session, staging, want, cleaner, overtaken, bounds>>

\* 429, 404, or the unique index on the key: its row outlives its session.  The
\* clean-up of a refused request finds neither a row nor a table.
Refused(r, n) ==
  Cardinality(ActiveSessions) >= MaxConcurrent \/ n = 0 \/ SameKey(r) # {}

Refuse(r) ==
  /\ pc[r] = "idle" /\ Existing(r) = {}
  /\ \E n \in 0..Parts : Refused(r, n)
  /\ Goto(r, "done")
  /\ UNCHANGED <<session, staging, want, cleaner, overtaken, bounds>>

Admit(r) ==
  /\ pc[r] = "idle" /\ Existing(r) = {}
  /\ \E n \in 0..Parts : ~Refused(r, n) /\ want' = [want EXCEPT ![r] = n]
  /\ status' = [status EXCEPT ![r] = "REQUESTED"] /\ live' = [live EXCEPT ![r] = TRUE]
  /\ \/ Goto(r, "authorize") /\ UNCHANGED bounds
     \/ Goto(r, "fail") /\ Fault
  /\ UNCHANGED <<reported, staging, cleaner, overtaken>>

Authorize(r) == Does(r, "authorize", MarkOnly(r, "AUTHORIZED"), "create", "fail")

CreateTable(r) ==
  Does(r, "create", tables' = tables \cup {r} /\ UNCHANGED <<loaded, session>>, "download", "fail")

Download(r) == Does(r, "download", MarkOnly(r, "DOWNLOADING"), "fetch", "fail")

\* One archive: read its object and check its size, then mark STAGING.
Fetch(r) == Does(r, "fetch", MarkOnly(r, "STAGING"), "insert", "fail")

\* Its rows, checked for the limit, the tenant and the owner; without the table
\* the insert raises.
Insert(r) ==
  /\ \/ /\ r \in tables
        /\ LET more == [loaded EXCEPT ![r] = @ + 1] IN
           Does(r, "insert", loaded' = more /\ UNCHANGED <<tables, session>>,
                IF more[r] < want[r] THEN "fetch" ELSE "ready", "fail")
     \/ /\ r \notin tables /\ pc[r] = "insert" /\ Goto(r, "fail")
        /\ UNCHANGED <<session, staging, want, cleaner, overtaken, bounds>>

\* READY with a new expiry, whatever became of the session meanwhile.
Ready(r) ==
  Does(r, "ready",
       /\ Mark(r, "READY") /\ live' = [live EXCEPT ![r] = TRUE]
       /\ reported' = [reported EXCEPT ![r] = want[r]] /\ UNCHANGED staging,
       "done", "fail")

DropBeforeMark(r) == Does(r, "fail", DropTable(r), "drop", "done")
RetryInPlace(r) == Does(r, "delete", MarkOnly(r, "DELETED"), "authorize", "done")

\* _cleanup_failed_session: an error leaves the rest to the expiry of the session.
FailMark(r) == Does(r, "fail", MarkOnly(r, "CLEANUP_PENDING"), "drop", "done")
FailDrop(r) == Does(r, "drop", DropTable(r), "delete", "done")
FailDelete(r) == Does(r, "delete", MarkOnly(r, "DELETED"), "done", "done")

\* The process dies, or its shutdown cancels the request.
Die(r) ==
  /\ pc[r] \in Working \cup Failing /\ Goto(r, "done") /\ Fault
  /\ UNCHANGED <<session, staging, want, cleaner, overtaken>>

RequestStep(r) ==
  \/ Join(r) \/ Refuse(r) \/ Admit(r) \/ Authorize(r) \/ CreateTable(r) \/ Download(r)
  \/ Fetch(r) \/ Insert(r) \/ Ready(r) \/ FailMark(r) \/ FailDrop(r) \/ FailDelete(r)

--------------------------------------------------------------------------------
\* staging_ttl_seconds (an hour) is longer than the timeout of a request (five
\* minutes); nothing relates the two settings, and a stall stands for the rest.
Expire(r) ==
  /\ live[r] /\ live' = [live EXCEPT ![r] = FALSE]
  /\ IF pc[r] \in Working
       THEN /\ stalls > 0 /\ stalls' = stalls - 1 /\ UNCHANGED faults
            /\ overtaken' = overtaken \cup {r}
       ELSE UNCHANGED <<overtaken, bounds>>
  /\ UNCHANGED <<status, reported, staging, request, cleaner>>

SelectUnfinished(c) ==
  LET expired == {r \in Requests : status[r] \in Active \cup {"READY"} /\ ~live[r]} IN
  /\ step[c] = "idle" /\ expired # {}
  /\ todo' = [todo EXCEPT ![c] = expired] /\ step' = [step EXCEPT ![c] = "expire"]
  /\ UNCHANGED <<session, staging, request, cur, overtaken, bounds>>

\* cleanup_expired_rehydration_sessions: the selection locks no row for longer
\* than its own transaction.
Select(c) ==
  LET expired == {r \in Requests : status[r] \notin {"none", "DELETED"} /\ ~live[r]} IN
  /\ step[c] = "idle" /\ expired # {}
  /\ todo' = [todo EXCEPT ![c] = expired] /\ step' = [step EXCEPT ![c] = "expire"]
  /\ UNCHANGED <<session, staging, request, cur, overtaken, bounds>>

\* Done with a table, whether it was dropped or an error was logged.
NextTable(c, r) ==
  /\ todo' = [todo EXCEPT ![c] = @ \ {r}] /\ cur' = [cur EXCEPT ![c] = None]
  /\ step' = [step EXCEPT ![c] = IF todo[c] = {r} THEN "idle" ELSE "expire"]

Cleans(c, r, effect, next) ==
  /\ \/ /\ effect /\ UNCHANGED bounds
        /\ IF next = "idle" THEN NextTable(c, r)
           ELSE /\ cur' = [cur EXCEPT ![c] = r] /\ step' = [step EXCEPT ![c] = next]
                /\ UNCHANGED todo
     \/ (effect \/ UNCHANGED <<session, staging>>) /\ NextTable(c, r) /\ Fault
  /\ UNCHANGED <<request, overtaken>>

DeleteBeforeDrop(c) == /\ step[c] = "drop"
                       /\ Cleans(c, cur[c], MarkOnly(cur[c], "DELETED"), "delete")

\* Marked EXPIRED and at once CLEANUP_PENDING; no query tells the two apart.
CleanExpire(c) == /\ step[c] = "expire"
                  /\ \E r \in todo[c] : Cleans(c, r, MarkOnly(r, "CLEANUP_PENDING"), "drop")
CleanDrop(c) == /\ step[c] = "drop" /\ Cleans(c, cur[c], DropTable(cur[c]), "delete")
CleanDelete(c) == /\ step[c] = "delete"
                  /\ Cleans(c, cur[c], MarkOnly(cur[c], "DELETED"), "idle")

CleanerDies(c) ==
  /\ step[c] # "idle" /\ Fault
  /\ todo' = [todo EXCEPT ![c] = {}] /\ cur' = [cur EXCEPT ![c] = None]
  /\ step' = [step EXCEPT ![c] = "idle"]
  /\ UNCHANGED <<session, staging, request, overtaken>>

CleanerStep(c) ==
  Select(c) \/ CleanExpire(c) \/ CleanDrop(c) \/ CleanDelete(c)

Next ==
  \/ \E r \in Requests : RequestStep(r) \/ Die(r) \/ Expire(r)
  \/ \E c \in Cleaners : CleanerStep(c) \/ CleanerDies(c)

Spec == Init /\ [][Next]_vars

\* Some request goes on, time passes, and some worker keeps its interval.
FairSpec ==
  /\ Spec
  /\ WF_vars(\E r \in Requests : RequestStep(r))
  /\ WF_vars(\E r \in Requests : pc[r] \notin Working /\ Expire(r))
  /\ WF_vars(\E c \in Cleaners : CleanerStep(c))

--------------------------------------------------------------------------------
TypeOK ==
  /\ status \in [Requests -> {"none", "READY"} \cup Active \cup Finished]
  /\ live \in [Requests -> BOOLEAN] /\ reported \in [Requests -> Nat]
  /\ tables \subseteq Requests /\ loaded \in [Requests -> Nat]
  /\ want \in [Requests -> Nat]
  /\ pc \in [Requests -> {"idle", "done"} \cup Working \cup Failing]
  /\ todo \in [Cleaners -> SUBSET Requests] /\ cur \in [Cleaners -> Requests \cup {None}]
  /\ step \in [Cleaners -> {"idle", "expire", "drop", "delete"}]
  /\ overtaken \subseteq Requests /\ stalls \in Nat /\ faults \in Nat

\* A READY session has its table, with the rows of every archive it found and as
\* many as it reports: no failed request and no cleaner drops a table before its
\* session says so (lines 83-97, 394-404).
ReadyMeansStaged ==
  \A r \in Requests \ overtaken :
    status[r] = "READY" => r \in tables /\ loaded[r] = want[r] /\ reported[r] = want[r]

\* A staging table is never left behind by a session that is gone: whatever failed,
\* something still knows that the table must be dropped (lines 83-97).
NoOrphanTable ==
  \A r \in Requests \ overtaken : r \in tables => status[r] \notin {"none", "DELETED"}

\* The clean-up of a session is never undone by the request it belongs to: the
\* updates by table name come in an order that lets the last word to the clean-up.
NoResurrection ==
  [][\A r \in Requests \ overtaken :
       status[r] \in Finished => status'[r] \in Finished \/ r \in overtaken']_vars

\* Every session ends deleted and without its table, whatever request, cleaner or
\* process failed on the way, and so frees its place among the concurrent ones.
EventuallyReleased ==
  \A r \in Requests :
    status[r] # "none" ~> (r \in overtaken \/ (status[r] = "DELETED" /\ r \notin tables))

================================================================================
