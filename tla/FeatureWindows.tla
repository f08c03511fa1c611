----------------------------- MODULE FeatureWindows -----------------------------
(***************************************************************************)
(* FeatureExtractionWorker (workers/feature_worker.py) with its sliding      *)
(* window extractor (ml/feature_extractor.py), for the logs of one owner.    *)
(* A log enters memory up to three times: by the callback of the stream      *)
(* consumer, by its durable contribution, and by reconciliation with the     *)
(* durable inputs.  A closed window is registered in the outbox before the   *)
(* cursor passes it, and then persisted with its incident.  The stream's     *)
(* consumer and the outbox are DrainStream and OutboxQueue.                  *)
(***************************************************************************)
EXTENDS Integers, FiniteSets, Functions

CONSTANTS Events,      \* parsed logs
          Time,        \* their timestamps
          Errors,      \* logs whose windows the detector calls anomalous
          Window, Stride, MinLogs, \* WindowConfig
          MinHorizon,  \* the 60 seconds of _reconcile_recent_feature_inputs
          None, Unset, \* no log; no cursor, less than any time
          MaxTime, MaxFaults, MaxCrashes  \* bounds: clock, failures, crashes

ASSUME FeatureAssumption ==
  /\ Window \in Nat \ {0} /\ Stride \in Nat \ {0} /\ MinLogs \in Nat \ {0}
  /\ MinHorizon \in Nat /\ MaxTime \in Nat /\ MaxFaults \in Nat /\ MaxCrashes \in Nat
  /\ Time \in [Events -> Nat] /\ Errors \subseteq Events /\ None \notin Events
  /\ Unset \in Int /\ Unset < 0

\* A window is named by its start.
Starts == {s \in 0..MaxTime : s + Window <= MaxTime}
Nothing == [e \in Events |-> 0]
Horizon == CHOOSE h \in {3 * Window, 4 * Stride, MinHorizon} :
             h >= 3 * Window /\ h >= 4 * Stride /\ h >= MinHorizon

VARIABLES
  now,
  contribution,  \* outbox row of a log's contribution
  inputs,        \* pipeline_feature_inputs
  status, logs,  \* outbox row of a window: status, and how often its payload counts
                 \* a log (also after completion has cleared the payload)
  features,      \* feature_windows row, Nothing before it exists
  incidents,     \* windows with an incident and its accepted alert
  memory,        \* the extractor: buffer, dedup ids, first log, cursor
  callbacks,     \* accepted logs whose callback has not run
  pc,            \* what the worker awaits: "idle", "register", "handle"
  peeked,        \* closed windows and the cursor behind them
  job,           \* the claimed window
  consumed,      \* history: windows with logs the cursor has passed
  faults, crashes

tables == <<contribution, inputs, status, logs, features, incidents>>
process == <<memory, callbacks, pc, peeked, job>>
bounds == <<faults, crashes>>
vars == <<now, tables, process, consumed, bounds>>

NoMemory == [count |-> Nothing, ids |-> {}, first |-> None, cursor |-> Unset]
NoPeek == [windows |-> [s \in Starts |-> Nothing], next |-> 0]

Init ==
  /\ now = 0
  /\ contribution = [e \in Events |-> "none"] /\ inputs = {}
  /\ status = [s \in Starts |-> "none"] /\ logs = [s \in Starts |-> Nothing]
  /\ features = [s \in Starts |-> Nothing] /\ incidents = {}
  /\ memory = NoMemory /\ callbacks = {} /\ pc = "idle" /\ peeked = NoPeek /\ job = 0
  /\ consumed = {}
  /\ faults = MaxFaults /\ crashes = MaxCrashes

Fault == faults > 0 /\ faults' = faults - 1 /\ UNCHANGED crashes

--------------------------------------------------------------------------------
\* The extractor.

\* add_log takes neither a log it holds nor one the cursor has passed.
NewWithoutDedup(m, rows) == {e \in rows : Time[e] >= m.cursor}
New(m, rows) == {e \in rows : e \notin m.ids /\ Time[e] >= m.cursor}

\* add_log for each row, in the order of the timestamps.
AddLogs(m, rows) ==
  LET new == New(m, rows)
      earliest == CHOOSE e \in new : \A f \in new : Time[e] <= Time[f]
  IN [count  |-> [e \in Events |-> m.count[e] + (IF e \in new THEN 1 ELSE 0)],
      ids    |-> m.ids \cup new,
      first  |-> IF m.first = None /\ new # {} THEN earliest ELSE m.first,
      cursor |-> m.cursor]

\* Where the next window starts: at the cursor, or where the first log is aligned to.
Start(m) == IF m.cursor # Unset THEN m.cursor ELSE (Time[m.first] \div Window) * Window

Closed(m) == {s \in Starts : /\ s >= Start(m) /\ (s - Start(m)) % Stride = 0
                             /\ s + Window <= now}

LogsOf(m, s) ==
  [e \in Events |-> IF s <= Time[e] /\ Time[e] < s + Window THEN m.count[e] ELSE 0]

\* peek_pending_windows
Peek(m) ==
  [windows |-> [s \in Starts |->
     IF s \in Closed(m) /\ SumFunction(LogsOf(m, s)) >= MinLogs
       THEN LogsOf(m, s) ELSE Nothing],
   next |-> Start(m) + Stride * Cardinality(Closed(m))]

IdsKept(m, next) == {e \in m.ids : Time[e] >= next}

\* commit_pending_windows; the first log matters only while there is no cursor.
Commit(m, next) ==
  [count  |-> [e \in Events |-> IF Time[e] >= next THEN m.count[e] ELSE 0],
   ids    |-> IdsKept(m, next), first |-> None, cursor |-> next]

--------------------------------------------------------------------------------
Tick ==
  /\ now < MaxTime /\ now' = now + 1
  /\ UNCHANGED <<tables, process, consumed, bounds>>

\* PostgreSQL accepts a log and its contribution; the stream consumer will call back.
Accept(e) ==
  /\ contribution[e] = "none" /\ Time[e] <= now
  /\ contribution' = [contribution EXCEPT ![e] = "waiting"]
  /\ callbacks' = callbacks \cup {e}
  /\ UNCHANGED <<now, inputs, status, logs, features, incidents, memory, pc, peeked, job,
                 consumed, bounds>>

\* on_log_parsed, in the task of the stream consumer, whatever the worker awaits.
Callback(e) ==
  /\ e \in callbacks /\ callbacks' = callbacks \ {e}
  /\ memory' = AddLogs(memory, {e})
  /\ UNCHANGED <<now, tables, pc, peeked, job, consumed, bounds>>

\* _handle_feature_contribution.  Rolled back, its log stays in memory.
Contribute(e) ==
  /\ pc = "idle" /\ contribution[e] = "waiting"
  /\ contribution' = [contribution EXCEPT ![e] = "completed"]
  /\ inputs' = inputs \cup {e}
  /\ memory' = AddLogs(memory, {e})
  /\ UNCHANGED <<now, status, logs, features, incidents, callbacks, pc, peeked, job,
                 consumed, bounds>>

ContributeFails(e) ==
  /\ pc = "idle" /\ contribution[e] = "waiting" /\ Fault
  /\ memory' = AddLogs(memory, {e})
  /\ UNCHANGED <<now, tables, callbacks, pc, peeked, job, consumed>>

--------------------------------------------------------------------------------
\* extract_pending_features: reconcile with the inputs of the horizon, prune the
\* others, peek.  It does not wait for all contributions: a turn handles 100.

InHorizon == {e \in inputs : Time[e] >= now - Horizon}
Pruned == InHorizon

Extract ==
  LET m == AddLogs(memory, InHorizon) IN
  /\ pc = "idle"
  /\ inputs' = Pruned
  /\ \/ /\ m.ids = {} /\ memory' = m /\ UNCHANGED <<pc, peeked>>
     \/ /\ m.ids # {} /\ Peek(m).windows = NoPeek.windows
        /\ memory' = Commit(m, Peek(m).next) /\ UNCHANGED <<pc, peeked>>
     \/ /\ m.ids # {} /\ Peek(m).windows # NoPeek.windows
        /\ memory' = m /\ peeked' = Peek(m) /\ pc' = "register"
  /\ UNCHANGED <<now, contribution, status, logs, features, incidents, callbacks, job,
                 consumed, bounds>>

\* The reply to the DELETE is lost: pruned, but nothing is added.
ExtractFails ==
  /\ pc = "idle" /\ Fault
  /\ inputs' = Pruned
  /\ UNCHANGED <<now, contribution, status, logs, features, incidents, process, consumed>>

RefreshableAlways == {"none", "waiting", "processing", "completed", "failed"}
Refreshable == {"none", "waiting"}

\* register_feature_work: one transaction; a row that waits takes the new payload.
RegisterWork ==
  LET new == {s \in Starts : peeked.windows[s] # Nothing} IN
  /\ status' = [s \in Starts |->
       IF s \in new /\ status[s] = "none" THEN "waiting" ELSE status[s]]
  /\ logs' = [s \in Starts |->
       IF s \in new /\ status[s] \in Refreshable THEN peeked.windows[s] ELSE logs[s]]

ConsumePeeked ==
  /\ memory' = Commit(memory, peeked.next)
  /\ consumed' = consumed \cup {s \in Starts : peeked.windows[s] # Nothing}

AfterFailedRegisterConsumed == ConsumePeeked
AfterFailedRegister == UNCHANGED <<memory, consumed>>

Register ==
  /\ pc = "register" /\ RegisterWork /\ ConsumePeeked
  /\ pc' = "idle" /\ peeked' = NoPeek
  /\ UNCHANGED <<now, contribution, inputs, features, incidents, callbacks, job, bounds>>

\* The registration raises, committed or not: the cursor stays.
RegisterFails ==
  /\ pc = "register" /\ Fault
  /\ RegisterWork \/ UNCHANGED <<status, logs>>
  /\ AfterFailedRegister
  /\ pc' = "idle" /\ peeked' = NoPeek
  /\ UNCHANGED <<now, contribution, inputs, features, incidents, callbacks, job>>

--------------------------------------------------------------------------------
\* process_durable_work on the topic feature_window.  Only one task claims, so that
\* a row in processing is one whose claim was lost or whose process died.
ClaimableWaiting == {"waiting"}
Claimable == {"waiting", "processing"}

ClaimRow(s) ==
  /\ pc = "idle" /\ status[s] \in Claimable
  /\ status' = [status EXCEPT ![s] = "processing"]

Claim(s) ==
  /\ ClaimRow(s) /\ pc' = "handle" /\ job' = s
  /\ UNCHANGED <<now, contribution, inputs, logs, features, incidents, memory, callbacks,
                 peeked, consumed, bounds>>

ClaimFails(s) ==
  /\ ClaimRow(s) /\ Fault
  /\ UNCHANGED <<now, contribution, inputs, logs, features, incidents, process, consumed>>

Anomalous(payload) == \E e \in Errors : payload[e] > 0

\* _handle_feature_window: the feature row, the incident and its alert, and the
\* completion of the work in one transaction.
Handle ==
  /\ pc = "handle" /\ pc' = "idle"
  /\ features' = [features EXCEPT ![job] = IF @ = Nothing THEN logs[job] ELSE @]
  /\ incidents' = IF Anomalous(logs[job]) THEN incidents \cup {job} ELSE incidents
  /\ status' = [status EXCEPT ![job] = "completed"]
  /\ UNCHANGED <<now, contribution, inputs, logs, memory, callbacks, peeked, job,
                 consumed, bounds>>

\* Rolled back: retried, or failed for good; OutboxQueue counts the attempts.
HandleFails ==
  /\ pc = "handle" /\ pc' = "idle" /\ Fault
  /\ \E s \in {"waiting", "failed"} : status' = [status EXCEPT ![job] = s]
  /\ UNCHANGED <<now, contribution, inputs, logs, features, incidents, memory, callbacks,
                 peeked, job, consumed>>

\* stop() only cancels: like a crash, it leaves the tables.
Crash ==
  /\ crashes > 0 /\ crashes' = crashes - 1
  /\ memory' = NoMemory /\ callbacks' = {} /\ pc' = "idle" /\ peeked' = NoPeek
  /\ UNCHANGED <<now, tables, job, consumed, faults>>

Next ==
  \/ Tick \/ Extract \/ ExtractFails \/ Register \/ RegisterFails
  \/ Handle \/ HandleFails \/ Crash
  \/ \E e \in Events : Accept(e) \/ Callback(e) \/ Contribute(e) \/ ContributeFails(e)
  \/ \E s \in Starts : Claim(s) \/ ClaimFails(s)

\* The worker's task goes on, and turns to its queue again and again.
Fairness ==
  /\ WF_vars(Register) /\ WF_vars(Handle)
  /\ SF_vars(\E s \in Starts : Claim(s))

Spec == Init /\ [][Next]_vars
FairSpec == Spec /\ Fairness

--------------------------------------------------------------------------------
Counts == [Events -> Nat]

\* The shape of tables, memory and the worker's position; the dedup ids are those
\* of the logs in the buffer.
TypeOK ==
  /\ now \in 0..MaxTime
  /\ contribution \in [Events -> {"none", "waiting", "completed"}] /\ inputs \subseteq Events
  /\ status \in [Starts -> {"none", "waiting", "processing", "completed", "failed"}]
  /\ logs \in [Starts -> Counts] /\ features \in [Starts -> Counts]
  /\ incidents \subseteq Starts
  /\ memory \in [count : Counts, ids : SUBSET Events, first : Events \cup {None}, cursor : Int]
  /\ \A e \in Events : e \in memory.ids <=> memory.count[e] > 0
  /\ callbacks \subseteq Events /\ pc \in {"idle", "register", "handle"}
  /\ peeked \in [windows : [Starts -> Counts], next : Int]
  /\ job \in 0..MaxTime /\ consumed \subseteq Starts
  /\ faults \in 0..MaxFaults /\ crashes \in 0..MaxCrashes

\* A window is not consumed until its work is registered, whatever fails.
RegisteredBeforeConsumed == \A s \in consumed : status[s] # "none"

\* However often a log reaches memory, no window counts it twice.
NoDoubleCount == \A s \in Starts, e \in Events : logs[s][e] <= 1

\* Completed work is a persisted window with the logs registered for it, and the
\* window has an incident exactly if the detector called it anomalous.
CompletedMeansPersisted ==
  \A s \in Starts : status[s] = "completed" =>
    features[s] = logs[s] /\ (s \in incidents <=> Anomalous(logs[s]))

\* A completed contribution can be recovered from the inputs while it is in the
\* horizon that reconciliation reads.
InputsRecoverable ==
  \A e \in Events : contribution[e] = "completed" => e \in inputs \/ Time[e] < now - Horizon

\* Registered work is persisted or fails for good.
EventuallyPersisted ==
  \A s \in Starts : status[s] = "waiting" ~> status[s] \in {"completed", "failed"}

================================================================================
