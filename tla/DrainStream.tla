------------------------------ MODULE DrainStream ------------------------------
(***************************************************************************)
(* The ingest stream consumer: backend/app/workers/drain_worker.py, the     *)
(* ParsedLogBatchManager it persists through and the PostgreSQL acceptance  *)
(* transaction of LogRepository.  A worker process runs three tasks: the    *)
(* XREADGROUP loop ("run"), the XAUTOCLAIM loop ("recover") and the         *)
(* periodic flush of the batch manager ("flush").  Every await that can be  *)
(* interleaved, fail, or be cut by a crash is a step of its own.            *)
(***************************************************************************)
EXTENDS Integers, FiniteSets

CONSTANTS Workers,     \* worker processes (each owns one DrainWorker)
          N,           \* stream entries ever added; entry m is the m-th XADD
          Events,      \* logical events (tenant, owner, event_id)
          EventsOf,    \* the events entry m carries; {} when it cannot be parsed
          Legacy,      \* events in the raw ledger before the outbox existed
          MaxRetries,  \* DrainWorker.max_retries
          Attempts,    \* ParsedLogBatchManager.max_retries
          ReadCount,   \* XREADGROUP count
          ClaimCount,  \* XAUTOCLAIM count
          StreamCap,   \* XADD / XTRIM maxlen (approximate)
          MaxFaults,   \* bound: failed Valkey or PostgreSQL calls in a behaviour
          MaxCrashes,  \* bound: crashes and restarts in a behaviour
          LostReplies  \* whether a call may fail after the server executed it

Messages == 1..N
Roles    == {"run", "recover", "flush"}
Actors   == Workers \X Roles
Loops    == Workers \X {"run", "recover"}
Pcs      == {"idle", "next", "persist", "sink", "activate", "ack", "clear",
             "count", "route", "ackDlq"}

ASSUME DrainAssumption ==
  /\ N \in Nat
  /\ EventsOf \in [Messages -> SUBSET Events]
  /\ Legacy \subseteq Events
  /\ MaxRetries \in Nat \ {0} /\ Attempts \in Nat \ {0}
  /\ ReadCount \in Nat \ {0} /\ ClaimCount \in Nat \ {0} /\ StreamCap \in Nat
  /\ MaxFaults \in Nat /\ MaxCrashes \in Nat /\ LostReplies \in BOOLEAN

VARIABLES
  added, first,       \* entries first..added are in the stream
  lastDelivered,      \* last-delivered-id of the consumer group
  pel,                \* pending entries list
  idle,               \* pending entries idle for recovery_idle_time_ms
  retries,            \* retry:drain:msg:<id> counters in Valkey
  dlq,                \* copies of an entry in the dead-letter stream
  ledger,             \* events claimed in the raw idempotency ledger
  rows,               \* rows of an event in the logs hypertable
  registered,         \* events with a feature_contribution outbox row
  pc, cur, todo,      \* a task's position, its entry, the rest of its delivery
  load, fresh, tries, \* the batch at the sink, its NEWLY_INSERTED, its attempts
  buffer,             \* ParsedLogBatchManager._buffer
  localRetries,       \* DrainWorker._retry_counts
  mode,               \* "up", or "draining", "flushing" inside stop()
  activated,          \* history: times an event was activated downstream
  failures,           \* history: failed deliveries of an entry
  faults, crashes     \* what is left of the bounds

valkey  == <<added, first, lastDelivered, pel, idle, retries, dlq>>
pg      == <<ledger, rows, registered>>
task    == <<pc, cur, todo, load, fresh, tries>>
process == <<task, buffer, localRetries, mode>>
bounds  == <<faults, crashes>>
vars    == <<valkey, pg, process, activated, failures, bounds>>

Init ==
  /\ added = 0 /\ first = 1 /\ lastDelivered = 0
  /\ pel = {} /\ idle = {}
  /\ retries = [m \in Messages |-> 0] /\ dlq = [m \in Messages |-> 0]
  /\ ledger \in SUBSET Legacy
  /\ rows = [e \in Events |-> IF e \in ledger THEN 1 ELSE 0]
  /\ registered = {}
  /\ pc = [a \in Actors |-> "idle"]  /\ cur = [a \in Actors |-> 0]
  /\ todo = [a \in Actors |-> {}]    /\ load = [a \in Actors |-> {}]
  /\ fresh = [a \in Actors |-> {}]   /\ tries = [a \in Actors |-> 0]
  /\ buffer = [w \in Workers |-> {}]
  /\ localRetries = [w \in Workers |-> [m \in Messages |-> 0]]
  /\ mode = [w \in Workers |-> "up"]
  /\ activated = [e \in Events |-> 0] /\ failures = [m \in Messages |-> 0]
  /\ faults = MaxFaults /\ crashes = MaxCrashes

--------------------------------------------------------------------------------
\* The n smallest stream ids of S: the order in which Valkey serves them.
Prefix(S, n) == {m \in S : Cardinality({k \in S : k < m}) < n}

Goto(a, label) == pc' = [pc EXCEPT ![a] = label]

\* One call fails; when executed, only its reply is lost.
CallFails(executed) ==
  /\ faults > 0 /\ faults' = faults - 1
  /\ executed => LostReplies
  /\ UNCHANGED crashes

\* MAXLEN ~ StreamCap keeps at least StreamCap entries of first..last.
TrimTargets(last) ==
  {f \in first..(last + 1) : f = first \/ last - f + 1 >= StreamCap}

\* Ingest (or a telemetry endpoint) accepts a payload: XADD logs:stream.
Ingest ==
  /\ added < N
  /\ added' = added + 1
  /\ first' \in TrimTargets(added + 1)
  /\ UNCHANGED <<lastDelivered, pel, idle, retries, dlq, pg, process, activated,
                 failures, bounds>>

\* The delivery of a pending entry becomes older than recovery_idle_time_ms.
GrowIdle(m) ==
  /\ m \in pel \ idle
  /\ idle' = idle \cup {m}
  /\ UNCHANGED <<added, first, lastDelivered, pel, retries, dlq, pg, process,
                 activated, failures, bounds>>

Undelivered == {m \in Messages : lastDelivered < m /\ first <= m /\ m <= added}

\* What a delivery adds to the pending entries list.
DeliveredWithoutPending(got) == {}
DeliveredPending(got) == got

\* XREADGROUP ">": new entries enter the PEL, and the task's delivery unless
\* the reply is lost.
Read(a) ==
  LET got == Prefix(Undelivered, ReadCount) IN
  /\ a[2] = "run" /\ pc[a] = "idle" /\ mode[a[1]] = "up"
  /\ got # {}
  /\ lastDelivered' \in got /\ \A k \in got : k <= lastDelivered'
  /\ pel' = pel \cup DeliveredPending(got)
  /\ \/ todo' = [todo EXCEPT ![a] = got] /\ Goto(a, "next") /\ UNCHANGED bounds
     \/ CallFails(TRUE) /\ UNCHANGED <<todo, pc>>
  /\ UNCHANGED <<added, first, idle, retries, dlq, pg, cur, load, fresh, tries,
                 buffer, localRetries, mode, activated, failures>>

\* Pending entries XAUTOCLAIM from 0-0 looks for.
ClaimableNone == {m \in pel : m < first}
Claimable == {m \in pel : m < first \/ m \in idle}

\* XAUTOCLAIM: entries trimmed from the stream leave the PEL, idle
\* ones start a new delivery of this consumer.
Claim(a) ==
  LET got == Prefix(Claimable, ClaimCount) IN
  /\ a[2] = "recover" /\ pc[a] = "idle" /\ mode[a[1]] = "up"
  /\ got # {}
  /\ pel' = {m \in pel : m \in got => m >= first}
  /\ idle' = idle \ got
  /\ \/ /\ todo' = [todo EXCEPT ![a] = {m \in got : m >= first}]
        /\ Goto(a, "next") /\ UNCHANGED bounds
     \/ CallFails(TRUE) /\ UNCHANGED <<todo, pc>>
  /\ UNCHANGED <<added, first, lastDelivered, retries, dlq, pg, cur, load, fresh,
                 tries, buffer, localRetries, mode, activated, failures>>

\* _process_stream_message begins: decode, validate the envelope, parse.  An
\* entry that yields no event goes to the failure path.
Begin(a) ==
  /\ a \in Loops /\ pc[a] = "next"
  /\ \E m \in todo[a] :
       /\ \A k \in todo[a] : m <= k
       /\ cur' = [cur EXCEPT ![a] = m]
       /\ todo' = [todo EXCEPT ![a] = @ \ {m}]
       /\ load' = [load EXCEPT ![a] = EventsOf[m]]
       /\ IF EventsOf[m] = {}
            THEN Goto(a, "count") /\ failures' = [failures EXCEPT ![m] = @ + 1]
            ELSE Goto(a, "persist") /\ UNCHANGED failures
  /\ UNCHANGED <<valkey, pg, fresh, tries, buffer, localRetries, mode,
                 activated, bounds>>

\* The delivery is done; the run loop then trims the stream.
Finish(a) ==
  /\ a \in Loops /\ pc[a] = "next" /\ todo[a] = {}
  /\ Goto(a, "idle")
  /\ cur' = [cur EXCEPT ![a] = 0]
  /\ IF a[2] = "run" THEN first' \in TrimTargets(added) ELSE first' = first
  /\ UNCHANGED <<added, lastDelivered, pel, idle, retries, dlq, pg, todo, load,
                 fresh, tries, buffer, localRetries, mode, activated,
                 failures, bounds>>

--------------------------------------------------------------------------------
\* LogRepository._bulk_insert_parsed_logs, one PostgreSQL transaction: only the
\* events the ledger newly claims are copied to logs; every event, a replay
\* included, is registered downstream.
AcceptedAgain(E) == E
NewlyAccepted(E) == E \ ledger

RegistrationsOfNew(E) == E \ ledger
RegistrationsLater(E) == {}
Registrations(E) == E

Accept(E) ==
  /\ ledger' = ledger \cup E
  /\ rows' = [e \in Events |-> IF e \in NewlyAccepted(E) THEN rows[e] + 1 ELSE rows[e]]
  /\ registered' = registered \cup Registrations(E)

\* _flush_lock is held exactly while a task of the process is at the sink.
LockFree(w) == \A r \in Roles : pc[<<w, r>>] # "sink"

\* persist_batch enters _persist_batch_locked.
Persist(a) ==
  /\ a \in Loops /\ pc[a] = "persist" /\ LockFree(a[1])
  /\ Goto(a, "sink") /\ tries' = [tries EXCEPT ![a] = 0]
  /\ UNCHANGED <<valkey, pg, cur, todo, load, fresh, buffer, localRetries, mode,
                 activated, failures, bounds>>

\* flush(), from the periodic loop or from shutdown_flush, drains the buffer.
Flush(a) ==
  LET w == a[1] IN
  /\ a[2] = "flush" /\ pc[a] = "idle" /\ buffer[w] # {} /\ LockFree(w)
  /\ mode[w] \in {"up", "draining"}
  /\ mode' = [mode EXCEPT ![w] = IF @ = "up" THEN "up" ELSE "flushing"]
  /\ load' = [load EXCEPT ![a] = buffer[w]]
  /\ buffer' = [buffer EXCEPT ![w] = {}]
  /\ Goto(a, "sink") /\ tries' = [tries EXCEPT ![a] = 0]
  /\ UNCHANGED <<valkey, pg, cur, todo, fresh, localRetries, activated, failures,
                 bounds>>

\* The events process_one activates after a commit: its NEWLY_INSERTED results.
ToActivateAll(E) == E
ToActivate(E) == E \ ledger

\* A sink attempt commits: the run and recovery loops get per-event results,
\* a flush ignores them.
SinkCommit(a) ==
  /\ pc[a] = "sink"
  /\ Accept(load[a])
  /\ load' = [load EXCEPT ![a] = {}]
  /\ IF a \in Loops
       THEN Goto(a, "activate") /\ fresh' = [fresh EXCEPT ![a] = ToActivate(load[a])]
       ELSE Goto(a, "idle") /\ UNCHANGED fresh
  /\ UNCHANGED <<valkey, cur, todo, tries, buffer, localRetries, mode, activated,
                 failures, bounds>>

\* persist_batch returned (False, None): _persist_stream_batch raises.
FailedBatchAcked == "ack"
FailedBatchPc == "count"

\* After the last failed attempt the batch is restored into the buffer; a stream
\* delivery then takes the failure path.
AfterFailedBatch(a) ==
  /\ buffer' = [buffer EXCEPT ![a[1]] = @ \cup load[a]]
  /\ load' = [load EXCEPT ![a] = {}]
  /\ IF a \in Loops
       THEN Goto(a, FailedBatchPc) /\ failures' = [failures EXCEPT ![cur[a]] = @ + 1]
       ELSE Goto(a, "idle") /\ UNCHANGED failures

SinkFail(a) ==
  /\ pc[a] = "sink"
  /\ \E committed \in BOOLEAN :
       /\ CallFails(committed)
       /\ IF committed THEN Accept(load[a]) ELSE UNCHANGED pg
  /\ tries' = [tries EXCEPT ![a] = @ + 1]
  /\ IF tries[a] + 1 < Attempts
       THEN UNCHANGED <<buffer, load, pc, failures>>
       ELSE AfterFailedBatch(a)
  /\ UNCHANGED <<valkey, cur, todo, fresh, localRetries, mode, activated>>

\* _activate_parsed_log for every NEWLY_INSERTED event: recent logs, telemetry,
\* the on_log_parsed and trace callbacks; no await suspends between them.
Activate(a) ==
  /\ pc[a] = "activate"
  /\ activated' = [e \in Events |->
                     IF e \in fresh[a] THEN activated[e] + 1 ELSE activated[e]]
  /\ fresh' = [fresh EXCEPT ![a] = {}]
  /\ Goto(a, "ack")
  /\ UNCHANGED <<valkey, pg, cur, todo, load, tries, buffer, localRetries, mode,
                 failures, bounds>>

\* XACK, after success or after the dead-letter copy.  A failed call leaves a
\* RETRYABLE_FAILURE and the loop goes on to its next entry.
Ack(a) ==
  /\ pc[a] \in {"ack", "ackDlq"}
  /\ \/ /\ pel' = pel \ {cur[a]} /\ idle' = idle \ {cur[a]}
        /\ Goto(a, "clear") /\ UNCHANGED bounds
     \/ \E executed \in BOOLEAN :
          /\ CallFails(executed)
          /\ pel' = IF executed THEN pel \ {cur[a]} ELSE pel
          /\ idle' = IF executed THEN idle \ {cur[a]} ELSE idle
          /\ Goto(a, "next")
  /\ UNCHANGED <<added, first, lastDelivered, retries, dlq, pg, cur, todo, load,
                 fresh, tries, buffer, localRetries, mode, activated, failures>>

\* _clear_retry_count: the Valkey counter, best effort, and the local fallback.
Clear(a) ==
  /\ pc[a] = "clear"
  /\ \/ retries' = [retries EXCEPT ![cur[a]] = 0] /\ UNCHANGED bounds
     \/ CallFails(FALSE) /\ UNCHANGED retries
  /\ localRetries' = [localRetries EXCEPT ![a[1]][cur[a]] = 0]
  /\ Goto(a, "next")
  /\ UNCHANGED <<added, first, lastDelivered, pel, idle, dlq, pg, cur, todo, load,
                 fresh, tries, buffer, mode, activated, failures>>

\* Below the threshold the delivery stays pending, at it the entry is routed.
ThresholdEarly(n) == n + 1 >= MaxRetries
Threshold(n) == n >= MaxRetries

\* _increment_retry_count: INCR in Valkey, the process's own counter when that
\* call fails (or the EXPIRE after it).
Count(a) ==
  LET m == cur[a]
      w == a[1]
      After(n) == Goto(a, IF Threshold(n) THEN "route" ELSE "next")
  IN
  /\ pc[a] = "count"
  /\ \/ /\ retries' = [retries EXCEPT ![m] = @ + 1]
        /\ After(retries[m] + 1)
        /\ UNCHANGED <<localRetries, bounds>>
     \/ \E executed \in BOOLEAN :
          /\ CallFails(executed)
          /\ retries' = IF executed THEN [retries EXCEPT ![m] = @ + 1] ELSE retries
          /\ localRetries' = [localRetries EXCEPT ![w][m] = @ + 1]
          /\ After(localRetries[w][m] + 1)
  /\ UNCHANGED <<added, first, lastDelivered, pel, idle, dlq, pg, cur, todo, load,
                 fresh, tries, buffer, mode, activated, failures>>

\* _forward_to_dlq returned None: the entry stays pending.
FailedRoutePc == "next"

\* _forward_to_dlq: a failed XADD (or EXPIRE) leaves the entry pending.
Route(a) ==
  /\ pc[a] = "route"
  /\ \/ /\ dlq' = [dlq EXCEPT ![cur[a]] = @ + 1]
        /\ Goto(a, "ackDlq") /\ UNCHANGED bounds
     \/ \E executed \in BOOLEAN :
          /\ CallFails(executed)
          /\ dlq' = IF executed THEN [dlq EXCEPT ![cur[a]] = @ + 1] ELSE dlq
          /\ Goto(a, FailedRoutePc)
  /\ UNCHANGED <<added, first, lastDelivered, pel, idle, retries, pg, cur, todo,
                 load, fresh, tries, buffer, localRetries, mode, activated,
                 failures>>

--------------------------------------------------------------------------------
Restart(w, roles, held) ==
  /\ pc' = [a \in Actors |-> IF a[1] = w /\ a[2] \in roles THEN "idle" ELSE pc[a]]
  /\ cur' = [a \in Actors |-> IF a[1] = w /\ a[2] \in roles THEN 0 ELSE cur[a]]
  /\ todo' = [a \in Actors |-> IF a[1] = w /\ a[2] \in roles THEN {} ELSE todo[a]]
  /\ load' = [a \in Actors |-> IF a[1] = w /\ a[2] \in roles THEN {} ELSE load[a]]
  /\ fresh' = [a \in Actors |-> IF a[1] = w /\ a[2] \in roles THEN {} ELSE fresh[a]]
  /\ buffer' = [buffer EXCEPT ![w] = held]
  /\ UNCHANGED <<valkey, pg, tries, activated, failures, faults>>

\* The process dies and its supervisor starts a new one: its memory is gone.
Crash(w) ==
  /\ crashes > 0 /\ crashes' = crashes - 1
  /\ Restart(w, Roles, {})
  /\ localRetries' = [localRetries EXCEPT ![w] = [m \in Messages |-> 0]]
  /\ mode' = [mode EXCEPT ![w] = "up"]

\* stop(): both loops are cancelled at their await; a sink call that is cut puts
\* its batch back into the buffer, unless it was waiting between two attempts.
Stop(w) ==
  LET cut == UNION {load[a] : a \in {b \in Loops : b[1] = w /\ pc[b] = "sink"}} IN
  /\ crashes > 0 /\ crashes' = crashes - 1
  /\ mode[w] = "up" /\ mode' = [mode EXCEPT ![w] = "draining"]
  /\ \E restored \in {{}, cut} : Restart(w, {"run", "recover"}, buffer[w] \cup restored)
  /\ UNCHANGED localRetries

\* shutdown_flush has run: the process ends, with what its buffer still holds.
Exit(w) ==
  /\ pc[<<w, "flush">>] = "idle"
  /\ mode[w] = "flushing" \/ (mode[w] = "draining" /\ buffer[w] = {})
  /\ mode' = [mode EXCEPT ![w] = "up"]
  /\ Restart(w, {}, {})
  /\ localRetries' = [localRetries EXCEPT ![w] = [m \in Messages |-> 0]]
  /\ UNCHANGED crashes

Step(a) ==
  \/ Read(a) \/ Claim(a) \/ Begin(a) \/ Finish(a)
  \/ Persist(a) \/ Flush(a) \/ SinkCommit(a) \/ SinkFail(a) \/ Activate(a)
  \/ Ack(a) \/ Clear(a) \/ Count(a) \/ Route(a)

Next ==
  \/ Ingest
  \/ \E m \in Messages : GrowIdle(m)
  \/ \E a \in Actors : Step(a)
  \/ \E w \in Workers : Crash(w) \/ Stop(w) \/ Exit(w)

\* Tasks of a live process are scheduled, idle time passes, stop() returns.
Fairness ==
  /\ \A m \in Messages : WF_vars(GrowIdle(m))
  /\ \A a \in Actors : WF_vars(Step(a))
  /\ \A w \in Workers : WF_vars(Exit(w))

Spec == Init /\ [][Next]_vars
FairSpec == Spec /\ Fairness

--------------------------------------------------------------------------------
\* How the consumer's state appears to a client of the stream.
Status(m) == IF m > added THEN "absent"
             ELSE IF m \in pel THEN "pending"
             ELSE IF m > lastDelivered THEN "queued" ELSE "released"

Contract == INSTANCE StreamDelivery WITH
  Entries <- Messages,
  status <- [m \in Messages |-> Status(m)],
  safe <- ledger \cap registered,
  quarantined <- {m \in Messages : dlq[m] > 0},
  evicted <- {m \in Messages : m < first}

ValkeyType ==
  /\ added \in 0..N /\ first \in 1..(N + 1) /\ lastDelivered \in 0..N
  /\ pel \subseteq Messages /\ idle \subseteq pel
  /\ retries \in [Messages -> Nat] /\ dlq \in [Messages -> Nat]

PgType ==
  /\ ledger \subseteq Events /\ registered \subseteq Events
  /\ rows \in [Events -> Nat]

TaskType ==
  /\ pc \in [Actors -> Pcs] /\ cur \in [Actors -> 0..N]
  /\ todo \in [Actors -> SUBSET Messages] /\ load \in [Actors -> SUBSET Events]
  /\ fresh \in [Actors -> SUBSET Events] /\ tries \in [Actors -> Nat]

MemoryType ==
  /\ buffer \in [Workers -> SUBSET Events]
  /\ localRetries \in [Workers -> [Messages -> Nat]]
  /\ mode \in [Workers -> {"up", "draining", "flushing"}]

HistoryType ==
  /\ activated \in [Events -> Nat] /\ failures \in [Messages -> Nat]
  /\ faults \in 0..MaxFaults /\ crashes \in 0..MaxCrashes

\* The shape of the state: every counter a number, every set within its domain.
TypeOK == ValkeyType /\ PgType /\ TaskType /\ MemoryType /\ HistoryType

\* Everything an entry carries is in the raw ledger and registered downstream.
Durable(m) == EventsOf[m] # {} /\ EventsOf[m] \subseteq ledger \cap registered

\* StreamMessageOutcome: a delivered entry leaves the pending list only when all
\* its events are committed and registered, or a dead-letter copy exists, or the
\* length cap trimmed it; whatever the two loops, crashes and lost replies do.
NoSilentAck ==
  \A m \in 1..lastDelivered :
    m \notin pel => Durable(m) \/ dlq[m] > 0 \/ m < first

\* However often an event is redelivered, flushed from the buffer or shared by
\* entries, its raw row is written exactly once.
RawRowOnce == \A e \in Events : rows[e] = IF e \in ledger THEN 1 ELSE 0

\* Downstream callbacks run at most once for an event and only after its commit
\* (process_one activates NEWLY_INSERTED results only).
ActivatedAtMostOnce ==
  \A e \in Events : activated[e] <= 1 /\ (activated[e] = 1 => e \in ledger)

\* An entry is quarantined only after max_retries failed deliveries, although its
\* failures are counted by two loops in Valkey or, as a fallback, in memory.
QuarantineNeedsFailures == \A m \in Messages : dlq[m] > 0 => failures[m] >= MaxRetries

\* Losing a process loses no event: what its batch buffer or a sink call holds is
\* also committed, or still pending, or dead-lettered, or was trimmed.
MemoryNeverSoleCopy ==
  \A w \in Workers :
    \A e \in buffer[w] \cup UNION {load[<<w, r>>] : r \in Roles} :
      \/ e \in ledger
      \/ \E m \in Messages : e \in EventsOf[m] /\ (m \in pel \/ dlq[m] > 0 \/ m < first)

\* What the position of a task says about its entry and its batch.
TaskAt(a) ==
  /\ a \notin Loops => pc[a] \in {"idle", "sink"}
  /\ todo[a] \subseteq 1..lastDelivered /\ cur[a] <= lastDelivered
  /\ a \in Loops /\ pc[a] \notin {"idle", "next"} => cur[a] >= 1
  /\ a \in Loops /\ pc[a] \in {"persist", "sink"} =>
       load[a] = EventsOf[cur[a]] /\ load[a] # {}
  /\ pc[a] \in {"activate", "ack"} => Durable(cur[a])
  /\ pc[a] = "ackDlq" => dlq[cur[a]] > 0

TaskInv == \A a \in Actors : TaskAt(a)

\* Only accepted entries are delivered, and only delivered ones are pending.
DeliveryInv == lastDelivered <= added /\ pel \subseteq 1..lastDelivered

\* What the process holds in memory came from delivered entries.
MemoryInv ==
  /\ \A a \in Actors : \A e \in load[a] : \E m \in 1..lastDelivered : e \in EventsOf[m]
  /\ \A w \in Workers : \A e \in buffer[w] : \E m \in 1..lastDelivered : e \in EventsOf[m]

\* Tasks that have seen a delivery of the entry fail and have not counted it yet.
Counting(m) == {a \in Actors : pc[a] = "count" /\ cur[a] = m}

\* No counter of an entry runs ahead of its failures, those to be counted included,
\* so a task routes it, and a copy exists, only after enough of them.
Counted(m) ==
  /\ IsFiniteSet(Counting(m))
  /\ retries[m] + Cardinality(Counting(m)) <= failures[m]
  /\ \A w \in Workers : localRetries[w][m] + Cardinality(Counting(m)) <= failures[m]
  /\ \A a \in Actors : pc[a] = "route" /\ cur[a] = m => failures[m] >= MaxRetries
  /\ dlq[m] > 0 => failures[m] >= MaxRetries

CountInv == \A m \in Messages : Counted(m)

\* An event waiting to be activated is committed, and waits in one task only.
ActivationInv ==
  \A e \in Events :
    /\ activated[e] \in {0, 1} /\ (activated[e] = 1 => e \in ledger)
    /\ \A a \in Actors : e \in fresh[a] =>
         /\ e \in ledger /\ activated[e] = 0
         /\ \A b \in Actors : e \in fresh[b] => b = a

AckInv == TypeOK /\ TaskInv /\ DeliveryInv /\ NoSilentAck

\* The recovery loop and the read loop between them finish every pending entry.
EventuallySettled == \A m \in Messages : m \in pel ~> m \notin pel

\* An accepted entry is eventually committed, dead-lettered, or trimmed by the cap.
EventuallyAccounted ==
  \A m \in Messages : m <= added ~> Durable(m) \/ dlq[m] > 0 \/ m < first

\* The consumer keeps the contract of the ingest stream: at-least-once delivery,
\* and no release without commit, quarantine or eviction.
KeepsContract == Contract!Spec

\* ParsedLogBatchManager.persist_batch, "avoiding a second time-based flush race":
\* while no process stops, an event whose raw row was written has reached the
\* downstream callbacks or is on its way.
NewRowsActivated ==
  crashes = MaxCrashes =>
    \A e \in ledger : \/ e \in Legacy \/ activated[e] = 1
                      \/ \E a \in Actors : e \in fresh[a]
================================================================================
