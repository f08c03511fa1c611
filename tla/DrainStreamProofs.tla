--------------------------- MODULE DrainStreamProofs ---------------------------
(***************************************************************************)
(* Safety of DrainStream for any number of workers, entries and events, any *)
(* thresholds and any number of failures: the acknowledgement of an entry,  *)
(* the uniqueness of raw rows and activations, and what memory may hold.    *)
(***************************************************************************)
EXTENDS DrainStream, FiniteSetTheorems, TLAPS

USE DrainAssumption

--------------------------------------------------------------------------------
\* A task is a worker and one of its roles.
LEMMA ActorParts ==
  ASSUME NEW a \in Actors
  PROVE  a[1] \in Workers /\ a[2] \in Roles
BY DEF Actors

LEMMA LoopsAreActors == Loops \subseteq Actors
BY DEF Loops, Actors, Roles

\* Trimming never goes beyond the entry that follows the last one.
LEMMA TrimTargetsBound ==
  ASSUME NEW last \in 0..N, first \in 1..(N + 1), NEW f \in TrimTargets(last)
  PROVE  f \in 1..(N + 1) /\ first <= f
BY DEF TrimTargets

\* The counters of the state stay numbers and its sets stay within their domains,
\* whatever the tasks, failures and crashes do.
LEMMA TypeInit == Init => TypeOK
BY DEF Init, TypeOK, ValkeyType, PgType, TaskType, MemoryType, HistoryType, Messages, Pcs

LEMMA TypeStep == TypeOK /\ [Next]_vars => TypeOK'
<1> SUFFICES ASSUME TypeOK, [Next]_vars PROVE TypeOK'
  OBVIOUS
<1> USE DEF TypeOK, Goto, CallFails
<1>1. CASE Ingest
  <2>1. ValkeyType'
    BY <1>1, TrimTargetsBound DEF Ingest, ValkeyType
  <2> QED
    BY <1>1, <2>1 DEF Ingest, PgType, TaskType, MemoryType, HistoryType, pg, process, task, bounds
<1>2. ASSUME NEW m \in Messages, GrowIdle(m) PROVE TypeOK'
  <2>1. ValkeyType'
    BY <1>2 DEF GrowIdle, ValkeyType
  <2> QED
    BY <1>2, <2>1 DEF GrowIdle, PgType, TaskType, MemoryType, HistoryType, pg, process, task, bounds
<1>3. ASSUME NEW a \in Actors, Read(a) PROVE TypeOK'
  <2> DEFINE got == Prefix(Undelivered, ReadCount)
  <2>a. got \subseteq Messages
    BY DEF Prefix, Undelivered
  <2>b. /\ lastDelivered' \in got /\ pel' = pel \cup got
        /\ \/ todo' = [todo EXCEPT ![a] = got] /\ pc' = [pc EXCEPT ![a] = "next"]
           \/ UNCHANGED <<todo, pc>>
        /\ UNCHANGED <<added, first, idle, retries, dlq>>
    BY <1>3 DEF Read, DeliveredPending
  <2> HIDE DEF got
  <2>1. ValkeyType'
    BY <2>a, <2>b DEF ValkeyType, Messages
  <2>2. TaskType'
    <3>1. todo' \in [Actors -> SUBSET Messages] /\ pc' \in [Actors -> Pcs]
      BY <2>a, <2>b DEF TaskType, Pcs
    <3> QED
      BY <1>3, <3>1 DEF Read, TaskType
  <2>3. HistoryType'
    BY <1>3 DEF Read, HistoryType, bounds
  <2> QED
    BY <1>3, <2>1, <2>2, <2>3 DEF Read, PgType, MemoryType, pg
<1>4. ASSUME NEW a \in Actors, Claim(a) PROVE TypeOK'
  <2>1. ValkeyType'
    BY <1>4 DEF Claim, ValkeyType, Claimable, Prefix
  <2>2. TaskType'
    <3> DEFINE claimed == {m \in Prefix(Claimable, ClaimCount) : m >= first}
    <3>1. claimed \subseteq Messages
      BY DEF Prefix, Claimable, ValkeyType
    <3>2. \/ todo' = [todo EXCEPT ![a] = claimed] /\ pc' = [pc EXCEPT ![a] = "next"]
          \/ UNCHANGED <<todo, pc>>
      BY <1>4 DEF Claim
    <3> HIDE DEF claimed
    <3> QED
      BY <1>4, <3>1, <3>2 DEF Claim, TaskType, Pcs
  <2>3. HistoryType'
    BY <1>4 DEF Claim, HistoryType, bounds
  <2> QED
    BY <1>4, <2>1, <2>2, <2>3 DEF Claim, PgType, MemoryType, pg
<1>5. ASSUME NEW a \in Actors, Begin(a) PROVE TypeOK'
  <2>1. TaskType'
    <3>1. PICK m \in todo[a] :
            /\ cur' = [cur EXCEPT ![a] = m]
            /\ todo' = [todo EXCEPT ![a] = @ \ {m}]
            /\ load' = [load EXCEPT ![a] = EventsOf[m]]
            /\ pc' = [pc EXCEPT ![a] = "count"] \/ pc' = [pc EXCEPT ![a] = "persist"]
      BY <1>5 DEF Begin
    <3>2. m \in 0..N /\ EventsOf[m] \subseteq Events
      BY DEF TaskType, Messages
    <3>3. pc' \in [Actors -> Pcs] /\ cur' \in [Actors -> 0..N]
      BY <3>1, <3>2 DEF TaskType, Pcs
    <3>4. todo' \in [Actors -> SUBSET Messages] /\ load' \in [Actors -> SUBSET Events]
      BY <3>1, <3>2 DEF TaskType
    <3> QED
      BY <1>5, <3>3, <3>4 DEF Begin, TaskType
  <2>2. HistoryType'
    BY <1>5 DEF Begin, HistoryType, TaskType, bounds
  <2> QED
    BY <1>5, <2>1, <2>2 DEF Begin, ValkeyType, PgType, MemoryType, valkey, pg
<1>6. ASSUME NEW a \in Actors, Finish(a) PROVE TypeOK'
  <2>1. ValkeyType'
    BY <1>6, TrimTargetsBound DEF Finish, ValkeyType
  <2>2. TaskType'
    BY <1>6 DEF Finish, TaskType, Pcs
  <2> QED
    BY <1>6, <2>1, <2>2 DEF Finish, PgType, MemoryType, HistoryType, pg, bounds
<1>7. ASSUME NEW a \in Actors, Persist(a) PROVE TypeOK'
  <2>1. TaskType'
    BY <1>7 DEF Persist, TaskType, Pcs
  <2> QED
    BY <1>7, <2>1 DEF Persist, ValkeyType, PgType, MemoryType, HistoryType, valkey, pg, bounds
<1>8. ASSUME NEW a \in Actors, Flush(a) PROVE TypeOK'
  <2>1. TaskType'
    BY <1>8, ActorParts DEF Flush, TaskType, MemoryType, Pcs
  <2>2. MemoryType'
    BY <1>8, ActorParts DEF Flush, MemoryType
  <2> QED
    BY <1>8, <2>1, <2>2 DEF Flush, ValkeyType, PgType, HistoryType, valkey, pg, bounds
<1>9. ASSUME NEW a \in Actors, SinkCommit(a) PROVE TypeOK'
  <2>1. PgType'
    BY <1>9 DEF SinkCommit, PgType, TaskType, Accept, NewlyAccepted, Registrations
  <2>2. TaskType'
    BY <1>9 DEF SinkCommit, TaskType, ToActivate, Pcs
  <2> QED
    BY <1>9, <2>1, <2>2 DEF SinkCommit, ValkeyType, MemoryType, HistoryType, valkey, bounds
<1>10. ASSUME NEW a \in Actors, SinkFail(a) PROVE TypeOK'
  <2>1. PgType'
    BY <1>10 DEF SinkFail, PgType, TaskType, Accept, NewlyAccepted, Registrations, pg
  <2>2. TaskType'
    BY <1>10 DEF SinkFail, AfterFailedBatch, FailedBatchPc, TaskType, Pcs
  <2>3. MemoryType'
    <3>1. buffer' = buffer \/ buffer' = [buffer EXCEPT ![a[1]] = @ \cup load[a]]
      BY <1>10 DEF SinkFail, AfterFailedBatch
    <3>2. a[1] \in Workers /\ load[a] \subseteq Events
      BY ActorParts DEF TaskType
    <3> QED
      BY <1>10, <3>1, <3>2 DEF SinkFail, MemoryType
  <2>4. HistoryType'
    BY <1>10 DEF SinkFail, AfterFailedBatch, HistoryType
  <2> QED
    BY <1>10, <2>1, <2>2, <2>3, <2>4 DEF SinkFail, ValkeyType, valkey
<1>11. ASSUME NEW a \in Actors, Activate(a) PROVE TypeOK'
  <2>1. TaskType'
    BY <1>11 DEF Activate, TaskType, Pcs
  <2>2. HistoryType'
    BY <1>11 DEF Activate, HistoryType, bounds
  <2> QED
    BY <1>11, <2>1, <2>2 DEF Activate, ValkeyType, PgType, MemoryType, valkey, pg
<1>12. ASSUME NEW a \in Actors, Ack(a) PROVE TypeOK'
  <2>1. ValkeyType'
    BY <1>12 DEF Ack, ValkeyType
  <2>2. TaskType'
    BY <1>12 DEF Ack, TaskType, Pcs
  <2>3. HistoryType'
    BY <1>12 DEF Ack, HistoryType, bounds
  <2> QED
    BY <1>12, <2>1, <2>2, <2>3 DEF Ack, PgType, MemoryType, pg
<1>13. ASSUME NEW a \in Actors, Clear(a) PROVE TypeOK'
  <2>1. ValkeyType'
    BY <1>13 DEF Clear, ValkeyType
  <2>2. TaskType'
    BY <1>13 DEF Clear, TaskType, Pcs
  <2>3. MemoryType'
    BY <1>13, ActorParts DEF Clear, MemoryType
  <2>4. HistoryType'
    BY <1>13 DEF Clear, HistoryType, bounds
  <2> QED
    BY <1>13, <2>1, <2>2, <2>3, <2>4 DEF Clear, PgType, pg
<1>14. ASSUME NEW a \in Actors, Count(a) PROVE TypeOK'
  <2>1. ValkeyType'
    BY <1>14 DEF Count, ValkeyType
  <2>2. TaskType'
    BY <1>14 DEF Count, TaskType, Pcs
  <2>3. MemoryType'
    <3> DEFINE m == cur[a]
    <3>1. \/ localRetries' = localRetries
          \/ localRetries' = [localRetries EXCEPT ![a[1]][m] = @ + 1]
      BY <1>14 DEF Count
    <3>2. a[1] \in Workers
      BY ActorParts
    <3> HIDE DEF m
    <3>3. localRetries' \in [Workers -> [Messages -> Nat]]
      <4> DEFINE f == localRetries[a[1]]
      <4> DEFINE counted == [f EXCEPT ![m] = f[m] + 1]
      <4>1. counted \in [Messages -> Nat]
        <5>1. f \in [Messages -> Nat]
          BY <3>2 DEF MemoryType
        <5>2. CASE m \in Messages
          BY <5>1, <5>2
        <5>3. CASE m \notin Messages
          BY <5>1, <5>3
        <5> QED
          BY <5>2, <5>3
      <4>2. localRetries' = localRetries \/ localRetries' = [localRetries EXCEPT ![a[1]] = counted]
        BY <3>1
      <4> HIDE DEF counted
      <4> QED
        BY <4>1, <4>2 DEF MemoryType
    <3> QED
      BY <1>14, <3>3 DEF Count, MemoryType
  <2>4. HistoryType'
    BY <1>14 DEF Count, HistoryType, bounds
  <2> QED
    BY <1>14, <2>1, <2>2, <2>3, <2>4 DEF Count, PgType, pg
<1>15. ASSUME NEW a \in Actors, Route(a) PROVE TypeOK'
  <2>1. ValkeyType'
    BY <1>15 DEF Route, ValkeyType
  <2>2. TaskType'
    BY <1>15 DEF Route, FailedRoutePc, TaskType, Pcs
  <2>3. HistoryType'
    BY <1>15 DEF Route, HistoryType, bounds
  <2> QED
    BY <1>15, <2>1, <2>2, <2>3 DEF Route, PgType, MemoryType, pg
<1>16. ASSUME NEW w \in Workers, Crash(w) PROVE TypeOK'
  <2>1. TaskType'
    BY <1>16 DEF Crash, Restart, TaskType, Pcs
  <2>2. MemoryType'
    BY <1>16 DEF Crash, Restart, MemoryType
  <2> QED
    BY <1>16, <2>1, <2>2 DEF Crash, Restart, ValkeyType, PgType, HistoryType, valkey, pg
<1>17. ASSUME NEW w \in Workers, Stop(w) PROVE TypeOK'
  <2> DEFINE cut == UNION {load[a] : a \in {b \in Loops : b[1] = w /\ pc[b] = "sink"}}
  <2>1. cut \subseteq Events
    BY LoopsAreActors DEF TaskType
  <2>2. PICK restored \in {{}, cut} :
          Restart(w, {"run", "recover"}, buffer[w] \cup restored)
    BY <1>17 DEF Stop
  <2> HIDE DEF cut
  <2>3. TaskType'
    BY <2>2 DEF Restart, TaskType, Pcs
  <2>4. MemoryType'
    BY <1>17, <2>1, <2>2 DEF Stop, Restart, MemoryType
  <2>5. HistoryType'
    BY <1>17, <2>2 DEF Stop, Restart, HistoryType
  <2> QED
    BY <2>2, <2>3, <2>4, <2>5 DEF Restart, ValkeyType, PgType, valkey, pg
<1>18. ASSUME NEW w \in Workers, Exit(w) PROVE TypeOK'
  <2>1. TaskType'
    BY <1>18 DEF Exit, Restart, TaskType, Pcs
  <2>2. MemoryType'
    BY <1>18 DEF Exit, Restart, MemoryType
  <2> QED
    BY <1>18, <2>1, <2>2 DEF Exit, Restart, ValkeyType, PgType, HistoryType, valkey, pg
<1>19. CASE UNCHANGED vars
  BY <1>19 DEF vars, valkey, pg, process, task, bounds,
     ValkeyType, PgType, TaskType, MemoryType, HistoryType
<1> QED
  BY <1>1, <1>2, <1>3, <1>4, <1>5, <1>6, <1>7, <1>8, <1>9, <1>10, <1>11, <1>12,
     <1>13, <1>14, <1>15, <1>16, <1>17, <1>18, <1>19 DEF Next, Step

THEOREM TypeCorrect == Spec => []TypeOK
<1>1. Init => TypeOK
  BY TypeInit
<1>2. TypeOK /\ [Next]_vars => TypeOK'
  BY TypeStep
<1> QED
  BY <1>1, <1>2, PTL DEF Spec

--------------------------------------------------------------------------------
\* A task of its own never takes the steps of another.
LEMMA RolesOfSteps ==
  ASSUME NEW a \in Actors
  PROVE  /\ a \in Loops <=> a[2] \in {"run", "recover"}
         /\ a \notin Loops <=> a = <<a[1], "flush">>
BY DEF Actors, Loops, Roles

\* Commits, registrations, dead-letter copies, trimming and delivery only advance.
Advances ==
  /\ ledger \subseteq ledger' /\ registered \subseteq registered'
  /\ \A m \in Messages : dlq[m] > 0 => dlq'[m] > 0
  /\ first <= first' /\ lastDelivered <= lastDelivered'

LEMMA StepAdvances ==
  ASSUME TypeOK, [Next]_vars
  PROVE  Advances
<1> USE DEF Advances, TypeOK, ValkeyType
<1>1. CASE Ingest
  BY <1>1, TrimTargetsBound DEF Ingest, pg
<1>2. ASSUME NEW m \in Messages, GrowIdle(m) PROVE Advances
  BY <1>2 DEF GrowIdle, pg
<1>3. ASSUME NEW a \in Actors, Read(a) PROVE Advances
  <2>1. lastDelivered' \in Undelivered /\ UNCHANGED <<first, dlq, pg>>
    BY <1>3 DEF Read, Prefix
  <2> QED
    BY <2>1 DEF Undelivered, Messages, pg
<1>4. ASSUME NEW a \in Actors, Claim(a) PROVE Advances
  BY <1>4 DEF Claim, pg
<1>5. ASSUME NEW a \in Actors, Begin(a) PROVE Advances
  BY <1>5 DEF Begin, valkey, pg
<1>6. ASSUME NEW a \in Actors, Finish(a) PROVE Advances
  BY <1>6, TrimTargetsBound DEF Finish, pg
<1>7. ASSUME NEW a \in Actors, Persist(a) \/ Flush(a) \/ Activate(a) PROVE Advances
  BY <1>7 DEF Persist, Flush, Activate, valkey, pg
<1>8. ASSUME NEW a \in Actors, SinkCommit(a) \/ SinkFail(a) PROVE Advances
  BY <1>8 DEF SinkCommit, SinkFail, Accept, valkey, pg
<1>9. ASSUME NEW a \in Actors, Ack(a) \/ Clear(a) \/ Count(a) PROVE Advances
  <2>1. UNCHANGED <<first, lastDelivered, dlq, pg>>
    BY <1>9 DEF Ack, Clear, Count
  <2> QED
    BY <2>1 DEF pg
<1>10. ASSUME NEW a \in Actors, Route(a) PROVE Advances
  BY <1>10 DEF Route, pg
<1>11. ASSUME NEW w \in Workers, Crash(w) \/ Stop(w) \/ Exit(w) PROVE Advances
  BY <1>11 DEF Crash, Stop, Exit, Restart, valkey, pg
<1>12. CASE UNCHANGED vars
  BY <1>12 DEF vars, valkey, pg
<1> QED
  BY <1>1, <1>2, <1>3, <1>4, <1>5, <1>6, <1>7, <1>8, <1>9, <1>10, <1>11, <1>12
     DEF Next, Step

\* What is durable stays durable.
LEMMA DurableStays ==
  ASSUME Advances, NEW m, Durable(m)
  PROVE  Durable(m)'
BY DEF Advances, Durable

\* A step of one task leaves the others where they are.
SameTask(b) ==
  pc'[b] = pc[b] /\ cur'[b] = cur[b] /\ todo'[b] = todo[b] /\ load'[b] = load[b]

LEMMA StepFrame ==
  ASSUME TypeOK, NEW a \in Actors, Step(a), NEW b \in Actors, b # a
  PROVE  SameTask(b)
<1> USE DEF TypeOK, TaskType, SameTask, Goto
<1>1. CASE Read(a) \/ Claim(a)
  BY <1>1 DEF Read, Claim
<1>2. CASE Begin(a) \/ Finish(a)
  BY <1>2 DEF Begin, Finish
<1>3. CASE Persist(a) \/ Flush(a)
  BY <1>3 DEF Persist, Flush
<1>4. CASE SinkCommit(a) \/ SinkFail(a)
  BY <1>4 DEF SinkCommit, SinkFail, AfterFailedBatch
<1>5. CASE Activate(a) \/ Ack(a)
  BY <1>5 DEF Activate, Ack
<1>6. CASE Clear(a) \/ Count(a) \/ Route(a)
  BY <1>6 DEF Clear, Count, Route
<1> QED
  BY <1>1, <1>2, <1>3, <1>4, <1>5, <1>6 DEF Step

\* A task that does not move keeps what its position says.
LEMMA TaskStays ==
  ASSUME TypeOK, Advances, TypeOK', NEW b \in Actors, TaskAt(b), SameTask(b)
  PROVE  TaskAt(b)'
<1>1. cur[b] \in 0..N /\ lastDelivered \in 0..N /\ lastDelivered' \in 0..N
  BY DEF TypeOK, TaskType, ValkeyType
<1>2. pc[b] \in {"activate", "ack"} => Durable(cur[b])'
  BY DEF TaskAt, SameTask, Durable, Advances
<1>3. pc[b] = "ackDlq" => dlq'[cur[b]] > 0
  <2> SUFFICES ASSUME pc[b] = "ackDlq" PROVE dlq'[cur[b]] > 0
    OBVIOUS
  <2>1. b \in Loops /\ cur[b] >= 1
    BY DEF TaskAt
  <2> QED
    BY <1>1, <2>1 DEF TaskAt, Advances, Messages
<1>4. todo[b] \subseteq 1..lastDelivered' /\ cur[b] <= lastDelivered'
  BY <1>1 DEF TaskAt, Advances
<1> QED
  BY <1>2, <1>3, <1>4 DEF TaskAt, SameTask

--------------------------------------------------------------------------------
\* The entries a first delivery or a claim hands to a task.
LEMMA DeliveredRange ==
  ASSUME TypeOK, DeliveryInv, NEW a \in Actors, Read(a) \/ Claim(a)
  PROVE  todo'[a] \subseteq todo[a] \cup 1..lastDelivered'
<1> USE DEF TypeOK, TaskType, ValkeyType
<1>1. CASE Read(a)
  <2> DEFINE got == Prefix(Undelivered, ReadCount)
  <2>1. got \subseteq Messages
    BY DEF Prefix, Undelivered
  <2>2. /\ lastDelivered' \in got /\ \A k \in got : k <= lastDelivered'
        /\ todo' = [todo EXCEPT ![a] = got] \/ todo' = todo
    BY <1>1 DEF Read
  <2> HIDE DEF got
  <2>3. got \subseteq 1..lastDelivered'
    BY <2>1, <2>2 DEF Messages
  <2> QED
    BY <2>2, <2>3
<1>2. CASE Claim(a)
  BY <1>2 DEF Claim, Prefix, Claimable, DeliveryInv
<1> QED
  BY <1>1, <1>2

\* XREADGROUP passes over an entry only if it was trimmed.
LEMMA ReadCovers ==
  ASSUME TypeOK, NEW a \in Actors, Read(a), NEW m \in Messages,
         lastDelivered < m, m <= lastDelivered', first <= m
  PROVE  m \in Prefix(Undelivered, ReadCount)
<1> DEFINE Before(k) == {j \in Undelivered : j < k}
<1>1. lastDelivered' \in Undelivered /\ Cardinality(Before(lastDelivered')) < ReadCount
  BY DEF Read, Prefix
<1>2. m \in Undelivered /\ Before(m) \subseteq Before(lastDelivered')
  BY <1>1 DEF Undelivered, Messages, TypeOK, ValkeyType
<1>3. IsFiniteSet(Before(lastDelivered'))
  <2>1. IsFiniteSet(1..N)
    BY FS_Interval
  <2> QED
    BY <2>1, FS_Subset DEF Undelivered, Messages
<1>4. /\ Cardinality(Before(m)) \in Nat /\ Cardinality(Before(lastDelivered')) \in Nat
      /\ Cardinality(Before(m)) <= Cardinality(Before(lastDelivered'))
  BY <1>2, <1>3, FS_Subset, FS_CardinalityType
<1> QED
  BY <1>1, <1>2, <1>4 DEF Prefix

\* Each step of a task leads to a position that says the truth about its entry:
\* in particular a task acknowledges only after a commit or a dead-letter copy.
LEMMA TaskMoves ==
  ASSUME TypeOK, TypeOK', Advances, TaskInv, DeliveryInv, NEW a \in Actors, Step(a)
  PROVE  TaskAt(a)'
<1> USE DEF TypeOK, TaskType, ValkeyType, Goto
<1>a. TaskAt(a)
  BY DEF TaskInv
<1>b. cur[a] \in 0..N /\ lastDelivered \in 0..N /\ lastDelivered' \in 0..N
      /\ lastDelivered <= lastDelivered'
  BY DEF Advances
<1>r. /\ a \in Loops <=> a[2] \in {"run", "recover"}
      /\ a \notin Loops <=> a = <<a[1], "flush">>
  BY RolesOfSteps
<1>1. CASE Read(a) \/ Claim(a)
  <2>1. todo'[a] \subseteq 1..lastDelivered'
    BY <1>1, <1>a, <1>b, DeliveredRange DEF TaskAt
  <2>2. a \in Loops /\ cur'[a] = cur[a] /\ pc'[a] \in {"idle", "next"}
    BY <1>1, <1>r DEF Read, Claim
  <2> QED
    BY <1>a, <1>b, <2>1, <2>2 DEF TaskAt
<1>2. CASE Begin(a)
  <2>1. PICK m \in todo[a] :
          /\ cur' = [cur EXCEPT ![a] = m]
          /\ todo' = [todo EXCEPT ![a] = @ \ {m}]
          /\ load' = [load EXCEPT ![a] = EventsOf[m]]
          /\ \/ pc' = [pc EXCEPT ![a] = "count"]
             \/ pc' = [pc EXCEPT ![a] = "persist"] /\ EventsOf[m] # {}
    BY <1>2 DEF Begin
  <2>2. a \in Loops /\ m \in 1..lastDelivered
    BY <1>2, <1>a DEF Begin, TaskAt
  <2> QED
    BY <1>a, <1>b, <2>1, <2>2 DEF TaskAt
<1>3. CASE Finish(a)
  BY <1>3, <1>a, <1>b DEF Finish, TaskAt
<1>4. CASE Persist(a)
  BY <1>4, <1>a, <1>b DEF Persist, TaskAt
<1>5. CASE Flush(a)
  BY <1>5, <1>a, <1>b, <1>r DEF Flush, TaskAt
<1>6. CASE SinkCommit(a)
  <2>1. cur'[a] = cur[a] /\ todo'[a] = todo[a] /\ pc[a] = "sink"
    BY <1>6 DEF SinkCommit
  <2>2. CASE a \in Loops
    <3>1. pc'[a] = "activate"
      BY <1>6, <2>2 DEF SinkCommit
    <3>2. EventsOf[cur[a]] # {} /\ EventsOf[cur[a]] \subseteq ledger' \cap registered'
      BY <1>6, <1>a, <2>2 DEF SinkCommit, Accept, Registrations, TaskAt
    <3>3. Durable(cur[a])'
      BY <2>1, <3>2 DEF Durable
    <3> QED
      BY <1>a, <1>b, <2>1, <2>2, <3>1, <3>3 DEF TaskAt
  <2>3. CASE a \notin Loops
    BY <1>6, <1>a, <1>b, <2>1, <2>3 DEF SinkCommit, TaskAt
  <2> QED
    BY <2>2, <2>3
<1>7. CASE SinkFail(a)
  <2>1. cur'[a] = cur[a] /\ todo'[a] = todo[a] /\ pc[a] = "sink"
    BY <1>7 DEF SinkFail
  <2>2. CASE tries[a] + 1 < Attempts
    BY <1>7, <1>a, <1>b, <2>1, <2>2 DEF SinkFail, TaskAt
  <2>3. CASE ~(tries[a] + 1 < Attempts)
    <3>1. pc'[a] = IF a \in Loops THEN "count" ELSE "idle"
      BY <1>7, <2>3 DEF SinkFail, AfterFailedBatch, FailedBatchPc
    <3> QED
      BY <1>a, <1>b, <2>1, <3>1 DEF TaskAt
  <2> QED
    BY <2>2, <2>3
<1>8. CASE Activate(a)
  <2>1. Durable(cur[a])' /\ pc'[a] = "ack" /\ pc[a] = "activate"
    BY <1>8, <1>a DEF Activate, pg, TaskAt, Durable
  <2> QED
    BY <1>8, <1>a, <1>b, <2>1 DEF Activate, TaskAt
<1>9. CASE Ack(a)
  <2>1. pc'[a] \in {"clear", "next"} /\ a \in Loops
    BY <1>9, <1>a DEF Ack, TaskAt
  <2> QED
    BY <1>9, <1>a, <1>b, <2>1 DEF Ack, TaskAt
<1>10. CASE Clear(a) \/ Count(a)
  <2>1. pc'[a] \in {"next", "route"} /\ a \in Loops /\ pc[a] \in {"clear", "count"}
    BY <1>10, <1>a DEF Clear, Count, TaskAt
  <2> QED
    BY <1>10, <1>a, <1>b, <2>1 DEF Clear, Count, TaskAt
<1>11. CASE Route(a)
  <2>1. pc[a] = "route" /\ a \in Loops /\ cur'[a] = cur[a] /\ todo'[a] = todo[a]
    BY <1>11, <1>a DEF Route, TaskAt
  <2>2. pc'[a] = "next" \/ (pc'[a] = "ackDlq" /\ dlq'[cur[a]] > 0)
    BY <1>11, <1>a, <1>b, <2>1 DEF Route, FailedRoutePc, TaskAt, Messages
  <2> QED
    BY <1>a, <1>b, <2>1, <2>2 DEF TaskAt
<1> QED
  BY <1>1, <1>2, <1>3, <1>4, <1>5, <1>6, <1>7, <1>8, <1>9, <1>10, <1>11 DEF Step

LEMMA TaskInvStep ==
  ASSUME TypeOK, TypeOK', Advances, TaskInv, DeliveryInv, [Next]_vars
  PROVE  TaskInv'
<1> SUFFICES ASSUME NEW b \in Actors PROVE TaskAt(b)'
  BY DEF TaskInv
<1> USE DEF TypeOK, TaskType
<1>0. TaskAt(b)
  BY DEF TaskInv
<1>1. CASE SameTask(b)
  BY <1>0, <1>1, TaskStays
<1>2. ASSUME NEW a \in Actors, Step(a) PROVE TaskAt(b)'
  <2>1. CASE a = b
    BY <1>2, <2>1, TaskMoves
  <2>2. CASE a # b
    BY <1>2, <2>2, StepFrame, <1>1
  <2> QED
    BY <2>1, <2>2
<1>3. CASE Ingest \/ UNCHANGED vars \/ \E m \in Messages : GrowIdle(m)
  BY <1>3, <1>1 DEF Ingest, GrowIdle, vars, process, task, SameTask
<1>4. ASSUME NEW w \in Workers, Crash(w) \/ Stop(w) \/ Exit(w) PROVE TaskAt(b)'
  <2>1. \/ SameTask(b)
        \/ pc'[b] = "idle" /\ cur'[b] = 0 /\ todo'[b] = {}
    BY <1>4 DEF Crash, Stop, Exit, Restart, SameTask
  <2>2. lastDelivered' \in 0..N
    BY DEF ValkeyType
  <2>3. CASE pc'[b] = "idle" /\ cur'[b] = 0 /\ todo'[b] = {}
    BY <2>2, <2>3 DEF TaskAt
  <2> QED
    BY <1>1, <2>1, <2>3
<1> QED
  BY <1>2, <1>3, <1>4 DEF Next

LEMMA DeliveryInvStep ==
  ASSUME TypeOK, TypeOK', DeliveryInv, [Next]_vars
  PROVE  DeliveryInv'
<1> USE DEF TypeOK, ValkeyType, DeliveryInv
<1>1. CASE Ingest
  BY <1>1 DEF Ingest
<1>2. ASSUME NEW a \in Actors, Read(a) PROVE DeliveryInv'
  <2> DEFINE got == Prefix(Undelivered, ReadCount)
  <2>1. got \subseteq Undelivered
    BY DEF Prefix
  <2>2. /\ lastDelivered' \in got /\ \A k \in got : k <= lastDelivered'
        /\ pel' = pel \cup got /\ added' = added
    BY <1>2 DEF Read, DeliveredPending
  <2> HIDE DEF got
  <2>3. lastDelivered' <= added' /\ lastDelivered <= lastDelivered'
    BY <2>1, <2>2 DEF Undelivered, Messages
  <2>4. got \subseteq 1..lastDelivered'
    BY <2>1, <2>2 DEF Undelivered, Messages
  <2> QED
    BY <2>2, <2>3, <2>4
<1>3. CASE UNCHANGED <<added, lastDelivered>> /\ pel' \subseteq pel
  BY <1>3
<1>4. ASSUME NEW a \in Actors, Step(a), ~Read(a)
      PROVE  UNCHANGED <<added, lastDelivered>> /\ pel' \subseteq pel
  <2>1. CASE Claim(a) \/ Ack(a)
    BY <2>1 DEF Claim, Ack
  <2>2. CASE Begin(a) \/ Finish(a) \/ Persist(a) \/ Flush(a) \/ Activate(a)
    BY <2>2 DEF Begin, Finish, Persist, Flush, Activate, valkey
  <2>3. CASE SinkCommit(a) \/ SinkFail(a) \/ Clear(a)
    BY <2>3 DEF SinkCommit, SinkFail, Clear, valkey
  <2>4. CASE Count(a) \/ Route(a)
    BY <2>4 DEF Count, Route
  <2> QED
    BY <1>4, <2>1, <2>2, <2>3, <2>4 DEF Step
<1>5. ASSUME NEW w \in Workers, Crash(w) \/ Stop(w) \/ Exit(w)
      PROVE  UNCHANGED <<added, lastDelivered>> /\ pel' \subseteq pel
  BY <1>5 DEF Crash, Stop, Exit, Restart, valkey
<1>6. ASSUME NEW m \in Messages, GrowIdle(m)
      PROVE  UNCHANGED <<added, lastDelivered>> /\ pel' \subseteq pel
  BY <1>6 DEF GrowIdle
<1>7. CASE UNCHANGED vars
  BY <1>7 DEF vars, valkey
<1> QED
  BY <1>1, <1>2, <1>3, <1>4, <1>5, <1>6, <1>7 DEF Next

\* An entry the last-delivered-id passes enters the pending list or was trimmed;
\* an entry that leaves the list was claimed after trimming, or acknowledged at a
\* position where it is durable or dead-lettered.
LEMMA NoSilentAckStep ==
  ASSUME TypeOK, TypeOK', Advances, TaskInv, DeliveryInv, NoSilentAck, [Next]_vars
  PROVE  NoSilentAck'
<1> DEFINE Settled(m) == Durable(m) \/ dlq[m] > 0 \/ m < first
<1> SUFFICES ASSUME NEW m \in 1..lastDelivered', m \notin pel'
             PROVE  Settled(m)'
  BY DEF NoSilentAck
<1> USE DEF TypeOK, ValkeyType
<1>0. m \in Messages
  BY DEF Messages
<1>1. Settled(m) => Settled(m)'
  BY <1>0, DurableStays DEF Advances
<1>2. CASE m \in 1..lastDelivered /\ m \notin pel
  BY <1>1, <1>2 DEF NoSilentAck
<1>3. ASSUME NEW a \in Actors, Read(a), m \notin 1..lastDelivered
      PROVE  Settled(m)'
  <2> DEFINE got == Prefix(Undelivered, ReadCount)
  <2>1. /\ lastDelivered' \in got /\ pel' = pel \cup got /\ first' = first
    BY <1>3 DEF Read, DeliveredPending
  <2>2. m <= lastDelivered' /\ lastDelivered < m
    BY <1>3, <1>0 DEF Messages
  <2>3. CASE m < first
    BY <2>1, <2>3
  <2>4. CASE first <= m
    BY <1>0, <1>3, <2>1, <2>2, <2>4, ReadCovers
  <2> QED
    BY <2>3, <2>4, <1>0 DEF Messages
<1>4. ASSUME NEW a \in Actors, Claim(a), m \in pel PROVE Settled(m)'
  BY <1>4, <1>0 DEF Claim, Messages
<1>5. ASSUME NEW a \in Actors, Ack(a), m \in pel PROVE Settled(m)'
  <2>1. m = cur[a] /\ pc[a] \in {"ack", "ackDlq"}
    BY <1>5 DEF Ack
  <2>2. Durable(m) \/ dlq[m] > 0
    BY <2>1 DEF TaskInv, TaskAt
  <2> QED
    BY <2>2, <1>1
<1>6. ASSUME NEW a \in Actors, Step(a), ~Read(a), ~Claim(a), ~Ack(a)
      PROVE  UNCHANGED <<lastDelivered, pel>>
  <2>1. CASE Begin(a) \/ Finish(a) \/ Persist(a) \/ Flush(a) \/ Activate(a)
    BY <2>1 DEF Begin, Finish, Persist, Flush, Activate, valkey
  <2>2. CASE SinkCommit(a) \/ SinkFail(a) \/ Clear(a)
    BY <2>2 DEF SinkCommit, SinkFail, Clear, valkey
  <2>3. CASE Count(a) \/ Route(a)
    BY <2>3 DEF Count, Route
  <2> QED
    BY <1>6, <2>1, <2>2, <2>3 DEF Step
<1>7. ASSUME NEW a \in Actors, Step(a) PROVE Settled(m)'
  <2>1. CASE Read(a)
    <3>1. pel \subseteq pel'
      BY <2>1 DEF Read
    <3> QED
      BY <2>1, <3>1, <1>2, <1>3
  <2>2. CASE Claim(a)
    BY <2>2, <1>2, <1>4 DEF Claim
  <2>3. CASE Ack(a)
    BY <2>3, <1>2, <1>5 DEF Ack
  <2>4. CASE ~Read(a) /\ ~Claim(a) /\ ~Ack(a)
    BY <1>7, <2>4, <1>6, <1>2
  <2> QED
    BY <2>1, <2>2, <2>3, <2>4
<1>8. CASE Ingest \/ UNCHANGED vars \/ \E k \in Messages : GrowIdle(k)
  BY <1>8, <1>2 DEF Ingest, GrowIdle, vars, valkey
<1>9. ASSUME NEW w \in Workers, Crash(w) \/ Stop(w) \/ Exit(w) PROVE Settled(m)'
  BY <1>9, <1>2 DEF Crash, Stop, Exit, Restart, valkey
<1> QED
  BY <1>7, <1>8, <1>9 DEF Next

LEMMA AckInit == Init => AckInv
<1> SUFFICES ASSUME Init PROVE AckInv
  OBVIOUS
<1>1. TypeOK
  BY TypeInit
<1>2. TaskInv
  BY DEF Init, TaskInv, TaskAt
<1>3. DeliveryInv /\ NoSilentAck
  BY DEF Init, DeliveryInv, NoSilentAck
<1> QED
  BY <1>1, <1>2, <1>3 DEF AckInv

LEMMA AckStep == AckInv /\ [Next]_vars => AckInv'
<1> SUFFICES ASSUME AckInv, [Next]_vars PROVE AckInv'
  OBVIOUS
<1>1. TypeOK /\ TaskInv /\ DeliveryInv /\ NoSilentAck
  BY DEF AckInv
<1>2. TypeOK' /\ Advances
  BY <1>1, TypeStep, StepAdvances
<1>3. TaskInv' /\ DeliveryInv'
  BY <1>1, <1>2, TaskInvStep, DeliveryInvStep
<1>4. NoSilentAck'
  BY <1>1, <1>2, NoSilentAckStep
<1> QED
  BY <1>2, <1>3, <1>4 DEF AckInv

\* The rule of StreamMessageOutcome, for any number of workers, entries, failures
\* and crashes: no delivered entry is acknowledged unless everything it carries is
\* committed and registered, or it is dead-lettered, or the length cap trimmed it.
THEOREM AckSafety == Spec => []NoSilentAck
<1>1. Init => AckInv
  BY AckInit
<1>2. AckInv /\ [Next]_vars => AckInv'
  BY AckStep
<1>3. AckInv => NoSilentAck
  BY DEF AckInv
<1> QED
  BY <1>1, <1>2, <1>3, PTL DEF Spec

--------------------------------------------------------------------------------
\* A batch is what an entry carries or what was buffered, and the buffer holds
\* batches: nothing is in memory that was not delivered.
From(E, last) == \A e \in E : \E m \in 1..last : e \in EventsOf[m]

LEMMA FromStays ==
  ASSUME TypeOK, TypeOK', Advances, NEW E, From(E, lastDelivered)
  PROVE  From(E, lastDelivered')
BY DEF From, Advances, TypeOK, ValkeyType

LEMMA MemoryInvParts == MemoryInv <=>
  /\ \A a \in Actors : From(load[a], lastDelivered)
  /\ \A w \in Workers : From(buffer[w], lastDelivered)
BY DEF MemoryInv, From

\* Every batch of the next state is a part of batches of this one, or an entry's.
LEMMA MemoryFlows ==
  ASSUME TypeOK, TaskInv, [Next]_vars
  PROVE  /\ \A a \in Actors :
              \/ load'[a] \subseteq load[a]
              \/ load'[a] \subseteq buffer[a[1]]
              \/ \E m \in 1..lastDelivered : load'[a] \subseteq EventsOf[m]
         /\ \A w \in Workers : \A e \in buffer'[w] :
              e \in buffer[w] \/ \E a \in Actors : e \in load[a]
<1> DEFINE Loads == \A a \in Actors :
              \/ load'[a] \subseteq load[a]
              \/ load'[a] \subseteq buffer[a[1]]
              \/ \E m \in 1..lastDelivered : load'[a] \subseteq EventsOf[m]
           Buffers == \A w \in Workers : \A e \in buffer'[w] :
              e \in buffer[w] \/ \E a \in Actors : e \in load[a]
<1> USE DEF TypeOK, TaskType, MemoryType
<1>0. UNCHANGED <<load, buffer>> => Loads /\ Buffers
  OBVIOUS
<1>1. ASSUME NEW a \in Actors, Begin(a) PROVE Loads /\ Buffers
  <2>1. PICK m \in todo[a] : load' = [load EXCEPT ![a] = EventsOf[m]]
    BY <1>1 DEF Begin
  <2>2. m \in 1..lastDelivered /\ buffer' = buffer
    BY <1>1 DEF Begin, TaskInv, TaskAt
  <2>3. load'[a] = EventsOf[m] /\ \A b \in Actors : b # a => load'[b] = load[b]
    BY <2>1
  <2>4. Loads
    <3> SUFFICES ASSUME NEW b \in Actors
                 PROVE  \/ load'[b] \subseteq load[b]
                        \/ \E k \in 1..lastDelivered : load'[b] \subseteq EventsOf[k]
      OBVIOUS
    <3> QED
      BY <2>2, <2>3
  <2> QED
    BY <2>2, <2>4
<1>2. ASSUME NEW a \in Actors, Flush(a) PROVE Loads /\ Buffers
  <2>1. /\ load' = [load EXCEPT ![a] = buffer[a[1]]]
        /\ buffer' = [buffer EXCEPT ![a[1]] = {}]
    BY <1>2 DEF Flush
  <2>2. Loads
    <3> SUFFICES ASSUME NEW b \in Actors
                 PROVE  load'[b] \subseteq load[b] \/ load'[b] \subseteq buffer[b[1]]
      OBVIOUS
    <3> QED
      BY <2>1
  <2>3. Buffers
    BY <2>1
  <2> QED
    BY <2>2, <2>3
<1>3. ASSUME NEW a \in Actors, SinkCommit(a) PROVE Loads /\ Buffers
  BY <1>3 DEF SinkCommit
<1>4. ASSUME NEW a \in Actors, SinkFail(a) PROVE Loads /\ Buffers
  <2>1. \/ UNCHANGED <<load, buffer>>
        \/ /\ load' = [load EXCEPT ![a] = {}]
           /\ buffer' = [buffer EXCEPT ![a[1]] = buffer[a[1]] \cup load[a]]
    BY <1>4 DEF SinkFail, AfterFailedBatch
  <2>2. CASE load' = [load EXCEPT ![a] = {}]
             /\ buffer' = [buffer EXCEPT ![a[1]] = buffer[a[1]] \cup load[a]]
    <3>1. Loads
      BY <2>2
    <3>2. Buffers
      BY <2>2
    <3> QED
      BY <3>1, <3>2
  <2>3. CASE UNCHANGED <<load, buffer>>
    BY <1>0, <2>3
  <2> QED
    BY <2>1, <2>2, <2>3
<1>5. ASSUME NEW w \in Workers, Crash(w) \/ Exit(w) PROVE Loads /\ Buffers
  <2>1. /\ \A a \in Actors : load'[a] \subseteq load[a]
        /\ buffer' = [buffer EXCEPT ![w] = {}]
    BY <1>5 DEF Crash, Exit, Restart
  <2>2. Buffers
    BY <2>1
  <2> QED
    BY <2>1, <2>2
<1>6. ASSUME NEW w \in Workers, Stop(w) PROVE Loads /\ Buffers
  <2> DEFINE cut == UNION {load[a] : a \in {b \in Loops : b[1] = w /\ pc[b] = "sink"}}
  <2>1. PICK restored \in {{}, cut} :
          Restart(w, {"run", "recover"}, buffer[w] \cup restored)
    BY <1>6 DEF Stop
  <2>2. \A e \in restored : \E a \in Actors : e \in load[a]
    BY LoopsAreActors
  <2>3. /\ \A a \in Actors : load'[a] \subseteq load[a]
        /\ buffer' = [buffer EXCEPT ![w] = buffer[w] \cup restored]
    BY <2>1 DEF Restart
  <2> HIDE DEF cut
  <2>4. Buffers
    BY <2>2, <2>3
  <2> QED
    BY <2>3, <2>4
<1>7. ASSUME NEW a \in Actors, Step(a), ~Begin(a), ~Flush(a), ~SinkCommit(a), ~SinkFail(a)
      PROVE  UNCHANGED <<load, buffer>>
  <2>1. CASE Read(a) \/ Claim(a) \/ Finish(a) \/ Persist(a)
    BY <2>1 DEF Read, Claim, Finish, Persist
  <2>2. CASE Activate(a) \/ Ack(a) \/ Clear(a) \/ Count(a) \/ Route(a)
    BY <2>2 DEF Activate, Ack, Clear, Count, Route
  <2> QED
    BY <1>7, <2>1, <2>2 DEF Step
<1>8. CASE Ingest \/ UNCHANGED vars \/ \E m \in Messages : GrowIdle(m)
  BY <1>0, <1>8 DEF Ingest, GrowIdle, vars, process, task
<1> QED
  BY <1>0, <1>1, <1>2, <1>3, <1>4, <1>5, <1>6, <1>7, <1>8 DEF Next, Step

LEMMA MemoryInvStep ==
  ASSUME TypeOK, TypeOK', TaskInv, Advances, MemoryInv, [Next]_vars
  PROVE  MemoryInv'
<1>1. ASSUME NEW a \in Actors PROVE From(load'[a], lastDelivered')
  <2>1. CASE load'[a] \subseteq load[a] \/ load'[a] \subseteq buffer[a[1]]
    <3>1. From(load'[a], lastDelivered)
      BY <2>1, ActorParts, MemoryInvParts DEF From
    <3> QED
      BY <3>1, FromStays
  <2>2. CASE \E m \in 1..lastDelivered : load'[a] \subseteq EventsOf[m]
    <3>1. From(load'[a], lastDelivered)
      BY <2>2 DEF From
    <3> QED
      BY <3>1, FromStays
  <2> QED
    BY <2>1, <2>2, MemoryFlows
<1>2. ASSUME NEW w \in Workers PROVE From(buffer'[w], lastDelivered')
  <2>1. \A e \in buffer'[w] : e \in buffer[w] \/ \E a \in Actors : e \in load[a]
    BY MemoryFlows
  <2>2. From(buffer'[w], lastDelivered)
    BY <2>1, MemoryInvParts DEF From
  <2> QED
    BY <2>2, FromStays
<1> QED
  BY <1>1, <1>2 DEF MemoryInv, From

\* Losing a process loses no event: what its memory holds came from a delivered
\* entry, and an entry that left the pending list is committed, dead-lettered or
\* trimmed.
THEOREM MemorySafety == Spec => []MemoryNeverSoleCopy
<1>1. Init => AckInv /\ MemoryInv
  BY AckInit DEF Init, MemoryInv
<1>2. AckInv /\ MemoryInv /\ [Next]_vars => AckInv' /\ MemoryInv'
  BY AckStep, StepAdvances, MemoryInvStep DEF AckInv
<1>3. AckInv /\ MemoryInv => MemoryNeverSoleCopy
  <2> SUFFICES ASSUME AckInv, MemoryInv, NEW w \in Workers, NEW r \in Roles, NEW e,
                      e \in buffer[w] \cup load[<<w, r>>]
               PROVE  \/ e \in ledger
                      \/ \E m \in Messages :
                            e \in EventsOf[m] /\ (m \in pel \/ dlq[m] > 0 \/ m < first)
    BY DEF MemoryNeverSoleCopy, Roles
  <2>1. PICK m \in 1..lastDelivered : e \in EventsOf[m]
    BY DEF MemoryInv, Actors
  <2>2. m \in Messages
    BY DEF AckInv, TypeOK, ValkeyType, Messages
  <2>3. m \notin pel => Durable(m) \/ dlq[m] > 0 \/ m < first
    BY DEF AckInv, NoSilentAck
  <2> QED
    BY <2>1, <2>2, <2>3 DEF Durable
<1> QED
  BY <1>1, <1>2, <1>3, PTL DEF Spec

--------------------------------------------------------------------------------
\* What a step of a task may do to the failures of an entry: nothing that counts,
\* a failure it will count, or the counting of one it has seen.
LEMMA CountKept ==
  ASSUME TypeOK, TypeOK', NEW m \in Messages, Counted(m),
         Counting(m)' \subseteq Counting(m),
         retries'[m] <= retries[m], failures[m] <= failures'[m],
         \A w \in Workers : localRetries'[w][m] <= localRetries[w][m],
         \A a \in Actors : pc'[a] = "route" /\ cur'[a] = m => pc[a] = "route" /\ cur[a] = m,
         dlq'[m] > 0 => dlq[m] > 0 \/ failures[m] >= MaxRetries
  PROVE  Counted(m)'
<1> USE DEF TypeOK, ValkeyType, MemoryType, HistoryType
<1>1. /\ IsFiniteSet(Counting(m)')
      /\ Cardinality(Counting(m)') \in Nat /\ Cardinality(Counting(m)) \in Nat
      /\ Cardinality(Counting(m)') <= Cardinality(Counting(m))
  BY FS_Subset, FS_CardinalityType DEF Counted
<1>2. \A w \in Workers : localRetries[w][m] \in Nat /\ localRetries'[w][m] \in Nat
  OBVIOUS
<1> HIDE DEF Counting
<1> QED
  BY <1>1, <1>2 DEF Counted

LEMMA CountGrows ==
  ASSUME TypeOK, TypeOK', NEW m \in Messages, Counted(m), NEW a \in Actors,
         Counting(m)' \subseteq Counting(m) \cup {a},
         failures'[m] = failures[m] + 1, UNCHANGED <<retries, localRetries, dlq>>,
         \A b \in Actors : pc'[b] = "route" /\ cur'[b] = m => pc[b] = "route" /\ cur[b] = m
  PROVE  Counted(m)'
<1> USE DEF TypeOK, ValkeyType, MemoryType, HistoryType
<1>1. /\ IsFiniteSet(Counting(m) \cup {a})
      /\ Cardinality(Counting(m)) \in Nat
      /\ Cardinality(Counting(m) \cup {a}) <= Cardinality(Counting(m)) + 1
  <2>1. IsFiniteSet(Counting(m)) /\ Cardinality(Counting(m)) \in Nat
    BY FS_CardinalityType DEF Counted
  <2>2. /\ IsFiniteSet(Counting(m) \cup {a})
        /\ Cardinality(Counting(m) \cup {a}) =
             IF a \in Counting(m) THEN Cardinality(Counting(m)) ELSE Cardinality(Counting(m)) + 1
    BY <2>1, FS_AddElement, Zenon
  <2> QED
    BY <2>1, <2>2
<1>2. /\ IsFiniteSet(Counting(m)')
      /\ Cardinality(Counting(m)') \in Nat
      /\ Cardinality(Counting(m)') <= Cardinality(Counting(m) \cup {a})
      /\ Cardinality(Counting(m) \cup {a}) \in Nat
  BY <1>1, FS_Subset, FS_CardinalityType
<1>3. \A w \in Workers : localRetries[w][m] \in Nat
  OBVIOUS
<1> QED
  BY <1>1, <1>2, <1>3 DEF Counted

LEMMA CountTaken ==
  ASSUME TypeOK, TypeOK', NEW m \in Messages, Counted(m), NEW a \in Counting(m),
         Counting(m)' \subseteq Counting(m) \ {a},
         retries'[m] <= retries[m] + 1, UNCHANGED <<failures, dlq>>,
         \A w \in Workers : localRetries'[w][m] <= localRetries[w][m] + 1,
         \A b \in Actors : pc'[b] = "route" /\ cur'[b] = m =>
           \/ pc[b] = "route" /\ cur[b] = m
           \/ \E n \in Nat : /\ n >= MaxRetries
                            /\ \/ n <= retries[m] + 1
                               \/ \E w \in Workers : n <= localRetries[w][m] + 1
  PROVE  Counted(m)'
<1> USE DEF TypeOK, ValkeyType, MemoryType, HistoryType
<1>1. /\ IsFiniteSet(Counting(m) \ {a})
      /\ Cardinality(Counting(m)) \in Nat
      /\ Cardinality(Counting(m) \ {a}) = Cardinality(Counting(m)) - 1
  BY FS_RemoveElement, FS_CardinalityType DEF Counted
<1>2. /\ IsFiniteSet(Counting(m)')
      /\ Cardinality(Counting(m)') \in Nat
      /\ Cardinality(Counting(m)') <= Cardinality(Counting(m) \ {a})
      /\ Cardinality(Counting(m) \ {a}) \in Nat
  BY <1>1, FS_Subset, FS_CardinalityType
<1>3. \A w \in Workers : localRetries[w][m] \in Nat /\ localRetries'[w][m] \in Nat
  OBVIOUS
<1>4. /\ retries[m] + 1 <= failures[m]
      /\ \A w \in Workers : localRetries[w][m] + 1 <= failures[m]
  BY <1>1, <1>2, <1>3 DEF Counted
<1>5. \A b \in Actors : pc'[b] = "route" /\ cur'[b] = m => failures[m] >= MaxRetries
  BY <1>3, <1>4 DEF Counted
<1> QED
  BY <1>1, <1>2, <1>3, <1>5 DEF Counted

\* A counter that is reset or incremented, alone or among a worker's.
LEMMA Reset ==
  ASSUME NEW f \in [Messages -> Nat], NEW k, NEW m \in Messages
  PROVE  [f EXCEPT ![k] = 0][m] <= f[m]
OBVIOUS

LEMMA Increment ==
  ASSUME NEW f \in [Messages -> Nat], NEW k, NEW m \in Messages
  PROVE  /\ [f EXCEPT ![k] = f[k] + 1][m] <= f[m] + 1
         /\ k # m => [f EXCEPT ![k] = f[k] + 1][m] = f[m]
<1>1. f[m] \in Nat
  OBVIOUS
<1>2. [f EXCEPT ![k] = f[k] + 1][m] = IF k = m THEN f[m] + 1 ELSE f[m]
  OBVIOUS
<1> QED
  BY <1>1, <1>2

LEMMA IncrementOwn ==
  ASSUME NEW g \in [Workers -> [Messages -> Nat]], NEW w \in Workers, NEW k,
         NEW v \in Workers, NEW m \in Messages
  PROVE  /\ [g EXCEPT ![w][k] = g[w][k] + 1][v][m] <= g[v][m] + 1
         /\ k # m => [g EXCEPT ![w][k] = g[w][k] + 1][v][m] = g[v][m]
<1>1. g[w] \in [Messages -> Nat] /\ g[v][m] \in Nat
  OBVIOUS
<1>2. [g EXCEPT ![w][k] = g[w][k] + 1][v] =
        IF v = w THEN [g[w] EXCEPT ![k] = g[w][k] + 1] ELSE g[v]
  OBVIOUS
<1>3. CASE v = w
  BY <1>1, <1>2, <1>3, Increment
<1>4. CASE v # w
  BY <1>1, <1>2, <1>4
<1> QED
  BY <1>3, <1>4

LEMMA CounterTypes ==
  ASSUME TypeOK
  PROVE  /\ retries \in [Messages -> Nat] /\ failures \in [Messages -> Nat]
         /\ localRetries \in [Workers -> [Messages -> Nat]]
BY DEF TypeOK, ValkeyType, MemoryType, HistoryType

LEMMA ClearResets ==
  ASSUME TypeOK, NEW a \in Actors, Clear(a), NEW m \in Messages
  PROVE  /\ retries'[m] <= retries[m]
         /\ \A w \in Workers : localRetries'[w][m] <= localRetries[w][m]
<1>1. /\ retries' = retries \/ retries' = [retries EXCEPT ![cur[a]] = 0]
      /\ localRetries' = [localRetries EXCEPT ![a[1]][cur[a]] = 0]
  BY DEF Clear
<1>2. retries[m] \in Nat /\ \A w \in Workers : localRetries[w][m] \in Nat
  BY CounterTypes
<1>3. retries'[m] <= retries[m]
  BY <1>1, <1>2, CounterTypes, Reset
<1>4. ASSUME NEW w \in Workers PROVE localRetries'[w][m] <= localRetries[w][m]
  <2>1. localRetries'[w] = localRetries[w] \/ localRetries'[w] = [localRetries[w] EXCEPT ![cur[a]] = 0]
    BY <1>1, CounterTypes
  <2>2. localRetries[w] \in [Messages -> Nat]
    BY CounterTypes
  <2> QED
    BY <1>2, <2>1, <2>2, Reset
<1> QED
  BY <1>3, <1>4

\* INCR in Valkey or the increment of the process's own counter: the threshold is
\* compared with the number that was just written.
LEMMA CountIncrements ==
  ASSUME TypeOK, NEW a \in Actors, Count(a), NEW m \in Messages
  PROVE  /\ pc'[a] # "count"
         /\ retries'[m] <= retries[m] + 1
         /\ \A w \in Workers : localRetries'[w][m] <= localRetries[w][m] + 1
         /\ cur[a] # m => /\ retries'[m] = retries[m]
                          /\ \A w \in Workers : localRetries'[w][m] = localRetries[w][m]
         /\ cur[a] = m /\ pc'[a] = "route" =>
              \E n \in Nat : /\ n >= MaxRetries
                            /\ \/ n <= retries[m] + 1
                               \/ \E w \in Workers : n <= localRetries[w][m] + 1
<1> DEFINE k == cur[a]
           w == a[1]
<1>1. \/ /\ retries' = [retries EXCEPT ![k] = retries[k] + 1]
         /\ localRetries' = localRetries
         /\ pc' = [pc EXCEPT ![a] = IF Threshold(retries[k] + 1) THEN "route" ELSE "next"]
      \/ /\ retries' = retries \/ retries' = [retries EXCEPT ![k] = retries[k] + 1]
         /\ localRetries' = [localRetries EXCEPT ![w][k] = localRetries[w][k] + 1]
         /\ pc' = [pc EXCEPT ![a] = IF Threshold(localRetries[w][k] + 1) THEN "route" ELSE "next"]
  BY DEF Count, Goto
<1>2. pc \in [Actors -> Pcs] /\ w \in Workers
  BY ActorParts DEF TypeOK, TaskType
<1>3. retries[m] \in Nat /\ \A v \in Workers : localRetries[v][m] \in Nat
  BY CounterTypes
<1> HIDE DEF k, w
<1>4. retries'[m] <= retries[m] + 1 /\ (k # m => retries'[m] = retries[m])
  BY <1>1, <1>3, CounterTypes, Increment
<1>5. ASSUME NEW v \in Workers
      PROVE  /\ localRetries'[v][m] <= localRetries[v][m] + 1
             /\ k # m => localRetries'[v][m] = localRetries[v][m]
  BY <1>1, <1>2, <1>3, CounterTypes, IncrementOwn
<1>6. k = m /\ pc'[a] = "route" =>
        Threshold(retries[m] + 1) \/ Threshold(localRetries[w][m] + 1)
  BY <1>1, <1>2
<1>7. pc'[a] # "count"
  BY <1>1, <1>2
<1>8. retries[m] + 1 \in Nat /\ localRetries[w][m] + 1 \in Nat
  BY <1>2, <1>3
<1>9. k = m /\ pc'[a] = "route" =>
        \E n \in Nat : /\ n >= MaxRetries
                      /\ \/ n <= retries[m] + 1
                         \/ \E v \in Workers : n <= localRetries[v][m] + 1
  BY <1>2, <1>6, <1>8 DEF Threshold
<1> QED
  BY <1>4, <1>5, <1>7, <1>9 DEF k

\* A step of a task counts for its own entry only.
LEMMA CountFrame ==
  ASSUME TypeOK, NEW a \in Actors, Step(a), NEW m \in Messages
  PROVE  /\ Counting(m)' \ {a} = Counting(m) \ {a}
         /\ \A b \in Actors : b # a /\ pc'[b] = "route" /\ cur'[b] = m =>
                             pc[b] = "route" /\ cur[b] = m
<1>1. \A b \in Actors : b # a => pc'[b] = pc[b] /\ cur'[b] = cur[b]
  BY StepFrame DEF SameTask
<1> QED
  BY <1>1 DEF Counting

\* The failures of an entry and the counters that lag behind them, step by step.
LEMMA CountMoves ==
  ASSUME TypeOK, TypeOK', TaskInv, NEW m \in Messages, Counted(m), NEW a \in Actors, Step(a)
  PROVE  Counted(m)'
<1> USE DEF TypeOK, ValkeyType, TaskType, MemoryType, HistoryType, Goto
<1>0. /\ Counting(m)' \subseteq Counting(m) \cup {a}
      /\ ~(pc'[a] = "count" /\ cur'[a] = m) => Counting(m)' \subseteq Counting(m) \ {a}
      /\ a \in Counting(m) <=> pc[a] = "count" /\ cur[a] = m
  BY CountFrame DEF Counting
<1>q. ASSUME ~(pc'[a] = "count" /\ cur'[a] = m), pc'[a] # "route",
             retries'[m] <= retries[m], failures[m] <= failures'[m],
             \A w \in Workers : localRetries'[w][m] <= localRetries[w][m],
             dlq'[m] > 0 => dlq[m] > 0 \/ failures[m] >= MaxRetries
      PROVE  Counted(m)'
  <2>1. Counting(m)' \subseteq Counting(m)
    BY <1>0, <1>q
  <2>2. \A b \in Actors : pc'[b] = "route" /\ cur'[b] = m => pc[b] = "route" /\ cur[b] = m
    BY <1>q, CountFrame
  <2> QED
    BY <1>q, <2>1, <2>2, CountKept
<1>1. CASE Read(a) \/ Claim(a) \/ Finish(a) \/ Persist(a) \/ Flush(a)
  <2>1. pc'[a] \in {"idle", "next", "sink"}
        /\ UNCHANGED <<retries, failures, localRetries, dlq>>
    BY <1>1 DEF Read, Claim, Finish, Persist, Flush, valkey
  <2> QED
    BY <1>q, <2>1
<1>2. CASE SinkCommit(a) \/ Activate(a) \/ Ack(a)
  <2>1. pc'[a] \in {"idle", "next", "activate", "ack", "clear"}
        /\ UNCHANGED <<retries, failures, localRetries, dlq>>
    BY <1>2 DEF SinkCommit, Activate, Ack, valkey
  <2> QED
    BY <1>q, <2>1
<1>3. CASE Clear(a)
  <2>1. pc'[a] = "next" /\ UNCHANGED <<failures, dlq>>
    BY <1>3 DEF Clear
  <2> QED
    BY <1>3, <1>q, <2>1, ClearResets
<1>4. CASE Route(a)
  <2>1. /\ pc[a] = "route" /\ pc'[a] \in {"ackDlq", "next"}
        /\ UNCHANGED <<retries, failures, localRetries>>
        /\ dlq' = dlq \/ dlq' = [dlq EXCEPT ![cur[a]] = dlq[cur[a]] + 1]
    BY <1>4 DEF Route, FailedRoutePc
  <2>2. cur[a] = m => failures[m] >= MaxRetries
    BY <2>1 DEF Counted
  <2>3. dlq'[m] > 0 => dlq[m] > 0 \/ failures[m] >= MaxRetries
    BY <2>1, <2>2
  <2> QED
    BY <1>q, <2>1, <2>3
<1>f. ASSUME pc[a] # "count", pc'[a] = "count", cur'[a] \in Messages,
             failures' = [failures EXCEPT ![cur'[a]] = failures[cur'[a]] + 1],
             UNCHANGED <<retries, localRetries, dlq>>
      PROVE  Counted(m)'
  <2>1. CASE cur'[a] = m
    <3>1. failures'[m] = failures[m] + 1
      BY <1>f, <2>1
    <3>2. \A b \in Actors : pc'[b] = "route" /\ cur'[b] = m => pc[b] = "route" /\ cur[b] = m
      BY <1>f, CountFrame
    <3> QED
      BY <1>0, <1>f, <3>1, <3>2, CountGrows
  <2>2. CASE cur'[a] # m
    BY <1>f, <1>q, <2>2
  <2> QED
    BY <2>1, <2>2
<1>5. CASE Begin(a)
  <2>1. PICK k \in todo[a] :
          /\ cur' = [cur EXCEPT ![a] = k]
          /\ \/ pc' = [pc EXCEPT ![a] = "count"] /\ failures' = [failures EXCEPT ![k] = failures[k] + 1]
             \/ pc' = [pc EXCEPT ![a] = "persist"] /\ failures' = failures
    BY <1>5 DEF Begin
  <2>2. cur'[a] = k /\ k \in Messages /\ pc[a] = "next" /\ UNCHANGED <<retries, localRetries, dlq>>
    BY <1>5, <2>1 DEF Begin, valkey
  <2>3. CASE pc'[a] = "count"
    BY <1>f, <2>1, <2>2, <2>3
  <2>4. CASE pc'[a] # "count"
    BY <1>q, <2>1, <2>2, <2>4
  <2> QED
    BY <2>3, <2>4
<1>6. CASE SinkFail(a)
  <2>1. /\ pc[a] = "sink" /\ cur' = cur /\ UNCHANGED <<retries, localRetries, dlq>>
        /\ \/ pc' = pc /\ failures' = failures
           \/ /\ a \in Loops /\ pc' = [pc EXCEPT ![a] = "count"]
              /\ failures' = [failures EXCEPT ![cur[a]] = failures[cur[a]] + 1]
           \/ pc' = [pc EXCEPT ![a] = "idle"] /\ failures' = failures
    BY <1>6 DEF SinkFail, AfterFailedBatch, FailedBatchPc, valkey
  <2>2. CASE pc'[a] = "count"
    <3>1. cur[a] \in Messages
      <4>1. a \in Loops /\ pc[a] = "sink"
        BY <2>1, <2>2
      <4>2. cur[a] >= 1 /\ cur[a] \in 0..N
        BY <4>1 DEF TaskInv, TaskAt
      <4> QED
        BY <4>2 DEF Messages
    <3> QED
      BY <1>f, <2>1, <2>2, <3>1
  <2>3. CASE pc'[a] # "count"
    BY <1>q, <2>1, <2>3
  <2> QED
    BY <2>2, <2>3
<1>7. CASE Count(a)
  <2>1. pc[a] = "count" /\ UNCHANGED <<cur, failures, dlq>> /\ pc'[a] # "count"
    BY <1>7, CountIncrements DEF Count
  <2>2. Counting(m)' \subseteq Counting(m) \ {a}
    BY <1>0, <2>1
  <2>3. CASE cur[a] = m
    <3>1. a \in Counting(m)
      BY <1>0, <2>1, <2>3
    <3>2. \A b \in Actors : pc'[b] = "route" /\ cur'[b] = m =>
            \/ pc[b] = "route" /\ cur[b] = m
            \/ \E n \in Nat : /\ n >= MaxRetries
                             /\ \/ n <= retries[m] + 1
                                \/ \E w \in Workers : n <= localRetries[w][m] + 1
      <4> DEFINE Reached == \E n \in Nat : /\ n >= MaxRetries
                                          /\ \/ n <= retries[m] + 1
                                             \/ \E w \in Workers : n <= localRetries[w][m] + 1
      <4>1. pc'[a] = "route" => Reached
        BY <1>7, <2>3, CountIncrements
      <4> HIDE DEF Reached
      <4>2. \A b \in Actors : pc'[b] = "route" /\ cur'[b] = m =>
              (pc[b] = "route" /\ cur[b] = m) \/ Reached
        BY <4>1, CountFrame
      <4> QED
        BY <4>2 DEF Reached
    <3> QED
      BY <1>7, <2>1, <2>2, <3>1, <3>2, CountIncrements, CountTaken
  <2>4. CASE cur[a] # m
    <3>1. \A b \in Actors : pc'[b] = "route" /\ cur'[b] = m => pc[b] = "route" /\ cur[b] = m
      BY <2>1, <2>4, CountFrame
    <3>2. retries'[m] = retries[m] /\ \A w \in Workers : localRetries'[w][m] = localRetries[w][m]
      BY <1>7, <2>4, CountIncrements
    <3>3. /\ retries'[m] <= retries[m] /\ failures[m] <= failures'[m]
          /\ \A w \in Workers : localRetries'[w][m] <= localRetries[w][m]
      BY <2>1, <3>2
    <3> QED
      BY <2>1, <2>2, <3>1, <3>3, CountKept
  <2> QED
    BY <2>3, <2>4
<1> QED
  BY <1>1, <1>2, <1>3, <1>4, <1>5, <1>6, <1>7 DEF Step

LEMMA CountInvStep ==
  ASSUME TypeOK, TypeOK', TaskInv, CountInv, [Next]_vars
  PROVE  CountInv'
<1> SUFFICES ASSUME NEW m \in Messages PROVE Counted(m)'
  BY DEF CountInv
<1>0. Counted(m)
  BY DEF CountInv
<1>1. ASSUME NEW a \in Actors, Step(a) PROVE Counted(m)'
  BY <1>0, <1>1, CountMoves
<1>2. ASSUME UNCHANGED <<retries, failures, dlq>>,
             \A w \in Workers : localRetries'[w][m] <= localRetries[w][m],
             \A a \in Actors : pc'[a] = "idle" \/ (pc'[a] = pc[a] /\ cur'[a] = cur[a])
      PROVE  Counted(m)'
  <2>1. /\ retries'[m] <= retries[m] /\ failures[m] <= failures'[m]
        /\ Counting(m)' \subseteq Counting(m)
        /\ \A a \in Actors : pc'[a] = "route" /\ cur'[a] = m => pc[a] = "route" /\ cur[a] = m
        /\ dlq'[m] > 0 => dlq[m] > 0
    BY <1>2 DEF Counting, TypeOK, ValkeyType, HistoryType
  <2> QED
    BY <1>0, <1>2, <2>1, CountKept
<1>3. ASSUME NEW w \in Workers, Crash(w) \/ Stop(w) \/ Exit(w) PROVE Counted(m)'
  <2>1. /\ UNCHANGED <<retries, failures, dlq>>
        /\ \A a \in Actors : pc'[a] = "idle" \/ (pc'[a] = pc[a] /\ cur'[a] = cur[a])
    BY <1>3 DEF Crash, Stop, Exit, Restart, valkey
  <2>2. \A v \in Workers : localRetries'[v][m] <= localRetries[v][m]
    <3>1. \/ localRetries' = localRetries
          \/ localRetries' = [localRetries EXCEPT ![w] = [k \in Messages |-> 0]]
      BY <1>3 DEF Crash, Stop, Exit
    <3>2. \A v \in Workers : localRetries[v][m] \in Nat
      BY DEF TypeOK, MemoryType
    <3> QED
      BY <3>1, <3>2 DEF TypeOK, MemoryType
  <2> QED
    BY <1>2, <2>1, <2>2
<1>4. CASE Ingest \/ UNCHANGED vars \/ \E k \in Messages : GrowIdle(k)
  <2>1. UNCHANGED <<retries, failures, dlq, localRetries, pc, cur>>
    BY <1>4 DEF Ingest, GrowIdle, vars, valkey, process, task
  <2>2. \A v \in Workers : localRetries[v][m] \in Nat
    BY DEF TypeOK, MemoryType
  <2> QED
    BY <1>2, <2>1, <2>2
<1> QED
  BY <1>1, <1>3, <1>4 DEF Next

\* An entry is quarantined only after max_retries failed deliveries, for any number
\* of workers that count its failures in Valkey or in their own memory, whichever
\* calls fail and however often the counters are lost or cleared.
THEOREM QuarantineSafety == Spec => []QuarantineNeedsFailures
<1>1. Init => AckInv /\ CountInv
  <2> SUFFICES ASSUME Init PROVE CountInv
    BY AckInit
  <2>1. \A m \in Messages : Counting(m) = {}
    BY DEF Init, Counting
  <2>2. \A m \in Messages : IsFiniteSet(Counting(m)) /\ Cardinality(Counting(m)) = 0
    BY <2>1, FS_EmptySet
  <2>3. MaxRetries > 0 /\ \A m \in Messages :
                           /\ retries[m] = 0 /\ dlq[m] = 0 /\ failures[m] = 0
                           /\ \A w \in Workers : localRetries[w][m] = 0
                           /\ \A a \in Actors : pc[a] # "route"
    BY DEF Init
  <2> QED
    BY <2>2, <2>3 DEF CountInv, Counted
<1>2. AckInv /\ CountInv /\ [Next]_vars => AckInv' /\ CountInv'
  BY AckStep, CountInvStep DEF AckInv
<1>3. CountInv => QuarantineNeedsFailures
  BY DEF CountInv, Counted, QuarantineNeedsFailures
<1> QED
  BY <1>1, <1>2, <1>3, PTL DEF Spec

--------------------------------------------------------------------------------
\* Every step commits one batch to PostgreSQL or leaves it alone.
LEMMA PgChanges ==
  ASSUME TypeOK, [Next]_vars
  PROVE  \/ UNCHANGED pg
         \/ \E a \in Actors : Accept(load[a]) /\ pc[a] = "sink"
<1>1. ASSUME NEW a \in Actors, Step(a)
      PROVE  UNCHANGED pg \/ (Accept(load[a]) /\ pc[a] = "sink")
  <2>1. CASE Read(a) \/ Claim(a) \/ Begin(a) \/ Finish(a) \/ Persist(a)
    BY <2>1 DEF Read, Claim, Begin, Finish, Persist
  <2>2. CASE Flush(a) \/ Activate(a) \/ Ack(a) \/ Clear(a)
    BY <2>2 DEF Flush, Activate, Ack, Clear
  <2>3. CASE Count(a) \/ Route(a)
    BY <2>3 DEF Count, Route
  <2>4. CASE SinkCommit(a) \/ SinkFail(a)
    BY <2>4 DEF SinkCommit, SinkFail
  <2> QED
    BY <1>1, <2>1, <2>2, <2>3, <2>4 DEF Step
<1>2. ASSUME NEW w \in Workers, Crash(w) \/ Stop(w) \/ Exit(w) PROVE UNCHANGED pg
  BY <1>2 DEF Crash, Stop, Exit, Restart
<1>3. CASE Ingest \/ UNCHANGED vars \/ \E m \in Messages : GrowIdle(m)
  BY <1>3 DEF Ingest, GrowIdle, vars
<1> QED
  BY <1>1, <1>2, <1>3 DEF Next

\* The ledger claim and the row are one transaction: however often an event is
\* redelivered, flushed or shared, its raw row exists exactly when it is claimed.
THEOREM RowsUnique == Spec => []RawRowOnce
<1>1. Init => RawRowOnce
  BY DEF Init, RawRowOnce
<1>2. TypeOK /\ RawRowOnce /\ [Next]_vars => RawRowOnce'
  <2> SUFFICES ASSUME TypeOK, RawRowOnce, [Next]_vars PROVE RawRowOnce'
    OBVIOUS
  <2>1. CASE UNCHANGED pg
    BY <2>1 DEF pg, RawRowOnce
  <2>2. ASSUME NEW a \in Actors, Accept(load[a]) PROVE RawRowOnce'
    BY <2>2 DEF Accept, NewlyAccepted, RawRowOnce, TypeOK, PgType
  <2> QED
    BY <2>1, <2>2, PgChanges
<1> QED
  BY <1>1, <1>2, TypeCorrect, PTL DEF Spec

--------------------------------------------------------------------------------
\* Only a commit makes events wait for activation, only Activate lets them go.
LEMMA ActivationStep ==
  ASSUME TypeOK, TypeOK', ActivationInv, [Next]_vars
  PROVE  ActivationInv'
<1> SUFFICES ASSUME NEW e \in Events
             PROVE  /\ activated'[e] \in {0, 1} /\ (activated'[e] = 1 => e \in ledger')
                    /\ \A b \in Actors : e \in fresh'[b] =>
                         /\ e \in ledger' /\ activated'[e] = 0
                         /\ \A c \in Actors : e \in fresh'[c] => c = b
  BY DEF ActivationInv
<1> DEFINE Goal == /\ activated'[e] \in {0, 1} /\ (activated'[e] = 1 => e \in ledger')
                   /\ \A b \in Actors : e \in fresh'[b] =>
                        /\ e \in ledger' /\ activated'[e] = 0
                        /\ \A c \in Actors : e \in fresh'[c] => c = b
<1> USE DEF TypeOK, TaskType, PgType, HistoryType
<1>a. /\ activated[e] \in {0, 1} /\ (activated[e] = 1 => e \in ledger)
      /\ \A b \in Actors : e \in fresh[b] =>
           /\ e \in ledger /\ activated[e] = 0
           /\ \A c \in Actors : e \in fresh[c] => c = b
  BY DEF ActivationInv
<1>b. ASSUME UNCHANGED activated, ledger \subseteq ledger',
             \A b \in Actors : fresh'[b] \subseteq fresh[b]
      PROVE  Goal
  BY <1>a, <1>b
<1>1. ASSUME NEW a \in Actors, SinkCommit(a) PROVE Goal
  <2>1. ledger' = ledger \cup load[a] /\ UNCHANGED activated
    BY <1>1 DEF SinkCommit, Accept
  <2>2. CASE a \in Loops
    <3>1. fresh' = [fresh EXCEPT ![a] = load[a] \ ledger]
      BY <1>1, <2>2 DEF SinkCommit, ToActivate
    <3>2. CASE e \in ledger
      <4>1. \A b \in Actors : e \in fresh'[b] => e \in fresh[b]
        BY <3>1, <3>2
      <4> QED
        BY <1>a, <2>1, <4>1
    <3>3. CASE e \notin ledger
      <4>1. activated[e] = 0 /\ \A b \in Actors : e \notin fresh[b]
        BY <1>a, <3>3
      <4>2. \A b \in Actors : e \in fresh'[b] => b = a /\ e \in load[a]
        BY <3>1, <4>1
      <4> QED
        BY <2>1, <4>1, <4>2
    <3> QED
      BY <3>2, <3>3
  <2>3. CASE a \notin Loops
    BY <1>1, <2>1, <2>3, <1>b DEF SinkCommit
  <2> QED
    BY <2>2, <2>3
<1>2. ASSUME NEW a \in Actors, Activate(a) PROVE Goal
  <2>1. /\ fresh' = [fresh EXCEPT ![a] = {}] /\ ledger' = ledger
        /\ activated'[e] = IF e \in fresh[a] THEN activated[e] + 1 ELSE activated[e]
    BY <1>2 DEF Activate, pg
  <2>2. CASE e \in fresh[a]
    <3>1. \A b \in Actors : e \notin fresh'[b]
      BY <1>a, <2>1, <2>2
    <3> QED
      BY <1>a, <2>1, <2>2, <3>1
  <2>3. CASE e \notin fresh[a]
    <3>1. \A b \in Actors : e \in fresh'[b] => e \in fresh[b]
      BY <2>1
    <3> QED
      BY <1>a, <2>1, <2>3, <3>1
  <2> QED
    BY <2>2, <2>3
<1>3. ASSUME NEW a \in Actors, SinkFail(a) PROVE Goal
  BY <1>3, <1>b DEF SinkFail, Accept, pg
<1>4. ASSUME NEW a \in Actors, Step(a), ~SinkCommit(a), ~Activate(a), ~SinkFail(a) PROVE Goal
  <2>1. UNCHANGED <<activated, pg, fresh>>
    <3>1. CASE Read(a) \/ Claim(a) \/ Begin(a) \/ Finish(a) \/ Persist(a)
      BY <3>1 DEF Read, Claim, Begin, Finish, Persist
    <3>2. CASE Flush(a) \/ Ack(a) \/ Clear(a)
      BY <3>2 DEF Flush, Ack, Clear
    <3>3. CASE Count(a) \/ Route(a)
      BY <3>3 DEF Count, Route
    <3> QED
      BY <1>4, <3>1, <3>2, <3>3 DEF Step
  <2> QED
    BY <1>b, <2>1 DEF pg
<1>5. ASSUME NEW w \in Workers, Crash(w) \/ Stop(w) \/ Exit(w) PROVE Goal
  <2>1. UNCHANGED <<activated, pg>> /\ \A b \in Actors : fresh'[b] \subseteq fresh[b]
    BY <1>5 DEF Crash, Stop, Exit, Restart
  <2> QED
    BY <1>b, <2>1 DEF pg
<1>6. CASE Ingest \/ UNCHANGED vars \/ \E m \in Messages : GrowIdle(m)
  <2>1. UNCHANGED <<activated, pg, fresh>>
    BY <1>6 DEF Ingest, GrowIdle, vars, process, task
  <2> QED
    BY <1>b, <2>1 DEF pg
<1> QED
  BY <1>1, <1>2, <1>3, <1>4, <1>5, <1>6 DEF Next

\* Downstream callbacks run at most once per event, after its commit: a replayed,
\* shared or concurrently processed event is never activated again.
THEOREM ActivationSafety == Spec => []ActivatedAtMostOnce
<1>1. Init => ActivationInv
  BY DEF Init, ActivationInv
<1>2. TypeOK /\ TypeOK' /\ ActivationInv /\ [Next]_vars => ActivationInv'
  BY ActivationStep
<1>3. ActivationInv => ActivatedAtMostOnce
  BY DEF ActivationInv, ActivatedAtMostOnce
<1> QED
  BY <1>1, <1>2, <1>3, TypeCorrect, PTL DEF Spec

--------------------------------------------------------------------------------
\* What the contract sees of the consumer.
View == [m \in Messages |-> Status(m)]
Safe == ledger \cap registered
Quarantined == {m \in Messages : dlq[m] > 0}
Evicted == {m \in Messages : m < first}

LEMMA StatusOf ==
  ASSUME TypeOK, DeliveryInv, NEW m \in Messages
  PROVE  /\ View[m] = "absent" <=> m > added
         /\ View[m] = "pending" <=> m \in pel
         /\ View[m] = "queued" <=> m \in (lastDelivered + 1)..added
         /\ View[m] = "released" <=> m <= lastDelivered /\ m \notin pel
         /\ View[m] \in {"pending", "released"} <=> m <= lastDelivered
<1>1. /\ m \in Nat /\ added \in Nat /\ lastDelivered \in Nat
      /\ lastDelivered <= added /\ (m \in pel => m <= lastDelivered)
  BY DEF TypeOK, ValkeyType, DeliveryInv, Messages
<1> QED
  BY <1>1 DEF View, Status

LEMMA ViewSame ==
  ASSUME UNCHANGED <<added, pel, lastDelivered>>
  PROVE  UNCHANGED View
BY DEF View, Status

\* Trimming evicts entries for good.
LEMMA Evicting ==
  ASSUME TypeOK, TypeOK', first <= first'
  PROVE  Evicted \subseteq Evicted' /\ Evicted' \subseteq Messages
BY DEF Evicted, Messages, TypeOK, ValkeyType

\* A batch that commits came from delivered entries: they are secured.
LEMMA CommitSecures ==
  ASSUME TypeOK, DeliveryInv, MemoryInv, NEW a \in Actors, Accept(load[a]),
         UNCHANGED <<added, pel, lastDelivered, dlq, first>>
  PROVE  Contract!Secure(load[a]) /\ load[a] \in SUBSET Events
<1>1. ASSUME NEW e \in load[a]
      PROVE  \E m \in Messages : e \in EventsOf[m] /\ View[m] \in {"pending", "released"}
  <2>1. PICK m \in 1..lastDelivered : e \in EventsOf[m]
    BY DEF MemoryInv
  <2>2. m \in Messages /\ m <= lastDelivered
    BY DEF Messages, TypeOK, ValkeyType
  <2> QED
    BY <2>1, <2>2, StatusOf
<1>2. Safe' = Safe \cup load[a]
  BY DEF Safe, Accept, Registrations
<1>3. UNCHANGED <<View, Quarantined, Evicted>>
  BY ViewSame DEF Quarantined, Evicted
<1>4. load[a] \in SUBSET Events
  BY DEF TypeOK, TaskType
<1> QED
  BY <1>1, <1>2, <1>3, <1>4 DEF Contract!Secure, View, Safe, Quarantined, Evicted

\* Entries that leave the pending list, each for a reason the contract accepts.
LEMMA Releasing ==
  ASSUME TypeOK, TypeOK', DeliveryInv, DeliveryInv',
         NEW S \in SUBSET pel, pel' = pel \ S,
         \A m \in S : Durable(m) \/ dlq[m] > 0 \/ m < first,
         UNCHANGED <<added, lastDelivered, first, dlq, ledger, registered>>
  PROVE  Contract!Release
<1> DEFINE R == {m \in Messages : View[m] = "pending" /\
                   (\/ EventsOf[m] # {} /\ EventsOf[m] \subseteq Safe
                    \/ m \in Quarantined \cup Evicted)}
<1>1. S \subseteq Messages
  BY DEF TypeOK, ValkeyType
<1>2. S \in SUBSET R
  <2> SUFFICES ASSUME NEW m \in S PROVE m \in R
    OBVIOUS
  <2>1. m \in Messages /\ View[m] = "pending"
    BY <1>1, StatusOf
  <2> QED
    BY <1>1, <2>1 DEF Durable, Safe, Quarantined, Evicted
<1>3. View' = [m \in Messages |-> IF m \in S THEN "released" ELSE View[m]]
  <2> SUFFICES ASSUME NEW m \in Messages
               PROVE  Status(m)' = IF m \in S THEN "released" ELSE Status(m)
    BY DEF View
  <2>1. m \in S => m <= lastDelivered /\ m <= added
    BY DEF DeliveryInv, TypeOK, ValkeyType
  <2> QED
    BY <2>1 DEF Status, TypeOK, ValkeyType, Messages
<1>4. UNCHANGED <<Safe, Quarantined, Evicted>>
  BY DEF Safe, Quarantined, Evicted
<1> HIDE DEF R
<1> QED
  BY <1>2, <1>3, <1>4
     DEF R, Contract!Release, Contract!Releasable, View, Safe, Quarantined, Evicted

\* A first delivery: what XREADGROUP hands out becomes pending, and an entry the
\* last-delivered-id passes without it was trimmed.
LEMMA ReadDelivers ==
  ASSUME TypeOK, TypeOK', DeliveryInv, NEW a \in Actors, Read(a)
  PROVE  Contract!Deliver
<1> DEFINE S == Prefix(Undelivered, ReadCount)
           K == {m \in Messages : lastDelivered < m /\ m <= lastDelivered' /\ m \notin S}
           Q == {m \in Messages : View[m] = "queued" /\ m \notin Evicted}
           P == {m \in Messages : View[m] = "queued" /\ m \in Evicted}
<1>1. /\ lastDelivered' \in S /\ \A k \in S : k <= lastDelivered'
      /\ pel' = pel \cup S
      /\ UNCHANGED <<added, first, dlq, ledger, registered>>
  BY DEF Read, DeliveredPending, pg
<1>2. \A m \in S : m \in Messages /\ lastDelivered < m /\ first <= m /\ m <= added
  BY DEF Prefix, Undelivered
<1>3. \A m \in K : m < first
  <2> SUFFICES ASSUME NEW m \in K PROVE m < first
    OBVIOUS
  <2>1. ~(first <= m)
    BY ReadCovers
  <2> QED
    BY <2>1 DEF Messages, TypeOK, ValkeyType
<1> HIDE DEF S
<1>0. /\ Messages \subseteq Nat /\ added \in Nat /\ lastDelivered \in Nat
      /\ lastDelivered' \in Nat /\ first \in Nat
  BY DEF Messages, TypeOK, ValkeyType
<1>4. S \in SUBSET Q
  <2> SUFFICES ASSUME NEW m \in S PROVE m \in Q
    OBVIOUS
  <2>0. m \in Messages /\ lastDelivered < m /\ first <= m /\ m <= added
    BY <1>2
  <2>1. m \in Nat /\ m \in (lastDelivered + 1)..added /\ ~(m < first)
    BY <1>0, <2>0
  <2>2. View[m] = "queued" /\ m \notin Evicted
    BY <2>0, <2>1, StatusOf DEF Evicted
  <2> QED
    BY <2>0, <2>2
<1>5. K \in SUBSET P
  <2> SUFFICES ASSUME NEW m \in K PROVE m \in P
    OBVIOUS
  <2>1. m \in Messages /\ m \in (lastDelivered + 1)..added /\ m \in Evicted
    BY <1>0, <1>1, <1>2, <1>3 DEF Evicted
  <2> QED
    BY <2>1, StatusOf
<1>6. View' = [m \in Messages |-> IF m \in S THEN "pending"
                                 ELSE IF m \in K THEN "released"
                                 ELSE View[m]]
  <2> SUFFICES ASSUME NEW m \in Messages
               PROVE  Status(m)' = IF m \in S THEN "pending"
                                   ELSE IF m \in K THEN "released"
                                   ELSE Status(m)
    BY DEF View
  <2>1. m \in pel => m <= lastDelivered /\ m \notin S
    BY <1>0, <1>2 DEF DeliveryInv
  <2>2. CASE m \in S
    BY <1>0, <1>1, <1>2, <2>2 DEF Status
  <2>3. CASE m \in K
    <3>1. m <= added /\ m \notin pel'
      BY <1>0, <1>1, <1>2, <2>1, <2>3
    <3> QED
      BY <1>0, <1>1, <2>3, <3>1 DEF Status
  <2>4. CASE m \notin S /\ m \notin K
    <3>1. lastDelivered < m <=> lastDelivered' < m
      BY <1>0, <1>1, <1>2, <2>4
    <3> QED
      BY <1>0, <1>1, <2>4, <3>1 DEF Status
  <2> QED
    BY <2>2, <2>3, <2>4
<1>7. UNCHANGED <<Safe, Quarantined, Evicted>>
  BY <1>1 DEF Safe, Quarantined, Evicted
<1> HIDE DEF K, Q, P
<1> QED
  BY <1>4, <1>5, <1>6, <1>7
     DEF Q, P, Contract!Deliver, View, Safe, Quarantined, Evicted

\* Every step of the consumer is a step of the contract, or is invisible to it.
LEMMA ContractStep ==
  ASSUME AckInv, AckInv', MemoryInv, [Next]_vars
  PROVE  [Contract!Next]_Contract!vars
<1>0. /\ TypeOK /\ TypeOK' /\ DeliveryInv /\ DeliveryInv' /\ TaskInv /\ Advances
      /\ first <= first'
  BY StepAdvances DEF AckInv, Advances
<1>i. UNCHANGED <<added, first, lastDelivered, pel, dlq, ledger, registered>> =>
        UNCHANGED Contract!vars
  BY ViewSame DEF Contract!vars, View
<1>1. CASE Ingest
  <2>1. /\ added' = added + 1 /\ added < N
        /\ UNCHANGED <<lastDelivered, pel, dlq, ledger, registered>>
    BY <1>1 DEF Ingest, pg
  <2>2. added + 1 \in Messages /\ added \in Nat /\ Messages \subseteq Nat
    BY <1>0, <2>1 DEF Messages, TypeOK, ValkeyType
  <2>m. PICK m \in Messages : m = added + 1
    BY <2>2
  <2>3. View[m] = "absent"
    BY <1>0, <2>2, <2>m, StatusOf
  <2>4. View' = [View EXCEPT ![m] = "queued"]
    <3> SUFFICES ASSUME NEW k \in Messages
                 PROVE  Status(k)' = IF k = m THEN "queued" ELSE Status(k)
      BY <2>2 DEF View
    <3>1. k \in Nat /\ (k > added' <=> k > added /\ k # m) /\ (k = m => k \notin pel)
      BY <1>0, <2>1, <2>2, <2>m DEF DeliveryInv, TypeOK, ValkeyType
    <3>2. k = m => k > lastDelivered /\ ~(k > added')
      BY <1>0, <2>1, <2>2, <2>m DEF DeliveryInv, TypeOK, ValkeyType
    <3> QED
      BY <2>1, <3>1, <3>2 DEF Status
  <2>5. Evicted \subseteq Evicted' /\ Evicted' \subseteq Messages
    BY <1>0, Evicting
  <2>6. UNCHANGED <<Safe, Quarantined>>
    BY <2>1 DEF Safe, Quarantined
  <2>7. Contract!Accept(m)
    BY <2>3, <2>4, <2>5, <2>6 DEF Contract!Accept, View, Safe, Quarantined, Evicted
  <2> QED
    BY <2>7 DEF Contract!Next
<1>2. ASSUME NEW a \in Actors, Read(a) PROVE Contract!Next
  BY <1>0, <1>2, ReadDelivers DEF Contract!Next
<1>3. ASSUME NEW a \in Actors, Claim(a) PROVE Contract!Next
  <2> DEFINE S == {m \in pel : m \in Prefix(Claimable, ClaimCount) /\ m < first}
  <2>1. /\ pel' = {m \in pel : m \in Prefix(Claimable, ClaimCount) => m >= first}
        /\ UNCHANGED <<added, lastDelivered, first, dlq, ledger, registered>>
    BY <1>3 DEF Claim, pg
  <2>2. \A m \in pel : m >= first <=> ~(m < first)
    BY <1>0 DEF TypeOK, ValkeyType, Messages
  <2>3. pel' = pel \ S
    BY <2>1, <2>2
  <2>4. S \in SUBSET pel /\ \A m \in S : m < first
    OBVIOUS
  <2> HIDE DEF S
  <2> QED
    BY <1>0, <2>1, <2>3, <2>4, Releasing DEF Contract!Next
<1>4. ASSUME NEW a \in Actors, Ack(a) PROVE [Contract!Next]_Contract!vars
  <2>1. /\ pel' = pel \/ pel' = pel \ {cur[a]}
        /\ UNCHANGED <<added, lastDelivered, first, dlq, ledger, registered>>
        /\ pc[a] \in {"ack", "ackDlq"}
    BY <1>4 DEF Ack, pg
  <2>2. Durable(cur[a]) \/ dlq[cur[a]] > 0
    BY <1>0, <2>1 DEF TaskInv, TaskAt
  <2>3. CASE pel' = pel
    BY <1>i, <2>1, <2>3
  <2>4. CASE pel' # pel
    <3>1. {cur[a]} \in SUBSET pel /\ pel' = pel \ {cur[a]}
      BY <2>1, <2>4
    <3>2. \A m \in {cur[a]} : Durable(m) \/ dlq[m] > 0 \/ m < first
      BY <2>2
    <3> QED
      BY <1>0, <2>1, <3>1, <3>2, Releasing DEF Contract!Next
  <2> QED
    BY <2>3, <2>4
<1>5. ASSUME NEW a \in Actors, SinkCommit(a) \/ SinkFail(a)
      PROVE  [Contract!Next]_Contract!vars
  <2>1. /\ Accept(load[a]) \/ UNCHANGED <<ledger, registered>>
        /\ UNCHANGED <<added, first, lastDelivered, pel, dlq>>
    BY <1>5 DEF SinkCommit, SinkFail, valkey, pg
  <2>2. CASE Accept(load[a])
    BY <1>0, <2>1, <2>2, CommitSecures DEF Contract!Next
  <2> QED
    BY <1>i, <2>1, <2>2
<1>6. ASSUME NEW a \in Actors, Route(a) PROVE [Contract!Next]_Contract!vars
  <2>0. /\ pc[a] = "route"
        /\ dlq' = dlq \/ dlq' = [dlq EXCEPT ![cur[a]] = dlq[cur[a]] + 1]
        /\ UNCHANGED <<added, lastDelivered, first, pel, ledger, registered>>
    BY <1>6 DEF Route, pg
  <2>2. a \in Loops /\ cur[a] >= 1 /\ cur[a] <= lastDelivered /\ cur[a] \in 0..N
    BY <1>0, <2>0 DEF TaskInv, TaskAt, TypeOK, TaskType
  <2>m. PICK m \in Messages : m = cur[a]
    BY <2>2 DEF Messages
  <2>1. dlq' = dlq \/ dlq' = [dlq EXCEPT ![m] = dlq[m] + 1]
    BY <2>0, <2>m
  <2>3. View[m] \in {"pending", "released"}
    BY <1>0, <2>2, <2>m, StatusOf
  <2>4. CASE dlq' = dlq
    BY <1>i, <2>0, <2>4
  <2>5. CASE dlq' = [dlq EXCEPT ![m] = dlq[m] + 1]
    <3>1. \A k \in Messages : dlq[k] \in Nat
      BY <1>0 DEF TypeOK, ValkeyType
    <3>2. \A k \in Messages : dlq'[k] > 0 <=> dlq[k] > 0 \/ k = m
      BY <1>0, <2>5, <3>1 DEF TypeOK, ValkeyType
    <3>3. Quarantined' = Quarantined \cup {m}
      BY <3>2 DEF Quarantined
    <3>4. UNCHANGED <<View, Safe, Evicted>>
      BY <2>0, ViewSame DEF Safe, Evicted
    <3>5. Contract!Quarantine(m)
      BY <2>3, <3>3, <3>4 DEF Contract!Quarantine, View, Safe, Quarantined, Evicted
    <3> QED
      BY <3>5 DEF Contract!Next
  <2> QED
    BY <2>1, <2>4, <2>5
<1>7. ASSUME NEW a \in Actors, Finish(a) PROVE Contract!Next
  <2>1. UNCHANGED <<added, lastDelivered, pel, dlq, ledger, registered>>
    BY <1>7 DEF Finish, pg
  <2>2. Evicted \subseteq Evicted' /\ Evicted' \subseteq Messages
    BY <1>0, Evicting
  <2>3. UNCHANGED <<View, Safe, Quarantined>>
    BY <2>1, ViewSame DEF Safe, Quarantined
  <2>4. Contract!Evict
    BY <2>2, <2>3 DEF Contract!Evict, View, Safe, Quarantined, Evicted
  <2> QED
    BY <2>4 DEF Contract!Next
<1>8. ASSUME NEW a \in Actors,
             Begin(a) \/ Persist(a) \/ Flush(a) \/ Activate(a) \/ Clear(a) \/ Count(a)
      PROVE  UNCHANGED Contract!vars
  <2>1. CASE Begin(a) \/ Persist(a) \/ Flush(a) \/ Activate(a)
    BY <1>i, <2>1 DEF Begin, Persist, Flush, Activate, valkey, pg
  <2>2. CASE Clear(a) \/ Count(a)
    BY <1>i, <2>2 DEF Clear, Count, pg
  <2> QED
    BY <1>8, <2>1, <2>2
<1>9. ASSUME NEW w \in Workers, Crash(w) \/ Stop(w) \/ Exit(w)
      PROVE  UNCHANGED Contract!vars
  BY <1>9, <1>i DEF Crash, Stop, Exit, Restart, valkey, pg
<1>10. CASE UNCHANGED vars \/ \E m \in Messages : GrowIdle(m)
  BY <1>10, <1>i DEF GrowIdle, vars, valkey, pg
<1> QED
  BY <1>1, <1>2, <1>3, <1>4, <1>5, <1>6, <1>7, <1>8, <1>9, <1>10 DEF Next, Step

\* The consumer implements the contract of the ingest stream: at-least-once
\* delivery, and no release without commit, quarantine or eviction.
THEOREM Refinement == Spec => KeepsContract
<1>1. Init => AckInv /\ MemoryInv
  BY AckInit DEF Init, MemoryInv
<1>2. AckInv /\ MemoryInv /\ [Next]_vars => AckInv' /\ MemoryInv'
  BY AckStep, StepAdvances, MemoryInvStep DEF AckInv
<1>3. Init => Contract!Init
  BY DEF Init, Contract!Init, Status, Messages
<1>4. AckInv /\ AckInv' /\ MemoryInv /\ [Next]_vars => [Contract!Next]_Contract!vars
  BY ContractStep
<1> QED
  BY <1>1, <1>2, <1>3, <1>4, PTL DEF Spec, KeepsContract, Contract!Spec
================================================================================
