-------------------------- MODULE WebhookOutboxProofs --------------------------
(***************************************************************************)
(* Safety of the webhook worker for any alerts, workers, limits and          *)
(* failures: delivered means received, failed means refused or exhausted,    *)
(* and only the holder of a lease concludes a row.                           *)
(***************************************************************************)
EXTENDS WebhookOutbox, TLAPS

USE OutboxAssumption, WebhookAssumption

Ends == {"delivered", "failed"}

--------------------------------------------------------------------------------
(***************************************************************************)
(* What each statement on pipeline_outbox preserves: the shape of a row and  *)
(* the agreement of a lease with the claim of its holder.                    *)
(***************************************************************************)

\* An empty table satisfies both.
LEMMA RowInitKeeps ==
  ASSUME RowInit PROVE RowType(Ends) /\ LeaseInv
BY DEF RowInit, RowType, LeaseInv, Owns

\* An enqueue creates or refreshes a waiting row and leaves rows in flight alone.
LEMMA EnqueueKeeps ==
  ASSUME RowType(Ends), LeaseInv,
         NEW d \in Deliveries, NEW now \in BOOLEAN, Enqueue(d, now)
  PROVE  RowType(Ends)' /\ LeaseInv'
<1>1. RowType(Ends)'
  BY DEF Enqueue, RowType, claim, Ends
<1>2. \A e \in Deliveries :
        /\ status'[e] = "processing" <=> status[e] = "processing"
        /\ status[e] = "processing" => accepted'[e] = accepted[e]
        /\ accepted'[e] >= accepted[e]
  BY DEF Enqueue, Refreshable, RowType
<1>3. \A e \in Deliveries :
        /\ status'[e] = "processing" <=> lockedBy'[e] # None
        /\ status'[e] = "absent" <=> accepted'[e] = 0
        /\ status'[e] \in {"pending", "retry", "processing"} => payload'[e] = accepted'[e]
  BY <1>2 DEF Enqueue, Refreshable, RowType, LeaseInv
<1>4. ASSUME NEW w \in Workers, held'[w] # None
      PROVE  /\ body'[w] \in 1..accepted'[held'[w]]
             /\ Owns(w)' => seen'[w] = attempts'[held'[w]] /\ body'[w] = accepted'[held'[w]]
  <2>1. held'[w] = held[w] /\ held[w] \in Deliveries /\ body'[w] = body[w] /\ seen'[w] = seen[w]
    BY <1>4 DEF Enqueue, claim, RowType
  <2>2. body[w] \in 1..accepted[held[w]] /\ (Owns(w) => status[held[w]] = "processing")
    BY <1>4, <2>1 DEF LeaseInv, Owns
  <2> QED
    BY <1>2, <1>4, <2>1, <2>2 DEF Enqueue, LeaseInv, Owns, RowType
<1> QED
  BY <1>1, <1>3, <1>4 DEF LeaseInv

\* Time passes without touching who owns what.
LEMMA BecomeDueKeeps ==
  ASSUME RowType(Ends), LeaseInv, NEW d \in Deliveries, BecomeDue(d)
  PROVE  RowType(Ends)' /\ LeaseInv'
BY DEF BecomeDue, RowType, LeaseInv, Owns, claim

\* A lease that passes leaves the row with its holder until another claim.
LEMMA ExpireKeeps ==
  ASSUME RowType(Ends), LeaseInv, NEW d \in Deliveries, Expire(d)
  PROVE  RowType(Ends)' /\ LeaseInv'
BY DEF Expire, RowType, LeaseInv, Owns, claim

\* A lease takes the row away from whoever held it before.
LEMMA LeaseKeeps ==
  ASSUME RowType(Ends), LeaseInv,
         NEW w \in Workers, NEW d \in Deliveries, held[w] = None, Lease(w, d),
         Remember(w, d) \/ UNCHANGED claim \/ Forget(w)
  PROVE  RowType(Ends)' /\ LeaseInv'
<1>1. RowType(Ends)'
  BY DEF Lease, Remember, Forget, claim, RowType, Ends
<1>2. status[d] \notin {"absent"} /\ payload[d] = accepted[d] /\ accepted[d] # 0
  BY DEF Lease, Eligible, LeaseInv
<1>3. \A e \in Deliveries :
        /\ status'[e] = "processing" <=> lockedBy'[e] # None
        /\ status'[e] = "absent" <=> accepted'[e] = 0
        /\ status'[e] \in {"pending", "retry", "processing"} => payload'[e] = accepted'[e]
  BY <1>2 DEF Lease, RowType, LeaseInv
<1>4. ASSUME NEW v \in Workers, held'[v] # None
      PROVE  /\ body'[v] \in 1..accepted'[held'[v]]
             /\ Owns(v)' => seen'[v] = attempts'[held'[v]] /\ body'[v] = accepted'[held'[v]]
  <2>1. CASE v = w
    <3>1. Remember(w, d)
      BY <1>4, <2>1 DEF Forget, claim, RowType
    <3> QED
      BY <1>2, <2>1, <3>1 DEF Remember, Lease, RowType
  <2>2. CASE v # w
    <3>1. held'[v] = held[v] /\ seen'[v] = seen[v] /\ body'[v] = body[v]
      BY <2>2 DEF Remember, Forget, claim, RowType
    <3>2. Owns(v)' => Owns(v)
      BY <1>4, <2>2, <3>1 DEF Owns, Lease, RowType
    <3> QED
      BY <1>4, <3>1, <3>2 DEF Lease, LeaseInv
  <2> QED
    BY <2>1, <2>2
<1> QED
  BY <1>1, <1>3, <1>4 DEF LeaseInv

\* A worker lets go of its claim.
LEMMA ForgetKeeps ==
  ASSUME RowType(Ends), LeaseInv, NEW w \in Workers, Forget(w), UNCHANGED <<row, accepted>>
  PROVE  RowType(Ends)' /\ LeaseInv'
<1>1. \A v \in Workers : held'[v] # None =>
        held'[v] = held[v] /\ seen'[v] = seen[v] /\ body'[v] = body[v]
  BY DEF Forget, RowType
<1>2. RowType(Ends)'
  BY DEF Forget, RowType, row
<1> QED
  BY <1>1, <1>2 DEF LeaseInv, Owns, row

\* The guarded updates conclude the row only for its owner.
LEMMA SuccessKeeps ==
  ASSUME RowType(Ends), LeaseInv, NEW s \in Ends,
         NEW w \in Workers, held[w] # None, RecordSuccess(w, s),
         Forget(w) \/ UNCHANGED claim
  PROVE  RowType(Ends)' /\ LeaseInv'
<1>0. held[w] \in Deliveries
  BY DEF RowType
<1>1. RowType(Ends)'
  <2>1. held' \in [Workers -> Deliveries \cup {None}] /\ seen' \in [Workers -> Nat]
          /\ body' \in [Workers -> 0..MaxOffers]
    BY DEF Forget, claim, RowType
  <2>2. CASE Owns(w)
    <3>1. status' \in [Deliveries -> {"absent", "pending", "retry", "processing"} \cup Ends]
      BY <1>0, <2>2 DEF RecordSuccess, RowType
    <3>2. payload' \in [Deliveries -> 0..MaxOffers]
      BY <1>0, <2>2 DEF RecordSuccess, RowType
    <3>e. expired' = [expired EXCEPT ![held[w]] = FALSE]
      BY <2>2 DEF RecordSuccess, Unlock
    <3>4. expired' \in [Deliveries -> BOOLEAN]
      BY <1>0, <3>e DEF RowType
    <3>3. lockedBy' \in [Deliveries -> Workers \cup {None}]
      BY <1>0, <2>2 DEF RecordSuccess, Unlock, RowType
    <3> QED
      BY <2>1, <3>1, <3>2, <3>3, <3>4 DEF RecordSuccess, RowType
  <2>3. CASE ~Owns(w)
    BY <2>1, <2>3 DEF RecordSuccess, RowType
  <2> QED
    BY <2>2, <2>3
<1>2. CASE ~Owns(w)
  <2>1. UNCHANGED <<row, accepted>>
    BY <1>2 DEF RecordSuccess, row
  <2> QED
    BY <1>1, <2>1, ForgetKeeps DEF LeaseInv, Owns, row, claim
<1>3. CASE Owns(w)
  <2>1. \A e \in Deliveries :
          /\ status'[e] = "processing" <=> lockedBy'[e] # None
          /\ status'[e] = "absent" <=> accepted'[e] = 0
          /\ status'[e] \in {"pending", "retry", "processing"} => payload'[e] = accepted'[e]
    BY <1>0, <1>3 DEF RecordSuccess, Unlock, Owns, RowType, LeaseInv, Ends
  <2>2. ASSUME NEW v \in Workers, held'[v] # None
        PROVE  /\ body'[v] \in 1..accepted'[held'[v]]
               /\ Owns(v)' => seen'[v] = attempts'[held'[v]] /\ body'[v] = accepted'[held'[v]]
    <3>1. held'[v] = held[v] /\ seen'[v] = seen[v] /\ body'[v] = body[v]
      BY <2>2 DEF Forget, claim, RowType
    <3>2. Owns(v)' => Owns(v)
      BY <1>0, <1>3, <2>2, <3>1 DEF Owns, RecordSuccess, Unlock, RowType
    <3> QED
      BY <2>2, <3>1, <3>2 DEF RecordSuccess, LeaseInv
  <2> QED
    BY <1>1, <2>1, <2>2 DEF LeaseInv
<1> QED
  BY <1>2, <1>3

\* A failure ends the claim of its worker, which counted from the row it owned.
LEMMA FailureKeeps ==
  ASSUME RowType(Ends), LeaseInv, NEW permanent \in BOOLEAN,
         NEW w \in Workers, held[w] # None, RecordFailure(w, permanent), Forget(w)
  PROVE  RowType(Ends)' /\ LeaseInv'
<1>0. held[w] \in Deliveries /\ seen[w] \in Nat
  BY DEF RowType
<1>1. RowType(Ends)'
  <2>1. held' \in [Workers -> Deliveries \cup {None}] /\ seen' \in [Workers -> Nat]
          /\ body' \in [Workers -> 0..MaxOffers]
    BY DEF Forget, RowType
  <2>2. CASE Owns(w)
    <3>1. status' \in [Deliveries -> {"absent", "pending", "retry", "processing"} \cup Ends]
      BY <1>0, <2>2 DEF RecordFailure, RowType, Ends
    <3>2. attempts' \in [Deliveries -> Nat]
      BY <1>0, <2>2 DEF RecordFailure, RowType
    <3>d. due' = [due EXCEPT ![held[w]] = FALSE]
      BY <2>2 DEF RecordFailure
    <3>5. due' \in [Deliveries -> BOOLEAN]
      BY <1>0, <3>d DEF RowType
    <3>e. expired' = [expired EXCEPT ![held[w]] = FALSE]
      BY <2>2 DEF RecordFailure, Unlock
    <3>3. expired' \in [Deliveries -> BOOLEAN]
      BY <1>0, <3>e DEF RowType
    <3>4. lockedBy' \in [Deliveries -> Workers \cup {None}]
      BY <1>0, <2>2 DEF RecordFailure, Unlock, RowType
    <3> QED
      BY <2>1, <3>1, <3>2, <3>3, <3>4, <3>5 DEF RecordFailure, RowType
  <2>3. CASE ~Owns(w)
    BY <2>1, <2>3 DEF RecordFailure, RowType
  <2> QED
    BY <2>2, <2>3
<1>2. CASE ~Owns(w)
  <2>1. UNCHANGED <<row, accepted>>
    BY <1>2 DEF RecordFailure, row
  <2> QED
    BY <2>1, ForgetKeeps
<1>3. CASE Owns(w)
  <2>1. \A e \in Deliveries :
          /\ status'[e] = "processing" <=> lockedBy'[e] # None
          /\ status'[e] = "absent" <=> accepted'[e] = 0
          /\ status'[e] \in {"pending", "retry", "processing"} => payload'[e] = accepted'[e]
    BY <1>0, <1>3 DEF RecordFailure, Unlock, Owns, RowType, LeaseInv, Ends
  <2>2. ASSUME NEW v \in Workers, held'[v] # None
        PROVE  /\ body'[v] \in 1..accepted'[held'[v]]
               /\ Owns(v)' => seen'[v] = attempts'[held'[v]] /\ body'[v] = accepted'[held'[v]]
    <3>1. v # w /\ held'[v] = held[v] /\ seen'[v] = seen[v] /\ body'[v] = body[v]
      BY <2>2 DEF Forget, RowType
    <3>2. Owns(v)' => Owns(v) /\ held[v] # held[w]
      BY <1>0, <1>3, <2>2, <3>1 DEF Owns, RecordFailure, Unlock, RowType
    <3> QED
      BY <1>0, <2>2, <3>1, <3>2 DEF RecordFailure, LeaseInv, RowType
  <2> QED
    BY <1>1, <2>1, <2>2 DEF LeaseInv
<1> QED
  BY <1>2, <1>3

RowInv == RowType(Ends) /\ LeaseInv

LEMMA RowsSame ==
  ASSUME RowInv, UNCHANGED <<row, claim, accepted>> PROVE RowInv'
BY DEF RowInv, RowType, LeaseInv, Owns, row, claim

LEMMA PermanentBool == \A w \in Workers : Permanent(w) \in BOOLEAN
BY DEF Permanent

\* Steps of the worker keep the shape of rows and claims and their agreement.
LEMMA RowStep ==
  ASSUME RowInv, WorkerType, [Next]_vars PROVE RowInv'
<1>0. RowType(Ends) /\ LeaseInv
  BY DEF RowInv
<1>1. ASSUME NEW d \in Deliveries, Offer(d) PROVE RowInv'
  BY <1>0, <1>1, EnqueueKeeps DEF Offer, RowInv
<1>2. ASSUME NEW d \in Deliveries, Wait(d) PROVE RowInv'
  BY <1>0, <1>2, BecomeDueKeeps DEF Wait, RowInv
<1>3. ASSUME NEW d \in Deliveries, Lapse(d) PROVE RowInv'
  BY <1>0, <1>3, ExpireKeeps DEF Lapse, RowInv
<1>4. ASSUME NEW w \in Workers, Claim(w) PROVE RowInv'
  BY <1>0, <1>4, LeaseKeeps DEF Claim, WorkerType, RowInv
<1>5. ASSUME NEW w \in Workers, ClaimFails(w) PROVE RowInv'
  <2>1. Forget(w) /\ held[w] = None
    BY <1>5 DEF ClaimFails, EndTask, WorkerType
  <2>2. ASSUME NEW d \in Deliveries, Lease(w, d) PROVE RowInv'
    BY <1>0, <2>1, <2>2, LeaseKeeps DEF RowInv
  <2>3. CASE UNCHANGED <<row, accepted>>
    BY <1>0, <2>1, <2>3, ForgetKeeps DEF RowInv
  <2> QED
    BY <1>5, <2>2, <2>3 DEF ClaimFails
<1>6. ASSUME NEW w \in Workers, Send(w) \/ SendFails(w) \/ Reject(w) \/ Restart(w)
      PROVE  RowInv'
  BY <1>6, RowsSame DEF Send, SendFails, Reject, Restart
<1>7. ASSUME NEW w \in Workers, Acknowledge(w) PROVE RowInv'
  BY <1>0, <1>7, SuccessKeeps
  DEF Acknowledge, Answered, WorkerType, Ends, RowInv
<1>8. ASSUME NEW w \in Workers, AcknowledgeFails(w) PROVE RowInv'
  <2>1. held[w] # None /\ UNCHANGED claim
    BY <1>8 DEF AcknowledgeFails, WorkerType
  <2>2. CASE RecordSuccess(w, "delivered")
    BY <1>0, <2>1, <2>2, SuccessKeeps DEF Ends, RowInv
  <2>3. CASE UNCHANGED <<row, accepted>>
    BY <2>1, <2>3, RowsSame
  <2> QED
    BY <1>8, <2>2, <2>3 DEF AcknowledgeFails
<1>9. ASSUME NEW w \in Workers, Record(w) PROVE RowInv'
  BY <1>0, <1>9, FailureKeeps, PermanentBool DEF Record, WorkerType, RowInv
<1>10. ASSUME NEW w \in Workers, RecordFails(w) PROVE RowInv'
  <2>1. Forget(w) /\ held[w] # None
    BY <1>10 DEF RecordFails, EndTask, WorkerType
  <2>2. CASE RecordFailure(w, Permanent(w))
    BY <1>0, <2>1, <2>2, FailureKeeps, PermanentBool DEF RowInv
  <2>3. CASE UNCHANGED <<row, accepted>>
    BY <1>0, <2>1, <2>3, ForgetKeeps DEF RowInv
  <2> QED
    BY <1>10, <2>2, <2>3 DEF RecordFails
<1>11. ASSUME NEW w \in Workers, Crash(w) PROVE RowInv'
  BY <1>0, <1>11, ForgetKeeps DEF Crash, EndTask, RowInv, row
<1>12. CASE UNCHANGED vars
  BY <1>12, RowsSame DEF vars
<1> QED
  BY <1>1, <1>2, <1>3, <1>4, <1>5, <1>6, <1>7, <1>8, <1>9, <1>10, <1>11, <1>12
  DEF Next, Work

--------------------------------------------------------------------------------
\* A claim holds a payload that was accepted.
LEMMA ClaimedPayload ==
  ASSUME RowInv, NEW w \in Workers, held[w] # None
  PROVE  /\ held[w] \in Deliveries /\ seen[w] \in Nat
         /\ body[w] \in 1..accepted[held[w]] /\ body[w] \in 1..MaxOffers
BY DEF RowInv, RowType, LeaseInv

\* A worker is idle exactly without a claim, and ends with its task.
LEMMA WorkerTypeStep ==
  ASSUME RowInv, WorkerType, [Next]_vars PROVE WorkerType'
<1> USE DEF WorkerType, Fault
<1>0. seen \in [Workers -> Nat] /\ held \in [Workers -> Deliveries \cup {None}]
  BY DEF RowInv, RowType
<1>1. ASSUME NEW d \in Deliveries, Offer(d) \/ Wait(d) PROVE WorkerType'
  BY <1>1 DEF Offer, Wait, Enqueue, BecomeDue, claim, history, bounds
<1>2. ASSUME NEW d \in Deliveries, Lapse(d) PROVE WorkerType'
  BY <1>2 DEF Lapse, Expire, claim, history
<1>3. ASSUME NEW w \in Workers, Claim(w) PROVE WorkerType'
  BY <1>0, <1>3 DEF Claim, Remember, Enter, history, bounds
<1>4. ASSUME NEW w \in Workers, EndTask(w), UNCHANGED <<received, history, stalls>>,
             faults > 0 /\ faults' = faults - 1
      PROVE  WorkerType'
  BY <1>0, <1>4 DEF EndTask, Enter, Forget, history
<1>5. ASSUME NEW w \in Workers, ClaimFails(w) \/ RecordFails(w) \/ Crash(w) PROVE WorkerType'
  BY <1>4, <1>5 DEF ClaimFails, RecordFails, Crash
<1>6. ASSUME NEW w \in Workers, Send(w) PROVE WorkerType'
  BY <1>6, ClaimedPayload DEF Send, Message, Enter, claim, history, bounds
<1>7. ASSUME NEW w \in Workers, SendFails(w) PROVE WorkerType'
  BY <1>7, ClaimedPayload DEF SendFails, Message, Raise, Enter, claim, history, bounds
<1>8. ASSUME NEW w \in Workers, Reject(w) PROVE WorkerType'
  BY <1>8, ClaimedPayload DEF Reject, Raise, Enter, claim, history, bounds
<1>9. ASSUME NEW w \in Workers, Acknowledge(w) \/ Record(w) PROVE WorkerType'
  BY <1>0, <1>9 DEF Acknowledge, Record, Enter, Forget, history, bounds
<1>10. ASSUME NEW w \in Workers, AcknowledgeFails(w) PROVE WorkerType'
  BY <1>10, ClaimedPayload DEF AcknowledgeFails, Raise, Enter, claim
<1>11. ASSUME NEW w \in Workers, Restart(w) PROVE WorkerType'
  BY <1>11 DEF Restart, claim, history, bounds
<1>12. CASE UNCHANGED vars
  BY <1>12 DEF vars, claim, history, bounds
<1> QED
  BY <1>1, <1>2, <1>3, <1>5, <1>6, <1>7, <1>8, <1>9, <1>10, <1>11, <1>12 DEF Next, Work

--------------------------------------------------------------------------------
\* What the destination got, the failures and the refusals only grow.
LEMMA Growth ==
  ASSUME RowInv, WorkerType, [Next]_vars
  PROVE  /\ received \subseteq received' /\ refused \subseteq refused'
         /\ \A d \in Deliveries : failures'[d] \in Nat /\ failures[d] <= failures'[d]
<1>1. ASSUME NEW d \in Deliveries, Offer(d) \/ Wait(d) \/ Lapse(d)
      PROVE  UNCHANGED <<received, history>>
  BY <1>1 DEF Offer, Wait, Lapse
<1>2. ASSUME NEW w \in Workers,
             \/ Claim(w) \/ ClaimFails(w) \/ Acknowledge(w)
             \/ Record(w) \/ RecordFails(w) \/ Crash(w) \/ Restart(w)
      PROVE  UNCHANGED <<received, history>>
  BY <1>2 DEF Claim, ClaimFails, Acknowledge, Record, RecordFails, Crash, Restart
<1>3. CASE UNCHANGED <<received, history>>
  BY <1>3 DEF history, WorkerType
<1>4. ASSUME NEW w \in Workers, Send(w) PROVE UNCHANGED history /\ received \subseteq received'
  BY <1>4 DEF Send
<1>5. ASSUME NEW w \in Workers, SendFails(w) \/ Reject(w) \/ AcknowledgeFails(w)
      PROVE  /\ received \subseteq received' /\ refused \subseteq refused'
             /\ failures' = [failures EXCEPT ![held[w]] = @ + 1]
  BY <1>5 DEF SendFails, Reject, AcknowledgeFails, Raise
<1>6. CASE UNCHANGED vars
  BY <1>3, <1>6 DEF vars
<1>7. ASSUME NEW w \in Workers, SendFails(w) \/ Reject(w) \/ AcknowledgeFails(w)
      PROVE  \A d \in Deliveries : failures'[d] \in Nat /\ failures[d] <= failures'[d]
  BY <1>5, <1>7 DEF WorkerType
<1>8. CASE UNCHANGED history /\ received \subseteq received'
  BY <1>8 DEF history, WorkerType
<1> QED
  BY <1>1, <1>2, <1>3, <1>4, <1>5, <1>6, <1>7, <1>8 DEF Next, Work

\* Attempts are never more than the failures that were raised, and every stage of
\* a worker has its evidence.
LEMMA HistoryStep ==
  ASSUME RowInv, WorkerType, HistoryInv, [Next]_vars PROVE HistoryInv'
<1>0. RowType(Ends) /\ LeaseInv
  BY DEF RowInv
<1>g. /\ received \subseteq received' /\ refused \subseteq refused'
      /\ \A d \in Deliveries : failures'[d] \in Nat /\ failures[d] <= failures'[d]
  BY Growth
<1>n. \A d \in Deliveries : attempts[d] \in Nat /\ failures[d] \in Nat
  BY <1>0 DEF RowType, WorkerType
<1>a. \A d \in Deliveries : attempts[d] <= failures[d]
  BY DEF HistoryInv
<1>e. \A v \in Workers : Evidence(v)
  BY DEF HistoryInv
\* A worker whose own position and claim stay keeps its evidence.
<1>s. ASSUME NEW v \in Workers, held'[v] = held[v], seen'[v] = seen[v],
             body'[v] = body[v], stage'[v] = stage[v]
      PROVE  Evidence(v)'
  <2>1. held[v] # None => held[v] \in Deliveries /\ seen[v] \in Nat
    BY ClaimedPayload
  <2>2. stage[v] # "idle" => held[v] # None
    BY DEF WorkerType
  <2>3. stage[v] = "sent" => <<held'[v], body'[v]>> \in received'
    BY <1>e, <1>g, <1>s DEF Evidence
  <2>4. stage[v] = "rejected" => held'[v] \in refused'
    BY <1>e, <1>g, <1>s DEF Evidence
  <2>5. held[v] # None =>
          /\ seen[v] <= failures[held[v]] /\ failures[held[v]] <= failures'[held[v]]
          /\ stage[v] \in {"failing", "rejected"} => seen[v] + 1 <= failures[held[v]]
          /\ failures'[held[v]] \in Nat /\ failures[held[v]] \in Nat /\ seen[v] \in Nat
    BY <1>e, <1>g, <1>n, <2>1 DEF Evidence
  <2>6. held[v] # None =>
          /\ seen[v] <= failures'[held[v]]
          /\ stage[v] \in {"failing", "rejected"} => seen[v] + 1 <= failures'[held[v]]
    BY <2>5
  <2> QED
    BY <1>s, <2>2, <2>3, <2>4, <2>6 DEF Evidence
\* A worker without a claim needs none.
<1>i. ASSUME NEW v \in Workers, held'[v] = None, stage'[v] = "idle" PROVE Evidence(v)'
  BY <1>i DEF Evidence
<1>u. ASSUME attempts' = attempts PROVE \A d \in Deliveries : attempts'[d] <= failures'[d]
  BY <1>a, <1>g, <1>n, <1>u
\* A failure that is recorded was raised before.
<1>r. ASSUME NEW w \in Workers, stage[w] \in {"failing", "rejected"},
             RecordFailure(w, Permanent(w)), failures' = failures
      PROVE  \A d \in Deliveries : attempts'[d] <= failures'[d]
  <2>1. held[w] \in Deliveries /\ seen[w] \in Nat /\ seen[w] + 1 <= failures[held[w]]
    BY <1>e, <1>r, ClaimedPayload DEF WorkerType, Evidence
  <2>2. \A d \in Deliveries : attempts'[d] = attempts[d] \/ (d = held[w] /\ attempts'[d] = seen[w] + 1)
    BY <1>0, <1>r, <2>1 DEF RecordFailure, RowType
  <2> QED
    BY <1>a, <1>r, <2>1, <2>2
<1>1. ASSUME NEW d \in Deliveries, Offer(d) \/ Wait(d) \/ Lapse(d) PROVE HistoryInv'
  <2>1. attempts' = attempts /\ UNCHANGED <<claim, stage>>
    BY <1>1 DEF Offer, Wait, Lapse, Enqueue, BecomeDue, Expire
  <2> QED
    BY <1>s, <1>u, <2>1 DEF HistoryInv, claim
<1>2. ASSUME NEW w \in Workers, Claim(w) PROVE HistoryInv'
  <2>1. PICK d \in Deliveries : Lease(w, d) /\ Remember(w, d)
    BY <1>2 DEF Claim
  <2>2. attempts' = attempts /\ failures' = failures
    BY <1>2, <2>1 DEF Claim, Lease, history
  <2>3. Evidence(w)'
    <3>1. held'[w] = d /\ seen'[w] = attempts[d] /\ stage'[w] = "claimed"
      BY <1>0, <1>2, <2>1 DEF Claim, Remember, Enter, RowType, WorkerType
    <3> QED
      BY <1>a, <2>2, <3>1 DEF Evidence
  <2>4. ASSUME NEW v \in Workers, v # w PROVE Evidence(v)'
    BY <1>0, <1>2, <1>s, <2>1, <2>4 DEF Claim, Remember, Enter, RowType, WorkerType
  <2> QED
    BY <1>u, <2>2, <2>3, <2>4 DEF HistoryInv
<1>3. ASSUME NEW w \in Workers, Send(w) PROVE HistoryInv'
  <2>1. attempts' = attempts /\ UNCHANGED <<claim, failures, refused>>
        /\ stage' = [stage EXCEPT ![w] = "sent"] /\ received' = received \cup Message(w)
    BY <1>3 DEF Send, Enter, row, history
  <2>2. Evidence(w)'
    BY <1>e, <2>1 DEF Evidence, Message, claim, WorkerType
  <2>3. ASSUME NEW v \in Workers, v # w PROVE Evidence(v)'
    BY <1>s, <2>1, <2>3 DEF claim, WorkerType
  <2> QED
    BY <1>u, <2>1, <2>2, <2>3 DEF HistoryInv
<1>4. ASSUME NEW w \in Workers, SendFails(w) \/ Reject(w) \/ AcknowledgeFails(w)
      PROVE  HistoryInv'
  <2>0. held[w] \in Deliveries /\ seen[w] \in Nat
    BY <1>4, ClaimedPayload DEF SendFails, Reject, AcknowledgeFails, WorkerType
  <2>1. attempts' = attempts /\ UNCHANGED claim
        /\ failures' = [failures EXCEPT ![held[w]] = @ + 1]
        /\ stage' \in {[stage EXCEPT ![w] = s] : s \in {"failing", "rejected"}}
    BY <1>4 DEF SendFails, Reject, AcknowledgeFails, Raise, Enter, RecordSuccess, row
  <2>2. Evidence(w)'
    <3>1. held'[w] = held[w] /\ seen'[w] = seen[w] /\ body'[w] = body[w]
          /\ stage'[w] \in {"failing", "rejected"}
      BY <2>1 DEF claim, WorkerType
    <3>2. failures'[held[w]] = failures[held[w]] + 1 /\ seen[w] <= failures[held[w]]
      BY <1>e, <1>4, <2>0, <2>1 DEF Evidence, WorkerType, SendFails, Reject, AcknowledgeFails
    <3>3. stage'[w] = "rejected" => held[w] \in refused'
      BY <1>4, <3>1 DEF SendFails, Reject, AcknowledgeFails, Raise, Enter, WorkerType
    <3> QED
      BY <1>n, <2>0, <3>1, <3>2, <3>3 DEF Evidence
  <2>3. ASSUME NEW v \in Workers, v # w PROVE Evidence(v)'
    BY <1>s, <2>1, <2>3 DEF claim, WorkerType
  <2> QED
    BY <1>u, <2>1, <2>2, <2>3 DEF HistoryInv
\* The worker lets go of its claim.
<1>f. ASSUME NEW w \in Workers, Forget(w), Enter(w, "idle"),
             \A d \in Deliveries : attempts'[d] <= failures'[d]
      PROVE  HistoryInv'
  <2>1. Evidence(w)'
    BY <1>0, <1>f, <1>i DEF Forget, Enter, RowType, WorkerType
  <2>2. ASSUME NEW v \in Workers, v # w PROVE Evidence(v)'
    BY <1>0, <1>f, <1>s, <2>2 DEF Forget, Enter, RowType, WorkerType
  <2> QED
    BY <1>f, <2>1, <2>2 DEF HistoryInv
<1>5. ASSUME NEW w \in Workers, ClaimFails(w) \/ Acknowledge(w) \/ Crash(w) PROVE HistoryInv'
  <2>1. attempts' = attempts /\ Forget(w) /\ Enter(w, "idle")
    BY <1>5 DEF ClaimFails, Acknowledge, Crash, EndTask, Lease, RecordSuccess, row
  <2> QED
    BY <1>f, <1>u, <2>1
<1>6. ASSUME NEW w \in Workers, Record(w) \/ RecordFails(w) PROVE HistoryInv'
  <2>1. Forget(w) /\ Enter(w, "idle") /\ failures' = failures /\ stage[w] \in {"failing", "rejected"}
    BY <1>6 DEF Record, RecordFails, EndTask, history
  <2>2. RecordFailure(w, Permanent(w)) \/ attempts' = attempts
    BY <1>6 DEF Record, RecordFails, row
  <2> QED
    BY <1>f, <1>r, <1>u, <2>1, <2>2
<1>7. ASSUME NEW w \in Workers, Restart(w) PROVE HistoryInv'
  BY <1>7, <1>s, <1>u DEF Restart, row, claim, HistoryInv
<1>8. CASE UNCHANGED vars
  BY <1>8, <1>s, <1>u DEF vars, row, claim, HistoryInv
<1> QED
  BY <1>1, <1>2, <1>3, <1>4, <1>5, <1>6, <1>7, <1>8 DEF Next, Work

--------------------------------------------------------------------------------
\* Only the owner, whose payload is the last one accepted, marks a row delivered,
\* and a delivered row accepts nothing more.
LEMMA DeliveredStep ==
  ASSUME RowInv, WorkerType, HistoryInv, DeliveredMeansReceived, [Next]_vars
  PROVE  DeliveredMeansReceived'
<1> SUFFICES ASSUME NEW d \in Deliveries, status'[d] = "delivered"
             PROVE  <<d, accepted'[d]>> \in received'
  BY DEF DeliveredMeansReceived
<1>0. RowType(Ends) /\ LeaseInv
  BY DEF RowInv
<1>g. received \subseteq received'
  BY Growth
<1>k. ASSUME status[d] = "delivered", accepted'[d] = accepted[d]
      PROVE  <<d, accepted'[d]>> \in received'
  BY <1>g, <1>k DEF DeliveredMeansReceived
<1>s. ASSUME NEW w \in Workers, stage[w] = "sent", RecordSuccess(w, "delivered")
      PROVE  <<d, accepted'[d]>> \in received'
  <2>1. CASE Owns(w) /\ d = held[w]
    <3>1. <<held[w], body[w]>> \in received /\ held[w] # None
      BY <1>s DEF HistoryInv, Evidence, WorkerType
    <3>2. body[w] = accepted[d]
      BY <1>0, <2>1, <3>1 DEF LeaseInv
    <3> QED
      BY <1>g, <1>s, <2>1, <3>1, <3>2 DEF RecordSuccess
  <2>2. CASE ~(Owns(w) /\ d = held[w])
    BY <1>0, <1>k, <1>s, <2>2 DEF RecordSuccess, RowType
  <2> QED
    BY <2>1, <2>2
<1>r. ASSUME NEW w \in Workers, RecordFailure(w, Permanent(w))
      PROVE  <<d, accepted'[d]>> \in received'
  BY <1>0, <1>k, <1>r DEF RecordFailure, RowType
<1>l. ASSUME NEW w \in Workers, NEW e \in Deliveries, Lease(w, e)
      PROVE  <<d, accepted'[d]>> \in received'
  BY <1>0, <1>k, <1>l DEF Lease, RowType
<1>u. ASSUME UNCHANGED <<row, accepted>> PROVE <<d, accepted'[d]>> \in received'
  BY <1>k, <1>u DEF row
<1>1. ASSUME NEW e \in Deliveries, Offer(e) PROVE <<d, accepted'[d]>> \in received'
  <2>1. status[d] = "delivered" /\ d # e
    BY <1>0, <1>1 DEF Offer, Enqueue, Refreshable, RowType
  <2> QED
    BY <1>0, <1>1, <1>k, <2>1 DEF Offer, Enqueue, RowType
<1>2. ASSUME NEW e \in Deliveries, Wait(e) \/ Lapse(e) PROVE <<d, accepted'[d]>> \in received'
  BY <1>2, <1>k DEF Wait, Lapse, BecomeDue, Expire
<1>3. ASSUME NEW w \in Workers, Claim(w) \/ ClaimFails(w) PROVE <<d, accepted'[d]>> \in received'
  <2>1. (\E e \in Deliveries : Lease(w, e)) \/ UNCHANGED <<row, accepted>>
    <3>1. CASE UNCHANGED <<status, attempts, payload, due, lockedBy, expired, accepted>>
      BY <3>1 DEF row
    <3> QED
      BY <1>3, <3>1 DEF Claim, ClaimFails, row
  <2> QED
    BY <1>l, <1>u, <2>1
<1>4. ASSUME NEW w \in Workers,
             Send(w) \/ SendFails(w) \/ Reject(w) \/ Restart(w) \/ Crash(w)
      PROVE  <<d, accepted'[d]>> \in received'
  BY <1>4, <1>u DEF Send, SendFails, Reject, Restart, Crash
<1>5. ASSUME NEW w \in Workers, Acknowledge(w) \/ AcknowledgeFails(w)
      PROVE  <<d, accepted'[d]>> \in received'
  BY <1>5, <1>s, <1>u DEF Acknowledge, AcknowledgeFails, Answered
<1>6. ASSUME NEW w \in Workers, Record(w) \/ RecordFails(w)
      PROVE  <<d, accepted'[d]>> \in received'
  BY <1>6, <1>r, <1>u DEF Record, RecordFails
<1>7. CASE UNCHANGED vars
  BY <1>7, <1>u DEF vars
<1> QED
  BY <1>1, <1>2, <1>3, <1>4, <1>5, <1>6, <1>7 DEF Next, Work

\* A row is given up with a refusal, or with as many attempts as the limit, each
\* of which was a failure that was raised.
LEMMA RefusedStep ==
  ASSUME RowInv, WorkerType, HistoryInv, FailedMeansRefused, [Next]_vars
  PROVE  FailedMeansRefused'
<1> SUFFICES ASSUME NEW d \in Deliveries, status'[d] = "failed"
             PROVE  d \in refused' \/ failures'[d] >= MaxAttempts
  BY DEF FailedMeansRefused
<1> DEFINE Goal == d \in refused' \/ failures'[d] >= MaxAttempts
<1>0. RowType(Ends) /\ LeaseInv
  BY DEF RowInv
<1>g. refused \subseteq refused' /\ failures[d] <= failures'[d]
      /\ failures[d] \in Nat /\ failures'[d] \in Nat
  BY Growth DEF WorkerType
<1>k. ASSUME status[d] = "failed" PROVE Goal
  BY <1>g, <1>k DEF FailedMeansRefused
<1>r. ASSUME NEW w \in Workers, stage[w] \in {"failing", "rejected"},
             RecordFailure(w, Permanent(w))
      PROVE  Goal
  <2>1. CASE Owns(w) /\ d = held[w]
    <3>1. held[w] # None /\ seen[w] \in Nat /\ seen[w] + 1 <= failures[d]
      BY <1>0, <1>r, <2>1 DEF HistoryInv, Evidence, WorkerType, RowType
    <3>2. Permanent(w) \/ seen[w] + 1 >= MaxAttempts
      BY <1>0, <1>r, <2>1 DEF RecordFailure, Exhausted, RowType
    <3>3. Permanent(w) => d \in refused
      BY <1>r, <2>1 DEF Permanent, HistoryInv, Evidence
    <3> QED
      BY <1>g, <3>1, <3>2, <3>3
  <2>2. CASE ~(Owns(w) /\ d = held[w])
    BY <1>0, <1>k, <1>r, <2>2 DEF RecordFailure, RowType
  <2> QED
    BY <2>1, <2>2
<1>s. ASSUME NEW w \in Workers, RecordSuccess(w, "delivered") PROVE Goal
  BY <1>0, <1>k, <1>s DEF RecordSuccess, RowType
<1>l. ASSUME NEW w \in Workers, NEW e \in Deliveries, Lease(w, e) PROVE Goal
  BY <1>0, <1>k, <1>l DEF Lease, RowType
<1>u. ASSUME UNCHANGED row PROVE Goal
  BY <1>k, <1>u DEF row
<1>1. ASSUME NEW e \in Deliveries, Offer(e) \/ Wait(e) \/ Lapse(e) PROVE Goal
  BY <1>0, <1>1, <1>k DEF Offer, Wait, Lapse, Enqueue, BecomeDue, Expire, RowType
<1>2. ASSUME NEW w \in Workers, Claim(w) \/ ClaimFails(w) PROVE Goal
  BY <1>2, <1>l, <1>u DEF Claim, ClaimFails
<1>3. ASSUME NEW w \in Workers,
             Send(w) \/ SendFails(w) \/ Reject(w) \/ Restart(w) \/ Crash(w)
      PROVE  Goal
  BY <1>3, <1>u DEF Send, SendFails, Reject, Restart, Crash
<1>4. ASSUME NEW w \in Workers, Acknowledge(w) \/ AcknowledgeFails(w) PROVE Goal
  BY <1>4, <1>s, <1>u DEF Acknowledge, AcknowledgeFails
<1>5. ASSUME NEW w \in Workers, Record(w) \/ RecordFails(w) PROVE Goal
  BY <1>5, <1>r, <1>u DEF Record, RecordFails
<1>6. CASE UNCHANGED vars
  BY <1>6, <1>u DEF vars
<1> QED
  BY <1>1, <1>2, <1>3, <1>4, <1>5, <1>6 DEF Next, Work

--------------------------------------------------------------------------------
LEMMA InvParts == WebhookInv <=>
  RowInv /\ WorkerType /\ HistoryInv /\ DeliveredMeansReceived /\ FailedMeansRefused
BY DEF WebhookInv, TypeOK, RowInv, Ends

\* Rows, claims, workers and history agree in every reachable state, whoever
\* lost a lease, a reply or its process.
THEOREM WebhookSafety == Spec => []WebhookInv
<1>1. Init => WebhookInv
  <2> SUFFICES ASSUME Init PROVE WebhookInv
    OBVIOUS
  <2>1. RowInv
    BY RowInitKeeps DEF Init, RowInv
  <2>2. WorkerType
    BY DEF Init, RowInit, WorkerType
  <2>3. HistoryInv /\ DeliveredMeansReceived /\ FailedMeansRefused
    BY DEF Init, RowInit, HistoryInv, Evidence, DeliveredMeansReceived, FailedMeansRefused
  <2> QED
    BY <2>1, <2>2, <2>3, InvParts
<1>2. WebhookInv /\ [Next]_vars => WebhookInv'
  <2> SUFFICES ASSUME WebhookInv, [Next]_vars PROVE WebhookInv'
    OBVIOUS
  <2>1. RowInv /\ WorkerType /\ HistoryInv /\ DeliveredMeansReceived /\ FailedMeansRefused
    BY InvParts
  <2>2. RowInv' /\ WorkerType' /\ HistoryInv'
    BY <2>1, RowStep, WorkerTypeStep, HistoryStep
  <2>3. DeliveredMeansReceived' /\ FailedMeansRefused'
    BY <2>1, DeliveredStep, RefusedStep
  <2> QED
    BY <2>2, <2>3 DEF WebhookInv, TypeOK, RowInv, Ends
<1> QED
  BY <1>1, <1>2, PTL DEF Spec

\* The shape of rows, workers and history, for any number of them.
THEOREM TypeCorrect == Spec => []TypeOK
<1>1. WebhookInv => TypeOK
  BY DEF WebhookInv
<1> QED
  BY <1>1, WebhookSafety, PTL

\* A delivered alert reached its destination with its last coalesced payload.
THEOREM ReceiptSafety == Spec => []DeliveredMeansReceived
<1>1. WebhookInv => DeliveredMeansReceived
  BY DEF WebhookInv
<1> QED
  BY <1>1, WebhookSafety, PTL

\* An alert is given up only after a refusal or as many failures as allowed.
THEOREM RefusalSafety == Spec => []FailedMeansRefused
<1>1. WebhookInv => FailedMeansRefused
  BY DEF WebhookInv
<1> QED
  BY <1>1, WebhookSafety, PTL

\* A worker that lost its lease concludes nothing: the row a step takes out of
\* processing is leased to the worker that takes the step.
THEOREM HolderSafety == Spec => OnlyHolderConcludes
<1>1. WebhookInv /\ [Next]_vars =>
        [\A d \in Deliveries :
           status[d] = "processing" /\ status'[d] # "processing" =>
             \E w \in Workers : lockedBy[d] = w /\ held[w] = d]_vars
  <2> SUFFICES ASSUME WebhookInv, Next, NEW d \in Deliveries,
                      status[d] = "processing", status'[d] # "processing"
               PROVE  \E w \in Workers : lockedBy[d] = w /\ held[w] = d
    OBVIOUS
  <2>0. RowType(Ends)
    BY InvParts DEF RowInv
  <2>u. status' # status
    OBVIOUS
  <2>l. ASSUME NEW w \in Workers, NEW e \in Deliveries, Lease(w, e) PROVE FALSE
    BY <2>0, <2>l DEF Lease, RowType
  <2>s. ASSUME NEW w \in Workers,
               RecordSuccess(w, "delivered") \/ RecordFailure(w, Permanent(w))
        PROVE  lockedBy[d] = w /\ held[w] = d
    BY <2>0, <2>s DEF RecordSuccess, RecordFailure, Owns, RowType
  <2>1. ASSUME NEW e \in Deliveries, Offer(e) \/ Wait(e) \/ Lapse(e) PROVE FALSE
    BY <2>0, <2>1 DEF Offer, Wait, Lapse, Enqueue, BecomeDue, Expire, RowType
  <2>2. ASSUME NEW w \in Workers,
               \/ Claim(w) \/ ClaimFails(w) \/ Send(w) \/ SendFails(w)
               \/ Reject(w) \/ Crash(w) \/ Restart(w)
        PROVE  FALSE
    BY <2>2, <2>l, <2>u
    DEF Claim, ClaimFails, Send, SendFails, Reject, Crash, Restart, row
  <2>3. ASSUME NEW w \in Workers,
               Acknowledge(w) \/ AcknowledgeFails(w) \/ Record(w) \/ RecordFails(w)
        PROVE  lockedBy[d] = w /\ held[w] = d
    BY <2>3, <2>s, <2>u
    DEF Acknowledge, AcknowledgeFails, Record, RecordFails, row
  <2> QED
    BY <2>1, <2>2, <2>3 DEF Next, Work
<1> QED
  BY <1>1, WebhookSafety, PTL DEF Spec, OnlyHolderConcludes

--------------------------------------------------------------------------------
\* What the contract sees of a row changes with the row's status only.
LEMMA StageOf ==
  ASSUME RowType(Ends), NEW d \in Deliveries
  PROVE  /\ Stage[status[d]] = "absent" <=> status[d] = "absent"
         /\ Stage[status[d]] = "waiting" <=> status[d] \in {"pending", "retry"}
         /\ Stage[status[d]] = "held" <=> status[d] = "processing"
BY DEF RowType, Ends, Stage

View == [d \in Deliveries |-> Stage[status[d]]]

\* A new status of one row is a new state of one delivery.
LEMMA ViewUpdate ==
  ASSUME RowType(Ends), NEW d \in Deliveries,
         NEW s \in {"pending", "retry", "processing", "delivered", "failed"},
         status' = [status EXCEPT ![d] = s]
  PROVE  View' = [View EXCEPT ![d] = Stage[s]]
BY DEF View, RowType, Ends, Stage

LEMMA ViewSame == ASSUME status' = status PROVE View' = View
BY DEF View

\* The effects of the contract are what the destination got: a call performs the
\* content read at the claim, and the update of the row concludes the delivery.
LEMMA ContractStep ==
  ASSUME WebhookInv, [Next]_vars
  PROVE  [Contract!Next]_Contract!vars
<1>0. RowType(Ends) /\ LeaseInv /\ WorkerType /\ RowInv /\ HistoryInv
  BY InvParts DEF RowInv
<1>i. ASSUME UNCHANGED <<status, accepted, received>> PROVE UNCHANGED Contract!vars
  BY <1>i, ViewSame DEF Contract!vars, View
<1>u. ASSUME UNCHANGED <<row, accepted>>, received' = received PROVE UNCHANGED Contract!vars
  BY <1>i, <1>u DEF row
<1>1. ASSUME NEW d \in Deliveries, Offer(d) PROVE Contract!Offer(d)
  <2>1. View[d] \in {"absent", "waiting"}
    BY <1>0, <1>1, StageOf DEF Offer, Enqueue, Refreshable, View
  <2>2. View' = [View EXCEPT ![d] = "waiting"]
    <3>1. CASE status[d] = "absent"
      <4>1. status' = [status EXCEPT ![d] = "pending"]
        BY <1>1, <3>1 DEF Offer, Enqueue
      <4> QED
        BY <1>0, <4>1, ViewUpdate DEF Stage
    <3>2. CASE status[d] # "absent"
      <4>1. View[d] = "waiting" /\ status' = status
        BY <1>0, <1>1, <3>2, StageOf DEF Offer, Enqueue, Refreshable, View, RowType
      <4> QED
        BY <4>1, ViewSame DEF View
    <3> QED
      BY <3>1, <3>2
  <2> QED
    BY <1>1, <2>1, <2>2 DEF Offer, Enqueue, Contract!Offer, View
<1>2. ASSUME NEW d \in Deliveries, Wait(d) \/ Lapse(d) PROVE UNCHANGED Contract!vars
  BY <1>2, <1>i DEF Wait, Lapse, BecomeDue, Expire
<1>3. ASSUME NEW w \in Workers, NEW d \in Deliveries, Lease(w, d), received' = received
      PROVE  Contract!Hold(d) \/ UNCHANGED Contract!vars
  <2>1. View' = [View EXCEPT ![d] = "held"] /\ accepted' = accepted
    BY <1>0, <1>3, ViewUpdate DEF Lease, Stage
  <2>2. CASE status[d] = "processing"
    <3>1. View[d] = "held"
      BY <2>2 DEF View, Stage
    <3>2. View' = View
      BY <2>1, <3>1 DEF View
    <3> QED
      BY <1>3, <2>1, <3>2 DEF Contract!vars, View
  <2>3. CASE status[d] # "processing"
    <3>1. View[d] = "waiting"
      BY <1>0, <1>3, <2>3, StageOf DEF Lease, Eligible, View
    <3> QED
      BY <1>3, <2>1, <3>1 DEF Contract!Hold, View
  <2> QED
    BY <2>2, <2>3
<1>4. ASSUME NEW w \in Workers, Claim(w) \/ ClaimFails(w)
      PROVE  [Contract!Next]_Contract!vars
  <2>1. received' = received
    BY <1>4 DEF Claim, ClaimFails
  <2>2. (\E d \in Deliveries : Lease(w, d)) \/ UNCHANGED <<row, accepted>>
    <3>1. Claim(w) => \E d \in Deliveries : Lease(w, d)
      BY DEF Claim
    <3>2. ClaimFails(w) => (\E d \in Deliveries : Lease(w, d)) \/ UNCHANGED <<row, accepted>>
      BY DEF ClaimFails
    <3> QED
      BY <1>4, <3>1, <3>2
  <2> QED
    BY <1>3, <1>u, <2>1, <2>2 DEF Contract!Next
<1>5. ASSUME NEW w \in Workers, Send(w) \/ SendFails(w)
      PROVE  Contract!Next \/ UNCHANGED Contract!vars
  <2>0. held[w] # None
    BY <1>0, <1>5 DEF Send, SendFails, WorkerType
  <2>1. PICK d \in Deliveries : d = held[w] /\ body[w] \in 1..accepted[d]
    BY <1>0, <2>0, ClaimedPayload
  <2>2. UNCHANGED <<row, accepted>> /\ received' \in {received, received \cup {<<d, body[w]>>}}
    BY <1>5, <2>1 DEF Send, SendFails, Message
  <2>3. View' = View
    BY <2>2, ViewSame DEF row
  <2>4. CASE received' = received
    BY <1>u, <2>2, <2>4
  <2>5. CASE received' = received \cup {<<d, body[w]>>}
    <3>1. Contract!Perform(d)
      BY <2>1, <2>2, <2>3, <2>5 DEF Contract!Perform, View
    <3> QED
      BY <3>1 DEF Contract!Next
  <2> QED
    BY <2>2, <2>4, <2>5
<1>6. ASSUME NEW w \in Workers, stage[w] = "sent", RecordSuccess(w, "delivered"),
             received' = received
      PROVE  Contract!Next \/ UNCHANGED Contract!vars
  <2>0. held[w] # None /\ <<held[w], body[w]>> \in received
    BY <1>0, <1>6 DEF WorkerType, HistoryInv, Evidence
  <2>1. PICK d \in Deliveries : d = held[w]
    BY <1>0, <2>0, ClaimedPayload
  <2>2. CASE Owns(w)
    <3>1. status[d] = "processing" /\ body[w] = accepted[d] /\ accepted' = accepted
      BY <1>0, <1>6, <2>0, <2>1, <2>2 DEF Owns, LeaseInv, RecordSuccess
    <3>2. View[d] = "held"
      BY <3>1 DEF View, Stage
    <3>3. View' = [View EXCEPT ![d] = "done"]
      <4>1. status' = [status EXCEPT ![d] = "delivered"]
        BY <1>6, <2>1, <2>2 DEF RecordSuccess
      <4> QED
        BY <1>0, <4>1, ViewUpdate DEF Stage
    <3>4. Contract!Succeed(d)
      BY <1>6, <2>0, <2>1, <3>1, <3>2, <3>3 DEF Contract!Succeed, View
    <3> QED
      BY <3>4 DEF Contract!Next
  <2>3. CASE ~Owns(w)
    BY <1>6, <1>i, <2>3 DEF RecordSuccess
  <2> QED
    BY <2>2, <2>3
<1>7. ASSUME NEW w \in Workers, held[w] # None, RecordFailure(w, Permanent(w)),
             received' = received
      PROVE  Contract!Next \/ UNCHANGED Contract!vars
  <2>1. PICK d \in Deliveries : d = held[w]
    BY <1>0, <1>7, ClaimedPayload
  <2>2. CASE Owns(w)
    <3>1. View[d] = "held"
      BY <1>0, <1>7, <2>1, <2>2 DEF Owns, LeaseInv, View, Stage
    <3>2. PICK s \in {"failed", "retry"} : status' = [status EXCEPT ![d] = s]
      BY <1>7, <2>1, <2>2 DEF RecordFailure
    <3>3. View' = [View EXCEPT ![d] = Stage[s]]
      <4>1. s \in {"pending", "retry", "processing", "delivered", "failed"}
        BY <3>2
      <4>2. RowType(Ends) /\ status' = [status EXCEPT ![d] = s]
        BY <1>0, <3>2
      <4> QED
        BY ONLY <4>1, <4>2, ViewUpdate, d \in Deliveries
    <3>4. Stage[s] \in {"waiting", "dead"}
      BY DEF Stage
    <3>5. Contract!GiveUp(d)
      BY <1>7, <3>1, <3>3, <3>4 DEF Contract!GiveUp, View, RecordFailure
    <3> QED
      BY <3>5 DEF Contract!Next
  <2>3. CASE ~Owns(w)
    BY <1>7, <1>i, <2>3 DEF RecordFailure
  <2> QED
    BY <2>2, <2>3
<1>8. ASSUME NEW w \in Workers, Acknowledge(w) \/ AcknowledgeFails(w)
      PROVE  [Contract!Next]_Contract!vars
  BY <1>6, <1>8, <1>u DEF Acknowledge, AcknowledgeFails, Answered
<1>9. ASSUME NEW w \in Workers, Record(w) \/ RecordFails(w)
      PROVE  [Contract!Next]_Contract!vars
  <2>1. held[w] # None
    BY <1>0, <1>9 DEF Record, RecordFails, WorkerType
  <2> QED
    BY <1>7, <1>9, <1>u, <2>1 DEF Record, RecordFails
<1>10. ASSUME NEW w \in Workers, Reject(w) \/ Crash(w) \/ Restart(w)
       PROVE  UNCHANGED Contract!vars
  BY <1>10, <1>u DEF Reject, Crash, Restart
<1>11. CASE UNCHANGED vars
  BY <1>11, <1>u DEF vars
<1> QED
  BY <1>1, <1>2, <1>4, <1>5, <1>8, <1>9, <1>10, <1>11 DEF Next, Work, Contract!Next

\* The webhook worker implements the leased delivery contract, although its call
\* and the update of its row are two steps that a crash or a lease can part.
THEOREM Refinement == Spec => KeepsContract
<1>1. Init => Contract!Init
  BY DEF Init, RowInit, Contract!Init, Stage
<1>2. WebhookInv /\ [Next]_vars => [Contract!Next]_Contract!vars
  BY ContractStep
<1> QED
  BY <1>1, <1>2, WebhookSafety, PTL DEF Spec, KeepsContract, Contract!Spec

================================================================================
