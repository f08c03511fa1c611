--------------------------- MODULE OutboxQueueProofs ---------------------------
(***************************************************************************)
(* Safety of DurableQueue for any deliveries, workers, limits and failures:  *)
(* completion means handled, attempts count real failures, and the queue     *)
(* implements LeasedDelivery.                                                *)
(***************************************************************************)
EXTENDS OutboxQueue, TLAPS

USE OutboxAssumption, QueueAssumption

Ends == {"completed", "failed"}

--------------------------------------------------------------------------------
(***************************************************************************)
(* What each statement on pipeline_outbox preserves: the shape of a row and  *)
(* the agreement of a lease with the claim of its holder.                    *)
(***************************************************************************)

\* An empty table satisfies both.
LEMMA RowInitKeeps ==
  ASSUME RowInit PROVE RowType(Ends) /\ LeaseInv
BY DEF RowInit, RowType, LeaseInv, Owns

\* An enqueue creates or refreshes a waiting row and leaves rows in flight alone.
LEMMA EnqueueKeeps ==
  ASSUME RowType(Ends), LeaseInv,
         NEW d \in Deliveries, NEW now \in BOOLEAN, Enqueue(d, now)
  PROVE  RowType(Ends)' /\ LeaseInv'
<1>1. RowType(Ends)'
  BY DEF Enqueue, RowType, claim, Ends
<1>2. \A e \in Deliveries :
        /\ status'[e] = "processing" <=> status[e] = "processing"
        /\ status[e] = "processing" => accepted'[e] = accepted[e]
        /\ accepted'[e] >= accepted[e]
  BY DEF Enqueue, Refreshable, RowType
<1>3. \A e \in Deliveries :
        /\ status'[e] = "processing" <=> lockedBy'[e] # None
        /\ status'[e] = "absent" <=> accepted'[e] = 0
        /\ status'[e] \in {"pending", "retry", "processing"} => payload'[e] = accepted'[e]
  BY <1>2 DEF Enqueue, Refreshable, RowType, LeaseInv
<1>4. ASSUME NEW w \in Workers, held'[w] # None
      PROVE  /\ body'[w] \in 1..accepted'[held'[w]]
             /\ Owns(w)' => seen'[w] = attempts'[held'[w]] /\ body'[w] = accepted'[held'[w]]
  <2>1. held'[w] = held[w] /\ held[w] \in Deliveries /\ body'[w] = body[w] /\ seen'[w] = seen[w]
    BY <1>4 DEF Enqueue, claim, RowType
  <2>2. body[w] \in 1..accepted[held[w]] /\ (Owns(w) => status[held[w]] = "processing")
    BY <1>4, <2>1 DEF LeaseInv, Owns
  <2> QED
    BY <1>2, <1>4, <2>1, <2>2 DEF Enqueue, LeaseInv, Owns, RowType
<1> QED
  BY <1>1, <1>3, <1>4 DEF LeaseInv

\* Time passes without touching who owns what.
LEMMA BecomeDueKeeps ==
  ASSUME RowType(Ends), LeaseInv, NEW d \in Deliveries, BecomeDue(d)
  PROVE  RowType(Ends)' /\ LeaseInv'
BY DEF BecomeDue, RowType, LeaseInv, Owns, claim

\* A lease that passes leaves the row with its holder until another claim.
LEMMA ExpireKeeps ==
  ASSUME RowType(Ends), LeaseInv, NEW d \in Deliveries, Expire(d)
  PROVE  RowType(Ends)' /\ LeaseInv'
BY DEF Expire, RowType, LeaseInv, Owns, claim

\* A lease takes the row away from whoever held it before.
LEMMA LeaseKeeps ==
  ASSUME RowType(Ends), LeaseInv,
         NEW w \in Workers, NEW d \in Deliveries, held[w] = None, Lease(w, d),
         Remember(w, d) \/ UNCHANGED claim
  PROVE  RowType(Ends)' /\ LeaseInv'
<1>1. RowType(Ends)'
  BY DEF Lease, Remember, claim, RowType, Ends
<1>2. status[d] \notin {"absent"} /\ payload[d] = accepted[d] /\ accepted[d] # 0
  BY DEF Lease, Eligible, LeaseInv
<1>3. \A e \in Deliveries :
        /\ status'[e] = "processing" <=> lockedBy'[e] # None
        /\ status'[e] = "absent" <=> accepted'[e] = 0
        /\ status'[e] \in {"pending", "retry", "processing"} => payload'[e] = accepted'[e]
  BY <1>2 DEF Lease, RowType, LeaseInv
<1>4. ASSUME NEW v \in Workers, held'[v] # None
      PROVE  /\ body'[v] \in 1..accepted'[held'[v]]
             /\ Owns(v)' => seen'[v] = attempts'[held'[v]] /\ body'[v] = accepted'[held'[v]]
  <2>1. CASE v = w
    <3>1. Remember(w, d)
      BY <1>4, <2>1 DEF claim, RowType
    <3> QED
      BY <1>2, <2>1, <3>1 DEF Remember, Lease, RowType
  <2>2. CASE v # w
    <3>1. held'[v] = held[v] /\ seen'[v] = seen[v] /\ body'[v] = body[v]
      BY <2>2 DEF Remember, claim, RowType
    <3>2. Owns(v)' => Owns(v)
      BY <1>4, <2>2, <3>1 DEF Owns, Lease, RowType
    <3> QED
      BY <1>4, <3>1, <3>2 DEF Lease, LeaseInv
  <2> QED
    BY <2>1, <2>2
<1> QED
  BY <1>1, <1>3, <1>4 DEF LeaseInv

\* A worker lets go of its claim.
LEMMA ForgetKeeps ==
  ASSUME RowType(Ends), LeaseInv, NEW w \in Workers, Forget(w), UNCHANGED <<row, accepted>>
  PROVE  RowType(Ends)' /\ LeaseInv'
<1>1. \A v \in Workers : held'[v] # None =>
        held'[v] = held[v] /\ seen'[v] = seen[v] /\ body'[v] = body[v]
  BY DEF Forget, RowType
<1>2. RowType(Ends)'
  BY DEF Forget, RowType, row
<1> QED
  BY <1>1, <1>2 DEF LeaseInv, Owns, row

\* The guarded updates conclude the row only for its owner.
LEMMA SuccessKeeps ==
  ASSUME RowType(Ends), LeaseInv, NEW s \in Ends,
         NEW w \in Workers, held[w] # None, RecordSuccess(w, s), Forget(w)
  PROVE  RowType(Ends)' /\ LeaseInv'
<1>0. held[w] \in Deliveries
  BY DEF RowType
<1>1. RowType(Ends)'
  <2>1. held' \in [Workers -> Deliveries \cup {None}] /\ seen' \in [Workers -> Nat]
          /\ body' \in [Workers -> 0..MaxOffers]
    BY DEF Forget, claim, RowType
  <2>2. CASE Owns(w)
    <3>1. status' \in [Deliveries -> {"absent", "pending", "retry", "processing"} \cup Ends]
      BY <1>0, <2>2 DEF RecordSuccess, RowType
    <3>2. payload' \in [Deliveries -> 0..MaxOffers]
      BY <1>0, <2>2 DEF RecordSuccess, RowType
    <3>e. expired' = [expired EXCEPT ![held[w]] = FALSE]
      BY <2>2 DEF RecordSuccess, Unlock
    <3>4. expired' \in [Deliveries -> BOOLEAN]
      BY <1>0, <3>e DEF RowType
    <3>3. lockedBy' \in [Deliveries -> Workers \cup {None}]
      BY <1>0, <2>2 DEF RecordSuccess, Unlock, RowType
    <3> QED
      BY <2>1, <3>1, <3>2, <3>3, <3>4 DEF RecordSuccess, RowType
  <2>3. CASE ~Owns(w)
    BY <2>1, <2>3 DEF RecordSuccess, RowType
  <2> QED
    BY <2>2, <2>3
<1>2. CASE ~Owns(w)
  <2>1. UNCHANGED <<row, accepted>>
    BY <1>2 DEF RecordSuccess, row
  <2> QED
    BY <1>1, <2>1, ForgetKeeps DEF LeaseInv, Owns, row, claim
<1>3. CASE Owns(w)
  <2>1. \A e \in Deliveries :
          /\ status'[e] = "processing" <=> lockedBy'[e] # None
          /\ status'[e] = "absent" <=> accepted'[e] = 0
          /\ status'[e] \in {"pending", "retry", "processing"} => payload'[e] = accepted'[e]
    BY <1>0, <1>3 DEF RecordSuccess, Unlock, Owns, RowType, LeaseInv, Ends
  <2>2. ASSUME NEW v \in Workers, held'[v] # None
        PROVE  /\ body'[v] \in 1..accepted'[held'[v]]
               /\ Owns(v)' => seen'[v] = attempts'[held'[v]] /\ body'[v] = accepted'[held'[v]]
    <3>1. held'[v] = held[v] /\ seen'[v] = seen[v] /\ body'[v] = body[v]
      BY <2>2 DEF Forget, claim, RowType
    <3>2. Owns(v)' => Owns(v)
      BY <1>0, <1>3, <2>2, <3>1 DEF Owns, RecordSuccess, Unlock, RowType
    <3> QED
      BY <2>2, <3>1, <3>2 DEF RecordSuccess, LeaseInv
  <2> QED
    BY <1>1, <2>1, <2>2 DEF LeaseInv
<1> QED
  BY <1>2, <1>3

\* A failure ends the claim of its worker, which counted from the row it owned.
LEMMA FailureKeeps ==
  ASSUME RowType(Ends), LeaseInv, NEW permanent \in BOOLEAN,
         NEW w \in Workers, held[w] # None, RecordFailure(w, permanent), Forget(w)
  PROVE  RowType(Ends)' /\ LeaseInv'
<1>0. held[w] \in Deliveries /\ seen[w] \in Nat
  BY DEF RowType
<1>1. RowType(Ends)'
  <2>1. held' \in [Workers -> Deliveries \cup {None}] /\ seen' \in [Workers -> Nat]
          /\ body' \in [Workers -> 0..MaxOffers]
    BY DEF Forget, RowType
  <2>2. CASE Owns(w)
    <3>1. status' \in [Deliveries -> {"absent", "pending", "retry", "processing"} \cup Ends]
      BY <1>0, <2>2 DEF RecordFailure, RowType, Ends
    <3>2. attempts' \in [Deliveries -> Nat]
      BY <1>0, <2>2 DEF RecordFailure, RowType
    <3>d. due' = [due EXCEPT ![held[w]] = FALSE]
      BY <2>2 DEF RecordFailure
    <3>5. due' \in [Deliveries -> BOOLEAN]
      BY <1>0, <3>d DEF RowType
    <3>e. expired' = [expired EXCEPT ![held[w]] = FALSE]
      BY <2>2 DEF RecordFailure, Unlock
    <3>3. expired' \in [Deliveries -> BOOLEAN]
      BY <1>0, <3>e DEF RowType
    <3>4. lockedBy' \in [Deliveries -> Workers \cup {None}]
      BY <1>0, <2>2 DEF RecordFailure, Unlock, RowType
    <3> QED
      BY <2>1, <3>1, <3>2, <3>3, <3>4, <3>5 DEF RecordFailure, RowType
  <2>3. CASE ~Owns(w)
    BY <2>1, <2>3 DEF RecordFailure, RowType
  <2> QED
    BY <2>2, <2>3
<1>2. CASE ~Owns(w)
  <2>1. UNCHANGED <<row, accepted>>
    BY <1>2 DEF RecordFailure, row
  <2> QED
    BY <2>1, ForgetKeeps
<1>3. CASE Owns(w)
  <2>1. \A e \in Deliveries :
          /\ status'[e] = "processing" <=> lockedBy'[e] # None
          /\ status'[e] = "absent" <=> accepted'[e] = 0
          /\ status'[e] \in {"pending", "retry", "processing"} => payload'[e] = accepted'[e]
    BY <1>0, <1>3 DEF RecordFailure, Unlock, Owns, RowType, LeaseInv, Ends
  <2>2. ASSUME NEW v \in Workers, held'[v] # None
        PROVE  /\ body'[v] \in 1..accepted'[held'[v]]
               /\ Owns(v)' => seen'[v] = attempts'[held'[v]] /\ body'[v] = accepted'[held'[v]]
    <3>1. v # w /\ held'[v] = held[v] /\ seen'[v] = seen[v] /\ body'[v] = body[v]
      BY <2>2 DEF Forget, RowType
    <3>2. Owns(v)' => Owns(v) /\ held[v] # held[w]
      BY <1>0, <1>3, <2>2, <3>1 DEF Owns, RecordFailure, Unlock, RowType
    <3> QED
      BY <1>0, <2>2, <3>1, <3>2 DEF RecordFailure, LeaseInv, RowType
  <2> QED
    BY <1>1, <2>1, <2>2 DEF LeaseInv
<1> QED
  BY <1>2, <1>3

--------------------------------------------------------------------------------
\* Steps of the queue keep the shape of rows and claims and their agreement.
LEMMA RowStep ==
  ASSUME RowType(Ends), LeaseInv, [Next]_vars
  PROVE  RowType(Ends)' /\ LeaseInv'
<1>1. ASSUME NEW d \in Deliveries, Offer(d) PROVE RowType(Ends)' /\ LeaseInv'
  BY <1>1, EnqueueKeeps DEF Offer
<1>2. ASSUME NEW d \in Deliveries, Wait(d) PROVE RowType(Ends)' /\ LeaseInv'
  BY <1>2, BecomeDueKeeps DEF Wait
<1>3. ASSUME NEW d \in Deliveries, Lapse(d) PROVE RowType(Ends)' /\ LeaseInv'
  BY <1>3, ExpireKeeps DEF Lapse
<1>4. ASSUME NEW w \in Workers, Claim(w) PROVE RowType(Ends)' /\ LeaseInv'
  BY <1>4, LeaseKeeps DEF Claim
<1>5. ASSUME NEW w \in Workers, LoseClaim(w) PROVE RowType(Ends)' /\ LeaseInv'
  BY <1>5, LeaseKeeps DEF LoseClaim
<1>6. ASSUME NEW w \in Workers, Complete(w) PROVE RowType(Ends)' /\ LeaseInv'
  BY <1>6, SuccessKeeps DEF Complete, Ends
<1>7. ASSUME NEW w \in Workers, Fail(w) PROVE RowType(Ends)' /\ LeaseInv'
  BY <1>7, FailureKeeps DEF Fail
<1>8. ASSUME NEW w \in Workers, Abort(w) PROVE RowType(Ends)' /\ LeaseInv'
  BY <1>8, ForgetKeeps DEF Abort
<1>9. CASE UNCHANGED vars
  BY <1>9 DEF vars, row, claim, RowType, LeaseInv, Owns
<1> QED
  BY <1>1, <1>2, <1>3, <1>4, <1>5, <1>6, <1>7, <1>8, <1>9 DEF Next, Work

\* The history the queue keeps beside the rows.
QueueType ==
  /\ handled \subseteq Deliveries \X (1..MaxOffers)
  /\ failures \in [Deliveries -> Nat]
  /\ stalls \in 0..MaxStalls /\ faults \in 0..MaxFaults

\* A claim holds a payload that was accepted.
LEMMA ClaimedPayload ==
  ASSUME RowType(Ends), LeaseInv, NEW w \in Workers, held[w] # None
  PROVE  held[w] \in Deliveries /\ body[w] \in 1..accepted[held[w]] /\ body[w] \in 1..MaxOffers
BY DEF RowType, LeaseInv

LEMMA QueueTypeStep ==
  ASSUME RowType(Ends), LeaseInv, QueueType, [Next]_vars
  PROVE  QueueType'
<1>1. ASSUME NEW d \in Deliveries, Offer(d) \/ Wait(d) PROVE QueueType'
  BY <1>1 DEF Offer, Wait, QueueType, bounds
<1>2. ASSUME NEW d \in Deliveries, Lapse(d) PROVE QueueType'
  BY <1>2 DEF Lapse, QueueType
<1>3. ASSUME NEW w \in Workers, Claim(w) \/ LoseClaim(w) \/ Abort(w) PROVE QueueType'
  BY <1>3 DEF Claim, LoseClaim, Abort, QueueType, bounds
<1>4. ASSUME NEW w \in Workers, Complete(w) PROVE QueueType'
  BY <1>4, ClaimedPayload DEF Complete, WritesOfSuccess, QueueType, bounds
<1>5. ASSUME NEW w \in Workers, Fail(w) PROVE QueueType'
  BY <1>5, ClaimedPayload DEF Fail, WritesOfFailure, QueueType, bounds
<1>6. CASE UNCHANGED vars
  BY <1>6 DEF vars, QueueType, bounds
<1> QED
  BY <1>1, <1>2, <1>3, <1>4, <1>5, <1>6 DEF Next, Work

\* Only the owner, whose payload is the latest accepted one, completes a row; a
\* completed row accepts nothing more.
LEMMA CompletedStep ==
  ASSUME RowType(Ends), LeaseInv, CompletedMeansHandled, [Next]_vars
  PROVE  CompletedMeansHandled'
<1> SUFFICES ASSUME NEW d \in Deliveries, status'[d] = "completed"
             PROVE  <<d, accepted'[d]>> \in handled'
  BY DEF CompletedMeansHandled
<1>1. ASSUME NEW e \in Deliveries, Offer(e) PROVE <<d, accepted'[d]>> \in handled'
  <2>1. status[d] = "completed" /\ d # e
    BY <1>1 DEF Offer, Enqueue, Refreshable, RowType
  <2> QED
    BY <1>1, <2>1 DEF Offer, Enqueue, RowType, CompletedMeansHandled
<1>2. ASSUME NEW e \in Deliveries, Wait(e) \/ Lapse(e) PROVE <<d, accepted'[d]>> \in handled'
  BY <1>2 DEF Wait, Lapse, BecomeDue, Expire, CompletedMeansHandled
<1>3. ASSUME NEW w \in Workers, Claim(w) \/ LoseClaim(w) PROVE <<d, accepted'[d]>> \in handled'
  BY <1>3 DEF Claim, LoseClaim, Lease, RowType, CompletedMeansHandled
<1>4. ASSUME NEW w \in Workers, Complete(w) PROVE <<d, accepted'[d]>> \in handled'
  <2>1. CASE Owns(w) /\ d = held[w]
    BY <1>4, <2>1 DEF Complete, RecordSuccess, WritesOfSuccess, LeaseInv
  <2>2. CASE ~(Owns(w) /\ d = held[w])
    <3>1. status[d] = "completed"
      BY <1>4, <2>2 DEF Complete, RecordSuccess, RowType
    <3> QED
      BY <1>4, <3>1 DEF Complete, RecordSuccess, CompletedMeansHandled
  <2> QED
    BY <2>1, <2>2
<1>5. ASSUME NEW w \in Workers, Fail(w) PROVE <<d, accepted'[d]>> \in handled'
  <2>1. status[d] = "completed"
    BY <1>5 DEF Fail, RecordFailure, RowType
  <2> QED
    BY <1>5, <2>1 DEF Fail, RecordFailure, CompletedMeansHandled
<1>6. ASSUME NEW w \in Workers, Abort(w) PROVE <<d, accepted'[d]>> \in handled'
  BY <1>6 DEF Abort, row, CompletedMeansHandled
<1>7. CASE UNCHANGED vars
  BY <1>7 DEF vars, row, CompletedMeansHandled
<1> QED
  BY <1>1, <1>2, <1>3, <1>4, <1>5, <1>6, <1>7 DEF Next, Work

\* The owner counts from the attempts the row still has, so it buries it exactly
\* at the limit; a worker that lost its lease changes nothing.
LEMMA AttemptsStep ==
  ASSUME RowType(Ends), LeaseInv, QueueType, AttemptsWithinLimit, [Next]_vars
  PROVE  AttemptsWithinLimit'
<1> SUFFICES ASSUME NEW d \in Deliveries
             PROVE  /\ attempts'[d] <= MaxAttempts /\ attempts'[d] <= failures'[d]
                    /\ status'[d] = "failed" <=> attempts'[d] = MaxAttempts
  BY DEF AttemptsWithinLimit
<1> DEFINE Goal == /\ attempts'[d] <= MaxAttempts /\ attempts'[d] <= failures'[d]
                   /\ status'[d] = "failed" <=> attempts'[d] = MaxAttempts
<1>0. /\ attempts[d] <= MaxAttempts /\ attempts[d] <= failures[d]
      /\ status[d] = "failed" <=> attempts[d] = MaxAttempts
      /\ attempts[d] \in Nat /\ failures[d] \in Nat
  BY DEF AttemptsWithinLimit, RowType, QueueType
<1>1. ASSUME NEW e \in Deliveries, Offer(e) PROVE Goal
  BY <1>0, <1>1 DEF Offer, Enqueue, Refreshable, RowType
<1>2. ASSUME NEW e \in Deliveries, Wait(e) \/ Lapse(e) PROVE Goal
  BY <1>0, <1>2 DEF Wait, Lapse, BecomeDue, Expire
<1>3. ASSUME NEW w \in Workers, Claim(w) \/ LoseClaim(w) PROVE Goal
  BY <1>0, <1>3 DEF Claim, LoseClaim, Lease, Eligible, RowType
<1>4. ASSUME NEW w \in Workers, Complete(w) PROVE Goal
  <2>1. CASE Owns(w) /\ d = held[w]
    <3>1. status[d] = "processing"
      BY <1>4, <2>1 DEF Owns, LeaseInv
    <3> QED
      BY <1>0, <1>4, <2>1, <3>1 DEF Complete, RecordSuccess, RowType
  <2>2. CASE ~(Owns(w) /\ d = held[w])
    BY <1>0, <1>4, <2>2 DEF Complete, RecordSuccess, RowType
  <2> QED
    BY <2>1, <2>2
<1>5. ASSUME NEW w \in Workers, Fail(w) PROVE Goal
  <2>1. CASE Owns(w) /\ d = held[w]
    <3>1. status[d] = "processing" /\ seen[w] = attempts[d]
      BY <1>5, <2>1 DEF Fail, Owns, LeaseInv
    <3>2. attempts'[d] = attempts[d] + 1 /\ failures'[d] = failures[d] + 1
      BY <1>5, <2>1, <3>1 DEF Fail, RecordFailure, RowType, QueueType
    <3>3. status'[d] = IF attempts[d] + 1 >= MaxAttempts THEN "failed" ELSE "retry"
      BY <1>5, <2>1, <3>1 DEF Fail, RecordFailure, Exhausted, RowType
    <3> QED
      BY <1>0, <3>1, <3>2, <3>3
  <2>2. CASE ~(Owns(w) /\ d = held[w])
    <3>1. attempts'[d] = attempts[d] /\ status'[d] = status[d]
      BY <1>5, <2>2 DEF Fail, RecordFailure, RowType
    <3>2. failures'[d] >= failures[d] /\ failures'[d] \in Nat
      BY <1>0, <1>5 DEF Fail, QueueType
    <3> QED
      BY <1>0, <3>1, <3>2
  <2> QED
    BY <2>1, <2>2
<1>6. ASSUME NEW w \in Workers, Abort(w) PROVE Goal
  BY <1>0, <1>6 DEF Abort, row
<1>7. CASE UNCHANGED vars
  BY <1>0, <1>7 DEF vars, row
<1> QED
  BY <1>1, <1>2, <1>3, <1>4, <1>5, <1>6, <1>7 DEF Next, Work

--------------------------------------------------------------------------------
LEMMA InvParts == QueueInv <=>
  RowType(Ends) /\ QueueType /\ LeaseInv /\ CompletedMeansHandled /\ AttemptsWithinLimit
BY DEF QueueInv, TypeOK, QueueType, Ends

\* Rows, claims and history agree in every reachable state, whoever lost a lease.
THEOREM QueueSafety == Spec => []QueueInv
<1>1. Init => QueueInv
  <2> SUFFICES ASSUME Init PROVE QueueInv
    OBVIOUS
  <2>1. RowType(Ends) /\ LeaseInv
    BY RowInitKeeps DEF Init
  <2>2. QueueType
    BY DEF Init, QueueType
  <2>3. CompletedMeansHandled /\ AttemptsWithinLimit
    BY DEF Init, RowInit, CompletedMeansHandled, AttemptsWithinLimit
  <2> QED
    BY <2>1, <2>2, <2>3, InvParts
<1>2. QueueInv /\ [Next]_vars => QueueInv'
  <2> SUFFICES ASSUME QueueInv, [Next]_vars PROVE QueueInv'
    OBVIOUS
  <2>1. RowType(Ends) /\ QueueType /\ LeaseInv /\ CompletedMeansHandled /\ AttemptsWithinLimit
    BY InvParts
  <2>2. RowType(Ends)' /\ LeaseInv' /\ QueueType'
    BY <2>1, RowStep, QueueTypeStep
  <2>3. CompletedMeansHandled' /\ AttemptsWithinLimit'
    BY <2>1, CompletedStep, AttemptsStep
  <2> QED
    BY <2>2, <2>3 DEF QueueInv, TypeOK, QueueType, Ends
<1> QED
  BY <1>1, <1>2, PTL DEF Spec

\* The shape of rows, claims and history, for any number of them.
THEOREM TypeCorrect == Spec => []TypeOK
<1>1. QueueInv => TypeOK
  BY DEF QueueInv
<1> QED
  BY <1>1, QueueSafety, PTL

\* A completed row was handled with its latest accepted payload, in one
\* transaction, for any number of workers and lost leases.
THEOREM CompletionSafety == Spec => []CompletedMeansHandled
<1>1. QueueInv => CompletedMeansHandled
  BY DEF QueueInv
<1> QED
  BY <1>1, QueueSafety, PTL

\* A row is buried exactly at the attempt limit, and attempts are real failures.
THEOREM AttemptSafety == Spec => []AttemptsWithinLimit
<1>1. QueueInv => AttemptsWithinLimit
  BY DEF QueueInv
<1> QED
  BY <1>1, QueueSafety, PTL

\* No worker gives attempts back to a row, however old its copy of it is.
THEOREM AttemptsMonotone == Spec => AttemptsNeverDrop
<1>1. QueueInv /\ [Next]_vars =>
        [\A d \in Deliveries : attempts'[d] >= attempts[d]]_vars
  <2> SUFFICES ASSUME QueueInv, Next, NEW d \in Deliveries
               PROVE  attempts'[d] >= attempts[d]
    OBVIOUS
  <2>0. RowType(Ends) /\ LeaseInv /\ attempts[d] \in Nat
    BY InvParts DEF RowType
  <2>1. ASSUME NEW e \in Deliveries, Offer(e) \/ Wait(e) \/ Lapse(e)
        PROVE  attempts'[d] >= attempts[d]
    BY <2>0, <2>1 DEF Offer, Wait, Lapse, Enqueue, BecomeDue, Expire
  <2>2. ASSUME NEW w \in Workers, Claim(w) \/ LoseClaim(w) \/ Abort(w) \/ Complete(w)
        PROVE  attempts'[d] >= attempts[d]
    BY <2>0, <2>2 DEF Claim, LoseClaim, Abort, Complete, Lease, RecordSuccess, row
  <2>3. ASSUME NEW w \in Workers, Fail(w)
        PROVE  attempts'[d] >= attempts[d]
    <3>1. CASE Owns(w) /\ d = held[w]
      <4>1. seen[w] = attempts[d]
        BY <2>0, <2>3, <3>1 DEF Fail, LeaseInv
      <4> QED
        BY <2>0, <2>3, <3>1, <4>1 DEF Fail, RecordFailure, RowType
    <3>2. CASE ~(Owns(w) /\ d = held[w])
      BY <2>0, <2>3, <3>2 DEF Fail, RecordFailure, RowType
    <3> QED
      BY <3>1, <3>2
  <2> QED
    BY <2>1, <2>2, <2>3 DEF Next, Work
<1> QED
  BY <1>1, QueueSafety, PTL DEF Spec, AttemptsNeverDrop

--------------------------------------------------------------------------------
\* What the contract sees of a row changes with the row's status only.
LEMMA StageOf ==
  ASSUME RowType(Ends), NEW d \in Deliveries
  PROVE  /\ Stage[status[d]] = "absent" <=> status[d] = "absent"
         /\ Stage[status[d]] = "waiting" <=> status[d] \in {"pending", "retry"}
         /\ Stage[status[d]] = "held" <=> status[d] = "processing"
         /\ Stage[status[d]] = "done" <=> status[d] = "completed"
         /\ Stage[status[d]] = "dead" <=> status[d] = "failed"
BY DEF RowType, Ends, Stage

View == [d \in Deliveries |-> Stage[status[d]]]

\* A new status of one row is a new state of one delivery.
LEMMA ViewUpdate ==
  ASSUME RowType(Ends), NEW d \in Deliveries,
         NEW s \in {"pending", "retry", "processing", "completed", "failed"},
         status' = [status EXCEPT ![d] = s]
  PROVE  View' = [View EXCEPT ![d] = Stage[s]]
BY DEF View, RowType, Ends, Stage

LEMMA ViewSame == ASSUME status' = status PROVE View' = View
BY DEF View

\* Every step of the queue is a step of the contract, or is invisible to it.
LEMMA ContractStep ==
  ASSUME QueueInv, [Next]_vars
  PROVE  [Contract!Next]_Contract!vars
<1>0. RowType(Ends) /\ LeaseInv /\ QueueType
  BY InvParts
<1>i. UNCHANGED <<status, accepted, handled>> => UNCHANGED Contract!vars
  BY ViewSame DEF Contract!vars, View
<1>1. ASSUME NEW d \in Deliveries, Offer(d) PROVE Contract!Offer(d)
  <2>1. View[d] \in {"absent", "waiting"}
    BY <1>0, <1>1, StageOf DEF Offer, Enqueue, Refreshable, View
  <2>2. View' = [View EXCEPT ![d] = "waiting"]
    <3>1. CASE status[d] = "absent"
      <4>1. status' = [status EXCEPT ![d] = "pending"]
        BY <1>1, <3>1 DEF Offer, Enqueue
      <4> QED
        BY <1>0, <4>1, ViewUpdate DEF Stage
    <3>2. CASE status[d] # "absent"
      <4>1. View[d] = "waiting" /\ status' = status
        BY <1>0, <1>1, <3>2, StageOf DEF Offer, Enqueue, Refreshable, View, RowType
      <4> QED
        BY <4>1, ViewSame DEF View
    <3> QED
      BY <3>1, <3>2
  <2> QED
    BY <1>1, <2>1, <2>2 DEF Offer, Enqueue, Contract!Offer, View
<1>2. ASSUME NEW d \in Deliveries, Wait(d) \/ Lapse(d) PROVE UNCHANGED Contract!vars
  BY <1>2, <1>i DEF Wait, Lapse, BecomeDue, Expire
<1>3. ASSUME NEW w \in Workers, NEW d \in Deliveries, Lease(w, d), handled' = handled
      PROVE  Contract!Hold(d) \/ UNCHANGED Contract!vars
  <2>1. View' = [View EXCEPT ![d] = "held"] /\ accepted' = accepted
    BY <1>0, <1>3, ViewUpdate DEF Lease, Stage
  <2>2. CASE status[d] = "processing"
    <3>1. View[d] = "held"
      BY <2>2 DEF View, Stage
    <3>2. View' = View
      BY <2>1, <3>1 DEF View
    <3> QED
      BY <1>3, <2>1, <3>2 DEF Contract!vars, View
  <2>3. CASE status[d] # "processing"
    <3>1. View[d] = "waiting"
      BY <1>0, <1>3, <2>3, StageOf DEF Lease, Eligible, View
    <3> QED
      BY <1>3, <2>1, <3>1 DEF Contract!Hold, View
  <2> QED
    BY <2>2, <2>3
<1>4. ASSUME NEW w \in Workers, Complete(w) PROVE Contract!Next
  <2>0. PICK d \in Deliveries : d = held[w]
    BY <1>0, <1>4, ClaimedPayload DEF Complete
  <2>1. d = held[w] /\ body[w] \in 1..accepted[d] /\ accepted' = accepted
        /\ handled' = handled \cup {<<d, body[w]>>}
    BY <1>0, <1>4, <2>0, ClaimedPayload DEF Complete, RecordSuccess, WritesOfSuccess
  <2>2. CASE Owns(w)
    <3>1. status[d] = "processing" /\ body[w] = accepted[d]
      BY <1>0, <1>4, <2>1, <2>2 DEF Complete, Owns, LeaseInv
    <3>2. View[d] = "held"
      BY <2>1, <3>1 DEF View, Stage
    <3>3. View' = [View EXCEPT ![d] = "done"]
      <4>1. status' = [status EXCEPT ![d] = "completed"]
        BY <1>4, <2>1, <2>2 DEF Complete, RecordSuccess
      <4> QED
        BY <1>0, <2>1, <4>1, ViewUpdate DEF Stage
    <3>4. Contract!Succeed(d)
      BY <2>1, <3>1, <3>2, <3>3 DEF Contract!Succeed, View
    <3> QED
      BY <3>4 DEF Contract!Next
  <2>3. CASE ~Owns(w)
    <3>1. View' = View
      BY <1>4, <2>3, ViewSame DEF Complete, RecordSuccess
    <3>2. Contract!Perform(d)
      BY <2>1, <3>1 DEF Contract!Perform, View
    <3> QED
      BY <2>1, <3>2 DEF Contract!Next
  <2> QED
    BY <2>2, <2>3
<1>5. ASSUME NEW w \in Workers, Fail(w) PROVE Contract!Next \/ UNCHANGED Contract!vars
  <2>0. PICK d \in Deliveries : d = held[w]
    BY <1>0, <1>5, ClaimedPayload DEF Fail
  <2>1. d = held[w] /\ accepted' = accepted /\ handled' = handled
    BY <1>5, <2>0 DEF Fail, RecordFailure, WritesOfFailure
  <2>2. CASE Owns(w)
    <3>1. View[d] = "held"
      BY <1>0, <1>5, <2>1, <2>2 DEF Fail, Owns, LeaseInv, View, Stage
    <3>2. PICK s \in {"failed", "retry"} : status' = [status EXCEPT ![d] = s]
      BY <1>5, <2>1, <2>2 DEF Fail, RecordFailure
    <3>3. View' = [View EXCEPT ![d] = Stage[s]] /\ Stage[s] \in {"waiting", "dead"}
      <4>1. View' = [View EXCEPT ![d] = Stage[s]]
        BY <1>0, <2>1, <3>2, ViewUpdate
      <4>2. Stage[s] \in {"waiting", "dead"}
        BY DEF Stage
      <4> QED
        BY <4>1, <4>2
    <3>4. Contract!GiveUp(d)
      BY <2>1, <3>1, <3>3 DEF Contract!GiveUp, View
    <3> QED
      BY <3>4 DEF Contract!Next
  <2>3. CASE ~Owns(w)
    BY <1>5, <1>i, <2>1, <2>3 DEF Fail, RecordFailure
  <2> QED
    BY <2>2, <2>3
<1>6. ASSUME NEW w \in Workers, Abort(w) PROVE UNCHANGED Contract!vars
  BY <1>6, <1>i DEF Abort, row
<1>7. CASE UNCHANGED vars
  BY <1>7, <1>i DEF vars, row
<1>8. ASSUME NEW w \in Workers, Claim(w) \/ LoseClaim(w)
      PROVE  [Contract!Next]_Contract!vars
  BY <1>3, <1>8 DEF Claim, LoseClaim, Contract!Next
<1> QED
  BY <1>1, <1>2, <1>4, <1>5, <1>6, <1>7, <1>8 DEF Next, Work, Contract!Next

\* DurableQueue implements the leased delivery contract: a delivery is done only
\* with its latest accepted content performed, and once done or dead stays so.
THEOREM Refinement == Spec => KeepsContract
<1>1. Init => Contract!Init
  <2> SUFFICES ASSUME Init PROVE Contract!Init
    OBVIOUS
  <2> QED
    BY DEF Init, RowInit, Contract!Init, Stage
<1>2. QueueInv /\ [Next]_vars => [Contract!Next]_Contract!vars
  BY ContractStep
<1> QED
  BY <1>1, <1>2, QueueSafety, PTL DEF Spec, KeepsContract, Contract!Spec
================================================================================
