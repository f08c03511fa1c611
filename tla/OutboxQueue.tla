------------------------------ MODULE OutboxQueue ------------------------------
(***************************************************************************)
(* DurableQueue (services/durable_queue.py), the consumer of the            *)
(* feature_contribution and feature_window topics of pipeline_outbox.  A    *)
(* claim commits first; the handler's writes and the guarded update of the  *)
(* row then commit together, after a lease that may have passed meanwhile.  *)
(***************************************************************************)
EXTENDS OutboxTable

CONSTANTS MaxStalls,  \* bound: leases that pass while their holder still works
          MaxFaults   \* bound: cancelled, failed or crashed transactions

ASSUME QueueAssumption == MaxStalls \in Nat /\ MaxFaults \in Nat

VARIABLES handled,   \* writes of handlers that committed: <<delivery, payload>>
          failures,  \* history: handler runs that raised
          stalls, faults

bounds == <<stalls, faults>>
vars   == <<row, claim, accepted, handled, failures, bounds>>

Init ==
  /\ RowInit
  /\ handled = {} /\ failures = [d \in Deliveries |-> 0]
  /\ stalls = MaxStalls /\ faults = MaxFaults

\* The acceptance of a log registers a contribution, register_feature_work a window.
Offer(d) == Enqueue(d, TRUE) /\ UNCHANGED <<handled, failures, bounds>>

Wait(d) == BecomeDue(d) /\ UNCHANGED <<handled, failures, bounds>>

Lapse(d) ==
  /\ Expire(d)
  /\ Leased(d) => stalls > 0
  /\ stalls' = IF Leased(d) THEN stalls - 1 ELSE stalls
  /\ UNCHANGED <<handled, failures, faults>>

Claim(w) ==
  /\ held[w] = None
  /\ \E d \in Deliveries : Lease(w, d) /\ Remember(w, d)
  /\ UNCHANGED <<handled, failures, bounds>>

\* The claim committed, the worker never learned which row it got.
LoseClaim(w) ==
  /\ held[w] = None /\ faults > 0 /\ faults' = faults - 1
  /\ \E d \in Deliveries : Lease(w, d)
  /\ UNCHANGED <<claim, handled, failures, stalls>>

\* What a failed handler leaves behind: the savepoint rolls its writes back.
WritesOfFailure(w) == {}

WritesForgotten(w) == {}
WritesOfSuccess(w) == {<<held[w], body[w]>>}

\* The handler returned: its writes and the status commit in one transaction.
Complete(w) ==
  /\ held[w] # None
  /\ handled' = handled \cup WritesOfSuccess(w)
  /\ RecordSuccess(w, "completed") /\ Forget(w)
  /\ UNCHANGED <<failures, bounds>>

\* The handler raised or timed out.
Fail(w) ==
  /\ held[w] # None
  /\ handled' = handled \cup WritesOfFailure(w)
  /\ failures' = [failures EXCEPT ![held[w]] = @ + 1]
  /\ RecordFailure(w, FALSE) /\ Forget(w)
  /\ UNCHANGED bounds

\* Cancelled by stop(), killed, or failed in the update or its commit: the
\* transaction rolls back and the row stays leased.
Abort(w) ==
  /\ held[w] # None /\ faults > 0 /\ faults' = faults - 1
  /\ Forget(w)
  /\ UNCHANGED <<row, accepted, handled, failures, stalls>>

Work(w) == Claim(w) \/ Complete(w) \/ Fail(w)

Next ==
  \/ \E d \in Deliveries : Offer(d) \/ Wait(d) \/ Lapse(d)
  \/ \E w \in Workers : Work(w) \/ LoseClaim(w) \/ Abort(w)

\* Workers poll, available_at and leases pass.
Fairness ==
  /\ \A d \in Deliveries : WF_vars(Wait(d)) /\ WF_vars(Lapse(d))
  /\ \A w \in Workers : WF_vars(Work(w))

Spec == Init /\ [][Next]_vars
FairSpec == Spec /\ Fairness

--------------------------------------------------------------------------------
\* The row as the contract sees it.
Stage == [completed |-> "done", failed |-> "dead", processing |-> "held",
          pending |-> "waiting", retry |-> "waiting", absent |-> "absent"]

Contract == INSTANCE LeasedDelivery WITH
  state <- [d \in Deliveries |-> Stage[status[d]]],
  content <- accepted,
  effects <- handled

\* The shape of rows, claims and history.
TypeOK ==
  /\ RowType({"completed", "failed"})
  /\ handled \subseteq Deliveries \X (1..MaxOffers)
  /\ failures \in [Deliveries -> Nat]
  /\ stalls \in 0..MaxStalls /\ faults \in 0..MaxFaults

\* A completed row means the writes of its latest accepted payload committed: no
\* worker that lost its lease, and no refresh of a row in flight, gets in between.
CompletedMeansHandled ==
  \A d \in Deliveries : status[d] = "completed" => <<d, accepted[d]>> \in handled

\* A row is buried exactly when max_attempts handler runs failed, although
\* each worker counts from the value it read at its claim.
AttemptsWithinLimit ==
  \A d \in Deliveries :
    /\ attempts[d] <= MaxAttempts /\ attempts[d] <= failures[d]
    /\ status[d] = "failed" <=> attempts[d] = MaxAttempts

\* A worker whose lease passed never gives attempts back.
AttemptsNeverDrop == [][\A d \in Deliveries : attempts'[d] >= attempts[d]]_vars

QueueInv == TypeOK /\ LeaseInv /\ CompletedMeansHandled /\ AttemptsWithinLimit

\* Every accepted delivery is completed or buried, after crashes and lost leases.
EventuallyConcluded ==
  \A d \in Deliveries : status[d] = "pending" ~> status[d] \in {"completed", "failed"}

\* DurableQueue keeps the contract of a leased delivery queue.
KeepsContract == Contract!Spec
================================================================================
