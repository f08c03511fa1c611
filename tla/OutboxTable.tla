------------------------------ MODULE OutboxTable ------------------------------
(***************************************************************************)
(* A row of pipeline_outbox and the statements its producers and consumers  *)
(* run on it: enqueue of durable_queue.py, and the claim and the guarded    *)
(* updates that DurableQueue and WebhookDeliveryWorker share.  Each operator *)
(* is one PostgreSQL transaction, or the row's part of one.                 *)
(***************************************************************************)
EXTENDS Integers

CONSTANTS Deliveries,   \* delivery identities (tenant, owner, topic, dedup_key)
          Workers,      \* consumers of a topic, each with its worker_id
          None,         \* NULL
          MaxAttempts,  \* max_attempts of the consumer
          MaxOffers     \* bound: accepted enqueues of one delivery

ASSUME OutboxAssumption ==
  /\ None \notin Deliveries /\ None \notin Workers
  /\ MaxAttempts \in Nat \ {0} /\ MaxOffers \in Nat

VARIABLES
  status, attempts,   \* "absent" while the row does not exist
  payload,            \* number of the enqueue whose payload is stored; 0 for {}
  due,                \* available_at has passed
  lockedBy, expired,  \* locked_by; lease_expires_at has passed
  held, seen, body,   \* a worker's claimed row, as it was read at the claim
  accepted            \* history: enqueues the row accepted

row   == <<status, attempts, payload, due, lockedBy, expired>>
claim == <<held, seen, body>>

RowInit ==
  /\ status = [d \in Deliveries |-> "absent"]
  /\ attempts = [d \in Deliveries |-> 0] /\ payload = [d \in Deliveries |-> 0]
  /\ due = [d \in Deliveries |-> FALSE]
  /\ lockedBy = [d \in Deliveries |-> None] /\ expired = [d \in Deliveries |-> FALSE]
  /\ held = [w \in Workers |-> None]
  /\ seen = [w \in Workers |-> 0] /\ body = [w \in Workers |-> 0]
  /\ accepted = [d \in Deliveries |-> 0]

\* Rows an enqueue creates, or refreshes by ON CONFLICT DO UPDATE.
RefreshableProcessing == {"absent", "pending", "retry", "processing"}
Refreshable == {"absent", "pending", "retry"}

\* enqueue, with its available_at now or in the future.
Enqueue(d, now) ==
  /\ accepted[d] < MaxOffers
  /\ status[d] \in Refreshable
  /\ accepted' = [accepted EXCEPT ![d] = @ + 1]
  /\ payload' = [payload EXCEPT ![d] = accepted[d] + 1]
  /\ status' = [status EXCEPT ![d] = IF @ = "absent" THEN "pending" ELSE @]
  /\ due' = [due EXCEPT ![d] = now]
  /\ UNCHANGED <<attempts, lockedBy, expired, claim>>

\* available_at passes.
BecomeDue(d) ==
  /\ status[d] \in {"pending", "retry"} /\ ~due[d]
  /\ due' = [due EXCEPT ![d] = TRUE]
  /\ UNCHANGED <<status, attempts, payload, lockedBy, expired, claim, accepted>>

\* The worker the row is leased to is still working on it.
Leased(d) == \E w \in Workers : lockedBy[d] = w /\ held[w] = d

\* lease_expires_at passes.
Expire(d) ==
  /\ status[d] = "processing" /\ ~expired[d]
  /\ expired' = [expired EXCEPT ![d] = TRUE]
  /\ UNCHANGED <<status, attempts, payload, due, lockedBy, claim, accepted>>

EligibleWaiting(d) == status[d] \in {"pending", "retry"} /\ due[d]
Eligible(d) ==
  \/ status[d] \in {"pending", "retry"} /\ due[d]
  \/ status[d] = "processing" /\ expired[d]

\* SELECT ... FOR UPDATE SKIP LOCKED and the UPDATE that leases the row.
Lease(w, d) ==
  /\ Eligible(d)
  /\ status' = [status EXCEPT ![d] = "processing"]
  /\ lockedBy' = [lockedBy EXCEPT ![d] = w]
  /\ expired' = [expired EXCEPT ![d] = FALSE]
  /\ UNCHANGED <<attempts, payload, due, accepted>>

\* What the worker goes on with is the row its claim returned.
Remember(w, d) ==
  /\ held' = [held EXCEPT ![w] = d]
  /\ seen' = [seen EXCEPT ![w] = attempts[d]]
  /\ body' = [body EXCEPT ![w] = payload[d]]

Forget(w) ==
  /\ held' = [held EXCEPT ![w] = None]
  /\ seen' = [seen EXCEPT ![w] = 0] /\ body' = [body EXCEPT ![w] = 0]

\* WHERE id = ... AND locked_by = worker_id.
Owns(w) == lockedBy[held[w]] = w

Unlock(d) ==
  /\ lockedBy' = [lockedBy EXCEPT ![d] = None]
  /\ expired' = [expired EXCEPT ![d] = FALSE]

\* The guarded update after a success; the payload is cleared.
RecordSuccess(w, s) ==
  LET d == held[w] IN
  /\ IF Owns(w)
       THEN /\ status' = [status EXCEPT ![d] = s]
            /\ payload' = [payload EXCEPT ![d] = 0]
            /\ Unlock(d)
       ELSE UNCHANGED <<status, payload, lockedBy, expired>>
  /\ UNCHANGED <<attempts, due, accepted>>

ExhaustedEarly(n) == n + 1 >= MaxAttempts
Exhausted(n) == n >= MaxAttempts

\* The guarded update after a failure counts from the attempts read at the claim.
RecordFailure(w, permanent) ==
  LET d == held[w] IN
  /\ IF Owns(w)
       THEN /\ attempts' = [attempts EXCEPT ![d] = seen[w] + 1]
            /\ status' = [status EXCEPT ![d] =
                            IF permanent \/ Exhausted(seen[w] + 1) THEN "failed" ELSE "retry"]
            /\ due' = [due EXCEPT ![d] = FALSE]
            /\ Unlock(d)
       ELSE UNCHANGED <<status, attempts, due, lockedBy, expired>>
  /\ UNCHANGED <<payload, accepted>>

RowType(terminal) ==
  /\ status \in [Deliveries -> {"absent", "pending", "retry", "processing"} \cup terminal]
  /\ attempts \in [Deliveries -> Nat] /\ payload \in [Deliveries -> 0..MaxOffers]
  /\ due \in [Deliveries -> BOOLEAN] /\ expired \in [Deliveries -> BOOLEAN]
  /\ lockedBy \in [Deliveries -> Workers \cup {None}]
  /\ held \in [Workers -> Deliveries \cup {None}]
  /\ seen \in [Workers -> Nat] /\ body \in [Workers -> 0..MaxOffers]
  /\ accepted \in [Deliveries -> 0..MaxOffers]

\* A row is leased exactly while it is processing, its payload is the last one
\* accepted until it is cleared, and a worker that owns its claim holds what the
\* row still says.
LeaseInv ==
  /\ \A d \in Deliveries :
       /\ status[d] = "processing" <=> lockedBy[d] # None
       /\ status[d] = "absent" <=> accepted[d] = 0
       /\ status[d] \in {"pending", "retry", "processing"} => payload[d] = accepted[d]
  /\ \A w \in Workers : held[w] # None =>
       /\ body[w] \in 1..accepted[held[w]]
       /\ Owns(w) => seen[w] = attempts[held[w]] /\ body[w] = accepted[held[w]]
================================================================================
