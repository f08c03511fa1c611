----------------------------- MODULE WebhookOutbox -----------------------------
(***************************************************************************)
(* WebhookDeliveryWorker (services/webhook_delivery.py), the consumer of the *)
(* webhook topic of pipeline_outbox, and the alerts that feed it.  A         *)
(* delivery is three steps: the claim commits, the HTTP call runs outside    *)
(* any transaction, and the guarded update of the row follows.  run() has no *)
(* handler of its own, so a failing claim or failing update ends its task.   *)
(***************************************************************************)
EXTENDS OutboxTable

CONSTANTS Supervised,  \* cli/worker.py runs the worker; FALSE: the API's lifespan does
          MaxStalls,   \* bound: leases that pass while their holder still works
          MaxFaults    \* bound: lost replies, failed statements and stopped processes

ASSUME WebhookAssumption ==
  Supervised \in BOOLEAN /\ MaxStalls \in Nat /\ MaxFaults \in Nat

VARIABLES running,   \* the task of run() is alive
          stage,     \* where process_one is
          received,  \* what the destination got: <<delivery, payload>>
          failures,  \* history: attempts that raised
          refused,   \* history: deliveries that raised PermanentDeliveryError
          stalls, faults

history == <<failures, refused>>
bounds  == <<stalls, faults>>
vars == <<row, claim, accepted, running, stage, received, history, bounds>>

Init ==
  /\ RowInit
  /\ running = [w \in Workers |-> TRUE] /\ stage = [w \in Workers |-> "idle"]
  /\ received = {} /\ failures = [d \in Deliveries |-> 0] /\ refused = {}
  /\ stalls = MaxStalls /\ faults = MaxFaults

Fault == faults > 0 /\ faults' = faults - 1 /\ UNCHANGED stalls

\* An incident alert, coalesced with the waiting ones until its window closes.
Offer(d) ==
  Enqueue(d, FALSE) /\ UNCHANGED <<running, stage, received, history, bounds>>

Wait(d) ==
  BecomeDue(d) /\ UNCHANGED <<running, stage, received, history, bounds>>

Lapse(d) ==
  /\ Expire(d)
  /\ Leased(d) => stalls > 0
  /\ stalls' = IF Leased(d) THEN stalls - 1 ELSE stalls
  /\ UNCHANGED <<running, stage, received, history, faults>>

Enter(w, s) == stage' = [stage EXCEPT ![w] = s]

\* The exception leaves run(); the process, if supervised, will be restarted.
EndTask(w) ==
  /\ running' = [running EXCEPT ![w] = FALSE]
  /\ Enter(w, "idle") /\ Forget(w)

Claim(w) ==
  /\ running[w] /\ stage[w] = "idle"
  /\ \E d \in Deliveries : Lease(w, d) /\ Remember(w, d)
  /\ Enter(w, "claimed")
  /\ UNCHANGED <<running, received, history, bounds>>

\* The claim raises, whether its transaction committed or not.
ClaimFails(w) ==
  /\ running[w] /\ stage[w] = "idle" /\ Fault
  /\ \/ \E d \in Deliveries : Lease(w, d)
     \/ UNCHANGED <<row, accepted>>
  /\ EndTask(w)
  /\ UNCHANGED <<received, history>>

Raise(w, s) ==
  /\ Enter(w, s)
  /\ failures' = [failures EXCEPT ![held[w]] = @ + 1]

\* No usable provider, owner or destination, or the destination answers 4xx.
Reject(w) ==
  /\ stage[w] = "claimed"
  /\ Raise(w, "rejected")
  /\ refused' = refused \cup {held[w]}
  /\ UNCHANGED <<row, claim, accepted, running, received, bounds>>

\* What goes to the destination is the payload read at the claim.
Message(w) == {<<held[w], body[w]>>}

Send(w) ==
  /\ stage[w] = "claimed"
  /\ Enter(w, "sent")
  /\ received' = received \cup Message(w)
  /\ UNCHANGED <<row, claim, accepted, running, history, bounds>>

\* The call times out or answers 5xx: the destination may have it all the same.
SendFails(w) ==
  /\ stage[w] = "claimed"
  /\ Raise(w, "failing")
  /\ received' \in {received, received \cup Message(w)}
  /\ UNCHANGED <<row, claim, accepted, running, refused, bounds>>

AckAnyway(w) == stage[w] \in {"sent", "failing"}
Answered(w) == stage[w] = "sent"

Acknowledge(w) ==
  /\ Answered(w)
  /\ RecordSuccess(w, "delivered") /\ Forget(w) /\ Enter(w, "idle")
  /\ UNCHANGED <<running, received, history, bounds>>

\* The update raises, committed or not, and takes the path of a failed delivery.
AcknowledgeFails(w) ==
  /\ stage[w] = "sent" /\ Fault
  /\ RecordSuccess(w, "delivered") \/ UNCHANGED <<row, accepted>>
  /\ Raise(w, "failing")
  /\ UNCHANGED <<claim, running, received, refused>>

PermanentEveryTime(w) == TRUE
Permanent(w) == stage[w] = "rejected"

Record(w) ==
  /\ stage[w] \in {"failing", "rejected"}
  /\ RecordFailure(w, Permanent(w)) /\ Forget(w) /\ Enter(w, "idle")
  /\ UNCHANGED <<running, received, history, bounds>>

\* The update of the failure path raises, committed or not.
RecordFails(w) ==
  /\ stage[w] \in {"failing", "rejected"} /\ Fault
  /\ RecordFailure(w, Permanent(w)) \/ UNCHANGED <<row, accepted>>
  /\ EndTask(w)
  /\ UNCHANGED <<received, history>>

\* Process death, or stop() cancelling a delivery that outlasts its timeout.
Crash(w) ==
  /\ running[w] /\ Fault
  /\ EndTask(w)
  /\ UNCHANGED <<row, accepted, received, history>>

\* cli/worker.py exits when an owned task ends, and the container is restarted.
Restart(w) ==
  /\ Supervised /\ ~running[w]
  /\ running' = [running EXCEPT ![w] = TRUE]
  /\ UNCHANGED <<row, claim, accepted, stage, received, history, bounds>>

Work(w) ==
  Claim(w) \/ Send(w) \/ SendFails(w) \/ Reject(w) \/ Acknowledge(w) \/ Record(w)

Next ==
  \/ \E d \in Deliveries : Offer(d) \/ Wait(d) \/ Lapse(d)
  \/ \E w \in Workers :
       Work(w) \/ ClaimFails(w) \/ AcknowledgeFails(w) \/ RecordFails(w)
         \/ Crash(w) \/ Restart(w)

\* Live workers go on, HTTP calls end by their timeout, windows and leases pass,
\* and the supervisor restarts what ended.
Fairness ==
  /\ \A d \in Deliveries : WF_vars(Wait(d)) /\ WF_vars(Lapse(d))
  /\ \A w \in Workers : WF_vars(Work(w)) /\ WF_vars(Restart(w))

Spec == Init /\ [][Next]_vars
FairSpec == Spec /\ Fairness

--------------------------------------------------------------------------------
\* The row as the contract sees it.
Stage == [delivered |-> "done", failed |-> "dead", processing |-> "held",
          pending |-> "waiting", retry |-> "waiting", absent |-> "absent"]

Contract == INSTANCE LeasedDelivery WITH
  state <- [d \in Deliveries |-> Stage[status[d]]],
  content <- accepted,
  effects <- received

WorkerType ==
  /\ running \in [Workers -> BOOLEAN]
  /\ stage \in [Workers -> {"idle", "claimed", "sent", "failing", "rejected"}]
  /\ \A w \in Workers : held[w] = None <=> stage[w] = "idle"
  /\ \A w \in Workers : held[w] # None => running[w]
  /\ received \subseteq Deliveries \X (1..MaxOffers)
  /\ failures \in [Deliveries -> Nat] /\ refused \subseteq Deliveries
  /\ stalls \in 0..MaxStalls /\ faults \in 0..MaxFaults

\* The shape of rows, workers and history.
TypeOK == RowType({"delivered", "failed"}) /\ WorkerType

\* A delivered alert reached its destination with the last coalesced payload,
\* whoever lost its lease or reply on the way.
DeliveredMeansReceived ==
  \A d \in Deliveries : status[d] = "delivered" => <<d, accepted[d]>> \in received

\* An alert is given up only after a permanent refusal or max_attempts failures,
\* although every worker counts from the value it read at its claim.
FailedMeansRefused ==
  \A d \in Deliveries :
    status[d] = "failed" => d \in refused \/ failures[d] >= MaxAttempts

\* What a worker's stage says about what happened at the destination.
Evidence(w) ==
  /\ stage[w] = "sent" => <<held[w], body[w]>> \in received
  /\ stage[w] = "rejected" => held[w] \in refused
  /\ held[w] # None => seen[w] <= failures[held[w]]
  /\ stage[w] \in {"failing", "rejected"} => seen[w] + 1 <= failures[held[w]]

HistoryInv ==
  /\ \A w \in Workers : Evidence(w)
  /\ \A d \in Deliveries : attempts[d] <= failures[d]

WebhookInv ==
  TypeOK /\ LeaseInv /\ HistoryInv /\ DeliveredMeansReceived /\ FailedMeansRefused

\* Only the worker a row is leased to takes it out of processing: one whose lease
\* passed and was taken over writes nothing, however late it answers.
OnlyHolderConcludes ==
  [][\A d \in Deliveries :
       status[d] = "processing" /\ status'[d] # "processing" =>
         \E w \in Workers : lockedBy[d] = w /\ held[w] = d]_vars

\* Every accepted alert ends delivered or failed, after crashes, lost replies
\* and database errors.
EventuallyConcluded ==
  \A d \in Deliveries : status[d] = "pending" ~> status[d] \in {"delivered", "failed"}

\* The webhook worker keeps the contract of a leased delivery queue.
KeepsContract == Contract!Spec
================================================================================
