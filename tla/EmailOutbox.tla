------------------------------ MODULE EmailOutbox ------------------------------
(***************************************************************************)
(* EmailDeliveryWorker (services/email_outbox.py) on the email outbox table. *)
(* The claim commits before a thread sends the mail; the outcome is written  *)
(* by primary key afterwards.  locked_by is written and never read, so it is *)
(* left out.  run() has no handler, so a failing statement ends its task.    *)
(***************************************************************************)
EXTENDS Integers

CONSTANTS Mails,        \* rows, one per idempotency_key
          Unsupported,  \* those of a kind that process_one does not know
          Workers,      \* delivery workers, each in a process that is restarted
          NoMail,
          MAX_ATTEMPTS,
          MaxStalls,    \* bound: leases that pass while their holder still works
          MaxMailFaults \* bound: failed statements and stopped processes

ASSUME EmailAssumption ==
  /\ NoMail \notin Mails /\ Unsupported \subseteq Mails
  /\ MAX_ATTEMPTS \in Nat \ {0} /\ MaxStalls \in Nat /\ MaxMailFaults \in Nat

VARIABLES
  mail, attempts,    \* "gone" once the row is deleted; attempt_count
  due, expired,      \* available_at and lease_expires_at have passed
  running, stage,    \* the task of run() is alive; where process_one is
  held, seen,        \* the worker's copy of the row and of its attempt_count
  sent,              \* mails the SMTP server accepted at least once
  stalls, mailFaults

row    == <<mail, attempts, due, expired>>
worker == <<running, stage, held, seen>>
bounds == <<stalls, mailFaults>>
outbox == <<row, worker, sent, bounds>>

OutboxInit ==
  /\ mail = [m \in Mails |-> "absent"] /\ attempts = [m \in Mails |-> 0]
  /\ due = [m \in Mails |-> FALSE] /\ expired = [m \in Mails |-> FALSE]
  /\ running = [w \in Workers |-> TRUE] /\ stage = [w \in Workers |-> "idle"]
  /\ held = [w \in Workers |-> NoMail] /\ seen = [w \in Workers |-> 0]
  /\ sent = {} /\ stalls = MaxStalls /\ mailFaults = MaxMailFaults

MailFault == mailFaults > 0 /\ mailFaults' = mailFaults - 1 /\ UNCHANGED stalls

\* enqueue_email, in the transaction that issued the secret.
Enqueue(m) ==
  /\ mail[m] = "absent"
  /\ mail' = [mail EXCEPT ![m] = "pending"] /\ due' = [due EXCEPT ![m] = TRUE]
  /\ UNCHANGED <<attempts, expired, worker, sent, bounds>>

Wait(m) ==
  /\ mail[m] = "retry" /\ ~due[m]
  /\ due' = [due EXCEPT ![m] = TRUE]
  /\ UNCHANGED <<mail, attempts, expired, worker, sent, bounds>>

\* ON DELETE CASCADE: an account that is deleted takes its rows along, those in
\* work too.
Purge(S) ==
  /\ mail' = [m \in Mails |-> IF m \in S /\ mail[m] # "absent" THEN "gone" ELSE mail[m]]
  /\ UNCHANGED <<attempts, due, expired, worker, sent, bounds>>

InWork(m) == \E w \in Workers : held[w] = m

\* A send of three SMTP attempts can outlast the 60 s lease.
Lapse(m) ==
  /\ mail[m] = "processing" /\ ~expired[m]
  /\ InWork(m) => stalls > 0
  /\ stalls' = IF InWork(m) THEN stalls - 1 ELSE stalls
  /\ expired' = [expired EXCEPT ![m] = TRUE]
  /\ UNCHANGED <<mail, attempts, due, worker, sent, mailFaults>>

EligibleWaiting(m) == due[m] /\ mail[m] \in {"pending", "retry"}
Eligible(m) ==
  /\ due[m]
  /\ \/ mail[m] \in {"pending", "retry"}
     \/ mail[m] = "processing" /\ expired[m]

Lease(m) ==
  /\ Eligible(m)
  /\ mail' = [mail EXCEPT ![m] = "processing"]
  /\ expired' = [expired EXCEPT ![m] = FALSE]
  /\ attempts' = [attempts EXCEPT ![m] = @ + 1]
  /\ UNCHANGED due

Enter(w, s) == stage' = [stage EXCEPT ![w] = s]

EndTask(w) ==
  /\ running' = [running EXCEPT ![w] = FALSE] /\ Enter(w, "idle")
  /\ held' = [held EXCEPT ![w] = NoMail] /\ seen' = [seen EXCEPT ![w] = 0]

Claim(w) ==
  /\ running[w] /\ stage[w] = "idle"
  /\ \E m \in Mails :
       /\ Lease(m)
       /\ held' = [held EXCEPT ![w] = m]
       /\ seen' = [seen EXCEPT ![w] = attempts[m] + 1]
  /\ Enter(w, "claimed")
  /\ UNCHANGED <<running, sent, bounds>>

ClaimFails(w) ==
  /\ running[w] /\ stage[w] = "idle" /\ MailFault
  /\ (\E m \in Mails : Lease(m)) \/ UNCHANGED row
  /\ EndTask(w) /\ UNCHANGED sent

\* A thread is sending the mail.
Sending(w) == stage[w] = "claimed" /\ held[w] \notin Unsupported

Send(w) ==
  /\ Sending(w) /\ Enter(w, "sent")
  /\ sent' = sent \cup {held[w]}
  /\ UNCHANGED <<row, running, held, seen, bounds>>

\* Every SMTP attempt failed, or the reply of one that succeeded was lost.
SendFails(w) ==
  /\ Sending(w) /\ Enter(w, "failing")
  /\ sent' \in {sent, sent \cup {held[w]}}
  /\ UNCHANGED <<row, running, held, seen, bounds>>

\* UnsupportedEmailKind: nothing is sent.
Refuse(w) ==
  /\ stage[w] = "claimed" /\ held[w] \in Unsupported /\ Enter(w, "failing")
  /\ UNCHANGED <<row, running, held, seen, sent, bounds>>

\* An unsupported kind is not tried again.
GivesUpEarly(w) == seen[w] + 1 >= MAX_ATTEMPTS \/ held[w] \in Unsupported
GivesUp(w) == seen[w] >= MAX_ATTEMPTS \/ held[w] \in Unsupported

OutcomeOptimistic(w) == IF GivesUp(w) /\ stage[w] = "failing" THEN "failed" ELSE "delivered"
Outcome(w) ==
  IF stage[w] = "sent" THEN "delivered"
  ELSE IF GivesUp(w) THEN "failed" ELSE "retry"

\* UPDATE ... WHERE id = ..., whatever another worker has written meanwhile.
WriteOutcome(w) ==
  LET m == held[w] IN
  /\ mail' = [mail EXCEPT ![m] = Outcome(w)]
  /\ due' = IF Outcome(w) = "retry" THEN [due EXCEPT ![m] = FALSE] ELSE due
  /\ expired' = [expired EXCEPT ![m] = FALSE]
  /\ UNCHANGED attempts

RecordOutcome(w) ==
  /\ stage[w] \in {"sent", "failing"} /\ mail[held[w]] # "gone"
  /\ WriteOutcome(w) /\ Enter(w, "idle")
  /\ held' = [held EXCEPT ![w] = NoMail] /\ seen' = [seen EXCEPT ![w] = 0]
  /\ UNCHANGED <<running, sent, bounds>>

\* An update that matches no row raises.
RecordNothing(w) ==
  /\ stage[w] \in {"sent", "failing"} /\ mail[held[w]] = "gone"
  /\ EndTask(w) /\ UNCHANGED <<row, sent, bounds>>

RecordFails(w) ==
  /\ stage[w] \in {"sent", "failing"} /\ MailFault
  /\ (mail[held[w]] # "gone" /\ WriteOutcome(w)) \/ UNCHANGED row
  /\ EndTask(w) /\ UNCHANGED sent

\* The process stops; a thread that is sending may still get its mail out.
Crash(w) ==
  /\ running[w] /\ MailFault
  /\ sent' \in {sent, IF Sending(w) THEN sent \cup {held[w]} ELSE sent}
  /\ EndTask(w) /\ UNCHANGED row

Restart(w) ==
  /\ ~running[w] /\ running' = [running EXCEPT ![w] = TRUE]
  /\ UNCHANGED <<row, stage, held, seen, sent, bounds>>

Work(w) ==
  \/ Claim(w) \/ Send(w) \/ SendFails(w) \/ Refuse(w)
  \/ RecordOutcome(w) \/ RecordNothing(w)

\* The steps of the workers and of the time that passes for them.
Deliver ==
  \/ \E m \in Mails : Wait(m) \/ Lapse(m)
  \/ \E w \in Workers :
       Work(w) \/ ClaimFails(w) \/ RecordFails(w) \/ Crash(w) \/ Restart(w)

OutboxNext ==
  \/ \E m \in Mails : Enqueue(m)
  \/ \E S \in SUBSET Mails : Purge(S)
  \/ Deliver

\* SMTP attempts time out, retry delays and leases pass, cli/worker.py's process
\* is restarted.
Fairness ==
  /\ \A m \in Mails : WF_outbox(Wait(m)) /\ WF_outbox(Lapse(m))
  /\ \A w \in Workers : WF_outbox(Work(w)) /\ WF_outbox(Restart(w))

OutboxSpec == OutboxInit /\ [][OutboxNext]_outbox
FairSpec == OutboxSpec /\ Fairness

--------------------------------------------------------------------------------
\* The shape of rows and workers.
OutboxTypeOK ==
  /\ mail \in [Mails -> {"absent", "pending", "retry", "processing",
                         "delivered", "failed", "gone"}]
  /\ attempts \in [Mails -> Nat]
  /\ due \in [Mails -> BOOLEAN] /\ expired \in [Mails -> BOOLEAN]
  /\ running \in [Workers -> BOOLEAN]
  /\ stage \in [Workers -> {"idle", "claimed", "sent", "failing"}]
  /\ held \in [Workers -> Mails \cup {NoMail}] /\ seen \in [Workers -> Nat]
  /\ \A w \in Workers : held[w] = NoMail <=> stage[w] = "idle"
  /\ sent \subseteq Mails
  /\ stalls \in 0..MaxStalls /\ mailFaults \in 0..MaxMailFaults

\* A mail marked delivered was accepted by the SMTP server, also when a worker
\* that lost its lease writes last.
DeliveredMeansSent == \A m \in Mails : mail[m] = "delivered" => m \in sent

\* No mail of a supported kind is given up before MAX_ATTEMPTS claims, whichever worker
\* decides it; one of an unsupported kind is given up at its first claim.
FailedMeansExhausted ==
  \A m \in Mails : mail[m] = "failed" => attempts[m] >= MAX_ATTEMPTS \/ m \in Unsupported

\* What a worker knows of its mail: it was claimed, so it exists or existed; the
\* attempts read at the claim are not more than those of the row; `sent` means sent.
TaskInv ==
  \A w \in Workers :
    /\ held[w] # NoMail => mail[held[w]] # "absent" /\ seen[w] <= attempts[held[w]]
    /\ stage[w] = "sent" => held[w] \in sent

MailInv == OutboxTypeOK /\ TaskInv /\ DeliveredMeansSent /\ FailedMeansExhausted

\* Every enqueued mail is in the end delivered, failed or deleted with its account, and
\* stays it, although the deletion of a mail in work ends the task of its worker.
EventuallyConcluded ==
  \A m \in Mails :
    mail[m] = "pending" ~> [](mail[m] \in {"delivered", "failed", "gone"})
================================================================================
