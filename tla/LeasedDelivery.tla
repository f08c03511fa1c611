---------------------------- MODULE LeasedDelivery -----------------------------
(***************************************************************************)
(* What a durable delivery queue promises, whoever consumes it: an offered  *)
(* delivery waits, is held by one consumer at a time, and ends once, as done *)
(* only after its latest accepted content took effect.  Effects are at      *)
(* least once: a consumer that lost its lease may still perform its own.    *)
(* OutboxQueue and WebhookOutbox implement this.                            *)
(***************************************************************************)
EXTENDS Integers

CONSTANT Deliveries

VARIABLES state,    \* "absent", "waiting", "held", "done" or "dead"
          content,  \* how often its content was accepted; 0 when absent
          effects   \* contents of deliveries that took effect: <<delivery, content>>

vars == <<state, content, effects>>

Init ==
  /\ state = [d \in Deliveries |-> "absent"]
  /\ content = [d \in Deliveries |-> 0]
  /\ effects = {}

\* A producer offers a delivery, or refreshes one that waits.
Offer(d) ==
  /\ state[d] \in {"absent", "waiting"}
  /\ state' = [state EXCEPT ![d] = "waiting"]
  /\ content' = [content EXCEPT ![d] = @ + 1]
  /\ UNCHANGED effects

Hold(d) ==
  /\ state[d] = "waiting" /\ state' = [state EXCEPT ![d] = "held"]
  /\ UNCHANGED <<content, effects>>

\* Some consumer, perhaps one that lost its lease, performs an accepted content.
Perform(d) ==
  /\ \E v \in 1..content[d] : effects' = effects \cup {<<d, v>>}
  /\ UNCHANGED <<state, content>>

Succeed(d) ==
  /\ state[d] = "held" /\ state' = [state EXCEPT ![d] = "done"]
  /\ effects' \in {effects, effects \cup {<<d, content[d]>>}}
  /\ <<d, content[d]>> \in effects'
  /\ UNCHANGED content

GiveUp(d) ==
  /\ state[d] = "held"
  /\ \E s \in {"waiting", "dead"} : state' = [state EXCEPT ![d] = s]
  /\ UNCHANGED <<content, effects>>

Next == \E d \in Deliveries :
  Offer(d) \/ Hold(d) \/ Perform(d) \/ Succeed(d) \/ GiveUp(d)

Spec == Init /\ [][Next]_vars
================================================================================
