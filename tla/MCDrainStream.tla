----------------------------- MODULE MCDrainStream -----------------------------
(* Small instances of DrainStream for TLC. *)
EXTENDS DrainStream

CONSTANTS w1, w2, e1, e2

\* Two entries that share an event, as a retried bulk request does.
SharedEvents == <<{e1}, {e1, e2}>>

\* A good entry and one no parser accepts.
GoodAndPoison == <<{e1}, {}>>

\* One entry that carries one event.
SingleEntry == <<{e1}>>
================================================================================
