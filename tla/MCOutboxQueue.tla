----------------------------- MODULE MCOutboxQueue -----------------------------
(* Small instances of OutboxQueue for TLC. *)
EXTENDS OutboxQueue

CONSTANTS w1, w2, d1, d2

================================================================================
