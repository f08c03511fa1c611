----------------------------- MODULE MCEmailOutbox -----------------------------
(* Small instances of EmailOutbox for TLC. *)
EXTENDS EmailOutbox

CONSTANTS w1, w2, m1, m2

================================================================================
