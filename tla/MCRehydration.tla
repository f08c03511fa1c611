----------------------------- MODULE MCRehydration -----------------------------
EXTENDS Rehydration, TLC

CONSTANTS r1, r2, r3, k1, k2

\* Two requests for the same archives, one for others.
MCKeyOf == [r \in Requests |-> IF r = r3 THEN k2 ELSE k1]
================================================================================
