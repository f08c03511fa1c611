---------------------------- MODULE MCRegistration ----------------------------
EXTENDS Registration, TLC

CONSTANTS c1, c2, u1, u2, k1, k2, k3

\* Requests, ids and codes have no names of their own.
Symmetry == Permutations({c1, c2}) \cup Permutations({u1, u2}) \cup Permutations({k1, k2, k3})
================================================================================
