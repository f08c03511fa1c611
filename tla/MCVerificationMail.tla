--------------------------- MODULE MCVerificationMail ---------------------------
EXTENDS VerificationMail, TLC

CONSTANTS c1, c2, u1, u2, k1, k2

\* Requests, ids and codes have no names of their own.
Symmetry == Permutations(Calls) \cup Permutations(Users) \cup Permutations(Codes)
================================================================================
