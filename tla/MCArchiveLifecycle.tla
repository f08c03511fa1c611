--------------------------- MODULE MCArchiveLifecycle ---------------------------
EXTENDS ArchiveLifecycle, TLC

CONSTANTS a1, a2, a3, c1, c2

\* Two owners share a chunk, a third has one of its own.
MCChunkOf == a1 :> c1 @@ a2 :> c1 @@ a3 :> c2
Symmetry == Permutations(Workers) \cup Permutations({a1, a2})
================================================================================
