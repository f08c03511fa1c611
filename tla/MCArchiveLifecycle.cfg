\* Two workers; two owners share a chunk, the export of a third is too large.
SPECIFICATION Spec
CONSTANTS
  a1 = a1  a2 = a2  a3 = a3  c1 = c1  c2 = c2
  Archives = {a1, a2, a3}
  Chunks = {c1, c2}
  ChunkOf <- MCChunkOf
  Oversized = {a3}
  Workers = {w1, w2}
  None = None
  MaxStalls = 1
  MaxFaults = 2
SYMMETRY Symmetry
INVARIANTS DroppedMeansVerified RowsSurvive StoredMeansObject
PROPERTY NoRegressUnlessExposed
CHECK_DEADLOCK FALSE
