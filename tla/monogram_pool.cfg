\* Four callers of a pool of three connections.
SPECIFICATION FairSpec
CONSTANTS
  Queries = {q1, q2, q3, q4}
  Conns = {c1, c2, c3}
  None = None
INVARIANTS
  Kept
PROPERTIES
  WaitingEnds
