\* Every request over indexes of four positions, with windows of two
\* candidates per result, so that windows cut off what could be returned.
CONSTANTS
  a = a
  b = b
  c = c
  d = d
  Multiplier = 2
  RRFK = 60
  TopK = {1, 2}
  Indexes <- MCIndexes
SPECIFICATION Spec
INVARIANT HybridRerankerPromotes
CHECK_DEADLOCK FALSE
