\* Two questions over three chunks; a matrix of twelve cells, three or fewer
\* measurements a call, one question to /evaluation, two rebuilds or
\* restarts.
CONSTANTS
  a = a
  b = b
  c = c
  p = p
  q = q
  plain = plain
  tied = tied
  wrong = wrong
  Multiplier = 2
  RRFK = 60
  Questions = {p, q}
  Versions = {plain, tied, wrong}
  Missing = Missing
  Index <- MCIndex
  Labels <- MCLabels
  Measured <- MCMeasured
  SweptTopK <- MCSweptTopK
  AskedTopK = {1}
  Budget = 0
  MaxCost = 2
  MaxAsked = 1
  MaxRebuilds = 2
SPECIFICATION FairSpec
PROPERTY MatrixCompletes
