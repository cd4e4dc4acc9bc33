SPECIFICATION Spec
CONSTANTS
  NULL = NULL
  Down = Down
  Changes = {c1, c2}
  Workers = {w1, w2}
  c1 = c1
  c2 = c2
  w1 = w1
  w2 = w2
  w3 = w3
SYMMETRY Interchange
INVARIANT
  OpenRecovers
CHECK_DEADLOCK FALSE
