SPECIFICATION SpecUninit
CONSTANTS
  h1 = h1  h2 = h2  w1 = w1
  Handle = {h1, h2}
  Worker = {w1}
  NULL = NULL
  HdId = {1, 2}
  HTAB_SIZE = 2
  BatchMax = 1
  Garbage = {1}
CHECK_DEADLOCK FALSE
INVARIANT Stable
