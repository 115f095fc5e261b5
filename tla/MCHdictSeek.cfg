SPECIFICATION FairSpec
CHECK_DEADLOCK FALSE
CONSTANTS
  Key = {0, 1, 4}
  LinesMax = 5
  LenMax = 1
  BIT_MULTI = 2
  WORD = 10
  OFFS = 3
  LENS = 2
INVARIANTS Found ProbeInside SeekInv
PROPERTY SeekEnds
