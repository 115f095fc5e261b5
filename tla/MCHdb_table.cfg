SPECIFICATION FairSpec
CONSTANTS
  h1 = h1  h2 = h2  h3 = h3  h4 = h4
  w1 = w1  w2 = w2  w3 = w3
  Handle = {h1, h2, h3}
  Worker = {w1, w2}
  NULL = NULL
  HdId = {1, 3}
  HTAB_SIZE = 2
  BatchMax = 1
INVARIANTS
  NoUseAfterFree RefExact OwnedOnce ChainsMatch OnePerId CountsExact BatchFits IInv
PROPERTIES RetiredOnlyDrains OnlyCloseUnmounts RetiredFreed ImplementsTable
