SPECIFICATION LproxySpec
CONSTANTS
  h1 = h1  h2 = h2  h3 = h3
  w1 = w1  w2 = w2
  c1 = c1  c2 = c2
  l1 = l1  l2 = l2
  Handle = {h1, h2, h3}
  Worker = {w1, w2}
  NULL = NULL
  HdId = {1}
  HTAB_SIZE = 1
  BatchMax = 1
  Lib = {l1}
  Ctx = {c1, c2}
  Number = {0, 1, 2}
  Databases = {0, 1}
  InRedis = {0, 1}
  Deleted = {1}
  Restarts = 1
SYMMETRY Symmetry
INVARIANTS ModuleUsable LibrariesCounted ConnectionsOwned AnswersItsNumber GoodConnectionFirst
