SPECIFICATION FairSpec
CONSTANTS
  Conn = {c1}
  Worker = {w1, w2}
  NULL = NULL
  Kinds = {"get", "stats", "version", "gets", "gets_nomod", "gets_bad", "quit", "stop"}
  RespLen = 2
  PipeCap = 1
  FreeTotal = 1
  MaxReq = 2
  MaxSess = 2
INVARIANTS RepliesInOrder CleanHandoff
PROPERTY Answered
