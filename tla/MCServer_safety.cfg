SPECIFICATION Spec
CONSTANTS
  Conn = {c1, c2}
  Worker = {w1, w2}
  NULL = NULL
  Kinds = {"get", "stats", "version", "gets", "gets_nomod", "gets_bad", "quit", "stop"}
  RespLen = 1
  PipeCap = 1
  FreeTotal = 1
  MaxReq = 1
  MaxSess = 2
SYMMETRY Symmetry
INVARIANTS IInv OneOwner OnlyModuleMissLoses NotifyBalance Accounting NothingStuck
