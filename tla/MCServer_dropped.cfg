SPECIFICATION Spec
CONSTANTS
  Conn = {c1}
  Worker = {w1, w2}
  NULL = NULL
  Kinds = {"gets", "gets_nomod"}
  RespLen = 1
  PipeCap = 1
  FreeTotal = 1
  MaxReq = 1
  MaxSess = 1
INVARIANT AlwaysHandedBack
