SPECIFICATION Spec
CONSTANTS
  w1 = w1  w2 = w2
  Worker = {w1, w2}
  DATA_BUFFER_SIZE = 16
  SLACK = 12
  HDICT_VALUE_LENGTH_MAX = 20
  MODULE_SLACK = 10
  INT_MAX = 63
  WORD = 2
  Header = {4}
  MODULE_HEADER = 2
  Key = {3}
  Length = {0, 19, 20}
  Line = {13}
  MaxTokens <- TwoAndOne
  MaxAsked = 2
INVARIANTS NoOverrun RoomForEnd StatsAddUp NumQryHonest
