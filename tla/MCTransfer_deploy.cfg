SPECIFICATION DeployFairSpec
CONSTANTS
  here = here  there = there  self = self
  Versions = 2
  OpenTries = 2
  Deaths = 2
  Host = {here, there, self}
  HERE = here
  Local = {self}
  MaxRunning = 1
INVARIANT RestartKeepsUp
PROPERTIES OpensWhole OnlyForward RemoteCopiedFirst ServedAgain FlaggedIsChosen
