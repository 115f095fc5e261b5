SPECIFICATION DeploySpec
CONSTANTS
  here = here  there = there  self = self
  Versions = 1
  OpenTries = 1
  Deaths = 0
  Host = {here, self}
  HERE = here
  Local = {self}
  MaxRunning = 1
PROPERTY AllCopiedFirst
