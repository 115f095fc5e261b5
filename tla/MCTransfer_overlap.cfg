SPECIFICATION DeploySpec
CONSTANTS
  here = here  there = there  self = self
  Versions = 2
  OpenTries = 1
  Deaths = 0
  Host = {here, there}
  HERE = here
  Local = {}
  MaxRunning = 2
PROPERTY AllCopiedFirst
