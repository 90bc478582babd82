SPECIFICATION Spec
CONSTANTS
  MaxChans = 2
  MaxReqs = 3
  MaxKeys = 2
  MaxAuthTries = 1
  MaxCooked = 2
  MaxPanics = 1
INVARIANT
  EchoIsSent
