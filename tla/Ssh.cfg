SPECIFICATION FairSpec
CONSTANTS
  MaxChans = 2
  MaxReqs = 3
  MaxKeys = 2
  MaxAuthTries = 1
  MaxCooked = 2
  MaxPanics = 1
INVARIANTS
  AcceptedIsServed
  ShellOnItsChannel
  EnterIsOneLine
PROPERTY
  HandlerEnds
