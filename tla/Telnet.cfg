\* Reads of two bytes, so that a line and a command may straddle them.
SPECIFICATION Spec
CONSTANTS
  Units <- MCUnits
  MaxUnits = 3
  BufSize = 2
  MaxNegs = 1
  MaxSubneg = 2
  MaxLine = 3
INVARIANT
  StreamDecoded
