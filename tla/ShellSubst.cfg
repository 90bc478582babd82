SPECIFICATION Spec
CONSTANTS
  Text <- MCText
  Plain <- MCPlain
  Typed <- MCTyped
  Files <- MCFiles
  Vars = {"X", "Y"}
  PivotHosts = {"nas"}
  MaxDepth = 3
  MaxExpand = 5
  MaxSubs = 2
  MaxFind = 2
  MaxPanics = 0
INVARIANT
  SubstitutionsRunOnce
