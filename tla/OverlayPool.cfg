\* Two sessions whose bytes together exceed the process ceiling, and each with
\* more names than its entry budget.
SPECIFICATION Spec
CONSTANTS
  s1 = s1
  s2 = s2
  Sessions = {s1, s2}
  Paths <- FlatPaths
  Base <- Flat
  Lengths = {1, 2}
  MaxFileBytes = 2
  MaxBytes = 2
  MaxEntries = 1
  MaxGlobalBytes = 3
  MaxLinkDepth = 1
SYMMETRY SessionSymmetry
INVARIANTS PoolAccounting EntriesBounded
PROPERTY QuotaSpec
