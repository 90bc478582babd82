\* One session on a tree with a directory, a file and links: every sequence of
\* commands within the entry budget.
SPECIFICATION Spec
CONSTANTS
  s1 = s1
  s2 = s2
  Sessions = {s1}
  Paths <- TreePaths
  Base <- Tree
  Lengths = {1}
  MaxFileBytes = 2
  MaxBytes = 3
  MaxEntries = 2
  MaxGlobalBytes = 3
  MaxLinkDepth = 1
INVARIANTS BytesExact ListingAgrees TakesEffect
PROPERTY RemovedStaysGone
