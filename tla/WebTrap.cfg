\* Two requests at a time, three sources of which the table tracks two, three
\* POSTs to get in and three views to get to the deep reveal.
SPECIFICATION Spec
CONSTANTS
  c1 = c1
  c2 = c2
  s1 = s1
  s2 = s2
  s3 = s3
  Conns = {c1, c2}
  Sources = {s1, s2, s3}
  BreakInAfter = 3
  DeepAfter = 3
  TrackCap = 2
SYMMETRY ConnSymmetry
INVARIANTS WorkBeforeEntry DeepIsEarned HoneytokenOnce ResponseReachesWire
PROPERTIES DoorStaysOpen
