\* Three events, one of them of hapwatch, one browser and one place at the gate, which its own stale
\* stream may occupy; two breaks and one kill.
SPECIFICATION FairSpec
CONSTANTS
  e1 = e1
  e2 = e2
  e3 = e3
  c1 = c1
  Events = {e1, e2, e3}
  Outside = {e3}
  Clients = {c1}
  MaxStreams = 1
  LineBytes = 3
  MaxBreaks = 2
  MaxCrashes = 1
  None = None
INVARIANTS TypeOK TornWriteCost StreamHasNoGap FramesAreLines
CHECK_DEADLOCK FALSE
PROPERTIES CatchesUp GateReopens
