\* Three connections race for two slots, one per source, on one listener that
\* sits behind the proxy (a1) and is reachable by an untrusted peer (a2) too.
SPECIFICATION Spec
CONSTANTS
  l1 = l1
  l2 = l2
  a1 = a1
  a2 = a2
  c1 = c1
  c2 = c2
  c3 = c3
  Listeners = {l1}
  Conns = {c1, c2, c3}
  Addrs = {a1, a2}
  MaxConns = 2
  MaxConnsPerIP = 1
  TrustedPeers = {a1}
  ProxyListeners = {l1}
  ClientFirst = {l1}
  Recording = TRUE
SYMMETRY ConnSymmetry
INVARIANTS SlotAccounting UntrustedPeerCapped RecordIsWhole ShedAccounting
PROPERTIES ShedOnlyWhenFull LimitersAreCaps
CHECK_DEADLOCK FALSE
