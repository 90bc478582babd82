\* Two connections on two listeners, one of them behind the proxy and one
\* ClientFirst, with every goroutine scheduled fairly.
SPECIFICATION FairSpec
CONSTANTS
  l1 = l1
  l2 = l2
  a1 = a1
  a2 = a2
  c1 = c1
  c2 = c2
  c3 = c3
  Listeners = {l1, l2}
  Conns = {c1, c2}
  Addrs = {a1, a2}
  MaxConns = 1
  MaxConnsPerIP = 1
  TrustedPeers = {a1}
  ProxyListeners = {l1}
  ClientFirst = {l2}
  Recording = FALSE
PROPERTIES EverythingReturned
CHECK_DEADLOCK FALSE
