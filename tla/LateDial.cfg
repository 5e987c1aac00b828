SPECIFICATION Spec
CONSTANTS
  p = p q = q a1 = a1 a2 = a2 h1 = h1 t1 = t1 t2 = t2 m1 = m1 m2 = m2
  Topic = {t1, t2}
  Peer = {p, q}
  Addr = {a1, a2}
  Host = {h1}
  PeerAt <- OnePeerPerPort
  HostOf <- OneHost
  Msg = {m1, m2}
  TopicOf <- MsgTopic
  Dedupe = TRUE
  MaxDials = 1
  MaxConns = 1
CHECK_DEADLOCK FALSE
INVARIANT NoPanic
