SPECIFICATION GateSpec
CONSTANTS
  c1 = c1
  c2 = c2
  l1 = l1
  s1 = s1
  s2 = s2
  Conns = {c1, c2}
  Listeners = {l1}
  GatedListeners = {l1}
  Sids = {s1, s2}
  Streams = {s1, s2}
  ListenerOf <- MCListenerOf
  SidOf <- MCSidOf
  StreamOf <- MCStreamOf
  MAX_PENDING_PUBLISHER_CONNECTIONS = 2
  MAX_AUTH_REJECT_ENTRIES = 1
  AuthorizationDeadline = 2
  m_ttl = 2
CHECK_DEADLOCK FALSE
INVARIANTS TeardownAlone
