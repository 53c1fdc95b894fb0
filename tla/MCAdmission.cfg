SPECIFICATION AdmissionSpec
CONSTANTS
  c1 = c1
  c2 = c2
  c3 = c3
  k1 = k1
  k2 = k2
  l1 = l1
  s1 = s1
  s2 = s2
  Keys = {m1, m2, m3, m4}
  DefaultSize = 8388608
  MAX_RING_BYTES = 33554432
  m_max_streams = 3
  m_max_total_ring_bytes = 75497472
  Hints <- MCHints
  Conns = {c1, c2}
  Listeners = {l1}
  GatedListeners = {l1}
  Sids = {s1, s2}
  Streams = {s1, s2}
  ListenerOf <- MCListenerOf
  SidOf <- MCSidOf
  StreamOf <- MCStreamOf
  MAX_PENDING_PUBLISHER_CONNECTIONS = 2
  MAX_AUTH_REJECT_ENTRIES = 1
  AuthorizationDeadline = 2
  m_ttl = 2
  PlayerConns = {c1, c2, c3}
  PlayerKeys = {k1, k2}
  KeyOf <- MCKeyOf
  MAX_PENDING_PLAYER_CONNECTIONS = 2
  MAX_PENDING_PLAYER_KEY_VALIDATIONS = 1
  MAX_PLAYER_KEY_CACHE_ENTRIES = 1
  m_player_key_cache_duration = 4
  HoldTime = 2
  IPs = {i1, i2, i3}
  m_player_key_rate_limit_requests = 2
  m_player_key_rate_limit_window = 3
  MAX_RATE_LIMIT_ENTRIES = 2
  Players = {c1, c2, c3}
  Ports = {l1}
  PortOf <- MCPortOf
  OverrideOf <- MCOverrideOf
  max_players_per_stream = 1
  KeyTime = 2
  SharedWorker = TRUE
  V4Hosts = {h4, i4}
  V6Hosts = {h6}
  MaxRules = 2
CHECK_DEADLOCK FALSE
INVARIANTS BudgetExact ParserStateTracksRing AdmittedAuthorized BlockJustified RateLimitExact FirstRuleDecides AdmissionBounded
PROPERTIES PendingResolves BlockEnds AdmittedPermitted TimedOutUnanswered HeldResolves RefusalEnds AdmitWithinLimit RefusedOnlyWhenFull
