SPECIFICATION KeySpec
CONSTANTS
  c1 = c1
  c2 = c2
  c3 = c3
  k1 = k1
  k2 = k2
  PlayerConns = {c1, c3}
  PlayerKeys = {k1, k2}
  KeyOf <- MCKeyOf
  MAX_PENDING_PLAYER_CONNECTIONS = 2
  MAX_PENDING_PLAYER_KEY_VALIDATIONS = 2
  MAX_PLAYER_KEY_CACHE_ENTRIES = 2
  m_player_key_cache_duration = 4
  HoldTime = 2
CHECK_DEADLOCK FALSE
INVARIANTS TeardownClosesHeld
