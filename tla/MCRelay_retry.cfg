SPECIFICATION RelaySpec
CHECK_DEADLOCK FALSE
CONSTANTS
  RelayWorkers = {w1}
  Upstreams <- MCUpstreams
  HashIndex = 2
  ReconnectInterval = 1
  RelayConfs <- MCDynamic
  MaxSessions = 1
  MaxRelays = 3
PROPERTIES RetryHappens
