SPECIFICATION SessionsSpec
CONSTANTS
  TS_UDP_LEN = 2
  DATA_BUFF_SIZE = 4
  MAX_EGRESS_BATCHES = 2
  RingBytes = 5
  SndBuf = 1
  StuckTimeout = 2
  IdleTimeouts <- MCIdleTimeouts
  MaxPublished = 7
  MaxShortWrites = 1
  RelayWorkers = {w1}
  Upstreams <- MCUpstreams
  HashIndex = 2
  ReconnectInterval = 1
  RelayConfs <- MCConfs
  MaxSessions = 2
  MaxRelays = 3
CHECK_DEADLOCK FALSE
INVARIANTS SentInOrder StuckJustified OneRelayPerUpstream NoOrphanRelay
PROPERTIES StagedResolves PullerRecovers
