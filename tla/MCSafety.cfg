SPECIFICATION SafetySpec
CONSTANTS
  p1 = p1
  p2 = p2
  other = other
  q1 = q1
  k1 = k1
  k2 = k2
  NoRole = NoRole
  Keys = {k1, k2}
  Publishers = {p1, p2, other}
  Pullers = {q1}
  timecode_sei = {p1}
  KeyOf <- MCKeyOf
  HintOf <- MCHintOf
  Hints <- MCHints
  DefaultSize = 8
  MAX_RING_BYTES = 32
  m_max_streams = 1
  m_max_total_ring_bytes = 64
  SharedWorker = TRUE
  Instances = {i1, i2}
  PidPaths = {"default", "other"}
  DefaultPath = "default"
  RootOnly = {"other"}
  MaxPidReloads = 1
  Commands <- MCCommands
  MaxConfLines = 6
  Confs <- MCConfs
  HostPorts = {2, 4}
  FallbackPort = 9
  MaxPort = 9
  FirstDataTimeouts = {0, 2}
  RoleIdleTimeouts <- MCIdle
  Window = 4
  OneSecond = 2
  SpikeLimit = 1
  ViolationTime = 4
  Bursts = {2, 5}
  MaxTicks = 16
  FF = 4
  Stop = 2
  Headers <- MCHeaders
  Contents <- MCContents
  Types = {1, 4}
  Want <- MCWant
  SpsOf <- MCSpsOf
  PicTiming <- MCPicTiming
  TimeCode <- MCTimeCode
  MaxNals = 2
  Programmes <- MCProgrammes
  Pictures <- MCPictures
  PrefixMax = 3
  MaxPictures = 3
  Viewers = {v1}
  HttpThreads = {t1}
  Pids = {1, 2}
  CcModulus = 4
  MaxTracked = 1
  MaxGap = 3
  MaxEvents = 2
  Literals = {"lan"}
  HostNames = {"n1", "n2"}
  Answers <- MCAnswers
  Internal = {"lan", "a3"}
  HostAddrs = {"home"}
  PushConfs <- MCPushConfs
  WebhookReplies <- MCReplies
  MaxRenames = 2
CHECK_DEADLOCK FALSE
INVARIANTS RingKept PidFileKept TreeAsWritten StartMatchesConfiguration IdleReapJustified LimitEnforced FirstTimecodeFound TimecodeGenuine CountedOnce DialsOwnAddress
