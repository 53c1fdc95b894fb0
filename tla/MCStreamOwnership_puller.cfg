SPECIFICATION OwnSpec
CONSTANTS
  p1 = p1
  p2 = p2
  other = other
  q1 = q1
  k1 = k1
  k2 = k2
  NoRole = NoRole
  Keys = {k1, k2}
  Publishers = {p1}
  Pullers = {q1}
  timecode_sei = {}
  KeyOf <- MCKeyOf
  HintOf <- MCHintOf
  Hints <- MCHints
  DefaultSize = 8
  MAX_RING_BYTES = 32
  m_max_streams = 1
  m_max_total_ring_bytes = 64
  SharedWorker = FALSE
INVARIANTS RingKept
