CONSTANTS
  s1 = s1
  s2 = s2
  r1 = r1
  r2 = r2
  Senders = {s1, s2}
  Receivers = {r1, r2}
  QUEUE_SIZE = 2
  MaxPos = 3
  NoMsg = NoMsg
SPECIFICATION FairSpec
INVARIANTS TypeOK SlotIsExclusive
PROPERTIES IsFifo AllReceived
CHECK_DEADLOCK FALSE
