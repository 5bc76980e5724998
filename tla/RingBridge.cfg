CONSTANTS
  p1 = p1
  p2 = p2
  q1 = q1
  t1 = t1
  Packets <- FourPackets
  Preference <- PreferenceOf
  Cycles <- CyclesOf
  EjectDepth = 1
  SplitDepth = 1
  NoPkt = NoPkt
SPECIFICATION FairSpec
INVARIANT SplitRoomKept
INVARIANT EventsMatchFlags
INVARIANT OvertakenOnce
PROPERTY BandwidthIsPaid
PROPERTY HeadGetsOver
