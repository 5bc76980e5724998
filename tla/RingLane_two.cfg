CONSTANTS
  a1 = a1
  a2 = a2
  a3 = a3
  b1 = b1
  b2 = b2
  N = 2
  LinkDepth = 1
  InjectDepth = 2
  EjectDepth = 1
  Packets <- Four
  Src <- FourSrc
  Dst <- FourDst
  Directional = {}
  Resettable = TRUE
  NoPkt = NoPkt
  NoStation = NoStation
  NoSlot = NoSlot
SPECIFICATION FairSpec
INVARIANT TypeOK
INVARIANT PoolCountsSlots
INVARIANT ITagsAreOwed
PROPERTY ReservationIsHonoured
PROPERTY DrainsWhenQuiet
PROPERTY RingKeepsDelivering
