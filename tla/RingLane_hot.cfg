CONSTANTS
  a1 = a1
  a2 = a2
  a3 = a3
  b1 = b1
  b2 = b2
  N = 2
  LinkDepth = 1
  InjectDepth = 2
  EjectDepth = 1
  Packets <- Hot
  Src <- HotSrc
  Dst <- HotDst
  Directional = {}
  Resettable = FALSE
  NoPkt = NoPkt
  NoStation = NoStation
  NoSlot = NoSlot
SPECIFICATION FairSpec
PROPERTY CarriedIsDelivered
