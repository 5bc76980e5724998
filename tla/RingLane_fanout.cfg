CONSTANTS
  a1 = a1
  a2 = a2
  a3 = a3
  b1 = b1
  b2 = b2
  N = 3
  LinkDepth = 1
  InjectDepth = 1
  EjectDepth = 1
  Packets <- Fan
  Src <- FanSrc
  Dst <- FanDst
  Directional = {0}
  Resettable = TRUE
  NoPkt = NoPkt
  NoStation = NoStation
  NoSlot = NoSlot
SPECIFICATION Spec
INVARIANT ReservationsHaveOwners
PROPERTY ReservedRoomKept
PROPERTY ImplementsTransport
SYMMETRY FanSymmetry
