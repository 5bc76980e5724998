CONSTANTS
  req1 = req1
  req2 = req2
  Packets <- TwoPackets
  InjectDepth = 1
  EjectDepth = 1
  SplitDepth = 1
  MaxCycle = 3
  MaxRounds = 2
  NoPkt = NoPkt
SYMMETRY PacketSymmetry
SPECIFICATION Spec
INVARIANT MeterAgreesWithQueues
INVARIANT SnapshotIsExact
INVARIANT DeflectionsAreAttributed
CHECK_DEADLOCK FALSE
