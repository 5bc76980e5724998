CONSTANTS
  short = short
  middle = middle
  long = long
  Slots <- SlotsOfThree
  Cycles <- CyclesOfThree
  Latency = 2
  NoSlot = NoSlot
SPECIFICATION FairSpec
INVARIANT EventsMatchFlags
INVARIANT MoveBeforeRelease
INVARIANT InflightCounts
PROPERTY SerializationIsPaid
PROPERTY ImplementsLink
PROPERTY LinkReopens
