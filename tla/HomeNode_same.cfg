CONSTANTS
  r1 = r1
  r2 = r2
  r3 = r3
  r4 = r4
  w1 = w1
  w2 = w2
  la = la
  lb = lb
  Reads = {}
  Writes <- SameWrites
  Lines <- TwoLines
  LineOf <- SameLine
  Span <- SameSpan
  MasterOf <- SameMaster
  VRingOf <- Rings
  Hits = {}
  Sectored = {}
  EntryLimit = 2
  WaitersPerEntry = 2
  EjectDepth = 1
  FifoDepth = 1
  MemDepth = 2
  L2Depth = 1
  MaxResets = 0
  RdPorts = 1
  NoLine = NoLine
  NoWrite = NoWrite
SPECIFICATION FairSpec
PROPERTY WritesComplete
