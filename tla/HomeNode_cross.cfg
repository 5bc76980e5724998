CONSTANTS
  r1 = r1
  r2 = r2
  r3 = r3
  r4 = r4
  w1 = w1
  w2 = w2
  la = la
  lb = lb
  Reads <- CrossReads
  Writes <- CrossWrites
  Lines <- TwoLines
  LineOf <- CrossLine
  Span <- CrossSpan
  MasterOf <- CrossMaster
  VRingOf <- Rings
  Hits = {}
  Sectored <- CrossReads
  EntryLimit = 2
  WaitersPerEntry = 2
  EjectDepth = 1
  FifoDepth = 1
  MemDepth = 1
  L2Depth = 1
  MaxResets = 0
  RdPorts = 1
  NoLine = NoLine
  NoWrite = NoWrite
SPECIFICATION FairSpec
PROPERTY LaterReadsSeeWrites
