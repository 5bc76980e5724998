CONSTANTS
  r1 = r1
  r2 = r2
  r3 = r3
  r4 = r4
  w1 = w1
  w2 = w2
  la = la
  lb = lb
  Reads <- SharedReads
  Writes <- SharedWrites
  Lines <- TwoLines
  LineOf <- SharedLine
  Span <- SharedSpan
  MasterOf <- SharedMaster
  VRingOf <- Rings
  Hits = {r2}
  Sectored <- SharedReads
  EntryLimit = 2
  WaitersPerEntry = 2
  EjectDepth = 1
  FifoDepth = 1
  MemDepth = 2
  L2Depth = 1
  MaxResets = 0
  RdPorts = 2
  NoLine = NoLine
  NoWrite = NoWrite
SPECIFICATION Spec
INVARIANT TypeOK
INVARIANT NoFault
INVARIANT OneWriterPerLine
INVARIANT ReadersExcludeWriters
INVARIANT SharedDataIsCurrent
INVARIANT ReadsAccounted
INVARIANT GroupsHaveOwners
INVARIANT CompletionsAreCaptured
