CONSTANTS
  r1 = r1
  r2 = r2
  r3 = r3
  w1 = w1
  w2 = w2
  w3 = w3
  Reads <- ThreeReads
  Writes <- ThreeWrites
  MaxOutstanding = 4
  ChannelDepth = 2
  BankDepth = 1
  EjectDepth = 1
SPECIFICATION FairSpec
INVARIANT OutstandingIsInFlight
INVARIANT CommandsTakeTurns
PROPERTY TraceCompletes
