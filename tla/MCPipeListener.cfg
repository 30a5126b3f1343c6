SPECIFICATION FairPipeSpec
CONSTANTS
  Handle = {h1, h2, h3, h4}
  NoHandle = NoHandle
  MaxDevConnections = 3
INVARIANTS
  PipeTypeOK
  EveryThreadTracked
  WithinLimit
  ReapIsComplete
  RenewalHasRoom
PROPERTIES
  JoinedHasFinished
  AcceptReturns
  EarlyClientIsServed
  ImplementsDevConnections
CHECK_DEADLOCK FALSE
