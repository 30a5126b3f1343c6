SPECIFICATION Spec
CONSTANTS
  Writer = {w1, w2}
  MaxFileBytes = 2
  MaxTotalBytes = 8
  MaxFiles = 4
  MaxAge = 5
  LineLength = {1, 2, 3}
  LastIndex = 3
  OldSize = {1, 3}
  NoFile = NoFile
  Startup = Startup
  Maintenance = Maintenance
  NoCaller = NoCaller
  OldBytes = 5
  MaxLines = 3
  MaxClock = 1
  MaxFailures = 2
SYMMETRY Symmetry
INVARIANTS
  TypeOK
  LogInOrder
  LineFits
  WithinLimits
PROPERTIES
  AcknowledgedIsKept
