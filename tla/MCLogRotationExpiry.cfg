SPECIFICATION Spec
CONSTANTS
  Writer = {w1}
  MaxFileBytes = 2
  MaxTotalBytes = 6
  MaxFiles = 3
  MaxAge = 1
  LineLength = {1}
  LastIndex = 1
  OldSize = {2, 3}
  NoFile = NoFile
  Startup = Startup
  Maintenance = Maintenance
  NoCaller = NoCaller
  OldBytes = 6
  MaxLines = 2
  MaxClock = 3
  MaxFailures = 0
PROPERTIES
  AcknowledgedIsKept
