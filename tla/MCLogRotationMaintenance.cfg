SPECIFICATION FairSpec
CONSTANTS
  Writer = {w1}
  MaxFileBytes = 2
  MaxTotalBytes = 6
  MaxFiles = 3
  MaxAge = 1
  LineLength = {1, 3}
  LastIndex = 2
  OldSize = {2, 3}
  NoFile = NoFile
  Startup = Startup
  Maintenance = Maintenance
  NoCaller = NoCaller
  OldBytes = 5
  MaxLines = 2
  MaxClock = 4
  MaxFailures = 1
PROPERTIES
  ExpiredAreRemoved
