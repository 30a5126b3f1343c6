SPECIFICATION FairSpec
CONSTANTS
  Process = {p1, p2, p3}
  NoProcess = NoProcess
  Inode = {i1, i2}
  NoInode = NoInode
  NoSocket = NoSocket
  StaleSocket = StaleSocket
  MaxFailures = 1
  MaxKills = 2
INVARIANTS
  TypeOK
  OneCore
  LockNamesOwner
  LiveSocketStays
  NoConflict
PROPERTIES
  AloneItServes
