SPECIFICATION FairSpec
CONSTANTS
  ProfileId = {p1, p2}
  NoProfile = NoProfile
  Name = {default, work, blank}
  BlankName = {blank}
  DefaultName = default
  NoName = NoName
  ControlId = {key}
  docs = docs
  mail = mail
  Action <- MCActions
  ActionList <- MCActionLists
  Worker = {w1, w2}
  NoWorker = NoWorker
INVARIANTS
  TypeOK
  OneActive
  UnlockedIsCommitted
PROPERTIES
  CallsMakeProgress
  AcknowledgedIffApplied
  ReadsAreCommitted
  ImplementsRegistry
