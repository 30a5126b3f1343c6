SPECIFICATION Spec
CONSTANTS
  c1 = c1
  p1 = p1
  p2 = p2
  key = key
  docs = docs
  mail = mail
  blank = blank
  default = default
  ProfileId = {p1, p2}
  NoProfile = NoProfile
  Name = {default, blank}
  BlankName = {blank}
  DefaultName = default
  NoName = NoName
  ControlId = {key}
  Action = {docs, mail}
  ActionList <- MCActionLists
  Version = {"0.3", "0.2"}
  CurrentVersion = "0.3"
  Conn = {c1, c2}
  Line <- MCAnswerLines
  MaxLines <- MCAnswerMax
  Stalling = {}
  BufferSize = 16
  MaxAhead = 2
PROPERTIES
  WaitingLineIsAnswered
