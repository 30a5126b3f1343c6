SPECIFICATION Spec
CONSTANTS
  Uuid = {u1, u2}
  Spelling = {upper}
  Malformed = Malformed
  Url <- MCUrl
  Dto <- MCDto
INVARIANTS
  RowsDecode
  PressRunsWhatIsShown
PROPERTIES
  ImplementsBook
