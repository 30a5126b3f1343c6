SPECIFICATION Spec
CONSTANTS
  Handle = {h1, h2, h3, h4}
  NoHandle = NoHandle
  MaxDevConnections = 3
PROPERTIES
  RefusedOnlyAtLimit
