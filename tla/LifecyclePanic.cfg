SPECIFICATION Spec
CONSTANTS
  Handlers = {h}
  MaxSenders = 1
PROPERTY
  EnsuredStays
