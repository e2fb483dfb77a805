SPECIFICATION FairSpec
CONSTANTS
  a = a
  b = b
  Domains = {a, b}
  MaxVersion = 2
  IssuedFor <- OneEach
  CommonName <- OneEach
  MaxChanges = 3
  MaxFaults = 0
PROPERTY
  TraefikNamesOffered
