SPECIFICATION FairSpec
CONSTANTS
  a = a
  b = b
  Domains = {a, b}
  MaxVersion = 3
  IssuedFor <- TwoForOne
  CommonName <- NameTaken
  MaxChanges = 3
  MaxFaults = 1
INVARIANT
  TypeOK
PROPERTIES
  SuccessTells
  Arrives
