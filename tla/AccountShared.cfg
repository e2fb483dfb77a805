SPECIFICATION FairSpec
CONSTANTS
  Instances = {i, j}
  Keys = {k1, k2, k3, k4}
  NoKey = none
  Torn = torn
  Backend = "vault"
  MaxFaults = 2
INVARIANTS
  AccountTypeOK
  AccountsKept
PROPERTIES
  OneAccountInTheEnd
  KeepsOrdering
