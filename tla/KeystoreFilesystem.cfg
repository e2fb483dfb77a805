SPECIFICATION KeystoreSpec
CONSTANTS
  Domains = {a, b}
  SanLists = {{}}
  Callers = {p, q}
  Backend = "filesystem"
  ListFile = list
  Records <- MCRecords
  MaxFaults = 1
INVARIANT
  KeystoreTypeOK
PROPERTY
  KeepsPromise
