SPECIFICATION KeystoreSpec
CONSTANTS
  Domains = {a, b}
  SanLists = {{}, {www}}
  Callers = {p, q}
  Backend = "memory"
  ListFile = list
  Records <- MCRecords
  MaxFaults = 0
PROPERTY
  KeepsPromise
