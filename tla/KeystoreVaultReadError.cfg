SPECIFICATION KeystoreSpec
CONSTANTS
  Domains = {a, b}
  SanLists = {{}}
  Callers = {p}
  Backend = "vault"
  ListFile = list
  Records <- MCRecords
  MaxFaults = 1
PROPERTY
  OnlyItsRemovalUnlists
