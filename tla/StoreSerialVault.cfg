SPECIFICATION Spec
CONSTANTS
  Domains = {a, b}
  SanLists = {{}, {www}}
  Callers = {h}
  Backend = "vault"
  ListFile = list
  Records = {}
  MaxFaults = 0
  Ops = {"add", "softRemove", "hardRemove", "deleteCert"}
  Flaky = {b}
  Overlap = FALSE
  Crashes = FALSE
INVARIANTS
  NoDuplicates
  TypeOK
  ListAndRecordsAgree
  RecordForListed
PROPERTIES
  IssuedWithSans
  RecordOnlyForListed
  RenewedOnlyWhileListed
  FreshKept
