SPECIFICATION TransferSpec
CONSTANTS
  Domains = {a, b}
  SanLists = {{}}
  Callers = {h}
  Backend = "filesystem"
  ListFile = list
  Records = {}
  MaxFaults = 1
  Ops = {"add", "softRemove"}
  Flaky = {}
  Overlap = FALSE
  Crashes = FALSE
  RestoreOnly = TRUE
INVARIANTS
  TransferTypeOK
  AgreesAfterImports
  NoNeedlessOrder
PROPERTY
  SuccessRestores
