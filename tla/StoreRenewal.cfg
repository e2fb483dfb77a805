SPECIFICATION FairSpec
CONSTANTS
  Domains = {a, b}
  SanLists = {{}}
  Callers = {h}
  Backend = "vault"
  ListFile = list
  Records = {}
  MaxFaults = 1
  Ops = {"add", "hardRemove", "deleteCert"}
  Flaky = {b}
  Overlap = TRUE
  Crashes = TRUE
INVARIANTS
  NoNeedlessOrder
  StatusTellsPem
PROPERTIES
  DaemonKeepsFresh
  ManagedRenewed
  RemovedLeftAlone
