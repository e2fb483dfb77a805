SPECIFICATION Spec
CONSTANTS
  Domains = {a}
  SanLists = {{}}
  Callers = {h}
  Backend = "vault"
  ListFile = list
  Records = {}
  MaxFaults = 0
  Ops = {"add", "softRemove"}
  Flaky = {}
  Overlap = TRUE
  Crashes = FALSE
PROPERTY
  FreshKept
