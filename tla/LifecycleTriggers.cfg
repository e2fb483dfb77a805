SPECIFICATION FairSpec
CONSTANTS
  Handlers = {h}
  MaxSenders = 2
INVARIANTS
  TypeOK
  OrdersHaveKeystore
  NoLostTrigger
PROPERTIES
  StaysConnected
  TriggerServed
  Recovers
