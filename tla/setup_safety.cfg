SPECIFICATION Spec
CONSTANTS
  None = None
  Namespaces = {"test", "demo"}
  Handlers = {"default", "rival", "older", "legacy", "other"}
  IndyHandlers = {"default", "rival", "older"}
  MaxHandlers = 3
INVARIANTS
  TypeOK
  OneHandlerForIndy
  OthersStay
  FailureLeavesDefault
  RegisteredIsEquipped
  LedgersMatchDriver
\* setup ends
CHECK_DEADLOCK FALSE
