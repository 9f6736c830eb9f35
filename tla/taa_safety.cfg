SPECIFICATION Spec
CONSTANTS
  None = None
  t1 = t1
  t2 = t2
  r1 = r1
  r2 = r2
  r3 = r3
  Tenants = {t1, t2}
  Requests = {r1, r2, r3}
  Parts <- MCParts
  Namespaces <- MCTwoNamespaces
  Ledgers <- MCOneNamespace
  Versions = {"1", "2"}
  Mechanisms = {"on_file"}
SYMMETRY MCSymmetry
INVARIANTS
  TypeOK
  TenantsOwnAcceptance
  ServedIsRecorded
  OneRecordPerAgreement
  AcknowledgedIsDurable
  AcceptedIsShown
PROPERTIES
  AcknowledgedIsListed
  StoreSpec
\* every request may have been handled: no further call is bound to come
CHECK_DEADLOCK FALSE
