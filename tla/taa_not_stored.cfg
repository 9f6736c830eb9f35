SPECIFICATION Spec
CONSTANTS
  None = None
  t1 = t1
  r1 = r1
  r2 = r2
  Tenants = {t1}
  Requests = {r1, r2}
  Parts <- MCParts
  Namespaces <- MCOneNamespace
  Ledgers <- MCOneNamespace
  Versions = {"1"}
  Mechanisms = {"on_file"}
INVARIANT
  AcknowledgedIsStored
\* every request may have been handled: no further call is bound to come
CHECK_DEADLOCK FALSE
