SPECIFICATION Spec
CONSTANTS
  None = None
  t1 = t1
  r1 = r1
  r2 = r2
  Tenants = {t1}
  Requests = {r1, r2}
  Parts <- MCParts
  Namespaces <- MCTwoNamespaces
  Ledgers <- MCTwoNamespaces
  Versions = {"1"}
  Mechanisms = {"on_file"}
INVARIANT
  TaaIsForNamespace
\* every request may have been handled: no further call is bound to come
CHECK_DEADLOCK FALSE
