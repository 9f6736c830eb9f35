SPECIFICATION FairSpec
CONSTANTS
  None = None
  t1 = t1
  r1 = r1
  r2 = r2
  r3 = r3
  Tenants = {t1}
  Requests = {r1, r2, r3}
  Parts <- MCParts
  Namespaces <- MCOneNamespace
  Ledgers <- MCOneNamespace
  Versions = {"1"}
  Mechanisms = {"on_file"}
PROPERTY
  StaleEntriesDrain
\* every request may have been handled: no further call is bound to come
CHECK_DEADLOCK FALSE
