SPECIFICATION IssuerSpec
CONSTANTS
  None = None
  r1 = r1
  c1 = c1
  c2 = c2
  c3 = c3
  t = t
  posted = posted
  Foreigner = Foreigner
  Requests = {r1}
  Calls = {c1, c2, c3}
  Tags = {t}
  Namespaces = {"home", "other"}
  HomeLedger = "home"
  LocalNyms = {posted}
  PostedNyms = {posted}
  PublicNym = posted
SYMMETRY MCSymmetry
INVARIANTS
  IssuerTypeOK
  SentIsSigned
  OnlyNewNymsIssue
  CredDefOfItsSchema
PROPERTY
  NotFoundIsTrue
\* every request and call may have been handled
CHECK_DEADLOCK FALSE
