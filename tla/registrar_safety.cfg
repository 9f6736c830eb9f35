SPECIFICATION Spec
CONSTANTS
  None = None
  r1 = r1
  r2 = r2
  posted = posted
  unposted = unposted
  Requests = {r1, r2}
  Namespaces = {"home", "other"}
  HomeLedger = "home"
  LocalNyms = {posted, unposted}
  PostedNyms = {posted}
  PublicNym = posted
SYMMETRY MCSymmetry
INVARIANTS
  TypeOK
  PublishedNymHasKey
  NewDidSigns
  PublishedDocIsOurs
  OkMeansDone
  AttribAgrees
PROPERTIES
  StrandedForever
  RegisterSpec
\* every request may have been handled: no further call is bound to come
CHECK_DEADLOCK FALSE
