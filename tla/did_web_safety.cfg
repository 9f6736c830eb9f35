SPECIFICATION Spec
CONSTANTS
  None = None
  r1 = r1
  r2 = r2
  r3 = r3
  Requests = {r1, r2, r3}
  Urls <- MCUrls
  Names <- MCNames
  Base <- MCBase
  Pieces <- MCPieces
  OneChar <- MCOneChar
SYMMETRY MCSymmetry
INVARIANTS
  TypeOK
  ServedKeyIsOurs
  ResolvesToItsName
  UrlIsLocation
PROPERTY
  DivergedForever
\* every request may have been handled
CHECK_DEADLOCK FALSE
