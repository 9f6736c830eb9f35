SPECIFICATION Spec
CONSTANTS
  None = None
  c1 = c1
  c2 = c2
  c3 = c3
  c4 = c4
  c5 = c5
  i1 = i1
  i2 = i2
  i3 = i3
  Calls = {c1, c2, c3, c4, c5}
  Indices = {i1, i2, i3}
SYMMETRY MCSymmetry
INVARIANTS
  TypeOK
  NothingIsUndone
  AccumulatorFits
  FinishedIsRevoked
  OneUpdateOfAList
PROPERTY
  RegisterSpec
\* every call may have been handled: no further call is bound to come
CHECK_DEADLOCK FALSE
