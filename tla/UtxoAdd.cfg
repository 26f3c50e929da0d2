SPECIFICATION Spec
CONSTANTS
  Overlap = FALSE
  LoadMayFail = FALSE
  MaxOut = 5
INVARIANTS
  AddedStays
