SPECIFICATION Spec
CONSTANTS
  Overlap = FALSE
  LoadMayFail = TRUE
  MaxOut = 4
PROPERTIES
  UnreadIsUnwritten
