SPECIFICATION Spec
CONSTANTS
  None = None
  Requests = {r1}
  Keys = {k1, k2}
  Domains <- Written
  Decode <- FromHex
SYMMETRY Symmetry
INVARIANTS
  TypeOK
  AdmittedInScope
  RevokedIsRefused
  GrantedIsAdmitted
