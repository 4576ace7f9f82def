SPECIFICATION Spec
CONSTANTS
  Operator = operator
  None = none
  Users = {u1, u2}
  Failing = {"write"}
  Names = {m, n}
SYMMETRY Symmetry
INVARIANTS TypeOK FileIntact FileCurrent RightsAgree
