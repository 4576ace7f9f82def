SPECIFICATION Spec
CONSTANTS
  Operator = operator
  None = none
  Users = {u1, u2}
  Failing = {}
  Names = {m, n}
SYMMETRY Symmetry
INVARIANTS NoPartialFile
