SPECIFICATION VisibilitySpec
CONSTANTS
  Users = {ann, bob, cal}
  Owners = {ann}
  Edits = {e1}
  Calls = {c1}
  NoUser = nobody
SYMMETRY VisibilitySymmetry
INVARIANTS
  VisibilityTypeOK
  DenialJustified
  GrantJustified
PROPERTY ListWritesVetted
CHECK_DEADLOCK FALSE
