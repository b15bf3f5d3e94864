SPECIFICATION Spec
CONSTANTS
  Call = {k1, k2}
  Admin = {"user", "credential", "setting", "grant"}
SYMMETRY Symmetry
INVARIANTS TypeOK IInv AuthorizedFromTheStart NothingAfterDrain
PROPERTIES PermissionsHoldTogether FailClosed
