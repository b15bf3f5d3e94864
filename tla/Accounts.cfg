SPECIFICATION Spec
CONSTANTS
  Login = {l1, l2}
  Change = {c1}
  Acceptance = {a1, a2}
  Invitation = {i1, i2}
  Disabling = {d1}
  Enabling = {e1}
  Overlap = 2
  Attempts = 2
  Window = 1
  NoOne = NoOne
  Nobody = Nobody
SYMMETRY Symmetry
INVARIANTS TypeOK IInv OldPasswordSessionsEnd GuessesWithinLimit
PROPERTIES InvitationsFinal BackOnlyByEnabling
CHECK_DEADLOCK FALSE
