SPECIFICATION Spec
CONSTANTS
  Dev = {pc, ph}
  Desktops = {pc}
  Author = ph
  Passwords = {p1, p2}
  NoPassword = NoPassword
  MaxUploads = 3
INVARIANTS MatchingHashIsSeen NoForeignTriggers
PROPERTIES NoBlindOverwrite PasswordChangeConfirmed
SYMMETRY PasswordSymmetry
CHECK_DEADLOCK FALSE
