SPECIFICATION Spec
CONSTANTS
  Dev = {pc, ph}
  Desktops = {pc}
  Author = ph
  Passwords = {p1, p2}
  NoPassword = NoPassword
  MaxUploads = 3
INVARIANT SafeWhenHashMatches
CHECK_DEADLOCK FALSE
