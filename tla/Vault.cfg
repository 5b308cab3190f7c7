SPECIFICATION Spec
CONSTANTS
  Passwords = {p1, p2, p3}
  Default = Default
  NoKey = NoKey
  MaxWrites = 3
INVARIANTS NoLockout OnlyConfirmedOpens
PROPERTY RecoveryOnlyAfterRekey
CHECK_DEADLOCK FALSE
