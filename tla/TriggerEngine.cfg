SPECIFICATION FairEngineSpec
CONSTANTS
  a = a  b = b
  None = None
  Triggers = {a, b}
  Events = {"manual", "interval", "onceB"}
  Firings = {f1, f2, f3}
  Kind <- MCKind
  Matching <- MCMatching
  OnceTrigger <- MCOnceTrigger
  Cooldown <- MCCooldown
  StopOnError = {b}
  ClockCap = 1
INVARIANTS OneAtATime RunningExact
PROPERTIES CooldownRespected CallsReturn
