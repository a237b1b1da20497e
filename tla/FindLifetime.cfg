SPECIFICATION LifetimeSpec
CONSTANTS
  None = None
  Error = Error
  Absent = Absent
  Invalid = Invalid
  NotANumber = NotANumber
INVARIANTS
  AskedForNeverExpiresAtOnce
CHECK_DEADLOCK FALSE
