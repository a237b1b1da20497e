SPECIFICATION ProtocolSpec
CONSTANTS
  None = None
  Error = Error
  Absent = Absent
  Invalid = Invalid
  NotANumber = NotANumber
INVARIANTS
  CallsAreAnswered
  ParsersAgree
  OneReplyEach
  AnswersWhatWasSent
  ArithmeticIsExact
  LifetimesAreKept
PROPERTIES
  RefusedChangesNothing
CHECK_DEADLOCK FALSE
