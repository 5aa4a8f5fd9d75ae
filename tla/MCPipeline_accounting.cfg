CONSTANTS
  Requests = {r1}
  RequestTimeout = 2
  WriteTimeout = 4
  LimiterDelay = 1
  OpsDelay = 1
SPECIFICATION Spec
INVARIANTS TypeOK  LogTellsAnswer TimeoutAnswered PanicNotSwallowed
PROPERTIES EveryRequestEnds
