SPECIFICATION ThrottleSpec
CONSTANTS
  Attempt = {a1, a2}
  ThrottleWindow = 2
  MaxClock = 2
  None = None
INVARIANTS FailuresCounted
