SPECIFICATION Spec
CONSTANTS
  Digits <- FewDigits
  Duration = 90
  MaxLines = 3
  MaxAttempts = 3
INVARIANT TicksSurviveChunks
INVARIANT EndHasTheLastWord
INVARIANT SetsAreThrottled
PROPERTY ProgressNeverFalls
\* A job that completed or failed for good is where the system stops.
CHECK_DEADLOCK FALSE
