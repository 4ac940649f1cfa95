\* Two requests at a time; one unit of time is thirty seconds.
SPECIFICATION RequestsSpec
CONSTANTS
  c1 = c1
  c2 = c2
  Calls <- TwoRequests
  FailureThreshold = 2
  HalfOpenMaxAttempts = 1
  ResetTimeout = 1
  MaxResetTimeout = 2
  Endings <- AllEndings
  Limit = 1
  Window = 1
  MaxFaults = 1
INVARIANTS ClosedIsFresh BoundedOvershoot RowsAgreeWithReplies
PROPERTIES TrialsSpaced EveryRequestEnds RecoversWhenAsked
