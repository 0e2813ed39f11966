SPECIFICATION RelaySpec
CONSTANTS
  Fields <- MCFields
  KeyOf <- MCKeyOf
  ValueOf <- MCValueOf
  Streams <- MCStreams
  Plain <- MCPlain
  Frames <- MCFrames
  U32 = 8
  Span = 8
  DefaultDeadline = 6
  LeastUpstream = 5
INVARIANT RelayTypeOK
INVARIANT UsageOfBody
INVARIANT RelayedVerbatim
INVARIANT Metered
INVARIANT DeadlineKept
CHECK_DEADLOCK FALSE
