SPECIFICATION Spec
CONSTANTS
  Samples <- MCSamples
  RawRequests <- MCRawRequests
  RawReplies <- MCRawReplies
INVARIANTS
  ConformsToInterfaces
  DeliveredExactly
  AnsweredExactly
CHECK_DEADLOCK FALSE
