SPECIFICATION Spec
CONSTANTS
  Capacity = 4
  SamplesPerFrame = 2
  Requests = {1, 3, 5}
  MaxRequests = 5
CHECK_DEADLOCK FALSE
INVARIANTS PromiseKept
PROPERTIES RingIsQueue
