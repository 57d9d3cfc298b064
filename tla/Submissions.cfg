\* Two threads, each making one request and waiting for either.
SPECIFICATION Spec
CONSTANTS
  t1 = t1
  t2 = t2
  Threads <- MCThreads
  Mixes <- MCMixes
INVARIANTS BoundToItself InFlightIsExact WaitTellsTruth WaitersAgree
PROPERTY RequestsReturn
\* Every thread makes one request and ends.
CHECK_DEADLOCK FALSE
