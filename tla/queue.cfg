\* The queue with three callers that may be cancelled, closed and started
\* again any number of times.
SPECIFICATION FairSpec
CONSTANTS
  register = register
  search1 = search1
  search2 = search2
  w1 = w1
  w2 = w2
  NoWorker = NoWorker
  NoCall = NoCall
  Calls = {register, search1, search2}
  Priority <- RegisterAndSearches
  MinInterval = 2
  Workers = {w1, w2}
INVARIANTS TypeOK OneRequestAtATime OvertakenAtMostOnce CloseDrains
PROPERTIES RequestsSpaced CallsAreServed CloseReturns ImplementsSerialServer
