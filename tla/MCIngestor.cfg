SPECIFICATION FairSpec
CONSTANTS
  s1 = s1  s2 = s2 w1 = w1  c1 = c1  d1 = d1
  Streams = {s1, s2}
  Workers = {w1}
  Closers = {c1}
  Drones = {d1}
  MaxTimestamp = 2
  QueueSize = 1
  StateTTL = 0
  MaxClock = 1
  MaxReceived = 3
INVARIANTS NoSendOnClosedQueue Accounting DrainedOnReturn
PROPERTIES LastKnownMonotone ShutdownReturns
