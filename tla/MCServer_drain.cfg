SPECIFICATION ServerSpec
CONSTANTS
  s1 = s1  s2 = s2  w1 = w1  w2 = w2  main1 = main1  d1 = d1  v1 = v1  v2 = v2
  Streams = {s1, s2}
  Workers = {w1}
  Closers = {main1}
  Drones = {d1}
  Viewers = {v1}
  BufferSize = 1
  MaxTimestamp = 1
  QueueSize = 1
  StateTTL = 0
  MaxClock = 0
  MaxReceived = 2
SYMMETRY Symmetry
INVARIANT DrainedAtExit
