SPECIFICATION FairSpec
CONSTANTS
  m1 = m1  m2 = m2  m3 = m3  k1 = k1  k2 = k2  a1 = a1
  Msgs = {m1, m2, m3}
  RowOf <- MCRowOf
  Unreadable = {m3}
  BatchSize = 2
  Alerts = {a1}
  MaxDeliver = 2
  AckWait = 0
  NakDelay = 0
  MaxClock = 0
  MaxRestarts = 1
INVARIANTS TypeOK AckedIsStored
PROPERTIES NeverReopened SamplesStored
