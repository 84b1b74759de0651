SPECIFICATION Spec
CONSTANTS
  m1 = m1  m2 = m2  k1 = k1  k2 = k2  sinkA = sinkA  sinkB = sinkB
  Msgs = {m1}
  KeyOf <- MCKeyOf1
  Malformed = {}
  Exits = {}
  NotifyOnExit = FALSE
  Sinks = {sinkA, sinkB}
  MaxDeliver = 2
  AckWait = 2
  NakDelay = 1
  Cooldown = 2
  MaxClock = 3
  MaxCrashes = 1
  NoMsg = NoMsg
SYMMETRY Symmetry
INVARIANT AckedOnlyIfDelivered
