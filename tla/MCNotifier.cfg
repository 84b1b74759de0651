SPECIFICATION FairSpec
CONSTANTS
  m1 = m1  m2 = m2  k1 = k1  k2 = k2  sinkA = sinkA  sinkB = sinkB
  Msgs = {m1, m2}
  KeyOf <- MCKeyOfTwo
  Malformed = {}
  Exits = {m2}
  NotifyOnExit = FALSE
  Sinks = {sinkA, sinkB}
  MaxDeliver = 3
  AckWait = 0
  NakDelay = 0
  Cooldown = 2
  MaxClock = 3
  MaxCrashes = 1
  NoMsg = NoMsg
PROPERTIES CooldownSpacing AckJustified SettledOrExhausted
