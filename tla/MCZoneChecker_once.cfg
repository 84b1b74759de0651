SPECIFICATION Spec
CONSTANTS
  r1 = r1  r2 = r2  w1 = w1  w2 = w2  d1 = d1  z1 = z1  m1 = m1  m2 = m2  m3 = m3
  Replicas = {r1, r2}
  Workers = {w1}
  Drones = {d1}
  Zones = {z1}
  Msgs = {m1, m2}
  DroneOf <- MCDroneOf
  TsOf <- MCTwoTs
  ZonesOf <- MCInside
  OwnerOf <- MCTwoOwners
  Unchecked = {}
  MaxTimestamp = 2
  PruneEvery = 1
  StaleAfter = 0
  MaxDeliver = 2
  AckWait = 2
  NakDelay = 0
  MaxClock = 1
  MaxCrashes = 0
  NoMsg = NoMsg
INVARIANT OncePerEntry
