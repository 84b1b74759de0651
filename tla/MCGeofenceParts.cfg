SPECIFICATION PartsSpec
CONSTANTS
  r1 = r1  r2 = r2  w1 = w1  w2 = w2  d1 = d1  z1 = z1  m1 = m1  m2 = m2  m3 = m3
  s1 = s1  s2 = s2  a1 = a1  a2 = a2  a3 = a3  a4 = a4  h1 = h1
  Replicas = {r1}
  Workers = {w1, w2}
  Drones = {d1}
  Zones = {z1}
  Msgs = {m1, m2, m3}
  DroneOf <- MCDroneOf
  TsOf <- MCTsOf
  ZonesOf <- MCZonesOf
  OwnerOf <- MCOwnerOf
  Unchecked = {m3}
  MaxTimestamp = 2
  PruneEvery = 1
  StaleAfter = 0
  MaxDeliver = 2
  AckWait = 0
  NakDelay = 0
  MaxClock = 1
  MaxCrashes = 1
  NoMsg = NoMsg
  Handlers = {h1}
  Caches = {"index", "list", "friendly"}
  IndexEvery = 2
  ListEvery = 2
  FriendlyEvery = 3
  QueryTimeout = 1
  MaxChanges = 2
  MaxErrors = 1
  MaxRegistryClock = 6
  Starters = {s1, s2}
  NumMigrations = 2
  NumOblasts = 3
  MaxStartFaults = 1
  MaxLockLosses = 1
  SwarmDrones = {a1, a2, a3, a4}
  Spots = {1, 2, 3}
  Near <- MCNear
  MinSize = 2
  PositionTTL = 0
  MaxSwarms = 2
  Flyers = {d1}
  NumReplicas = 2
  NumPartitions = 3
  AlarmWindow = 2
  PublishEvery = 1
  Fresh = 3
  MaxMissed = 1
  MaxDeaths = 1
SYMMETRY Symmetry
INVARIANTS PartsTypeOK EventsAlternate LagBounded PreparedWhenUp AlarmHeld GhostsFade
PROPERTIES SwarmsAreGroups IdentityKept
