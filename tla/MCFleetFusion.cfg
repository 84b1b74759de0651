SPECIFICATION PartsSpec
CONSTANTS
  d1 = d1  d2 = d2  c1 = c1  c2 = c2  s1 = s1  s2 = s2
  Drones = {d1}
  Clients = {c1, c2}
  NoDrone = NoDrone
  MaxMission = 2
  Waypoints = 1
  FullBattery = 3
  LowBattery = 1
  DrainPerTick = 1
  HoverDrain = 1
  ChargePerTick = 2
  Failing = {"drone", "mission"}
  MaxCrashes = 1
  ObsKeys <- MCObsKeys
  NumShards = 2
  NumPlaces = 3
  ShardOf <- MCShardOf
  TrackTTL = 2
  Quarter = 1
  MaxLag = 1
  MaxTracks = 2
SYMMETRY Symmetry
VIEW StoreAsRead
INVARIANTS PartsTypeOK NumbersNotReused IndexesAgree StationsNeverFuse
PROPERTIES LiveStaysFlown KeyKeepsTrack
