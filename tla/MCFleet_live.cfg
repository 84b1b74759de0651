SPECIFICATION FairSpec
CONSTANTS
  d1 = d1  d2 = d2  c1 = c1  c2 = c2
  Drones = {d1}
  Clients = {c1, c2}
  NoDrone = NoDrone
  MaxMission = 1
  Waypoints = 2
  FullBattery = 4
  LowBattery = 1
  DrainPerTick = 1
  HoverDrain = 1
  ChargePerTick = 2
  Failing = {"drone", "mission"}
  MaxCrashes = 1
PROPERTY FlightsEnd
