SPECIFICATION Spec
CONSTANTS
  d1 = d1  d2 = d2  c1 = c1  c2 = c2
  Drones = {d1}
  Clients = {c1, c2}
  NoDrone = NoDrone
  MaxMission = 2
  Waypoints = 1
  FullBattery = 3
  LowBattery = 1
  DrainPerTick = 1
  HoverDrain = 1
  ChargePerTick = 2
  Failing = {}
  MaxCrashes = 1
SYMMETRY Symmetry
INVARIANT PlannedHasDrone
