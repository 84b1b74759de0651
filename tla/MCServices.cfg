SPECIFICATION ServicesSpec
CONSTANTS
  v1 = v1  v2 = v2  b1 = b1  b2 = b2  m1 = m1
  p1 = p1  p2 = p2  d1 = d1  f1 = f1  f2 = f2  q1 = q1  q2 = q2
  Viewers = {v1, v2}
  Broadcasters = {b1, b2}
  Payloads = {m1}
  NoPayload = NoPayload
  BufferSize = 1
  MaxBroadcasts = 3
  Partitions = {p1, p2}
  Targets = {d1}
  MaxTime = 2
  TargetTTL = 1
  MaxTargetClock = 2
  Feeds = {f1, f2}
  OnlineWithin = 0
  OfflineAfter = 1
  ForgetAfter = 2
  RateWindow = 1
  MaxObserves = 2
  MaxStationClock = 3
  Requests = {q1, q2}
  Total = 2
  Speeds = {2}
  MaxConcurrent = 1
  MaxFinished = 0
  MaxRuns = 2
  MaxBreaks = 1
INVARIANTS ServicesTypeOK ChannelsSafe CountersAgree PlayingUnderControl
PROPERTIES CloseEndsViewers TargetsNeverGoBack SilenceIsReported
  NothingSentAfterClose ReplaysEnd
