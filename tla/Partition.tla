----------------------------- MODULE Partition ------------------------------
(***************************************************************************)
(* How positions map to partitions of the telemetry stream, and partitions *)
(* to geofence replicas (internal/partition/partition.go).  A position is  *)
(* given in whole degrees: the code takes the floor of both coordinates.   *)
(***************************************************************************)
EXTENDS Integers

\* The remainder of Go's %: it has the sign of the dividend.
Remainder(a, n) == IF a >= 0 THEN a % n ELSE -((-a) % n)

\* Columns of the grid of one degree cells.
Columns == 361

\* Of: the partition of a position.
PartitionOf(latitude, longitude, count) ==
    LET p == Remainder((latitude + 90) * Columns + longitude + 180, count)
    IN  IF count <= 1 THEN 0 ELSE IF p < 0 THEN p + count ELSE p

\* The partitions of a stream; a count below 1 stands for one partition.
PartitionIDs(count) == 0..((IF count < 1 THEN 1 ELSE count) - 1)

\* AssignedPartitions: those a replica consumes.
AssignedPartitions(count, shardIndex, shardCount) ==
    {p \in PartitionIDs(count) : shardCount <= 1 \/ p % shardCount = shardIndex}
=============================================================================
