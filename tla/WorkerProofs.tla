---------------------------- MODULE WorkerProofs ----------------------------
(***************************************************************************)
(* Proofs about parts of the geofence worker that share no state: which    *)
(* replica consumes which partition, how replicas that start together      *)
(* prepare the database, the alarms they show together, the caches of      *)
(* zones, the zone checker and the swarm detector; for every number of     *)
(* partitions, replicas, drones, zones, migrations and oblasts.            *)
(***************************************************************************)
EXTENDS MCGeofenceParts, FiniteSetTheorems, WellFoundedInduction, TLAPS

-----------------------------------------------------------------------------
(* Partitions.                                                             *)

\* Division: what a remainder by a positive number ranges over.
LEMMA RemainderRange ==
    ASSUME NEW a \in Int, NEW n \in Nat \ {0}
    PROVE  Remainder(a, n) \in (-(n - 1))..(n - 1)
  <1>1. \A b \in Nat : b % n \in 0..(n - 1)
    BY SMT
  <1>2. CASE a >= 0
    BY <1>1, <1>2 DEF Remainder
  <1>3. CASE ~(a >= 0)
    <2>1. -a \in Nat
      BY <1>3
    <2>2. (-a) % n \in 0..(n - 1)
      BY <1>1, <2>1
    <2> QED
      BY <1>3, <2>2 DEF Remainder
  <1> QED
    BY <1>2, <1>3

\* Of returns a partition of the stream for any position on or off the globe,
\* so the publisher always has a subject to publish to (natspub).
THEOREM PositionHasPartition ==
    ASSUME NEW latitude \in Int, NEW longitude \in Int, NEW count \in Int
    PROVE  PartitionOf(latitude, longitude, count) \in PartitionIDs(count)
  <1> DEFINE cell == (latitude + 90) * Columns + longitude + 180
  <1>1. cell \in Int
    BY DEF Columns
  <1>2. CASE count <= 1
    BY <1>2 DEF PartitionOf, PartitionIDs
  <1>3. CASE count > 1
    <2>1. count \in Nat \ {0}
      BY <1>3
    <2>2. Remainder(cell, count) \in (-(count - 1))..(count - 1)
      BY <1>1, <2>1, RemainderRange
    <2> HIDE DEF cell
    <2>3. PartitionOf(latitude, longitude, count)
            = IF Remainder(cell, count) < 0 THEN Remainder(cell, count) + count
                                            ELSE Remainder(cell, count)
      BY <1>3 DEF PartitionOf, cell
    <2> QED
      BY <1>3, <2>2, <2>3 DEF PartitionIDs
  <1> QED
    BY <1>2, <1>3

\* The replicas 0, ..., shardCount - 1 together consume every partition, and no
\* two of them share one: a sample reaches exactly one zone checker, one history
\* writer and one swarm detector (newTelemetryConsumers).
THEOREM EveryPartitionHasOneOwner ==
    ASSUME NEW count \in Int, NEW shardCount \in Nat \ {0}, NEW p \in PartitionIDs(count)
    PROVE  /\ \E i \in 0..(shardCount - 1) : p \in AssignedPartitions(count, i, shardCount)
           /\ \A i, j \in 0..(shardCount - 1) :
                /\ p \in AssignedPartitions(count, i, shardCount)
                /\ p \in AssignedPartitions(count, j, shardCount)
                => i = j
  <1>1. p \in Nat
    BY DEF PartitionIDs
  <1>2. p % shardCount \in 0..(shardCount - 1)
    BY <1>1, SMT
  <1>3. CASE shardCount = 1
    BY <1>3 DEF AssignedPartitions
  <1>4. CASE shardCount # 1
    BY <1>2, <1>4 DEF AssignedPartitions
  <1> QED
    BY <1>3, <1>4

-----------------------------------------------------------------------------
(* The preparation of the database.                                        *)

\* What a replica can know of the table oblasts.
Lists == (SUBSET OblastIDs) \cup {NotListed}

StartupShapes ==
    /\ stage \in [Starters -> {"lock", "migrate", "apply", "count", "seed", "list", "up"}]
    /\ at \in [Starters -> 1..(NumMigrations + 1) \cup 1..(NumOblasts + 1)]
    /\ holder \in Starters \cup {Nobody}
    /\ oblasts \subseteq OblastIDs
    /\ counted \in [Starters -> BOOLEAN]
    /\ listed \in [Starters -> Lists]
    /\ startFaults \in Nat

\* The migrations are applied from the first on, and a replica has found those before
\* the one it comes to recorded, whether or not it still holds the lock.
MigrationsOK ==
    /\ applied \in Seq(Nat) /\ Len(applied) <= NumMigrations
    /\ \A i \in 1..Len(applied) : applied[i] = i
    /\ \A r \in Starters :
         /\ stage[r] = "migrate" => at[r] \in 1..(NumMigrations + 1) /\ at[r] - 1 <= Len(applied)
         /\ stage[r] = "apply" => at[r] \in 1..NumMigrations /\ at[r] - 1 <= Len(applied)
         /\ stage[r] \in {"count", "seed", "list", "up"} => Len(applied) = NumMigrations

\* The oblasts before the one a seeding replica comes to are in the table, and a
\* replica that skipped the seeding found some.
SeederOK(r) ==
    /\ stage[r] \in {"lock", "migrate", "apply", "count"} => ~counted[r]
    /\ stage[r] = "seed" => counted[r] /\ at[r] \in 1..(NumOblasts + 1)
                            /\ 1..(at[r] - 1) \subseteq oblasts
    /\ stage[r] \in {"list", "up"} /\ ~counted[r] => oblasts # {}
    /\ stage[r] \in {"list", "up"} /\ counted[r] => oblasts = OblastIDs
    /\ stage[r] = "up" /\ counted[r] => listed[r] = OblastIDs

\* Without a failure, a table that is filled in part has a replica at work on it.
SomeoneSeeds ==
    startFaults = 0 /\ oblasts # {} /\ oblasts # OblastIDs
        => \E r \in Starters : stage[r] = "seed"

SeedingOK == (\A r \in Starters : SeederOK(r)) /\ SomeoneSeeds

StartupInv == StartupShapes /\ MigrationsOK /\ SeedingOK

\* The bounds are numbers, and there is a first migration or the end of them.
LEMMA StartupBounds ==
    NumMigrations \in Nat /\ NumOblasts \in Nat /\ 1 \in 1..(NumMigrations + 1)
  <1>1. NumMigrations \in Nat /\ NumOblasts \in Nat
    BY StartupAssumption
  <1>2. 1 \in 1..(NumMigrations + 1)
    BY <1>1
  <1> QED
    BY <1>1, <1>2

\* A replica knows nothing, or oblasts.
LEMMA ListsHold ==
    NotListed \in Lists /\ \A S : S \subseteq OblastIDs => S \in Lists
  BY DEF Lists

\* A first start, on an empty database.
LEMMA StartupInitInv == StartupInit => StartupInv
  <1> SUFFICES ASSUME StartupInit PROVE StartupInv
    OBVIOUS
  <1> USE StartupAssumption DEF StartupInit
  <1>1. StartupShapes
    <2>2. at \in [Starters -> 1..(NumMigrations + 1) \cup 1..(NumOblasts + 1)]
      BY StartupBounds
    <2>3. listed \in [Starters -> Lists] /\ oblasts \subseteq OblastIDs
      BY ListsHold
    <2>4. counted \in [Starters -> BOOLEAN]
      OBVIOUS
    <2> QED
      BY <2>2, <2>3, <2>4 DEF StartupShapes
  <1>2. MigrationsOK
    BY DEF MigrationsOK
  <1>3. SeedingOK
    BY DEF SeedingOK, SeederOK, SomeoneSeeds
  <1> QED
    BY <1>1, <1>2, <1>3 DEF StartupInv

\* Every step keeps the shapes.
LEMMA StartupKeepsShapes ==
    ASSUME StartupInv, [StartupNext]_startupVars
    PROVE  StartupShapes'
  <1> USE StartupAssumption DEF StartupInv, StartupShapes, Enter
  <1>1. ASSUME NEW r \in Starters, TakeLock(r) PROVE StartupShapes'
    BY <1>1 DEF TakeLock
  <1>2. ASSUME NEW r \in Starters, CheckMigration(r) PROVE StartupShapes'
    <2>1. at[r] + 1 \in 1..(NumMigrations + 1)
      BY <1>2 DEF CheckMigration, LastMigration, MigrationsOK
    <2> QED
      BY <1>2, <2>1 DEF CheckMigration
  <1>3. ASSUME NEW r \in Starters, ApplyMigration(r) PROVE StartupShapes'
    <2>1. at[r] + 1 \in 1..(NumMigrations + 1)
      BY <1>3 DEF ApplyMigration, MigrationsOK
    <2> QED
      BY <1>3, <2>1 DEF ApplyMigration
  <1>4. ASSUME NEW r \in Starters, Conflict(r) \/ Unlock(r) PROVE StartupShapes'
    BY <1>4 DEF Conflict, Unlock
  <1>5. ASSUME NEW r \in Starters, CountOblasts(r) PROVE StartupShapes'
    BY <1>5 DEF CountOblasts
  <1>6. ASSUME NEW r \in Starters, InsertOblast(r) PROVE StartupShapes'
    <2>1. at[r] \in OblastIDs /\ at[r] + 1 \in 1..(NumOblasts + 1)
      BY <1>6 DEF InsertOblast, LastOblast, OblastIDs, SeedingOK, SeederOK
    <2> QED
      BY <1>6, <2>1 DEF InsertOblast, AfterInsert
  <1>7. ASSUME NEW r \in Starters, Seeded(r) PROVE StartupShapes'
    BY <1>7 DEF Seeded
  <1>8. ASSUME NEW r \in Starters, ListZones(r) PROVE StartupShapes'
    BY <1>8, ListsHold DEF ListZones
  <1>9. ASSUME NEW r \in Starters, StartAgain(r) PROVE StartupShapes'
    <2>1. /\ stage' = [stage EXCEPT ![r] = "lock"]
          /\ counted' = [counted EXCEPT ![r] = FALSE]
          /\ listed' = [listed EXCEPT ![r] = NotListed]
          /\ holder' \in {Nobody, holder}
          /\ UNCHANGED <<at, oblasts>>
      BY <1>9 DEF StartAgain
    <2>2. startFaults' \in Nat
      BY <1>9 DEF StartAgain
    <2> QED
      BY <2>1, <2>2, ListsHold
  <1>10. CASE LoseLock
    BY <1>10 DEF LoseLock
  <1>11. CASE UNCHANGED startupVars
    BY <1>11 DEF startupVars
  <1> QED
    BY <1>1, <1>2, <1>3, <1>4, <1>5, <1>6, <1>7, <1>8, <1>9, <1>10, <1>11
    DEF StartupNext, StartupStep, AllUp

\* A version is recorded exactly when it is not beyond those applied.
LEMMA RecordedVersions ==
    ASSUME MigrationsOK, NEW v \in Nat
    PROVE  Recorded(v) <=> v \in 1..Len(applied)
  <1>1. Recorded(v) <=> \E i \in 1..Len(applied) : applied[i] = v
    BY DEF Recorded, Contains
  <1> QED
    BY <1>1 DEF MigrationsOK

\* Every step keeps the order of the migrations: one that commits is the next, for all
\* before it are recorded and it is not.
LEMMA StartupKeepsMigrations ==
    ASSUME StartupInv, [StartupNext]_startupVars
    PROVE  MigrationsOK'
  <1> USE StartupBounds DEF StartupInv, StartupShapes, MigrationsOK, Enter
  <1>0. Len(applied) \in Nat
    OBVIOUS
  <1>1. ASSUME NEW r \in Starters, TakeLock(r) PROVE MigrationsOK'
    BY <1>0, <1>1 DEF TakeLock
  <1>2. ASSUME NEW r \in Starters, CheckMigration(r) PROVE MigrationsOK'
    <2>1. at[r] \in 1..NumMigrations /\ at[r] - 1 <= Len(applied) /\ stage[r] = "migrate"
          /\ UNCHANGED applied
      BY <1>2 DEF CheckMigration, LastMigration
    <2>2. CASE Recorded(at[r])
      <3>1. at[r] \in 1..Len(applied)
        BY <2>1, <2>2, RecordedVersions
      <3>2. at' = [at EXCEPT ![r] = @ + 1] /\ UNCHANGED stage
        BY <1>2, <2>2 DEF CheckMigration
      <3> QED
        BY <1>0, <2>1, <3>1, <3>2
    <2>3. CASE ~Recorded(at[r])
      <3>1. UNCHANGED at /\ stage' = [stage EXCEPT ![r] = "apply"]
        BY <1>2, <2>3 DEF CheckMigration
      <3> QED
        BY <1>0, <2>1, <3>1
    <2> QED
      BY <2>2, <2>3
  <1>3. ASSUME NEW r \in Starters, ApplyMigration(r) PROVE MigrationsOK'
    <2>1. at[r] \in 1..NumMigrations /\ at[r] - 1 <= Len(applied) /\ ~Recorded(at[r])
      BY <1>3 DEF ApplyMigration, Commits
    <2>2. at[r] = Len(applied) + 1
      BY <1>0, <2>1, RecordedVersions
    <2>3. applied' = Append(applied, Len(applied) + 1)
      BY <1>3, <2>2 DEF ApplyMigration
    <2>4. /\ applied' \in Seq(Nat) /\ Len(applied') = Len(applied) + 1
          /\ \A i \in 1..Len(applied') : applied'[i] = i
      BY <1>0, <2>3
    <2>5. \A q \in Starters : stage[q] \notin {"count", "seed", "list", "up"}
      BY <1>0, <2>1, <2>2
    <2>6. at' = [at EXCEPT ![r] = @ + 1] /\ stage' = [stage EXCEPT ![r] = "migrate"]
      BY <1>3 DEF ApplyMigration
    <2> QED
      BY <1>0, <2>1, <2>2, <2>4, <2>5, <2>6
  <1>4. ASSUME NEW r \in Starters, Conflict(r) PROVE MigrationsOK'
    BY <1>0, <1>4 DEF Conflict
  <1>5. ASSUME NEW r \in Starters, Unlock(r) PROVE MigrationsOK'
    BY <1>0, <1>5 DEF Unlock, LastMigration
  <1>6. ASSUME NEW r \in Starters,
               CountOblasts(r) \/ InsertOblast(r) \/ Seeded(r) \/ ListZones(r)
        PROVE  MigrationsOK'
    <2>1. /\ UNCHANGED applied /\ stage[r] \in {"count", "seed", "list"}
          /\ stage' = stage \/ \E t \in {"seed", "list", "up"} : stage' = [stage EXCEPT ![r] = t]
          /\ \A q \in Starters \ {r} : at'[q] = at[q]
      BY <1>6 DEF CountOblasts, InsertOblast, Seeded, ListZones
    <2> QED
      BY <1>0, <2>1
  <1>7. ASSUME NEW r \in Starters, StartAgain(r) PROVE MigrationsOK'
    <2>1. /\ UNCHANGED <<applied, at>> /\ stage' = [stage EXCEPT ![r] = "lock"]
      BY <1>7 DEF StartAgain
    <2> QED
      BY <1>0, <2>1
  <1>8. CASE LoseLock \/ UNCHANGED startupVars
    BY <1>8 DEF LoseLock, startupVars
  <1> QED
    BY <1>1, <1>2, <1>3, <1>4, <1>5, <1>6, <1>7, <1>8 DEF StartupNext, StartupStep, AllUp

\* Whoever only moves a replica within the stages that seed nothing keeps the seeding.
LEMMA SeedingKept ==
    ASSUME StartupInv, NEW r \in Starters, UNCHANGED <<oblasts, counted, listed, startFaults>>,
           stage[r] \in {"lock", "migrate", "apply"}, stage'[r] \in {"lock", "migrate", "apply", "count"},
           \A q \in Starters \ {r} : stage'[q] = stage[q] /\ at'[q] = at[q]
    PROVE  SeedingOK'
  <1> USE DEF StartupInv, SeedingOK
  <1>1. ASSUME NEW q \in Starters PROVE SeederOK(q)'
    <2>1. CASE q = r
      BY <2>1 DEF SeederOK
    <2>2. CASE q # r
      BY <2>2 DEF SeederOK
    <2> QED
      BY <2>1, <2>2
  <1>2. SomeoneSeeds'
    BY DEF SomeoneSeeds
  <1> QED
    BY <1>1, <1>2

\* Every step keeps the seeding: rows are only added, and the replica that leaves its
\* loop has inserted every oblast itself or found its name taken.
LEMMA StartupKeepsSeeding ==
    ASSUME StartupInv, [StartupNext]_startupVars
    PROVE  SeedingOK'
  <1> USE DEF StartupInv, Enter
  <1>0. /\ \A q \in Starters : SeederOK(q)
        /\ SomeoneSeeds
        /\ stage \in [Starters -> {"lock", "migrate", "apply", "count", "seed", "list", "up"}]
    BY DEF SeedingOK, StartupShapes
  <1>1. ASSUME NEW r \in Starters,
               TakeLock(r) \/ CheckMigration(r) \/ ApplyMigration(r) \/ Conflict(r) \/ Unlock(r)
        PROVE  SeedingOK'
    <2>1. /\ UNCHANGED <<oblasts, counted, listed, startFaults>>
          /\ stage[r] \in {"lock", "migrate", "apply"}
          /\ stage'[r] \in {"lock", "migrate", "apply", "count"}
          /\ \A q \in Starters \ {r} : stage'[q] = stage[q] /\ at'[q] = at[q]
      BY <1>1 DEF StartupShapes, TakeLock, CheckMigration, ApplyMigration, Conflict, Unlock
    <2> QED
      BY <2>1, SeedingKept
  <1>2. ASSUME NEW r \in Starters, CountOblasts(r) PROVE SeedingOK'
    <2>1. /\ UNCHANGED <<oblasts, listed, startFaults>> /\ stage[r] = "count"
          /\ \A q \in Starters \ {r} : stage'[q] = stage[q] /\ at'[q] = at[q]
                                       /\ counted'[q] = counted[q]
          /\ at'[r] = 1 /\ counted'[r] = (oblasts = {})
          /\ stage'[r] = IF oblasts = {} THEN "seed" ELSE "list"
      BY <1>2 DEF StartupShapes, CountOblasts
    <2>2. 1 \in 1..(NumOblasts + 1) /\ 1..(1 - 1) \subseteq oblasts
      BY StartupBounds
    <2>3. ASSUME NEW q \in Starters PROVE SeederOK(q)'
      <3>1. CASE q = r
        BY <2>1, <2>2, <3>1 DEF SeederOK
      <3>2. CASE q # r
        BY <1>0, <2>1, <3>2 DEF SeederOK
      <3> QED
        BY <3>1, <3>2
    <2>4. SomeoneSeeds'
      BY <1>0, <2>1 DEF SomeoneSeeds
    <2> QED
      BY <2>3, <2>4 DEF SeedingOK
  <1>3. ASSUME NEW r \in Starters, InsertOblast(r) PROVE SeedingOK'
    <2>1. /\ UNCHANGED <<stage, counted, listed, startFaults>> /\ stage[r] = "seed"
          /\ oblasts' = oblasts \cup {at[r]} /\ at[r] <= NumOblasts
          /\ at' = [at EXCEPT ![r] = at[r] + 1]
      BY <1>3 DEF InsertOblast, AfterInsert, LastOblast
    <2>2. /\ at[r] \in 1..(NumOblasts + 1) /\ 1..(at[r] - 1) \subseteq oblasts
      BY <1>0, <2>1 DEF SeederOK
    <2>3. /\ at[r] + 1 \in 1..(NumOblasts + 1) /\ at[r] \in OblastIDs
          /\ 1..(at[r] + 1 - 1) \subseteq oblasts'
      BY <2>1, <2>2, StartupBounds DEF OblastIDs
    <2>4. oblasts' \subseteq OblastIDs /\ oblasts \subseteq oblasts'
      BY <2>1, <2>3 DEF StartupShapes
    <2>5. /\ at'[r] = at[r] + 1
          /\ \A q \in Starters \ {r} : at'[q] = at[q]
      BY <2>1 DEF StartupShapes
    <2>6. ASSUME NEW q \in Starters PROVE SeederOK(q)'
      <3>1. CASE q = r
        BY <1>0, <2>1, <2>3, <2>5, <3>1 DEF SeederOK
      <3>2. CASE q # r
        BY <1>0, <2>1, <2>4, <2>5, <3>2 DEF SeederOK
      <3> QED
        BY <3>1, <3>2
    <2>7. SomeoneSeeds'
      BY <2>1 DEF SomeoneSeeds
    <2> QED
      BY <2>6, <2>7 DEF SeedingOK
  <1>4. ASSUME NEW r \in Starters, Seeded(r) PROVE SeedingOK'
    <2>1. /\ UNCHANGED <<at, oblasts, counted, listed, startFaults>> /\ stage[r] = "seed"
          /\ stage'[r] = "list" /\ at[r] > NumOblasts
          /\ \A q \in Starters \ {r} : stage'[q] = stage[q]
      BY <1>4 DEF StartupShapes, Seeded, LastOblast
    <2>2. oblasts = OblastIDs
      <3>1. at[r] \in 1..(NumOblasts + 1) /\ 1..(at[r] - 1) \subseteq oblasts
        BY <1>0, <2>1 DEF SeederOK
      <3>2. at[r] - 1 = NumOblasts
        BY <2>1, <3>1, StartupBounds
      <3> QED
        BY <3>1, <3>2 DEF OblastIDs, StartupShapes
    <2>3. ASSUME NEW q \in Starters PROVE SeederOK(q)'
      <3>1. CASE q = r
        BY <1>0, <2>1, <2>2, <3>1 DEF SeederOK
      <3>2. CASE q # r
        BY <1>0, <2>1, <3>2 DEF SeederOK
      <3> QED
        BY <3>1, <3>2
    <2> QED
      BY <2>1, <2>2, <2>3 DEF SeedingOK, SomeoneSeeds
  <1>5. ASSUME NEW r \in Starters, ListZones(r) PROVE SeedingOK'
    <2>1. /\ UNCHANGED <<at, oblasts, counted, startFaults>> /\ stage[r] = "list"
          /\ stage'[r] = "up" /\ listed'[r] = oblasts
          /\ \A q \in Starters \ {r} : stage'[q] = stage[q] /\ listed'[q] = listed[q]
      BY <1>5 DEF StartupShapes, ListZones
    <2>2. ASSUME NEW q \in Starters PROVE SeederOK(q)'
      <3>1. CASE q = r
        BY <1>0, <2>1, <3>1 DEF SeederOK
      <3>2. CASE q # r
        BY <1>0, <2>1, <3>2 DEF SeederOK
      <3> QED
        BY <3>1, <3>2
    <2> QED
      BY <1>0, <2>1, <2>2 DEF SeedingOK, SomeoneSeeds
  <1>6. ASSUME NEW r \in Starters, StartAgain(r) PROVE SeedingOK'
    <2>1. /\ UNCHANGED <<at, oblasts>> /\ stage'[r] = "lock" /\ ~counted'[r]
          /\ \A q \in Starters \ {r} : /\ stage'[q] = stage[q] /\ counted'[q] = counted[q]
                                       /\ listed'[q] = listed[q]
      BY <1>6 DEF StartupShapes, StartAgain
    <2>2. startFaults' # 0
      BY <1>6 DEF StartAgain, StartupShapes
    <2>3. ASSUME NEW q \in Starters PROVE SeederOK(q)'
      <3>1. CASE q = r
        BY <2>1, <3>1 DEF SeederOK
      <3>2. CASE q # r
        BY <1>0, <2>1, <3>2 DEF SeederOK
      <3> QED
        BY <3>1, <3>2
    <2> QED
      BY <2>2, <2>3 DEF SeedingOK, SomeoneSeeds
  <1>7. CASE LoseLock \/ UNCHANGED startupVars
    BY <1>7 DEF LoseLock, startupVars, SeedingOK, SeederOK, SomeoneSeeds
  <1> QED
    BY <1>1, <1>2, <1>3, <1>4, <1>5, <1>6, <1>7 DEF StartupNext, StartupStep, AllUp

\* Every step of the preparation keeps the invariant, which gives the shapes of the
\* variables.
LEMMA StartupNextInv ==
    ASSUME StartupInv, [StartupNext]_startupVars
    PROVE  StartupInv'
  BY StartupKeepsShapes, StartupKeepsMigrations, StartupKeepsSeeding DEF StartupInv

LEMMA StartupInvTypes == StartupInv => StartupTypeOK
  BY DEF StartupInv, StartupShapes, Lists, StartupTypeOK

\* The preparation of the database keeps its inductive invariant.
THEOREM StartupInvHolds == StartupSpec => []StartupInv
  <1>1. StartupInv /\ [StartupNext]_startupVars => StartupInv'
    BY StartupNextInv
  <1> QED
    BY StartupInitInv, <1>1, PTL DEF StartupSpec

\* An insert adds the next oblast of the file, or one of those already there, for the
\* inserting replica has passed all before it; and a replica lists what there is.
LEMMA StartupKeepsTail ==
    StartupInv /\ OnlyATailMissing /\ [StartupNext]_startupVars => OnlyATailMissing'
  <1> SUFFICES ASSUME StartupInv, OnlyATailMissing, [StartupNext]_startupVars
               PROVE  OnlyATailMissing'
    OBVIOUS
  <1> DEFINE Beginnings == {1..n : n \in OblastIDs}
  <1>1. /\ oblasts \in Beginnings \cup {{}}
        /\ \A r \in Starters : stage[r] = "up" => listed[r] \in Beginnings
    BY DEF OnlyATailMissing
  <1>2. /\ \A r \in Starters : SeederOK(r) /\ counted[r] \in BOOLEAN
        /\ stage \in [Starters -> {"lock", "migrate", "apply", "count", "seed", "list", "up"}]
        /\ listed \in [Starters -> Lists]
    BY DEF StartupInv, SeedingOK, StartupShapes
  <1>3. ASSUME NEW r \in Starters, InsertOblast(r) PROVE OnlyATailMissing'
    <2>1. /\ oblasts' = oblasts \cup {at[r]} /\ at[r] <= NumOblasts
          /\ UNCHANGED <<stage, listed>> /\ stage[r] = "seed"
      BY <1>3 DEF InsertOblast, LastOblast
    <2>2. at[r] \in OblastIDs /\ 1..(at[r] - 1) \subseteq oblasts
      BY <1>2, <2>1, StartupBounds DEF SeederOK, OblastIDs
    <2>3. CASE oblasts = {}
      <3>1. at[r] = 1
        <4>1. at[r] \in Nat /\ 1 <= at[r]
          BY <2>2, StartupBounds DEF OblastIDs
        <4>2. at[r] > 1 => 1 \in 1..(at[r] - 1)
          BY <4>1
        <4> QED
          BY <2>2, <2>3, <4>1, <4>2
      <3>2. oblasts' = 1..1
        BY <2>1, <2>3, <3>1
      <3> QED
        BY <1>1, <2>1, <2>2, <3>1, <3>2 DEF OnlyATailMissing
    <2>4. CASE oblasts # {}
      <3>1. PICK n \in OblastIDs : oblasts = 1..n
        BY <1>1, <2>4
      <3>2. n \in Nat /\ at[r] \in Nat /\ 1 <= at[r] /\ 1 <= n
        BY <2>2, <3>1, StartupBounds DEF OblastIDs
      <3>3. at[r] <= n + 1
        <4> SUFFICES ASSUME at[r] > n + 1 PROVE FALSE
          BY <3>2
        <4>1. n + 1 \in 1..(at[r] - 1)
          BY <3>2
        <4>2. n + 1 \notin 1..n
          BY <3>2
        <4> QED
          BY <2>2, <3>1, <4>1, <4>2
      <3>4. CASE at[r] <= n
        <4>1. oblasts' = oblasts
          BY <2>1, <3>1, <3>2, <3>4
        <4> QED
          BY <1>1, <2>1, <4>1 DEF OnlyATailMissing
      <3>5. CASE at[r] = n + 1
        <4>1. oblasts' = 1..at[r]
          BY <2>1, <3>1, <3>2, <3>5
        <4> QED
          BY <1>1, <2>1, <2>2, <4>1 DEF OnlyATailMissing
      <3> QED
        BY <3>2, <3>3, <3>4, <3>5
    <2> QED
      BY <2>3, <2>4
  <1>4. ASSUME NEW r \in Starters, ListZones(r) PROVE OnlyATailMissing'
    <2>1. /\ stage[r] = "list" /\ UNCHANGED oblasts /\ listed'[r] = oblasts
          /\ \A q \in Starters \ {r} : stage'[q] = stage[q] /\ listed'[q] = listed[q]
      BY <1>2, <1>4 DEF ListZones, Enter
    <2>2. NumOblasts \in OblastIDs
      BY StartupAssumption, StartupBounds DEF OblastIDs
    <2>3. oblasts # {}
      BY <1>2, <2>1, <2>2 DEF SeederOK
    <2>4. oblasts \in Beginnings
      BY <1>1, <2>3
    <2> QED
      BY <1>1, <2>1, <2>4 DEF OnlyATailMissing
  <1>5. ASSUME UNCHANGED oblasts, \A r \in Starters : stage'[r] = "up"
                                     => stage[r] = "up" /\ listed'[r] = listed[r]
        PROVE  OnlyATailMissing'
    BY <1>1, <1>5 DEF OnlyATailMissing
  <1>6. ASSUME NEW r \in Starters,
               \/ TakeLock(r) \/ CheckMigration(r) \/ ApplyMigration(r) \/ Conflict(r)
               \/ Unlock(r) \/ CountOblasts(r) \/ Seeded(r) \/ StartAgain(r)
        PROVE  OnlyATailMissing'
    <2>1. /\ UNCHANGED oblasts
          /\ \A q \in Starters : stage'[q] = "up" => stage[q] = "up" /\ listed'[q] = listed[q]
      BY <1>2, <1>6 DEF TakeLock, CheckMigration, ApplyMigration, Conflict, Unlock,
                        CountOblasts, Seeded, StartAgain, Enter
    <2> QED
      BY <1>5, <2>1
  <1>7. CASE LoseLock \/ UNCHANGED startupVars
    BY <1>5, <1>7 DEF LoseLock, startupVars
  <1> QED
    BY <1>3, <1>4, <1>6, <1>7 DEF StartupNext, StartupStep, AllUp

\* migrate.go and seed.go: replicas that start together apply each migration once, in
\* order, also if the lock is lost under one of them; none goes on before the schema is
\* complete; the oblasts are all there unless a start has failed; and if one has, only
\* the last ones of the file are missing.
THEOREM DatabaseIsPrepared == StartupSpec => []PreparedWhenUp
  <1>1. StartupInv => MigratedInOrder
    BY DEF StartupInv, MigrationsOK, MigratedInOrder
  <1>2. StartupInv => SeederKnowsAll
    BY DEF StartupInv, SeedingOK, SeederOK, SeederKnowsAll
  <1>3. StartupInv => SeededUnlessFaults
    <2> SUFFICES ASSUME StartupInv, startFaults = 0, NEW r \in Starters, stage[r] \in {"list", "up"},
                        \A q \in Starters : stage[q] # "seed"
                 PROVE  oblasts = OblastIDs
      BY DEF SeededUnlessFaults
    <2>1. SeederOK(r) /\ SomeoneSeeds /\ counted[r] \in BOOLEAN
      BY DEF StartupInv, SeedingOK, StartupShapes
    <2>2. CASE counted[r]
      BY <2>1, <2>2 DEF SeederOK
    <2>3. CASE ~counted[r]
      BY <2>1, <2>3 DEF SeederOK, SomeoneSeeds
    <2> QED
      BY <2>1, <2>2, <2>3
  <1>4. StartupInit => OnlyATailMissing
    BY DEF StartupInit, OnlyATailMissing
  <1>5. StartupInv /\ OnlyATailMissing => PreparedWhenUp
    BY <1>1, <1>2, <1>3 DEF PreparedWhenUp
  <1> QED
    BY <1>4, <1>5, StartupKeepsTail, StartupInvHolds, PTL DEF StartupSpec

\* The variables of the preparation keep their shapes.
THEOREM StartupTyped == StartupSpec => []StartupTypeOK
  BY StartupInvTypes, StartupInvHolds, PTL

-----------------------------------------------------------------------------
(* The alarms of all replicas.                                             *)

\* The age of the last publication that was stored, or of the start of the replica.
SinceStored(r) == missed[r] * PublishEvery + ticker[r]

\* What the bounds are, and what a failed publication adds to the age of the last stored
\* one.
LEMMA PresenceBounds ==
    /\ {AlarmWindow, MaxMissed, MaxDeaths, MaxSeen, MaxSince, MaxHeld} \subseteq Nat
    /\ PublishEvery \in Nat /\ PublishEvery > 0 /\ Fresh \in Nat /\ Fresh > 0
    /\ MaxSeen = AlarmWindow + 1 /\ MaxSince = AlarmWindow + Fresh + 1
    /\ \A m \in 0..MaxMissed : /\ m * PublishEvery \in Nat
                               /\ m * PublishEvery + PublishEvery <= MaxHeld
                               /\ (m + 1) * PublishEvery = m * PublishEvery + PublishEvery
  <1>1. /\ AlarmWindow \in Nat /\ MaxMissed \in Nat /\ MaxDeaths \in Nat
        /\ PublishEvery \in Nat /\ PublishEvery > 0 /\ Fresh \in Nat /\ Fresh > 0
    BY PresenceAssumption
  <1>2. MaxSeen = AlarmWindow + 1 /\ MaxSince = AlarmWindow + Fresh + 1 /\ MaxHeld \in Nat
    BY <1>1 DEF MaxSeen, MaxSince, MaxHeld
  <1>3. MaxHeld = MaxMissed * PublishEvery + PublishEvery
    BY <1>1 DEF MaxHeld
  <1>4. ASSUME NEW m \in 0..MaxMissed
        PROVE  /\ m * PublishEvery \in Nat
               /\ m * PublishEvery + PublishEvery <= MaxHeld
               /\ (m + 1) * PublishEvery = m * PublishEvery + PublishEvery
    <2>1. m * PublishEvery \in Nat
      BY <1>1
    <2>2. m * PublishEvery <= MaxMissed * PublishEvery
      BY <1>1
    <2>3. MaxMissed * PublishEvery \in Nat
      BY <1>1
    <2>4. (m + 1) * PublishEvery = m * PublishEvery + PublishEvery
      BY <1>1
    <2> QED
      BY <1>1, <1>3, <2>1, <2>2, <2>3, <2>4
  <1> QED
    BY <1>1, <1>2, <1>4

LEMMA EarliestOf ==
    ASSUME NEW a \in Nat, NEW b \in Nat
    PROVE  Earliest(a, b) \in 0..b /\ Earliest(a, b) <= a
           /\ (Earliest(a, b) = a \/ Earliest(a, b) = b)
  BY DEF Earliest

\* A replica counts the drones it has heard in time; there is one if the count is not 0.
LEMMA AlarmCount ==
    ASSUME PresenceTypeOK, NEW r \in ReplicaIDs
    PROVE  /\ ActiveAlarmsOf(r) \in 0..Cardinality(Flyers)
           /\ ActiveAlarmsOf(r) > 0 <=> \E d \in within[r] : seen[r][d] <= AlarmWindow
  <1> DEFINE S == {d \in within[r] : seen[r][d] <= AlarmWindow}
  <1>1. S \subseteq Flyers
    BY DEF PresenceTypeOK
  <1>2. IsFiniteSet(S) /\ Cardinality(S) <= Cardinality(Flyers)
    BY <1>1, FS_Subset, PresenceAssumption
  <1>3. Cardinality(S) \in Nat /\ Cardinality(Flyers) \in Nat
    BY <1>2, FS_CardinalityType, PresenceAssumption
  <1>4. Cardinality(S) = 0 <=> S = {}
    BY <1>2, FS_EmptySet
  <1>5. ActiveAlarmsOf(r) = Cardinality(S)
    BY DEF ActiveAlarmsOf
  <1>6. S # {} <=> \E d \in within[r] : seen[r][d] <= AlarmWindow
    OBVIOUS
  <1> HIDE DEF S
  <1> QED
    BY <1>2, <1>3, <1>4, <1>5, <1>6

\* All replicas start, and no drone has reported.
LEMMA PresenceInitTypes == PresenceInit => PresenceTypeOK
  <1> SUFFICES ASSUME PresenceInit PROVE PresenceTypeOK
    OBVIOUS
  <1> USE PresenceBounds DEF PresenceInit
  <1>1. Cardinality(Flyers) \in Nat
    BY FS_CardinalityType, PresenceAssumption
  <1>2. seen \in [ReplicaIDs -> [Flyers -> 0..MaxSeen]] /\ within \in [ReplicaIDs -> SUBSET Flyers]
    OBVIOUS
  <1>3. rowCount \in [ReplicaIDs -> 0..Cardinality(Flyers)] /\ rowAge \in [ReplicaIDs -> 0..Fresh]
    BY <1>1
  <1>4. ticker \in [ReplicaIDs -> 0..PublishEvery] /\ missed \in [ReplicaIDs -> 0..MaxMissed]
    OBVIOUS
  <1>5. heldFor \in [Flyers -> NotInside..MaxHeld]
    BY DEF NotInside
  <1>6. alive \subseteq ReplicaIDs /\ deaths \in 0..MaxDeaths /\ outsideFor \in 0..MaxSince
    OBVIOUS
  <1> QED
    BY <1>2, <1>3, <1>4, <1>5, <1>6 DEF PresenceTypeOK

\* What a report, a publication, the end and the start of a replica, and a second
\* change.
LEMMA PresenceNextTypes ==
    ASSUME PresenceTypeOK, [PresenceNext]_presenceVars
    PROVE  PresenceTypeOK'
  <1> USE PresenceBounds DEF PresenceTypeOK, checkerVars, rowVars, trailVars
  <1>1. ASSUME NEW d \in Flyers, NEW p \in PartitionIDs(NumPartitions), NEW isInside \in BOOLEAN,
               Report(d, p, isInside)
        PROVE  PresenceTypeOK'
    <2> PICK r : r = OwnerOfPartition(p)
      OBVIOUS
    <2>1. r \in ReplicaIDs
      BY <1>1 DEF Report
    <2>2. seen' \in [ReplicaIDs -> [Flyers -> 0..MaxSeen]]
      BY <1>1, <2>1 DEF Report
    <2>3. within' \in [ReplicaIDs -> SUBSET Flyers]
      BY <1>1, <2>1 DEF Report
    <2>4. heldFor' \in [Flyers -> NotInside..MaxHeld]
      BY <1>1 DEF Report, NotInside
    <2>5. outsideFor' \in 0..MaxSince
      BY <1>1 DEF Report
    <2> QED
      BY <1>1, <2>2, <2>3, <2>4, <2>5 DEF Report
  <1>2. ASSUME NEW r \in ReplicaIDs, PublishZonePresence(r) PROVE PresenceTypeOK'
    <2>1. ticker' \in [ReplicaIDs -> 0..PublishEvery]
      BY <1>2 DEF PublishZonePresence
    <2>2. missed' \in [ReplicaIDs -> 0..MaxMissed]
      BY <1>2 DEF PublishZonePresence
    <2>3. rowCount' \in [ReplicaIDs -> 0..Cardinality(Flyers)] /\ rowAge' \in [ReplicaIDs -> 0..Fresh]
      <3>1. CASE KeepRows(r)
        BY <3>1 DEF KeepRows
      <3>2. CASE /\ rowCount' = [rowCount EXCEPT ![r] = ActiveAlarmsOf(r)]
                 /\ rowAge' = [rowAge EXCEPT ![r] = IF ActiveAlarmsOf(r) > 0 THEN 0 ELSE Fresh]
        <4>1. ActiveAlarmsOf(r) \in 0..Cardinality(Flyers)
          BY AlarmCount
        <4>2. 0 \in 0..Fresh /\ Fresh \in 0..Fresh
          OBVIOUS
        <4> QED
          BY <3>2, <4>1, <4>2
      <3> QED
        BY <1>2, <3>1, <3>2 DEF PublishZonePresence
    <2> QED
      BY <1>2, <2>1, <2>2, <2>3 DEF PublishZonePresence
  <1>3. ASSUME NEW r \in ReplicaIDs, Die(r) PROVE PresenceTypeOK'
    <2>1. seen' \in [ReplicaIDs -> [Flyers -> 0..MaxSeen]] /\ within' \in [ReplicaIDs -> SUBSET Flyers]
      BY <1>3 DEF Die
    <2>2. heldFor' \in [Flyers -> NotInside..MaxHeld]
      <3>1. NotInside \in NotInside..MaxHeld
        BY DEF NotInside
      <3> QED
        BY <1>3, <3>1 DEF Die
    <2>3. deaths' \in 0..MaxDeaths
      BY <1>3 DEF Die
    <2> QED
      BY <1>3, <2>1, <2>2, <2>3 DEF Die
  <1>4. ASSUME NEW r \in ReplicaIDs, Restart(r) PROVE PresenceTypeOK'
    BY <1>4 DEF Restart
  <1>5. CASE PresenceTick
    <2>1. seen' \in [ReplicaIDs -> [Flyers -> 0..MaxSeen]]
      <3>1. ASSUME NEW r \in ReplicaIDs, NEW d \in Flyers
            PROVE  Earliest(seen[r][d] + 1, MaxSeen) \in 0..MaxSeen
        <4>1. seen[r][d] + 1 \in Nat /\ MaxSeen \in Nat
          OBVIOUS
        <4> QED
          BY <4>1, EarliestOf
      <3> QED
        BY <1>5, <3>1 DEF PresenceTick
    <2>2. rowAge' \in [ReplicaIDs -> 0..Fresh] /\ rowCount' \in [ReplicaIDs -> 0..Cardinality(Flyers)]
      <3>1. ASSUME NEW r \in ReplicaIDs PROVE Earliest(rowAge[r] + 1, Fresh) \in 0..Fresh
        <4>1. rowAge[r] + 1 \in Nat /\ Fresh \in Nat
          OBVIOUS
        <4> QED
          BY <4>1, EarliestOf
      <3>2. Cardinality(Flyers) \in Nat
        BY FS_CardinalityType, PresenceAssumption
      <3> QED
        BY <1>5, <3>1, <3>2 DEF PresenceTick
    <2>3. ticker' \in [ReplicaIDs -> 0..PublishEvery]
      BY <1>5 DEF PresenceTick
    <2>4. heldFor' \in [Flyers -> NotInside..MaxHeld]
      <3>1. ASSUME NEW d \in Flyers, heldFor[d] # NotInside
            PROVE  Earliest(heldFor[d] + 1, MaxHeld) \in NotInside..MaxHeld
        <4>1. heldFor[d] + 1 \in Nat /\ MaxHeld \in Nat
          BY <3>1 DEF NotInside
        <4>2. Earliest(heldFor[d] + 1, MaxHeld) \in 0..MaxHeld
          BY <4>1, EarliestOf
        <4> QED
          BY <4>1, <4>2 DEF NotInside
      <3>2. NotInside \in NotInside..MaxHeld
        BY DEF NotInside
      <3> QED
        BY <1>5, <3>1, <3>2 DEF PresenceTick
    <2>5. outsideFor' \in 0..MaxSince
      BY <1>5, EarliestOf DEF PresenceTick
    <2> QED
      BY <1>5, <2>1, <2>2, <2>3, <2>4, <2>5 DEF PresenceTick
  <1>6. CASE UNCHANGED presenceVars
    BY <1>6 DEF presenceVars
  <1>7. ASSUME NEW d \in Flyers, NEW p \in PartitionIDs(NumPartitions), ReportStale(d, p)
        PROVE  PresenceTypeOK'
    <2>1. /\ OwnerOfPartition(p) \in ReplicaIDs
          /\ seen' = [seen EXCEPT ![OwnerOfPartition(p)][d] = 0]
          /\ outsideFor' \in {0, outsideFor} /\ UNCHANGED <<within, heldFor, rowVars, alive, deaths>>
      BY <1>7 DEF ReportStale
    <2>2. seen' \in [ReplicaIDs -> [Flyers -> 0..MaxSeen]] /\ outsideFor' \in 0..MaxSince
      BY <2>1
    <2>3. within' = within /\ heldFor' = heldFor /\ alive' = alive /\ deaths' = deaths
          /\ rowCount' = rowCount /\ rowAge' = rowAge /\ ticker' = ticker /\ missed' = missed
      BY <2>1
    <2> HIDE PresenceBounds
    <2> QED
      BY <2>2, <2>3
  <1> QED
    BY <1>1, <1>2, <1>3, <1>4, <1>5, <1>6, <1>7 DEF PresenceNext

\* A drone inside was not heard before the last report from inside, and a fresh row
\* counts a drone that was heard within the window before the row was written.
GhostsBounded ==
    \A r \in ReplicaIDs :
       /\ \A d \in within[r] : seen[r][d] >= Earliest(outsideFor, MaxSeen)
       /\ rowCount[r] > 0 /\ IsFresh(r) => outsideFor <= AlarmWindow + rowAge[r]

LEMMA GhostsStayBounded ==
    ASSUME PresenceTypeOK, GhostsBounded, [PresenceNext]_presenceVars
    PROVE  GhostsBounded'
  <1> USE PresenceBounds DEF checkerVars, rowVars, trailVars
  <1>0. /\ \A r \in ReplicaIDs, d \in Flyers : seen[r][d] \in 0..MaxSeen
        /\ \A r \in ReplicaIDs : /\ within[r] \subseteq Flyers /\ rowAge[r] \in 0..Fresh
                                /\ rowCount[r] \in Int
        /\ outsideFor \in 0..MaxSince
    <2>1. Cardinality(Flyers) \in Nat
      BY FS_CardinalityType, PresenceAssumption
    <2>2. \A r \in ReplicaIDs : rowCount[r] \in 0..Cardinality(Flyers)
      BY DEF PresenceTypeOK
    <2>3. \A r \in ReplicaIDs : rowCount[r] \in Int
      <3> HIDE PresenceBounds
      <3> QED
        BY <2>1, <2>2
    <2>4. /\ \A r \in ReplicaIDs, d \in Flyers : seen[r][d] \in 0..MaxSeen
          /\ \A r \in ReplicaIDs : within[r] \subseteq Flyers /\ rowAge[r] \in 0..Fresh
          /\ outsideFor \in 0..MaxSince
      <3> HIDE PresenceBounds
      <3> QED
        BY DEF PresenceTypeOK
    <2> QED
      BY <2>3, <2>4
  <1>1. ASSUME NEW d \in Flyers, NEW p \in PartitionIDs(NumPartitions), NEW isInside \in BOOLEAN,
               Report(d, p, isInside)
        PROVE  GhostsBounded'
    <2> PICK q : q = OwnerOfPartition(p)
      OBVIOUS
    <2>1. /\ q \in ReplicaIDs /\ UNCHANGED <<rowCount, rowAge>>
          /\ outsideFor' = IF isInside THEN 0 ELSE outsideFor
      BY <1>1 DEF Report, PresenceTypeOK
    <2>2. /\ \A r \in ReplicaIDs, e \in Flyers :
                seen'[r][e] = seen[r][e] \/ (seen'[r][e] = 0 /\ r = q /\ e = d)
          /\ \A r \in ReplicaIDs : within'[r] \subseteq within[r] \cup {d}
          /\ \A r \in ReplicaIDs \ {q} : within'[r] = within[r]
          /\ ~isInside => d \notin within'[q]
      BY <1>1, <2>1 DEF Report, PresenceTypeOK
    <2>3. CASE isInside
      <3>1. outsideFor' = 0 /\ Earliest(outsideFor', MaxSeen) = 0
        BY <2>1, <2>3 DEF Earliest
      <3>2. \A r \in ReplicaIDs : \A e \in within'[r] : seen'[r][e] >= 0
        BY <1>0, <2>2
      <3> QED
        BY <1>0, <2>1, <3>1, <3>2 DEF GhostsBounded, IsFresh
    <2>4. CASE ~isInside
      <3>1. \A r \in ReplicaIDs : \A e \in within'[r] : e \in within[r] /\ seen'[r][e] = seen[r][e]
        BY <1>0, <2>2, <2>4
      <3> QED
        BY <2>1, <2>4, <3>1 DEF GhostsBounded, IsFresh
    <2> QED
      BY <2>3, <2>4
  <1>2. ASSUME NEW q \in ReplicaIDs, PublishZonePresence(q) PROVE GhostsBounded'
    <2>1. UNCHANGED <<seen, within, outsideFor>>
      BY <1>2 DEF PublishZonePresence
    <2>2. CASE KeepRows(q)
      BY <2>1, <2>2 DEF KeepRows, GhostsBounded, IsFresh
    <2>3. CASE /\ rowCount' = [rowCount EXCEPT ![q] = ActiveAlarmsOf(q)]
               /\ rowAge' = [rowAge EXCEPT ![q] = IF ActiveAlarmsOf(q) > 0 THEN 0 ELSE Fresh]
      <3>1. ActiveAlarmsOf(q) > 0 => outsideFor <= AlarmWindow
        <4>1. SUFFICES ASSUME NEW d \in within[q], seen[q][d] <= AlarmWindow
                       PROVE  outsideFor <= AlarmWindow
          BY AlarmCount
        <4>2. seen[q][d] >= Earliest(outsideFor, MaxSeen) /\ seen[q][d] \in Nat
          BY <1>0 DEF GhostsBounded
        <4> QED
          BY <1>0, <4>1, <4>2 DEF Earliest
      <3>2. ActiveAlarmsOf(q) > 0 => rowAge'[q] = 0
        BY <2>3 DEF PresenceTypeOK
      <3>3. /\ rowCount'[q] = ActiveAlarmsOf(q)
            /\ \A r \in ReplicaIDs \ {q} : rowCount'[r] = rowCount[r] /\ rowAge'[r] = rowAge[r]
        BY <2>3 DEF PresenceTypeOK
      <3>4. ASSUME NEW r \in ReplicaIDs, rowCount'[r] > 0, IsFresh(r)'
            PROVE  outsideFor <= AlarmWindow + rowAge'[r]
        <4>1. CASE r = q
          <5>1. outsideFor <= AlarmWindow /\ rowAge'[r] = 0
            BY <3>1, <3>2, <3>3, <3>4, <4>1
          <5> QED
            BY <1>0, <5>1
        <4>2. CASE r # q
          BY <3>3, <3>4, <4>2 DEF GhostsBounded, IsFresh
        <4> QED
          BY <4>1, <4>2
      <3> QED
        BY <2>1, <3>4 DEF GhostsBounded
    <2> QED
      BY <1>2, <2>2, <2>3 DEF PublishZonePresence
  <1>3. ASSUME NEW q \in ReplicaIDs, Die(q) PROVE GhostsBounded'
    BY <1>3 DEF Die, GhostsBounded, IsFresh, PresenceTypeOK
  <1>4. ASSUME NEW q \in ReplicaIDs, Restart(q) PROVE GhostsBounded'
    BY <1>4 DEF Restart, GhostsBounded, IsFresh
  <1>5. CASE PresenceTick
    <2>1. /\ \A r \in ReplicaIDs, d \in Flyers : seen'[r][d] = Earliest(seen[r][d] + 1, MaxSeen)
          /\ \A r \in ReplicaIDs : /\ within'[r] = within[r]
                                  /\ rowAge'[r] = Earliest(rowAge[r] + 1, Fresh)
                                  /\ rowCount'[r] = IF IsFresh(r) THEN rowCount[r] ELSE 0
          /\ outsideFor' = Earliest(outsideFor + 1, MaxSince)
      BY <1>5 DEF PresenceTick
    <2>2. ASSUME NEW r \in ReplicaIDs, NEW d \in within[r]
          PROVE  seen'[r][d] >= Earliest(outsideFor', MaxSeen)
      <3>1. /\ seen[r][d] \in 0..MaxSeen /\ seen[r][d] >= Earliest(outsideFor, MaxSeen)
            /\ seen'[r][d] = Earliest(seen[r][d] + 1, MaxSeen)
        BY <1>0, <2>1 DEF GhostsBounded
      <3> QED
        BY <1>0, <2>1, <3>1 DEF Earliest
    <2>3. ASSUME NEW r \in ReplicaIDs, rowCount'[r] > 0, IsFresh(r)'
          PROVE  outsideFor' <= AlarmWindow + rowAge'[r]
      <3>1. IsFresh(r) /\ rowCount[r] > 0
        BY <2>1, <2>3
      <3>2. outsideFor <= AlarmWindow + rowAge[r]
        BY <3>1 DEF GhostsBounded
      <3> QED
        BY <1>0, <2>1, <2>3, <3>1, <3>2 DEF Earliest, IsFresh
    <2> QED
      BY <2>1, <2>2, <2>3 DEF GhostsBounded
  <1>6. CASE UNCHANGED presenceVars
    BY <1>6 DEF presenceVars, GhostsBounded, IsFresh
  <1>7. ASSUME NEW d \in Flyers, NEW p \in PartitionIDs(NumPartitions), ReportStale(d, p)
        PROVE  GhostsBounded'
    <2> PICK q : q = OwnerOfPartition(p)
      OBVIOUS
    <2>1. /\ q \in ReplicaIDs /\ UNCHANGED <<within, rowCount, rowAge>>
          /\ outsideFor' = IF d \in within[q] THEN 0 ELSE outsideFor
      BY <1>7 DEF ReportStale, PresenceTypeOK
    <2>2. \A r \in ReplicaIDs, e \in Flyers :
             seen'[r][e] = seen[r][e] \/ (seen'[r][e] = 0 /\ r = q /\ e = d)
      BY <1>7, <2>1 DEF ReportStale, PresenceTypeOK
    <2>3. CASE d \in within[q]
      <3>1. outsideFor' = 0 /\ Earliest(outsideFor', MaxSeen) = 0
        BY <2>1, <2>3 DEF Earliest
      <3>2. \A r \in ReplicaIDs : \A e \in within'[r] : seen'[r][e] >= 0
        BY <1>0, <2>1, <2>2
      <3> QED
        BY <1>0, <2>1, <3>1, <3>2 DEF GhostsBounded, IsFresh
    <2>4. CASE d \notin within[q]
      <3>1. \A r \in ReplicaIDs : \A e \in within'[r] : e \in within[r] /\ seen'[r][e] = seen[r][e]
        BY <1>0, <2>1, <2>2, <2>4
      <3> QED
        BY <2>1, <2>4, <3>1 DEF GhostsBounded, IsFresh
    <2> QED
      BY <2>3, <2>4
  <1> QED
    BY <1>1, <1>2, <1>3, <1>4, <1>5, <1>6, <1>7 DEF PresenceNext

\* The variables of the shared alarms keep their shapes, whatever the replicas do.
THEOREM PresenceTyped == PresenceSpec => []PresenceTypeOK
  <1>1. PresenceInit => PresenceTypeOK
    BY PresenceInitTypes
  <1>2. PresenceTypeOK /\ [PresenceNext]_presenceVars => PresenceTypeOK'
    BY PresenceNextTypes
  <1> QED
    BY <1>1, <1>2, PTL DEF PresenceSpec

\* No replica keeps an alarm up for a drone it lost to another replica, and no row
\* outlives its replica (shardStateFresh), for longer than the alarm window and the
\* freshness of a row together.
THEOREM AlarmsOfGhostsFade == PresenceSpec => []GhostsFade
  <1>1. PresenceInit => GhostsBounded
    BY DEF PresenceInit, GhostsBounded
  <1>2. PresenceTypeOK /\ GhostsBounded /\ [PresenceNext]_presenceVars => GhostsBounded'
    BY GhostsStayBounded
  <1>3. PresenceTypeOK /\ GhostsBounded => GhostsFade
    <2> SUFFICES ASSUME PresenceTypeOK, GhostsBounded, outsideFor = MaxSince,
                        NEW r \in ReplicaIDs, IsFresh(r), rowCount[r] > 0
                 PROVE  FALSE
      BY DEF GhostsFade, Alarmed
    <2>1. outsideFor <= AlarmWindow + rowAge[r]
      BY DEF GhostsBounded
    <2>2. rowAge[r] \in Nat /\ rowAge[r] < Fresh
      BY PresenceBounds DEF IsFresh, PresenceTypeOK
    <2> QED
      BY <2>1, <2>2, PresenceBounds
  <1> QED
    BY <1>1, <1>2, <1>3, PresenceTyped, PTL DEF PresenceSpec

\* The row of r counts a drone, and was written by the last publication that was
\* stored.
Counts(r) == rowCount[r] > 0 /\ rowAge[r] <= SinceStored(r)

\* Replica r heard drone d inside within the last k seconds, and has counted it since
\* or has not yet published in these k seconds.
Carries(r, d, k) ==
    /\ r \in alive /\ d \in within[r] /\ seen[r][d] <= k
    /\ k <= SinceStored(r) \/ Counts(r)

\* For every k up to the time a drone has been inside without a gap there is a replica
\* that heard it k seconds ago or later.
HeldIsCarried ==
    \A d \in Flyers : heldFor[d] # NotInside =>
       \A k \in 1..heldFor[d] : \E r \in ReplicaIDs : Carries(r, d, k)

\* A replica that does not run has not heard a drone in this second.
DeadAreDeaf == \A r \in ReplicaIDs \ alive : \A d \in Flyers : seen[r][d] > 0

\* How old the last stored publication of a replica can be.
LEMMA StoredLately ==
    ASSUME PresenceTypeOK, NEW r \in ReplicaIDs
    PROVE  /\ SinceStored(r) \in Nat
           /\ ticker[r] < PublishEvery => SinceStored(r) < MaxHeld
  <1>1. /\ missed[r] \in 0..MaxMissed /\ ticker[r] \in 0..PublishEvery
        /\ PublishEvery \in Nat /\ MaxHeld \in Nat
    BY PresenceBounds DEF PresenceTypeOK
  <1>2. PICK n : n = missed[r] * PublishEvery
    OBVIOUS
  <1>3. n \in Nat /\ n + PublishEvery <= MaxHeld
    BY <1>1, <1>2, PresenceBounds
  <1>4. SinceStored(r) = n + ticker[r]
    BY <1>2 DEF SinceStored
  <1> QED
    BY <1>1, <1>3, <1>4

\* A report from inside is carried by its replica; one from outside ends what is held.
LEMMA ReportCarries ==
    ASSUME PresenceTypeOK, HeldIsCarried, DeadAreDeaf,
           NEW d \in Flyers, NEW p \in PartitionIDs(NumPartitions), NEW isInside \in BOOLEAN,
           Report(d, p, isInside)
    PROVE  HeldIsCarried' /\ DeadAreDeaf'
  <1> USE DEF rowVars
  <1> PICK q : q = OwnerOfPartition(p)
    OBVIOUS
  <1>1. /\ q \in alive /\ q \in ReplicaIDs
        /\ UNCHANGED <<rowCount, rowAge, ticker, missed, alive>>
    BY DEF Report, PresenceTypeOK
  <1>2. /\ \A r \in ReplicaIDs, e \in Flyers : r # q \/ e # d => seen'[r][e] = seen[r][e]
        /\ seen'[q][d] = 0
    BY <1>1 DEF Report, PresenceTypeOK
  <1>3. /\ \A r \in ReplicaIDs, e \in Flyers : r # q \/ e # d => (e \in within'[r] <=> e \in within[r])
        /\ d \in within'[q] <=> isInside
    BY <1>1 DEF Report, PresenceTypeOK
  <1>4. /\ \A e \in Flyers \ {d} : heldFor'[e] = heldFor[e]
        /\ heldFor'[d] = IF ~isInside THEN NotInside
                         ELSE IF heldFor[d] = NotInside THEN 0 ELSE heldFor[d]
    BY DEF Report, PresenceTypeOK
  <1>5. ASSUME NEW r \in ReplicaIDs PROVE SinceStored(r)' = SinceStored(r) /\ (Counts(r)' <=> Counts(r))
    BY <1>1 DEF SinceStored, Counts
  <1>6. DeadAreDeaf'
    BY <1>1, <1>2 DEF DeadAreDeaf
  <1>7. ASSUME NEW e \in Flyers, heldFor'[e] # NotInside
        PROVE  \A k \in 1..heldFor'[e] : \E r \in ReplicaIDs : Carries(r, e, k)'
    <2>1. CASE e # d
      <3>1. ASSUME NEW r \in ReplicaIDs, NEW k PROVE Carries(r, e, k)' <=> Carries(r, e, k)
        BY <1>1, <1>2, <1>3, <1>5, <2>1 DEF Carries
      <3> QED
        BY <1>4, <1>7, <2>1, <3>1 DEF HeldIsCarried
    <2>2. CASE e = d
      <3>1. isInside /\ d \in within'[q]
        BY <1>3, <1>4, <1>7, <2>2
      <3>2. ASSUME NEW k \in 1..heldFor'[d] PROVE \E r \in ReplicaIDs : Carries(r, d, k)'
        <4>1. heldFor[d] # NotInside /\ k \in 1..heldFor[d]
          BY <1>4, <3>1, <3>2
        <4>2. PICK r \in ReplicaIDs : Carries(r, d, k)
          BY <4>1 DEF HeldIsCarried
        <4>3. seen'[r][d] <= k
          BY <1>2, <4>2 DEF Carries
        <4>4. d \in within'[r]
          BY <1>3, <3>1, <4>2 DEF Carries
        <4> QED
          BY <1>1, <1>5, <4>2, <4>3, <4>4 DEF Carries
      <3> QED
        BY <2>2, <3>2
    <2> QED
      BY <2>1, <2>2
  <1> QED
    BY <1>6, <1>7 DEF HeldIsCarried

\* A late sample makes no replica forget what it carries.
LEMMA StaleCarries ==
    ASSUME PresenceTypeOK, HeldIsCarried, DeadAreDeaf,
           NEW d \in Flyers, NEW p \in PartitionIDs(NumPartitions), ReportStale(d, p)
    PROVE  HeldIsCarried' /\ DeadAreDeaf'
  <1> PICK q : q = OwnerOfPartition(p)
    OBVIOUS
  <1>1. /\ q \in alive /\ q \in ReplicaIDs
        /\ UNCHANGED <<within, heldFor, rowCount, rowAge, ticker, missed, alive>>
    BY DEF ReportStale, PresenceTypeOK, rowVars
  <1>2. /\ \A r \in ReplicaIDs, e \in Flyers : seen'[r][e] \in {0, seen[r][e]}
        /\ \A r \in ReplicaIDs \ {q}, e \in Flyers : seen'[r][e] = seen[r][e]
        /\ \A r \in ReplicaIDs, e \in Flyers : seen[r][e] \in Nat
    BY <1>1 DEF ReportStale, PresenceTypeOK
  <1>3. DeadAreDeaf'
    BY <1>1, <1>2 DEF DeadAreDeaf
  <1>4. ASSUME NEW e \in Flyers, heldFor[e] # NotInside, NEW k \in 1..heldFor[e]
        PROVE  \E r \in ReplicaIDs : Carries(r, e, k)'
    <2>1. PICK r \in ReplicaIDs : Carries(r, e, k)
      BY <1>4 DEF HeldIsCarried
    <2>2. k \in Int /\ k >= 1
      BY <1>4
    <2>3. seen'[r][e] <= k
      BY <1>2, <2>1, <2>2 DEF Carries
    <2>4. SinceStored(r)' = SinceStored(r) /\ (Counts(r)' <=> Counts(r))
      BY <1>1 DEF SinceStored, Counts
    <2> QED
      BY <1>1, <2>1, <2>3, <2>4 DEF Carries
  <1> QED
    BY <1>1, <1>3, <1>4 DEF HeldIsCarried

\* A publication counts what its replica carries, and one that fails makes the last
\* stored one no older than it is.
LEMMA PublishCarries ==
    ASSUME PresenceTypeOK, HeldIsCarried, DeadAreDeaf, MaxHeld <= AlarmWindow,
           NEW q \in ReplicaIDs, PublishZonePresence(q)
    PROVE  HeldIsCarried' /\ DeadAreDeaf'
  <1> USE DEF checkerVars, trailVars
  <1>1. /\ UNCHANGED <<seen, within, alive, heldFor>>
        /\ q \in alive /\ ticker[q] = PublishEvery /\ ticker'[q] = 0
        /\ \A r \in ReplicaIDs \ {q} : ticker'[r] = ticker[r]
    BY DEF PublishZonePresence, PresenceTypeOK
  <1>2. ASSUME NEW d \in Flyers, NEW k \in 1..MaxHeld, NEW r \in ReplicaIDs, Carries(r, d, k)
        PROVE  Carries(r, d, k)'
    <2>1. CASE r # q
      <3>1. rowCount'[r] = rowCount[r] /\ rowAge'[r] = rowAge[r] /\ missed'[r] = missed[r]
        BY <2>1 DEF PublishZonePresence, KeepRows, PresenceTypeOK
      <3> QED
        BY <1>1, <1>2, <2>1, <3>1 DEF Carries, Counts, SinceStored
    <2>2. CASE r = q /\ missed'[q] = missed[q] + 1 /\ missed[q] < MaxMissed /\ KeepRows(q)
      <3> PICK n : n = missed[q] * PublishEvery
        OBVIOUS
      <3>1. missed[q] \in 0..MaxMissed
        BY DEF PresenceTypeOK
      <3>2. n \in Nat /\ (missed[q] + 1) * PublishEvery = n + PublishEvery
        BY <3>1, PresenceBounds
      <3>3. SinceStored(q) = n + PublishEvery /\ SinceStored(q)' = n + PublishEvery + 0
        BY <1>1, <2>2, <3>2 DEF SinceStored
      <3>4. SinceStored(q)' = SinceStored(q)
        BY <3>2, <3>3, PresenceBounds
      <3>5. Counts(q)' <=> Counts(q)
        BY <2>2, <3>4 DEF Counts, KeepRows
      <3> QED
        BY <1>1, <1>2, <2>2, <3>4, <3>5 DEF Carries
    <2>3. CASE /\ r = q /\ missed'[q] = 0
               /\ rowCount' = [rowCount EXCEPT ![q] = ActiveAlarmsOf(q)]
               /\ rowAge' = [rowAge EXCEPT ![q] = IF ActiveAlarmsOf(q) > 0 THEN 0 ELSE Fresh]
      <3>1. d \in within[q] /\ seen[q][d] <= k
        BY <1>2, <2>3 DEF Carries
      <3>2. seen[q][d] \in 0..MaxSeen
        BY DEF PresenceTypeOK
      <3>3. seen[q][d] <= AlarmWindow
        BY <3>1, <3>2, PresenceBounds
      <3>4. ActiveAlarmsOf(q) > 0
        BY <3>1, <3>3, AlarmCount
      <3>5. rowCount'[q] > 0 /\ rowAge'[q] = 0
        BY <2>3, <3>4 DEF PresenceTypeOK
      <3>6. SinceStored(q)' = 0
        BY <1>1, <2>3, PresenceBounds DEF SinceStored
      <3>7. Counts(q)'
        BY <3>5, <3>6 DEF Counts
      <3> QED
        BY <1>1, <1>2, <2>3, <3>7 DEF Carries
    <2>4. \/ /\ rowCount' = [rowCount EXCEPT ![q] = ActiveAlarmsOf(q)]
             /\ rowAge' = [rowAge EXCEPT ![q] = IF ActiveAlarmsOf(q) > 0 THEN 0 ELSE Fresh]
             /\ missed'[q] = 0
          \/ missed'[q] = missed[q] + 1 /\ missed[q] < MaxMissed /\ KeepRows(q)
      BY DEF PublishZonePresence, PresenceTypeOK
    <2> QED
      BY <2>1, <2>2, <2>3, <2>4
  <1>3. ASSUME NEW d \in Flyers, heldFor[d] # NotInside, NEW k \in 1..heldFor[d]
        PROVE  k \in 1..MaxHeld /\ \E r \in ReplicaIDs : Carries(r, d, k)
    <2>1. heldFor[d] \in NotInside..MaxHeld
      BY DEF PresenceTypeOK
    <2>2. k \in 1..MaxHeld
      BY <2>1, PresenceBounds DEF NotInside
    <2> QED
      BY <1>3, <2>2 DEF HeldIsCarried
  <1>4. HeldIsCarried'
    <2>1. ASSUME NEW d \in Flyers, heldFor'[d] # NotInside
          PROVE  \A k \in 1..heldFor'[d] : \E r \in ReplicaIDs : Carries(r, d, k)'
      BY <1>1, <1>2, <1>3, <2>1
    <2> QED
      BY <2>1 DEF HeldIsCarried
  <1> QED
    BY <1>1, <1>4 DEF DeadAreDeaf

\* Nothing is held while a replica dies, and a restart hears nothing.
LEMMA RestartCarries ==
    ASSUME PresenceTypeOK, HeldIsCarried, DeadAreDeaf,
           NEW q \in ReplicaIDs, Die(q) \/ Restart(q)
    PROVE  HeldIsCarried' /\ DeadAreDeaf'
  <1> USE PresenceBounds DEF checkerVars, rowVars, trailVars
  <1>1. CASE Die(q)
    <2>1. \A d \in Flyers : heldFor'[d] = NotInside
      BY <1>1 DEF Die
    <2>2. \A d \in Flyers : seen'[q][d] > 0
      BY <1>1 DEF Die, PresenceTypeOK
    <2>3. alive' = alive \ {q} /\ \A r \in ReplicaIDs \ {q} : seen'[r] = seen[r]
      BY <1>1 DEF Die, PresenceTypeOK
    <2> QED
      BY <2>1, <2>2, <2>3 DEF HeldIsCarried, DeadAreDeaf
  <1>2. CASE Restart(q)
    <2>1. /\ UNCHANGED <<seen, within, heldFor, rowCount, rowAge>>
          /\ alive' = alive \cup {q} /\ q \notin alive
          /\ \A r \in ReplicaIDs \ {q} : ticker'[r] = ticker[r] /\ missed'[r] = missed[r]
      BY <1>2 DEF Restart, PresenceTypeOK
    <2>2. ASSUME NEW d, NEW k, NEW r \in ReplicaIDs, Carries(r, d, k) PROVE Carries(r, d, k)'
      <3>1. r \in alive /\ r # q
        BY <2>1, <2>2 DEF Carries
      <3>2. SinceStored(r)' = SinceStored(r)
        BY <2>1, <3>1 DEF SinceStored
      <3> QED
        BY <2>1, <2>2, <3>1, <3>2 DEF Carries, Counts
    <2> QED
      BY <2>1, <2>2 DEF HeldIsCarried, DeadAreDeaf
  <1> QED
    BY <1>1, <1>2

\* A second later everything carried is a second older, the rows as much as what they
\* stand for; the row that counts stays fresh because the next publication comes first.
LEMMA TickCarries ==
    ASSUME PresenceTypeOK, HeldIsCarried, DeadAreDeaf, MaxHeld <= Fresh, PresenceTick
    PROVE  HeldIsCarried' /\ DeadAreDeaf'
  <1> USE PresenceBounds
  <1>1. /\ within' = within /\ missed' = missed /\ alive' = alive /\ alive \subseteq ReplicaIDs
        /\ \A r \in alive : ticker'[r] = ticker[r] + 1 /\ ticker[r] < PublishEvery
    BY DEF PresenceTick, PresenceTypeOK
  <1>2. ASSUME NEW r \in ReplicaIDs, NEW d \in Flyers
        PROVE  seen'[r][d] \in Nat /\ seen'[r][d] > 0 /\ seen'[r][d] <= seen[r][d] + 1
    <2>1. seen[r][d] \in 0..MaxSeen /\ seen'[r][d] = Earliest(seen[r][d] + 1, MaxSeen)
      BY DEF PresenceTick, PresenceTypeOK
    <2> QED
      BY <2>1 DEF Earliest
  <1>3. ASSUME NEW r \in alive
        PROVE  /\ SinceStored(r) \in Nat /\ SinceStored(r)' = SinceStored(r) + 1
               /\ Counts(r) => Counts(r)'
    <2> PICK n : n = missed[r] * PublishEvery
      OBVIOUS
    <2>1. r \in ReplicaIDs /\ missed[r] \in 0..MaxMissed /\ ticker[r] \in Nat /\ rowAge[r] \in 0..Fresh
      BY <1>1 DEF PresenceTypeOK
    <2>2. n \in Nat
      BY <2>1
    <2>3. SinceStored(r) = n + ticker[r] /\ SinceStored(r)' = n + (ticker[r] + 1)
      BY <1>1 DEF SinceStored
    <2>4. SinceStored(r) \in Nat /\ SinceStored(r)' = SinceStored(r) + 1
      BY <2>1, <2>2, <2>3
    <2>5. SinceStored(r) < MaxHeld
      BY <1>1, <2>1, StoredLately
    <2>6. ASSUME Counts(r) PROVE Counts(r)'
      <3>1. rowAge[r] <= SinceStored(r) /\ rowCount[r] > 0
        BY <2>6 DEF Counts
      <3>2. rowAge[r] < Fresh
        BY <2>1, <2>4, <2>5, <3>1
      <3>3. rowCount'[r] = rowCount[r] /\ rowAge'[r] = Earliest(rowAge[r] + 1, Fresh)
        BY <2>1, <3>2 DEF PresenceTick, IsFresh
      <3>4. rowAge'[r] <= SinceStored(r) + 1
        BY <2>1, <2>4, <3>1, <3>3 DEF Earliest
      <3> QED
        BY <2>4, <3>1, <3>3, <3>4 DEF Counts
    <2> QED
      BY <2>4, <2>6
  <1>4. DeadAreDeaf'
    BY <1>1, <1>2 DEF DeadAreDeaf
  <1>5. \A d \in Flyers : Heard(d) => \E r \in alive : seen[r][d] = 0 /\ d \in within[r]
    BY DEF Heard, DeadAreDeaf
  <1>6. ASSUME NEW d \in Flyers, heldFor'[d] # NotInside, NEW k \in 1..heldFor'[d]
        PROVE  \E r \in ReplicaIDs : Carries(r, d, k)'
    <2>1. /\ heldFor[d] # NotInside /\ Heard(d)
          /\ heldFor'[d] = Earliest(heldFor[d] + 1, MaxHeld)
      BY <1>6 DEF PresenceTick
    <2>2. heldFor[d] \in Nat
      BY <2>1 DEF PresenceTypeOK, NotInside
    <2>3. k \in Nat /\ k >= 1 /\ k <= heldFor[d] + 1
      <3>1. Earliest(heldFor[d] + 1, MaxHeld) \in Nat /\ Earliest(heldFor[d] + 1, MaxHeld) <= heldFor[d] + 1
        BY <2>2 DEF Earliest
      <3> QED
        BY <1>6, <2>1, <2>2, <3>1
    <2>4. CASE k = 1
      <3>1. PICK r \in alive : seen[r][d] = 0 /\ d \in within[r]
        BY <1>5, <2>1
      <3>2. seen'[r][d] <= k
        BY <1>1, <1>2, <2>4, <3>1
      <3>3. k <= SinceStored(r)'
        BY <1>3, <2>4
      <3> QED
        BY <1>1, <3>1, <3>2, <3>3 DEF Carries
    <2>5. CASE k > 1
      <3>1. k - 1 \in 1..heldFor[d]
        BY <2>2, <2>3, <2>5
      <3>2. PICK r \in ReplicaIDs : Carries(r, d, k - 1)
        BY <2>1, <3>1 DEF HeldIsCarried
      <3>3. r \in alive /\ d \in within[r] /\ seen[r][d] <= k - 1
        BY <3>2 DEF Carries
      <3>4. seen[r][d] \in Nat
        BY DEF PresenceTypeOK
      <3>5. seen'[r][d] <= k
        <4>1. seen'[r][d] \in Nat /\ seen'[r][d] <= seen[r][d] + 1
          BY <1>2
        <4> QED
          BY <2>3, <3>3, <3>4, <4>1
      <3>6. k - 1 <= SinceStored(r) => k <= SinceStored(r)'
        BY <1>3, <2>3, <3>3
      <3>7. k <= SinceStored(r)' \/ Counts(r)'
        BY <1>3, <3>2, <3>3, <3>6 DEF Carries
      <3> QED
        BY <1>1, <3>3, <3>5, <3>7 DEF Carries
    <2> QED
      BY <2>3, <2>4, <2>5
  <1> QED
    BY <1>4, <1>6 DEF HeldIsCarried

\* While the replicas that run publish (publishShardState, each within its interval and
\* with up to MaxMissed publications failing in a row), a zone is alarmed as soon as a
\* drone has reported from inside for a full round of publications, over whichever
\* partition borders it flies.  The intervals of the code are the hypotheses: what can
\* fail must fit into the alarm window and into the time a row stays fresh.
THEOREM ZoneStaysAlarmed ==
    ASSUME MaxHeld <= AlarmWindow, MaxHeld <= Fresh
    PROVE  PresenceSpec => []AlarmHeld
  <1> DEFINE Carried == HeldIsCarried /\ DeadAreDeaf
  <1>1. PresenceInit => Carried
    <2> SUFFICES ASSUME PresenceInit PROVE Carried
      OBVIOUS
    <2>1. \A d \in Flyers : heldFor[d] = NotInside
      BY DEF PresenceInit
    <2>2. ReplicaIDs \ alive = {}
      BY DEF PresenceInit
    <2> QED
      BY <2>1, <2>2 DEF HeldIsCarried, DeadAreDeaf
  <1>2. PresenceTypeOK /\ Carried /\ [PresenceNext]_presenceVars => Carried'
    <2> SUFFICES ASSUME PresenceTypeOK, HeldIsCarried, DeadAreDeaf, [PresenceNext]_presenceVars
                 PROVE  HeldIsCarried' /\ DeadAreDeaf'
      OBVIOUS
    <2>1. CASE UNCHANGED presenceVars
      BY <2>1 DEF presenceVars, checkerVars, rowVars, trailVars, HeldIsCarried, DeadAreDeaf,
         Carries, Counts, SinceStored
    <2> QED
      BY <2>1, ReportCarries, StaleCarries, PublishCarries, RestartCarries, TickCarries DEF PresenceNext
  <1>3. PresenceTypeOK /\ Carried => AlarmHeld
    <2> SUFFICES ASSUME PresenceTypeOK, HeldIsCarried, NEW d \in Flyers, heldFor[d] = MaxHeld,
                        \A r \in alive : ticker[r] < PublishEvery
                 PROVE  Alarmed
      BY DEF AlarmHeld
    <2>1. MaxHeld \in 1..heldFor[d] /\ heldFor[d] # NotInside
      <3>1. 0 * PublishEvery + PublishEvery <= MaxHeld
        BY PresenceBounds
      <3> QED
        BY <3>1, PresenceBounds DEF NotInside
    <2>2. PICK r \in ReplicaIDs : Carries(r, d, MaxHeld)
      BY <2>1 DEF HeldIsCarried
    <2>3. SinceStored(r) \in Nat /\ SinceStored(r) < MaxHeld
      BY <2>2, StoredLately DEF Carries
    <2>4. Counts(r)
      BY <2>2, <2>3, PresenceBounds DEF Carries
    <2>5. rowAge[r] \in Nat
      BY DEF PresenceTypeOK
    <2>6. rowAge[r] < Fresh
      BY <2>3, <2>4, <2>5, PresenceBounds DEF Counts
    <2> QED
      BY <2>4, <2>6 DEF Alarmed, IsFresh, Counts
  <1> QED
    BY <1>1, <1>2, <1>3, PresenceTyped, PTL DEF PresenceSpec

-----------------------------------------------------------------------------
(* The registries.                                                         *)

\* How long ago the goroutine of c last read the table for a load that it stored: its
\* tick, the rounds that failed since, and the round in progress.
LastStoredRead(c) ==
    failures[c] * Every[c] + sinceTick[c] + (IF load[c] = NoLoad THEN 0 ELSE Every[c])

\* The changes a snapshot of c with n of them misses are not older than age.
MissingAtMost(c, n, age) ==
    \A i \in (n + 1)..Len(commits[TableOf[c]]) : registryClock - commits[TableOf[c]][i] <= age

\* What a loader may be doing; a goroutine loads its own cache only.
LoadStates(l) ==
    {NoLoad}
    \cup (IF l \in Caches THEN {} ELSE [phase : {"refresh"}, of : Caches])
    \cup [phase : {"store"}, of : IF l \in Caches THEN {l} ELSE Caches,
          seen : Nat, since : 0..QueryTimeout]

RegistryShapes ==
    /\ commits \in [Tables -> Seq(Nat)] /\ rows \in [Tables -> Nat]
    /\ snapshot \in [Caches -> Nat]
    /\ DOMAIN load = Loaders /\ \A l \in Loaders : load[l] \in LoadStates(l)
    /\ sinceTick \in [Caches -> Nat] /\ failures \in [Caches -> Nat]
    /\ errors \in 0..MaxErrors /\ registryClock \in Nat
    /\ \A t \in Tables : rows[t] <= Len(commits[t]) /\ Len(commits[t]) <= MaxChanges
    /\ \A c \in Caches : /\ sinceTick[c] <= Every[c]
                         /\ failures[c] <= errors
                         /\ snapshot[c] <= Len(commits[TableOf[c]])
                         /\ load[c] # NoLoad => load[c].since = sinceTick[c]

\* A load that has read the table misses only what was committed since, and the snapshot
\* of a cache what was committed since the goroutine's last stored read, or one query
\* timeout earlier when a handler stored late what it had read before.
RegistryLag ==
    /\ \A l \in Loaders : load[l].phase = "store" =>
          /\ load[l].seen <= Len(commits[TableOf[load[l].of]])
          /\ MissingAtMost(load[l].of, load[l].seen, load[l].since)
    /\ \A c \in Caches : MissingAtMost(c, snapshot[c], LastStoredRead(c) + QueryTimeout)

RegistryInv == RegistryShapes /\ RegistryLag

\* What the code's intervals are, and the tables of the caches.
LEMMA RegistryBounds ==
    /\ QueryTimeout \in Nat /\ MaxChanges \in Nat /\ MaxErrors \in Nat
    /\ \A c \in Caches : /\ Every[c] \in Nat /\ Every[c] > QueryTimeout
                         /\ TableOf[c] \in Tables /\ c \in Loaders /\ c \notin Handlers
    /\ \A h \in Handlers : h \in Loaders /\ h \notin Caches
    /\ \A t \in Tables : RefreshedAfter(t) \in AllCaches
  BY RegistriesAssumption DEF AllCaches, Tables, TableOf, ListAlertZoneFeatures, ListCustomZones,
      ListFriendlyCodes, Loaders, RefreshedAfter

\* A failed round adds an interval.
LEMMA RoundsOfFailures ==
    ASSUME NEW n \in Nat, NEW e \in Nat
    PROVE  n * e \in Nat /\ (n + 1) * e = n * e + e /\ e * (1 + n) = n * e + e
  OBVIOUS

\* Loaders that do nothing miss nothing, and nothing is committed.
LEMMA RegistryInitInv == RegistriesInit => RegistryInv
  <1> SUFFICES ASSUME RegistriesInit PROVE RegistryInv
    OBVIOUS
  <1> USE RegistryBounds DEF RegistriesInit
  <1>1. \A t \in Tables : commits[t] = <<>> /\ Len(commits[t]) = 0 /\ commits[t] \in Seq(Nat)
    OBVIOUS
  <1>2. \A c \in Caches : Len(commits[TableOf[c]]) = 0
    BY <1>1
  <1>3. RegistryShapes
    BY <1>1, <1>2 DEF RegistryShapes, LoadStates
  <1>4. \A l \in Loaders : load[l].phase # "store"
    BY DEF NoLoad
  <1>5. \A c \in Caches : \A age : MissingAtMost(c, snapshot[c], age)
    BY <1>2 DEF MissingAtMost
  <1> QED
    BY <1>3, <1>4, <1>5 DEF RegistryInv, RegistryLag

\* What a loader is doing, by its phase.
LEMMA LoadPhases ==
    ASSUME RegistryShapes, NEW l \in Loaders
    PROVE  /\ load[l] = NoLoad \/ load[l].phase \in {"refresh", "store"}
           /\ load[l] # NoLoad => load[l].of \in Caches
           /\ load[l].phase = "store" =>
                 /\ load[l] \in [phase : {"store"}, of : Caches, seen : Nat, since : 0..QueryTimeout]
                 /\ l \in Caches => load[l].of = l
           /\ l \in Caches /\ load[l] # NoLoad => load[l].phase = "store"
           /\ load[l].phase = "refresh" => l \notin Caches
  <1>1. load[l] \in LoadStates(l)
    BY DEF RegistryShapes
  <1>2. CASE load[l] = NoLoad
    BY <1>2 DEF NoLoad
  <1>3. CASE l \notin Caches /\ load[l] \in [phase : {"refresh"}, of : Caches]
    BY <1>3 DEF NoLoad
  <1>4. CASE load[l] \in [phase : {"store"}, of : IF l \in Caches THEN {l} ELSE Caches,
                          seen : Nat, since : 0..QueryTimeout]
    <2>1. CASE l \in Caches
      BY <1>4, <2>1 DEF NoLoad
    <2>2. CASE l \notin Caches
      BY <1>4, <2>2 DEF NoLoad
    <2> QED
      BY <2>1, <2>2
  <1> QED
    BY <1>1, <1>2, <1>3, <1>4 DEF LoadStates

LEMMA LastStoredReadIsNat ==
    ASSUME RegistryShapes, NEW c \in Caches
    PROVE  LastStoredRead(c) \in Nat
  <1>1. failures[c] \in Nat /\ sinceTick[c] \in Nat /\ Every[c] \in Nat
    BY RegistryBounds DEF RegistryShapes
  <1>2. PICK n : n = failures[c] * Every[c]
    OBVIOUS
  <1>3. n \in Nat
    BY <1>1, <1>2
  <1> QED
    BY <1>1, <1>2, <1>3 DEF LastStoredRead

\* A change is committed now: whoever misses it misses it since this instant only.
LEMMA CommitKept ==
    ASSUME RegistryInv, NEW t \in Tables, NEW more \in {-1, 0, 1}, rows[t] + more >= 0, Commit(t, more),
           \A c \in Caches : load'[c] = load[c],
           \A l \in Loaders : load'[l] = load[l] \/ load'[l].phase \in {"idle", "refresh"},
           DOMAIN load' = Loaders, \A l \in Loaders : load'[l] \in LoadStates(l)
    PROVE  RegistryInv'
  <1> USE RegistryBounds DEF RegistryInv
  <1>1. /\ commits' = [commits EXCEPT ![t] = Append(@, registryClock)]
        /\ rows' = [rows EXCEPT ![t] = @ + more]
        /\ UNCHANGED <<snapshot, sinceTick, failures, errors, registryClock>>
    BY DEF Commit
  <1>2. commits[t] \in Seq(Nat) /\ registryClock \in Nat
    BY DEF RegistryShapes
  <1>3. Len(commits[t]) < MaxChanges
    <2>1. PICK u \in Tables : u # t
      BY DEF Tables
    <2>2. Len(commits[t]) + Len(commits[u]) < MaxChanges
      BY <2>1 DEF Commit
    <2>3. commits[u] \in Seq(Nat)
      BY <2>1 DEF RegistryShapes
    <2>4. Len(commits[u]) \in Nat /\ Len(commits[t]) \in Nat
      BY <1>2, <2>3
    <2>5. \A x, y, z \in Nat : x + y < z => x < z
      OBVIOUS
    <2> QED
      BY <2>2, <2>4, <2>5
  <1>4. /\ commits'[t] = Append(commits[t], registryClock) /\ commits'[t] \in Seq(Nat)
        /\ Len(commits'[t]) = Len(commits[t]) + 1 /\ Len(commits[t]) \in Nat
        /\ \A u \in Tables \ {t} : commits'[u] = commits[u]
    BY <1>1, <1>2 DEF RegistryShapes
  <1>5. ASSUME NEW u \in Tables
        PROVE  Len(commits[u]) \in Nat /\ Len(commits'[u]) \in Nat /\ Len(commits[u]) <= Len(commits'[u])
    <2>1. commits[u] \in Seq(Nat)
      BY DEF RegistryShapes
    <2>2. Len(commits[u]) \in Nat
      BY <2>1
    <2> QED
      BY <1>4, <2>2
  <1>6. RegistryShapes'
    <2>1. commits' \in [Tables -> Seq(Nat)]
      BY <1>1, <1>4 DEF RegistryShapes
    <2>2. rows' \in [Tables -> Nat] /\ \A u \in Tables \ {t} : rows'[u] = rows[u]
      BY <1>1 DEF RegistryShapes
    <2>3. rows'[t] = rows[t] + more /\ rows[t] \in Nat /\ rows[t] <= Len(commits[t])
      BY <1>1 DEF RegistryShapes
    <2>4. rows'[t] <= Len(commits'[t]) /\ Len(commits'[t]) <= MaxChanges
      BY <1>3, <1>4, <2>3
    <2>5. \A u \in Tables : rows'[u] <= Len(commits'[u]) /\ Len(commits'[u]) <= MaxChanges
      BY <1>4, <2>2, <2>4 DEF RegistryShapes
    <2>6. ASSUME NEW c \in Caches PROVE snapshot'[c] <= Len(commits'[TableOf[c]])
      <3>1. snapshot'[c] \in Nat /\ snapshot'[c] <= Len(commits[TableOf[c]])
        BY <1>1 DEF RegistryShapes
      <3>2. TableOf[c] \in Tables
        OBVIOUS
      <3>3. Len(commits[TableOf[c]]) \in Nat /\ Len(commits'[TableOf[c]]) \in Nat
            /\ Len(commits[TableOf[c]]) <= Len(commits'[TableOf[c]])
        BY <1>5, <3>2
      <3> QED
        BY <3>1, <3>3
    <2>7. \A c \in Caches : /\ load'[c] # NoLoad => load'[c].since = sinceTick'[c]
                            /\ sinceTick'[c] <= Every[c] /\ failures'[c] <= errors'
      BY <1>1 DEF RegistryShapes
    <2>8. \A l \in Loaders : load'[l] \in LoadStates(l)'
      BY DEF LoadStates
    <2> QED
      BY <1>1, <2>1, <2>2, <2>5, <2>6, <2>7, <2>8 DEF RegistryShapes
  <1>7. ASSUME NEW c \in Caches, NEW n \in Nat, NEW age \in Nat, MissingAtMost(c, n, age)
        PROVE  MissingAtMost(c, n, age)'
    <2> SUFFICES ASSUME NEW i \in (n + 1)..Len(commits'[TableOf[c]])
                 PROVE  registryClock' - commits'[TableOf[c]][i] <= age
      BY DEF MissingAtMost
    <2>1. CASE TableOf[c] # t
      BY <1>1, <1>4, <1>7, <2>1 DEF MissingAtMost
    <2>2. CASE TableOf[c] = t /\ i = Len(commits[t]) + 1
      <3>1. commits'[t][i] = registryClock
        BY <1>2, <1>4, <2>2
      <3> QED
        BY <1>1, <1>2, <2>2, <3>1
    <2>3. CASE TableOf[c] = t /\ i <= Len(commits[t])
      <3>1. i \in (n + 1)..Len(commits[t]) /\ commits'[t][i] = commits[t][i]
        BY <1>2, <1>4, <2>3
      <3> QED
        BY <1>1, <1>7, <2>3, <3>1 DEF MissingAtMost
    <2>4. TableOf[c] = t => i = Len(commits[t]) + 1 \/ i <= Len(commits[t])
      BY <1>4
    <2> QED
      BY <2>1, <2>2, <2>3, <2>4
  <1>8. ASSUME NEW l \in Loaders, load'[l].phase = "store"
        PROVE  /\ load'[l].seen <= Len(commits'[TableOf[load'[l].of]])
               /\ \A i \in (load'[l].seen + 1)..Len(commits'[TableOf[load'[l].of]]) :
                    registryClock' - commits'[TableOf[load'[l].of]][i] <= load'[l].since
    <2>1. load'[l] = load[l]
      BY <1>8
    <2> PICK c : c = load[l].of
      OBVIOUS
    <2> PICK n : n = load[l].seen
      OBVIOUS
    <2> PICK age : age = load[l].since
      OBVIOUS
    <2>2. c \in Caches /\ n \in Nat /\ age \in Nat
      BY <1>8, <2>1, LoadPhases
    <2>3. n <= Len(commits[TableOf[c]]) /\ MissingAtMost(c, n, age)
      BY <1>8, <2>1 DEF RegistryLag
    <2>4. MissingAtMost(c, n, age)'
      BY <1>7, <2>2, <2>3
    <2>5. n <= Len(commits'[TableOf[c]])
      <3>1. TableOf[c] \in Tables
        BY <2>2
      <3>2. Len(commits[TableOf[c]]) \in Nat /\ Len(commits'[TableOf[c]]) \in Nat
            /\ Len(commits[TableOf[c]]) <= Len(commits'[TableOf[c]])
        BY <1>5, <3>1
      <3> QED
        BY <2>2, <2>3, <3>2
    <2> QED
      BY <2>1, <2>4, <2>5 DEF MissingAtMost
  <1>9. ASSUME NEW c \in Caches
        PROVE  MissingAtMost(c, snapshot[c], LastStoredRead(c) + QueryTimeout)'
    <2>1. /\ MissingAtMost(c, snapshot[c], LastStoredRead(c) + QueryTimeout)
          /\ snapshot[c] \in Nat
      BY DEF RegistryLag, RegistryShapes
    <2>2. LastStoredRead(c) + QueryTimeout \in Nat
      <3>1. LastStoredRead(c) \in Nat
        BY LastStoredReadIsNat
      <3> QED
        BY <3>1
    <2>3. PICK n \in Nat : n = snapshot[c]
      BY <2>1
    <2>4. PICK age \in Nat : age = LastStoredRead(c) + QueryTimeout
      BY <2>2
    <2>5. MissingAtMost(c, n, age)
      BY <2>1, <2>3, <2>4
    <2>6. MissingAtMost(c, n, age)'
      BY <1>7, <2>5
    <2>7. snapshot'[c] = n /\ LastStoredRead(c)' + QueryTimeout = age
      BY <1>1, <2>3, <2>4 DEF LastStoredRead
    <2> QED
      BY <2>6, <2>7 DEF MissingAtMost
  <1> QED
    BY <1>6, <1>8, <1>9 DEF RegistryLag, MissingAtMost

\* The handlers that change a table, here and elsewhere.
LEMMA ChangesKept ==
    ASSUME RegistryInv,
           \/ \E h \in Handlers : \/ CreateCustomZone(h) \/ DeleteCustomZone(h)
                                  \/ AddFriendlySquawk(h) \/ DeleteFriendlySquawk(h)
           \/ \E t \in Tables : ChangedElsewhere(t)
    PROVE  RegistryInv'
  <1>1. /\ \A t \in Tables : rows[t] \in Nat
        /\ DOMAIN load = Loaders /\ \A l \in Loaders : load[l] \in LoadStates(l)
    BY DEF RegistryInv, RegistryShapes
  <1>2. ASSUME NEW h \in Handlers, NEW t \in Tables, NEW more \in {-1, 0, 1}, rows[t] + more >= 0,
               Commit(t, more), RefreshNext(h, t)
        PROVE  RegistryInv'
    <2>1. h \in Loaders /\ h \notin Caches /\ RefreshedAfter(t) \in AllCaches
      BY RegistryBounds
    <2> PICK next : next = IF RefreshedAfter(t) \in Caches
                           THEN [phase |-> "refresh", of |-> RefreshedAfter(t)] ELSE NoLoad
      OBVIOUS
    <2>2. load' = [load EXCEPT ![h] = next]
      BY <1>2 DEF RefreshNext
    <2>3. next.phase \in {"idle", "refresh"} /\ next \in LoadStates(h)
      BY <2>1 DEF NoLoad, LoadStates
    <2>4. /\ load'[h] = next /\ DOMAIN load' = Loaders
          /\ \A l \in Loaders \ {h} : load'[l] = load[l]
      BY <1>1, <2>1, <2>2
    <2>5. /\ \A c \in Caches : load'[c] = load[c]
          /\ \A l \in Loaders : load'[l] = load[l] \/ load'[l].phase \in {"idle", "refresh"}
          /\ \A l \in Loaders : load'[l] \in LoadStates(l)
      BY <1>1, <2>1, <2>3, <2>4 DEF Loaders
    <2> QED
      BY <1>2, <2>4, <2>5, CommitKept
  <1>3. ASSUME NEW h \in Handlers, CreateCustomZone(h) PROVE RegistryInv'
    <2>1. "custom_zones" \in Tables /\ rows["custom_zones"] + 1 >= 0
      BY <1>1 DEF Tables
    <2> QED
      BY <1>2, <1>3, <2>1 DEF CreateCustomZone
  <1>4. ASSUME NEW h \in Handlers, DeleteCustomZone(h) PROVE RegistryInv'
    <2>1. "custom_zones" \in Tables /\ rows["custom_zones"] \in Nat /\ rows["custom_zones"] > 0
      BY <1>1, <1>4 DEF Tables, DeleteCustomZone
    <2>2. rows["custom_zones"] + (-1) >= 0
      BY <2>1
    <2> QED
      BY <1>2, <1>4, <2>1, <2>2 DEF DeleteCustomZone
  <1>5. ASSUME NEW h \in Handlers, AddFriendlySquawk(h) PROVE RegistryInv'
    <2>1. "friendly_squawks" \in Tables
      BY DEF Tables
    <2>2. PICK more \in {0, 1} : Commit("friendly_squawks", more)
      BY <1>5 DEF AddFriendlySquawk
    <2>3. rows["friendly_squawks"] + more >= 0
      BY <1>1, <2>1
    <2> QED
      BY <1>2, <1>5, <2>1, <2>2, <2>3 DEF AddFriendlySquawk
  <1>6. ASSUME NEW h \in Handlers, DeleteFriendlySquawk(h) PROVE RegistryInv'
    <2>1. "friendly_squawks" \in Tables /\ rows["friendly_squawks"] \in Nat
          /\ rows["friendly_squawks"] > 0
      BY <1>1, <1>6 DEF Tables, DeleteFriendlySquawk
    <2>2. rows["friendly_squawks"] + (-1) >= 0
      BY <2>1
    <2> QED
      BY <1>2, <1>6, <2>1, <2>2 DEF DeleteFriendlySquawk
  <1>7. ASSUME NEW t \in Tables, ChangedElsewhere(t) PROVE RegistryInv'
    <2>1. PICK more \in {-1, 1} : rows[t] + more >= 0 /\ Commit(t, more)
      BY <1>7 DEF ChangedElsewhere
    <2>2. load' = load
      BY <1>7 DEF ChangedElsewhere
    <2> QED
      BY <1>1, <2>1, <2>2, CommitKept
  <1> QED
    BY <1>3, <1>4, <1>5, <1>6, <1>7

\* While the tables and the clock stand still, what is missing stays as it is.
LEMMA MissingKept ==
    ASSUME UNCHANGED <<tableVars, registryClock>>, NEW c, NEW n, NEW age
    PROVE  MissingAtMost(c, n, age)' <=> MissingAtMost(c, n, age)
  BY DEF MissingAtMost, tableVars

\* A load that has just read the table misses nothing.
LEMMA ReadingMissesNothing ==
    ASSUME RegistryShapes, NEW c \in Caches
    PROVE  /\ Reading(c) \in [phase : {"store"}, of : {c}, seen : Nat, since : 0..QueryTimeout]
           /\ Reading(c).of = c /\ Reading(c).since = 0 /\ Reading(c).phase = "store"
           /\ Reading(c).seen = Len(commits[TableOf[c]])
           /\ MissingAtMost(c, Reading(c).seen, 0)
  <1>1. commits[TableOf[c]] \in Seq(Nat)
    BY RegistryBounds DEF RegistryShapes
  <1>2. Len(commits[TableOf[c]]) \in Nat
    BY <1>1
  <1>3. 0 \in 0..QueryTimeout
    BY RegistryBounds
  <1> QED
    BY <1>2, <1>3 DEF Reading, MissingAtMost

\* One loader goes on with a load that misses what was committed since, or with none.
LEMMA LoadReplaced ==
    ASSUME RegistryInv, UNCHANGED <<tableVars, registryClock>>,
           NEW l \in Loaders, NEW next \in LoadStates(l), load' = [load EXCEPT ![l] = next],
           next.phase = "store" => /\ next.seen <= Len(commits[TableOf[next.of]])
                                   /\ MissingAtMost(next.of, next.seen, next.since)
    PROVE  /\ DOMAIN load' = Loaders /\ \A k \in Loaders : load'[k] \in LoadStates(k)'
           /\ load'[l] = next /\ \A k \in Loaders \ {l} : load'[k] = load[k]
           /\ \A k \in Loaders : load'[k].phase = "store" =>
                 /\ load'[k].seen <= Len(commits'[TableOf[load'[k].of]])
                 /\ MissingAtMost(load[k].of, load[k].seen, load[k].since)'
  <1>1. /\ DOMAIN load = Loaders /\ \A k \in Loaders : load[k] \in LoadStates(k)
        /\ \A k \in Loaders : load[k].phase = "store" =>
              /\ load[k].seen <= Len(commits[TableOf[load[k].of]])
              /\ MissingAtMost(load[k].of, load[k].seen, load[k].since)
    BY DEF RegistryInv, RegistryShapes, RegistryLag
  <1>2. DOMAIN load' = Loaders /\ load'[l] = next /\ \A k \in Loaders \ {l} : load'[k] = load[k]
    BY <1>1
  <1>3. \A k \in Loaders : load'[k] \in LoadStates(k)'
    BY <1>1, <1>2 DEF LoadStates
  <1>4. ASSUME NEW k \in Loaders, load'[k].phase = "store"
        PROVE  /\ load'[k].seen <= Len(commits'[TableOf[load'[k].of]])
               /\ MissingAtMost(load[k].of, load[k].seen, load[k].since)'
    <2> PICK s : s = load'[k]
      OBVIOUS
    <2>1. s.phase = "store" => s.seen <= Len(commits[TableOf[s.of]]) /\ MissingAtMost(s.of, s.seen, s.since)
      BY <1>1, <1>2
    <2> QED
      BY <1>4, <2>1 DEF MissingAtMost, tableVars
  <1> QED
    BY <1>2, <1>3, <1>4

\* A handler reads the table.
LEMMA HandlerReadsKept ==
    ASSUME RegistryInv, NEW h \in Handlers, HandlerReads(h)
    PROVE  RegistryInv'
  <1>1. h \in Loaders /\ h \notin Caches
    BY RegistryBounds
  <1> PICK c : c = load[h].of
    OBVIOUS
  <1>2. c \in Caches
    BY <1>1, LoadPhases DEF HandlerReads, RegistryInv, NoLoad
  <1> PICK next : next = Reading(c)
    OBVIOUS
  <1>3. /\ next \in LoadStates(h) /\ next.of = c /\ next.seen = Len(commits[TableOf[c]])
        /\ MissingAtMost(c, next.seen, next.since) /\ next.seen \in Nat
    BY <1>1, <1>2, ReadingMissesNothing DEF RegistryInv, LoadStates
  <1>4. /\ load' = [load EXCEPT ![h] = next]
        /\ UNCHANGED <<tableVars, snapshot, sinceTick, failures, errors, registryClock>>
    BY DEF HandlerReads
  <1>5. next.seen <= Len(commits[TableOf[next.of]])
    BY <1>3
  <1>6. /\ DOMAIN load' = Loaders /\ \A k \in Loaders : load'[k] \in LoadStates(k)'
        /\ \A k \in Loaders \ {h} : load'[k] = load[k]
        /\ \A k \in Loaders : load'[k].phase = "store" =>
                 /\ load'[k].seen <= Len(commits'[TableOf[load'[k].of]])
                 /\ MissingAtMost(load[k].of, load[k].seen, load[k].since)'
    BY <1>1, <1>3, <1>4, <1>5, LoadReplaced
  <1>7. \A e \in Caches : load'[e] = load[e]
    BY <1>1, <1>6, RegistryBounds
  <1>8. RegistryShapes'
    BY <1>4, <1>6, <1>7 DEF RegistryInv, RegistryShapes, tableVars
  <1>9. \A e \in Caches : MissingAtMost(e, snapshot[e], LastStoredRead(e) + QueryTimeout)'
    BY <1>4, <1>7 DEF RegistryInv, RegistryLag, LastStoredRead, MissingAtMost, tableVars
  <1> QED
    BY <1>6, <1>8, <1>9 DEF RegistryInv, RegistryLag

\* A load fails; for a goroutine the round counts as a failure.
LEMMA FailsKept ==
    ASSUME RegistryInv,
           \/ \E h \in Handlers : HandlerFails(h)
           \/ \E c \in Caches : RunFails(c)
    PROVE  RegistryInv'
  <1>1. PICK l \in Loaders :
          /\ load[l] # NoLoad /\ errors < MaxErrors /\ errors' = errors + 1
          /\ load' = [load EXCEPT ![l] = NoLoad]
          /\ failures' = IF l \in Caches THEN [failures EXCEPT ![l] = @ + 1] ELSE failures
    BY RegistryBounds DEF HandlerFails, RunFails
  <1>2. UNCHANGED <<tableVars, snapshot, sinceTick, registryClock>>
    BY DEF HandlerFails, RunFails
  <1>3. NoLoad \in LoadStates(l) /\ NoLoad.phase # "store"
    BY DEF NoLoad, LoadStates
  <1>4. /\ DOMAIN load' = Loaders /\ \A k \in Loaders : load'[k] \in LoadStates(k)'
        /\ load'[l] = NoLoad /\ \A k \in Loaders \ {l} : load'[k] = load[k]
        /\ \A k \in Loaders : load'[k].phase = "store" =>
                 /\ load'[k].seen <= Len(commits'[TableOf[load'[k].of]])
                 /\ MissingAtMost(load[k].of, load[k].seen, load[k].since)'
    BY <1>1, <1>2, <1>3, LoadReplaced
  <1>5. /\ errors \in Nat /\ MaxErrors \in Nat /\ failures \in [Caches -> Nat] /\ errors <= MaxErrors
        /\ \A c \in Caches : failures[c] <= errors /\ sinceTick[c] \in Nat
    BY RegistryBounds DEF RegistryInv, RegistryShapes
  <1>6. /\ errors' \in 0..MaxErrors /\ failures' \in [Caches -> Nat]
        /\ \A c \in Caches : failures'[c] <= errors'
        /\ \A c \in Caches \ {l} : failures'[c] = failures[c]
    BY <1>1, <1>5
  <1>7. \A c \in Caches : load'[c] # NoLoad => load'[c] = load[c]
    BY <1>4, RegistryBounds
  <1>8. RegistryShapes'
    BY <1>2, <1>4, <1>6, <1>7 DEF RegistryInv, RegistryShapes, tableVars
  <1>9. ASSUME NEW c \in Caches PROVE LastStoredRead(c)' = LastStoredRead(c)
    <2>1. CASE c # l
      <3>1. load'[c] = load[c]
        BY <1>4, <2>1, RegistryBounds
      <3> QED
        BY <1>2, <1>6, <2>1, <3>1 DEF LastStoredRead
    <2>2. CASE c = l
      <3>1. failures'[c] = failures[c] + 1 /\ failures[c] \in Nat /\ Every[c] \in Nat
        BY <1>1, <1>5, <2>2, RegistryBounds
      <3> PICK n : n = failures[c] * Every[c]
        OBVIOUS
      <3>2. n \in Nat /\ (failures[c] + 1) * Every[c] = n + Every[c]
        BY <3>1, RoundsOfFailures
      <3>3. LastStoredRead(c) = n + sinceTick[c] + Every[c]
        BY <1>1, <2>2 DEF LastStoredRead
      <3>4. LastStoredRead(c)' = n + Every[c] + sinceTick[c] + 0
        BY <1>2, <1>4, <2>2, <3>1, <3>2 DEF LastStoredRead
      <3> QED
        BY <1>5, <3>1, <3>2, <3>3, <3>4
    <2> QED
      BY <2>1, <2>2
  <1>10. \A c \in Caches : MissingAtMost(c, snapshot[c], LastStoredRead(c) + QueryTimeout)'
    BY <1>2, <1>9 DEF RegistryInv, RegistryLag, MissingAtMost, tableVars
  <1> QED
    BY <1>4, <1>8, <1>10 DEF RegistryInv, RegistryLag

\* The ticker of a goroutine fires: the interval that is over moves from its age into the
\* round in progress.
LEMMA RunTickKept ==
    ASSUME RegistryInv, NEW c \in Caches, RunTick(c)
    PROVE  RegistryInv'
  <1>1. c \in Loaders
    BY RegistryBounds
  <1> PICK next : next = Reading(c)
    OBVIOUS
  <1>2. /\ next \in LoadStates(c) /\ next.of = c /\ next.seen = Len(commits[TableOf[c]])
        /\ MissingAtMost(c, next.seen, next.since) /\ next.seen \in Nat /\ next.since = 0
    BY <1>1, ReadingMissesNothing DEF RegistryInv, LoadStates
  <1>3. /\ load' = [load EXCEPT ![c] = next] /\ sinceTick' = [sinceTick EXCEPT ![c] = 0]
        /\ UNCHANGED <<tableVars, snapshot, failures, errors, registryClock>>
        /\ sinceTick[c] = Every[c] /\ load[c] = NoLoad
    BY DEF RunTick
  <1>4. next.seen <= Len(commits[TableOf[next.of]])
    BY <1>2
  <1>5. /\ DOMAIN load' = Loaders /\ \A k \in Loaders : load'[k] \in LoadStates(k)'
        /\ load'[c] = next /\ \A k \in Loaders \ {c} : load'[k] = load[k]
        /\ \A k \in Loaders : load'[k].phase = "store" =>
                 /\ load'[k].seen <= Len(commits'[TableOf[load'[k].of]])
                 /\ MissingAtMost(load[k].of, load[k].seen, load[k].since)'
    BY <1>1, <1>2, <1>3, <1>4, LoadReplaced
  <1>6. /\ sinceTick' \in [Caches -> Nat] /\ sinceTick'[c] = 0
        /\ \A e \in Caches \ {c} : sinceTick'[e] = sinceTick[e] /\ load'[e] = load[e]
    BY <1>3, <1>5, RegistryBounds DEF RegistryInv, RegistryShapes
  <1>7. \A e \in Caches : /\ sinceTick'[e] <= Every[e]
                          /\ load'[e] # NoLoad => load'[e].since = sinceTick'[e]
    <2>1. Every[c] \in Nat /\ load'[c].since = 0
      BY <1>2, <1>5, RegistryBounds
    <2>2. \A e \in Caches : /\ sinceTick[e] <= Every[e]
                            /\ load[e] # NoLoad => load[e].since = sinceTick[e]
      BY DEF RegistryInv, RegistryShapes
    <2>3. sinceTick'[c] <= Every[c]
      BY <1>6, <2>1
    <2> QED
      BY <1>6, <2>1, <2>2, <2>3
  <1>8. RegistryShapes'
    BY <1>3, <1>5, <1>6, <1>7 DEF RegistryInv, RegistryShapes, tableVars
  <1>9. ASSUME NEW e \in Caches PROVE LastStoredRead(e)' = LastStoredRead(e)
    <2>1. CASE e # c
      BY <1>3, <1>6, <2>1 DEF LastStoredRead
    <2>2. CASE e = c
      <3> PICK n : n = failures[c] * Every[c]
        OBVIOUS
      <3>1. n \in Nat /\ Every[c] \in Nat
        BY RoundsOfFailures, RegistryBounds DEF RegistryInv, RegistryShapes
      <3>2. next # NoLoad
        BY ReadingMissesNothing DEF RegistryInv, NoLoad
      <3>3. LastStoredRead(c) = n + Every[c] + 0 /\ LastStoredRead(c)' = n + 0 + Every[c]
        BY <1>3, <1>5, <1>6, <3>2 DEF LastStoredRead
      <3> QED
        BY <2>2, <3>1, <3>3
    <2> QED
      BY <2>1, <2>2
  <1>10. \A e \in Caches : MissingAtMost(e, snapshot[e], LastStoredRead(e) + QueryTimeout)'
    BY <1>3, <1>9 DEF RegistryInv, RegistryLag, MissingAtMost, tableVars
  <1> QED
    BY <1>5, <1>8, <1>10 DEF RegistryInv, RegistryLag

\* A snapshot is replaced by one that was read a query timeout ago at most, by a goroutine
\* or by a handler.
LEMMA StoreKept ==
    ASSUME RegistryInv, NEW l \in Loaders, Store(l)
    PROVE  RegistryInv'
  <1> PICK s : s = load[l]
    OBVIOUS
  <1>1. /\ s.of \in Caches /\ s.seen \in Nat /\ s.since \in 0..QueryTimeout
        /\ l \in Caches => s.of = l /\ s.since = sinceTick[l]
        /\ s.seen <= Len(commits[TableOf[s.of]]) /\ MissingAtMost(s.of, s.seen, s.since)
    <2>1. s.phase = "store" /\ load[l] # NoLoad
      BY DEF Store, NoLoad
    <2> QED
      BY <2>1, LoadPhases DEF RegistryInv, RegistryLag, RegistryShapes
  <1>2. /\ load' = [load EXCEPT ![l] = NoLoad] /\ snapshot' = [snapshot EXCEPT ![s.of] = s.seen]
        /\ failures' = IF l \in Caches THEN [failures EXCEPT ![l] = 0] ELSE failures
        /\ UNCHANGED <<tableVars, sinceTick, errors, registryClock>>
    BY DEF Store, Stored
  <1>3. NoLoad \in LoadStates(l) /\ NoLoad.phase # "store"
    BY DEF NoLoad, LoadStates
  <1>4. /\ DOMAIN load' = Loaders /\ \A k \in Loaders : load'[k] \in LoadStates(k)'
        /\ load'[l] = NoLoad /\ \A k \in Loaders \ {l} : load'[k] = load[k]
        /\ \A k \in Loaders : load'[k].phase = "store" =>
                 /\ load'[k].seen <= Len(commits'[TableOf[load'[k].of]])
                 /\ MissingAtMost(load[k].of, load[k].seen, load[k].since)'
    BY <1>2, <1>3, LoadReplaced
  <1>5. /\ failures \in [Caches -> Nat] /\ snapshot \in [Caches -> Nat] /\ sinceTick \in [Caches -> Nat]
        /\ errors \in Nat /\ \A c \in Caches : failures[c] <= errors
    BY RegistryBounds DEF RegistryInv, RegistryShapes
  <1>6. /\ failures' \in [Caches -> Nat] /\ \A c \in Caches : failures'[c] <= errors'
        /\ \A c \in Caches \ {l} : failures'[c] = failures[c] /\ load'[c] = load[c]
        /\ l \in Caches => failures'[l] = 0
    BY <1>2, <1>4, <1>5, RegistryBounds
  <1>7. /\ snapshot' \in [Caches -> Nat] /\ snapshot'[s.of] = s.seen
        /\ \A c \in Caches \ {s.of} : snapshot'[c] = snapshot[c]
    BY <1>1, <1>2, <1>5
  <1>8. \A c \in Caches : /\ snapshot'[c] <= Len(commits'[TableOf[c]])
                          /\ load'[c] # NoLoad => load'[c].since = sinceTick'[c]
    BY <1>1, <1>2, <1>4, <1>7, RegistryBounds DEF RegistryInv, RegistryShapes, tableVars
  <1>9. RegistryShapes'
    BY <1>2, <1>4, <1>6, <1>7, <1>8 DEF RegistryInv, RegistryShapes, tableVars
  <1>10. ASSUME NEW c \in Caches
         PROVE  MissingAtMost(c, snapshot[c], LastStoredRead(c) + QueryTimeout)'
    <2> PICK age : age = LastStoredRead(c)'
      OBVIOUS
    <2>1. age \in Nat
      <3>1. failures'[c] \in Nat /\ Every[c] \in Nat /\ sinceTick'[c] \in Nat
        BY <1>2, <1>5, <1>6, RegistryBounds
      <3> PICK n : n = failures'[c] * Every[c]
        OBVIOUS
      <3>2. n \in Nat
        BY <3>1, RoundsOfFailures
      <3> QED
        BY <3>1, <3>2, RegistryBounds DEF LastStoredRead
    <2>2. CASE c # s.of
      <3>1. c # l
        BY <1>1, <2>2
      <3>2. LastStoredRead(c) = age
        BY <1>2, <1>6, <3>1 DEF LastStoredRead
      <3> QED
        BY <1>2, <1>7, <2>2, <3>2 DEF RegistryInv, RegistryLag, MissingAtMost, tableVars
    <2>3. CASE c = s.of
      <3>1. s.since <= age + QueryTimeout /\ age + QueryTimeout \in Int
        BY <1>1, <2>1, RegistryBounds
      <3>2. ASSUME NEW i \in (s.seen + 1)..Len(commits[TableOf[c]])
            PROVE  registryClock - commits[TableOf[c]][i] <= age + QueryTimeout
        <4>1. registryClock - commits[TableOf[c]][i] <= s.since
          BY <1>1, <2>3, <3>2 DEF MissingAtMost
        <4>2. commits[TableOf[c]] \in Seq(Nat)
          BY RegistryBounds DEF RegistryInv, RegistryShapes
        <4>3. commits[TableOf[c]][i] \in Nat
          BY <1>1, <3>2, <4>2
        <4>4. registryClock \in Nat
          BY DEF RegistryInv, RegistryShapes
        <4> QED
          BY <1>1, <3>1, <4>1, <4>3, <4>4
      <3> QED
        BY <1>2, <1>7, <2>3, <3>2 DEF MissingAtMost, tableVars
    <2> QED
      BY <2>2, <2>3
  <1> QED
    BY <1>4, <1>9, <1>10 DEF RegistryInv, RegistryLag

\* A second passes for everything that is missing and for everything that bounds it.
LEMMA RegistryTickKept ==
    ASSUME RegistryInv, RegistryTick
    PROVE  RegistryInv'
  <1>1. /\ registryClock' = registryClock + 1 /\ registryClock \in Nat
        /\ \A c \in Caches : sinceTick[c] < Every[c]
        /\ sinceTick' = [c \in Caches |-> sinceTick[c] + 1] /\ sinceTick \in [Caches -> Nat]
        /\ load' = [l \in Loaders |-> IF load[l].phase = "store" THEN [load[l] EXCEPT !.since = @ + 1]
                                      ELSE load[l]]
        /\ UNCHANGED <<tableVars, snapshot, failures, errors>>
        /\ \A l \in Loaders : load[l].phase = "store" => load[l].since < QueryTimeout
    BY DEF RegistryTick, RegistryInv, RegistryShapes
  <1>2. ASSUME NEW l \in Loaders, load[l].phase = "store"
        PROVE  /\ load'[l] \in LoadStates(l) /\ load'[l].phase = "store"
               /\ load'[l].of = load[l].of /\ load'[l].seen = load[l].seen
               /\ load'[l].since = load[l].since + 1 /\ load[l].since \in Nat
               /\ load[l].of \in Caches /\ load[l].seen \in Nat
    <2> PICK s : s = load[l]
      OBVIOUS
    <2>1. /\ s \in [phase : {"store"}, of : Caches, seen : Nat, since : 0..QueryTimeout]
          /\ l \in Caches => s.of = l
      BY <1>2, LoadPhases DEF RegistryInv
    <2>2. load'[l] = [s EXCEPT !.since = @ + 1]
      BY <1>1, <1>2
    <2>3. s.since + 1 \in 0..QueryTimeout /\ s.since \in Nat
      BY <1>1, <1>2, <2>1, RegistryBounds
    <2>4. load'[l] \in LoadStates(l)
      BY <2>1, <2>2, <2>3 DEF LoadStates
    <2> QED
      BY <2>1, <2>2, <2>3, <2>4
  <1>3. \A l \in Loaders : load[l].phase # "store" => load'[l] = load[l]
    BY <1>1
  <1>4. DOMAIN load' = Loaders /\ \A l \in Loaders : load'[l] \in LoadStates(l)'
    BY <1>1, <1>2, <1>3 DEF RegistryInv, RegistryShapes, LoadStates
  <1>5. ASSUME NEW c \in Caches
        PROVE  /\ sinceTick'[c] = sinceTick[c] + 1 /\ sinceTick'[c] \in Nat /\ sinceTick'[c] <= Every[c]
               /\ load'[c] # NoLoad => load'[c].since = sinceTick'[c]
               /\ load'[c] = NoLoad <=> load[c] = NoLoad
    <2>1. sinceTick'[c] = sinceTick[c] + 1 /\ sinceTick[c] \in Nat /\ Every[c] \in Nat
      BY <1>1, RegistryBounds
    <2>2. sinceTick'[c] \in Nat /\ sinceTick'[c] <= Every[c]
      BY <1>1, <2>1
    <2>3. load[c] = NoLoad \/ (load[c].phase = "store" /\ load[c].since = sinceTick[c])
      BY LoadPhases, RegistryBounds DEF RegistryInv, RegistryShapes
    <2>4. CASE load[c] = NoLoad
      BY <1>3, <2>1, <2>2, <2>4, RegistryBounds DEF NoLoad
    <2>5. CASE load[c].phase = "store" /\ load[c].since = sinceTick[c]
      BY <1>2, <2>1, <2>2, <2>5, RegistryBounds DEF NoLoad
    <2> QED
      BY <2>3, <2>4, <2>5
  <1>6. RegistryShapes'
    <2>1. sinceTick' \in [Caches -> Nat]
      BY <1>1
    <2>2. registryClock' \in Nat
      BY <1>1
    <2> QED
      BY <1>1, <1>4, <1>5, <2>1, <2>2 DEF RegistryInv, RegistryShapes, tableVars
  <1>7. ASSUME NEW c \in Caches, NEW n \in Nat, NEW age \in Int, MissingAtMost(c, n, age)
        PROVE  MissingAtMost(c, n, age + 1)'
    <2>0. commits' = commits
      BY <1>1 DEF tableVars
    <2> SUFFICES ASSUME NEW i \in (n + 1)..Len(commits[TableOf[c]])
                 PROVE  registryClock' - commits[TableOf[c]][i] <= age + 1
      BY <2>0 DEF MissingAtMost
    <2>1. commits[TableOf[c]] \in Seq(Nat)
      BY RegistryBounds DEF RegistryInv, RegistryShapes
    <2>2. commits[TableOf[c]][i] \in Nat
      BY <2>1
    <2>3. registryClock - commits[TableOf[c]][i] <= age
      BY <1>7 DEF MissingAtMost
    <2>4. registryClock \in Nat /\ registryClock' = registryClock + 1
      BY <1>1
    <2>5. PICK made \in Nat : made = commits[TableOf[c]][i]
      BY <2>2
    <2>6. registryClock' - made <= age + 1
      BY <2>3, <2>4, <2>5
    <2> QED
      BY <2>5, <2>6
  <1>8. ASSUME NEW l \in Loaders, load'[l].phase = "store"
        PROVE  /\ load'[l].seen <= Len(commits'[TableOf[load'[l].of]])
               /\ MissingAtMost(load[l].of, load[l].seen, load[l].since)'
    <2>1. load[l].phase = "store"
      BY <1>1, <1>8
    <2> PICK c, n, age : c = load[l].of /\ n = load[l].seen /\ age = load[l].since
      OBVIOUS
    <2>2. c \in Caches /\ n \in Nat /\ age \in Int
      BY <1>2, <2>1
    <2>3. n <= Len(commits[TableOf[c]]) /\ MissingAtMost(c, n, age)
      BY <2>1 DEF RegistryInv, RegistryLag
    <2>4. MissingAtMost(c, n, age + 1)'
      BY <1>7, <2>2, <2>3
    <2>5. load'[l].of = c /\ load'[l].seen = n /\ load'[l].since = age + 1
      BY <1>2, <2>1
    <2> QED
      BY <1>1, <2>3, <2>4, <2>5 DEF MissingAtMost, tableVars
  <1>9. ASSUME NEW c \in Caches
        PROVE  MissingAtMost(c, snapshot[c], LastStoredRead(c) + QueryTimeout)'
    <2> PICK k, e, s, m : /\ k = failures[c] * Every[c]
                          /\ e = IF load[c] = NoLoad THEN 0 ELSE Every[c]
                          /\ s = sinceTick[c] /\ m = snapshot[c]
      OBVIOUS
    <2>1. k \in Nat /\ e \in Nat /\ s \in Nat /\ m \in Nat /\ QueryTimeout \in Nat
      BY RoundsOfFailures, RegistryBounds DEF RegistryInv, RegistryShapes
    <2>2. LastStoredRead(c) = k + s + e /\ LastStoredRead(c)' = k + (s + 1) + e
      BY <1>1, <1>5 DEF LastStoredRead
    <2> PICK age : age = k + s + e + QueryTimeout
      OBVIOUS
    <2>3. age \in Int /\ k + (s + 1) + e + QueryTimeout = age + 1
      BY <2>1
    <2>4. MissingAtMost(c, m, age)
      BY <2>2 DEF RegistryInv, RegistryLag
    <2>5. MissingAtMost(c, m, age + 1)'
      BY <1>7, <2>1, <2>3, <2>4
    <2>6. snapshot'[c] = m /\ LastStoredRead(c)' + QueryTimeout = age + 1
      BY <1>1, <2>2, <2>3
    <2> QED
      BY <2>5, <2>6 DEF MissingAtMost
  <1> QED
    BY <1>6, <1>8, <1>9 DEF RegistryInv, RegistryLag

\* Every step of the registries keeps the invariant.
LEMMA RegistryNextInv ==
    ASSUME RegistryInv, [RegistriesNext]_registryVars
    PROVE  RegistryInv'
  <1>1. CASE UNCHANGED registryVars
    <2>1. RegistryShapes'
      BY <1>1 DEF RegistryInv, RegistryShapes, LoadStates, registryVars, tableVars, loadVars
    <2>2. RegistryLag'
      BY <1>1 DEF RegistryInv, RegistryLag, MissingAtMost, LastStoredRead, registryVars, tableVars, loadVars
    <2> QED
      BY <2>1, <2>2 DEF RegistryInv
  <1>2. CASE RegistriesIdle
    BY <1>1, <1>2 DEF RegistriesIdle
  <1> QED
    BY <1>1, <1>2, ChangesKept, HandlerReadsKept, FailsKept, RunTickKept, StoreKept,
       RegistryTickKept DEF RegistriesNext

\* The inductive invariant of the registries.
THEOREM RegistryInvHolds == RegistriesSpec => []RegistryInv
  <1>1. RegistryInv /\ [RegistriesNext]_registryVars => RegistryInv'
    BY RegistryNextInv
  <1> QED
    BY RegistryInitInv, <1>1, PTL DEF RegistriesSpec

\* Whatever races the loads of handlers (Refresh after a commit) and goroutine (Run) run, a
\* cache never misses a change for longer than the goroutine's interval, once more for
\* every load of it that failed, and two query timeouts.
THEOREM CachesCatchUp == RegistriesSpec => []LagBounded
  <1>1. RegistryInv => LagBounded
    <2> SUFFICES ASSUME RegistryInv, NEW c \in Caches,
                        NEW i \in (snapshot[c] + 1)..Len(commits[TableOf[c]])
                 PROVE  registryClock - commits[TableOf[c]][i]
                            <= Every[c] * (1 + failures[c]) + 2 * QueryTimeout
      BY DEF LagBounded
    <2>1. PICK k, e, s : /\ k = failures[c] * Every[c] /\ s = sinceTick[c]
                         /\ e = IF load[c] = NoLoad THEN 0 ELSE Every[c]
      OBVIOUS
    <2>2. k \in Nat /\ s \in Nat /\ Every[c] \in Nat /\ QueryTimeout \in Nat /\ s <= Every[c]
      BY <2>1, RoundsOfFailures, RegistryBounds DEF RegistryInv, RegistryShapes
    <2>3. LastStoredRead(c) = k + s + e
      BY <2>1 DEF LastStoredRead
    <2>4. s + e <= Every[c] + QueryTimeout
      <3>1. CASE load[c] = NoLoad
        BY <2>1, <2>2, <3>1
      <3>2. CASE load[c] # NoLoad
        <4>1. c \in Loaders /\ RegistryShapes /\ load[c].since = s
          BY <2>1, <3>2, RegistryBounds DEF RegistryInv, RegistryShapes
        <4>2. load[c] \in [phase : {"store"}, of : Caches, seen : Nat, since : 0..QueryTimeout]
          BY <3>2, <4>1, LoadPhases
        <4>3. s <= QueryTimeout
          BY <4>1, <4>2, RegistryBounds
        <4> QED
          BY <2>1, <2>2, <3>2, <4>3
      <3> QED
        BY <3>1, <3>2
    <2>5. registryClock - commits[TableOf[c]][i] <= k + s + e + QueryTimeout
      BY <2>3 DEF RegistryInv, RegistryLag, MissingAtMost
    <2>6. commits[TableOf[c]][i] \in Nat /\ registryClock \in Nat
      <3>1. commits[TableOf[c]] \in Seq(Nat) /\ snapshot[c] \in Nat /\ registryClock \in Nat
        BY RegistryBounds DEF RegistryInv, RegistryShapes
      <3>2. i \in 1..Len(commits[TableOf[c]])
        BY <3>1
      <3> QED
        BY <3>1, <3>2
    <2>7. PICK r : r = Every[c] * (1 + failures[c])
      OBVIOUS
    <2>8. r = k + Every[c]
      BY <2>1, <2>7, RoundsOfFailures, RegistryBounds DEF RegistryInv, RegistryShapes
    <2>9. PICK x : x = registryClock - commits[TableOf[c]][i]
      OBVIOUS
    <2>10. e \in Nat /\ x \in Int /\ x <= k + s + e + QueryTimeout
      <3>1. e \in Nat
        BY <2>1, <2>2
      <3>2. x \in Int
        BY <2>6, <2>9
      <3>3. x <= k + s + e + QueryTimeout
        BY <2>5, <2>9
      <3> QED
        BY <3>1, <3>2, <3>3
    <2>11. x <= r + 2 * QueryTimeout
      BY <2>2, <2>4, <2>8, <2>10
    <2> QED
      BY <2>7, <2>9, <2>11, Zenon
  <1> QED
    BY <1>1, RegistryInvHolds, PTL

\* The invariant gives the shapes of the variables.
LEMMA RegistryInvTypes ==
    ASSUME RegistryInv
    PROVE  RegistriesTypeOK
  <1> USE RegistryBounds DEF RegistryInv, RegistryShapes
  <1>1. \A t \in Tables : Len(commits[t]) <= MaxChanges /\ rows[t] \in 0..MaxChanges
    <2> SUFFICES ASSUME NEW t \in Tables
                 PROVE  Len(commits[t]) <= MaxChanges /\ rows[t] \in 0..MaxChanges
      OBVIOUS
    <2>2. commits[t] \in Seq(Nat) /\ rows[t] \in Nat
      OBVIOUS
    <2>3. Len(commits[t]) \in Nat
      BY <2>2
    <2> QED
      BY <2>2, <2>3
  <1>2. ASSUME NEW c \in Caches
        PROVE  /\ snapshot[c] \in 0..Len(commits[TableOf[c]])
               /\ sinceTick[c] \in 0..Every[c] /\ failures[c] \in 0..MaxErrors
    <2>2. commits[TableOf[c]] \in Seq(Nat) /\ snapshot[c] \in Nat /\ failures[c] \in Nat
      OBVIOUS
    <2>3. Len(commits[TableOf[c]]) \in Nat
      BY <2>2
    <2> QED
      BY <2>2, <2>3
  <1>3. \A l \in Loaders : load[l] = NoLoad \/ load[l].of \in Caches
    BY LoadPhases
  <1> QED
    BY <1>1, <1>2, <1>3 DEF RegistriesTypeOK

\* The variables of the registries keep their shapes.
THEOREM RegistriesTyped == RegistriesSpec => []RegistriesTypeOK
  <1>1. RegistryInv => RegistriesTypeOK
    BY RegistryInvTypes
  <1> QED
    BY <1>1, RegistryInvHolds, PTL

-----------------------------------------------------------------------------
(* The zone checker.                                                       *)

\* A worker that is busy processes a message.
BusyWithMessage == \A r \in Replicas, w \in Workers : step[r][w] # "idle" => msg[r][w] \in Msgs

ZoneShapes == TypeOK /\ BusyWithMessage

\* The first message for a replica, and the buffer without it.
LEMMA FirstTaken ==
    ASSUME buffer \in Seq(Msgs), NEW r, HasMessage(r)
    PROVE  buffer[First(r)] \in Msgs /\ Without(First(r)) \in Seq(Msgs)
  <1> DEFINE for == {i \in DOMAIN buffer : OwnerOf[buffer[i]] = r}
             n == Len(buffer)
  <1>1. for \subseteq 1..n /\ n \in Nat /\ for \subseteq Nat
    OBVIOUS
  <1>2. for # {}
    BY DEF HasMessage
  <1>3. PICK i \in for : \A j \in for : <<j, i>> \notin OpToRel(<, Nat)
    BY <1>1, <1>2, NatLessThanWellFounded, WFMin
  <1>4. \A j \in for : ~(j < i)
    BY <1>1, <1>3 DEF OpToRel
  <1>5. i \in DOMAIN buffer /\ OwnerOf[buffer[i]] = r /\ \A j \in 1..(i - 1) : OwnerOf[buffer[j]] # r
    BY <1>1, <1>4
  <1>6. First(r) \in DOMAIN buffer
    BY <1>5 DEF First
  <1> QED
    BY <1>6 DEF Without

\* What Crash leaves in the buffers.
LEMMA OthersTaken ==
    ASSUME buffer \in Seq(Msgs), NEW r, NEW kept \in OthersInOrder(r)
    PROVE  [k \in DOMAIN kept |-> buffer[kept[k]]] \in Seq(Msgs)
  <1> DEFINE others == {i \in DOMAIN buffer : OwnerOf[buffer[i]] # r}
  <1>1. IsFiniteSet(1..Len(buffer))
    BY FS_Interval
  <1>2. others \subseteq 1..Len(buffer)
    OBVIOUS
  <1>3. Cardinality(others) \in Nat
    BY <1>1, <1>2, FS_Subset, FS_CardinalityType
  <1>4. kept \in [1..Cardinality(others) -> others]
    BY DEF OthersInOrder
  <1> HIDE DEF others
  <1>5. \A i \in 1..Len(buffer) : buffer[i] \in Msgs
    OBVIOUS
  <1>6. \A k \in 1..Cardinality(others) : buffer[kept[k]] \in Msgs
    BY <1>2, <1>4, <1>5
  <1> QED
    BY <1>3, <1>4, <1>6

\* What the replicas start with.
LEMMA ZoneInitShapes == Init => ZoneShapes
  <1> SUFFICES ASSUME Init PROVE ZoneShapes
    OBVIOUS
  <1> USE ConsumerAssumption, ZoneCheckerAssumption DEF Init, ConsumerInit
  <1>1. ConsumerTypeOK
    BY DEF ConsumerTypeOK
  <1>2. lastPrune \in [Replicas -> Int]
    OBVIOUS
  <1> QED
    BY <1>1, <1>2 DEF ZoneShapes, TypeOK, BusyWithMessage

\* What pruning leaves of the state of a replica.
LEMMA PrunedShape ==
    ASSUME TypeOK, NEW r \in Replicas
    PROVE  /\ Pruned(r) \in [Drones -> {Unknown} \cup [zones : SUBSET Zones, lastTimestamp : 1..MaxTimestamp,
                                                       lastSeen : 0..MaxClock]]
           /\ PrunedAt(r) \in Int /\ Remembered(r) \subseteq decided[r] /\ clock \in 0..MaxClock
           /\ \A d \in Drones : Pruned(r)[d] = IF d \in Forgotten(r) THEN Unknown ELSE state[r][d]
  BY ConsumerAssumption DEF TypeOK, ConsumerTypeOK, Pruned, PrunedAt, Remembered

\* The events of a message are alerts.
LEMMA EventsAreAlerts ==
    ASSUME NEW m \in Msgs, NEW was \in SUBSET Zones
    PROVE  Events(m, was) \subseteq Alerts
  BY ZoneCheckerAssumption DEF Events, Alerts

\* What the broker does leaves the replicas alone.
LEMMA BrokerShapes ==
    ASSUME ZoneShapes,
           UNCHANGED <<checkVars, workVars, alerts, crashes>>,
           (\E m \in Msgs : Publish(m) \/ Deliver(m)) \/ Tick
    PROVE  ZoneShapes'
  <1>1. ConsumerTypeOK
    BY DEF ZoneShapes, TypeOK
  <1>2. CASE \E m \in Msgs : Publish(m)
    BY <1>1, <1>2 DEF Publish, ConsumerTypeOK, ZoneShapes, TypeOK, BusyWithMessage, checkVars, workVars
  <1>3. ASSUME NEW m \in Msgs, Deliver(m) PROVE ZoneShapes'
    <2>1. deliveries' \in [Msgs -> 0..MaxDeliver] /\ dueAt' \in [Msgs -> Nat] /\ buffer' \in Seq(Msgs)
      BY <1>1, <1>3, ConsumerAssumption DEF Deliver, Deliverable, ConsumerTypeOK
    <2>2. ConsumerTypeOK'
      BY <1>1, <1>3, <2>1 DEF Deliver, ConsumerTypeOK
    <2> QED
      BY <2>2 DEF ZoneShapes, TypeOK, BusyWithMessage, checkVars, workVars
  <1>4. CASE Tick
    <2>1. ConsumerTypeOK'
      BY <1>1, <1>4, ConsumerAssumption DEF Tick, ConsumerTypeOK, streamVars
    <2> QED
      BY <2>1 DEF ZoneShapes, TypeOK, BusyWithMessage, checkVars, workVars
  <1> QED
    BY <1>2, <1>3, <1>4

\* A worker takes a message, and answers it.
LEMMA TakenShapes ==
    ASSUME ZoneShapes, NEW r \in Replicas, NEW w \in Workers, Skip(r, w) \/ Locate(r, w) \/ Ack(r, w)
    PROVE  ZoneShapes'
  <1> USE DEF ZoneShapes
  <1>1. CASE Skip(r, w)
    <2>1. buffer[First(r)] \in Msgs /\ Without(First(r)) \in Seq(Msgs)
      BY <1>1, FirstTaken DEF Skip, TypeOK, ConsumerTypeOK
    <2>2. ConsumerTypeOK'
      BY <1>1, <2>1 DEF Skip, Settle, TypeOK, ConsumerTypeOK
    <2> QED
      BY <1>1, <2>2 DEF Skip, TypeOK, BusyWithMessage, checkVars, workVars
  <1>2. CASE Locate(r, w)
    <2>1. buffer[First(r)] \in Msgs /\ Without(First(r)) \in Seq(Msgs)
      BY <1>2, FirstTaken DEF Locate, TypeOK, ConsumerTypeOK
    <2>2. ConsumerTypeOK'
      BY <1>2, <2>1 DEF Locate, streamVars, TypeOK, ConsumerTypeOK
    <2>3. /\ step' \in [Replicas -> [Workers -> {"idle", "located", "alert"}]]
          /\ msg' \in [Replicas -> [Workers -> Msgs \cup {NoMsg}]]
      BY <1>2, <2>1 DEF Locate, TypeOK
    <2>4. \A q \in Replicas, v \in Workers :
            \/ q = r /\ v = w /\ msg'[q][v] = buffer[First(r)]
            \/ step'[q][v] = step[q][v] /\ msg'[q][v] = msg[q][v]
      BY <1>2 DEF Locate, TypeOK
    <2>5. BusyWithMessage'
      BY <2>1, <2>4 DEF BusyWithMessage
    <2> QED
      BY <1>2, <2>2, <2>3, <2>5 DEF Locate, TypeOK, checkVars
  <1>3. CASE Ack(r, w)
    <2>1. msg[r][w] \in Msgs
      BY <1>3 DEF Ack, BusyWithMessage
    <2>2. ConsumerTypeOK'
      BY <1>3, <2>1 DEF Ack, Settle, TypeOK, ConsumerTypeOK
    <2>3. /\ step' \in [Replicas -> [Workers -> {"idle", "located", "alert"}]]
          /\ msg' \in [Replicas -> [Workers -> Msgs \cup {NoMsg}]]
      BY <1>3 DEF Ack, TypeOK
    <2>4. \A q \in Replicas, v \in Workers :
            \/ q = r /\ v = w /\ step'[q][v] = "idle"
            \/ step'[q][v] = step[q][v] /\ msg'[q][v] = msg[q][v]
      BY <1>3 DEF Ack, TypeOK
    <2>5. BusyWithMessage'
      BY <2>4 DEF BusyWithMessage
    <2> QED
      BY <1>3, <2>2, <2>3, <2>5 DEF Ack, TypeOK, checkVars
  <1> QED
    BY <1>1, <1>2, <1>3

\* The locked part and the alerts after it.
LEMMA CheckedShapes ==
    ASSUME ZoneShapes, NEW r \in Replicas, NEW w \in Workers,
           DiffStale(r, w) \/ Diff(r, w) \/ PublishAlert(r, w)
    PROVE  ZoneShapes'
  <1> DEFINE m == msg[r][w]
             States == {Unknown} \cup [zones : SUBSET Zones, lastTimestamp : 1..MaxTimestamp,
                                       lastSeen : 0..MaxClock]
  <1> USE DEF ZoneShapes
  <1>1. CASE DiffStale(r, w)
    <2>1. m \in Msgs /\ DroneOf[m] \in Drones
      BY <1>1, ZoneCheckerAssumption DEF DiffStale, BusyWithMessage
    <2>2. Pruned(r)[DroneOf[m]] # Unknown
      BY <1>1 DEF DiffStale, Stale
    <2>3. [Pruned(r) EXCEPT ![DroneOf[m]].lastSeen = clock] \in [Drones -> States]
      BY <2>1, <2>2, PrunedShape
    <2>4. state' \in [Replicas -> [Drones -> States]]
      BY <1>1, <2>3 DEF DiffStale, TypeOK
    <2>5. lastPrune' \in [Replicas -> Int] /\ decided' \in [Replicas -> SUBSET Alerts]
      BY <1>1, PrunedShape DEF DiffStale, TypeOK
    <2>6. /\ step' \in [Replicas -> [Workers -> {"idle", "located", "alert"}]]
          /\ \A q \in Replicas, v \in Workers : step'[q][v] # "idle" => step[q][v] # "idle"
      BY <1>1 DEF DiffStale, TypeOK
    <2>7. ConsumerTypeOK' /\ UNCHANGED <<msg, todo, alerts>>
      BY <1>1 DEF DiffStale, TypeOK, ConsumerTypeOK, streamVars
    <2>8. BusyWithMessage'
      BY <2>6, <2>7 DEF BusyWithMessage
    <2> QED
      BY <2>4, <2>5, <2>6, <2>7, <2>8 DEF TypeOK
  <1>2. CASE Diff(r, w)
    <2> PICK found : found = Events(m, Pruned(r)[DroneOf[m]].zones)
      OBVIOUS
    <2>1. m \in Msgs /\ DroneOf[m] \in Drones /\ TsOf[m] \in 1..MaxTimestamp /\ ZonesOf[m] \in SUBSET Zones
      BY <1>2, ZoneCheckerAssumption DEF Diff, BusyWithMessage
    <2>2. Pruned(r)[DroneOf[m]].zones \in SUBSET Zones
      BY <2>1, PrunedShape DEF Unknown
    <2>3. found \subseteq Alerts
      BY <2>1, <2>2, EventsAreAlerts
    <2>4. Seen(r, m) \in States
      BY <2>1, PrunedShape DEF Seen
    <2>5. [Pruned(r) EXCEPT ![DroneOf[m]] = Seen(r, m)] \in [Drones -> States]
      BY <2>4, PrunedShape
    <2>6. state' \in [Replicas -> [Drones -> States]]
      BY <1>2, <2>5 DEF Diff, TypeOK
    <2>7. lastPrune' \in [Replicas -> Int]
      BY <1>2, PrunedShape DEF Diff, TypeOK
    <2>8. decided' \in [Replicas -> SUBSET Alerts] /\ todo' \in [Replicas -> [Workers -> SUBSET Alerts]]
      BY <1>2, <2>3, PrunedShape DEF Diff, TypeOK
    <2>9. /\ step' \in [Replicas -> [Workers -> {"idle", "located", "alert"}]]
          /\ \A q \in Replicas, v \in Workers : step'[q][v] # "idle" => step[q][v] # "idle"
      BY <1>2 DEF Diff, TypeOK
    <2>10. ConsumerTypeOK' /\ UNCHANGED <<msg, alerts>>
      BY <1>2 DEF Diff, TypeOK, ConsumerTypeOK, streamVars
    <2>11. BusyWithMessage'
      BY <2>9, <2>10 DEF BusyWithMessage
    <2> QED
      BY <2>6, <2>7, <2>8, <2>9, <2>10, <2>11 DEF TypeOK
  <1>3. CASE PublishAlert(r, w)
    <2>1. todo[r][w] \subseteq Alerts
      BY DEF TypeOK
    <2>2. alerts' \subseteq Alerts /\ todo' \in [Replicas -> [Workers -> SUBSET Alerts]]
      BY <1>3, <2>1 DEF PublishAlert, TypeOK
    <2>3. ConsumerTypeOK' /\ UNCHANGED <<step, msg, checkVars>>
      BY <1>3 DEF PublishAlert, TypeOK, ConsumerTypeOK, streamVars
    <2> QED
      BY <2>2, <2>3 DEF TypeOK, BusyWithMessage, checkVars
  <1> QED
    BY <1>1, <1>2, <1>3

\* Pruning for a request, and a crash.
LEMMA RestartedShapes ==
    ASSUME ZoneShapes, NEW r \in Replicas, ActiveAlarms(r) \/ Crash(r)
    PROVE  ZoneShapes'
  <1> DEFINE States == {Unknown} \cup [zones : SUBSET Zones, lastTimestamp : 1..MaxTimestamp,
                                       lastSeen : 0..MaxClock]
  <1> USE DEF ZoneShapes
  <1>1. CASE ActiveAlarms(r)
    <2>1. state' \in [Replicas -> [Drones -> States]]
      BY <1>1, PrunedShape DEF ActiveAlarms, TypeOK
    <2>2. lastPrune' \in [Replicas -> Int] /\ decided' \in [Replicas -> SUBSET Alerts]
      BY <1>1, PrunedShape DEF ActiveAlarms, TypeOK
    <2>3. ConsumerTypeOK'
      BY <1>1 DEF ActiveAlarms, TypeOK, ConsumerTypeOK, streamVars
    <2> QED
      BY <1>1, <2>1, <2>2, <2>3 DEF ActiveAlarms, TypeOK, BusyWithMessage, workVars
  <1>2. CASE Crash(r)
    <2>1. buffer' \in Seq(Msgs)
      BY <1>2, OthersTaken DEF Crash, TypeOK, ConsumerTypeOK
    <2>2. ConsumerTypeOK'
      BY <1>2, <2>1 DEF Crash, TypeOK, ConsumerTypeOK, streamVars
    <2>3. state' \in [Replicas -> [Drones -> States]]
      BY <1>2 DEF Crash, TypeOK
    <2>4. lastPrune' \in [Replicas -> Int] /\ decided' \in [Replicas -> SUBSET Alerts]
      BY <1>2, ZoneCheckerAssumption DEF Crash, TypeOK
    <2>5. /\ step' \in [Replicas -> [Workers -> {"idle", "located", "alert"}]]
          /\ msg' \in [Replicas -> [Workers -> Msgs \cup {NoMsg}]]
          /\ todo' \in [Replicas -> [Workers -> SUBSET Alerts]] /\ alerts' \subseteq Alerts
      BY <1>2 DEF Crash, TypeOK
    <2>6. \A q \in Replicas, v \in Workers :
            \/ step'[q][v] = "idle"
            \/ step'[q][v] = step[q][v] /\ msg'[q][v] = msg[q][v]
      BY <1>2 DEF Crash, TypeOK
    <2>7. BusyWithMessage'
      BY <2>6 DEF BusyWithMessage
    <2> QED
      BY <2>2, <2>3, <2>4, <2>5, <2>7 DEF TypeOK
  <1> QED
    BY <1>1, <1>2

LEMMA ZoneNextShapes ==
    ASSUME ZoneShapes, [Next]_vars
    PROVE  ZoneShapes'
  <1>1. CASE UNCHANGED vars
    BY <1>1 DEF ZoneShapes, TypeOK, ConsumerTypeOK, BusyWithMessage, vars, streamVars, checkVars, workVars
  <1>2. CASE Idle
    BY <1>1, <1>2 DEF Idle
  <1>3. CASE (\E m \in Msgs : Broker(Publish(m)) \/ Broker(Deliver(m))) \/ Broker(Tick)
    BY <1>3, BrokerShapes DEF Broker
  <1>4. ASSUME NEW r \in Replicas, NEW w \in Workers, WorkerStep(r, w) PROVE ZoneShapes'
    BY <1>4, TakenShapes, CheckedShapes DEF WorkerStep
  <1> QED
    BY <1>1, <1>2, <1>3, <1>4, RestartedShapes DEF Next

\* Events of one drone and zone, in the order of their timestamps.
Entries(E) == {e \in E : e.event = "entered"}
Earlier(E, e) == {f \in E : f.ts < e.ts}
Inside(E) == Cardinality(Entries(E)) = Cardinality(E \ Entries(E)) + 1

\* They go entered, exited, entered, ...
Alternating(E) ==
    /\ IsFiniteSet(E)
    /\ \A e, f \in E : e.ts = f.ts => e = f
    /\ \A e \in E : e.event = "entered" <=>
         Cardinality(Earlier(E, e) \cap Entries(E)) = Cardinality(Earlier(E, e) \ Entries(E))
    /\ Inside(E) \/ Cardinality(Entries(E)) = Cardinality(E \ Entries(E))

\* The events so far, and what a replica knows of the drone.
Tells(E, z, known) ==
    /\ Alternating(E)
    /\ z \in known.zones <=> Inside(E)
    /\ known = Unknown => E = {}
    /\ \A e \in E : e.ts \in Nat /\ e.ts <= known.lastTimestamp

\* No event at all, of a drone that is not known.
LEMMA NothingTold ==
    ASSUME NEW z
    PROVE  Tells({}, z, Unknown)
  <1>1. IsFiniteSet({}) /\ Cardinality({}) = 0
    BY FS_EmptySet
  <1>2. Entries({}) = {} /\ {} \ Entries({}) = {}
    BY DEF Entries
  <1> QED
    BY <1>1, <1>2 DEF Tells, Alternating, Inside, Unknown

\* An event after all others goes on with the alternation if it is an entry from outside
\* or an exit from inside.
LEMMA EventAdded ==
    ASSUME NEW E, Alternating(E), NEW e, e.ts \in Nat, \A f \in E : f.ts \in Nat /\ f.ts < e.ts,
           e.event = "entered" <=> ~Inside(E)
    PROVE  Alternating(E \cup {e}) /\ (Inside(E \cup {e}) <=> e.event = "entered")
  <1> DEFINE F == E \cup {e}
  <1>1. e \notin E
    OBVIOUS
  <1>2. /\ IsFiniteSet(E) /\ IsFiniteSet(Entries(E)) /\ IsFiniteSet(E \ Entries(E))
        /\ e \notin Entries(E) /\ e \notin E \ Entries(E)
    BY <1>1, FS_Subset DEF Alternating, Entries
  <1>3. /\ Cardinality(Entries(E)) \in Nat /\ Cardinality(E \ Entries(E)) \in Nat
        /\ Cardinality(Entries(E) \cup {e}) = Cardinality(Entries(E)) + 1
        /\ Cardinality((E \ Entries(E)) \cup {e}) = Cardinality(E \ Entries(E)) + 1
    BY <1>2, FS_CardinalityType, FS_AddElement
  <1>4. IsFiniteSet(F)
    BY <1>2, FS_AddElement
  <1>5. Earlier(F, e) = E /\ \A f \in E : Earlier(F, f) = Earlier(E, f)
    BY DEF Earlier
  <1>6. \A f \in E : Earlier(E, f) \subseteq E
    BY DEF Earlier
  <1>7. CASE e.event = "entered"
    <2>1. Entries(F) = Entries(E) \cup {e} /\ F \ Entries(F) = E \ Entries(E)
      BY <1>1, <1>7 DEF Entries
    <2>2. Inside(F)
      BY <1>3, <1>7, <2>1 DEF Inside, Alternating
    <2>3. /\ Earlier(F, e) \cap Entries(F) = Entries(E) /\ Earlier(F, e) \ Entries(F) = E \ Entries(E)
          /\ \A f \in E : /\ Earlier(F, f) \cap Entries(F) = Earlier(E, f) \cap Entries(E)
                          /\ Earlier(F, f) \ Entries(F) = Earlier(E, f) \ Entries(E)
      BY <1>1, <1>5, <1>6, <1>7 DEF Entries
    <2>4. Cardinality(Entries(E)) = Cardinality(E \ Entries(E))
      BY <1>7 DEF Alternating
    <2>5. \A g \in F : g.event = "entered" <=>
            Cardinality(Earlier(F, g) \cap Entries(F)) = Cardinality(Earlier(F, g) \ Entries(F))
      BY <1>7, <2>3, <2>4 DEF Alternating
    <2>6. \A g, h \in F : g.ts = h.ts => g = h
      BY DEF Alternating
    <2> QED
      BY <1>4, <1>7, <2>2, <2>5, <2>6 DEF Alternating
  <1>8. CASE e.event # "entered"
    <2>1. Entries(F) = Entries(E) /\ F \ Entries(F) = (E \ Entries(E)) \cup {e}
      BY <1>1, <1>8 DEF Entries
    <2>2. Inside(E)
      BY <1>8
    <2>3. Cardinality(Entries(F)) = Cardinality(F \ Entries(F)) /\ ~Inside(F)
      <3>1. Cardinality(Entries(E)) = Cardinality(E \ Entries(E)) + 1
        BY <2>2 DEF Inside
      <3>2. /\ Cardinality(Entries(F)) = Cardinality(E \ Entries(E)) + 1
            /\ Cardinality(F \ Entries(F)) = Cardinality(E \ Entries(E)) + 1
        BY <1>3, <2>1, <3>1
      <3>3. Cardinality(E \ Entries(E)) + 1 # Cardinality(E \ Entries(E)) + 1 + 1
        BY <1>3
      <3> QED
        BY <3>2, <3>3 DEF Inside
    <2>4. /\ Earlier(F, e) \cap Entries(F) = Entries(E) /\ Earlier(F, e) \ Entries(F) = E \ Entries(E)
          /\ \A f \in E : /\ Earlier(F, f) \cap Entries(F) = Earlier(E, f) \cap Entries(E)
                          /\ Earlier(F, f) \ Entries(F) = Earlier(E, f) \ Entries(E)
      BY <1>1, <1>5, <1>6, <1>8 DEF Entries
    <2>5. Cardinality(Entries(E)) # Cardinality(E \ Entries(E))
      BY <1>3, <2>2 DEF Inside
    <2>6. \A g \in F : g.event = "entered" <=>
            Cardinality(Earlier(F, g) \cap Entries(F)) = Cardinality(Earlier(F, g) \ Entries(F))
      <3>1. \A f \in E : f.event = "entered" <=>
              Cardinality(Earlier(E, f) \cap Entries(E)) = Cardinality(Earlier(E, f) \ Entries(E))
        BY DEF Alternating
      <3>2. \A f \in E : f.event = "entered" <=>
              Cardinality(Earlier(F, f) \cap Entries(F)) = Cardinality(Earlier(F, f) \ Entries(F))
        BY <2>4, <3>1, Zenon
      <3>3. Cardinality(Earlier(F, e) \cap Entries(F)) # Cardinality(Earlier(F, e) \ Entries(F))
        BY <2>4, <2>5, Zenon
      <3> QED
        BY <1>8, <3>2, <3>3
    <2>7. \A g, h \in F : g.ts = h.ts => g = h
      BY DEF Alternating
    <2> QED
      BY <1>4, <1>8, <2>3, <2>6, <2>7 DEF Alternating
  <1> QED
    BY <1>7, <1>8

\* The events of a drone and a zone among E.
About(E, d, z) == {e \in E : e.drone = d /\ e.zone = z}

\* What a replica has decided tells of every drone and zone what it knows.
Ledgers ==
    \A r \in Replicas, d \in Drones, z \in Zones : Tells(About(decided[r], d, z), z, state[r][d])

\* Pruning forgets the events of a drone with the drone.
LEMMA PrunedTells ==
    ASSUME TypeOK, Ledgers, NEW r \in Replicas, NEW d \in Drones, NEW z \in Zones
    PROVE  Tells(About(Remembered(r), d, z), z, Pruned(r)[d])
  <1>1. Pruned(r)[d] = IF d \in Forgotten(r) THEN Unknown ELSE state[r][d]
    BY PrunedShape
  <1>2. CASE d \in Forgotten(r)
    <2>1. About(Remembered(r), d, z) = {}
      BY <1>2 DEF About, Remembered
    <2> QED
      BY <1>1, <1>2, <2>1, NothingTold
  <1>3. CASE d \notin Forgotten(r)
    <2>1. About(Remembered(r), d, z) = About(decided[r], d, z)
      BY <1>3 DEF About, Remembered
    <2> QED
      BY <1>1, <1>3, <2>1 DEF Ledgers
  <1> QED
    BY <1>2, <1>3

\* One replica goes on from state S with the events E.
LEMMA LedgersFrom ==
    ASSUME TypeOK, Ledgers, NEW r \in Replicas, NEW S, NEW E,
           state' = [state EXCEPT ![r] = S], decided' = [decided EXCEPT ![r] = E],
           \A d \in Drones, z \in Zones : Tells(About(E, d, z), z, S[d])
    PROVE  Ledgers'
  <1>1. /\ state'[r] = S /\ decided'[r] = E
        /\ \A q \in Replicas \ {r} : state'[q] = state[q] /\ decided'[q] = decided[q]
    BY DEF TypeOK
  <1>2. ASSUME NEW q \in Replicas, NEW d \in Drones, NEW z \in Zones
        PROVE  Tells(About(decided'[q], d, z), z, state'[q][d])
    BY <1>1 DEF Ledgers
  <1> QED
    BY <1>2 DEF Ledgers, About

\* A sample that is too old changes nothing a replica tells.
LEMMA StaleTells ==
    ASSUME ZoneShapes, Ledgers, NEW r \in Replicas, NEW w \in Workers, DiffStale(r, w)
    PROVE  Ledgers'
  <1> DEFINE m == msg[r][w]
             S == [Pruned(r) EXCEPT ![DroneOf[m]].lastSeen = clock]
  <1>1. m \in Msgs /\ DroneOf[m] \in Drones
    BY ZoneCheckerAssumption DEF DiffStale, ZoneShapes, BusyWithMessage
  <1>2. Pruned(r)[DroneOf[m]] # Unknown
    BY DEF DiffStale, Stale
  <1>3. ASSUME NEW d \in Drones, NEW z \in Zones PROVE Tells(About(Remembered(r), d, z), z, S[d])
    <2>1. Tells(About(Remembered(r), d, z), z, Pruned(r)[d])
      BY PrunedTells DEF ZoneShapes
    <2>2. /\ S[d].zones = Pruned(r)[d].zones /\ S[d].lastTimestamp = Pruned(r)[d].lastTimestamp
          /\ S[d] = Unknown => Pruned(r)[d] = Unknown
      <3>1. CASE d # DroneOf[m]
        BY <3>1, PrunedShape DEF ZoneShapes
      <3>2. CASE d = DroneOf[m]
        <4>1. Pruned(r)[d] \in [zones : SUBSET Zones, lastTimestamp : 1..MaxTimestamp, lastSeen : 0..MaxClock]
          BY <1>2, <3>2, PrunedShape DEF ZoneShapes
        <4>2. S[d] = [Pruned(r)[d] EXCEPT !.lastSeen = clock]
          BY <3>2, PrunedShape DEF ZoneShapes
        <4>3. S[d].zones = Pruned(r)[d].zones /\ S[d].lastTimestamp = Pruned(r)[d].lastTimestamp
              /\ S[d].lastSeen = clock
          BY <4>1, <4>2
        <4>4. clock # -1
          BY PrunedShape, ConsumerAssumption DEF ZoneShapes
        <4> QED
          BY <4>3, <4>4 DEF Unknown
      <3> QED
        BY <3>1, <3>2
    <2> HIDE DEF S
    <2> QED
      BY <2>1, <2>2 DEF Tells
  <1>4. state' = [state EXCEPT ![r] = S] /\ decided' = [decided EXCEPT ![r] = Remembered(r)]
    BY DEF DiffStale
  <1> HIDE DEF S
  <1> QED
    BY <1>3, <1>4, LedgersFrom DEF ZoneShapes

\* A newer sample adds the event of each zone that the drone entered or left.
LEMMA DiffTells ==
    ASSUME ZoneShapes, Ledgers, NEW r \in Replicas, NEW w \in Workers, Diff(r, w)
    PROVE  Ledgers'
  <1> PICK m : m = msg[r][w]
    OBVIOUS
  <1> PICK known : known = Pruned(r)[DroneOf[m]]
    OBVIOUS
  <1> DEFINE found == Events(m, known.zones)
             S == [Pruned(r) EXCEPT ![DroneOf[m]] = Seen(r, m)]
  <1>1. m \in Msgs /\ DroneOf[m] \in Drones /\ TsOf[m] \in 1..MaxTimestamp /\ MaxTimestamp \in Nat
    BY ZoneCheckerAssumption DEF Diff, ZoneShapes, BusyWithMessage
  <1>2. known = Unknown \/ ~(TsOf[m] <= known.lastTimestamp)
    BY DEF Diff, Stale
  <1>3. /\ known.lastTimestamp \in Int
        /\ known = Unknown \/ known.lastTimestamp < TsOf[m]
    <2>1. known.lastTimestamp \in Int
      BY <1>1, PrunedShape DEF ZoneShapes, Unknown
    <2> QED
      BY <1>1, <1>2, <2>1
  <1>4. Seen(r, m).zones = ZonesOf[m] /\ Seen(r, m).lastTimestamp = TsOf[m] /\ Seen(r, m) # Unknown
    <2>1. clock # -1
      BY PrunedShape, ConsumerAssumption DEF ZoneShapes
    <2> QED
      BY <2>1 DEF Seen, Unknown
  <1>5. ASSUME NEW d \in Drones, NEW z \in Zones PROVE Tells(About(Remembered(r) \cup found, d, z), z, S[d])
    <2> PICK E : E = About(Remembered(r), d, z)
      OBVIOUS
    <2>1. Tells(E, z, Pruned(r)[d])
      BY PrunedTells DEF ZoneShapes
    <2>2. CASE d # DroneOf[m]
      <3>1. About(found, d, z) = {}
        BY <2>2 DEF About, Events
      <3>2. About(Remembered(r) \cup found, d, z) = E
        BY <3>1 DEF About
      <3>3. S[d] = Pruned(r)[d]
        BY <2>2, PrunedShape DEF ZoneShapes
      <3> QED
        BY <2>1, <3>2, <3>3
    <2>3. CASE d = DroneOf[m]
      <3>1. S[d] = Seen(r, m)
        BY <1>1, <2>3, PrunedShape DEF ZoneShapes
      <3>2. /\ Alternating(E) /\ (z \in known.zones <=> Inside(E))
            /\ \A e \in E : e.ts \in Nat /\ e.ts < TsOf[m]
        <4>1. known = Unknown => E = {}
          BY <2>1, <2>3 DEF Tells
        <4>2. \A e \in E : e.ts \in Nat /\ e.ts <= known.lastTimestamp
          BY <2>1, <2>3 DEF Tells
        <4>3. \A e \in E : e.ts \in Nat /\ e.ts < TsOf[m]
          BY <1>1, <1>3, <4>1, <4>2
        <4> QED
          BY <2>1, <2>3, <4>3 DEF Tells
      <3>3. CASE z \in ZonesOf[m] <=> z \in known.zones
        <4>1. About(found, d, z) = {}
          BY <3>3 DEF About, Events
        <4>2. About(Remembered(r) \cup found, d, z) = E
          BY <4>1 DEF About
        <4>3. \A e \in E : e.ts \in Nat /\ e.ts <= TsOf[m]
          BY <1>1, <3>2
        <4> QED
          BY <1>4, <3>1, <3>2, <3>3, <4>2, <4>3 DEF Tells
      <3>4. CASE ~(z \in ZonesOf[m] <=> z \in known.zones)
        <4> PICK e : e = [drone |-> d, zone |-> z, ts |-> TsOf[m],
                          event |-> IF z \in ZonesOf[m] THEN "entered" ELSE "exited"]
          OBVIOUS
        <4>1. About(found, d, z) = {e}
          BY <2>3, <3>4 DEF About, Events
        <4>2. About(Remembered(r) \cup found, d, z) = E \cup {e}
          BY <4>1 DEF About
        <4>3. e.ts = TsOf[m] /\ (e.event = "entered" <=> z \in ZonesOf[m])
          OBVIOUS
        <4>4. e.ts \in Nat /\ (e.event = "entered" <=> ~Inside(E))
          BY <1>1, <3>2, <3>4, <4>3
        <4>5. Alternating(E \cup {e}) /\ (Inside(E \cup {e}) <=> e.event = "entered")
          BY <1>1, <3>2, <4>3, <4>4, EventAdded
        <4>6. \A f \in E \cup {e} : f.ts \in Nat /\ f.ts <= TsOf[m]
          BY <1>1, <3>2, <4>3
        <4> QED
          BY <1>4, <3>1, <4>2, <4>3, <4>5, <4>6 DEF Tells
      <3> QED
        BY <3>3, <3>4
    <2> QED
      BY <2>2, <2>3
  <1>6. state' = [state EXCEPT ![r] = S] /\ decided' = [decided EXCEPT ![r] = Remembered(r) \cup found]
    BY DEF Diff
  <1> HIDE DEF S, found
  <1> QED
    BY <1>5, <1>6, LedgersFrom DEF ZoneShapes

LEMMA LedgersKept ==
    ASSUME ZoneShapes, Ledgers, [Next]_vars
    PROVE  Ledgers'
  <1>1. CASE UNCHANGED <<state, decided>>
    BY <1>1 DEF Ledgers
  <1>2. ASSUME NEW r \in Replicas, ActiveAlarms(r) PROVE Ledgers'
    <2>1. \A d \in Drones, z \in Zones : Tells(About(Remembered(r), d, z), z, Pruned(r)[d])
      BY PrunedTells DEF ZoneShapes
    <2>2. state' = [state EXCEPT ![r] = Pruned(r)] /\ decided' = [decided EXCEPT ![r] = Remembered(r)]
      BY <1>2 DEF ActiveAlarms
    <2> QED
      BY <2>1, <2>2, LedgersFrom DEF ZoneShapes
  <1>3. ASSUME NEW r \in Replicas, Crash(r) PROVE Ledgers'
    <2> PICK S : S = [d \in Drones |-> Unknown]
      OBVIOUS
    <2>1. \A d \in Drones, z \in Zones : Tells(About({}, d, z), z, S[d])
      <3>1. \A d, z : About({}, d, z) = {}
        BY DEF About
      <3> QED
        BY <3>1, NothingTold
    <2>2. state' = [state EXCEPT ![r] = S] /\ decided' = [decided EXCEPT ![r] = {}]
      BY <1>3 DEF Crash
    <2> QED
      BY <2>1, <2>2, LedgersFrom DEF ZoneShapes
  <1>4. CASE \/ UNCHANGED vars
             \/ (\E m \in Msgs : Broker(Publish(m)) \/ Broker(Deliver(m))) \/ Broker(Tick)
             \/ \E r \in Replicas, w \in Workers :
                   Skip(r, w) \/ Locate(r, w) \/ PublishAlert(r, w) \/ Ack(r, w)
             \/ Idle
    <2>1. UNCHANGED <<state, decided>>
      BY <1>4 DEF Broker, Skip, Locate, PublishAlert, Ack, Idle, vars, checkVars
    <2> QED
      BY <1>1, <2>1
  <1> QED
    BY <1>2, <1>3, <1>4, StaleTells, DiffTells DEF Next, WorkerStep

\* For as long as a replica remembers a drone, the events diffZones finds for it in each
\* zone go entered, exited, entered, ... in the order of their timestamps, however the
\* workers interleave and whatever is redelivered; and the zones kept for the drone are
\* those it entered last.
THEOREM ZoneEventsAlternate == Spec => []EventsAlternate
  <1>1. Init => ZoneShapes /\ Ledgers
    <2>1. ASSUME Init, NEW r \in Replicas, NEW d \in Drones, NEW z \in Zones
          PROVE  Tells(About(decided[r], d, z), z, state[r][d])
      <3>1. About(decided[r], d, z) = {} /\ state[r][d] = Unknown
        BY <2>1 DEF Init, About
      <3> QED
        BY <3>1, NothingTold
    <2> QED
      BY <2>1, ZoneInitShapes DEF Ledgers
  <1>2. ZoneShapes /\ Ledgers /\ [Next]_vars => (ZoneShapes /\ Ledgers)'
    BY ZoneNextShapes, LedgersKept
  <1>3. Ledgers => EventsAlternate
    <2> SUFFICES ASSUME Ledgers, NEW r \in Replicas, NEW d \in Drones, NEW z \in Zones
                 PROVE  LET all == {e \in decided[r] : e.drone = d /\ e.zone = z}
                            in  == {e \in all : e.event = "entered"}
                            out == all \ in
                        IN
                        /\ \A e, f \in all : e.ts = f.ts => e = f
                        /\ \A e \in all :
                             e.event = "entered" <=>
                                 Cardinality(Before(r, e) \cap in) = Cardinality(Before(r, e) \cap out)
                        /\ (z \in state[r][d].zones) <=> (Cardinality(in) = Cardinality(out) + 1)
      BY Zenon DEF EventsAlternate
    <2> DEFINE E == {e \in decided[r] : e.drone = d /\ e.zone = z}
    <2>1. Tells(E, z, state[r][d])
      BY DEF Ledgers, About
    <2>2. ASSUME NEW e \in E
          PROVE  /\ Before(r, e) \cap Entries(E) = Earlier(E, e) \cap Entries(E)
                 /\ Before(r, e) \cap (E \ Entries(E)) = Earlier(E, e) \ Entries(E)
      BY DEF Before, Earlier, Entries
    <2>3. /\ \A e, f \in E : e.ts = f.ts => e = f
          /\ \A e \in E : e.event = "entered" <=>
                Cardinality(Before(r, e) \cap Entries(E)) = Cardinality(Before(r, e) \cap (E \ Entries(E)))
          /\ (z \in state[r][d].zones) <=> (Cardinality(Entries(E)) = Cardinality(E \ Entries(E)) + 1)
      <3> HIDE DEF E
      <3> QED
        BY <2>1, <2>2 DEF Tells, Alternating, Inside
    <2> QED
      BY <2>3, Zenon DEF Entries
  <1> QED
    BY <1>1, <1>2, <1>3, PTL DEF Spec

-----------------------------------------------------------------------------
(* Swarms.                                                                 *)

\* A set of positions with a last one.
LEMMA LastOf ==
    ASSUME NEW n \in Nat, NEW K \in SUBSET (1..n), K # {}
    PROVE  \E k \in K : \A j \in K : j <= k
  <1> DEFINE T == {n - k : k \in K}
  <1>1. \A k \in K : k \in Nat /\ n - k \in Nat
    OBVIOUS
  <1>2. T \subseteq Nat /\ T # {}
    BY <1>1
  <1>3. PICK t \in T : \A u \in T : <<u, t>> \notin OpToRel(<, Nat)
    BY <1>2, NatLessThanWellFounded, WFMin
  <1>4. PICK k \in K : t = n - k
    OBVIOUS
  <1>5. ASSUME NEW j \in K PROVE j <= k
    <2>1. n - j \in T /\ n - j \in Nat /\ n - k \in Nat /\ j \in Nat /\ k \in Nat
      BY <1>1
    <2>2. ~(n - j < n - k)
      BY <1>3, <1>4, <2>1 DEF OpToRel
    <2> QED
      BY <2>1, <2>2
  <1> QED
    BY <1>5

\* The constants of the detector.
LEMMA SwarmBounds ==
    /\ IsFiniteSet(SwarmDrones) /\ MinSize \in Nat /\ MinSize >= 2 /\ PositionTTL \in Nat
    /\ MaxSwarms \in Nat /\ SwarmIDs = 1..MaxSwarms
  BY SwarmAssumption DEF SwarmIDs

\* Clusters are groups of tracked drones that have no drone in common.
LEMMA ClustersOfDrones ==
    ASSUME NEW points \in Orders(Tracked)
    PROVE  /\ Clusters(points) \subseteq SUBSET SwarmDrones /\ IsFiniteSet(Clusters(points))
           /\ Cardinality(Clusters(points)) \in Nat
           /\ \A g \in Clusters(points) : IsFiniteSet(g) /\ g # {} /\ Cardinality(g) >= MinSize
           /\ \A g, h \in Clusters(points) : g # h => g \cap h = {}
  <1> PICK root : root = Roots(points)
    OBVIOUS
  <1>1. Range(points) \subseteq SwarmDrones
    BY DEF Orders, Range, Tracked
  <1>2. Clusters(points) \subseteq SUBSET SwarmDrones
    BY <1>1 DEF Clusters, Groups
  <1>3. IsFiniteSet(Clusters(points))
    BY <1>2, SwarmBounds, FS_SUBSET, FS_Subset
  <1>4. \A g \in Clusters(points) : IsFiniteSet(g) /\ Cardinality(g) >= MinSize
    BY <1>2, SwarmBounds, FS_Subset DEF Clusters
  <1>5. \A g \in Clusters(points) : g # {}
    BY <1>4, SwarmBounds, FS_EmptySet
  <1>6. ASSUME NEW g \in Clusters(points), NEW h \in Clusters(points), NEW e \in g \cap h
        PROVE  g = h
    <2>1. PICK a \in Range(points) : g = {x \in Range(points) : root[x] = root[a]}
      BY DEF Clusters, Groups
    <2>2. PICK b \in Range(points) : h = {x \in Range(points) : root[x] = root[b]}
      BY DEF Clusters, Groups
    <2>3. root[a] = root[b]
      BY <2>1, <2>2
    <2> QED
      BY <2>1, <2>2, <2>3
  <1> QED
    BY <1>2, <1>3, <1>4, <1>5, <1>6, FS_CardinalityType

\* Swarms overlap a cluster when they share a drone with it.
LEMMA Overlaps ==
    ASSUME SwarmsTypeOK, NEW g \in SUBSET SwarmDrones, NEW i \in SwarmIDs
    PROVE  /\ Overlap(g, i) \in Nat
           /\ Overlap(g, i) > 0 <=> g \cap swarms[i] # {}
  <1>1. IsFiniteSet(g \cap swarms[i])
    BY SwarmBounds, FS_Subset
  <1>2. Cardinality(g \cap swarms[i]) \in Nat /\ (Cardinality(g \cap swarms[i]) = 0 <=> g \cap swarms[i] = {})
    BY <1>1, FS_CardinalityType, FS_EmptySet
  <1> QED
    BY <1>2 DEF Overlap

\* The number of a cluster is that of a swarm with which it shares a drone, or the one
\* after the numbers given out before it.
LEMMA NumbersMatched ==
    ASSUME SwarmsTypeOK, SwarmsDisjoint, NEW C, C \subseteq SUBSET SwarmDrones, Cardinality(C) \in Nat,
           NEW order \in Orders(C), NEW match \in [DOMAIN order -> SwarmIDs], Matches(order, match),
           NEW k \in 1..Cardinality(C)
    PROVE  /\ DOMAIN order = 1..Cardinality(C) /\ order[k] \in C /\ match[k] \in SwarmIDs
           /\ \A l \in 1..Cardinality(C) : order[l] = order[k] => l = k
           /\ \/ match[k] <= nextSwarm /\ order[k] \cap swarms[match[k]] # {}
              \/ /\ match[k] = NewNumber(k, match)
                 /\ Cardinality({l \in 1..(k - 1) : match[l] > nextSwarm}) \in Nat
                 /\ match[k] > nextSwarm
                 /\ BestMatches(order[k], ClaimedBefore(k, match)) = {}
  <1>1. /\ DOMAIN order = 1..Cardinality(C) /\ order[k] \in C /\ match[k] \in SwarmIDs
        /\ \A l \in 1..Cardinality(C) : order[l] = order[k] => l = k
    BY DEF Orders, IsInjective
  <1>2. IF BestMatches(order[k], ClaimedBefore(k, match)) # {} THEN match[k] \in BestMatches(order[k], ClaimedBefore(k, match))
        ELSE match[k] = NewNumber(k, match)
    BY <1>1 DEF Matches
  <1>3. CASE match[k] \in BestMatches(order[k], ClaimedBefore(k, match))
    <2>1. Overlap(order[k], match[k]) > 0
      BY <1>3 DEF BestMatches, Claimable
    <2>2. order[k] \cap swarms[match[k]] # {}
      BY <1>1, <2>1, Overlaps
    <2>3. match[k] <= nextSwarm
      BY <1>1, <2>2 DEF SwarmsDisjoint
    <2> QED
      BY <1>1, <2>2, <2>3
  <1>4. CASE match[k] = NewNumber(k, match) /\ BestMatches(order[k], ClaimedBefore(k, match)) = {}
    <2>1. IsFiniteSet(1..(k - 1))
      BY FS_Interval
    <2>2. IsFiniteSet({l \in 1..(k - 1) : match[l] > nextSwarm})
      BY <2>1, FS_Subset
    <2>3. Cardinality({l \in 1..(k - 1) : match[l] > nextSwarm}) \in Nat
      BY <2>2, FS_CardinalityType
    <2>4. match[k] > nextSwarm
      <3> PICK before : before = Cardinality({l \in 1..(k - 1) : match[l] > nextSwarm})
        OBVIOUS
      <3>1. match[k] = nextSwarm + 1 + before
        BY <1>4 DEF NewNumber
      <3>2. before \in Nat /\ nextSwarm \in Nat
        BY <2>3, SwarmBounds DEF SwarmsTypeOK
      <3> QED
        BY <3>1, <3>2
    <2> QED
      BY <1>1, <1>4, <2>3, <2>4
  <1> QED
    BY <1>2, <1>3, <1>4

\* A cluster that shares a drone with a swarm and with no other swarm has its number, or an
\* earlier cluster that shares a drone with the swarm has.
LEMMA SwarmClaimed ==
    ASSUME SwarmsTypeOK, SwarmsDisjoint, NEW C, C \subseteq SUBSET SwarmDrones, Cardinality(C) \in Nat,
           NEW order \in Orders(C), NEW match \in [DOMAIN order -> SwarmIDs], Matches(order, match),
           NEW k \in 1..Cardinality(C), NEW i \in SwarmIDs, order[k] \cap swarms[i] # {},
           \A l \in SwarmIDs \ {i} : order[k] \cap swarms[l] = {}
    PROVE  \E l \in 1..Cardinality(C) : match[l] = i
  <1> PICK claimed : claimed = ClaimedBefore(k, match)
    OBVIOUS
  <1>1. /\ order[k] \in C /\ match[k] \in SwarmIDs
        /\ \/ match[k] <= nextSwarm /\ order[k] \cap swarms[match[k]] # {}
           \/ BestMatches(order[k], claimed) = {}
    BY NumbersMatched
  <1>2. CASE order[k] \cap swarms[match[k]] # {}
    BY <1>1, <1>2
  <1>3. CASE BestMatches(order[k], claimed) = {}
    <2>1. Overlap(order[k], i) > 0 /\ \A l \in SwarmIDs \ {i} : ~(Overlap(order[k], l) > 0)
      BY <1>1, Overlaps
    <2>2. CASE i \in claimed
      <3>1. PICK l \in 1..(k - 1) : match[l] = i
        BY <2>2 DEF ClaimedBefore
      <3> QED
        BY <3>1
    <2>3. CASE i \notin claimed
      <3>1. Claimable(order[k], claimed) = {i}
        BY <2>1, <2>3 DEF Claimable
      <3>2. Overlap(order[k], i) \in Nat
        BY <1>1, Overlaps
      <3>3. i \in BestMatches(order[k], claimed)
        BY <3>1, <3>2 DEF BestMatches
      <3> QED
        BY <1>3, <3>3
    <2> QED
      BY <2>2, <2>3
  <1> QED
    BY <1>1, <1>2, <1>3

\* An ID in use stands for one of the clusters that were matched with it.
LEMMA ClusterOfID ==
    ASSUME NEW C, Cardinality(C) \in Nat, NEW order \in Orders(C), NEW match \in [DOMAIN order -> SwarmIDs],
           NEW i
    PROVE  \/ /\ Replaced(order, MatchedWith(match, i)) = {}
              /\ \A k \in 1..Cardinality(C) : match[k] # i
           \/ \E k \in 1..Cardinality(C) : /\ match[k] = i
                                          /\ Replaced(order, MatchedWith(match, i)) = order[k]
  <1> DEFINE ks == MatchedWith(match, i)
  <1> USE DEF MatchedWith
  <1>1. DOMAIN match = 1..Cardinality(C)
    BY DEF Orders
  <1>2. CASE ks = {}
    BY <1>1, <1>2 DEF Replaced
  <1>3. CASE ks # {}
    <2>1. ks \subseteq 1..Cardinality(C)
      BY <1>1
    <2>2. \E k \in ks : \A j \in ks : j <= k
      <3> HIDE DEF ks
      <3> QED
        BY <1>3, <2>1, LastOf
    <2>3. PICK k \in ks : Replaced(order, ks) = order[k]
      <3> HIDE DEF ks
      <3> QED
        BY <1>3, <2>2 DEF Replaced
    <2> QED
      BY <1>1, <2>3
  <1> QED
    BY <1>2, <1>3

\* The numbers given out are those after nextSwarm, one for each new swarm.
LEMMA NumbersGivenOut ==
    ASSUME SwarmsTypeOK, SwarmsDisjoint, NEW C, C \subseteq SUBSET SwarmDrones, Cardinality(C) \in Nat,
           NEW order \in Orders(C), NEW match \in [DOMAIN order -> SwarmIDs], Matches(order, match)
    PROVE  /\ nextSwarm + Cardinality(Founding(match)) \in 0..MaxSwarms
           /\ \A k \in DOMAIN match : match[k] <= nextSwarm + Cardinality(Founding(match))
  <1> PICK n : n = Cardinality(C)
    OBVIOUS
  <1> DEFINE new == {k \in DOMAIN match : match[k] > nextSwarm}
             before(k) == {l \in 1..(k - 1) : match[l] > nextSwarm}
  <1>1. DOMAIN match = 1..n /\ n \in Nat /\ nextSwarm \in Nat /\ \A k \in 1..n : match[k] \in 1..MaxSwarms
    BY SwarmBounds DEF Orders, SwarmsTypeOK
  <1>2. new \subseteq 1..n /\ IsFiniteSet(new) /\ Cardinality(new) \in Nat
    <2>1. new \subseteq 1..n /\ IsFiniteSet(1..n)
      BY <1>1, FS_Interval
    <2> HIDE DEF new
    <2> QED
      BY <2>1, FS_Subset, FS_CardinalityType
  <1>3. ASSUME NEW k \in new
        PROVE  match[k] = nextSwarm + 1 + Cardinality(before(k)) /\ Cardinality(before(k)) \in Nat
    <2>1. k \in 1..Cardinality(C) /\ ~(match[k] <= nextSwarm)
      BY <1>1, <1>2
    <2> QED
      BY <2>1, NumbersMatched DEF NewNumber
  <1>4. ASSUME NEW k \in new PROVE before(k) \subseteq new \ {k}
    BY <1>1, <1>2
  <1>5. ASSUME NEW k \in new PROVE Cardinality(new \ {k}) = Cardinality(new) - 1 /\ IsFiniteSet(new \ {k})
    <2> HIDE DEF new
    <2> QED
      BY <1>2, FS_RemoveElement
  <1>6. ASSUME NEW k \in new PROVE match[k] <= nextSwarm + Cardinality(new)
    <2>1. Cardinality(before(k)) <= Cardinality(new) - 1
      <3>1. before(k) \subseteq new \ {k} /\ IsFiniteSet(new \ {k}) /\ Cardinality(new \ {k}) = Cardinality(new) - 1
        BY <1>4, <1>5
      <3> HIDE DEF new, before
      <3> QED
        BY <3>1, FS_Subset
    <2>2. match[k] = nextSwarm + 1 + Cardinality(before(k)) /\ Cardinality(before(k)) \in Nat
      BY <1>3
    <2> HIDE DEF new, before
    <2> QED
      BY <1>1, <1>2, <2>1, <2>2
  <1>7. ASSUME NEW k \in 1..n, k \notin new PROVE match[k] <= nextSwarm + Cardinality(new)
    <2>1. match[k] <= nextSwarm /\ match[k] \in Nat
      BY <1>1, <1>7
    <2> HIDE DEF new
    <2> QED
      BY <1>1, <1>2, <2>1
  <1>8. nextSwarm + Cardinality(new) \in 0..MaxSwarms
    <2>1. CASE new = {}
      <3>1. Cardinality(new) = 0
        <4> HIDE DEF new
        <4> QED
          BY <2>1, FS_EmptySet
      <3> HIDE DEF new
      <3> QED
        BY <3>1 DEF SwarmsTypeOK
    <2>2. CASE new # {}
      <3>1. PICK k \in new : \A j \in new : j <= k
        <4> HIDE DEF new
        <4> QED
          BY <1>1, <1>2, <2>2, LastOf
      <3>2. new \ {k} \subseteq before(k)
        BY <1>1, <1>2, <3>1
      <3>3. before(k) = new \ {k}
        BY <1>4, <3>2
      <3>4. match[k] = nextSwarm + 1 + Cardinality(new \ {k}) /\ match[k] \in 1..MaxSwarms
        BY <1>1, <1>2, <1>3, <3>3
      <3>5. Cardinality(new \ {k}) = Cardinality(new) - 1
        BY <1>5
      <3> HIDE DEF new
      <3> QED
        BY <1>1, <1>2, <3>4, <3>5
    <2> QED
      BY <2>1, <2>2
  <1> QED
    BY <1>1, <1>6, <1>7, <1>8 DEF Founding

\* Clusters have different drones and swarm numbers that are used or new.
LEMMA NumbersTaken ==
    ASSUME SwarmsTypeOK, SwarmsDisjoint, NEW C, C \subseteq SUBSET SwarmDrones, Cardinality(C) \in Nat,
           NEW order \in Orders(C), NEW match \in [DOMAIN order -> SwarmIDs], Matches(order, match)
    PROVE  /\ DOMAIN order = 1..Cardinality(C)
           /\ \A k \in 1..Cardinality(C) :
                /\ order[k] \in C /\ match[k] \in SwarmIDs
                /\ \A l \in 1..Cardinality(C) : order[l] = order[k] => l = k
                /\ \/ match[k] <= nextSwarm /\ order[k] \cap swarms[match[k]] # {}
                   \/ match[k] > nextSwarm
  <1>1. DOMAIN order = 1..Cardinality(C)
    BY DEF Orders
  <1> QED
    BY <1>1, NumbersMatched

\* An evaluation makes disjoint swarms of the clusters, and keeps the numbers of those
\* that stay one group.
LEMMA EvaluateKeeps ==
    ASSUME SwarmsTypeOK, SwarmsDisjoint, Evaluate
    PROVE  SwarmsTypeOK' /\ SwarmsDisjoint' /\ GroupsKeepNumbers
  <1>1. PICK points \in Orders(Tracked) : \E order \in Orders(Clusters(points)) :
      \E match \in [DOMAIN order -> SwarmIDs] :
        /\ Matches(order, match)
        /\ spot' = [d \in SwarmDrones |-> IF d \in Tracked THEN spot[d] ELSE Somewhere]
        /\ spotAge' = [d \in SwarmDrones |-> IF d \in Tracked THEN spotAge[d] ELSE NotTracked]
        /\ swarms' = [id \in SwarmIDs |-> Replaced(order, MatchedWith(match, id))]
        /\ nextSwarm' = nextSwarm + Cardinality(Founding(match))
    BY DEF Evaluate
  <1>2. PICK order \in Orders(Clusters(points)) : \E match \in [DOMAIN order -> SwarmIDs] :
        /\ Matches(order, match)
        /\ spot' = [d \in SwarmDrones |-> IF d \in Tracked THEN spot[d] ELSE Somewhere]
        /\ spotAge' = [d \in SwarmDrones |-> IF d \in Tracked THEN spotAge[d] ELSE NotTracked]
        /\ swarms' = [id \in SwarmIDs |-> Replaced(order, MatchedWith(match, id))]
        /\ nextSwarm' = nextSwarm + Cardinality(Founding(match))
    BY <1>1
  <1>3. PICK match \in [DOMAIN order -> SwarmIDs] :
        /\ Matches(order, match)
        /\ spot' = [d \in SwarmDrones |-> IF d \in Tracked THEN spot[d] ELSE Somewhere]
        /\ spotAge' = [d \in SwarmDrones |-> IF d \in Tracked THEN spotAge[d] ELSE NotTracked]
        /\ swarms' = [id \in SwarmIDs |-> Replaced(order, MatchedWith(match, id))]
        /\ nextSwarm' = nextSwarm + Cardinality(Founding(match))
    BY <1>2
  <1>4. PICK C, n : C = Clusters(points) /\ n = Cardinality(C)
    OBVIOUS
  <1>5. /\ C \subseteq SUBSET SwarmDrones /\ n \in Nat
        /\ \A g \in C : IsFiniteSet(g) /\ g # {} /\ Cardinality(g) >= MinSize
        /\ \A g, h \in C : g # h => g \cap h = {}
    BY <1>4, ClustersOfDrones
  <1>6. ASSUME NEW k \in 1..n
        PROVE  /\ order[k] \in C /\ match[k] \in SwarmIDs /\ k \in DOMAIN match
               /\ \A l \in 1..n : order[l] = order[k] => l = k
               /\ \/ match[k] <= nextSwarm /\ order[k] \cap swarms[match[k]] # {}
                  \/ match[k] > nextSwarm
    <2>1. /\ order \in Orders(C) /\ match \in [DOMAIN order -> SwarmIDs] /\ Matches(order, match)
          /\ Cardinality(C) \in Nat /\ k \in 1..Cardinality(C) /\ n = Cardinality(C)
      BY <1>3, <1>4, <1>5
    <2>2. /\ DOMAIN order = 1..Cardinality(C) /\ order[k] \in C /\ match[k] \in SwarmIDs
          /\ \A l \in 1..Cardinality(C) : order[l] = order[k] => l = k
          /\ \/ match[k] <= nextSwarm /\ order[k] \cap swarms[match[k]] # {}
             \/ match[k] > nextSwarm
      BY <1>5, <2>1, NumbersTaken
    <2> QED
      BY <2>1, <2>2
  <1>7. ASSUME NEW i \in SwarmIDs
        PROVE  \/ swarms'[i] = {} /\ \A k \in 1..n : match[k] # i
               \/ \E k \in 1..n : match[k] = i /\ swarms'[i] = order[k]
    <2>1. swarms'[i] = Replaced(order, MatchedWith(match, i))
      BY <1>3
    <2>2. /\ order \in Orders(C) /\ match \in [DOMAIN order -> SwarmIDs]
          /\ Cardinality(C) \in Nat /\ n = Cardinality(C)
      BY <1>4, <1>5
    <2> QED
      BY <2>1, <2>2, ClusterOfID
  <1>8. /\ nextSwarm' \in 0..MaxSwarms
        /\ \A k \in 1..n : match[k] <= nextSwarm'
    <2>1. \A k \in 1..n : k \in DOMAIN match
      BY <1>6
    <2> QED
      BY <1>3, <1>4, <1>5, <2>1, NumbersGivenOut
  <1>9. SwarmsTypeOK'
    <2>1. \A i \in SwarmIDs : swarms'[i] \in SUBSET SwarmDrones
      BY <1>5, <1>6, <1>7
    <2>2. swarms' \in [SwarmIDs -> SUBSET SwarmDrones]
      BY <1>3, <2>1
    <2>3. spot' \in [SwarmDrones -> Spots] /\ spotAge' \in [SwarmDrones -> NotTracked..(PositionTTL + 1)]
      <3>1. Somewhere \in Spots
        BY SwarmAssumption DEF Somewhere
      <3>2. NotTracked \in NotTracked..(PositionTTL + 1)
        BY SwarmBounds DEF NotTracked
      <3> QED
        BY <1>3, <3>1, <3>2 DEF SwarmsTypeOK
    <2> QED
      BY <1>8, <2>2, <2>3 DEF SwarmsTypeOK
  <1>10. SwarmsDisjoint'
    <2> SUFFICES ASSUME NEW i \in SwarmIDs, swarms'[i] # {}
                 PROVE  /\ Cardinality(swarms'[i]) >= MinSize
                        /\ i <= nextSwarm'
                        /\ \A j \in SwarmIDs : i # j => swarms'[i] \cap swarms'[j] = {}
      BY DEF SwarmsDisjoint
    <2>1. PICK k \in 1..n : match[k] = i /\ swarms'[i] = order[k]
      BY <1>7
    <2>2. Cardinality(swarms'[i]) >= MinSize /\ i <= nextSwarm'
      BY <1>5, <1>6, <1>8, <2>1
    <2>3. ASSUME NEW j \in SwarmIDs, i # j PROVE swarms'[i] \cap swarms'[j] = {}
      <3>1. CASE swarms'[j] = {}
        BY <3>1
      <3>2. CASE swarms'[j] # {}
        <4>1. PICK l \in 1..n : match[l] = j /\ swarms'[j] = order[l]
          BY <1>7, <3>2
        <4>2. order[k] # order[l]
          BY <1>6, <2>1, <2>3, <4>1
        <4>3. order[k] \in C /\ order[l] \in C
          BY <1>6
        <4> QED
          BY <1>5, <2>1, <4>1, <4>2, <4>3
      <3> QED
        BY <3>1, <3>2
    <2> QED
      BY <2>2, <2>3
  <1>11. GroupsKeepNumbers
    <2>1. ASSUME NEW i \in SwarmIDs, swarms[i] = {}, swarms'[i] # {} PROVE i > nextSwarm
      <3>1. PICK k \in 1..n : match[k] = i /\ swarms'[i] = order[k]
        BY <1>7, <2>1
      <3> QED
        BY <1>6, <2>1, <3>1
    <2>2. ASSUME NEW i \in SwarmIDs, NEW j \in SwarmIDs,
                 swarms[i] # {}, swarms'[j] \cap swarms[i] # {},
                 \A k \in SwarmIDs \ {j} : swarms'[k] \cap swarms[i] = {},
                 \A k \in SwarmIDs \ {i} : swarms'[j] \cap swarms[k] = {}
          PROVE  i = j
      <3>1. PICK k \in 1..n : match[k] = j /\ swarms'[j] = order[k]
        BY <1>7, <2>2
      <3>2. PICK l \in 1..n : match[l] = i
        BY <1>3, <1>4, <1>5, <2>2, <3>1, SwarmClaimed
      <3>3. PICK q \in 1..n : match[q] = i /\ swarms'[i] = order[q]
        BY <1>7, <3>2
      <3>4. i <= nextSwarm /\ nextSwarm \in Nat /\ i \in Nat
        BY <2>2, SwarmBounds DEF SwarmsDisjoint, SwarmsTypeOK
      <3>5. swarms'[i] \cap swarms[i] # {}
        BY <1>6, <3>3, <3>4
      <3> QED
        BY <2>2, <3>5
    <2> QED
      BY <2>1, <2>2 DEF GroupsKeepNumbers
  <1> QED
    BY <1>9, <1>10, <1>11

\* No swarm is known at first, and every step keeps the swarms apart.
LEMMA SwarmsInitDisjoint ==
    ASSUME SwarmsInit
    PROVE  SwarmsTypeOK /\ SwarmsDisjoint
  <1>1. Somewhere \in Spots
    BY SwarmAssumption DEF Somewhere
  <1> QED
    BY <1>1, SwarmBounds DEF SwarmsInit, SwarmsTypeOK, SwarmsDisjoint, NotTracked

LEMMA SwarmsNextDisjoint ==
    ASSUME SwarmsTypeOK, SwarmsDisjoint, [SwarmsNext]_swarmVars
    PROVE  SwarmsTypeOK' /\ SwarmsDisjoint'
  <1>1. CASE \E d \in SwarmDrones, x \in Spots : ObserveSpot(d, x)
    BY <1>1, SwarmBounds DEF ObserveSpot, SwarmsTypeOK, SwarmsDisjoint, NotTracked
  <1>2. CASE SwarmTick
    BY <1>2, SwarmBounds DEF SwarmTick, SwarmsTypeOK, SwarmsDisjoint, NotTracked
  <1>3. CASE UNCHANGED swarmVars
    BY <1>3 DEF swarmVars, SwarmsTypeOK, SwarmsDisjoint
  <1> QED
    BY <1>1, <1>2, <1>3, EvaluateKeeps DEF SwarmsNext

\* Evaluate: no drone is in two swarms, a swarm has MinSize drones at least, and a number
\* in use was given out, in whichever order matchLocked meets clusters and swarms.
THEOREM SwarmsStayDisjoint == SwarmsSpec => [](SwarmsTypeOK /\ SwarmsDisjoint)
  <1>1. SwarmsInit => SwarmsTypeOK /\ SwarmsDisjoint
    BY SwarmsInitDisjoint
  <1>2. SwarmsTypeOK /\ SwarmsDisjoint /\ [SwarmsNext]_swarmVars => (SwarmsTypeOK /\ SwarmsDisjoint)'
    BY SwarmsNextDisjoint
  <1> QED
    BY <1>1, <1>2, PTL DEF SwarmsSpec

\* matchLocked: a swarm keeps its ID while it is one group, and no number is given to a
\* second swarm.
THEOREM SwarmsKeepIdentity == SwarmsSpec => IdentityKept
  <1>1. SwarmsTypeOK /\ SwarmsDisjoint /\ [SwarmsNext]_swarmVars => [GroupsKeepNumbers]_swarmVars
    <2> SUFFICES ASSUME SwarmsTypeOK, SwarmsDisjoint, SwarmsNext
                 PROVE  GroupsKeepNumbers
      OBVIOUS
    <2>1. CASE (\E d \in SwarmDrones, x \in Spots : ObserveSpot(d, x)) \/ SwarmTick
      <3>1. swarms' = swarms
        BY <2>1 DEF ObserveSpot, SwarmTick
      <3> QED
        BY <3>1 DEF GroupsKeepNumbers
    <2> QED
      BY <2>1, EvaluateKeeps DEF SwarmsNext
  <1> QED
    BY <1>1, SwarmsStayDisjoint, PTL DEF SwarmsSpec, IdentityKept

-----------------------------------------------------------------------------
(* The parts together.                                                     *)

PartsInv ==
    /\ ZoneShapes /\ RegistryInv /\ StartupInv /\ PresenceTypeOK
    /\ SwarmsTypeOK /\ SwarmsDisjoint

\* A step is one of each part, or leaves its variables alone.
LEMMA PartsStep ==
    ASSUME [PartsNext]_partsVars
    PROVE  /\ [Next]_vars /\ [RegistriesNext]_registryVars /\ [StartupNext]_startupVars
           /\ [SwarmsNext]_swarmVars /\ [PresenceNext]_presenceVars
  <1>1. CASE UNCHANGED partsVars
    BY <1>1 DEF partsVars
  <1>2. CASE PartsNext
    BY <1>2, Zenon DEF PartsNext, Others
  <1> QED
    BY <1>1, <1>2

\* The variables of all parts keep their shapes, whichever of them is at work.
THEOREM PartsTyped == PartsSpec => []PartsTypeOK
  <1>1. PartsInit => PartsInv
    BY ZoneInitShapes, RegistryInitInv, StartupInitInv, PresenceInitTypes, SwarmsInitDisjoint
       DEF PartsInit, PartsInv
  <1>2. PartsInv /\ [PartsNext]_partsVars => PartsInv'
    BY PartsStep, ZoneNextShapes, RegistryNextInv, StartupNextInv, PresenceNextTypes,
       SwarmsNextDisjoint DEF PartsInv
  <1>3. PartsInv => PartsTypeOK
    BY RegistryInvTypes, StartupInvTypes DEF PartsInv, PartsTypeOK, ZoneShapes
  <1> QED
    BY <1>1, <1>2, <1>3, PTL DEF PartsSpec

=============================================================================
