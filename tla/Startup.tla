------------------------------ MODULE Startup -------------------------------
(***************************************************************************)
(* How geofence replicas that start together prepare the database          *)
(* (newDependencies in cmd/geofence/setup.go): Migrate under an advisory   *)
(* lock (internal/repository/postgres/migrate.go), SeedOblasts without one *)
(* (seed.go), and ListZones, which a replica calls once and keeps.         *)
(*                                                                         *)
(* The advisory lock belongs to the session of one connection of the pool; *)
(* the migrations run on others.  If that connection breaks, PostgreSQL    *)
(* frees the lock while the replica goes on.  Every step may fail or the   *)
(* process may die; it is then started again.                              *)
(***************************************************************************)
EXTENDS Integers, Sequences, SequencesExt

CONSTANTS
    Starters,        \* replicas
    NumMigrations,   \* files in migrations/, in order of their versions
    NumOblasts,      \* features of oblasts.geojson
    MaxStartFaults,  \* bound: steps that fail, processes that die
    MaxLockLosses    \* bound: lock connections that break

\* SeedOblasts refuses an embedded file without features.
ASSUME StartupAssumption ==
    /\ {NumMigrations, NumOblasts, MaxStartFaults, MaxLockLosses} \subseteq Nat
    /\ NumOblasts # 0

Nobody == "nobody"
NotListed == {0}
OblastIDs == 1..NumOblasts

VARIABLES
    stage,     \* lock, migrate, apply, count, seed, list, up
    at,        \* the migration or oblast a replica comes to next
    holder,    \* who holds the advisory lock
    applied,   \* schema_migrations, in commit order
    oblasts,   \* rows of the table oblasts
    counted,   \* whether the replica found the table empty and seeds it
    listed,    \* deps.oblasts
    startFaults,
    lockLosses

startupVars == <<stage, at, holder, applied, oblasts, counted, listed, startFaults, lockLosses>>

StartupInit ==
    /\ stage = [r \in Starters |-> "lock"]
    /\ at = [r \in Starters |-> 1]
    /\ holder = Nobody
    /\ applied = <<>>
    /\ oblasts = {}
    /\ counted = [r \in Starters |-> FALSE]
    /\ listed = [r \in Starters |-> NotListed]
    /\ startFaults = 0
    /\ lockLosses = 0

Enter(r, s) == stage' = [stage EXCEPT ![r] = s]

-----------------------------------------------------------------------------
(* Migrate.                                                                *)

\* pg_advisory_lock on the lock connection.
TakeLock(r) ==
    /\ stage[r] = "lock" /\ holder = Nobody
    /\ holder' = r
    /\ Enter(r, "migrate")
    /\ at' = [at EXCEPT ![r] = 1]
    /\ UNCHANGED <<applied, oblasts, counted, listed, startFaults, lockLosses>>

\* The last of the embedded files, in the order of their versions.
LastMigration == NumMigrations

Recorded(v) == Contains(applied, v)

\* The next migration is looked up, and skipped if it is recorded.
CheckMigration(r) ==
    /\ stage[r] = "migrate" /\ at[r] <= LastMigration
    /\ IF Recorded(at[r])
       THEN /\ at' = [at EXCEPT ![r] = @ + 1]
            /\ UNCHANGED stage
       ELSE /\ Enter(r, "apply")
            /\ UNCHANGED at
    /\ UNCHANGED <<holder, applied, oblasts, counted, listed, startFaults, lockLosses>>

\* Mutant: the record carries no primary key.
CommitsAnyway(v) == TRUE

\* The transaction of a migration commits unless its version was recorded in the
\* meantime: version is the primary key of schema_migrations.
Commits(v) == ~Recorded(v)

\* applyMigration: the migration and its record in one transaction.
ApplyMigration(r) ==
    /\ stage[r] = "apply" /\ Commits(at[r])
    /\ applied' = Append(applied, at[r])
    /\ at' = [at EXCEPT ![r] = @ + 1]
    /\ Enter(r, "migrate")
    /\ UNCHANGED <<holder, oblasts, counted, listed, startFaults, lockLosses>>

\* The conflict makes Migrate return an error and the process exit.
Conflict(r) ==
    /\ stage[r] = "apply" /\ ~Commits(at[r])
    /\ Enter(r, "lock")
    /\ holder' = IF holder = r THEN Nobody ELSE holder
    /\ UNCHANGED <<at, applied, oblasts, counted, listed, startFaults, lockLosses>>

\* The deferred unlock, which does nothing if the lock was lost.
Unlock(r) ==
    /\ stage[r] = "migrate" /\ at[r] > LastMigration
    /\ holder' = IF holder = r THEN Nobody ELSE holder
    /\ Enter(r, "count")
    /\ UNCHANGED <<at, applied, oblasts, counted, listed, startFaults, lockLosses>>

-----------------------------------------------------------------------------
(* SeedOblasts and ListZones.                                              *)

\* count(*): only a replica that finds no oblast seeds them.
CountOblasts(r) ==
    /\ stage[r] = "count"
    /\ counted' = [counted EXCEPT ![r] = (oblasts = {})]
    /\ at' = [at EXCEPT ![r] = 1]
    /\ Enter(r, IF oblasts = {} THEN "seed" ELSE "list")
    /\ UNCHANGED <<holder, applied, oblasts, listed, startFaults, lockLosses>>

\* The loop goes on whether or not the name conflicted (ON CONFLICT DO NOTHING).
AfterInsert(r) == at[r] + 1

\* The last feature of the embedded file.
LastOblast == NumOblasts

\* One INSERT, in a transaction of its own.
InsertOblast(r) ==
    /\ stage[r] = "seed" /\ at[r] <= LastOblast
    /\ oblasts' = oblasts \cup {at[r]}
    /\ at' = [at EXCEPT ![r] = AfterInsert(r)]
    /\ UNCHANGED <<stage, holder, applied, counted, listed, startFaults, lockLosses>>

Seeded(r) ==
    /\ stage[r] = "seed" /\ at[r] > LastOblast
    /\ Enter(r, "list")
    /\ UNCHANGED <<at, holder, applied, oblasts, counted, listed, startFaults, lockLosses>>

\* ListZones: the list is kept for as long as the replica runs.
ListZones(r) ==
    /\ stage[r] = "list"
    /\ listed' = [listed EXCEPT ![r] = oblasts]
    /\ Enter(r, "up")
    /\ UNCHANGED <<at, holder, applied, oblasts, counted, startFaults, lockLosses>>

-----------------------------------------------------------------------------
(* Failures.                                                               *)

\* A statement fails or times out, or the process dies: newDependencies starts
\* from the beginning in a new process.
StartAgain(r) ==
    /\ startFaults < MaxStartFaults
    /\ startFaults' = startFaults + 1
    /\ Enter(r, "lock")
    /\ counted' = [counted EXCEPT ![r] = FALSE]
    /\ listed' = [listed EXCEPT ![r] = NotListed]
    /\ holder' = IF holder = r THEN Nobody ELSE holder
    /\ UNCHANGED <<at, applied, oblasts, lockLosses>>

\* The connection that holds the lock breaks.
LoseLock ==
    /\ holder # Nobody /\ lockLosses < MaxLockLosses
    /\ lockLosses' = lockLosses + 1
    /\ holder' = Nobody
    /\ UNCHANGED <<stage, at, applied, oblasts, counted, listed, startFaults>>

\* Every replica is up.
AllUp == (\A r \in Starters : stage[r] = "up") /\ UNCHANGED startupVars

StartupStep(r) ==
    \/ TakeLock(r) \/ CheckMigration(r) \/ ApplyMigration(r) \/ Conflict(r) \/ Unlock(r)
    \/ CountOblasts(r) \/ InsertOblast(r) \/ Seeded(r) \/ ListZones(r)

StartupNext ==
    \/ \E r \in Starters : StartupStep(r) \/ StartAgain(r)
    \/ LoseLock
    \/ AllUp

StartupSpec == StartupInit /\ [][StartupNext]_startupVars

-----------------------------------------------------------------------------
(* Properties.                                                             *)

\* The shapes of the variables.
StartupTypeOK ==
    /\ stage \in [Starters -> {"lock", "migrate", "apply", "count", "seed", "list", "up"}]
    /\ \A r \in Starters : at[r] \in 1..(NumMigrations + 1) \cup 1..(NumOblasts + 1)
    /\ holder \in Starters \cup {Nobody}
    /\ oblasts \subseteq OblastIDs
    /\ counted \in [Starters -> BOOLEAN]
    /\ \A r \in Starters : listed[r] = NotListed \/ listed[r] \subseteq OblastIDs

\* Each migration is applied once and after those before it, even by replicas
\* that both believe they hold the lock; and no replica goes on before the
\* schema is complete.
MigratedInOrder ==
    /\ \A i \in DOMAIN applied : applied[i] = i
    /\ \A r \in Starters : stage[r] \in {"count", "seed", "list", "up"} => Len(applied) = NumMigrations

\* A replica that seeded the oblasts itself knows all of them, whoever else was
\* seeding at the time.
SeederKnowsAll ==
    \A r \in Starters : stage[r] = "up" /\ counted[r] => listed[r] = OblastIDs

\* Seeding stays unfinished only behind a failure: with none, once some replica
\* is past it and none is at it, every oblast is in the table.
SeededUnlessFaults ==
    /\ startFaults = 0
    /\ \E r \in Starters : stage[r] \in {"list", "up"}
    /\ \A r \in Starters : stage[r] # "seed"
    => oblasts = OblastIDs

\* Whatever fails on the way and however many replicas seed at once, what is missing
\* from the table, or from the list a replica keeps, is a tail of the file: no oblast
\* is skipped, and no replica comes up knowing none.
OnlyATailMissing ==
    LET Beginnings == {1..n : n \in OblastIDs} IN
    /\ oblasts \in Beginnings \cup {{}}
    /\ \A r \in Starters : stage[r] = "up" => listed[r] \in Beginnings

\* What a replica relies on once it is past the preparation of the database.
PreparedWhenUp ==
    MigratedInOrder /\ SeederKnowsAll /\ SeededUnlessFaults /\ OnlyATailMissing

=============================================================================
