------------------------------- MODULE Fusion -------------------------------
(***************************************************************************)
(* The sensor fusion engine of the server (internal/fusion/fuser.go): the  *)
(* shards, each with a lock, its tracks and two indexes over them, the     *)
(* calls of Resolve by the ingest streams and the periodic Sweep.          *)
(*                                                                         *)
(* A place is a fine grid cell, places are numbered along a line, and a    *)
(* shard owns the places ShardOf gives it.  The Kalman filter is floating  *)
(* point: after an update its estimate may be in any place, and a track    *)
(* in reach passes the gates or does not.                                  *)
(*                                                                         *)
(* Instants are kept as ages.  Resolve and Sweep read the clock before     *)
(* they wait for a shard's lock, so when they act their "now" is old by    *)
(* any lag up to MaxLag, and one call may act with an older now than the   *)
(* call before it.                                                         *)
(***************************************************************************)
EXTENDS Integers, FiniteSets

CONSTANTS
    ObsKeys,     \* pairs of a station and its local drone ID
    NumShards, NumPlaces, ShardOf,
    TrackTTL, Quarter,   \* cfg.TrackTTL and a fourth of it, the pruning period
    MaxLag,      \* bound: the longest wait for a shard's lock
    MaxTracks    \* bound: tracks ever created

Shards == 1..NumShards
Places == 1..NumPlaces
TrackIDs == 1..MaxTracks
MaxAge == TrackTTL + MaxLag    \* ages beyond these bounds make no difference
MaxPruneAge == Quarter + MaxLag

ASSUME FusionAssumption ==
    /\ NumShards \in Nat \ {0} /\ NumPlaces \in Nat \ {0} /\ MaxTracks \in Nat
    /\ TrackTTL \in Nat \ {0} /\ Quarter \in 0..TrackTTL /\ MaxLag \in Nat
    /\ ShardOf \in [Places -> Shards]

Lags == 0..MaxLag

VARIABLES
    tracks,      \* tracks[s] : keys of the map tracks of shard s
    cell,        \* cell[t], observers[t], age[t] : the fusedTrack t: its grid cell,
    observers,   \*   the keys of its observations and the age of its lastUpdate
    age,
    byObservation,   \* byObservation[s][k] : a track, or 0
    grid,            \* grid[s] : pairs of a cell and a track indexed under it
    pruneAge,        \* age of lastPrune
    nextTrack,
    sweep        \* the shard Sweep comes to next, 0 between sweeps

trackVars == <<cell, observers, age>>
fusionVars == <<tracks, trackVars, byObservation, grid, pruneAge, nextTrack, sweep>>

\* NewFuser: lastPrune is the zero time, long past.
FusionInit ==
    /\ tracks = [s \in Shards |-> {}]
    /\ cell = [t \in TrackIDs |-> 1]
    /\ observers = [t \in TrackIDs |-> {}]
    /\ age = [t \in TrackIDs |-> 0]
    /\ byObservation = [s \in Shards |-> [k \in ObsKeys |-> 0]]
    /\ grid = [s \in Shards |-> {}]
    /\ pruneAge = [s \in Shards |-> MaxPruneAge]
    /\ nextTrack = 0
    /\ sweep = 0

-----------------------------------------------------------------------------
(* Pruning and association.                                                *)

Later(a, max) == IF a < max THEN a + 1 ELSE max

\* Mutant: the cutoff lies a pruning period back instead of the TTL.
ExpiredEarly(s, now) == {t \in tracks[s] : age[t] >= now + Quarter}

\* The tracks of shard s that are TrackTTL old at an instant of age now.
Expired(s, now) == {t \in tracks[s] : age[t] >= now + TrackTTL}

\* Mutant: pruning leaves the observation keys of a track behind.
KeysKept(s, dead) == byObservation[s]

\* byObservation without the keys of the tracks in dead.
KeysWithout(s, dead) ==
    [k \in ObsKeys |-> IF byObservation[s][k] \in dead THEN 0 ELSE byObservation[s][k]]

\* grid without the tracks in dead: each is looked up under its own cell.
Unlisted(s, dead) == grid[s] \ {<<cell[t], t>> : t \in dead}

\* Mutant: the key is compared where the station should be.
StationSeesKey(t, k) == k \in observers[t]

\* The station of k already observes track t, under this or another drone ID.
StationSees(t, k) == \E o \in observers[t] : o[1] = k[1]

\* The tracks live in shard s whose cell is next to p and which k may join.
Candidates(s, live, p, k) ==
    {t \in live : /\ \E q \in {p - 1, p, p + 1} : <<q, t>> \in Unlisted(s, tracks[s] \ live)
                  /\ ~StationSees(t, k)}

\* The tracks in dead are garbage; t has been observed under key k at age now.
Touch(dead, t, at, keys, now) ==
    /\ cell' = [u \in TrackIDs |-> IF u \in dead THEN 1 ELSE IF u = t THEN at ELSE cell[u]]
    /\ observers' = [u \in TrackIDs |-> IF u \in dead THEN {}
                                       ELSE IF u = t THEN keys ELSE observers[u]]
    /\ age' = [u \in TrackIDs |-> IF u \in dead THEN 0 ELSE IF u = t THEN now ELSE age[u]]

-----------------------------------------------------------------------------
(* Actions.                                                                *)

\* Resolve of a sample at place p under key k, with the shard's lock held: prune
\* when the period has passed, find or create the track, update and index it.
Resolve(k, p, now) ==
    /\ LET s    == ShardOf[p]
           due  == pruneAge[s] - now >= Quarter
           dead == IF due THEN Expired(s, now) ELSE {}
           live == tracks[s] \ dead
           kept == KeysWithout(s, dead)
           \* A track the key is or becomes associated with: the filter moves it.
           Observe(t) ==
               \E q \in Places :
                   /\ Touch(dead, t, q, observers[t] \cup {k}, now)
                   /\ grid' = [grid EXCEPT ![s] =
                                  (Unlisted(s, dead) \ {<<cell[t], t>>}) \cup {<<q, t>>}]
                   /\ tracks' = [tracks EXCEPT ![s] = live]
                   /\ byObservation' = [byObservation EXCEPT ![s] = [kept EXCEPT ![k] = t]]
                   /\ UNCHANGED nextTrack
           Create ==
               LET t == nextTrack + 1 IN
               /\ t \in TrackIDs
               /\ Touch(dead, t, p, {k}, now)
               /\ grid' = [grid EXCEPT ![s] = Unlisted(s, dead) \cup {<<p, t>>}]
               /\ tracks' = [tracks EXCEPT ![s] = live \cup {t}]
               /\ byObservation' = [byObservation EXCEPT ![s] = [kept EXCEPT ![k] = t]]
               /\ nextTrack' = t
       IN  /\ pruneAge' = IF due THEN [pruneAge EXCEPT ![s] = now] ELSE pruneAge
           /\ IF kept[k] \in live
              THEN Observe(kept[k])
              ELSE \/ \E t \in Candidates(s, live, p, k) : Observe(t)
                   \/ Create
    /\ UNCHANGED sweep

\* The ticker of Run fires and Sweep begins.
SweepStart ==
    /\ sweep = 0
    /\ sweep' = 1
    /\ UNCHANGED <<tracks, trackVars, byObservation, grid, pruneAge, nextTrack>>

\* The shard after s in a sweep.
AfterShard(s) == IF s = NumShards THEN 0 ELSE s + 1

\* Sweep clears lastPrune of one shard, which makes pruning due, and prunes it.
SweepShard(now) ==
    /\ sweep # 0
    /\ LET dead == Expired(sweep, now) IN
       /\ tracks' = [tracks EXCEPT ![sweep] = @ \ dead]
       /\ Touch(dead, 0, 0, {}, 0)
       /\ byObservation' = [byObservation EXCEPT ![sweep] = KeysWithout(sweep, dead)]
       /\ grid' = [grid EXCEPT ![sweep] = Unlisted(sweep, dead)]
    /\ pruneAge' = [pruneAge EXCEPT ![sweep] = now]
    /\ sweep' = AfterShard(sweep)
    /\ UNCHANGED nextTrack

\* Time passes.
FusionTick ==
    /\ age' = [t \in TrackIDs |-> IF \E s \in Shards : t \in tracks[s]
                                  THEN Later(age[t], MaxAge) ELSE age[t]]
    /\ pruneAge' = [s \in Shards |-> Later(pruneAge[s], MaxPruneAge)]
    /\ UNCHANGED <<tracks, cell, observers, byObservation, grid, nextTrack, sweep>>

FusionNext ==
    \/ \E k \in ObsKeys, p \in Places, now \in Lags : Resolve(k, p, now)
    \/ SweepStart
    \/ \E now \in Lags : SweepShard(now)
    \/ FusionTick

FusionSpec == FusionInit /\ [][FusionNext]_fusionVars

-----------------------------------------------------------------------------
(* Properties.                                                             *)

\* The shapes of the variables.
FusionTypeOK ==
    /\ tracks \in [Shards -> SUBSET TrackIDs]
    /\ cell \in [TrackIDs -> Places]
    /\ observers \in [TrackIDs -> SUBSET ObsKeys]
    /\ age \in [TrackIDs -> 0..MaxAge]
    /\ byObservation \in [Shards -> [ObsKeys -> TrackIDs \cup {0}]]
    /\ grid \in [Shards -> SUBSET (Places \X TrackIDs)]
    /\ pruneAge \in [Shards -> 0..MaxPruneAge]
    /\ nextTrack \in 0..MaxTracks
    /\ sweep \in 0..NumShards

\* The three maps of a shard tell one story, through merges, moves and pruning
\* at instants that are already past: the grid lists every live track under its
\* cell and nothing else, and byObservation leads exactly the keys a live track
\* was observed under to that track.  A track lives in one shard.
IndexesAgree ==
    /\ \A s \in Shards :
         /\ grid[s] = {<<cell[t], t>> : t \in tracks[s]}
         /\ \A k \in ObsKeys, t \in TrackIDs :
              byObservation[s][k] = t <=> t \in tracks[s] /\ k \in observers[t]
    /\ \A s, r \in Shards : s # r => tracks[s] \cap tracks[r] = {}

\* Tracks from one station never merge with each other (README.md:18).
StationsNeverFuse ==
    \A t \in TrackIDs : \A k, o \in observers[t] : k[1] = o[1] => k = o

\* Within a shard an observation key keeps its fused track until that track has
\* not been updated for TrackTTL, whatever instant the pruning call had read.
KeyStep ==
    \A s \in Shards, k \in ObsKeys :
        LET t == byObservation[s][k] IN
        t # 0 /\ byObservation'[s][k] # t => age[t] >= TrackTTL

KeyKeepsTrack == [][KeyStep]_fusionVars

=============================================================================
