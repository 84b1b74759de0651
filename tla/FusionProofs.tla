---------------------------- MODULE FusionProofs ----------------------------
(***************************************************************************)
(* The three indexes of a fusion shard agree, tracks of one station never  *)
(* merge, and an observation key keeps its track for TrackTTL: for any     *)
(* number of stations, shards, places and tracks and for any lag between   *)
(* reading the clock and getting the lock.                                 *)
(***************************************************************************)
EXTENDS Fusion, TLAPS

\* Numbers come from one counter, so a new track is in no shard.
Numbered == \A s \in Shards : \A t \in tracks[s] : t <= nextTrack

\* The inductive invariant: StationsNeverFuse needs IndexesAgree, because a key
\* that byObservation leads to a track joins it without asking for its station;
\* IndexesAgree needs Numbered, because a new track must not be known anywhere.
FusionInv == FusionTypeOK /\ IndexesAgree /\ StationsNeverFuse /\ Numbered

\* Resolve and SweepShard drop the tracks in dead from shard s.
Drops(s, dead, now) ==
    /\ dead \subseteq tracks[s]
    /\ \A t \in dead : age[t] >= now + TrackTTL
    /\ pruneAge' \in [Shards -> 0..MaxPruneAge]

\* Resolve of key k updates track t of shard s, which the filter moves to q.
Moves(s, dead, k, t, q, now) ==
    /\ t \in tracks[s] \ dead
    /\ \/ KeysWithout(s, dead)[k] = t
       \/ KeysWithout(s, dead)[k] \notin tracks[s] \ dead /\ ~StationSees(t, k)
    /\ Touch(dead, t, q, observers[t] \cup {k}, now)
    /\ grid' = [grid EXCEPT ![s] = (Unlisted(s, dead) \ {<<cell[t], t>>}) \cup {<<q, t>>}]
    /\ tracks' = [tracks EXCEPT ![s] = tracks[s] \ dead]
    /\ byObservation' = [byObservation EXCEPT ![s] = [KeysWithout(s, dead) EXCEPT ![k] = t]]
    /\ nextTrack' = nextTrack

\* Resolve of key k makes track t of shard s, at q.
Makes(s, dead, k, t, q, now) ==
    /\ t = nextTrack + 1
    /\ KeysWithout(s, dead)[k] \notin tracks[s] \ dead
    /\ Touch(dead, t, q, {k}, now)
    /\ grid' = [grid EXCEPT ![s] = Unlisted(s, dead) \cup {<<q, t>>}]
    /\ tracks' = [tracks EXCEPT ![s] = (tracks[s] \ dead) \cup {t}]
    /\ byObservation' = [byObservation EXCEPT ![s] = [KeysWithout(s, dead) EXCEPT ![k] = t]]
    /\ nextTrack' = t

-----------------------------------------------------------------------------
(* What the steps do.                                                      *)

\* The clock bounds are naturals and cover the lags.
LEMMA Bounds ==
    /\ MaxAge \in Nat /\ MaxPruneAge \in Nat /\ MaxLag \in Nat
    /\ Quarter \in Nat /\ TrackTTL \in Nat
    /\ Lags \subseteq 0..MaxAge /\ Lags \subseteq 0..MaxPruneAge
BY FusionAssumption, SMT DEF MaxAge, MaxPruneAge, Lags

\* One call of Resolve drops tracks of the shard of its position and then either
\* updates a track that is left there or makes one.
LEMMA ResolveCases ==
    ASSUME FusionTypeOK, NEW k \in ObsKeys, NEW p \in Places, NEW now \in Lags,
           Resolve(k, p, now)
    PROVE  /\ sweep' = sweep
           /\ \E dead \in SUBSET TrackIDs, t \in TrackIDs, q \in Places :
                /\ Drops(ShardOf[p], dead, now)
                /\ Moves(ShardOf[p], dead, k, t, q, now) \/ Makes(ShardOf[p], dead, k, t, q, now)
<1> DEFINE s == ShardOf[p]
           due == pruneAge[s] - now >= Quarter
           dead == IF due THEN Expired(s, now) ELSE {}
           live == tracks[s] \ dead
<1>1. s \in Shards
  BY FusionAssumption
<1>2. dead \subseteq tracks[s] /\ dead \subseteq TrackIDs /\ live \subseteq TrackIDs
  BY <1>1 DEF FusionTypeOK, Expired
<1>3. Drops(s, dead, now)
  <2>1. pruneAge' = IF due THEN [pruneAge EXCEPT ![s] = now] ELSE pruneAge
    BY DEF Resolve
  <2>2. pruneAge' \in [Shards -> 0..MaxPruneAge]
    BY <1>1, <2>1, Bounds DEF FusionTypeOK
  <2>3. \A t \in dead : age[t] >= now + TrackTTL
    BY DEF Expired
  <2> QED
    BY <1>2, <2>2, <2>3 DEF Drops
<1>4. CASE KeysWithout(s, dead)[k] \in live
  <2> DEFINE t == KeysWithout(s, dead)[k]
  <2>1. PICK q \in Places : Moves(s, dead, k, t, q, now)
    BY <1>4 DEF Resolve, Moves
  <2> QED
    BY <1>2, <1>3, <1>4, <2>1 DEF Resolve
<1>5. CASE KeysWithout(s, dead)[k] \notin live
  <2>1. \/ \E t \in Candidates(s, live, p, k), q \in Places : Moves(s, dead, k, t, q, now)
        \/ nextTrack + 1 \in TrackIDs /\ Makes(s, dead, k, nextTrack + 1, p, now)
    BY <1>5 DEF Resolve, Moves, Makes, Candidates
  <2>2. \A t \in Candidates(s, live, p, k) : t \in TrackIDs
    BY <1>2 DEF Candidates
  <2> HIDE DEF s, dead, live
  <2>3. \E t \in TrackIDs, q \in Places :
            Moves(s, dead, k, t, q, now) \/ Makes(s, dead, k, t, q, now)
    BY <2>1, <2>2
  <2> QED
    BY <1>2, <1>3, <2>3 DEF Resolve, s
<1> QED
  BY <1>4, <1>5
-----------------------------------------------------------------------------
(* The invariant.                                                          *)

\* Fusers start empty (fuser.go:85), so the invariant holds.
LEMMA InitInv == FusionInit => FusionInv
<1> SUFFICES ASSUME FusionInit PROVE FusionInv
  OBVIOUS
<1>1. FusionTypeOK
  <2>1. 1 \in Places /\ 0 \in 0..MaxAge /\ MaxPruneAge \in 0..MaxPruneAge
    BY FusionAssumption, Bounds DEF Places
  <2>2. 0 \in 0..MaxTracks /\ 0 \in 0..NumShards
    BY FusionAssumption
  <2> QED
    BY <2>1, <2>2 DEF FusionInit, FusionTypeOK
<1>2. IndexesAgree
  BY DEF FusionInit, IndexesAgree, TrackIDs
<1>3. StationsNeverFuse /\ Numbered
  BY DEF FusionInit, StationsNeverFuse, Numbered
<1> QED
  BY <1>1, <1>2, <1>3 DEF FusionInv

\* What KeysWithout and Unlisted return: the indexes of the tracks that are left.
LEMMA AfterDrop ==
    ASSUME FusionTypeOK, IndexesAgree, NEW s \in Shards, NEW dead \in SUBSET TrackIDs,
           dead \subseteq tracks[s]
    PROVE  /\ KeysWithout(s, dead) \in [ObsKeys -> TrackIDs \cup {0}]
           /\ \A j \in ObsKeys, u \in TrackIDs :
                KeysWithout(s, dead)[j] = u <=> u \in tracks[s] \ dead /\ j \in observers[u]
           /\ Unlisted(s, dead) = {<<cell[u], u>> : u \in tracks[s] \ dead}
<1>1. byObservation[s] \in [ObsKeys -> TrackIDs \cup {0}]
  BY DEF FusionTypeOK
<1>2. 0 \notin TrackIDs
  BY FusionAssumption DEF TrackIDs
<1>3. KeysWithout(s, dead) \in [ObsKeys -> TrackIDs \cup {0}]
  BY <1>1 DEF KeysWithout
<1>4. ASSUME NEW j \in ObsKeys, NEW u \in TrackIDs
      PROVE  KeysWithout(s, dead)[j] = u <=> u \in tracks[s] \ dead /\ j \in observers[u]
  <2>1. KeysWithout(s, dead)[j] = IF byObservation[s][j] \in dead THEN 0 ELSE byObservation[s][j]
    BY DEF KeysWithout
  <2>2. byObservation[s][j] = u <=> u \in tracks[s] /\ j \in observers[u]
    BY DEF IndexesAgree
  <2> QED
    BY <1>2, <2>1, <2>2
<1>5. grid[s] = {<<cell[u], u>> : u \in tracks[s]}
  BY DEF IndexesAgree
<1>6. Unlisted(s, dead) = {<<cell[u], u>> : u \in tracks[s] \ dead}
  BY <1>5 DEF Unlisted
<1> QED
  BY <1>3, <1>4, <1>6

\* A shard is left with the tracks in kept; only those, t among them, may have
\* changed.  Then the tracks of the other shards are as they were.
LEMMA OtherShards ==
    ASSUME FusionTypeOK, IndexesAgree, NEW s \in Shards, NEW dead \in SUBSET TrackIDs,
           dead \subseteq tracks[s], NEW t, t \notin TrackIDs \/ t \in tracks[s]
              \/ \A r \in Shards : t \notin tracks[r],
           NEW q, NEW keys, NEW now, Touch(dead, t, q, keys, now)
    PROVE  \A r \in Shards \ {s} : \A u \in tracks[r] :
              cell'[u] = cell[u] /\ observers'[u] = observers[u]
<1> SUFFICES ASSUME NEW r \in Shards \ {s}, NEW u \in tracks[r]
             PROVE  cell'[u] = cell[u] /\ observers'[u] = observers[u]
  OBVIOUS
<1>1. u \in TrackIDs
  BY DEF FusionTypeOK
<1>2. u \notin tracks[s]
  BY DEF IndexesAgree
<1>3. u \notin dead /\ u # t
  BY <1>1, <1>2
<1> QED
  BY <1>1, <1>3 DEF Touch

\* Touch and the maps of a shard keep their types.
LEMMA TouchTypes ==
    ASSUME FusionTypeOK, NEW dead \in SUBSET TrackIDs, NEW t, NEW q, NEW keys, NEW now,
           t \in TrackIDs => q \in Places /\ keys \subseteq ObsKeys /\ now \in 0..MaxAge,
           Touch(dead, t, q, keys, now)
    PROVE  /\ cell' \in [TrackIDs -> Places]
           /\ observers' \in [TrackIDs -> SUBSET ObsKeys]
           /\ age' \in [TrackIDs -> 0..MaxAge]
<1>1. 1 \in Places
  BY FusionAssumption DEF Places
<1>2. 0 \in 0..MaxAge
  BY Bounds
<1> QED
  BY <1>1, <1>2 DEF Touch, FusionTypeOK

\* An update of a track that is left, with its move to another grid cell, keeps
\* the invariant (fuser.go:162-175).
LEMMA MovesInv ==
    ASSUME FusionInv, NEW s \in Shards, NEW k \in ObsKeys, NEW now \in Lags,
           NEW dead \in SUBSET TrackIDs, NEW t \in TrackIDs, NEW q \in Places,
           Drops(s, dead, now), Moves(s, dead, k, t, q, now), sweep' = sweep
    PROVE  FusionInv'
<1> DEFINE kept == KeysWithout(s, dead)
           live == tracks[s] \ dead
<1> USE DEF FusionInv
<1>1. /\ kept \in [ObsKeys -> TrackIDs \cup {0}]
      /\ \A j \in ObsKeys, u \in TrackIDs : kept[j] = u <=> u \in live /\ j \in observers[u]
      /\ Unlisted(s, dead) = {<<cell[u], u>> : u \in live}
  BY AfterDrop DEF Drops
<1>2. dead \subseteq tracks[s] /\ t \in live /\ live \subseteq TrackIDs
  BY DEF Drops, Moves, FusionTypeOK
<1>3. \A r \in Shards \ {s} : \A u \in tracks[r] :
          cell'[u] = cell[u] /\ observers'[u] = observers[u]
  BY <1>2, OtherShards DEF Moves
<1>4. /\ tracks' \in [Shards -> SUBSET TrackIDs] /\ tracks'[s] = live
      /\ \A r \in Shards \ {s} : tracks'[r] = tracks[r]
  BY <1>2 DEF Moves, FusionTypeOK
<1>5. \A r \in Shards \ {s} : grid'[r] = grid[r] /\ byObservation'[r] = byObservation[r]
  BY DEF Moves, FusionTypeOK
<1>6. /\ byObservation'[s] = [kept EXCEPT ![k] = t]
      /\ grid'[s] = (Unlisted(s, dead) \ {<<cell[t], t>>}) \cup {<<q, t>>}
  BY DEF Moves, FusionTypeOK
<1>7. /\ \A u \in live \ {t} : cell'[u] = cell[u] /\ observers'[u] = observers[u]
      /\ cell'[t] = q /\ observers'[t] = observers[t] \cup {k}
  BY <1>2 DEF Moves, Touch
<1>8. \A u \in live : k \in observers[u] => u = t
  BY <1>1, <1>2 DEF Moves
<1>9. FusionTypeOK'
  <2>1. /\ cell' \in [TrackIDs -> Places] /\ observers' \in [TrackIDs -> SUBSET ObsKeys]
        /\ age' \in [TrackIDs -> 0..MaxAge]
    <3>1. now \in 0..MaxAge /\ observers[t] \cup {k} \subseteq ObsKeys
      BY Bounds DEF FusionTypeOK
    <3> QED
      BY <3>1, TouchTypes DEF Moves
  <2>2. byObservation' \in [Shards -> [ObsKeys -> TrackIDs \cup {0}]]
    BY <1>1 DEF Moves, FusionTypeOK
  <2>3. grid' \in [Shards -> SUBSET (Places \X TrackIDs)]
    <3>1. Unlisted(s, dead) \subseteq Places \X TrackIDs
      BY DEF Unlisted, FusionTypeOK
    <3> QED
      BY <3>1 DEF Moves, FusionTypeOK
  <2> QED
    BY <1>4, <2>1, <2>2, <2>3 DEF FusionTypeOK, Moves, Drops
<1>10. IndexesAgree'
  <2>1. ASSUME NEW r \in Shards PROVE grid'[r] = {<<cell'[u], u>> : u \in tracks'[r]}
    <3>1. CASE r = s
      <4>1. grid'[s] = {<<cell[u], u>> : u \in live \ {t}} \cup {<<q, t>>}
        BY <1>1, <1>6
      <4>2. {<<cell'[u], u>> : u \in live} = {<<cell[u], u>> : u \in live \ {t}} \cup {<<q, t>>}
        BY <1>2, <1>7
      <4> QED
        BY <1>4, <3>1, <4>1, <4>2
    <3>2. CASE r # s
      <4>1. grid[r] = {<<cell[u], u>> : u \in tracks[r]}
        BY DEF IndexesAgree
      <4>2. {<<cell'[u], u>> : u \in tracks[r]} = {<<cell[u], u>> : u \in tracks[r]}
        BY <1>3, <3>2
      <4> QED
        BY <1>4, <1>5, <3>2, <4>1, <4>2
    <3> QED
      BY <3>1, <3>2
  <2>2. ASSUME NEW r \in Shards, NEW j \in ObsKeys, NEW u \in TrackIDs
        PROVE  byObservation'[r][j] = u <=> u \in tracks'[r] /\ j \in observers'[u]
    <3>1. CASE r = s /\ j = k
      <4>1. byObservation'[s][k] = t
        BY <1>1, <1>6
      <4>2. u \in live /\ k \in observers'[u] => u = t
        BY <1>7, <1>8
      <4> QED
        BY <1>2, <1>4, <1>7, <3>1, <4>1, <4>2
    <3>2. CASE r = s /\ j # k
      <4>1. byObservation'[s][j] = kept[j]
        BY <1>1, <1>6, <3>2
      <4>2. u \in live => (j \in observers'[u] <=> j \in observers[u])
        BY <1>7, <3>2
      <4> QED
        BY <1>1, <1>4, <3>2, <4>1, <4>2
    <3>3. CASE r # s
      <4>1. byObservation[r][j] = u <=> u \in tracks[r] /\ j \in observers[u]
        BY DEF IndexesAgree
      <4> QED
        BY <1>3, <1>4, <1>5, <3>3, <4>1
    <3> QED
      BY <3>1, <3>2, <3>3
  <2>3. ASSUME NEW r \in Shards, NEW o \in Shards, r # o
        PROVE  tracks'[r] \cap tracks'[o] = {}
    <3>1. tracks[r] \cap tracks[o] = {}
      BY <2>3 DEF IndexesAgree
    <3>2. tracks'[r] \subseteq tracks[r] /\ tracks'[o] \subseteq tracks[o]
      BY <1>4
    <3> QED
      BY <3>1, <3>2
  <2> QED
    BY <2>1, <2>2, <2>3 DEF IndexesAgree
<1>11. StationsNeverFuse'
  <2> SUFFICES ASSUME NEW u \in TrackIDs, NEW i \in observers'[u], NEW o \in observers'[u],
                      i[1] = o[1]
               PROVE  i = o
    BY DEF StationsNeverFuse
  <2>1. \A a, b \in observers[u] : a[1] = b[1] => a = b
    BY DEF StationsNeverFuse
  <2>2. CASE u # t
    <3>1. observers'[u] \subseteq observers[u]
      BY <2>2 DEF Moves, Touch
    <3> QED
      BY <2>1, <3>1
  <2>3. CASE u = t
    <3>1. k \in observers[t] \/ \A a \in observers[t] : a[1] # k[1]
      BY <1>1, <1>2 DEF Moves, StationSees
    <3> QED
      BY <1>7, <2>1, <2>3, <3>1
  <2> QED
    BY <2>2, <2>3
<1>12. Numbered'
  BY <1>2, <1>4 DEF Numbered, Moves
<1> QED
  BY <1>9, <1>10, <1>11, <1>12

\* A new track under the next number keeps the invariant (fuser.go:177-190).
LEMMA MakesInv ==
    ASSUME FusionInv, NEW s \in Shards, NEW k \in ObsKeys, NEW now \in Lags,
           NEW dead \in SUBSET TrackIDs, NEW t \in TrackIDs, NEW q \in Places,
           Drops(s, dead, now), Makes(s, dead, k, t, q, now), sweep' = sweep
    PROVE  FusionInv'
<1> DEFINE kept == KeysWithout(s, dead)
           live == tracks[s] \ dead
<1> USE DEF FusionInv
<1>1. /\ kept \in [ObsKeys -> TrackIDs \cup {0}]
      /\ \A j \in ObsKeys, u \in TrackIDs : kept[j] = u <=> u \in live /\ j \in observers[u]
      /\ Unlisted(s, dead) = {<<cell[u], u>> : u \in live}
  BY AfterDrop DEF Drops
<1>2. \A r \in Shards : t \notin tracks[r]
  <2>1. nextTrack \in Nat
    BY FusionAssumption DEF FusionTypeOK
  <2>2. \A r \in Shards : \A u \in tracks[r] : u \in Nat /\ u <= nextTrack
    BY DEF FusionTypeOK, Numbered, TrackIDs
  <2> QED
    BY <2>1, <2>2 DEF Makes
<1>3. dead \subseteq tracks[s] /\ t \notin live /\ live \subseteq TrackIDs
  BY <1>2 DEF Drops, FusionTypeOK
<1>4. \A r \in Shards \ {s} : \A u \in tracks[r] :
          cell'[u] = cell[u] /\ observers'[u] = observers[u]
  BY <1>2, <1>3, OtherShards DEF Makes
<1>5. /\ tracks' \in [Shards -> SUBSET TrackIDs] /\ tracks'[s] = live \cup {t}
      /\ \A r \in Shards \ {s} : tracks'[r] = tracks[r]
  BY <1>3 DEF Makes, FusionTypeOK
<1>6. \A r \in Shards \ {s} : grid'[r] = grid[r] /\ byObservation'[r] = byObservation[r]
  BY DEF Makes, FusionTypeOK
<1>7. /\ byObservation'[s] = [kept EXCEPT ![k] = t]
      /\ grid'[s] = Unlisted(s, dead) \cup {<<q, t>>}
  BY DEF Makes, FusionTypeOK
<1>8. /\ \A u \in live : cell'[u] = cell[u] /\ observers'[u] = observers[u]
      /\ cell'[t] = q /\ observers'[t] = {k}
  BY <1>2, <1>3 DEF Makes, Touch
<1>9. \A u \in live : k \notin observers[u]
  BY <1>1, <1>3 DEF Makes
<1>10. FusionTypeOK'
  <2>1. /\ cell' \in [TrackIDs -> Places] /\ observers' \in [TrackIDs -> SUBSET ObsKeys]
        /\ age' \in [TrackIDs -> 0..MaxAge]
    <3>1. now \in 0..MaxAge /\ {k} \subseteq ObsKeys
      BY Bounds
    <3> QED
      BY <3>1, TouchTypes DEF Makes
  <2>2. byObservation' \in [Shards -> [ObsKeys -> TrackIDs \cup {0}]]
    BY <1>1 DEF Makes, FusionTypeOK
  <2>3. grid' \in [Shards -> SUBSET (Places \X TrackIDs)]
    <3>1. Unlisted(s, dead) \subseteq Places \X TrackIDs
      BY DEF Unlisted, FusionTypeOK
    <3> QED
      BY <3>1 DEF Makes, FusionTypeOK
  <2>4. nextTrack' \in 0..MaxTracks
    BY FusionAssumption DEF Makes, TrackIDs
  <2> QED
    BY <1>5, <2>1, <2>2, <2>3, <2>4 DEF FusionTypeOK, Drops
<1>11. IndexesAgree'
  <2>1. ASSUME NEW r \in Shards PROVE grid'[r] = {<<cell'[u], u>> : u \in tracks'[r]}
    <3>1. CASE r = s
      <4>1. {<<cell'[u], u>> : u \in live \cup {t}} = {<<cell[u], u>> : u \in live} \cup {<<q, t>>}
        BY <1>3, <1>8
      <4> QED
        BY <1>1, <1>5, <1>7, <3>1, <4>1
    <3>2. CASE r # s
      <4>1. grid[r] = {<<cell[u], u>> : u \in tracks[r]}
        BY DEF IndexesAgree
      <4>2. {<<cell'[u], u>> : u \in tracks[r]} = {<<cell[u], u>> : u \in tracks[r]}
        BY <1>4, <3>2
      <4> QED
        BY <1>5, <1>6, <3>2, <4>1, <4>2
    <3> QED
      BY <3>1, <3>2
  <2>2. ASSUME NEW r \in Shards, NEW j \in ObsKeys, NEW u \in TrackIDs
        PROVE  byObservation'[r][j] = u <=> u \in tracks'[r] /\ j \in observers'[u]
    <3>1. CASE r = s /\ j = k
      <4>1. byObservation'[s][k] = t
        BY <1>1, <1>7
      <4>2. u \in live => k \notin observers'[u]
        BY <1>8, <1>9
      <4> QED
        BY <1>5, <1>8, <3>1, <4>1, <4>2
    <3>2. CASE r = s /\ j # k
      <4>1. byObservation'[s][j] = kept[j]
        BY <1>1, <1>7, <3>2
      <4>2. /\ u \in live => (j \in observers'[u] <=> j \in observers[u])
            /\ j \notin observers'[t]
        BY <1>8, <3>2
      <4> QED
        BY <1>1, <1>3, <1>5, <3>2, <4>1, <4>2
    <3>3. CASE r # s
      <4>1. byObservation[r][j] = u <=> u \in tracks[r] /\ j \in observers[u]
        BY DEF IndexesAgree
      <4> QED
        BY <1>4, <1>5, <1>6, <3>3, <4>1
    <3> QED
      BY <3>1, <3>2, <3>3
  <2>3. ASSUME NEW r \in Shards, NEW o \in Shards, r # o
        PROVE  tracks'[r] \cap tracks'[o] = {}
    <3>1. tracks[r] \cap tracks[o] = {}
      BY <2>3 DEF IndexesAgree
    <3>2. /\ tracks'[r] \subseteq tracks[r] \cup (IF r = s THEN {t} ELSE {})
          /\ tracks'[o] \subseteq tracks[o] \cup (IF o = s THEN {t} ELSE {})
      BY <1>5
    <3> QED
      BY <1>2, <2>3, <3>1, <3>2
  <2> QED
    BY <2>1, <2>2, <2>3 DEF IndexesAgree
<1>12. StationsNeverFuse'
  <2> SUFFICES ASSUME NEW u \in TrackIDs, NEW i \in observers'[u], NEW o \in observers'[u],
                      i[1] = o[1]
               PROVE  i = o
    BY DEF StationsNeverFuse
  <2>1. CASE u # t
    <3>1. observers'[u] \subseteq observers[u]
      BY <2>1 DEF Makes, Touch
    <3> QED
      BY <3>1 DEF StationsNeverFuse
  <2>2. CASE u = t
    BY <1>8, <2>2
  <2> QED
    BY <2>1, <2>2
<1>13. Numbered'
  <2>1. nextTrack \in Nat /\ nextTrack' = nextTrack + 1
    BY FusionAssumption DEF FusionTypeOK, Makes
  <2>2. \A r \in Shards : \A u \in tracks[r] : u \in Nat /\ u <= nextTrack
    BY DEF FusionTypeOK, Numbered, TrackIDs
  <2>3. \A r \in Shards : tracks'[r] \subseteq tracks[r] \cup {t}
    BY <1>5
  <2> QED
    BY <2>1, <2>2, <2>3 DEF Numbered, Makes
<1> QED
  BY <1>10, <1>11, <1>12, <1>13

\* Pruning one shard in Sweep keeps the invariant.
LEMMA SweepInv ==
    ASSUME FusionInv, NEW now \in Lags, SweepShard(now)
    PROVE  FusionInv'
<1> USE DEF FusionInv
<1> DEFINE s == sweep
           dead == Expired(s, now)
           live == tracks[s] \ dead
<1>1. s \in Shards
  BY FusionAssumption DEF FusionTypeOK, SweepShard, Shards
<1>2. dead \subseteq tracks[s] /\ dead \subseteq TrackIDs
  BY <1>1 DEF Expired, FusionTypeOK
<1>3. /\ KeysWithout(s, dead) \in [ObsKeys -> TrackIDs \cup {0}]
      /\ \A j \in ObsKeys, u \in TrackIDs :
           KeysWithout(s, dead)[j] = u <=> u \in live /\ j \in observers[u]
      /\ Unlisted(s, dead) = {<<cell[u], u>> : u \in live}
  BY <1>1, <1>2, AfterDrop
<1>4. Touch(dead, 0, 0, {}, 0)
  BY DEF SweepShard
<1>5. 0 \notin TrackIDs
  BY DEF TrackIDs
<1>6. \A r \in Shards \ {s} : \A u \in tracks[r] :
          cell'[u] = cell[u] /\ observers'[u] = observers[u]
  BY <1>1, <1>2, <1>4, <1>5, OtherShards
<1>7. /\ tracks' \in [Shards -> SUBSET TrackIDs] /\ tracks'[s] = live
      /\ \A r \in Shards \ {s} : tracks'[r] = tracks[r]
  BY <1>1, <1>2 DEF SweepShard, FusionTypeOK
<1>8. \A r \in Shards \ {s} : grid'[r] = grid[r] /\ byObservation'[r] = byObservation[r]
  BY DEF SweepShard, FusionTypeOK
<1>9. byObservation'[s] = KeysWithout(s, dead) /\ grid'[s] = Unlisted(s, dead)
  BY <1>1 DEF SweepShard, FusionTypeOK
<1>10. \A u \in live : cell'[u] = cell[u] /\ observers'[u] = observers[u]
  <2>1. live \subseteq TrackIDs
    BY <1>1 DEF FusionTypeOK
  <2> QED
    BY <1>4, <1>5, <2>1 DEF Touch
<1>11. FusionTypeOK'
  <2>1. /\ cell' \in [TrackIDs -> Places] /\ observers' \in [TrackIDs -> SUBSET ObsKeys]
        /\ age' \in [TrackIDs -> 0..MaxAge]
    BY <1>2, <1>4, <1>5, TouchTypes
  <2>2. byObservation' \in [Shards -> [ObsKeys -> TrackIDs \cup {0}]]
    BY <1>3 DEF SweepShard, FusionTypeOK
  <2>3. grid' \in [Shards -> SUBSET (Places \X TrackIDs)]
    <3>1. Unlisted(s, dead) \subseteq Places \X TrackIDs
      BY <1>1 DEF Unlisted, FusionTypeOK
    <3> QED
      BY <3>1 DEF SweepShard, FusionTypeOK
  <2>4. pruneAge' \in [Shards -> 0..MaxPruneAge]
    BY Bounds DEF SweepShard, FusionTypeOK
  <2>5. sweep' \in 0..NumShards
    BY FusionAssumption, <1>1 DEF SweepShard, AfterShard, Shards
  <2>6. nextTrack' \in 0..MaxTracks
    BY DEF SweepShard, FusionTypeOK
  <2> QED
    BY <1>7, <2>1, <2>2, <2>3, <2>4, <2>5, <2>6 DEF FusionTypeOK
<1>12. IndexesAgree'
  <2>1. ASSUME NEW r \in Shards PROVE grid'[r] = {<<cell'[u], u>> : u \in tracks'[r]}
    <3>1. CASE r = s
      <4>1. {<<cell'[u], u>> : u \in live} = {<<cell[u], u>> : u \in live}
        BY <1>10
      <4> QED
        BY <1>3, <1>7, <1>9, <3>1, <4>1
    <3>2. CASE r # s
      <4>1. grid[r] = {<<cell[u], u>> : u \in tracks[r]}
        BY DEF IndexesAgree
      <4>2. {<<cell'[u], u>> : u \in tracks[r]} = {<<cell[u], u>> : u \in tracks[r]}
        BY <1>6, <3>2
      <4> QED
        BY <1>7, <1>8, <3>2, <4>1, <4>2
    <3> QED
      BY <3>1, <3>2
  <2>2. ASSUME NEW r \in Shards, NEW j \in ObsKeys, NEW u \in TrackIDs
        PROVE  byObservation'[r][j] = u <=> u \in tracks'[r] /\ j \in observers'[u]
    <3>1. CASE r = s
      BY <1>3, <1>7, <1>9, <1>10, <3>1
    <3>2. CASE r # s
      <4>1. byObservation[r][j] = u <=> u \in tracks[r] /\ j \in observers[u]
        BY DEF IndexesAgree
      <4> QED
        BY <1>6, <1>7, <1>8, <3>2, <4>1
    <3> QED
      BY <3>1, <3>2
  <2>3. ASSUME NEW r \in Shards, NEW o \in Shards, r # o
        PROVE  tracks'[r] \cap tracks'[o] = {}
    <3>1. tracks[r] \cap tracks[o] = {}
      BY <2>3 DEF IndexesAgree
    <3>2. tracks'[r] \subseteq tracks[r] /\ tracks'[o] \subseteq tracks[o]
      BY <1>7
    <3> QED
      BY <3>1, <3>2
  <2> QED
    BY <2>1, <2>2, <2>3 DEF IndexesAgree
<1>13. StationsNeverFuse'
  <2>1. \A u \in TrackIDs : observers'[u] \subseteq observers[u]
    BY <1>4, <1>5 DEF Touch
  <2> QED
    BY <2>1 DEF StationsNeverFuse
<1>14. Numbered'
  <2>1. \A r \in Shards : tracks'[r] \subseteq tracks[r]
    BY <1>7
  <2>2. nextTrack' = nextTrack
    BY DEF SweepShard
  <2> QED
    BY <2>1, <2>2 DEF Numbered
<1> QED
  BY <1>11, <1>12, <1>13, <1>14

\* The passing of time keeps the invariant: ages only grow.
LEMMA TickInv ==
    ASSUME FusionInv, FusionTick
    PROVE  FusionInv'
<1> USE DEF FusionInv
<1>1. age' \in [TrackIDs -> 0..MaxAge] /\ pruneAge' \in [Shards -> 0..MaxPruneAge]
  BY Bounds DEF FusionTick, FusionTypeOK, Later
<1>2. FusionTypeOK'
  BY <1>1 DEF FusionTick, FusionTypeOK
<1>3. IndexesAgree'
  BY DEF FusionTick, IndexesAgree
<1>4. StationsNeverFuse' /\ Numbered'
  BY DEF FusionTick, StationsNeverFuse, Numbered
<1> QED
  BY <1>2, <1>3, <1>4

\* Every step keeps the invariant.
LEMMA NextInv == FusionInv /\ [FusionNext]_fusionVars => FusionInv'
<1> SUFFICES ASSUME FusionInv, [FusionNext]_fusionVars PROVE FusionInv'
  OBVIOUS
<1>1. ASSUME NEW k \in ObsKeys, NEW p \in Places, NEW now \in Lags, Resolve(k, p, now)
      PROVE  FusionInv'
  <2>1. ShardOf[p] \in Shards
    BY FusionAssumption
  <2>2. FusionTypeOK
    BY DEF FusionInv
  <2>3. PICK dead \in SUBSET TrackIDs, t \in TrackIDs, q \in Places :
          /\ Drops(ShardOf[p], dead, now)
          /\ Moves(ShardOf[p], dead, k, t, q, now) \/ Makes(ShardOf[p], dead, k, t, q, now)
    BY <1>1, <2>2, ResolveCases
  <2>4. sweep' = sweep
    BY <1>1, <2>2, ResolveCases
  <2> QED
    BY <2>1, <2>3, <2>4, MovesInv, MakesInv
<1>2. CASE SweepStart
  <2>1. FusionTypeOK'
    BY <1>2, FusionAssumption DEF FusionInv, SweepStart, FusionTypeOK, trackVars
  <2> QED
    BY <1>2, <2>1 DEF FusionInv, SweepStart, IndexesAgree, StationsNeverFuse, Numbered, trackVars
<1>3. ASSUME NEW now \in Lags, SweepShard(now) PROVE FusionInv'
  BY <1>3, SweepInv
<1>4. CASE FusionTick
  BY <1>4, TickInv
<1>5. CASE UNCHANGED fusionVars
  BY <1>5 DEF FusionInv, FusionTypeOK, IndexesAgree, StationsNeverFuse, Numbered, fusionVars, trackVars
<1> QED
  BY <1>1, <1>2, <1>3, <1>4, <1>5 DEF FusionNext

-----------------------------------------------------------------------------
(* The theorems.                                                           *)

\* The inductive invariant behind the theorems below: every step of resolve and
\* Sweep keeps the maps of a shard agreeing and the track numbers fresh.
THEOREM InvariantHolds == FusionSpec => []FusionInv
<1> QED
  BY InitInv, NextInv, PTL DEF FusionSpec

\* The variables of the fusion engine keep their shapes.
THEOREM TypeCorrect == FusionSpec => []FusionTypeOK
<1>1. FusionInv => FusionTypeOK
  BY DEF FusionInv
<1> QED
  BY <1>1, InvariantHolds, PTL

\* The maps tracks, byObservation and grid of every shard tell one story, also
\* when pruning and updates use an instant that has passed (fuser.go:152).
THEOREM IndexesAlwaysAgree == FusionSpec => []IndexesAgree
<1>1. FusionInv => IndexesAgree
  BY DEF FusionInv
<1> QED
  BY <1>1, InvariantHolds, PTL

\* No track is observed under two drone IDs of one station (fuser.go:204).
THEOREM StationsStayApart == FusionSpec => []StationsNeverFuse
<1>1. FusionInv => StationsNeverFuse
  BY DEF FusionInv
<1> QED
  BY <1>1, InvariantHolds, PTL

\* A key loses its track only to pruning, when the track is TrackTTL old at the
\* pruning call's instant and so at the present.
THEOREM KeysKeepTheirTracks == FusionSpec => KeyKeepsTrack
<1> DEFINE Kept(s, k) ==
        LET t == byObservation[s][k] IN
        t # 0 /\ byObservation'[s][k] # t => age[t] >= TrackTTL
<1>1. ASSUME FusionInv, [FusionNext]_fusionVars, NEW s \in Shards, NEW k \in ObsKeys
      PROVE  Kept(s, k)
  <2> DEFINE t == byObservation[s][k]
  <2> SUFFICES ASSUME t # 0, byObservation'[s][k] # t PROVE age[t] >= TrackTTL
    OBVIOUS
  <2>1. FusionTypeOK /\ IndexesAgree
    BY <1>1 DEF FusionInv
  <2>2. t \in TrackIDs /\ age[t] \in Nat /\ TrackTTL \in Nat
    BY <2>1, Bounds DEF FusionTypeOK
  <2>3. ASSUME NEW now \in Lags, NEW dead, t \in dead, \A u \in dead : age[u] >= now + TrackTTL
        PROVE  age[t] >= TrackTTL
    <3>1. now \in Nat
      BY DEF Lags
    <3> QED
      BY <2>2, <2>3, <3>1
  <2>4. ASSUME NEW j \in ObsKeys, NEW p \in Places, NEW now \in Lags, Resolve(j, p, now)
        PROVE  age[t] >= TrackTTL
    <3>1. PICK dead \in SUBSET TrackIDs, u \in TrackIDs, q \in Places :
            /\ Drops(ShardOf[p], dead, now)
            /\ Moves(ShardOf[p], dead, j, u, q, now) \/ Makes(ShardOf[p], dead, j, u, q, now)
      BY <2>1, <2>4, ResolveCases
    <3>2. byObservation' =
            [byObservation EXCEPT ![ShardOf[p]] = [KeysWithout(ShardOf[p], dead) EXCEPT ![j] = u]]
      BY <3>1 DEF Moves, Makes
    <3>3. s = ShardOf[p]
      BY <2>1, <3>2 DEF FusionTypeOK
    <3>4. dead \subseteq tracks[s] /\ \A v \in dead : age[v] >= now + TrackTTL
      BY <3>1, <3>3 DEF Drops
    <3>5. CASE t \in dead
      BY <2>3, <3>4, <3>5
    <3>6. CASE t \notin dead
      <4>1. KeysWithout(s, dead)[k] = t
        BY <3>6 DEF KeysWithout
      <4>2. byObservation'[s] = [KeysWithout(s, dead) EXCEPT ![j] = u]
        BY <2>1, <3>2, <3>3 DEF FusionTypeOK
      <4>3. j = k /\ u # t
        BY <4>1, <4>2 DEF KeysWithout
      <4>4. t \in tracks[s] \ dead
        BY <2>1, <2>2, <3>6 DEF IndexesAgree
      <4> QED
        BY <3>1, <3>3, <4>1, <4>3, <4>4 DEF Moves, Makes
    <3> QED
      BY <3>5, <3>6
  <2>5. ASSUME NEW now \in Lags, SweepShard(now)
        PROVE  age[t] >= TrackTTL
    <3>1. byObservation' =
            [byObservation EXCEPT ![sweep] = KeysWithout(sweep, Expired(sweep, now))]
      BY <2>5 DEF SweepShard
    <3>2. s = sweep /\ byObservation'[s] = KeysWithout(s, Expired(s, now))
      BY <2>1, <3>1 DEF FusionTypeOK
    <3>3. t \in Expired(s, now)
      BY <3>2 DEF KeysWithout
    <3>4. now \in Nat /\ age[t] >= now + TrackTTL
      BY <3>3 DEF Expired, Lags
    <3> QED
      BY <2>2, <3>4
  <2>6. CASE SweepStart \/ FusionTick \/ UNCHANGED fusionVars
    BY <2>6 DEF SweepStart, FusionTick, fusionVars
  <2> QED
    BY <1>1, <2>4, <2>5, <2>6 DEF FusionNext
<1>2. FusionInv /\ [FusionNext]_fusionVars => [KeyStep]_fusionVars
  <2> SUFFICES ASSUME FusionInv, [FusionNext]_fusionVars
               PROVE  KeyStep
    OBVIOUS
  <2> QED
    BY <1>1 DEF KeyStep
<1> QED
  BY <1>2, InvariantHolds, PTL DEF FusionSpec, KeyKeepsTrack

=============================================================================
