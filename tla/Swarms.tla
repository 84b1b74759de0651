------------------------------- MODULE Swarms -------------------------------
(***************************************************************************)
(* The swarm detector of a geofence replica (internal/geofence/swarm.go    *)
(* and cluster.go): the last position of every drone, and the swarms that  *)
(* the periodic Evaluate finds among them and matches with those it knew.  *)
(*                                                                         *)
(* A position is one of a few places and Near says which the distance test *)
(* joins.  The test measures a degree of longitude at the latitude of the  *)
(* first of its two points, so that Near need not be symmetric, and the    *)
(* order of the points is that of a walk over a Go map: any order.         *)
(***************************************************************************)
EXTENDS Integers, FiniteSets, Functions, Folds

CONSTANTS
    SwarmDrones,
    Spots,        \* positions
    Near,         \* pairs of positions within the radius, from the first one's latitude
    MinSize,      \* cfg.MinSize
    PositionTTL,  \* cfg.PositionTTL
    MaxSwarms     \* bound: swarms ever numbered

ASSUME SwarmAssumption ==
    /\ IsFiniteSet(SwarmDrones) /\ Spots # {}
    /\ Near \subseteq Spots \X Spots /\ \A x \in Spots : <<x, x>> \in Near
    /\ MinSize \in Nat /\ MinSize >= 2 /\ PositionTTL \in Nat /\ MaxSwarms \in Nat

SwarmIDs == 1..MaxSwarms
Orders(S) == {f \in [1..Cardinality(S) -> S] : IsInjective(f)}

VARIABLES
    spot,       \* positions: the spot of a drone, Somewhere for one not tracked
    spotAge,    \* positions: the age of seenAt, -1 for a drone that is not tracked
    swarms,     \* active: the members of each swarm, none for an ID not in use
    nextSwarm

swarmVars == <<spot, spotAge, swarms, nextSwarm>>

NotTracked == -1
Somewhere == CHOOSE x \in Spots : TRUE

SwarmsInit ==
    /\ spot = [d \in SwarmDrones |-> Somewhere]
    /\ spotAge = [d \in SwarmDrones |-> NotTracked]
    /\ swarms = [i \in SwarmIDs |-> {}]
    /\ nextSwarm = 0

-----------------------------------------------------------------------------
(* clusterPoints.                                                          *)

\* Mutant: a pair joins the second drone only, not its group.
JoinOne(pair, root) == [root EXCEPT ![pair[2]] = root[pair[1]]]

\* union: the group of the second drone joins that of the first; root gives each
\* drone the root of its group.
Union(pair, root) ==
    [d \in DOMAIN root |-> IF root[d] = root[pair[2]] THEN root[pair[1]] ELSE root[d]]

\* The pairs of drones the scan of the points unites, the earlier point first.
Unions(points) ==
    LET near(i, j) == i < j /\ <<spot[points[i]], spot[points[j]]>> \in Near
    IN  UNION {{<<points[i], points[j]>> : j \in {n \in DOMAIN points : near(i, n)}}
                 : i \in DOMAIN points}

\* The root of each drone after all unions.
Roots(points) ==
    MapThenFoldSet(Union, [d \in Range(points) |-> d], LAMBDA pair : pair,
                   LAMBDA S : CHOOSE pair \in S : TRUE, Unions(points))

\* The groups of points with one root.
Groups(points, root) == {{e \in Range(points) : root[e] = root[d]} : d \in Range(points)}

\* The groups of at least MinSize drones.
Clusters(points) == {g \in Groups(points, Roots(points)) : Cardinality(g) >= MinSize}

-----------------------------------------------------------------------------
(* matchLocked.                                                            *)

Overlap(members, id) == Cardinality(members \cap swarms[id])

\* Mutant: a swarm that was matched already may be matched again.
ClaimableAgain(members, claimed) == {id \in SwarmIDs : Overlap(members, id) > 0}

\* The swarms a cluster may be matched with: they share a drone and no earlier
\* cluster claimed them.
Claimable(members, claimed) == {id \in SwarmIDs \ claimed : Overlap(members, id) > 0}

\* Those with the greatest overlap; which of them comes first is a map's order.
BestMatches(members, claimed) ==
    {id \in Claimable(members, claimed) :
        \A other \in Claimable(members, claimed) : Overlap(members, other) <= Overlap(members, id)}

\* Mutant: numbers go on after the swarms in use.
NewNumberReused(k, match) == Cardinality({id \in SwarmIDs : swarms[id] # {}}) + k

\* The number of the k-th cluster if it is a new swarm, after the new ones before it.
NewNumber(k, match) ==
    nextSwarm + 1 + Cardinality({j \in 1..(k - 1) : match[j] > nextSwarm})

\* The swarms claimed before the k-th cluster.
ClaimedBefore(k, match) == {match[j] : j \in 1..(k - 1)}

\* match gives the clusters, in this order, the IDs matchLocked may give them.
Matches(order, match) ==
    \A k \in DOMAIN order :
        LET best == BestMatches(order[k], ClaimedBefore(k, match))
        IN  IF best # {} THEN match[k] \in best ELSE match[k] = NewNumber(k, match)

-----------------------------------------------------------------------------
(* Actions.                                                                *)

\* Observe: the latest sample to arrive counts, whatever its timestamp.
ObserveSpot(d, x) ==
    /\ spot' = [spot EXCEPT ![d] = x]
    /\ spotAge' = [spotAge EXCEPT ![d] = 0]
    /\ UNCHANGED <<swarms, nextSwarm>>

\* pruneLocked at an instant.
Tracked == {d \in SwarmDrones : spotAge[d] # NotTracked /\ spotAge[d] <= PositionTTL}

\* The positions of the clusters matched with a swarm, and of those that are new ones.
MatchedWith(match, id) == {k \in DOMAIN match : match[k] = id}
Founding(match) == {k \in DOMAIN match : match[k] > nextSwarm}

\* The last of the clusters at the given positions: a map entry can be replaced.
Replaced(order, ks) ==
    IF ks = {} THEN {} ELSE order[CHOOSE k \in ks : \A j \in ks : j <= k]

\* Evaluate, under the lock.
Evaluate ==
    \E points \in Orders(Tracked) :
    \E order \in Orders(Clusters(points)) :
    \E match \in [DOMAIN order -> SwarmIDs] :
        /\ Matches(order, match)
        /\ spot' = [d \in SwarmDrones |-> IF d \in Tracked THEN spot[d] ELSE Somewhere]
        /\ spotAge' = [d \in SwarmDrones |-> IF d \in Tracked THEN spotAge[d] ELSE NotTracked]
        /\ swarms' = [id \in SwarmIDs |-> Replaced(order, MatchedWith(match, id))]
        /\ nextSwarm' = nextSwarm + Cardinality(Founding(match))

\* Time passes.
SwarmTick ==
    /\ spotAge' = [d \in SwarmDrones |->
          IF spotAge[d] \in 0..PositionTTL THEN spotAge[d] + 1 ELSE spotAge[d]]
    /\ UNCHANGED <<spot, swarms, nextSwarm>>

SwarmsNext ==
    \/ \E d \in SwarmDrones, x \in Spots : ObserveSpot(d, x)
    \/ Evaluate
    \/ SwarmTick

SwarmsSpec == SwarmsInit /\ [][SwarmsNext]_swarmVars

-----------------------------------------------------------------------------
(* Properties.                                                             *)

\* The shapes of the variables.
SwarmsTypeOK ==
    /\ spot \in [SwarmDrones -> Spots]
    /\ spotAge \in [SwarmDrones -> NotTracked..(PositionTTL + 1)]
    /\ swarms \in [SwarmIDs -> SUBSET SwarmDrones]
    /\ nextSwarm \in 0..MaxSwarms

\* A swarm is a group of enough drones and a drone is in one swarm at most;
\* every number in use was given out.
SwarmsDisjoint ==
    \A i \in SwarmIDs : swarms[i] # {} =>
        /\ Cardinality(swarms[i]) >= MinSize
        /\ i <= nextSwarm
        /\ \A j \in SwarmIDs : i # j => swarms[i] \cap swarms[j] = {}

\* A step that prunes positions and adds or moves none: an Evaluate.
PrunesOnly ==
    \A d \in SwarmDrones :
        /\ spotAge'[d] = IF d \in Tracked THEN spotAge[d] ELSE NotTracked
        /\ d \in Tracked => spot'[d] = spot[d]

Joined(d, e) == {<<spot[d], spot[e]>>, <<spot[e], spot[d]>>}

\* Evaluate leaves no group out and makes up none: two tracked drones near each
\* other are afterwards in one swarm or, as too few, in none, and a swarm does
\* not fall apart into drones with no one near.  A drone is in one swarm at most.
SwarmsAreGroups ==
    [][PrunesOnly =>
         /\ SwarmsDisjoint'
         /\ \A d, e \in Tracked : Joined(d, e) \subseteq Near =>
               \A i \in SwarmIDs : d \in swarms'[i] <=> e \in swarms'[i]
         /\ \A i \in SwarmIDs : \A part \in SUBSET swarms'[i] :
               part \notin {{}, swarms'[i]} =>
                  \E d \in part, e \in swarms'[i] \ part : Joined(d, e) \cap Near # {}
         /\ \A group \in SUBSET Tracked :
               /\ Cardinality(group) >= MinSize
               /\ \A d, e \in group : Joined(d, e) \subseteq Near
               => \E i \in SwarmIDs : group \subseteq swarms'[i]]_swarmVars

\* A swarm keeps its ID while it is one group: if its drones meet no other swarm
\* and stay in one cluster, the cluster carries the ID on; a number is never
\* given to a second swarm.
GroupsKeepNumbers ==
    \A i \in SwarmIDs :
       /\ swarms[i] = {} /\ swarms'[i] # {} => i > nextSwarm
       /\ \A j \in SwarmIDs :
            /\ swarms[i] # {} /\ swarms'[j] \cap swarms[i] # {}
            /\ \A k \in SwarmIDs \ {j} : swarms'[k] \cap swarms[i] = {}
            /\ \A k \in SwarmIDs \ {i} : swarms'[j] \cap swarms[k] = {}
            => i = j
IdentityKept == [][GroupsKeepNumbers]_swarmVars

=============================================================================
