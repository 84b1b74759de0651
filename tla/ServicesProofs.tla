--------------------------- MODULE ServicesProofs ---------------------------
(***************************************************************************)
(* Proofs about the broadcast hub, the live targets, the station registry  *)
(* and replay, for every number of viewers, partitions, stations and       *)
(* calls.  The four share no variable; each has its own specification, and *)
(* the last theorem is about the module that puts them side by side.       *)
(***************************************************************************)
EXTENDS MCServices, FiniteSetTheorems, TLAPS

-----------------------------------------------------------------------------
(* Counting.                                                               *)

\* A set that gained at most one element is at most one larger.
LEMMA CardinalityAdd ==
    ASSUME NEW S, NEW T, NEW x, IsFiniteSet(S), T \subseteq S \cup {x}
    PROVE  IsFiniteSet(T) /\ Cardinality(T) <= Cardinality(S) + 1
  <1>1. IsFiniteSet(S \cup {x}) /\ Cardinality(S \cup {x}) <= Cardinality(S) + 1
    <2>1. Cardinality(S) \in Nat
      BY FS_CardinalityType
    <2> QED
      BY <2>1, FS_AddElement
  <1>2. IsFiniteSet(T) /\ Cardinality(T) <= Cardinality(S \cup {x})
    BY <1>1, FS_Subset
  <1>3. Cardinality(S) \in Nat /\ Cardinality(T) \in Nat /\ Cardinality(S \cup {x}) \in Nat
    BY <1>1, <1>2, FS_CardinalityType
  <1> QED
    BY <1>1, <1>2, <1>3

\* A set that lost an element is at least one smaller.
LEMMA CardinalityRemove ==
    ASSUME NEW S, NEW T, NEW x \in S, IsFiniteSet(S), T \subseteq S \ {x}
    PROVE  IsFiniteSet(T) /\ Cardinality(T) + 1 <= Cardinality(S)
  <1>1. IsFiniteSet(S \ {x}) /\ Cardinality(S \ {x}) = Cardinality(S) - 1
    BY FS_RemoveElement
  <1>2. IsFiniteSet(T) /\ Cardinality(T) <= Cardinality(S \ {x})
    BY <1>1, FS_Subset
  <1>3. Cardinality(S) \in Nat /\ Cardinality(T) \in Nat
    BY <1>2, FS_CardinalityType
  <1> QED
    BY <1>1, <1>2, <1>3

-----------------------------------------------------------------------------
(* The broadcast hub.                                                      *)

\* The hub starts with no subscriber and no channel.
LEMMA HubInitOK == HubInit => HubTypeOK /\ ChannelsSafe
  <1> SUFFICES ASSUME HubInit PROVE HubTypeOK /\ ChannelsSafe
    OBVIOUS
  <1> USE DEF HubInit
  <1>1. chan \in [Viewers -> Seq(Payloads)]
    OBVIOUS
  <1>2. /\ viewer \in [Viewers -> {"out", "subscribe", "loop", "send", "unsubscribe", "ended"}]
        /\ todo \in [Broadcasters -> SUBSET Viewers]
        /\ payload \in [Broadcasters -> Payloads \cup {NoPayload}]
    OBVIOUS
  <1>3. ChannelsSafe
    BY DEF ChannelsSafe, NoSendOnClosedChannel, OpenIffRegistered
  <1> QED
    BY <1>1, <1>2, <1>3 DEF HubTypeOK

\* Every step of a handler, of Broadcast and of Close keeps the types.
LEMMA HubNextTypeOK == HubTypeOK /\ [HubNext]_hubVars => HubTypeOK'
  <1> SUFFICES ASSUME HubTypeOK, [HubNext]_hubVars PROVE HubTypeOK'
    OBVIOUS
  <1> USE HubAssumption DEF HubTypeOK
  <1>1. ASSUME NEW v \in Viewers, SubscribeCall(v) PROVE HubTypeOK'
    BY <1>1 DEF SubscribeCall
  <1>2. ASSUME NEW v \in Viewers, Subscribe(v) PROVE HubTypeOK'
    BY <1>2 DEF Subscribe
  <1>3. ASSUME NEW v \in Viewers, Receive(v) PROVE HubTypeOK'
    <2>1. chan'[v] \in Seq(Payloads) /\ chan' \in [Viewers -> Seq(Payloads)]
      BY <1>3 DEF Receive
    <2>2. viewer' \in [Viewers -> {"out", "subscribe", "loop", "send", "unsubscribe", "ended"}]
      BY <1>3 DEF Receive
    <2> QED
      BY <1>3, <2>1, <2>2 DEF Receive
  <1>4. ASSUME NEW v \in Viewers, SendReturns(v) PROVE HubTypeOK'
    BY <1>4 DEF SendReturns
  <1>5. ASSUME NEW v \in Viewers, ReceiveClosed(v) PROVE HubTypeOK'
    BY <1>5 DEF ReceiveClosed
  <1>6. ASSUME NEW v \in Viewers, Leave(v) PROVE HubTypeOK'
    BY <1>6 DEF Leave
  <1>7. ASSUME NEW v \in Viewers, Unsubscribe(v) PROVE HubTypeOK'
    BY <1>7 DEF Unsubscribe
  <1>8. ASSUME NEW b \in Broadcasters, NEW m \in Payloads, BroadcastStart(b, m)
        PROVE  HubTypeOK'
    BY <1>8 DEF BroadcastStart
  <1>9. ASSUME NEW b \in Broadcasters, NEW v \in Viewers, BroadcastSend(b, v)
        PROVE  HubTypeOK'
    <2>1. payload[b] \in Payloads /\ chan[v] \in Seq(Payloads)
      BY <1>9 DEF BroadcastSend
    <2>2. Append(chan[v], payload[b]) \in Seq(Payloads)
      BY <2>1
    <2>3. chan' \in [Viewers -> Seq(Payloads)]
      BY <1>9, <2>2 DEF BroadcastSend
    <2> QED
      BY <1>9, <2>3 DEF BroadcastSend
  <1>10. ASSUME NEW b \in Broadcasters, BroadcastEnd(b) PROVE HubTypeOK'
    BY <1>10 DEF BroadcastEnd
  <1>11. CASE CloseCall
    BY <1>11 DEF CloseCall
  <1>12. CASE Close
    BY <1>12 DEF Close
  <1>13. CASE UNCHANGED hubVars
    BY <1>13 DEF hubVars
  <1> QED
    BY <1>1, <1>2, <1>3, <1>4, <1>5, <1>6, <1>7, <1>8, <1>9, <1>10, <1>11, <1>12, <1>13
    DEF HubNext, ViewerStep, BroadcastStep, HubTerminated

\* Every step keeps the channels safe: whoever opens or closes one holds the write
\* lock, so no Broadcast is in its range, and changes h.subscribers with it.
LEMMA HubNextChannels ==
    HubTypeOK /\ ChannelsSafe /\ [HubNext]_hubVars => ChannelsSafe'
  <1> SUFFICES ASSUME HubTypeOK, ChannelsSafe, [HubNext]_hubVars PROVE ChannelsSafe'
    OBVIOUS
  <1> USE HubAssumption
      DEF HubTypeOK, ChannelsSafe, NoSendOnClosedChannel, OpenIffRegistered
  <1>1. ASSUME NEW v \in Viewers, SubscribeCall(v) PROVE ChannelsSafe'
    BY <1>1 DEF SubscribeCall
  <1>2. ASSUME NEW v \in Viewers, Subscribe(v) PROVE ChannelsSafe'
    <2>1. CASE hubClosed
      BY <1>2, <2>1 DEF Subscribe
    <2>2. CASE ~hubClosed
      BY <1>2, <2>2 DEF Subscribe
    <2> QED
      BY <2>1, <2>2
  <1>3. ASSUME NEW v \in Viewers, Receive(v) PROVE ChannelsSafe'
    BY <1>3 DEF Receive
  <1>4. ASSUME NEW v \in Viewers, SendReturns(v) PROVE ChannelsSafe'
    BY <1>4 DEF SendReturns
  <1>5. ASSUME NEW v \in Viewers, ReceiveClosed(v) PROVE ChannelsSafe'
    BY <1>5 DEF ReceiveClosed
  <1>6. ASSUME NEW v \in Viewers, Leave(v) PROVE ChannelsSafe'
    BY <1>6 DEF Leave
  <1>7. ASSUME NEW v \in Viewers, Unsubscribe(v) PROVE ChannelsSafe'
    <2>1. NoSendOnClosedChannel'
      BY <1>7 DEF Unsubscribe, Sending
    <2>2. OpenIffRegistered'
      BY <1>7 DEF Unsubscribe
    <2> QED
      BY <2>1, <2>2
  <1>8. ASSUME NEW b \in Broadcasters, NEW m \in Payloads, BroadcastStart(b, m)
        PROVE  ChannelsSafe'
    BY <1>8 DEF BroadcastStart
  <1>9. ASSUME NEW b \in Broadcasters, NEW v \in Viewers, BroadcastSend(b, v)
        PROVE  ChannelsSafe'
    BY <1>9 DEF BroadcastSend
  <1>10. ASSUME NEW b \in Broadcasters, BroadcastEnd(b) PROVE ChannelsSafe'
    BY <1>10 DEF BroadcastEnd
  <1>11. CASE CloseCall
    BY <1>11 DEF CloseCall
  <1>12. CASE Close
    BY <1>12 DEF Close, Sending
  <1>13. CASE UNCHANGED hubVars
    BY <1>13 DEF hubVars
  <1> QED
    BY <1>1, <1>2, <1>3, <1>4, <1>5, <1>6, <1>7, <1>8, <1>9, <1>10, <1>11, <1>12, <1>13
    DEF HubNext, ViewerStep, BroadcastStep, HubTerminated

\* hub.go: no viewer is sent to on a closed channel and no channel is closed twice or
\* left behind, for every number of viewers and concurrent Broadcast calls.
THEOREM HubSafe == HubSpec => [](HubTypeOK /\ ChannelsSafe)
  <1>1. HubTypeOK /\ ChannelsSafe /\ [HubNext]_hubVars => (HubTypeOK /\ ChannelsSafe)'
    BY HubNextTypeOK, HubNextChannels
  <1> QED
    BY HubInitOK, <1>1, PTL DEF HubSpec

-----------------------------------------------------------------------------
(* The live targets.                                                       *)

Loading == [pc : {"load"}, drone : Targets, next : TargetEntries]
Swapping == [pc : {"swap"}, drone : Targets, next : TargetEntries,
             seen : TargetEntries \cup {NoEntry}]

\* Where a call of Observe can stand; an entry it means to replace is not newer.
ObserversOK ==
    /\ observer \in [Partitions -> {NoObserve} \cup Loading \cup Swapping]
    /\ \A p \in Partitions :
         observer[p].pc = "swap" /\ observer[p].seen # NoEntry
            => observer[p].next.time >= observer[p].seen.time

TargetsInv == TargetsTypeOK /\ ObserversOK

\* The store starts empty, with no call in progress.
LEMMA TargetsInitInv == TargetsInit => TargetsInv
  BY TargetsAssumption
  DEF TargetsInit, TargetsInv, TargetsTypeOK, ObserversOK, NoObserve, NoEviction

\* The three shapes of an Observe call are told apart by pc.
LEMMA ObserverShape ==
    ASSUME ObserversOK, NEW p \in Partitions
    PROVE  /\ observer[p].pc = "load" => observer[p] \in Loading
           /\ observer[p].pc = "swap" => observer[p] \in Swapping
           /\ observer[p] = NoObserve => observer[p].pc = "idle"
  BY DEF ObserversOK, Loading, Swapping, NoObserve

\* The steps of Observe and of EvictLoop keep the shapes, and Load admits to the swap
\* only a sample that is not older than the entry it has read.
LEMMA TargetsNextInv == TargetsInv /\ [TargetsNext]_targetVars => TargetsInv'
  <1> SUFFICES ASSUME TargetsInv, [TargetsNext]_targetVars PROVE TargetsInv'
    OBVIOUS
  <1> USE TargetsAssumption DEF TargetsInv
  <1>1. ASSUME NEW p \in Partitions, NEW d \in Targets, NEW t \in Times,
               ObserveTarget(p, d, t)
        PROVE  TargetsInv'
    <2>1. [time |-> t, stored |-> targetClock] \in TargetEntries
      BY DEF TargetsTypeOK, TargetEntries
    <2>2. observer' = [observer EXCEPT ![p] = [pc |-> "load", drone |-> d,
                          next |-> [time |-> t, stored |-> targetClock]]]
          /\ UNCHANGED <<targets, targetEvict, targetClock>>
      BY <1>1 DEF ObserveTarget
    <2>3. [pc |-> "load", drone |-> d, next |-> [time |-> t, stored |-> targetClock]] \in Loading
      BY <2>1 DEF Loading
    <2>4. ObserversOK'
      BY <2>2, <2>3 DEF ObserversOK
    <2>5. TargetsTypeOK'
      BY <2>1, <2>2 DEF TargetsTypeOK, NoObserve, ObserversOK
    <2> QED
      BY <2>4, <2>5
  <1>2. ASSUME NEW p \in Partitions, LoadTarget(p) PROVE TargetsInv'
    <2> DEFINE current == targets[observer[p].drone]
               swap == [pc |-> "swap", drone |-> observer[p].drone,
                        next |-> observer[p].next, seen |-> current]
    <2>1. observer[p] \in Loading /\ UNCHANGED <<targets, targetEvict, targetClock>>
      BY <1>2, ObserverShape DEF LoadTarget
    <2>2. current \in TargetEntries \cup {NoEntry}
      BY <2>1 DEF TargetsTypeOK, Loading
    <2>3. swap \in Swapping
      BY <2>1, <2>2 DEF Swapping, Loading
    <2>4. CASE current # NoEntry /\ Outdated(observer[p].next, current)
      <3>1. observer' = [observer EXCEPT ![p] = NoObserve]
        BY <1>2, <2>4 DEF LoadTarget
      <3>2. ObserversOK'
        BY <3>1 DEF ObserversOK, NoObserve
      <3> QED
        BY <2>1, <3>1, <3>2 DEF TargetsTypeOK, ObserversOK
    <2>5. CASE ~(current # NoEntry /\ Outdated(observer[p].next, current))
      <3>1. observer' = [observer EXCEPT ![p] = swap]
        BY <1>2, <2>5 DEF LoadTarget
      <3>2. swap.seen # NoEntry => swap.next.time >= swap.seen.time
        BY <2>1, <2>2, <2>5 DEF Outdated, Loading, TargetEntries, Times
      <3>3. ObserversOK'
        BY <2>3, <3>1, <3>2 DEF ObserversOK
      <3>4. swap.drone \in Targets /\ swap.next \in TargetEntries
        BY <2>1 DEF Loading
      <3>5. TargetsTypeOK'
        BY <2>1, <3>1, <3>4 DEF TargetsTypeOK, ObserversOK
      <3> QED
        BY <3>3, <3>5
    <2> QED
      BY <2>4, <2>5
  <1>3. ASSUME NEW p \in Partitions, SwapTarget(p) PROVE TargetsInv'
    <2> DEFINE load == [pc |-> "load", drone |-> observer[p].drone, next |-> observer[p].next]
    <2>1. observer[p] \in Swapping /\ UNCHANGED <<targetEvict, targetClock>>
      BY <1>3, ObserverShape DEF SwapTarget
    <2>2. CASE targets[observer[p].drone] = observer[p].seen
      <3>1. targets' = [targets EXCEPT ![observer[p].drone] = observer[p].next]
            /\ observer' = [observer EXCEPT ![p] = NoObserve]
        BY <1>3, <2>2 DEF SwapTarget
      <3>2. ObserversOK'
        BY <3>1 DEF ObserversOK, NoObserve
      <3>3. observer[p].next \in TargetEntries
        BY <2>1 DEF Swapping
      <3>4. TargetsTypeOK'
        BY <2>1, <3>1, <3>3 DEF TargetsTypeOK, ObserversOK
      <3> QED
        BY <3>2, <3>4
    <2>3. CASE targets[observer[p].drone] # observer[p].seen
      <3>1. targets' = targets /\ observer' = [observer EXCEPT ![p] = load]
        BY <1>3, <2>3 DEF SwapTarget
      <3>2. load \in Loading
        BY <2>1 DEF Swapping, Loading
      <3>3. ObserversOK'
        BY <3>1, <3>2 DEF ObserversOK
      <3>4. load.drone \in Targets /\ load.next \in TargetEntries
        BY <2>1 DEF Swapping
      <3>5. TargetsTypeOK'
        BY <2>1, <3>1, <3>4 DEF TargetsTypeOK, ObserversOK
      <3> QED
        BY <3>3, <3>5
    <2> QED
      BY <2>2, <2>3
  <1>4. CASE EvictTargets
    BY <1>4 DEF EvictTargets, TargetsTypeOK, ObserversOK
  <1>5. ASSUME NEW d \in Targets, VisitTarget(d) PROVE TargetsInv'
    BY <1>5 DEF VisitTarget, TargetsTypeOK, ObserversOK
  <1>6. CASE DeleteTarget
    BY <1>6 DEF DeleteTarget, TargetsTypeOK, ObserversOK
  <1>7. CASE TargetTick
    BY <1>7 DEF TargetTick, TargetsTypeOK, ObserversOK
  <1>8. CASE UNCHANGED targetVars
    BY <1>8 DEF targetVars, TargetsTypeOK, ObserversOK
  <1> QED
    BY <1>1, <1>2, <1>3, <1>4, <1>5, <1>6, <1>7, <1>8 DEF TargetsNext, VisitTargets

\* No step puts an older position in the place of a newer one: the swap compares the
\* entry with the one that was read, and DeleteTarget only removes.
LEMMA TargetsNextForward ==
    TargetsInv /\ [TargetsNext]_targetVars => [TargetsMoveOn]_targetVars
  <1> SUFFICES ASSUME TargetsInv, TargetsNext PROVE TargetsMoveOn
    BY DEF targetVars
  <1> USE DEF TargetsInv
  <1>1. \A d \in Targets : targets[d] # NoEntry => targets[d].time >= targets[d].time
    BY DEF TargetsTypeOK, TargetEntries, Times
  <1>2. ASSUME NEW p \in Partitions, SwapTarget(p) PROVE TargetsMoveOn
    <2>1. observer[p] \in Swapping
      BY <1>2, ObserverShape DEF SwapTarget
    <2>2. CASE targets[observer[p].drone] = observer[p].seen
      <3>1. targets' = [targets EXCEPT ![observer[p].drone] = observer[p].next]
        BY <1>2, <2>2 DEF SwapTarget
      <3>2. targets[observer[p].drone] # NoEntry
              => observer[p].next.time >= targets[observer[p].drone].time
        BY <1>2, <2>2 DEF ObserversOK, SwapTarget
      <3> QED
        BY <1>1, <3>1, <3>2 DEF TargetsMoveOn, TargetsTypeOK
    <2>3. CASE targets[observer[p].drone] # observer[p].seen
      BY <1>1, <1>2, <2>3 DEF SwapTarget, TargetsMoveOn
    <2> QED
      BY <2>2, <2>3
  <1>3. CASE DeleteTarget
    BY <1>1, <1>3 DEF DeleteTarget, TargetsMoveOn
  <1>4. CASE UNCHANGED targets
    BY <1>1, <1>4 DEF TargetsMoveOn
  <1> QED
    BY <1>2, <1>3, <1>4
    DEF TargetsNext, ObserveTarget, LoadTarget, EvictTargets, VisitTargets, VisitTarget, TargetTick

\* aggregator.go: whoever wins the race between callbacks, an Observe in its swap
\* never holds a sample older than the entry it has read.
THEOREM TargetsInvHolds == TargetsSpec => []TargetsInv
  BY TargetsInitInv, TargetsNextInv, PTL DEF TargetsSpec

\* aggregator.go: a target is never shown at an older position than before, for every
\* number of partitions, targets and instants.
THEOREM TargetsForward == TargetsSpec => TargetsNeverGoBack
  BY TargetsInvHolds, TargetsNextForward, PTL DEF TargetsSpec, TargetsNeverGoBack

-----------------------------------------------------------------------------
(* The station registry.                                                   *)

Inserting == {f \in Feeds : feed[f].pc \in {"load", "insert"}}
Uncounted == {f \in Feeds : feed[f].pc \in {"load", "insert", "samples"}}
InWindow(o) == {f \in Feeds : feed[f].pc = "window" /\ feed[f].object = o}

\* Every object made, and every sample counted, is owed to a call of Observe.
ObservesBound ==
    /\ made + Cardinality(Inserting) <= observes
    /\ Cardinality(Uncounted) <= observes
    /\ \A o \in Objects : station[o].samples + Cardinality(Uncounted) <= observes

\* A sample is in the window of an object only after it is in its samples.
WindowsBehind ==
    \A o \in Objects : station[o].windowCount + Cardinality(InWindow(o)) <= station[o].samples

\* Streams count into objects the map holds or has held, the checker looks at
\* the one the map holds, and the objects not yet made are untouched.
ObjectsKnown ==
    /\ \A f \in Feeds : feed[f].pc \in {"samples", "window", "seen"}
          => feed[f].object \in 1..made /\ feed[f].object \in {listed} \cup forgotten
    /\ check.pc # "idle" => check.object = listed /\ listed # 0
    /\ \A o \in Objects : o > made => station[o].samples = 0

StationsInv ==
    StationsTypeOK /\ ObservesBound /\ WindowsBehind /\ ObjectsKnown /\ CountedInOnePlace

\* Sets of streams are finite, and counted.
LEMMA FeedSets ==
    ASSUME NEW S \in SUBSET Feeds
    PROVE  IsFiniteSet(S) /\ Cardinality(S) \in Nat
  BY StationsAssumption, FS_Subset, FS_CardinalityType

\* No stream has called Observe and no object is made.
LEMMA StationsInitInv == StationsInit => StationsInv
  <1> SUFFICES ASSUME StationsInit PROVE StationsInv
    OBVIOUS
  <1> USE StationsAssumption DEF StationsInit, NoFeed, NoCheck
  <1>1. Inserting = {} /\ Uncounted = {} /\ \A o \in Objects : InWindow(o) = {}
    BY DEF Inserting, Uncounted, InWindow
  <1>2. \A o \in Objects : station[o] = Fresh(0)
    OBVIOUS
  <1>3. StationsTypeOK
    <2>1. station \in [Objects -> [lastSeen : Instants, samples : 0..MaxObserves,
             windowStart : Instants, windowCount : 0..MaxObserves, lastReported : Statuses]]
      BY DEF Fresh, Instants, Statuses
    <2>2. windowAdds \in [Objects -> Nat] /\ forgotten \subseteq Objects
      OBVIOUS
    <2>3. /\ 0 \in Instants /\ stationClock \in Instants /\ 0 \in 0..MaxObserves
          /\ listed \in 0..made /\ made \in 0..MaxObserves /\ observes \in 0..MaxObserves
      BY DEF Instants
    <2>4. feed \in [Feeds -> [pc : {"idle", "load", "insert", "samples", "window", "seen"},
                              now : Instants, object : 0..MaxObserves]]
      BY <2>3
    <2>5. check \in [pc : {"idle", "age", "window", "count", "status", "delete"},
                     now : Instants, object : 0..MaxObserves]
      BY <2>3
    <2> HIDE StationsAssumption DEF StationsInit, NoFeed, NoCheck
    <2> QED
      BY <2>1, <2>2, <2>3, <2>4, <2>5 DEF StationsTypeOK
  <1>4. ObservesBound /\ WindowsBehind
    <2>1. \A o \in Objects : station[o].samples = 0 /\ station[o].windowCount = 0
      BY <1>2 DEF Fresh
    <2>2. /\ Cardinality(Inserting) = 0 /\ Cardinality(Uncounted) = 0
          /\ \A o \in Objects : Cardinality(InWindow(o)) = 0
      BY <1>1, FS_EmptySet
    <2>3. made = 0 /\ observes = 0
      OBVIOUS
    <2> HIDE StationsAssumption DEF StationsInit, NoFeed, NoCheck
    <2> QED
      BY <2>1, <2>2, <2>3 DEF ObservesBound, WindowsBehind
  <1>5. ObjectsKnown /\ CountedInOnePlace
    BY <1>2 DEF ObjectsKnown, CountedInOnePlace, Fresh
  <1> QED
    BY <1>3, <1>4, <1>5 DEF StationsInv

\* The call of a stream starts: it owes one object at most, and one sample.
LEMMA ObserveStationInv ==
    ASSUME StationsInv, NEW f \in Feeds, ObserveStation(f)
    PROVE  StationsInv'
  <1> USE StationsAssumption DEF StationsInv
  <1>1. /\ feed[f].pc = "idle" /\ observes + 1 \in 0..MaxObserves /\ observes' = observes + 1
        /\ feed' = [feed EXCEPT ![f] = [pc |-> "load", now |-> stationClock, object |-> 0]]
        /\ UNCHANGED <<listed, station, check, made, forgotten, windowAdds, stationClock>>
    BY DEF ObserveStation, StationsTypeOK
  <1>2. StationsTypeOK'
    BY <1>1 DEF StationsTypeOK
  <1>3. /\ Inserting' \subseteq Inserting \cup {f} /\ Uncounted' \subseteq Uncounted \cup {f}
        /\ \A o \in Objects : InWindow(o)' = InWindow(o)
    BY <1>1 DEF Inserting, Uncounted, InWindow, StationsTypeOK
  <1>4. Inserting \in SUBSET Feeds /\ Uncounted \in SUBSET Feeds
    BY DEF Inserting, Uncounted
  <1>5. /\ Cardinality(Inserting') <= Cardinality(Inserting) + 1
        /\ Cardinality(Uncounted') <= Cardinality(Uncounted) + 1
    BY <1>3, <1>4, FeedSets, CardinalityAdd
  <1>6. /\ Cardinality(Inserting) \in Nat /\ Cardinality(Uncounted) \in Nat
        /\ Cardinality(Inserting') \in Nat /\ Cardinality(Uncounted') \in Nat
        /\ made \in Nat /\ observes \in Nat
        /\ \A o \in Objects : station[o].samples \in Nat
    BY <1>4, FeedSets DEF StationsTypeOK, Inserting, Uncounted
  <1>7. ObservesBound'
    BY <1>1, <1>5, <1>6 DEF ObservesBound
  <1>8. WindowsBehind'
    BY <1>1, <1>3 DEF WindowsBehind
  <1>9. ObjectsKnown' /\ CountedInOnePlace'
    BY <1>1 DEF ObjectsKnown, CountedInOnePlace, StationsTypeOK
  <1> QED
    BY <1>2, <1>7, <1>8, <1>9

\* The map is looked up: the call owes its object no longer if there was one.
LEMMA LoadStationInv ==
    ASSUME StationsInv, NEW f \in Feeds, LoadStation(f)
    PROVE  StationsInv'
  <1> USE StationsAssumption DEF StationsInv
  <1>1. /\ feed[f].pc = "load"
        /\ feed' = [feed EXCEPT ![f].pc = IF listed = 0 THEN "insert" ELSE "samples",
                                ![f].object = listed]
        /\ UNCHANGED <<listed, station, check, made, observes, forgotten, windowAdds,
                       stationClock>>
    BY DEF LoadStation
  <1>2. /\ listed \in 0..MaxObserves /\ (listed # 0 => listed \in 1..made)
        /\ made \in Nat /\ observes \in Nat
    BY DEF StationsTypeOK
  <1>3. /\ feed'[f].object = listed
        /\ feed'[f].pc = IF listed = 0 THEN "insert" ELSE "samples"
        /\ \A g \in Feeds \ {f} : feed'[g] = feed[g]
    BY <1>1 DEF StationsTypeOK
  <1>4. StationsTypeOK'
    BY <1>1, <1>2 DEF StationsTypeOK
  <1>5. /\ Inserting' \subseteq Inserting /\ Uncounted' = Uncounted
        /\ \A o \in Objects : InWindow(o)' = InWindow(o)
    <2>1. /\ feed'[f].pc \in {"insert", "samples"}
          /\ \A g \in Feeds : g # f => feed'[g] = feed[g]
      BY <1>3
    <2> HIDE DEF StationsInv
    <2>2. Inserting' \subseteq Inserting
      BY <1>1, <2>1 DEF Inserting
    <2>3. Uncounted' = Uncounted
      BY <1>1, <2>1 DEF Uncounted
    <2>4. \A o \in Objects : InWindow(o)' = InWindow(o)
      BY <1>1, <2>1 DEF InWindow
    <2> QED
      BY <2>2, <2>3, <2>4
  <1>6. IsFiniteSet(Inserting) /\ Cardinality(Inserting) \in Nat
    BY FeedSets DEF Inserting
  <1>7. Cardinality(Inserting') <= Cardinality(Inserting) /\ Cardinality(Inserting') \in Nat
    BY <1>5, <1>6, FS_Subset, FS_CardinalityType
  <1>8. ObservesBound' /\ WindowsBehind'
    BY <1>1, <1>2, <1>5, <1>6, <1>7 DEF ObservesBound, WindowsBehind
  <1>9. ObjectsKnown'
    <2>1. ASSUME NEW g \in Feeds, feed'[g].pc \in {"samples", "window", "seen"}
          PROVE  /\ feed'[g].object \in 1..made'
                 /\ feed'[g].object \in {listed'} \cup forgotten'
      <3>1. ObjectsKnown /\ UNCHANGED <<listed, made, forgotten>>
        BY <1>1
      <3> HIDE DEF StationsInv
      <3>2. CASE g = f
        BY <1>2, <1>3, <2>1, <3>1, <3>2
      <3>3. CASE g # f
        BY <1>3, <2>1, <3>1, <3>3 DEF ObjectsKnown
      <3> QED
        BY <3>2, <3>3
    <2> QED
      BY <1>1, <2>1 DEF ObjectsKnown
  <1>10. CountedInOnePlace'
    BY <1>1 DEF CountedInOnePlace
  <1> QED
    BY <1>4, <1>8, <1>9, <1>10

\* LoadOrStore: a fresh object takes the place in the map only if there was none, so
\* whatever was counted before was counted into objects already forgotten.
LEMMA InsertStationInv ==
    ASSUME StationsInv, NEW f \in Feeds, InsertStation(f)
    PROVE  StationsInv'
  <1> USE StationsAssumption DEF StationsInv
  <1>1. /\ feed[f].pc = "insert"
        /\ feed' = [feed EXCEPT ![f].pc = "samples", ![f].object = listed']
        /\ UNCHANGED <<check, observes, forgotten, windowAdds, stationClock>>
    BY DEF InsertStation
  <1>2. Inserting \in SUBSET Feeds /\ Uncounted \in SUBSET Feeds /\ f \in Inserting
    BY <1>1 DEF Inserting, Uncounted
  <1>3. /\ Inserting' \subseteq Inserting \ {f} /\ Uncounted' = Uncounted
        /\ \A o \in Objects : InWindow(o)' = InWindow(o)
    BY <1>1 DEF Inserting, Uncounted, InWindow, StationsTypeOK
  <1>4. Cardinality(Inserting') + 1 <= Cardinality(Inserting)
    BY <1>2, <1>3, FeedSets, CardinalityRemove
  <1>5. /\ Cardinality(Inserting) \in Nat /\ Cardinality(Inserting') \in Nat
        /\ Cardinality(Uncounted) \in Nat
        /\ made \in Nat /\ observes \in Nat /\ observes <= MaxObserves
    BY <1>2, FeedSets DEF StationsTypeOK, Inserting
  <1>6. /\ feed'[f].object = listed'
         /\ \A g \in Feeds \ {f} : feed'[g] = feed[g]
    BY <1>1 DEF StationsTypeOK
  <1>7. listed' \in 0..MaxObserves
           => feed' \in [Feeds -> [pc : {"idle", "load", "insert", "samples", "window", "seen"},
                                   now : Instants, object : 0..MaxObserves]]
    BY <1>1 DEF StationsTypeOK
  <1>8. CASE listed = 0
    <2>1. /\ made' = made + 1 /\ listed' = made + 1
          /\ station' = [station EXCEPT ![made + 1] = Fresh(feed[f].now)]
      BY <1>8 DEF InsertStation, Insert
    <2>2. made + 1 \in Objects
      BY <1>4, <1>5 DEF ObservesBound, Objects
    <2>3. Fresh(feed[f].now) \in [lastSeen : Instants, samples : 0..MaxObserves,
             windowStart : Instants, windowCount : 0..MaxObserves, lastReported : Statuses]
      BY DEF Fresh, StationsTypeOK, Statuses
    <2>4. StationsTypeOK'
      <3>1. listed' \in 0..made' /\ made' \in 0..MaxObserves /\ listed' \in 0..MaxObserves
        BY <1>5, <2>1, <2>2 DEF Objects
      <3>2. station' \in [Objects -> [lastSeen : Instants, samples : 0..MaxObserves,
               windowStart : Instants, windowCount : 0..MaxObserves, lastReported : Statuses]]
        BY <2>1, <2>2, <2>3 DEF StationsTypeOK
      <3> QED
        BY <1>1, <1>7, <3>1, <3>2 DEF StationsTypeOK
    <2>5. \A o \in Objects : station'[o] = IF o = made + 1 THEN Fresh(feed[f].now) ELSE station[o]
      BY <2>1, <2>2 DEF StationsTypeOK
    <2>6. ObservesBound'
      BY <1>1, <1>3, <1>4, <1>5, <2>1, <2>5 DEF ObservesBound, Fresh
    <2>7. InWindow(made + 1) = {}
      BY <1>5 DEF InWindow, ObjectsKnown
    <2>8. WindowsBehind'
      <3> SUFFICES ASSUME NEW o \in Objects
                   PROVE  station'[o].windowCount + Cardinality(InWindow(o)') <= station'[o].samples
        BY DEF WindowsBehind
      <3>1. InWindow(o)' = InWindow(o)
        BY <1>3
      <3>2. CASE o = made + 1
        <4>1. station'[o].windowCount = 0 /\ station'[o].samples = 0
          BY <2>5, <3>2 DEF Fresh
        <4>2. Cardinality(InWindow(o)') = 0
          BY <2>7, <3>1, <3>2, FS_EmptySet
        <4> QED
          BY <4>1, <4>2
      <3>3. CASE o # made + 1
        BY <2>5, <3>1, <3>3 DEF WindowsBehind
      <3> QED
        BY <3>2, <3>3
    <2>9. ObjectsKnown'
      <3>1. \A g \in Feeds : feed'[g].pc \in {"samples", "window", "seen"}
               => /\ feed'[g].object \in 1..made'
                  /\ feed'[g].object \in {listed'} \cup forgotten'
        BY <1>1, <1>5, <1>8, <1>6, <2>1 DEF ObjectsKnown, StationsTypeOK
      <3>2. check'.pc = "idle"
        BY <1>1, <1>8 DEF ObjectsKnown
      <3>3. \A o \in Objects : o > made' => station'[o].samples = 0
        BY <1>5, <2>1, <2>5 DEF ObjectsKnown, Objects
      <3> QED
        BY <3>1, <3>2, <3>3 DEF ObjectsKnown
    <2>10. CountedInOnePlace'
      BY <1>1, <1>8, <2>1, <2>5 DEF CountedInOnePlace, Fresh, Objects
    <2> QED
      BY <2>4, <2>6, <2>8, <2>9, <2>10
  <1>9. CASE listed # 0
    <2>1. UNCHANGED <<listed, station, made>>
      BY <1>9 DEF InsertStation
    <2>2. StationsTypeOK'
      BY <1>1, <1>7, <2>1 DEF StationsTypeOK
    <2>3. ObservesBound' /\ WindowsBehind'
      BY <1>1, <1>3, <1>4, <1>5, <2>1 DEF ObservesBound, WindowsBehind
    <2>4. ObjectsKnown' /\ CountedInOnePlace'
      BY <1>1, <1>9, <2>1 DEF ObjectsKnown, CountedInOnePlace, StationsTypeOK
    <2> QED
      BY <2>2, <2>3, <2>4
  <1> QED
    BY <1>8, <1>9

\* The feeders behind the window of an object are finitely many, before and after a step.
LEMMA WindowCounts ==
    ASSUME NEW u
    PROVE  Cardinality(InWindow(u)) \in Nat /\ Cardinality(InWindow(u)') \in Nat
  <1>1. InWindow(u) \in SUBSET Feeds /\ InWindow(u)' \in SUBSET Feeds
    BY DEF InWindow
  <1> QED
    BY <1>1, FeedSets

\* samples.Add pays the sample the call owes, and windowCount.Add the one by which
\* the window is behind.
LEMMA FeedStepInv ==
    ASSUME StationsInv, NEW f \in Feeds, FeedStep(f)
    PROVE  StationsInv'
  <1> USE StationsAssumption DEF StationsInv
  <1> PICK o : o = feed[f].object
    OBVIOUS
  <1>1. UNCHANGED <<listed, check, made, observes, forgotten, stationClock>>
    BY DEF FeedStep
  <1>2. /\ Inserting \in SUBSET Feeds /\ Uncounted \in SUBSET Feeds
        /\ InWindow(o) \in SUBSET Feeds /\ InWindow(o)' \in SUBSET Feeds
    BY DEF Inserting, Uncounted, InWindow
  <1>3. /\ Cardinality(Inserting) \in Nat /\ Cardinality(Uncounted) \in Nat
        /\ Cardinality(InWindow(o)) \in Nat /\ Cardinality(InWindow(o)') \in Nat
    BY <1>2, FeedSets
  <1>4. CASE feed[f].pc = "samples"
    <2>1. /\ station' = [station EXCEPT ![o].samples = @ + 1]
          /\ feed' = [feed EXCEPT ![f].pc = "window"] /\ UNCHANGED windowAdds
      BY <1>4 DEF FeedStep, AddSample, StoreLastSeen
    <2>2. o \in Objects /\ o \in {listed} \cup forgotten
      BY <1>4 DEF ObjectsKnown, StationsTypeOK, Objects
    <2>3. /\ Inserting' = Inserting /\ Uncounted' \subseteq Uncounted \ {f} /\ f \in Uncounted
          /\ InWindow(o)' \subseteq InWindow(o) \cup {f}
          /\ \A u \in Objects \ {o} : InWindow(u)' = InWindow(u)
      BY <1>4, <2>1 DEF Inserting, Uncounted, InWindow, StationsTypeOK
    <2>4. Uncounted' \in SUBSET Feeds
      BY <1>2, <2>3
    <2>5. /\ Cardinality(Uncounted') + 1 <= Cardinality(Uncounted)
          /\ Cardinality(Uncounted') \in Nat
          /\ Cardinality(InWindow(o)') <= Cardinality(InWindow(o)) + 1
      BY <1>2, <2>3, <2>4, FeedSets, CardinalityAdd, CardinalityRemove
    <2>6. /\ \A u \in Objects : station'[u].samples
                 = IF u = o THEN station[o].samples + 1 ELSE station[u].samples
          /\ \A u \in Objects : station'[u].windowCount = station[u].windowCount
          /\ \A u \in Objects : station[u].samples \in Nat /\ station[u].windowCount \in Nat
      BY <2>1, <2>2 DEF StationsTypeOK
    <2>7. station[o].samples + 1 \in 0..MaxObserves
      BY <1>3, <2>2, <2>5, <2>6 DEF ObservesBound, StationsTypeOK
    <2>8. StationsTypeOK'
      BY <1>1, <2>1, <2>2, <2>7 DEF StationsTypeOK
    <2>9. ObservesBound'
      BY <1>1, <1>3, <2>2, <2>3, <2>5, <2>6 DEF ObservesBound, StationsTypeOK
    <2>10. WindowsBehind'
      <3> SUFFICES ASSUME NEW u \in Objects
                   PROVE  station'[u].windowCount + Cardinality(InWindow(u)') <= station'[u].samples
        BY DEF WindowsBehind
      <3>1. /\ Cardinality(InWindow(u)) \in Nat /\ Cardinality(InWindow(u)') \in Nat
            /\ station[u].samples \in Nat /\ station[u].windowCount \in Nat
        BY <2>6, WindowCounts
      <3>2. station[u].windowCount + Cardinality(InWindow(u)) <= station[u].samples
        BY DEF WindowsBehind
      <3>3. /\ station'[u].windowCount = station[u].windowCount
            /\ station'[u].samples = IF u = o THEN station[u].samples + 1 ELSE station[u].samples
        BY <2>6
      <3>4. Cardinality(InWindow(u)')
              <= IF u = o THEN Cardinality(InWindow(u)) + 1 ELSE Cardinality(InWindow(u))
        BY <2>3, <2>5, <3>1
      <3> HIDE DEF StationsInv
      <3> QED
        BY <3>1, <3>2, <3>3, <3>4
    <2>11. ObjectsKnown'
      <3>1. feed[f].object \in 1..made /\ o = feed[f].object
        BY <1>4 DEF ObjectsKnown
      <3>2. \A g \in Feeds : /\ feed'[g].object = feed[g].object
                             /\ feed'[g].pc \in {"samples", "window", "seen"}
                                  => feed[g].pc \in {"samples", "window", "seen"}
        BY <1>4, <2>1 DEF StationsTypeOK
      <3>3. ObjectsKnown /\ made \in Nat
        BY DEF StationsTypeOK
      <3>4. \A u \in Objects : u > made' => station'[u].samples = 0
        BY <1>1, <2>6, <3>1, <3>3 DEF ObjectsKnown
      <3> HIDE DEF StationsInv
      <3> QED
        BY <1>1, <3>2, <3>3, <3>4 DEF ObjectsKnown
    <2>12. CountedInOnePlace'
      BY <1>1, <2>2, <2>6 DEF CountedInOnePlace
    <2> QED
      BY <2>8, <2>9, <2>10, <2>11, <2>12
  <1>5. CASE feed[f].pc = "window"
    <2>1. /\ station' = [station EXCEPT ![o].windowCount = @ + 1]
          /\ feed' = [feed EXCEPT ![f].pc = "seen"]
          /\ windowAdds' = [windowAdds EXCEPT ![o] = @ + 1]
      BY <1>5 DEF FeedStep, AddSample, StoreLastSeen
    <2>2. o \in Objects
      BY <1>5 DEF ObjectsKnown, StationsTypeOK, Objects
    <2>3. /\ Inserting' = Inserting /\ Uncounted' = Uncounted
          /\ InWindow(o)' \subseteq InWindow(o) \ {f} /\ f \in InWindow(o)
          /\ \A u \in Objects \ {o} : InWindow(u)' = InWindow(u)
      BY <1>5, <2>1 DEF Inserting, Uncounted, InWindow, StationsTypeOK
    <2>4. Cardinality(InWindow(o)') + 1 <= Cardinality(InWindow(o))
      BY <1>2, <2>3, FeedSets, CardinalityRemove
    <2>5. /\ \A u \in Objects : station'[u].windowCount
                 = IF u = o THEN station[o].windowCount + 1 ELSE station[u].windowCount
          /\ \A u \in Objects : station'[u].samples = station[u].samples
          /\ \A u \in Objects : /\ station[u].samples \in 0..MaxObserves
                                /\ station[u].windowCount \in Nat
      BY <2>1, <2>2 DEF StationsTypeOK
    <2>6. station[o].windowCount + 1 \in 0..MaxObserves
      <3>1. station[o].windowCount + Cardinality(InWindow(o)) <= station[o].samples
        BY <2>2 DEF WindowsBehind
      <3>2. station[o].samples \in 0..MaxObserves /\ station[o].windowCount \in Nat
            /\ MaxObserves \in Nat
        BY <2>2, <2>5
      <3> HIDE DEF StationsInv
      <3> QED
        BY <1>3, <2>4, <3>1, <3>2
    <2>7. StationsTypeOK'
      BY <1>1, <2>1, <2>2, <2>6 DEF StationsTypeOK
    <2>8. ObservesBound' /\ CountedInOnePlace'
      BY <1>1, <2>3, <2>5 DEF ObservesBound, CountedInOnePlace
    <2>9. WindowsBehind'
      <3> SUFFICES ASSUME NEW u \in Objects
                   PROVE  station'[u].windowCount + Cardinality(InWindow(u)') <= station'[u].samples
        BY DEF WindowsBehind
      <3>1. /\ Cardinality(InWindow(u)) \in Nat /\ Cardinality(InWindow(u)') \in Nat
            /\ station[u].samples \in Nat /\ station[u].windowCount \in Nat
        BY <2>5, WindowCounts
      <3>2. station[u].windowCount + Cardinality(InWindow(u)) <= station[u].samples
        BY DEF WindowsBehind
      <3>3. /\ station'[u].samples = station[u].samples
            /\ station'[u].windowCount
                 = IF u = o THEN station[u].windowCount + 1 ELSE station[u].windowCount
        BY <2>5
      <3>4. IF u = o THEN Cardinality(InWindow(u)') + 1 <= Cardinality(InWindow(u))
            ELSE Cardinality(InWindow(u)') = Cardinality(InWindow(u))
        BY <2>3, <2>4
      <3> HIDE DEF StationsInv
      <3> QED
        BY <3>1, <3>2, <3>3, <3>4
    <2>10. ObjectsKnown'
      BY <1>1, <1>5, <2>1, <2>5 DEF ObjectsKnown, StationsTypeOK
    <2> QED
      BY <2>7, <2>8, <2>9, <2>10
  <1>6. CASE feed[f].pc = "seen"
    <2>1. /\ station' = [station EXCEPT ![o].lastSeen = feed[f].now]
          /\ feed' = [feed EXCEPT ![f] = NoFeed] /\ UNCHANGED windowAdds
      BY <1>6 DEF FeedStep, AddSample, StoreLastSeen
    <2>2. o \in Objects
      BY <1>6 DEF ObjectsKnown, StationsTypeOK, Objects
    <2>3. /\ Inserting' = Inserting /\ Uncounted' = Uncounted
          /\ \A u \in Objects : InWindow(u)' = InWindow(u)
      BY <1>6, <2>1 DEF Inserting, Uncounted, InWindow, StationsTypeOK, NoFeed
    <2>4. \A u \in Objects : /\ station'[u].samples = station[u].samples
                             /\ station'[u].windowCount = station[u].windowCount
      BY <2>1 DEF StationsTypeOK
    <2>5. StationsTypeOK'
      BY <1>1, <2>1, <2>2 DEF StationsTypeOK, NoFeed, Instants
    <2>6. ObservesBound' /\ CountedInOnePlace'
      BY <1>1, <2>3, <2>4 DEF ObservesBound, CountedInOnePlace
    <2>7. WindowsBehind'
      <3> SUFFICES ASSUME NEW u \in Objects
                   PROVE  station'[u].windowCount + Cardinality(InWindow(u)') <= station'[u].samples
        BY DEF WindowsBehind
      <3>1. station[u].windowCount + Cardinality(InWindow(u)) <= station[u].samples
        BY DEF WindowsBehind
      <3> QED
        BY <2>3, <2>4, <3>1
    <2>8. ObjectsKnown'
      BY <1>1, <1>6, <2>1, <2>4 DEF ObjectsKnown, StationsTypeOK, NoFeed
    <2> QED
      BY <2>5, <2>6, <2>7, <2>8
  <1> QED
    BY <1>4, <1>5, <1>6 DEF FeedStep, AddSample, StoreLastSeen

\* The checker only lowers the window count, and forgets the object it has looked at,
\* which is still the one in the map: nobody else deletes.
LEMMA CheckerInv ==
    ASSUME StationsInv, CheckStep \/ ForgetStation
    PROVE  StationsInv'
  <1> USE StationsAssumption DEF StationsInv
  <1>1. UNCHANGED <<feed, made, observes, stationClock>>
    BY DEF CheckStep, ForgetStation
  <1>2. /\ Inserting' = Inserting /\ Uncounted' = Uncounted
        /\ \A u \in Objects : InWindow(u)' = InWindow(u)
    BY <1>1 DEF Inserting, Uncounted, InWindow
  <1>3. /\ \A u \in Objects : InWindow(u) \in SUBSET Feeds
        /\ \A u \in Objects : Cardinality(InWindow(u)) \in Nat
    BY FeedSets DEF InWindow
  <1>4. CASE ForgetStation
    <2>1. /\ check.pc = "delete" /\ listed' = 0 /\ forgotten' = forgotten \cup {check.object}
          /\ check' = NoCheck /\ UNCHANGED <<station, windowAdds>>
      BY <1>4 DEF ForgetStation
    <2>2. check.object = listed /\ listed \in Objects
      BY <2>1 DEF ObjectsKnown, StationsTypeOK, Objects
    <2>3. StationsTypeOK'
      BY <1>1, <2>1, <2>2 DEF StationsTypeOK, NoCheck, Instants
    <2>4. ObservesBound' /\ WindowsBehind' /\ ObjectsKnown' /\ CountedInOnePlace'
      BY <1>1, <1>2, <2>1, <2>2
      DEF ObservesBound, WindowsBehind, ObjectsKnown, CountedInOnePlace, NoCheck
    <2> QED
      BY <2>3, <2>4
  <1>5. CASE CheckStep
    <2>1. UNCHANGED <<listed, forgotten>>
      BY <1>5 DEF CheckStep
    <2>2. check.pc # "idle" => check.object \in Objects
      BY DEF ObjectsKnown, StationsTypeOK, Objects
    <2>3. check'.pc # "idle" => check'.object = listed /\ listed # 0
      BY <1>5 DEF CheckStep, CheckStation, CheckAge, ResetWindow, ReportStatus, NoCheck,
                  ObjectsKnown, StationsTypeOK
    <2>4. check' \in [pc : {"idle", "age", "window", "count", "status", "delete"},
                      now : Instants, object : 0..MaxObserves]
      BY <1>5 DEF CheckStep, CheckStation, CheckAge, ResetWindow, ReportStatus, NoCheck,
                  StationsTypeOK, Instants
    <2>5. StatusOf(Age(check.now)) \in Statuses
      BY DEF StatusOf, Statuses
    <2>6. station' \in [Objects -> [lastSeen : Instants, samples : 0..MaxObserves,
             windowStart : Instants, windowCount : 0..MaxObserves, lastReported : Statuses]]
      <3>1. station \in [Objects -> [lastSeen : Instants, samples : 0..MaxObserves,
             windowStart : Instants, windowCount : 0..MaxObserves, lastReported : Statuses]]
        BY DEF StationsTypeOK
      <3>2. check.now \in Instants /\ (check.pc # "idle" => check.object \in Objects)
        BY <2>2 DEF StationsTypeOK
      <3> HIDE DEF StationsInv
      <3>3. CASE CheckStation \/ CheckAge
        BY <3>1, <3>3 DEF CheckStation, CheckAge
      <3>4. CASE ResetWindow
        BY <3>1, <3>2, <3>4 DEF ResetWindow
      <3>5. CASE ReportStatus
        BY <3>1, <3>2, <3>5, <2>5 DEF ReportStatus
      <3> QED
        BY <1>5, <3>3, <3>4, <3>5 DEF CheckStep
    <2>7. /\ \A u \in Objects : station'[u].samples = station[u].samples
          /\ \A u \in Objects : station'[u].windowCount \in {0, station[u].windowCount}
          /\ \A u \in Objects : station[u].samples \in Nat /\ station[u].windowCount \in Nat
      <3>1. /\ station \in [Objects -> [lastSeen : Instants, samples : 0..MaxObserves,
               windowStart : Instants, windowCount : 0..MaxObserves, lastReported : Statuses]]
            /\ \A u \in Objects : station[u].samples \in Nat /\ station[u].windowCount \in Nat
        BY DEF StationsTypeOK
      <3> HIDE DEF StationsInv
      <3>2. CASE CheckStation \/ CheckAge
        BY <3>1, <3>2 DEF CheckStation, CheckAge
      <3>3. CASE ResetWindow
        BY <3>1, <3>3 DEF ResetWindow
      <3>4. CASE ReportStatus
        BY <3>1, <3>4 DEF ReportStatus
      <3> QED
        BY <1>5, <3>1, <3>2, <3>3, <3>4 DEF CheckStep
    <2>8. windowAdds' \in [Objects -> Nat]
      BY <1>5, <2>2 DEF CheckStep, CheckStation, CheckAge, ResetWindow, ReportStatus,
                        StationsTypeOK
    <2>9. StationsTypeOK'
      BY <1>1, <2>1, <2>4, <2>6, <2>8 DEF StationsTypeOK
    <2>10. ObservesBound' /\ CountedInOnePlace'
      BY <1>1, <1>2, <2>1, <2>7 DEF ObservesBound, CountedInOnePlace
    <2>11. WindowsBehind'
      <3> SUFFICES ASSUME NEW u \in Objects
                   PROVE  station'[u].windowCount + Cardinality(InWindow(u)') <= station'[u].samples
        BY DEF WindowsBehind
      <3>1. InWindow(u)' = InWindow(u) /\ Cardinality(InWindow(u)) \in Nat
        BY <1>2, <1>3
      <3>2. station[u].windowCount + Cardinality(InWindow(u)) <= station[u].samples
        BY DEF WindowsBehind
      <3>3. /\ station[u].samples \in Nat /\ station[u].windowCount \in Nat
            /\ station'[u].samples = station[u].samples
            /\ station'[u].windowCount \in {0, station[u].windowCount}
        BY <2>7
      <3> HIDE DEF StationsInv
      <3> QED
        BY <3>1, <3>2, <3>3
    <2>12. ObjectsKnown'
      BY <1>1, <2>1, <2>3, <2>7 DEF ObjectsKnown
    <2> QED
      BY <2>9, <2>10, <2>11, <2>12
  <1> QED
    BY <1>4, <1>5

\* Every step of the registry keeps the invariant.
LEMMA StationsNextInv == StationsInv /\ [StationsNext]_stationVars => StationsInv'
  <1> SUFFICES ASSUME StationsInv, [StationsNext]_stationVars PROVE StationsInv'
    OBVIOUS
  <1>1. CASE StationTick \/ UNCHANGED stationVars
    <2>1. /\ UNCHANGED <<listed, station, feed, check, made, observes, forgotten, windowAdds>>
          /\ stationClock' \in Instants
      BY <1>1, StationsAssumption
      DEF StationTick, stationVars, StationsInv, StationsTypeOK, Instants
    <2> QED
      BY <2>1 DEF StationsInv, StationsTypeOK, ObservesBound, WindowsBehind, ObjectsKnown,
                  CountedInOnePlace, Inserting, Uncounted, InWindow
  <1> QED
    BY <1>1, ObserveStationInv, LoadStationInv, InsertStationInv, FeedStepInv, CheckerInv DEF StationsNext

\* What is counted into a window beyond its own samples is gone when the checker is done
\* with it: only its two stores stand between.
LEMMA WindowNext ==
    StationsInv /\ WindowNotInflated /\ [StationsNext]_stationVars => WindowNotInflated'
  <1> SUFFICES ASSUME StationsInv, WindowNotInflated, [StationsNext]_stationVars,
                      NEW o \in Objects
               PROVE  \/ station'[o].windowCount <= windowAdds'[o]
                      \/ check'.pc = "count" /\ check'.object = o
    BY DEF WindowNotInflated
  <1>1. /\ station[o].windowCount \in Nat /\ windowAdds[o] \in Nat
        /\ windowAdds \in [Objects -> Nat]
        /\ station \in [Objects -> [lastSeen : Instants, samples : 0..MaxObserves,
              windowStart : Instants, windowCount : 0..MaxObserves, lastReported : Statuses]]
    BY StationsAssumption DEF StationsInv, StationsTypeOK
  <1>2. \/ station[o].windowCount <= windowAdds[o]
        \/ check.pc = "count" /\ check.object = o
    BY DEF WindowNotInflated
  <1>3. CASE UNCHANGED <<station, windowAdds, check>>
    BY <1>2, <1>3
  <1>4. ASSUME NEW f \in Feeds, InsertStation(f)
        PROVE  \/ station'[o].windowCount <= windowAdds'[o]
               \/ check'.pc = "count" /\ check'.object = o
    <2>1. UNCHANGED <<check, windowAdds>>
      BY <1>4 DEF InsertStation
    <2>2. station'[o].windowCount \in {0, station[o].windowCount}
      BY <1>1, <1>4 DEF InsertStation, Insert, Fresh
    <2> QED
      BY <1>1, <1>2, <2>1, <2>2
  <1>5. ASSUME NEW f \in Feeds, FeedStep(f)
        PROVE  \/ station'[o].windowCount <= windowAdds'[o]
               \/ check'.pc = "count" /\ check'.object = o
    <2>1. UNCHANGED check
      BY <1>5 DEF FeedStep
    <2>2. \/ station'[o].windowCount = station[o].windowCount /\ windowAdds'[o] = windowAdds[o]
          \/ /\ station'[o].windowCount = station[o].windowCount + 1
             /\ windowAdds'[o] = windowAdds[o] + 1
      BY <1>1, <1>5 DEF FeedStep, AddSample, StoreLastSeen
    <2> QED
      BY <1>1, <1>2, <2>1, <2>2
  <1>6. CASE CheckStep
    <2>1. CASE ResetWindow /\ check.pc = "window"
      <3>1. /\ station' = [station EXCEPT ![check.object].windowStart = check.now]
            /\ windowAdds' = [windowAdds EXCEPT ![check.object] = 0]
            /\ check' = [check EXCEPT !.pc = "count"]
        BY <2>1 DEF ResetWindow
      <3>2. check'.pc = "count" /\ check'.object = check.object
        BY <3>1 DEF StationsInv, StationsTypeOK
      <3>3. station'[o].windowCount = station[o].windowCount
        BY <1>1, <3>1
      <3>4. CASE check.object # o
        BY <1>1, <1>2, <2>1, <3>1, <3>3, <3>4
      <3> QED
        BY <3>2, <3>4
    <2>2. CASE ResetWindow /\ check.pc = "count"
      <3>1. /\ station' = [station EXCEPT ![check.object].windowCount = 0]
            /\ UNCHANGED windowAdds
        BY <2>2 DEF ResetWindow
      <3>2. CASE check.object = o
        BY <1>1, <3>1, <3>2
      <3>3. CASE check.object # o
        BY <1>1, <1>2, <3>1, <3>3
      <3> QED
        BY <3>2, <3>3
    <2>3. CASE CheckStation \/ CheckAge \/ ReportStatus
      <3>1. check.pc # "count" /\ UNCHANGED windowAdds
        BY <2>3 DEF CheckStation, CheckAge, ReportStatus
      <3>2. station'[o].windowCount = station[o].windowCount
        BY <1>1, <2>3 DEF CheckStation, CheckAge, ReportStatus
      <3> QED
        BY <1>2, <3>1, <3>2
    <2> QED
      BY <1>6, <2>1, <2>2, <2>3 DEF CheckStep, ResetWindow
  <1>7. CASE ForgetStation
    BY <1>2, <1>7 DEF ForgetStation
  <1> QED
    BY <1>3, <1>4, <1>5, <1>6, <1>7
    DEF StationsNext, ObserveStation, LoadStation, StationTick, stationVars

\* registry.go: the invariant the counters rest on.
THEOREM StationsInvHolds == StationsSpec => []StationsInv
  BY StationsInitInv, StationsNextInv, PTL DEF StationsSpec

\* registry.go: however many streams report a station for the first time at once they
\* count into one object, and a window never counts more than its station has sent, nor
\* what was sent before it began.
THEOREM StationCountersAgree == StationsSpec => []CountersAgree
  <1>1. StationsInit => WindowNotInflated
    BY DEF StationsInit, WindowNotInflated, Fresh
  <1>2. StationsInv /\ WindowNotInflated => CountersAgree
    <2> SUFFICES ASSUME StationsInv, WindowNotInflated PROVE WindowWithinSamples
      BY DEF StationsInv, CountersAgree
    <2>1. \A o \in Objects : InWindow(o) \in SUBSET Feeds
      BY DEF InWindow
    <2>2. \A o \in Objects : Cardinality(InWindow(o)) \in Nat
      BY <2>1, FeedSets
    <2> QED
      BY <2>2 DEF StationsInv, WindowsBehind, WindowWithinSamples, StationsTypeOK
  <1> QED
    BY <1>1, <1>2, StationsInvHolds, WindowNext, PTL DEF StationsSpec

-----------------------------------------------------------------------------
(* Replay.                                                                 *)

RunRecords ==
    [state : {"none", "running", "completed", "cancelled", "failed"}, speed : Nat,
     paused : BOOLEAN, cancelled : BOOLEAN,
     play : {"none", "launch", "burst", "wait", "ended"}, cursor : Nat, published : 0..Total]

\* A run is running in the map from the moment Start adds it until play sets its
\* final state, and pruning leaves it there as long.
RunningIsPlaying ==
    \A r \in RunIDs :
       /\ run[r].state = "running" <=> run[r].play \in {"launch", "burst", "wait"}
       /\ run[r].state = "running" => r \in runs

\* What handlers hold: a run that exists; the goroutine of a run is started once.
RequestsKnown ==
    /\ \A q \in Requests :
         /\ request[q].at \in {"go", "cancel", "control"} => request[q].run \in 1..nextID
         /\ request[q].at = "go" => run[request[q].run].play = "launch"
    /\ \A p, q \in Requests : p # q /\ request[p].at = "go" /\ request[q].at = "go"
                              => request[p].run # request[q].run

RunsLimited == Cardinality(RunningIn(runs)) <= MaxConcurrent

PublisherClosed == cleanup = "closed" => connClosed /\ stream = "none"

ReplayInv ==
    /\ ReplayTypeOK /\ run \in [RunIDs -> RunRecords]
    /\ RunningIsPlaying /\ RequestsKnown /\ RunsLimited /\ PublisherClosed

\* The runs are finitely many, and counted.
LEMMA RunSets ==
    ASSUME NEW S \in SUBSET RunIDs
    PROVE  IsFiniteSet(S) /\ Cardinality(S) \in Nat
  <1>1. IsFiniteSet(RunIDs)
    BY ReplayAssumption, FS_Interval DEF RunIDs
  <1> QED
    BY <1>1, FS_Subset, FS_CardinalityType

\* The map holds runs that were numbered.
LEMMA RunsKnown ==
    ASSUME ReplayTypeOK
    PROVE  runs \subseteq RunIDs
  <1>1. runs \subseteq 1..nextID /\ nextID \in Nat /\ nextID <= MaxRuns /\ MaxRuns \in Nat
    BY ReplayAssumption DEF ReplayTypeOK
  <1>2. \A r \in 1..nextID : r \in 1..MaxRuns
    BY <1>1
  <1> QED
    BY <1>1, <1>2 DEF RunIDs

\* No run exists and the publisher is open.
LEMMA ReplayInitInv == ReplayInit => ReplayInv
  <1> SUFFICES ASSUME ReplayInit PROVE ReplayInv
    OBVIOUS
  <1> USE ReplayAssumption DEF ReplayInit
  <1>1. NoRun \in RunRecords /\ NoRun.state = "none" /\ NoRun.play = "none"
    <2>1. NewRun(0) \in RunRecords
      BY DEF NewRun, RunRecords
    <2> QED
      BY <2>1 DEF NoRun, RunRecords
  <1>2. run \in [RunIDs -> RunRecords]
    BY <1>1
  <1>3. ReplayTypeOK
    <2>1. request \in [Requests -> [at : {"idle", "load", "go", "cancel", "control"},
                                    run : RunIDs \cup {0}]]
      BY DEF NoRequest
    <2>2. \A r \in RunIDs :
         /\ run[r].state \in {"none", "running", "completed", "cancelled", "failed"}
         /\ run[r].play \in {"none", "launch", "burst", "wait", "ended"}
         /\ run[r].published \in 0..Total
         /\ run[r].paused \in BOOLEAN /\ run[r].cancelled \in BOOLEAN
      BY <1>2 DEF RunRecords
    <2>3. runs \subseteq 1..nextID /\ nextID \in 0..MaxRuns /\ breaks \in 0..MaxBreaks
      OBVIOUS
    <2>4. /\ stream \in {"none", "open", "broken"} /\ connClosed \in BOOLEAN
          /\ cleanup \in {"open", "waiting", "waited", "closed"}
      OBVIOUS
    <2> QED
      BY <2>1, <2>2, <2>3, <2>4 DEF ReplayTypeOK
  <1>4. RunningIsPlaying /\ RequestsKnown /\ PublisherClosed
    BY <1>1 DEF RunningIsPlaying, RequestsKnown, PublisherClosed, NoRequest
  <1>5. RunningIn(runs) = {}
    BY DEF RunningIn
  <1>6. RunsLimited
    BY <1>5, FS_EmptySet DEF RunsLimited
  <1> QED
    BY <1>2, <1>3, <1>4, <1>6 DEF ReplayInv

\* Only the run the handler has just added is new, and only finished ones are pruned.
LEMMA AddRunInv ==
    ASSUME ReplayInv, NEW q \in Requests, AddRun(q)
    PROVE  ReplayInv'
  <1> USE ReplayAssumption DEF ReplayInv, pubVars
  <1>1. CASE ~RoomLeft
    <2>1. request' = [request EXCEPT ![q] = NoRequest]
          /\ UNCHANGED <<runs, nextID, run, cleanup, stream, connClosed, breaks, sent>>
      BY <1>1 DEF AddRun
    <2>2. ReplayTypeOK'
      BY <2>1 DEF ReplayTypeOK, NoRequest
    <2>3. RequestsKnown'
      BY <2>1 DEF RequestsKnown, NoRequest, ReplayTypeOK
    <2>4. RunningIn(runs)' = RunningIn(runs)
      BY <2>1 DEF RunningIn
    <2> QED
      BY <2>1, <2>2, <2>3, <2>4 DEF RunningIsPlaying, RunsLimited, PublisherClosed
  <1>2. CASE RoomLeft
    <2> DEFINE n == nextID + 1
    <2>1. /\ nextID < MaxRuns /\ nextID' = n /\ runs' = Kept(runs \cup {n})
          /\ request' = [request EXCEPT ![q] = [at |-> "go", run |-> n]]
          /\ UNCHANGED <<cleanup, stream, connClosed, breaks, sent>>
      BY <1>2 DEF AddRun
    <2>2. PICK speed \in Speeds : run' = [run EXCEPT ![n] = NewRun(speed)]
      BY <1>2 DEF AddRun
    <2>3. /\ n \in RunIDs /\ n \in Nat /\ nextID \in Nat /\ n <= MaxRuns
          /\ runs \subseteq 1..nextID /\ runs \subseteq RunIDs
      <3>1. nextID \in Nat /\ nextID < MaxRuns /\ MaxRuns \in Nat
        BY <2>1 DEF ReplayTypeOK
      <3>2. runs \subseteq 1..nextID
        BY DEF ReplayTypeOK
      <3>3. \A r \in 1..nextID : r \in 1..MaxRuns
        BY <3>1
      <3> QED
        BY <3>1, <3>2, <3>3 DEF RunIDs
    <2>4. runs' \subseteq runs \cup {n} /\ n \in runs'
          /\ \A r \in runs : run[r].state = "running" => r \in runs'
      BY <2>1 DEF Kept, RunningIn
    <2>5. NewRun(speed) \in RunRecords
      BY DEF NewRun, RunRecords
    <2>6. /\ run' \in [RunIDs -> RunRecords]
          /\ run'[n] = NewRun(speed)
          /\ \A r \in RunIDs \ {n} : run'[r] = run[r]
      BY <2>2, <2>3, <2>5
    <2>7. ReplayTypeOK'
      <3>1. \A r \in RunIDs :
         /\ run'[r].state \in {"none", "running", "completed", "cancelled", "failed"}
         /\ run'[r].play \in {"none", "launch", "burst", "wait", "ended"}
         /\ run'[r].published \in 0..Total
         /\ run'[r].paused \in BOOLEAN /\ run'[r].cancelled \in BOOLEAN
        BY <2>6 DEF RunRecords
      <3>2. runs' \subseteq 1..nextID' /\ nextID' \in 0..MaxRuns
        <4>1. n \in 1..n /\ \A r \in 1..nextID : r \in 1..n
          BY <2>3
        <4>2. n \in 0..MaxRuns
          BY <2>3
        <4> QED
          BY <2>1, <2>3, <2>4, <4>1, <4>2
      <3>3. request' \in [Requests -> [at : {"idle", "load", "go", "cancel", "control"},
                                       run : RunIDs \cup {0}]]
        BY <2>1, <2>3 DEF ReplayTypeOK
      <3> QED
        BY <2>1, <3>1, <3>2, <3>3 DEF ReplayTypeOK
    <2>8. RunningIsPlaying'
      BY <2>4, <2>6 DEF RunningIsPlaying, NewRun
    <2>9. RequestsKnown'
      <3>1. \A p \in Requests \ {q} : request'[p] = request[p]
        BY <2>1 DEF ReplayTypeOK
      <3>2. request'[q].at = "go" /\ request'[q].run = n
        BY <2>1 DEF ReplayTypeOK
      <3>3. \A p \in Requests : request[p].at \in {"go", "cancel", "control"}
               => /\ request[p].run \in 1..nextID' /\ request[p].run # n
                  /\ request[p].run \in RunIDs \ {n}
        BY <2>1, <2>3 DEF RequestsKnown, RunIDs
      <3> QED
        BY <2>1, <2>3, <2>6, <3>1, <3>2, <3>3 DEF RequestsKnown, NewRun
    <2>10. RunsLimited'
      <3>1. RunningIn(runs)' \subseteq RunningIn(runs) \cup {n}
        BY <2>3, <2>4, <2>6 DEF RunningIn
      <3>2. RunningIn(runs) \in SUBSET RunIDs
        BY <2>3 DEF RunningIn
      <3>3. RunningIn(runs)' \in SUBSET RunIDs
        BY <2>3, <3>1, <3>2
      <3>4. Cardinality(RunningIn(runs)') <= Cardinality(RunningIn(runs)) + 1
        BY <3>1, <3>2, RunSets, CardinalityAdd
      <3>5. Cardinality(RunningIn(runs)) \in Nat /\ Cardinality(RunningIn(runs)') \in Nat
        BY <3>2, <3>3, RunSets
      <3> QED
        BY <1>2, <3>4, <3>5 DEF RoomLeft, RunsLimited
    <2>11. PublisherClosed'
      BY <2>1 DEF PublisherClosed
    <2> QED
      BY <2>6, <2>7, <2>8, <2>9, <2>10, <2>11
  <1> QED
    BY <1>1, <1>2

\* Start, Cancel, SetSpeed and SetPaused outside the lock.
LEMMA RequestStepInv ==
    ASSUME ReplayInv, NEW q \in Requests,
           \/ StartReplay(q) \/ StartFails(q)
           \/ \E r \in RunIDs, what \in {"cancel", "control"} : LookUp(q, r, what)
    PROVE  ReplayInv'
  <1> USE ReplayAssumption DEF ReplayInv
  <1>1. UNCHANGED <<runs, nextID, run, cleanup, stream, connClosed, breaks, sent>>
    BY DEF StartReplay, StartFails, LookUp, pubVars
  <1>2. ReplayTypeOK'
    <2>1. request' \in [Requests -> [at : {"idle", "load", "go", "cancel", "control"},
                                     run : RunIDs \cup {0}]]
      BY DEF StartReplay, StartFails, LookUp, ReplayTypeOK, NoRequest
    <2> QED
      BY <1>1, <2>1 DEF ReplayTypeOK
  <1>3. /\ request'[q].at # "go"
        /\ request'[q].at \in {"cancel", "control"} => request'[q].run \in 1..nextID
        /\ \A p \in Requests \ {q} : request'[p] = request[p]
    BY DEF StartReplay, StartFails, LookUp, ReplayTypeOK, NoRequest
  <1>4. RequestsKnown'
    BY <1>1, <1>3 DEF RequestsKnown
  <1>5. RunningIn(runs)' = RunningIn(runs)
    BY <1>1 DEF RunningIn
  <1> QED
    BY <1>1, <1>2, <1>4, <1>5 DEF RunningIsPlaying, RunsLimited, PublisherClosed

\* What handlers and play do to one run: a step that neither revives it nor takes it
\* out of the reach of Cancel keeps the invariant.
LEMMA RunChangeInv ==
    ASSUME ReplayInv, NEW r \in RunIDs, NEW new \in RunRecords,
           run' = [run EXCEPT ![r] = new],
           new.state = "running" <=> new.play \in {"launch", "burst", "wait"},
           new.state = "running" => run[r].state = "running",
           UNCHANGED <<runs, nextID>>,
           ReplayTypeOK', RequestsKnown', PublisherClosed'
    PROVE  ReplayInv'
  <1> USE DEF ReplayInv
  <1>1. /\ run' \in [RunIDs -> RunRecords] /\ run'[r] = new
        /\ \A u \in RunIDs \ {r} : run'[u] = run[u]
    OBVIOUS
  <1>2. RunningIsPlaying'
    BY <1>1 DEF RunningIsPlaying
  <1>3. runs \in SUBSET RunIDs
    BY RunsKnown
  <1>4. RunningIn(runs)' \subseteq RunningIn(runs) /\ RunningIn(runs) \in SUBSET RunIDs
    BY <1>1, <1>3 DEF RunningIn
  <1>5. /\ Cardinality(RunningIn(runs)') <= Cardinality(RunningIn(runs))
        /\ Cardinality(RunningIn(runs)) \in Nat /\ Cardinality(RunningIn(runs)') \in Nat
    BY <1>4, RunSets, FS_Subset
  <1>6. RunsLimited'
    BY <1>5, ReplayAssumption DEF RunsLimited
  <1> QED
    BY <1>1, <1>2, <1>6

\* Changes to one run leave every shape as it was.
LEMMA RunChangeTypes ==
    ASSUME ReplayInv, NEW r \in RunIDs, NEW new \in RunRecords,
           run' = [run EXCEPT ![r] = new],
           UNCHANGED <<runs, nextID, cleanup, breaks>>,
           request' \in [Requests -> [at : {"idle", "load", "go", "cancel", "control"},
                                      run : RunIDs \cup {0}]],
           stream' \in {"none", "open", "broken"}, connClosed' = connClosed
    PROVE  ReplayTypeOK'
  <1>1. \A u \in RunIDs : run'[u] \in RunRecords
    BY DEF ReplayInv
  <1>2. \A u \in RunIDs :
         /\ run'[u].state \in {"none", "running", "completed", "cancelled", "failed"}
         /\ run'[u].play \in {"none", "launch", "burst", "wait", "ended"}
         /\ run'[u].published \in 0..Total
         /\ run'[u].paused \in BOOLEAN /\ run'[u].cancelled \in BOOLEAN
    BY <1>1 DEF RunRecords
  <1> QED
    BY <1>2 DEF ReplayTypeOK, ReplayInv

\* wg.Go starts a run once; Cancel and the setters leave alone where it stands.
LEMMA HandlerStepInv ==
    ASSUME ReplayInv, NEW q \in Requests, Launch(q) \/ CancelRun(q) \/ ControlRun(q)
    PROVE  ReplayInv'
  <1> USE ReplayAssumption DEF ReplayInv
  <1> PICK r : r = request[q].run
    OBVIOUS
  <1>1. /\ request[q].at \in {"go", "cancel", "control"}
        /\ request' = [request EXCEPT ![q] = NoRequest]
        /\ UNCHANGED <<runs, nextID, cleanup, stream, connClosed, breaks, sent>>
    BY DEF Launch, CancelRun, ControlRun, pubVars
  <1>2. r \in RunIDs /\ run[r] \in RunRecords
    BY <1>1 DEF RequestsKnown, RunIDs, ReplayTypeOK
  <1>3. /\ request' \in [Requests -> [at : {"idle", "load", "go", "cancel", "control"},
                                      run : RunIDs \cup {0}]]
        /\ request'[q].at = "idle"
        /\ \A p \in Requests \ {q} : request'[p] = request[p]
    BY <1>1 DEF ReplayTypeOK, NoRequest
  <1>4. PICK new \in RunRecords :
           /\ run' = [run EXCEPT ![r] = new]
           /\ new.state = run[r].state
           /\ new.play = run[r].play \/ (request[q].at = "go" /\ new.play = "burst")
    <2>1. CASE Launch(q)
      <3> DEFINE new == [run[r] EXCEPT !.play = "burst"]
      <3>9. new \in RunRecords /\ run' = [run EXCEPT ![r] = new]
        BY <1>2, <2>1 DEF Launch, RunRecords
      <3> QED
        BY <3>9, <1>2, <2>1 DEF Launch, RunRecords
    <2>2. CASE CancelRun(q)
      <3> DEFINE new == [run[r] EXCEPT !.cancelled = TRUE]
      <3>9. new \in RunRecords /\ run' = [run EXCEPT ![r] = new]
        BY <1>2, <2>2 DEF CancelRun, RunRecords
      <3> QED
        BY <3>9, <1>2, <2>2 DEF CancelRun, RunRecords
    <2>3. CASE ControlRun(q)
      <3>1. CASE UNCHANGED run
        <4> DEFINE new == run[r]
        <4>9. new \in RunRecords /\ run' = [run EXCEPT ![r] = new]
          BY <1>2, <3>1
        <4> QED
          BY <4>9, <1>2, <3>1
      <3>2. ASSUME NEW speed \in Speeds, run' = [run EXCEPT ![r].speed = speed]
            PROVE  \E new \in RunRecords :
                      /\ run' = [run EXCEPT ![r] = new]
                      /\ new.state = run[r].state
                      /\ new.play = run[r].play \/ (request[q].at = "go" /\ new.play = "burst")
        <4> DEFINE new == [run[r] EXCEPT !.speed = speed]
        <4>9. new \in RunRecords /\ run' = [run EXCEPT ![r] = new]
          BY <1>2, <3>2 DEF RunRecords
        <4> QED
          BY <4>9, <1>2, <3>2 DEF RunRecords
      <3>3. ASSUME NEW paused \in BOOLEAN, run' = [run EXCEPT ![r].paused = paused]
            PROVE  \E new \in RunRecords :
                      /\ run' = [run EXCEPT ![r] = new]
                      /\ new.state = run[r].state
                      /\ new.play = run[r].play \/ (request[q].at = "go" /\ new.play = "burst")
        <4> DEFINE new == [run[r] EXCEPT !.paused = paused]
        <4>9. new \in RunRecords /\ run' = [run EXCEPT ![r] = new]
          BY <1>2, <3>3 DEF RunRecords
        <4> QED
          BY <4>9, <1>2, <3>3 DEF RunRecords
      <3> QED
        BY <2>3, <3>1, <3>2, <3>3 DEF ControlRun
    <2> QED
      BY <2>1, <2>2, <2>3
  <1>5. /\ new.state = "running" <=> new.play \in {"launch", "burst", "wait"}
        /\ new.state = "running" => run[r].state = "running"
    BY <1>2, <1>4 DEF RunningIsPlaying, RequestsKnown
  <1>6. ReplayTypeOK'
    BY <1>1, <1>2, <1>3, <1>4, RunChangeTypes DEF ReplayTypeOK
  <1>7. RequestsKnown'
    <2>1. \A u \in RunIDs : run'[u].play = run[u].play \/ (u = r /\ request[q].at = "go")
      BY <1>2, <1>4
    <2>2. ASSUME NEW p \in Requests \ {q}, request[p].at = "go"
          PROVE  run'[request[p].run].play = "launch"
      <3>1. request[p].run \in RunIDs
        BY <2>2 DEF RequestsKnown, RunIDs, ReplayTypeOK
      <3>2. request[p].run # r \/ request[q].at # "go"
        BY <2>2 DEF RequestsKnown
      <3> QED
        BY <2>1, <2>2, <3>1, <3>2 DEF RequestsKnown
    <2> QED
      BY <1>1, <1>3, <2>2 DEF RequestsKnown
  <1>8. PublisherClosed'
    BY <1>1 DEF PublisherClosed
  <1> QED
    BY <1>1, <1>2, <1>4, <1>5, <1>6, <1>7, <1>8, RunChangeInv

\* A step of play: a run in its burst or waiting for a tick goes on or ends, and once
\* the publisher is closed no sample is sent.
LEMMA RunStepInv ==
    ASSUME ReplayInv, NEW r \in RunIDs, RunStep(r)
    PROVE  ReplayInv' /\ PublisherSilent
  <1> USE ReplayAssumption DEF ReplayInv
  <1>1. run[r] \in RunRecords /\ run[r].play \in {"burst", "wait"}
    BY DEF RunStep, PublishSample, PublishSampleFails, BurstOver, ReplayTick, ReplayCancelled
  <1>2. UNCHANGED <<request, runs, nextID, cleanup, connClosed, breaks>>
    BY DEF RunStep, PublishSample, PublishSampleFails, BurstOver, ReplayTick, ReplayCancelled,
           pubVars
  <1>3. /\ stream' \in {"none", "open", "broken"}
        /\ cleanup = "closed" => stream' = "none" /\ sent' = sent
    BY DEF RunStep, PublishSample, PublishSampleFails, BurstOver, ReplayTick, ReplayCancelled,
           pubVars, CanOpen, PublisherClosed, ReplayTypeOK
  <1>4. PICK new \in RunRecords :
           /\ run' = [run EXCEPT ![r] = new]
           /\ \/ new.state = run[r].state /\ new.play \in {"burst", "wait"}
              \/ new.state \in {"completed", "failed", "cancelled"} /\ new.play = "ended"
    <2>1. ASSUME NEW state \in {"completed", "failed", "cancelled"}, Ends(r, state)
          PROVE  \E new \in RunRecords :
                    /\ run' = [run EXCEPT ![r] = new]
                    /\ \/ new.state = run[r].state /\ new.play \in {"burst", "wait"}
                       \/ new.state \in {"completed", "failed", "cancelled"} /\ new.play = "ended"
      <3> DEFINE new == [run[r] EXCEPT !.state = state, !.play = "ended", !.cancelled = TRUE]
      <3>9. new \in RunRecords /\ run' = [run EXCEPT ![r] = new]
        BY <1>1, <2>1 DEF Ends, RunRecords
      <3> QED
        BY <3>9, <1>1, <2>1 DEF Ends, RunRecords
    <2>2. CASE PublishSample(r)
      <3>1. run[r].published + 1 \in 0..Total
        BY <1>1, <2>2 DEF PublishSample, Due, RunRecords
      <3> DEFINE new == [run[r] EXCEPT !.published = @ + 1]
      <3>9. new \in RunRecords /\ run' = [run EXCEPT ![r] = new]
        BY <1>1, <2>2, <3>1 DEF PublishSample, RunRecords
      <3> QED
        BY <3>9, <1>1, <2>2, <3>1 DEF PublishSample, RunRecords
    <2>3. CASE run' = [run EXCEPT ![r].play = "wait"]
      <3> DEFINE new == [run[r] EXCEPT !.play = "wait"]
      <3>9. new \in RunRecords /\ run' = [run EXCEPT ![r] = new]
        BY <1>1, <2>3 DEF RunRecords
      <3> QED
        BY <3>9, <1>1, <2>3 DEF RunRecords
    <2>4. CASE ReplayTick(r)
      <3>1. (IF run[r].paused THEN run[r].cursor ELSE run[r].cursor + run[r].speed) \in Nat
        BY <1>1 DEF RunRecords
      <3> DEFINE new == [run[r] EXCEPT !.play = "burst", !.cursor = IF run[r].paused THEN @ ELSE @ + run[r].speed]
      <3>9. new \in RunRecords /\ run' = [run EXCEPT ![r] = new]
        BY <1>1, <2>4, <3>1 DEF ReplayTick, RunRecords
      <3> QED
        BY <3>9, <1>1, <2>4, <3>1 DEF ReplayTick, RunRecords
    <2> QED
      BY <2>1, <2>2, <2>3, <2>4
      DEF RunStep, PublishSampleFails, BurstOver, ReplayCancelled
  <1>5. /\ new.state = "running" <=> new.play \in {"launch", "burst", "wait"}
        /\ new.state = "running" => run[r].state = "running"
    BY <1>1, <1>4 DEF RunningIsPlaying
  <1>6. ReplayTypeOK'
    BY <1>1, <1>2, <1>3, <1>4, RunChangeTypes DEF ReplayTypeOK
  <1>7. RequestsKnown'
    <2>1. \A u \in RunIDs : run[u].play = "launch" => run'[u].play = "launch"
      BY <1>1, <1>4
    <2>2. \A q \in Requests : request[q].at = "go" => request[q].run \in RunIDs
      BY DEF RequestsKnown, RunIDs, ReplayTypeOK
    <2> QED
      BY <1>2, <2>1, <2>2 DEF RequestsKnown
  <1>8. PublisherClosed'
    BY <1>2, <1>3 DEF PublisherClosed
  <1> QED
    BY <1>1, <1>2, <1>3, <1>4, <1>5, <1>6, <1>7, <1>8, RunChangeInv DEF PublisherSilent

\* The steps of cleanup and of the server.
LEMMA CleanupInv ==
    ASSUME ReplayInv,
           StreamBreaks \/ BaseCancel \/ WaitReturns \/ ClosePublisher \/ UNCHANGED replayVars
    PROVE  ReplayInv'
  <1> USE ReplayAssumption DEF ReplayInv
  <1>1. UNCHANGED <<request, runs, nextID, run>>
    BY DEF StreamBreaks, BaseCancel, WaitReturns, ClosePublisher, replayVars
  <1>2. /\ stream' \in {"none", "open", "broken"} /\ connClosed' \in BOOLEAN
        /\ breaks' \in 0..MaxBreaks
        /\ cleanup' \in {"open", "waiting", "waited", "closed"}
        /\ cleanup' = "closed" => connClosed' /\ stream' = "none"
    <2>1. CASE StreamBreaks
      <3>1. breaks + 1 \in 0..MaxBreaks
        BY <2>1 DEF StreamBreaks, ReplayTypeOK
      <3> QED
        BY <2>1, <3>1 DEF StreamBreaks, ReplayTypeOK, PublisherClosed
    <2>2. CASE BaseCancel \/ WaitReturns
      BY <2>2 DEF BaseCancel, WaitReturns, pubVars, ReplayTypeOK
    <2>3. CASE ClosePublisher
      BY <2>3 DEF ClosePublisher, ReplayTypeOK
    <2>4. CASE UNCHANGED replayVars
      BY <2>4 DEF replayVars, ReplayTypeOK, PublisherClosed
    <2> QED
      BY <2>1, <2>2, <2>3, <2>4
  <1>4. ReplayTypeOK' /\ PublisherClosed'
    BY <1>1, <1>2 DEF ReplayTypeOK, PublisherClosed
  <1>3. RunningIn(runs)' = RunningIn(runs)
    BY <1>1 DEF RunningIn
  <1> QED
    BY <1>1, <1>3, <1>4 DEF RunningIsPlaying, RequestsKnown, RunsLimited

\* Every step of replay keeps the invariant.
LEMMA ReplayNextInv == ReplayInv /\ [ReplayNext]_replayVars => ReplayInv'
  BY AddRunInv, RequestStepInv, HandlerStepInv, RunStepInv, CleanupInv
  DEF ReplayNext, RequestStep, ReplayIdle

\* manager.go: the invariant the limit and the cleanup rest on.
THEOREM ReplayInvHolds == ReplaySpec => []ReplayInv
  BY ReplayInitInv, ReplayNextInv, PTL DEF ReplaySpec

\* manager.go: no more goroutines publish than maxConcurrent allows, and pruning never
\* takes one that still publishes from the map, whatever handlers do meanwhile.
THEOREM ReplayUnderControl == ReplaySpec => []PlayingUnderControl
  <1>1. ReplayInv => PlayingUnderControl
    <2> SUFFICES ASSUME ReplayInv PROVE PlayingUnderControl
      OBVIOUS
    <2>1. Playing \subseteq RunningIn(runs) /\ Playing \subseteq runs
      BY DEF ReplayInv, RunningIsPlaying, Playing, RunningIn
    <2>2. RunningIn(runs) \in SUBSET RunIDs /\ Playing \in SUBSET RunIDs
      BY RunsKnown DEF ReplayInv, RunningIn, Playing
    <2>3. /\ Cardinality(Playing) <= Cardinality(RunningIn(runs))
          /\ Cardinality(Playing) \in Nat /\ Cardinality(RunningIn(runs)) \in Nat
      BY <2>1, <2>2, RunSets, FS_Subset
    <2> QED
      BY <2>1, <2>3, ReplayAssumption
      DEF ReplayInv, RunsLimited, PlayingUnderControl, GoroutinesWithinLimit, PlayingIsListed
  <1> QED
    BY <1>1, ReplayInvHolds, PTL

\* replaypub.go: nothing leaves through the publisher after cleanup has closed it,
\* also when a handler starts a run after wg.Wait has returned.
THEOREM ReplaySilentAfterClose == ReplaySpec => NothingSentAfterClose
  <1>1. ReplayInv /\ [ReplayNext]_replayVars => [PublisherSilent]_replayVars
    <2> SUFFICES ASSUME ReplayInv, ReplayNext PROVE PublisherSilent
      BY DEF replayVars
    <2>1. CASE UNCHANGED sent
      BY <2>1 DEF PublisherSilent
    <2> QED
      BY <2>1, RunStepInv
      DEF ReplayNext, RequestStep, StartReplay, StartFails, AddRun, Launch, CancelRun, ControlRun,
          LookUp, StreamBreaks, BaseCancel, WaitReturns, ClosePublisher, ReplayIdle, replayVars,
          pubVars
  <1> QED
    BY <1>1, ReplayInvHolds, PTL DEF ReplaySpec, NothingSentAfterClose

-----------------------------------------------------------------------------
(* The four services side by side.                                         *)

\* What MCServices checks of one service it checks of the specification of that
\* service: each of its behaviours is one of every service.
LEMMA ServicesSeparate ==
    ServicesSpec => HubSpec /\ TargetsSpec /\ StationsSpec /\ ReplaySpec
  <1>1. ServicesInit => HubInit /\ TargetsInit /\ StationsInit /\ ReplayInit
    BY DEF ServicesInit
  <1>2. [ServicesNext]_servicesVars
           => /\ [HubNext]_hubVars /\ [TargetsNext]_targetVars
              /\ [StationsNext]_stationVars /\ [ReplayNext]_replayVars
    BY DEF ServicesNext, servicesVars
  <1> QED
    BY <1>1, <1>2, PTL DEF ServicesSpec, HubSpec, TargetsSpec, StationsSpec, ReplaySpec

\* hub.go, aggregator.go, registry.go, manager.go: the variables keep their shapes.
THEOREM ServicesTyped == ServicesSpec => []ServicesTypeOK
  <1>1. /\ HubTypeOK /\ ChannelsSafe => HubTypeOK
        /\ TargetsInv => TargetsTypeOK
        /\ StationsInv => StationsTypeOK
        /\ ReplayInv => ReplayTypeOK
    BY DEF TargetsInv, StationsInv, ReplayInv
  <1>2. HubTypeOK /\ TargetsTypeOK /\ StationsTypeOK /\ ReplayTypeOK => ServicesTypeOK
    BY DEF ServicesTypeOK
  <1> QED
    BY <1>1, <1>2, ServicesSeparate, HubSafe, TargetsInvHolds, StationsInvHolds,
       ReplayInvHolds, PTL

=============================================================================
