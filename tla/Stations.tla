------------------------------ MODULE Stations ------------------------------
(***************************************************************************)
(* The station registry of the server (internal/stations/registry.go):     *)
(* Observe, lock-free, called by every ingest stream, and                  *)
(* reportTransitions, called by the one goroutine of Run.  The registry is *)
(* a sync.Map from stations to pointers; the fields of a stationState are  *)
(* atomics, and every operation on the map or on an atomic is one step.    *)
(*                                                                         *)
(* The station of the model is any one station: stations share nothing.    *)
(* State objects are numbered in the order the map got them.               *)
(***************************************************************************)
EXTENDS Integers, FiniteSets

CONSTANTS
    Feeds,          \* ingest streams that carry samples of the station
    OnlineWithin, OfflineAfter, ForgetAfter, RateWindow,
    MaxObserves,    \* bound: calls of Observe
    MaxStationClock \* bound of the clock

Objects == 1..MaxObserves
Instants == 0..MaxStationClock
Statuses == {"online", "stale", "offline"}

ASSUME StationsAssumption ==
    /\ OnlineWithin \in Nat /\ OfflineAfter \in Nat /\ ForgetAfter \in Nat
    /\ OnlineWithin < OfflineAfter /\ OfflineAfter < ForgetAfter
    /\ IsFiniteSet(Feeds)
    /\ RateWindow \in Nat /\ MaxObserves \in Nat /\ MaxStationClock \in Nat

VARIABLES
    listed,   \* the object the map holds for the station, 0 for none
    station,      \* station[o] : the fields of object o
    feed,         \* feed[f] : the Observe call of stream f
    check,        \* reportTransitions: where it stands, its now and its object
    made,         \* objects made
    observes,     \* calls of Observe
    forgotten,    \* ghost: objects reportTransitions has deleted from the map
    windowAdds,   \* ghost: per object, windowCount.Add since windowStart was stored
    stationClock

stationVars ==
    <<listed, station, feed, check, made, observes, forgotten, windowAdds,
      stationClock>>

NoFeed == [pc |-> "idle", now |-> 0, object |-> 0]
NoCheck == [pc |-> "idle", now |-> 0, object |-> 0]
Fresh(now) == [lastSeen |-> now, samples |-> 0, windowStart |-> now, windowCount |-> 0,
               lastReported |-> "online"]

StationsInit ==
    /\ listed = 0
    /\ station = [o \in Objects |-> Fresh(0)]
    /\ feed = [f \in Feeds |-> NoFeed]
    /\ check = NoCheck
    /\ made = 0 /\ observes = 0 /\ forgotten = {}
    /\ windowAdds = [o \in Objects |-> 0]
    /\ stationClock = 0

-----------------------------------------------------------------------------
(* Observe.                                                                *)

\* The clock is read.
ObserveStation(f) ==
    /\ feed[f].pc = "idle" /\ observes < MaxObserves
    /\ observes' = observes + 1
    /\ feed' = [feed EXCEPT ![f] = [pc |-> "load", now |-> stationClock, object |-> 0]]
    /\ UNCHANGED <<listed, station, check, made, forgotten, windowAdds, stationClock>>

\* load looks the station up, perhaps later.
LoadStation(f) ==
    /\ feed[f].pc = "load"
    /\ feed' = [feed EXCEPT ![f].pc = IF listed = 0 THEN "insert" ELSE "samples",
                            ![f].object = listed]
    /\ UNCHANGED <<listed, station, check, made, observes, forgotten, windowAdds, stationClock>>

\* The map gets a fresh object.
Insert(f) ==
    /\ made' = made + 1
    /\ listed' = made + 1
    /\ station' = [station EXCEPT ![made + 1] = Fresh(feed[f].now)]

\* LoadOrStore keeps the object another stream stored meanwhile.
InsertStation(f) ==
    /\ feed[f].pc = "insert"
    /\ IF listed = 0 THEN Insert(f) ELSE UNCHANGED <<listed, station, made>>
    /\ feed' = [feed EXCEPT ![f].pc = "samples", ![f].object = listed']
    /\ UNCHANGED <<check, observes, forgotten, windowAdds, stationClock>>

\* samples.Add, then windowCount.Add.
AddSample(f) ==
    \/ /\ feed[f].pc = "samples"
       /\ station' = [station EXCEPT ![feed[f].object].samples = @ + 1]
       /\ feed' = [feed EXCEPT ![f].pc = "window"]
       /\ UNCHANGED windowAdds
    \/ /\ feed[f].pc = "window"
       /\ station' = [station EXCEPT ![feed[f].object].windowCount = @ + 1]
       /\ windowAdds' = [windowAdds EXCEPT ![feed[f].object] = @ + 1]
       /\ feed' = [feed EXCEPT ![f].pc = "seen"]

\* lastSeen.Store, also when another stream has stored a later instant.
StoreLastSeen(f) ==
    /\ feed[f].pc = "seen"
    /\ station' = [station EXCEPT ![feed[f].object].lastSeen = feed[f].now]
    /\ feed' = [feed EXCEPT ![f] = NoFeed]
    /\ UNCHANGED windowAdds

FeedStep(f) ==
    /\ AddSample(f) \/ StoreLastSeen(f)
    /\ UNCHANGED <<listed, check, made, observes, forgotten, stationClock>>

-----------------------------------------------------------------------------
(* reportTransitions.                                                      *)

Age(now) == now - station[check.object].lastSeen

\* Mutant: a station past OfflineAfter is still called stale.
StatusNeverOffline(age) == IF age <= OnlineWithin THEN "online" ELSE "stale"

\* statusOf
StatusOf(age) ==
    IF age <= OnlineWithin THEN "online" ELSE IF age <= OfflineAfter THEN "stale" ELSE "offline"

\* The ticker fires; Range comes to the station, if there is one.
CheckStation ==
    /\ check.pc = "idle"
    /\ check' = IF listed = 0 THEN NoCheck
                ELSE [pc |-> "age", now |-> stationClock, object |-> listed]
    /\ UNCHANGED <<station, windowAdds>>

\* lastSeen is loaded: the station is forgotten, or its window may be over.
CheckAge ==
    /\ check.pc = "age"
    /\ check' = [check EXCEPT !.pc =
          IF Age(check.now) > ForgetAfter THEN "delete"
          ELSE IF check.now - station[check.object].windowStart >= RateWindow
          THEN "window" ELSE "status"]
    /\ UNCHANGED <<station, windowAdds>>

\* Mutant: the count is reset before the start, and what is added between the two stores
\* is counted into the window that begins after it.
ResetCountFirst ==
    \/ /\ check.pc = "window"
       /\ station' = [station EXCEPT ![check.object].windowCount = 0]
       /\ check' = [check EXCEPT !.pc = "count"]
       /\ UNCHANGED windowAdds
    \/ /\ check.pc = "count"
       /\ station' = [station EXCEPT ![check.object].windowStart = check.now]
       /\ windowAdds' = [windowAdds EXCEPT ![check.object] = 0]
       /\ check' = [check EXCEPT !.pc = "status"]

\* windowStart.Store, then windowCount.Store.
ResetWindow ==
    \/ /\ check.pc = "window"
       /\ station' = [station EXCEPT ![check.object].windowStart = check.now]
       /\ windowAdds' = [windowAdds EXCEPT ![check.object] = 0]
       /\ check' = [check EXCEPT !.pc = "count"]
    \/ /\ check.pc = "count"
       /\ station' = [station EXCEPT ![check.object].windowCount = 0]
       /\ check' = [check EXCEPT !.pc = "status"]
       /\ UNCHANGED windowAdds

\* lastSeen is loaded again; a changed status is logged and remembered.
ReportStatus ==
    /\ check.pc = "status"
    /\ station' = [station EXCEPT ![check.object].lastReported = StatusOf(Age(check.now))]
    /\ check' = NoCheck
    /\ UNCHANGED windowAdds

\* Delete removes the station, whatever its streams have done to it meanwhile.
ForgetStation ==
    /\ check.pc = "delete"
    /\ listed' = 0
    /\ forgotten' = forgotten \cup {check.object}
    /\ check' = NoCheck
    /\ UNCHANGED <<station, feed, made, observes, windowAdds, stationClock>>

CheckStep ==
    /\ CheckStation \/ CheckAge \/ ResetWindow \/ ReportStatus
    /\ UNCHANGED <<listed, feed, made, observes, forgotten, stationClock>>

StationTick ==
    /\ stationClock < MaxStationClock
    /\ stationClock' = stationClock + 1
    /\ UNCHANGED <<listed, station, feed, check, made, observes, forgotten, windowAdds>>

StationsNext ==
    \/ \E f \in Feeds : ObserveStation(f) \/ LoadStation(f) \/ InsertStation(f) \/ FeedStep(f)
    \/ CheckStep \/ ForgetStation \/ StationTick

\* The goroutine of Run keeps checking.
StationsFairness == WF_stationVars(CheckStep \/ ForgetStation)

StationsSpec == StationsInit /\ [][StationsNext]_stationVars

-----------------------------------------------------------------------------
(* Properties.                                                             *)

\* The shapes of the variables.
StationsTypeOK ==
    /\ listed \in 0..made /\ made \in 0..MaxObserves /\ observes \in 0..MaxObserves
    /\ station \in [Objects ->
          [lastSeen : Instants, samples : 0..MaxObserves, windowStart : Instants,
           windowCount : 0..MaxObserves, lastReported : Statuses]]
    /\ feed \in [Feeds -> [pc : {"idle", "load", "insert", "samples", "window", "seen"},
                           now : Instants, object : 0..MaxObserves]]
    /\ check \in [pc : {"idle", "age", "window", "count", "status", "delete"},
                  now : Instants, object : 0..MaxObserves]
    /\ forgotten \subseteq Objects /\ windowAdds \in [Objects -> Nat]
    /\ stationClock \in Instants

\* However many streams report a station for the first time at once, they count
\* into one object: an object that was counted into is the listed one,
\* unless the station was forgotten in between.
CountedInOnePlace ==
    \A o \in Objects : station[o].samples > 0 => o = listed \/ o \in forgotten

\* The rate is never computed from more samples than the station has, although
\* counting a sample and restarting the window are several steps each.
WindowWithinSamples == \A o \in Objects : station[o].windowCount <= station[o].samples

\* Nor from samples counted before the window began, although streams count between and
\* around the two stores that restart it: only between the two stores themselves does
\* the count of the last window stand beside the start of the new one.
WindowNotInflated ==
    \A o \in Objects : station[o].windowCount <= windowAdds[o]
                       \/ (check.pc = "count" /\ check.object = o)

\* What streams add and the checker resets, forgets and reads stays consistent.
CountersAgree == CountedInOnePlace /\ WindowWithinSamples /\ WindowNotInflated

\* A station that stays silent is reported offline, or forgotten.
SilenceIsReported ==
    listed # 0 /\ stationClock - station[listed].lastSeen > OfflineAfter
        ~> \/ listed = 0
           \/ station[listed].lastReported = "offline"
           \/ stationClock - station[listed].lastSeen <= OfflineAfter

=============================================================================
