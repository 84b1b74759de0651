----------------------------- MODULE Registries -----------------------------
(***************************************************************************)
(* The registries a geofence replica keeps in memory beside their tables:  *)
(* the zone index (internal/geofence/zoneindex.go), the custom zone list   *)
(* (customzonecache.go) and the friendly squawks (friendly.go), the HTTP   *)
(* handlers that change the tables (cmd/geofence/customzones.go and        *)
(* friendly.go) and the goroutines that reload the caches periodically.    *)
(*                                                                         *)
(* A load reads a table and stores what it read in one atomic pointer, but *)
(* nothing orders two loads of the same cache: the snapshot that is stored *)
(* last wins, even if it was read first.  One replica is modelled; changes *)
(* by the handlers of another are commits without a load here.             *)
(*                                                                         *)
(* Time is discrete.  A goroutine serves its ticker at once, and a load    *)
(* that has not failed stores its snapshot within QueryTimeout of reading. *)
(***************************************************************************)
EXTENDS Integers, Sequences

CONSTANTS
    Handlers,      \* HTTP requests in progress on this replica
    Caches,        \* the caches modelled, of "index", "list" and "friendly"
    IndexEvery, ListEvery, FriendlyEvery,   \* the intervals of main.go
    QueryTimeout,  \* queryTimeout
    MaxChanges,    \* bound: commits to the tables
    MaxErrors,     \* bound: loads that fail
    MaxRegistryClock

AllCaches == {"index", "list", "friendly"}
Tables == {"custom_zones", "friendly_squawks"}

\* The table each query reads.  The index also lists the oblasts, which nothing
\* changes after the start.
ListAlertZoneFeatures == "custom_zones"
ListCustomZones == "custom_zones"
ListFriendlyCodes == "friendly_squawks"

\* The query behind each cache.
TableOf == [c \in AllCaches |-> IF c = "index" THEN ListAlertZoneFeatures
                                ELSE IF c = "list" THEN ListCustomZones ELSE ListFriendlyCodes]
Every == [c \in AllCaches |-> IF c = "index" THEN IndexEvery
                              ELSE IF c = "list" THEN ListEvery ELSE FriendlyEvery]

ASSUME RegistriesAssumption ==
    /\ Caches \subseteq AllCaches /\ Handlers \cap AllCaches = {}
    /\ {QueryTimeout, MaxChanges, MaxErrors, MaxRegistryClock} \subseteq Nat
    /\ \A c \in Caches : Every[c] \in Nat /\ Every[c] > QueryTimeout

Loaders == Caches \cup Handlers   \* a goroutine is named after its cache
NoLoad == [phase |-> "idle"]

VARIABLES
    commits,   \* per table: when its changes were committed
    rows,      \* per table: how many rows there are to delete
    snapshot,  \* current of each cache: the number of changes it reflects
    load,      \* per loader: what it is doing, to which cache, what it has read, since when
    sinceTick, \* per goroutine: the age of its last tick
    failures,  \* per goroutine: failed loads since the last one stored
    errors,
    registryClock

tableVars == <<commits, rows>>
loadVars == <<load, sinceTick, failures, errors>>
registryVars == <<tableVars, snapshot, loadVars, registryClock>>

\* NewRefreshingZoneIndex and the first Refresh of the other caches succeeded.
RegistriesInit ==
    /\ commits = [t \in Tables |-> <<>>]
    /\ rows = [t \in Tables |-> 0]
    /\ snapshot = [c \in Caches |-> 0]
    /\ load = [l \in Loaders |-> NoLoad]
    /\ sinceTick = [c \in Caches |-> 0]
    /\ failures = [c \in Caches |-> 0]
    /\ errors = 0
    /\ registryClock = 0

-----------------------------------------------------------------------------
(* The handlers.                                                           *)

\* The cache a handler that changed a table loads afterwards.  The list of
\* custom zones is left to its goroutine.
RefreshedAfter(t) == IF t = "custom_zones" THEN "index" ELSE "friendly"

Commit(t, more) ==
    /\ \A u \in Tables \ {t} : Len(commits[t]) + Len(commits[u]) < MaxChanges
    /\ commits' = [commits EXCEPT ![t] = Append(@, registryClock)]
    /\ rows' = [rows EXCEPT ![t] = @ + more]
    /\ UNCHANGED <<snapshot, sinceTick, failures, errors, registryClock>>

RefreshNext(h, t) ==
    load' = [load EXCEPT ![h] =
        IF RefreshedAfter(t) \in Caches THEN [phase |-> "refresh", of |-> RefreshedAfter(t)]
        ELSE NoLoad]

\* createCustomZoneHandler; a polygon that is not valid changes nothing.
CreateCustomZone(h) ==
    /\ load[h] = NoLoad
    /\ Commit("custom_zones", 1)
    /\ RefreshNext(h, "custom_zones")

\* deleteCustomZoneHandler; an ID without a row is not found and nothing follows.
DeleteCustomZone(h) ==
    /\ load[h] = NoLoad /\ rows["custom_zones"] > 0
    /\ Commit("custom_zones", -1)
    /\ RefreshNext(h, "custom_zones")

\* createFriendlyHandler: a new code, or a new label for one that is there.
AddFriendlySquawk(h) ==
    /\ load[h] = NoLoad
    /\ \E more \in {0, 1} : (more = 0 => rows["friendly_squawks"] > 0)
                            /\ Commit("friendly_squawks", more)
    /\ RefreshNext(h, "friendly_squawks")

\* deleteFriendlyHandler; a code that is not registered is not found.
DeleteFriendlySquawk(h) ==
    /\ load[h] = NoLoad /\ rows["friendly_squawks"] > 0
    /\ Commit("friendly_squawks", -1)
    /\ RefreshNext(h, "friendly_squawks")

\* A handler of another replica changes a table.
ChangedElsewhere(t) ==
    /\ \E more \in {-1, 1} : rows[t] + more >= 0 /\ Commit(t, more)
    /\ UNCHANGED load

-----------------------------------------------------------------------------
(* The loads.                                                              *)

\* Mutant: a load does not see the change committed last.
ReadingBehind(c) ==
    LET n == Len(commits[TableOf[c]])
    IN  [phase |-> "store", of |-> c, seen |-> IF n = 0 THEN 0 ELSE n - 1, since |-> 0]

\* A load that has read the table.
Reading(c) == [phase |-> "store", of |-> c, seen |-> Len(commits[TableOf[c]]), since |-> 0]

\* Refresh in a handler: the query reads the table.
HandlerReads(h) ==
    /\ load[h].phase = "refresh"
    /\ load' = [load EXCEPT ![h] = Reading(load[h].of)]
    /\ UNCHANGED <<tableVars, snapshot, sinceTick, failures, errors, registryClock>>

\* The load of a handler fails, for one because its client has gone away and
\* with it the request's context; this is only logged.
HandlerFails(h) ==
    /\ load[h] # NoLoad /\ errors < MaxErrors
    /\ load' = [load EXCEPT ![h] = NoLoad]
    /\ errors' = errors + 1
    /\ UNCHANGED <<tableVars, snapshot, sinceTick, failures, registryClock>>

\* The ticker of a goroutine fires and its query reads the table.
RunTick(c) ==
    /\ sinceTick[c] = Every[c] /\ load[c] = NoLoad
    /\ load' = [load EXCEPT ![c] = Reading(c)]
    /\ sinceTick' = [sinceTick EXCEPT ![c] = 0]
    /\ UNCHANGED <<tableVars, snapshot, failures, errors, registryClock>>

\* The load of a goroutine fails: it logs the error and goes on.
RunFails(c) ==
    /\ load[c] # NoLoad /\ errors < MaxErrors
    /\ load' = [load EXCEPT ![c] = NoLoad]
    /\ errors' = errors + 1
    /\ failures' = [failures EXCEPT ![c] = @ + 1]
    /\ UNCHANGED <<tableVars, snapshot, sinceTick, registryClock>>

\* What a load stores.
Stored(l) == load[l].seen

\* Store of the new snapshot.
Store(l) ==
    /\ load[l].phase = "store"
    /\ snapshot' = [snapshot EXCEPT ![load[l].of] = Stored(l)]
    /\ load' = [load EXCEPT ![l] = NoLoad]
    /\ failures' = IF l \in Caches THEN [failures EXCEPT ![l] = 0] ELSE failures
    /\ UNCHANGED <<tableVars, sinceTick, errors, registryClock>>

\* Time passes, unless a ticker or a deadline is due.
RegistryTick ==
    /\ registryClock < MaxRegistryClock
    /\ \A c \in Caches : sinceTick[c] < Every[c]
    /\ \A l \in Loaders : load[l].phase # "refresh"
                          /\ (load[l].phase = "store" => load[l].since < QueryTimeout)
    /\ registryClock' = registryClock + 1
    /\ sinceTick' = [c \in Caches |-> sinceTick[c] + 1]
    /\ load' = [l \in Loaders |-> IF load[l].phase = "store" THEN [load[l] EXCEPT !.since = @ + 1]
                                  ELSE load[l]]
    /\ UNCHANGED <<tableVars, snapshot, failures, errors>>

\* The bound on the clock is reached.
RegistriesIdle ==
    /\ registryClock = MaxRegistryClock /\ \A l \in Loaders : load[l] = NoLoad
    /\ UNCHANGED registryVars

RegistriesNext ==
    \/ \E h \in Handlers :
         \/ CreateCustomZone(h) \/ DeleteCustomZone(h)
         \/ AddFriendlySquawk(h) \/ DeleteFriendlySquawk(h)
         \/ HandlerReads(h) \/ HandlerFails(h)
    \/ \E t \in Tables : ChangedElsewhere(t)
    \/ \E c \in Caches : RunTick(c) \/ RunFails(c)
    \/ \E l \in Loaders : Store(l)
    \/ RegistryTick
    \/ RegistriesIdle

RegistriesSpec == RegistriesInit /\ [][RegistriesNext]_registryVars

-----------------------------------------------------------------------------
(* Properties.                                                             *)

\* The shapes of the variables.
RegistriesTypeOK ==
    /\ \A t \in Tables : Len(commits[t]) <= MaxChanges /\ rows[t] \in 0..MaxChanges
    /\ \A c \in Caches : /\ snapshot[c] \in 0..Len(commits[TableOf[c]])
                         /\ sinceTick[c] \in 0..Every[c]
                         /\ failures[c] \in 0..MaxErrors
    /\ \A l \in Loaders : load[l] = NoLoad \/ load[l].of \in Caches

\* Whatever races the loads of handlers and goroutine run, and although an older
\* snapshot may replace a newer one, a cache never misses a change for longer
\* than the goroutine's interval, once more for every load of it that failed,
\* and two query timeouts: one for a handler that stores late what it read
\* early, one for the load that repairs it.
LagBounded ==
    \A c \in Caches : \A i \in (snapshot[c] + 1)..Len(commits[TableOf[c]]) :
        registryClock - commits[TableOf[c]][i]
            <= Every[c] * (1 + failures[c]) + 2 * QueryTimeout

=============================================================================
