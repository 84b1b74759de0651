---------------------------- MODULE LiveTargets -----------------------------
(***************************************************************************)
(* The live target store of the API server                                 *)
(* (internal/livetargets/aggregator.go): one consumer callback per         *)
(* partition calls Observe, EvictLoop deletes what is older than the TTL.  *)
(* The store is a sync.Map; each of its operations is one step.            *)
(***************************************************************************)
EXTENDS Integers

CONSTANTS
    Partitions,   \* consumers bound by Run, each calling Observe one message at a time
    Targets, MaxTime,
    TargetTTL,
    MaxTargetClock    \* bound of the clock

ASSUME TargetsAssumption ==
    MaxTime \in Nat /\ TargetTTL \in Nat /\ MaxTargetClock \in Nat

Times == 1..MaxTime
NoEntry == [time |-> 0, stored |-> 0]
TargetEntries == [time : Times, stored : 0..MaxTargetClock]

VARIABLES
    targets,     \* targets[d] : the entry of d, NoEntry when absent
    observer,    \* observer[p] : the Observe call of the callback of p
    targetEvict, \* EvictLoop: its cutoff, what Range has yet to visit, the key to delete
    targetClock

targetVars == <<targets, observer, targetEvict, targetClock>>

NoObserve == [pc |-> "idle"]
NoEviction == [cutoff |-> 0, left |-> {}, victim |-> {}]

TargetsInit ==
    /\ targets = [d \in Targets |-> NoEntry]
    /\ observer = [p \in Partitions |-> NoObserve]
    /\ targetEvict = NoEviction
    /\ targetClock = 0

-----------------------------------------------------------------------------
(* Observe.                                                                *)

\* A message decodes; Observe reads the clock.
ObserveTarget(p, d, t) ==
    /\ observer[p] = NoObserve
    /\ observer' = [observer EXCEPT ![p] =
          [pc |-> "load", drone |-> d, next |-> [time |-> t, stored |-> targetClock]]]
    /\ UNCHANGED <<targets, targetEvict, targetClock>>

\* Mutant: the timestamps are not compared.
OutdatedNever(next, current) == FALSE

\* sample.Timestamp.Before(current.sample.Timestamp)
Outdated(next, current) == next.time < current.time

\* Load: an older sample is dropped, otherwise the entry read is to be replaced.
LoadTarget(p) ==
    /\ observer[p].pc = "load"
    /\ LET o == observer[p]
           current == targets[o.drone]
       IN  observer' = [observer EXCEPT ![p] =
              IF current # NoEntry /\ Outdated(o.next, current) THEN NoObserve
              ELSE [pc |-> "swap", drone |-> o.drone, next |-> o.next, seen |-> current]]
    /\ UNCHANGED <<targets, targetEvict, targetClock>>

\* Mutant: the loaded entry is replaced without a compare.
SwapTargetBlind(p) ==
    /\ observer[p].pc = "swap"
    /\ LET o == observer[p] IN
       /\ targets' = [targets EXCEPT ![o.drone] = o.next]
       /\ observer' = [observer EXCEPT ![p] = NoObserve]
    /\ UNCHANGED <<targetEvict, targetClock>>

\* LoadOrStore when nothing was loaded, CompareAndSwap otherwise; a lost race
\* goes round the loop again.
SwapTarget(p) ==
    /\ observer[p].pc = "swap"
    /\ LET o == observer[p] IN
       IF targets[o.drone] = o.seen
       THEN /\ targets' = [targets EXCEPT ![o.drone] = o.next]
            /\ observer' = [observer EXCEPT ![p] = NoObserve]
       ELSE /\ observer' = [observer EXCEPT ![p] =
                 [pc |-> "load", drone |-> o.drone, next |-> o.next]]
            /\ UNCHANGED targets
    /\ UNCHANGED <<targetEvict, targetClock>>

-----------------------------------------------------------------------------
(* EvictLoop.                                                              *)

\* The ticker fires: the cutoff is fixed and Range starts.
EvictTargets ==
    /\ targetEvict.left = {} /\ targetEvict.victim = {}
    /\ targetEvict' = [cutoff |-> targetClock - TargetTTL, left |-> Targets, victim |-> {}]
    /\ UNCHANGED <<targets, observer, targetClock>>

\* value.(entry).stored.Before(cutoff)
Evictable(e) == e.stored < targetEvict.cutoff

\* Range reads the value of a key.
VisitTarget(d) ==
    /\ d \in targetEvict.left /\ targetEvict.victim = {}
    /\ targetEvict' = [targetEvict EXCEPT
          !.left = @ \ {d},
          !.victim = IF targets[d] # NoEntry /\ Evictable(targets[d]) THEN {d} ELSE {}]
    /\ UNCHANGED <<targets, observer, targetClock>>

\* Delete, whatever is stored under the key by now.
DeleteTarget ==
    /\ targetEvict.victim # {}
    /\ targets' = [d \in Targets |-> IF d \in targetEvict.victim THEN NoEntry ELSE targets[d]]
    /\ targetEvict' = [targetEvict EXCEPT !.victim = {}]
    /\ UNCHANGED <<observer, targetClock>>

TargetTick ==
    /\ targetClock < MaxTargetClock
    /\ targetClock' = targetClock + 1
    /\ UNCHANGED <<targets, observer, targetEvict>>

VisitTargets == \E d \in Targets : VisitTarget(d)

TargetsNext ==
    \/ \E p \in Partitions :
         \/ \E d \in Targets, t \in Times : ObserveTarget(p, d, t)
         \/ LoadTarget(p) \/ SwapTarget(p)
    \/ EvictTargets \/ VisitTargets \/ DeleteTarget
    \/ TargetTick

TargetsSpec == TargetsInit /\ [][TargetsNext]_targetVars


-----------------------------------------------------------------------------
(* Properties.                                                             *)

\* The shapes of the variables.
TargetsTypeOK ==
    /\ targets \in [Targets -> TargetEntries \cup {NoEntry}]
    /\ \A p \in Partitions :
         observer[p] # NoObserve
            => observer[p].drone \in Targets /\ observer[p].next \in TargetEntries
    /\ targetEvict \in [cutoff : -TargetTTL..MaxTargetClock, left : SUBSET Targets,
                        victim : SUBSET Targets]
    /\ targetClock \in 0..MaxTargetClock

TargetsMoveOn ==
    \A d \in Targets : targets[d] # NoEntry /\ targets'[d] # NoEntry
                         => targets'[d].time >= targets[d].time

\* Whoever wins the race between the callbacks of two partitions, a target is
\* never shown at an older position than before: entries are only replaced by
\* samples at least as new, and only EvictLoop removes one.
TargetsNeverGoBack == [][TargetsMoveOn]_targetVars

=============================================================================
