------------------------------ MODULE Notifier ------------------------------
(***************************************************************************)
(* The notifier (internal/notify/dispatcher.go and cooldown.go, wired in   *)
(* cmd/notifier/main.go): alerts come from a durable consumer, one handler *)
(* call at a time; a cooldown per drone, zone and event suppresses         *)
(* repeats; the others go to every sink concurrently, with a timeout.      *)
(***************************************************************************)
EXTENDS DurableConsumer

CONSTANTS
    Sinks,         \* configured sinks
    KeyOf,         \* cooldownKey of each alert: drone, zone and event
    Malformed,     \* alerts that do not decode
    Exits,         \* alerts of event exited
    NotifyOnExit,  \* notifyOnExit
    Cooldown,      \* cooldown window in clock ticks, 0 when disabled
    NoMsg,         \* stands for no message
    MaxCrashes     \* bound on the crashes of the process

ASSUME NotifierAssumption ==
    /\ IsFiniteSet(Sinks) /\ Malformed \subseteq Msgs /\ Exits \subseteq Msgs
    /\ NotifyOnExit \in BOOLEAN /\ Cooldown \in Nat /\ MaxCrashes \in Nat
    /\ NoMsg \notin Msgs /\ DOMAIN KeyOf = Msgs

Keys == {KeyOf[m] : m \in Msgs}
Never == -1

VARIABLES
    lastSeen,    \* the cooldown map, Never when a key is absent
    handling,    \* the alert being dispatched
    pending,     \* sinks whose Send has not returned
    failures,    \* a Send of this dispatch failed
    reached,     \* <<alert, sink>> pairs that arrived at the sink
    dispatched,  \* time of the latest dispatch of a key since the last crash
    crashes

gateVars == <<lastSeen, dispatched>>
sendVars == <<handling, pending, failures, reached>>
vars == <<streamVars, buffer, clock, gateVars, sendVars, crashes>>

Init ==
    /\ ConsumerInit
    /\ lastSeen = [k \in Keys |-> Never]
    /\ handling = NoMsg /\ pending = {} /\ failures = FALSE
    /\ reached = {}
    /\ dispatched = [k \in Keys |-> Never]
    /\ crashes = 0

-----------------------------------------------------------------------------
(* The cooldown gate.                                                      *)

\* Mutant: pruning forgets keys one tick before their window is over.
PrunedEarly == [k \in Keys |-> IF clock - lastSeen[k] >= Cooldown - 1 THEN Never ELSE lastSeen[k]]

\* pruneLocked: entries whose window is over are forgotten.
Pruned == [k \in Keys |-> IF clock - lastSeen[k] >= Cooldown THEN Never ELSE lastSeen[k]]

\* allow: the key has not been let through within the window.
Allowed(k) == Cooldown = 0 \/ Pruned[k] = Never

-----------------------------------------------------------------------------
(* Dispatcher.handle.                                                      *)

\* The alerts handle gets past its first two returns.
Wanted(m) == m \notin Malformed /\ (m \in Exits => NotifyOnExit)

\* The next buffered alert, when the handler is free.
UpNext(m) == handling = NoMsg /\ buffer # <<>> /\ m = Head(buffer)

\* A malformed alert is terminated; an exit is skipped unless it is wanted.
HandleUnwanted(m) ==
    /\ UpNext(m)
    /\ ~Wanted(m)
    /\ buffer' = Tail(buffer)
    /\ Settle(m)
    /\ UNCHANGED <<clock, gateVars, sendVars, crashes>>

\* An alert within the cooldown window of its key is acknowledged unsent.
HandleThrottled(m) ==
    /\ UpNext(m)
    /\ Wanted(m)
    /\ ~Allowed(KeyOf[m])
    /\ lastSeen' = Pruned
    /\ buffer' = Tail(buffer)
    /\ Settle(m)
    /\ UNCHANGED <<clock, dispatched, sendVars, crashes>>

\* The gate lets the alert through and marks its key before anything is sent.
HandleDispatch(m) ==
    /\ UpNext(m)
    /\ Wanted(m)
    /\ Allowed(KeyOf[m])
    /\ lastSeen' = IF Cooldown = 0 THEN lastSeen
                   ELSE [Pruned EXCEPT ![KeyOf[m]] = clock]
    /\ dispatched' = [dispatched EXCEPT ![KeyOf[m]] = clock]
    /\ handling' = m /\ pending' = Sinks /\ failures' = FALSE
    /\ buffer' = Tail(buffer)
    /\ UNCHANGED <<streamVars, clock, reached, crashes>>

\* One sink's Send returns: an error may hide a notification that arrived.
SinkReturns(s) ==
    /\ handling # NoMsg
    /\ s \in pending
    /\ pending' = pending \ {s}
    /\ \/ reached' = reached \cup {<<handling, s>>} /\ UNCHANGED failures
       \/ failures' = TRUE /\ reached' \in {reached, reached \cup {<<handling, s>>}}
    /\ UNCHANGED <<streamVars, buffer, clock, gateVars, handling, crashes>>

\* Mutant: the outcome of dispatch is ignored.
HandleReturnsAcked(m) ==
    /\ handling = m /\ pending = {}
    /\ Settle(m)
    /\ handling' = NoMsg /\ failures' = FALSE
    /\ UNCHANGED <<buffer, clock, gateVars, pending, reached, crashes>>

\* Mutant: handle waits for a dispatch without failures.
HandleReturnsSuccess(m) ==
    /\ handling = m /\ pending = {} /\ ~failures
    /\ Settle(m)
    /\ handling' = NoMsg /\ failures' = FALSE
    /\ UNCHANGED <<buffer, clock, gateVars, pending, reached, crashes>>

\* Every Send has returned: ack if all succeeded, else ask for redelivery.
HandleReturns(m) ==
    /\ handling = m /\ pending = {}
    /\ IF failures THEN Retry(m) ELSE Settle(m)
    /\ handling' = NoMsg /\ failures' = FALSE
    /\ UNCHANGED <<buffer, clock, gateVars, pending, reached, crashes>>

\* The process dies and is restarted: buffer, dispatch and gate are lost.
Crash ==
    /\ crashes < MaxCrashes
    /\ crashes' = crashes + 1
    /\ buffer' = <<>>
    /\ handling' = NoMsg /\ pending' = {} /\ failures' = FALSE
    /\ lastSeen' = [k \in Keys |-> Never]
    /\ dispatched' = [k \in Keys |-> Never]
    /\ UNCHANGED <<streamVars, clock, reached>>

Broker(A) == A /\ UNCHANGED <<gateVars, sendVars, crashes>>

Handle ==
    \/ \E m \in Msgs :
         HandleUnwanted(m) \/ HandleThrottled(m) \/ HandleDispatch(m) \/ HandleReturns(m)
    \/ \E s \in Sinks : SinkReturns(s)

Next ==
    \/ \E m \in Msgs : Broker(Publish(m)) \/ Broker(Deliver(m))
    \/ Broker(Tick) \/ Handle \/ Crash
    \/ StreamIdle /\ handling = NoMsg /\ UNCHANGED vars

Spec == Init /\ [][Next]_vars

\* JetStream delivers what is due, the handler runs and Send returns within
\* its timeout.  A lost ack is made good by later ones only if some succeed.
Fairness ==
    /\ \A m \in Msgs : WF_vars(Broker(Deliver(m)))
    /\ WF_vars(Broker(Tick)) /\ WF_vars(Handle)

FairSpec == Spec /\ Fairness

-----------------------------------------------------------------------------
(* Properties.                                                             *)

\* The shapes of the variables.
TypeOK ==
    /\ ConsumerTypeOK
    /\ lastSeen \in [Keys -> {Never} \cup 0..MaxClock]
    /\ dispatched \in [Keys -> {Never} \cup 0..MaxClock]
    /\ handling \in Msgs \cup {NoMsg} /\ pending \subseteq Sinks
    /\ failures \in BOOLEAN
    /\ reached \subseteq Msgs \X Sinks

ReachedAll(m) == \A s \in Sinks : <<m, s>> \in reached

\* An alert that was acknowledged reached every sink, or another alert of its
\* drone, zone and event did: "acking only when delivery succeeds and retrying
\* otherwise", with repeats suppressed.
AckedOnlyIfDelivered ==
    \A m \in settled : Wanted(m) =>
        \E n \in Msgs : KeyOf[n] = KeyOf[m] /\ ReachedAll(n)

\* Two dispatches of one key by the same process are a cooldown window apart,
\* whatever is redelivered and however the gate is pruned.
CooldownStep ==
    \A k \in Keys :
        dispatched[k] # Never /\ dispatched'[k] # dispatched[k] /\ dispatched'[k] # Never
            => dispatched'[k] - dispatched[k] >= Cooldown

\* Every step respects the cooldown.
CooldownSpacing == [][CooldownStep]_vars

\* An alert is acknowledged for one of two reasons only: every sink got it, or
\* this process dispatched one of its drone, zone and event within the window.
AckStep ==
    \A m \in settled' \ settled : Wanted(m) =>
        \/ ReachedAll(m)
        \/ /\ dispatched[KeyOf[m]] # Never
           /\ clock - dispatched[KeyOf[m]] < Cooldown

\* Every acknowledgement is justified, whatever fails, is redelivered or crashes.
AckJustified == [][AckStep]_vars

\* Every delivery allowed for the alert has been made and dealt with.
Exhausted(m) ==
    /\ deliveries[m] = MaxDeliver
    /\ handling # m /\ \A i \in DOMAIN buffer : buffer[i] # m

\* No alert is forgotten, and none holds up the others: it is acknowledged, or
\* it was tried MaxDeliver times and the handler has moved on.
SettledOrExhausted ==
    \A m \in Msgs : (m \in published) ~> (m \in settled \/ Exhausted(m))

-----------------------------------------------------------------------------
(* What the safety properties rest on.                                     *)

\* While no Send of the dispatch in progress has failed, every sink whose
\* Send has returned was reached.
DispatchInv ==
    handling # NoMsg /\ ~failures => \A s \in Sinks \ pending : <<handling, s>> \in reached

\* The gate remembers every dispatch whose window is still running.
GateInv ==
    \A k \in Keys :
      /\ dispatched[k] <= clock
      /\ lastSeen[k] \in {Never, dispatched[k]}
      /\ Cooldown = 0 => lastSeen[k] = Never
      /\ Cooldown > 0 /\ dispatched[k] # Never /\ lastSeen[k] = Never
           => clock - dispatched[k] >= Cooldown

=============================================================================
