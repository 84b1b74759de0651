-------------------------- MODULE DurableConsumer ---------------------------
(***************************************************************************)
(* A durable JetStream consumer as the workers use it: explicit acks, an   *)
(* AckWait after which an unanswered message is delivered again, a delay   *)
(* asked for with NakWithDelay, and MaxDeliver attempts.  JetStream is not *)
(* part of the repository; its parameters are those of                     *)
(* cmd/notifier/main.go and cmd/geofence/setup.go (newConsumer).           *)
(*                                                                         *)
(* Messages wait in the client's buffer while their AckWait runs, and acks *)
(* and naks are fire-and-forget: each may be lost.                         *)
(***************************************************************************)
EXTENDS Integers, Sequences, FiniteSets

CONSTANTS
    Msgs,        \* messages of the stream
    MaxDeliver,  \* deliveries before JetStream gives up on a message
    AckWait,     \* clock ticks until an unanswered message is due again
    NakDelay,    \* redeliveryDelay
    MaxClock     \* bound on the clock

ASSUME ConsumerAssumption ==
    MaxDeliver \in Nat /\ AckWait \in Nat /\ NakDelay \in Nat /\ MaxClock \in Nat

VARIABLES
    published,   \* messages in the stream
    settled,     \* messages acked or terminated
    deliveries,  \* deliveries so far
    dueAt,       \* when a message may be delivered (again)
    buffer,      \* delivered messages the client has not handled yet
    clock

streamVars == <<published, settled, deliveries, dueAt>>

ConsumerInit ==
    /\ published = {} /\ settled = {}
    /\ deliveries = [m \in Msgs |-> 0]
    /\ dueAt = [m \in Msgs |-> 0]
    /\ buffer = <<>>
    /\ clock = 0

Publish(m) ==
    /\ m \notin published
    /\ published' = published \cup {m}
    /\ UNCHANGED <<settled, deliveries, dueAt, buffer, clock>>

Deliverable(m) == m \in published \ settled /\ deliveries[m] < MaxDeliver

Deliver(m) ==
    /\ Deliverable(m)
    /\ dueAt[m] <= clock
    /\ deliveries' = [deliveries EXCEPT ![m] = @ + 1]
    /\ dueAt' = [dueAt EXCEPT ![m] = clock + AckWait]
    /\ buffer' = Append(buffer, m)
    /\ UNCHANGED <<published, settled, clock>>

\* msg.Ack and msg.Term; the answer may be lost on the way.
Settle(m) ==
    /\ settled' \in {settled, settled \cup {m}}
    /\ UNCHANGED <<published, deliveries, dueAt>>

\* msg.NakWithDelay; the answer may be lost on the way.
Retry(m) ==
    /\ dueAt' \in {dueAt, [dueAt EXCEPT ![m] = clock + NakDelay]}
    /\ UNCHANGED <<published, settled, deliveries>>

\* A batch of answers, each of which may be lost: acks and terms for done, naks
\* for again.
Answer(done, again) ==
    /\ settled' \in {settled \cup arrived : arrived \in SUBSET done}
    /\ \E arrived \in SUBSET again :
         dueAt' = [m \in Msgs |-> IF m \in arrived THEN clock + NakDelay ELSE dueAt[m]]
    /\ UNCHANGED <<published, deliveries>>

Tick ==
    /\ clock < MaxClock
    /\ clock' = clock + 1
    /\ UNCHANGED <<streamVars, buffer>>

\* The bounds are reached: nothing is left to deliver before the clock's end.
StreamIdle ==
    /\ published = Msgs /\ buffer = <<>> /\ clock = MaxClock
    /\ \A m \in Msgs : Deliverable(m) => dueAt[m] > clock

\* The shapes of the consumer's variables.
ConsumerTypeOK ==
    /\ published \subseteq Msgs /\ settled \subseteq Msgs
    /\ deliveries \in [Msgs -> 0..MaxDeliver]
    /\ dueAt \in [Msgs -> Nat]
    /\ buffer \in Seq(Msgs)
    /\ clock \in 0..MaxClock

=============================================================================
