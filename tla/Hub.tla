-------------------------------- MODULE Hub ---------------------------------
(***************************************************************************)
(* The broadcast hub (internal/broadcast/hub.go) with the handlers of      *)
(* SubscribeTelemetry (internal/delivery/grpc/subscribe.go) that read it.  *)
(*                                                                         *)
(* Broadcast sends to every subscriber's buffered channel under the read   *)
(* side of h.mu, one non-blocking send at a time; Subscribe, Unsubscribe   *)
(* and Close take the write side.  A handler owns one subscription, so a   *)
(* subscription is identified with its viewer.                             *)
(***************************************************************************)
EXTENDS Integers, Sequences, FiniteSets

CONSTANTS
    Viewers,       \* SubscribeTelemetry calls
    Broadcasters,  \* goroutines that call Broadcast
    Payloads,      \* what is broadcast
    NoPayload,     \* stands for no payload
    BufferSize,    \* bufferSize of a subscriber's channel
    MaxBroadcasts  \* bound on the calls of Broadcast

ASSUME HubAssumption ==
    NoPayload \notin Payloads /\ BufferSize \in Nat \ {0} /\ MaxBroadcasts \in Nat

VARIABLES
    viewer,      \* where each handler stands
    registered,  \* the viewers in h.subscribers
    chan,        \* what each viewer's channel buffers
    open,        \* the viewers whose channel exists and is not closed
    hubClosed,   \* h.closed
    closing,     \* where the call of Close stands
    todo,        \* per broadcaster, the subscribers its range has not reached
    payload,     \* per broadcaster, what it is sending; NoPayload outside Broadcast
    broadcasts, delivered, hubDropped

hubVars == <<viewer, registered, chan, open, hubClosed, closing, todo, payload,
             broadcasts, delivered, hubDropped>>

\* Broadcast holds the read lock.
Sending == {b \in Broadcasters : payload[b] # NoPayload}
\* A goroutine is waiting in h.mu.Lock: no new reader is admitted.
WriterWaiting ==
    closing = "lock" \/ \E v \in Viewers : viewer[v] \in {"subscribe", "unsubscribe"}

HubInit ==
    /\ viewer = [v \in Viewers |-> "out"]
    /\ registered = {}
    /\ chan = [v \in Viewers |-> <<>>]
    /\ open = {}
    /\ hubClosed = FALSE
    /\ closing = "no"
    /\ todo = [b \in Broadcasters |-> {}]
    /\ payload = [b \in Broadcasters |-> NoPayload]
    /\ broadcasts = 0 /\ delivered = 0 /\ hubDropped = 0

-----------------------------------------------------------------------------
(* SubscribeTelemetry.                                                     *)

\* The handler starts and reaches h.mu.Lock in Subscribe.
SubscribeCall(v) ==
    /\ viewer[v] = "out"
    /\ viewer' = [viewer EXCEPT ![v] = "subscribe"]
    /\ UNCHANGED <<registered, chan, open, hubClosed, closing, todo, payload,
                   broadcasts, delivered, hubDropped>>

\* Mutant: Subscribe does not look at h.closed.
SubscribeAnyway(v) ==
    /\ viewer[v] = "subscribe"
    /\ Sending = {}
    /\ viewer' = [viewer EXCEPT ![v] = "loop"]
    /\ registered' = registered \cup {v}
    /\ open' = open \cup {v}
    /\ UNCHANGED <<chan, hubClosed, closing, todo, payload, broadcasts, delivered,
                   hubDropped>>

\* Subscribe under the write lock: a closed hub hands out a closed channel.
Subscribe(v) ==
    /\ viewer[v] = "subscribe"
    /\ Sending = {}
    /\ viewer' = [viewer EXCEPT ![v] = "loop"]
    /\ IF hubClosed
       THEN UNCHANGED <<registered, open>>
       ELSE /\ registered' = registered \cup {v}
            /\ open' = open \cup {v}
    /\ UNCHANGED <<chan, hubClosed, closing, todo, payload, broadcasts, delivered,
                   hubDropped>>

\* The handler takes a sample; one the filter rejects is skipped, the others
\* go to stream.Send, which blocks as long as the client does not read.
Receive(v) ==
    /\ viewer[v] = "loop"
    /\ chan[v] # <<>>
    /\ chan' = [chan EXCEPT ![v] = Tail(@)]
    /\ viewer' \in {viewer, [viewer EXCEPT ![v] = "send"]}
    /\ UNCHANGED <<registered, open, hubClosed, closing, todo, payload, broadcasts,
                   delivered, hubDropped>>

\* Send returns; an error ends the handler.
SendReturns(v) ==
    /\ viewer[v] = "send"
    /\ \E next \in {"loop", "unsubscribe"} : viewer' = [viewer EXCEPT ![v] = next]
    /\ UNCHANGED <<registered, chan, open, hubClosed, closing, todo, payload,
                   broadcasts, delivered, hubDropped>>

\* The channel is closed and drained: the handler returns Unavailable and its
\* deferred Unsubscribe reaches h.mu.Lock.
ReceiveClosed(v) ==
    /\ viewer[v] = "loop"
    /\ chan[v] = <<>> /\ v \notin open
    /\ viewer' = [viewer EXCEPT ![v] = "unsubscribe"]
    /\ UNCHANGED <<registered, chan, open, hubClosed, closing, todo, payload,
                   broadcasts, delivered, hubDropped>>

\* The stream's context is done.
Leave(v) ==
    /\ viewer[v] = "loop"
    /\ viewer' = [viewer EXCEPT ![v] = "unsubscribe"]
    /\ UNCHANGED <<registered, chan, open, hubClosed, closing, todo, payload,
                   broadcasts, delivered, hubDropped>>

\* Mutant: Unsubscribe closes the channel without the write lock.
UnsubscribeUnlocked(v) ==
    /\ viewer[v] = "unsubscribe"
    /\ viewer' = [viewer EXCEPT ![v] = "ended"]
    /\ registered' = registered \ {v}
    /\ open' = open \ {v}
    /\ UNCHANGED <<chan, hubClosed, closing, todo, payload, broadcasts, delivered,
                   hubDropped>>

\* Unsubscribe under the write lock: an id no longer in the map is ignored.
Unsubscribe(v) ==
    /\ viewer[v] = "unsubscribe"
    /\ Sending = {}
    /\ viewer' = [viewer EXCEPT ![v] = "ended"]
    /\ registered' = registered \ {v}
    /\ open' = IF v \in registered THEN open \ {v} ELSE open
    /\ UNCHANGED <<chan, hubClosed, closing, todo, payload, broadcasts, delivered,
                   hubDropped>>

-----------------------------------------------------------------------------
(* Broadcast and Close.                                                    *)

\* Broadcast takes the read lock; a closed hub returns at once.
BroadcastStart(b, m) ==
    /\ payload[b] = NoPayload
    /\ ~WriterWaiting
    /\ broadcasts < MaxBroadcasts
    /\ broadcasts' = broadcasts + 1
    /\ IF hubClosed
       THEN UNCHANGED <<todo, payload>>
       ELSE /\ todo' = [todo EXCEPT ![b] = registered]
            /\ payload' = [payload EXCEPT ![b] = m]
    /\ UNCHANGED <<viewer, registered, chan, open, hubClosed, closing, delivered,
                   hubDropped>>

\* One iteration of the range: a full buffer drops the sample for this viewer.
BroadcastSend(b, v) ==
    /\ payload[b] # NoPayload
    /\ v \in todo[b]
    /\ todo' = [todo EXCEPT ![b] = @ \ {v}]
    /\ \/ /\ Len(chan[v]) < BufferSize
          /\ chan' = [chan EXCEPT ![v] = Append(@, payload[b])]
          /\ delivered' = delivered + 1
          /\ UNCHANGED hubDropped
       \/ /\ Len(chan[v]) >= BufferSize
          /\ hubDropped' = hubDropped + 1
          /\ UNCHANGED <<chan, delivered>>
    /\ UNCHANGED <<viewer, registered, open, hubClosed, closing, payload, broadcasts>>

\* Broadcast returns and releases the read lock.
BroadcastEnd(b) ==
    /\ payload[b] # NoPayload
    /\ todo[b] = {}
    /\ payload' = [payload EXCEPT ![b] = NoPayload]
    /\ UNCHANGED <<viewer, registered, chan, open, hubClosed, closing, todo,
                   broadcasts, delivered, hubDropped>>

\* Close reaches h.mu.Lock.
CloseCall ==
    /\ closing = "no"
    /\ closing' = "lock"
    /\ UNCHANGED <<viewer, registered, chan, open, hubClosed, todo, payload,
                   broadcasts, delivered, hubDropped>>

\* Close under the write lock: every channel still registered is closed.
Close ==
    /\ closing = "lock"
    /\ Sending = {}
    /\ closing' = "done"
    /\ hubClosed' = TRUE
    /\ registered' = {}
    /\ open' = open \ registered
    /\ UNCHANGED <<viewer, chan, todo, payload, broadcasts, delivered, hubDropped>>

-----------------------------------------------------------------------------
ViewerStep(v) == Subscribe(v) \/ Receive(v) \/ ReceiveClosed(v) \/ Unsubscribe(v)
BroadcastStep(b) == (\E v \in Viewers : BroadcastSend(b, v)) \/ BroadcastEnd(b)

\* Every handler and every broadcast has returned.
HubTerminated ==
    /\ closing = "done" /\ Sending = {}
    /\ \A v \in Viewers : viewer[v] = "ended"
    /\ UNCHANGED hubVars

HubNext ==
    \/ \E v \in Viewers : SubscribeCall(v) \/ ViewerStep(v) \/ SendReturns(v) \/ Leave(v)
    \/ \E b \in Broadcasters :
         (\E m \in Payloads : BroadcastStart(b, m)) \/ BroadcastStep(b)
    \/ CloseCall \/ Close \/ HubTerminated

HubSpec == HubInit /\ [][HubNext]_hubVars

\* Goroutines that can run do run; nobody has to subscribe, leave, broadcast
\* or close, and a client may stop reading for ever.
HubFairness ==
    /\ \A v \in Viewers : WF_hubVars(ViewerStep(v))
    /\ \A b \in Broadcasters : WF_hubVars(BroadcastStep(b))
    /\ WF_hubVars(Close)

HubFairSpec == HubSpec /\ HubFairness

-----------------------------------------------------------------------------
(* Properties.                                                             *)

\* The shapes of the variables.
HubTypeOK ==
    /\ viewer \in [Viewers -> {"out", "subscribe", "loop", "send", "unsubscribe", "ended"}]
    /\ registered \subseteq Viewers /\ open \subseteq Viewers
    /\ chan \in [Viewers -> Seq(Payloads)]
    /\ hubClosed \in BOOLEAN /\ closing \in {"no", "lock", "done"}
    /\ todo \in [Broadcasters -> SUBSET Viewers]
    /\ payload \in [Broadcasters -> Payloads \cup {NoPayload}]
    /\ broadcasts \in Nat /\ delivered \in Nat /\ hubDropped \in Nat

\* A subscriber Broadcast is about to send to still has an open channel:
\* a send on a channel that Unsubscribe or Close closed would panic.
NoSendOnClosedChannel ==
    \A b \in Broadcasters : payload[b] # NoPayload => todo[b] \subseteq open

\* A channel is open exactly while its subscriber is in the map, so neither
\* Unsubscribe nor Close ever closes a channel twice (a panic), and no handler
\* is left reading a channel nobody will close.
OpenIffRegistered ==
    /\ open = registered
    /\ registered \subseteq {v \in Viewers : viewer[v] \in {"loop", "send", "unsubscribe"}}

\* No send on a closed channel, no second close of one, no channel forgotten.
ChannelsSafe == NoSendOnClosedChannel /\ OpenIffRegistered

\* Close makes every handler that has subscribed return, also the ones that
\* were waiting for the lock, unless its client has stopped reading for good:
\* GracefulStop does not wait for healthy viewers.  Close needs the write lock, so
\* this is lost as well if a Broadcast waits for a viewer that does not read.
CloseEndsViewers ==
    \A v \in Viewers : (closing # "no" /\ viewer[v] # "out")
                       ~> (viewer[v] = "ended" \/ [](viewer[v] = "send"))


=============================================================================
