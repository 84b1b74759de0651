------------------------------ MODULE Geofence ------------------------------
(***************************************************************************)
(* What a geofence process stores (cmd/geofence/main.go, runConsumers):    *)
(* the history writer and the breach journal, each over its own durable    *)
(* consumer, with the process stopped, killed and started again.           *)
(*                                                                         *)
(* The clock stands still: with AckWait and NakDelay 0 an unanswered       *)
(* message may come again at any moment, which includes every real delay.  *)
(***************************************************************************)
EXTENDS HistoryWriter

CONSTANTS
    Alerts,       \* alerts of the stream drone.alerts
    MaxRestarts   \* bound on the restarts

ASSUME GeofenceAssumption == MaxRestarts \in Nat

VARIABLES raised, jSettled, jDeliveries, jDueAt, jBuffer, rows, restarts

J == INSTANCE BreachJournal WITH
       Msgs <- Alerts, published <- raised, settled <- jSettled,
       deliveries <- jDeliveries, dueAt <- jDueAt, buffer <- jBuffer

journalVars == <<raised, jSettled, jDeliveries, jDueAt, jBuffer, rows>>
vars == <<writerVars, journalVars, restarts>>

Init == WriterInit /\ J!JournalInit /\ restarts = 0

History(A) == A /\ UNCHANGED <<journalVars, restarts>>
Journal(A) == A /\ UNCHANGED <<streamVars, buffer, batch, history, restarts>>

\* The process ends, by a signal or a crash, and is started again.
Restart ==
    /\ restarts < MaxRestarts
    /\ restarts' = restarts + 1
    /\ StopWriter \/ CrashWriter
    /\ jBuffer' = <<>>
    /\ UNCHANGED <<raised, jSettled, jDeliveries, jDueAt, rows>>

Statuses == {"acknowledged", "resolved"}

\* Nothing is left to deliver, and the process waits.
Idle ==
    /\ StreamIdle /\ batch = <<>>
    /\ J!StreamIdle
    /\ UNCHANGED vars

Next ==
    \/ \E m \in Msgs : History(FromStream(Publish(m))) \/ History(FromStream(Deliver(m)))
    \/ History(WriterStep)
    \/ \E a \in Alerts :
         \/ Journal(J!RaiseAlert(a)) \/ Journal(J!DeliverAlert(a)) \/ Journal(J!Record(a))
         \/ \E s \in Statuses : Journal(J!SetBreachStatus(a, s))
    \/ Restart \/ Idle

Spec == Init /\ [][Next]_vars

\* JetStream delivers what is due, and callbacks and the flush ticker run.
\* Nothing has to be published, and no save has to succeed.
Fairness ==
    /\ \A m \in Msgs : WF_vars(History(FromStream(Deliver(m))))
    /\ WF_vars(History(Collect \/ CollectLast)) /\ WF_vars(History(FlushTick))
    /\ \A a \in Alerts : WF_vars(Journal(J!DeliverAlert(a))) /\ WF_vars(Journal(J!Record(a)))

FairSpec == Spec /\ Fairness

-----------------------------------------------------------------------------
(* Properties.                                                             *)

\* The shapes of the variables.
TypeOK ==
    /\ ConsumerTypeOK /\ J!ConsumerTypeOK
    /\ batch \in Seq(Msgs) /\ Len(batch) < BatchSize
    /\ history \subseteq Rows(Msgs \ Unreadable)
    /\ rows \in [Alerts -> Statuses \cup {"none", "open"}]
    /\ restarts \in 0..MaxRestarts

\* What a consumer acknowledged is in the database: a sample has its history
\* row and an alert its breach row.  No failed save, lost ack, redelivery or
\* restart between save and ack leaves a gap.
AckedIsStored ==
    /\ \A m \in settled \ Unreadable : RowOf[m] \in history
    /\ \A a \in jSettled : rows[a] # "none"

StatusKept == \A a \in Alerts : rows[a] \in Statuses => rows'[a] # "open"

\* A breach that an operator acknowledged or resolved is never open again,
\* although its alert may be delivered and inserted again.
NeverReopened == [][StatusKept]_vars

\* Every sample in the stream is stored unless MaxDeliver attempts were made,
\* although batches fill slowly, saves fail and the process restarts.
SamplesStored ==
    \A m \in Msgs \ Unreadable :
        (m \in published) ~> (RowOf[m] \in history \/ deliveries[m] = MaxDeliver)

=============================================================================
