--------------------------- MODULE BreachJournal ----------------------------
(***************************************************************************)
(* The breach journal (internal/geofence/journal.go) over the durable      *)
(* consumer of drone.alerts that all replicas share, its table             *)
(* zone_breaches and the operators' status changes                         *)
(* (internal/repository/postgres/breaches.go).                             *)
(*                                                                         *)
(* An alert stands for its row's unique key: drone, zone, event and time.  *)
(* Two messages with one key differ from a redelivery in nothing the       *)
(* journal can see.  Every alert decodes: PublishAlert marshalled it.      *)
(***************************************************************************)
EXTENDS DurableConsumer

VARIABLE rows   \* status of the row of each alert, "none" when absent

journalVars == <<streamVars, buffer, clock, rows>>

JournalInit == ConsumerInit /\ rows = [a \in Msgs |-> "none"]

\* A zone checker publishes the alert.
RaiseAlert(a) == Publish(a) /\ UNCHANGED rows
DeliverAlert(a) == Deliver(a) /\ UNCHANGED rows

\* Mutant: the insert overwrites the row it meets.
UpsertedRow(a) == [rows EXCEPT ![a] = "open"]

\* INSERT ... ON CONFLICT DO NOTHING.
Inserted(a) == [rows EXCEPT ![a] = IF @ = "none" THEN "open" ELSE @]

\* record: saved and acknowledged, or an error (which may come after the row
\* was written) and a nak.
Record(a) ==
    /\ buffer # <<>> /\ a = Head(buffer)
    /\ buffer' = Tail(buffer)
    /\ \/ rows' = Inserted(a) /\ Settle(a)
       \/ rows' \in {rows, Inserted(a)} /\ Retry(a)
    /\ UNCHANGED clock

\* POST /breaches/{id}/ack and /resolve.
SetBreachStatus(a, status) ==
    /\ rows[a] # "none"
    /\ rows' = [rows EXCEPT ![a] = status]
    /\ UNCHANGED <<streamVars, buffer, clock>>

=============================================================================
