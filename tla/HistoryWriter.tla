--------------------------- MODULE HistoryWriter ----------------------------
(***************************************************************************)
(* The history writer (internal/geofence/history.go): telemetry messages   *)
(* are collected into a batch, which is saved and then acknowledged when   *)
(* it is full, when the ticker fires and when the process stops.           *)
(*                                                                         *)
(* SaveHistoryBatch (internal/repository/postgres/zones.go) is one         *)
(* pipelined batch, which Postgres runs as a single transaction; an error  *)
(* may also come after the commit.  A row is known by its unique key,      *)
(* drone and time.                                                         *)
(***************************************************************************)
EXTENDS DurableConsumer

CONSTANTS
    RowOf,       \* the row key of a message
    Unreadable,  \* messages that do not decode
    BatchSize    \* batchSize

ASSUME HistoryAssumption ==
    /\ DOMAIN RowOf = Msgs /\ Unreadable \subseteq Msgs /\ BatchSize \in Nat \ {0}

VARIABLES
    batch,     \* messages collected since the last flush
    history    \* keys of the rows of telemetry_history

writerVars == <<streamVars, buffer, clock, batch, history>>

WriterInit == ConsumerInit /\ batch = <<>> /\ history = {}

Members(b) == {b[i] : i \in DOMAIN b}
Rows(S) == {RowOf[m] : m \in S}

\* Mutant: the batch is acknowledged whether it was saved or not.
FlushAcksAll(b) ==
    /\ history' \in {history, history \cup Rows(Members(b) \ Unreadable)}
    /\ Answer(Members(b), {})

\* Mutant: a batch that could not be saved is terminated.
FlushDrops(b) ==
    /\ history' \in {history, history \cup Rows(Members(b) \ Unreadable)}
    /\ settled' = settled \cup Members(b)
    /\ UNCHANGED <<published, deliveries, dueAt>>

\* flush: unreadable messages are terminated, the others saved together and
\* acknowledged, or asked for again after an error.
Flush(b) ==
    LET valid == Members(b) \ Unreadable IN
    \/ /\ history' = history \cup Rows(valid)
       /\ Answer(Members(b), {})
    \/ /\ valid # {}
       /\ history' \in {history, history \cup Rows(valid)}
       /\ Answer(Members(b) \cap Unreadable, valid)

\* Mutant: the batch is allowed one message too many.
CollectLate ==
    /\ buffer # <<>>
    /\ Len(batch) < BatchSize
    /\ batch' = Append(batch, Head(buffer))
    /\ buffer' = Tail(buffer)
    /\ UNCHANGED <<streamVars, clock, history>>

\* A message joins the batch.
Collect ==
    /\ buffer # <<>>
    /\ Len(batch) + 1 < BatchSize
    /\ batch' = Append(batch, Head(buffer))
    /\ buffer' = Tail(buffer)
    /\ UNCHANGED <<streamVars, clock, history>>

\* A message fills the batch, which is flushed.
CollectLast ==
    /\ buffer # <<>>
    /\ Len(batch) + 1 >= BatchSize
    /\ Flush(Append(batch, Head(buffer)))
    /\ batch' = <<>>
    /\ buffer' = Tail(buffer)
    /\ UNCHANGED clock

\* The flush ticker fires.
FlushTick ==
    /\ batch # <<>>
    /\ Flush(batch)
    /\ batch' = <<>>
    /\ UNCHANGED <<buffer, clock>>

\* The context is done: the last batch is flushed, the rest of the buffer lost.
StopWriter ==
    /\ IF batch = <<>> THEN UNCHANGED <<streamVars, history>> ELSE Flush(batch)
    /\ batch' = <<>> /\ buffer' = <<>>
    /\ UNCHANGED clock

\* The process dies: batch and buffer are lost.
CrashWriter ==
    /\ batch' = <<>> /\ buffer' = <<>>
    /\ UNCHANGED <<streamVars, clock, history>>

FromStream(A) == A /\ UNCHANGED <<batch, history>>
WriterStep == Collect \/ CollectLast \/ FlushTick

=============================================================================
