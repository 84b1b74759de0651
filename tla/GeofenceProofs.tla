--------------------------- MODULE GeofenceProofs ---------------------------
(***************************************************************************)
(* Proofs about what a geofence process stores: the history writer and the *)
(* breach journal over their durable consumers, for every number of        *)
(* messages, batch size, delivery limit and delay.                         *)
(***************************************************************************)
EXTENDS Geofence, TLAPS

\* A message taken from a client's buffer is one of the stream, and so is the rest.
LEMMA BufferTaken ==
    ASSUME NEW S, NEW s \in Seq(S), s # <<>>
    PROVE  Head(s) \in S /\ Tail(s) \in Seq(S)
  OBVIOUS

\* What a batch holds are messages.
LEMMA MembersAreMsgs ==
    ASSUME NEW b \in Seq(Msgs)
    PROVE  Members(b) \subseteq Msgs
  BY DEF Members

\* history.go, flush: whatever Answer reports, what it acknowledges has been saved.
LEMMA FlushStores ==
    ASSUME ConsumerTypeOK, history \subseteq Rows(Msgs \ Unreadable), AckedIsStored,
           NEW b \in Seq(Msgs), Flush(b)
    PROVE  /\ settled' \subseteq Msgs /\ dueAt' \in [Msgs -> Nat]
           /\ UNCHANGED <<published, deliveries>>
           /\ history' \subseteq Rows(Msgs \ Unreadable)
           /\ \A m \in settled' \ Unreadable : RowOf[m] \in history'
  <1> DEFINE valid == Members(b) \ Unreadable
  <1>1. Members(b) \subseteq Msgs
    BY MembersAreMsgs
  <1>2. \A m \in settled \ Unreadable : RowOf[m] \in history
    BY DEF AckedIsStored
  <1>3. \A m \in valid : RowOf[m] \in Rows(valid)
    BY DEF Rows
  <1>4. Rows(valid) \subseteq Rows(Msgs \ Unreadable)
    BY <1>1 DEF Rows
  <1>5. ASSUME NEW done \in SUBSET Msgs, NEW again, Answer(done, again)
        PROVE  /\ \E arrived \in SUBSET done : settled' = settled \cup arrived
               /\ dueAt' \in [Msgs -> Nat] /\ UNCHANGED <<published, deliveries>>
    <2>1. PICK arrived \in SUBSET again :
             dueAt' = [m \in Msgs |-> IF m \in arrived THEN clock + NakDelay ELSE dueAt[m]]
      BY <1>5 DEF Answer
    <2>2. clock + NakDelay \in Nat
      BY ConsumerAssumption DEF ConsumerTypeOK
    <2>3. dueAt' \in [Msgs -> Nat]
      BY <2>1, <2>2 DEF ConsumerTypeOK
    <2> QED
      BY <1>5, <2>3 DEF Answer
  <1>6. CASE history' = history \cup Rows(valid) /\ Answer(Members(b), {})
    <2>1. PICK arrived \in SUBSET Members(b) : settled' = settled \cup arrived
      BY <1>1, <1>5, <1>6
    <2> QED
      BY <1>1, <1>2, <1>3, <1>4, <1>5, <1>6, <2>1 DEF ConsumerTypeOK
  <1>7. CASE /\ history' \in {history, history \cup Rows(valid)}
             /\ Answer(Members(b) \cap Unreadable, valid)
    <2>1. Members(b) \cap Unreadable \in SUBSET Msgs
      BY <1>1
    <2>2. PICK arrived \in SUBSET (Members(b) \cap Unreadable) : settled' = settled \cup arrived
      BY <1>5, <1>7, <2>1
    <2>3. dueAt' \in [Msgs -> Nat] /\ UNCHANGED <<published, deliveries>>
      BY <1>5, <1>7, <2>1
    <2> QED
      BY <1>1, <1>2, <1>4, <1>7, <2>2, <2>3 DEF ConsumerTypeOK
  <1> QED
    BY <1>6, <1>7 DEF Flush

\* No message is in either stream.
LEMMA InitInv == Init => TypeOK /\ AckedIsStored
  <1> SUFFICES ASSUME Init PROVE TypeOK /\ AckedIsStored
    OBVIOUS
  <1> USE ConsumerAssumption, HistoryAssumption, GeofenceAssumption
      DEF Init, WriterInit, ConsumerInit, J!JournalInit, J!ConsumerInit
  <1>1. ConsumerTypeOK
    BY DEF ConsumerTypeOK
  <1>2. J!ConsumerTypeOK
    BY DEF J!ConsumerTypeOK
  <1>3. batch \in Seq(Msgs) /\ Len(batch) < BatchSize
    OBVIOUS
  <1>4. rows \in [Alerts -> Statuses \cup {"none", "open"}]
    OBVIOUS
  <1> QED
    BY <1>1, <1>2, <1>3, <1>4 DEF TypeOK, AckedIsStored

\* The steps of the history writer: a batch is acknowledged only with its rows.
LEMMA HistoryInv ==
    ASSUME TypeOK, AckedIsStored,
           \/ \E m \in Msgs : History(FromStream(Publish(m))) \/ History(FromStream(Deliver(m)))
           \/ History(WriterStep)
    PROVE  TypeOK' /\ AckedIsStored'
  <1> USE ConsumerAssumption, HistoryAssumption DEF TypeOK
  <1>1. UNCHANGED <<journalVars, restarts>>
    BY DEF History
  <1>2. /\ J!ConsumerTypeOK' <=> clock' \in 0..MaxClock
        /\ \A a \in jSettled' : rows'[a] # "none"
    BY <1>1 DEF journalVars, J!ConsumerTypeOK, AckedIsStored
  <1>3. ASSUME NEW m \in Msgs, Publish(m), UNCHANGED <<batch, history>>
        PROVE  TypeOK' /\ AckedIsStored'
    <2>1. ConsumerTypeOK'
      BY <1>3 DEF Publish, ConsumerTypeOK
    <2> QED
      BY <1>1, <1>2, <1>3, <2>1 DEF Publish, ConsumerTypeOK, AckedIsStored, journalVars
  <1>4. ASSUME NEW m \in Msgs, Deliver(m), UNCHANGED <<batch, history>>
        PROVE  TypeOK' /\ AckedIsStored'
    <2>1. deliveries[m] + 1 \in 0..MaxDeliver /\ clock + AckWait \in Nat
          /\ Append(buffer, m) \in Seq(Msgs)
      BY <1>4 DEF Deliver, Deliverable, ConsumerTypeOK
    <2>2. ConsumerTypeOK'
      BY <1>4, <2>1 DEF Deliver, ConsumerTypeOK
    <2> QED
      BY <1>1, <1>2, <1>4, <2>2 DEF Deliver, ConsumerTypeOK, AckedIsStored, journalVars
  <1>5. ASSUME NEW b \in Seq(Msgs), Flush(b), batch' = <<>>, buffer' \in Seq(Msgs),
               UNCHANGED clock
        PROVE  TypeOK' /\ AckedIsStored'
    <2>1. /\ settled' \subseteq Msgs /\ dueAt' \in [Msgs -> Nat]
          /\ UNCHANGED <<published, deliveries>>
          /\ history' \subseteq Rows(Msgs \ Unreadable)
          /\ \A m \in settled' \ Unreadable : RowOf[m] \in history'
      BY <1>5, FlushStores
    <2>2. ConsumerTypeOK'
      BY <1>5, <2>1 DEF ConsumerTypeOK
    <2>3. batch' \in Seq(Msgs) /\ Len(batch') < BatchSize
      BY <1>5
    <2> QED
      BY <1>1, <1>2, <2>1, <2>2, <2>3 DEF ConsumerTypeOK, AckedIsStored, journalVars
  <1>6. buffer \in Seq(Msgs) /\ batch \in Seq(Msgs)
    BY DEF ConsumerTypeOK
  <1>7. CASE Collect
    <2>1. Head(buffer) \in Msgs /\ Tail(buffer) \in Seq(Msgs)
      BY <1>6, <1>7, BufferTaken DEF Collect
    <2>2. batch' \in Seq(Msgs) /\ Len(batch') < BatchSize
      BY <1>6, <1>7, <2>1 DEF Collect
    <2>3. ConsumerTypeOK'
      BY <1>7, <2>1 DEF Collect, ConsumerTypeOK, streamVars
    <2> QED
      BY <1>1, <1>2, <1>7, <2>2, <2>3
      DEF Collect, ConsumerTypeOK, AckedIsStored, journalVars, streamVars
  <1>8. CASE CollectLast
    <2>1. Head(buffer) \in Msgs /\ Tail(buffer) \in Seq(Msgs)
      BY <1>6, <1>8, BufferTaken DEF CollectLast
    <2>2. Append(batch, Head(buffer)) \in Seq(Msgs)
      BY <1>6, <2>1
    <2> QED
      BY <1>5, <1>8, <2>1, <2>2 DEF CollectLast
  <1>9. CASE FlushTick
    BY <1>5, <1>6, <1>9 DEF FlushTick
  <1> QED
    BY <1>3, <1>4, <1>7, <1>8, <1>9 DEF History, FromStream, WriterStep

\* The steps of the breach journal: an alert is settled only with its row, and a
\* row that is there is never taken away.
LEMMA JournalInv ==
    ASSUME TypeOK, AckedIsStored, NEW a \in Alerts,
           \/ Journal(J!RaiseAlert(a)) \/ Journal(J!DeliverAlert(a)) \/ Journal(J!Record(a))
           \/ \E s \in Statuses : Journal(J!SetBreachStatus(a, s))
    PROVE  TypeOK' /\ AckedIsStored'
  <1> USE ConsumerAssumption DEF TypeOK
  <1>1. UNCHANGED <<streamVars, buffer, batch, history, restarts>>
    BY DEF Journal
  <1>2. UNCHANGED clock
    BY DEF Journal, J!RaiseAlert, J!Publish, J!DeliverAlert, J!Deliver, J!Record,
           J!SetBreachStatus
  <1>3. /\ ConsumerTypeOK' /\ batch' \in Seq(Msgs) /\ Len(batch') < BatchSize
        /\ history' \subseteq Rows(Msgs \ Unreadable) /\ restarts' \in 0..MaxRestarts
        /\ \A m \in settled' \ Unreadable : RowOf[m] \in history'
    BY <1>1, <1>2 DEF ConsumerTypeOK, streamVars, AckedIsStored
  <1>4. CASE J!RaiseAlert(a)
    <2>1. J!ConsumerTypeOK'
      BY <1>4 DEF J!RaiseAlert, J!Publish, J!ConsumerTypeOK
    <2> QED
      BY <1>3, <1>4, <2>1 DEF J!RaiseAlert, J!Publish, AckedIsStored
  <1>5. CASE J!DeliverAlert(a)
    <2>1. jDeliveries[a] + 1 \in 0..MaxDeliver /\ clock + AckWait \in Nat
          /\ Append(jBuffer, a) \in Seq(Alerts)
      BY <1>5 DEF J!DeliverAlert, J!Deliver, J!Deliverable, J!ConsumerTypeOK
    <2>2. J!ConsumerTypeOK'
      BY <1>5, <2>1 DEF J!DeliverAlert, J!Deliver, J!ConsumerTypeOK
    <2> QED
      BY <1>3, <1>5, <2>2 DEF J!DeliverAlert, J!Deliver, AckedIsStored
  <1>6. CASE J!Record(a)
    <2>1. jBuffer' \in Seq(Alerts)
      BY <1>6, BufferTaken DEF J!Record, J!ConsumerTypeOK
    <2>2. /\ J!Inserted(a) \in [Alerts -> Statuses \cup {"none", "open"}]
          /\ J!Inserted(a)[a] # "none"
          /\ \A u \in Alerts : rows[u] # "none" => J!Inserted(a)[u] # "none"
      BY DEF J!Inserted
    <2>3. CASE rows' = J!Inserted(a) /\ J!Settle(a)
      <3>1. J!ConsumerTypeOK' /\ jSettled' \subseteq jSettled \cup {a}
        BY <1>6, <2>1, <2>3 DEF J!Record, J!Settle, J!ConsumerTypeOK
      <3>2. \A u \in jSettled' : rows'[u] # "none"
        BY <2>2, <2>3, <3>1 DEF AckedIsStored, J!ConsumerTypeOK
      <3> QED
        BY <1>3, <2>2, <2>3, <3>1, <3>2 DEF AckedIsStored
    <2>4. CASE rows' \in {rows, J!Inserted(a)} /\ J!Retry(a)
      <3>1. clock + NakDelay \in Nat
        BY DEF J!ConsumerTypeOK
      <3>2. J!ConsumerTypeOK' /\ jSettled' = jSettled
        BY <1>6, <2>1, <2>4, <3>1 DEF J!Record, J!Retry, J!ConsumerTypeOK
      <3>3. \A u \in jSettled' : rows'[u] # "none"
        BY <2>2, <2>4, <3>2 DEF AckedIsStored, J!ConsumerTypeOK
      <3> QED
        BY <1>3, <2>2, <2>4, <3>2, <3>3 DEF AckedIsStored
    <2> QED
      BY <1>6, <2>3, <2>4 DEF J!Record
  <1>7. ASSUME NEW s \in Statuses, J!SetBreachStatus(a, s)
        PROVE  TypeOK' /\ AckedIsStored'
    <2>1. J!ConsumerTypeOK'
      BY <1>7 DEF J!SetBreachStatus, J!streamVars, J!ConsumerTypeOK
    <2>2. rows' \in [Alerts -> Statuses \cup {"none", "open"}]
      BY <1>7 DEF J!SetBreachStatus
    <2>3. \A u \in jSettled' : rows'[u] # "none"
      BY <1>7 DEF J!SetBreachStatus, J!streamVars, AckedIsStored, J!ConsumerTypeOK, Statuses
    <2> QED
      BY <1>3, <2>1, <2>2, <2>3 DEF AckedIsStored
  <1> QED
    BY <1>4, <1>5, <1>6, <1>7 DEF Journal

\* A restart flushes the last batch or loses it; what is buffered was not answered.
LEMMA RestartInv ==
    ASSUME TypeOK, AckedIsStored, Restart
    PROVE  TypeOK' /\ AckedIsStored'
  <1> USE ConsumerAssumption, HistoryAssumption, GeofenceAssumption DEF TypeOK
  <1>1. /\ restarts' \in 0..MaxRestarts /\ batch' = <<>> /\ buffer' = <<>> /\ clock' = clock
        /\ jBuffer' = <<>> /\ UNCHANGED <<raised, jSettled, jDeliveries, jDueAt, rows>>
    BY DEF Restart, StopWriter, CrashWriter
  <1>2. /\ settled' \subseteq Msgs /\ dueAt' \in [Msgs -> Nat]
        /\ UNCHANGED <<published, deliveries>>
        /\ history' \subseteq Rows(Msgs \ Unreadable)
        /\ \A m \in settled' \ Unreadable : RowOf[m] \in history'
    <2>1. CASE Flush(batch)
      BY <2>1, FlushStores
    <2>2. CASE UNCHANGED <<streamVars, history>>
      BY <2>2 DEF streamVars, ConsumerTypeOK, AckedIsStored
    <2> QED
      BY <2>1, <2>2 DEF Restart, StopWriter, CrashWriter
  <1>3. ConsumerTypeOK'
    BY <1>1, <1>2 DEF ConsumerTypeOK
  <1>4. J!ConsumerTypeOK'
    BY <1>1 DEF J!ConsumerTypeOK
  <1>5. batch' \in Seq(Msgs) /\ Len(batch') < BatchSize
    BY <1>1
  <1> QED
    BY <1>1, <1>2, <1>3, <1>4, <1>5 DEF AckedIsStored

\* Every step of the process keeps the invariant.
LEMMA NextInv == TypeOK /\ AckedIsStored /\ [Next]_vars => (TypeOK /\ AckedIsStored)'
  <1> SUFFICES ASSUME TypeOK, AckedIsStored, [Next]_vars PROVE (TypeOK /\ AckedIsStored)'
    OBVIOUS
  <1>1. CASE UNCHANGED vars
    BY <1>1 DEF vars, writerVars, streamVars, journalVars, TypeOK, AckedIsStored,
                ConsumerTypeOK, J!ConsumerTypeOK
  <1> QED
    BY <1>1, HistoryInv, JournalInv, RestartInv DEF Next, Idle

\* history.go, journal.go, main.go: what a consumer has acknowledged is stored, whatever
\* saves fail, acks are lost, messages come again and processes are killed.
THEOREM NothingAckedIsLost == Spec => [](TypeOK /\ AckedIsStored)
  BY InitInv, NextInv, PTL DEF Spec

\* The variables of the worker's consumers keep their shapes.
THEOREM GeofenceTyped == Spec => []TypeOK
  BY NothingAckedIsLost, PTL

\* A step that touches the rows inserts with ON CONFLICT DO NOTHING or sets a status.
LEMMA NextKeepsStatus == TypeOK /\ [Next]_vars => [StatusKept]_vars
  <1> SUFFICES ASSUME TypeOK, Next PROVE StatusKept
    BY DEF vars
  <1> USE DEF TypeOK, StatusKept, Statuses
  <1>1. CASE UNCHANGED rows
    BY <1>1
  <1>2. ASSUME NEW a \in Alerts, J!Record(a) PROVE StatusKept
    BY <1>2 DEF J!Record, J!Inserted
  <1>3. ASSUME NEW a \in Alerts, NEW s \in Statuses, J!SetBreachStatus(a, s)
        PROVE  StatusKept
    BY <1>3 DEF J!SetBreachStatus
  <1> QED
    BY <1>1, <1>2, <1>3
    DEF Next, History, Journal, J!RaiseAlert, J!DeliverAlert, Restart, Idle, vars, journalVars

\* breaches.go: a breach an operator has settled is never open again, also when its
\* alert is delivered and inserted again.
THEOREM SettledBreachesStaySettled == Spec => NeverReopened
  BY NothingAckedIsLost, NextKeepsStatus, PTL DEF Spec, NeverReopened

=============================================================================
