--------------------------- MODULE IngestorProofs ---------------------------
(* Proofs about Ingestor, for every number of streams, workers and drones. *)
EXTENDS Ingestor, FiniteSetTheorems, TLAPS

\* The sets counted by Accounting are finite.
LEMMA CountedFinite ==
    ASSUME TypeOK
    PROVE  /\ IsFiniteSet(Readers) /\ Cardinality(Readers) \in Nat
           /\ IsFiniteSet(Publishing) /\ Cardinality(Publishing) \in Nat
  <1>1. Readers \in SUBSET Streams /\ Publishing \in SUBSET Workers
    BY DEF Readers, Publishing
  <1>2. IsFiniteSet(Readers) /\ IsFiniteSet(Publishing)
    BY <1>1, FS_Subset, IngestorAssumption
  <1> QED
    BY <1>2, FS_CardinalityType

\* Init establishes the type invariant.
LEMMA InitTypeOK == Init => TypeOK
  <1> SUFFICES ASSUME Init PROVE TypeOK
    OBVIOUS
  <1> USE IngestorAssumption DEF Init
  <1>1. stage \in [Streams -> InSubmit \cup {"idle", "ended"}]
    OBVIOUS
  <1>2. sample \in [Streams -> Samples \cup {NoSample}]
    OBVIOUS
  <1>3. storedAt \in [Streams -> 0..MaxClock] /\ clock \in 0..MaxClock
    OBVIOUS
  <1>4. seen \in [Streams -> Entries \cup {None}] /\ lastState \in [Drones -> Entries \cup {None}]
    OBVIOUS
  <1>5. queue \in Seq(Samples)
    OBVIOUS
  <1>6. holding \in [Workers -> Samples \cup {NoSample}]
    OBVIOUS
  <1>7. closed \in BOOLEAN /\ cancelled \in BOOLEAN
    OBVIOUS
  <1>8. worker \in [Workers -> {"select", "publish", "broadcast", "exited"}]
    OBVIOUS
  <1>9. closer \in [Closers -> {"idle", "lock", "wait", "done"}]
    OBVIOUS
  <1>10. evictor \in {"select", "scan", "exited"} \cup Drones /\ unvisited \subseteq Drones
    OBVIOUS
  <1>11. cutoff \in Int /\ received \in Nat /\ rejected \in Nat /\ dropped \in Nat
         /\ published \in Nat /\ failed \in Nat
    OBVIOUS
  <1> HIDE DEF Init
  <1> QED
    BY <1>1, <1>2, <1>3, <1>4, <1>5, <1>6, <1>7, <1>8, <1>9, <1>10, <1>11 DEF TypeOK

\* Every action keeps the types.
LEMMA NextTypeOK == TypeOK /\ SubmitInv /\ [Next]_vars => TypeOK'
  <1> SUFFICES ASSUME TypeOK, SubmitInv, [Next]_vars PROVE TypeOK'
    OBVIOUS
  <1> USE IngestorAssumption
      DEF TypeOK, submitVars, workerVars, evictVars, counters, lifeVars
  <1>1. ASSUME NEW s \in Streams, StreamEnd(s) PROVE TypeOK'
    BY <1>1 DEF StreamEnd
  <1>2. ASSUME NEW s \in Streams, SubmitRefused(s) PROVE TypeOK'
    BY <1>2 DEF SubmitRefused
  <1>3. ASSUME NEW s \in Streams, SubmitInvalid(s) PROVE TypeOK'
    BY <1>3 DEF SubmitInvalid
  <1>4. ASSUME NEW s \in Streams, NEW smp \in Samples, Submit(s, smp) PROVE TypeOK'
    BY <1>4 DEF Submit, InSubmit
  <1>5. ASSUME NEW s \in Streams, StoreLoad(s) PROVE TypeOK'
    BY <1>5 DEF StoreLoad, SubmitInv, InSubmit, Samples
  <1>6. ASSUME NEW s \in Streams, StoreInsert(s) PROVE TypeOK'
    <2>1. sample[s] \in Samples
      BY <1>6 DEF StoreInsert, SubmitInv, InSubmit
    <2>2. Entry(s) \in Entries
      BY <2>1 DEF Entry, Entries, Samples
    <2>3. lastState' \in [Drones -> Entries \cup {None}]
      <3>1. CASE lastState' = [lastState EXCEPT ![sample[s].drone] = Entry(s)]
        BY <2>2, <3>1
      <3>2. CASE UNCHANGED lastState
        BY <3>2
      <3> QED
        BY <1>6, <3>1, <3>2 DEF StoreInsert
    <2>4. stage' \in [Streams -> InSubmit \cup {"idle", "ended"}]
      BY <1>6 DEF StoreInsert, InSubmit
    <2> QED
      BY <1>6, <2>3, <2>4 DEF StoreInsert
  <1>7. ASSUME NEW s \in Streams, StoreSwap(s) PROVE TypeOK'
    <2>1. sample[s] \in Samples
      BY <1>7 DEF StoreSwap, SubmitInv, InSubmit
    <2>2. Entry(s) \in Entries
      BY <2>1 DEF Entry, Entries, Samples
    <2>3. lastState' \in [Drones -> Entries \cup {None}]
      <3>1. CASE lastState' = [lastState EXCEPT ![sample[s].drone] = Entry(s)]
        BY <2>2, <3>1
      <3>2. CASE UNCHANGED lastState
        BY <3>2
      <3> QED
        BY <1>7, <3>1, <3>2 DEF StoreSwap
    <2>4. stage' \in [Streams -> InSubmit \cup {"idle", "ended"}]
      BY <1>7 DEF StoreSwap, InSubmit
    <2> QED
      BY <1>7, <2>3, <2>4 DEF StoreSwap
  <1>8. ASSUME NEW s \in Streams, Enqueue(s) PROVE TypeOK'
    <2>1. sample[s] \in Samples
      BY <1>8 DEF Enqueue, SubmitInv, InSubmit
    <2>2. queue' \in Seq(Samples) /\ dropped' \in Nat
      <3>1. CASE queue' = Append(queue, sample[s]) /\ UNCHANGED dropped
        BY <2>1, <3>1
      <3>2. CASE dropped' = dropped + 1 /\ UNCHANGED queue
        BY <3>2
      <3> QED
        BY <1>8, <3>1, <3>2 DEF Enqueue
    <2>3. stage' \in [Streams -> InSubmit \cup {"idle", "ended"}]
      BY <1>8 DEF Enqueue
    <2>4. seen' \in [Streams -> Entries \cup {None}] /\ sample' \in [Streams -> Samples \cup {NoSample}]
      BY <1>8 DEF Enqueue
    <2>5. storedAt' \in [Streams -> 0..MaxClock]
      BY <1>8 DEF Enqueue
    <2> QED
      BY <1>8, <2>2, <2>3, <2>4, <2>5 DEF Enqueue
  <1>9. ASSUME NEW w \in Workers, WorkerTake(w) PROVE TypeOK'
    BY <1>9 DEF WorkerTake
  <1>10. ASSUME NEW w \in Workers, PublishFailed(w) PROVE TypeOK'
    BY <1>10 DEF PublishFailed
  <1>11. ASSUME NEW w \in Workers, PublishOK(w) PROVE TypeOK'
    BY <1>11 DEF PublishOK
  <1>12. ASSUME NEW w \in Workers, Broadcasted(w) PROVE TypeOK'
    BY <1>12 DEF Broadcasted
  <1>13. ASSUME NEW w \in Workers, WorkerExit(w) PROVE TypeOK'
    BY <1>13 DEF WorkerExit
  <1>14. CASE EvictTick
    BY <1>14 DEF EvictTick
  <1>15. ASSUME NEW d \in Drones, EvictVisit(d) PROVE TypeOK'
    BY <1>15 DEF EvictVisit
  <1>16. ASSUME NEW d \in Drones, EvictDelete(d) PROVE TypeOK'
    BY <1>16 DEF EvictDelete
  <1>17. CASE EvictScanned
    BY <1>17 DEF EvictScanned
  <1>18. CASE EvictExit
    BY <1>18 DEF EvictExit
  <1>19. ASSUME NEW c \in Closers, ShutdownLock(c) PROVE TypeOK'
    BY <1>19 DEF ShutdownLock
  <1>20. ASSUME NEW c \in Closers, ShutdownClose(c) PROVE TypeOK'
    BY <1>20 DEF ShutdownClose
  <1>21. ASSUME NEW c \in Closers, ShutdownReturn(c) PROVE TypeOK'
    BY <1>21 DEF ShutdownReturn
  <1>22. CASE Cancel
    BY <1>22 DEF Cancel
  <1>23. CASE Advance
    BY <1>23 DEF Advance
  <1>24. CASE UNCHANGED vars
    BY <1>24 DEF vars
  <1> QED
    BY <1>1, <1>2, <1>3, <1>4, <1>5, <1>6, <1>7, <1>8, <1>9, <1>10, <1>11, <1>12, <1>13, <1>14, <1>15, <1>16, <1>17, <1>18, <1>19, <1>20, <1>21, <1>22, <1>23, <1>24
    DEF Next, SubmitStep, WorkerStep, EvictScan, Terminated

\* The actions that leave the handlers' progress through Submit alone.
LEMMA OtherActions ==
    ASSUME [Next]_vars
    PROVE  \/ UNCHANGED submitVars
           \/ \E s \in Streams :
                \/ StreamEnd(s) \/ SubmitRefused(s) \/ SubmitStep(s)
                \/ \E smp \in Samples : Submit(s, smp)
  <1> USE DEF submitVars
  <1>1. ASSUME NEW s \in Streams, SubmitInvalid(s) PROVE UNCHANGED submitVars
    BY <1>1 DEF SubmitInvalid
  <1>2. ASSUME NEW w \in Workers, WorkerStep(w) PROVE UNCHANGED submitVars
    BY <1>2 DEF WorkerStep, WorkerTake, PublishFailed, PublishOK, Broadcasted, WorkerExit
  <1>3. CASE EvictTick \/ EvictScan \/ EvictExit
    BY <1>3 DEF EvictTick, EvictScan, EvictVisit, EvictDelete, EvictScanned, EvictExit
  <1>4. ASSUME NEW c \in Closers, ShutdownLock(c) \/ ShutdownClose(c) \/ ShutdownReturn(c)
        PROVE  UNCHANGED submitVars
    BY <1>4 DEF ShutdownLock, ShutdownClose, ShutdownReturn
  <1>5. CASE Cancel \/ Advance
    BY <1>5 DEF Cancel, Advance
  <1>6. CASE UNCHANGED vars
    BY <1>6 DEF vars
  <1> HIDE DEF submitVars
  <1> QED
    BY <1>1, <1>2, <1>3, <1>4, <1>5, <1>6 DEF Next, Terminated

\* A handler about to swap holds an entry older than its sample.
LEMMA NextSubmitInv == TypeOK /\ SubmitInv /\ [Next]_vars => SubmitInv'
  <1> SUFFICES ASSUME TypeOK, SubmitInv, [Next]_vars PROVE SubmitInv'
    OBVIOUS
  <1> USE DEF TypeOK, SubmitInv, InSubmit
  <1>1. CASE UNCHANGED submitVars
    BY <1>1 DEF submitVars
  <1>2. ASSUME NEW s \in Streams, StreamEnd(s) \/ SubmitRefused(s) PROVE SubmitInv'
    BY <1>2 DEF StreamEnd, SubmitRefused
  <1>3. ASSUME NEW s \in Streams, NEW smp \in Samples, Submit(s, smp) PROVE SubmitInv'
    BY <1>3 DEF Submit
  <1>4. ASSUME NEW s \in Streams, StoreLoad(s) PROVE SubmitInv'
    BY <1>4 DEF StoreLoad
  <1>5. ASSUME NEW s \in Streams, StoreInsert(s) PROVE SubmitInv'
    BY <1>5 DEF StoreInsert
  <1>6. ASSUME NEW s \in Streams, StoreSwap(s) PROVE SubmitInv'
    BY <1>6 DEF StoreSwap
  <1>7. ASSUME NEW s \in Streams, Enqueue(s) PROVE SubmitInv'
    BY <1>7 DEF Enqueue
  <1> QED
    BY <1>1, <1>2, <1>3, <1>4, <1>5, <1>6, <1>7, OtherActions DEF SubmitStep

\* Closing under the write lock: no handler is inside Submit afterwards.
LEMMA NextNoSend == TypeOK /\ NoSendOnClosedQueue /\ [Next]_vars => NoSendOnClosedQueue'
  <1> SUFFICES ASSUME TypeOK, NoSendOnClosedQueue, [Next]_vars, closed', NEW s \in Streams
               PROVE  stage'[s] \notin InSubmit
    BY DEF NoSendOnClosedQueue, Readers
  <1> USE DEF TypeOK, NoSendOnClosedQueue, Readers, InSubmit, lifeVars
  <1>1. CASE closed
    <2>1. \A t \in Streams : stage[t] \notin InSubmit
      BY <1>1
    <2>2. CASE UNCHANGED submitVars
      BY <2>1, <2>2 DEF submitVars
    <2>3. ASSUME NEW t \in Streams, StreamEnd(t) \/ SubmitRefused(t)
          PROVE  stage'[s] \notin InSubmit
      BY <2>1, <2>3 DEF StreamEnd, SubmitRefused
    <2>4. ASSUME NEW t \in Streams, NEW smp \in Samples PROVE ~Submit(t, smp)
      BY <1>1 DEF Submit
    <2>5. ASSUME NEW t \in Streams PROVE ~SubmitStep(t)
      BY <2>1 DEF SubmitStep, StoreLoad, StoreInsert, StoreSwap, Enqueue
    <2> QED
      BY <2>2, <2>3, <2>4, <2>5, OtherActions
  <1>2. CASE ~closed
    <2>1. PICK c \in Closers : ShutdownClose(c)
      <3>1. ASSUME NEW t \in Streams,
                   \/ StreamEnd(t) \/ SubmitRefused(t) \/ SubmitInvalid(t) \/ SubmitStep(t)
                   \/ \E smp \in Samples : Submit(t, smp)
            PROVE  FALSE
        BY <1>2, <3>1 DEF StreamEnd, SubmitRefused, SubmitInvalid, Submit, SubmitStep,
                          StoreLoad, StoreInsert, StoreSwap, Enqueue
      <3>2. ASSUME NEW w \in Workers, WorkerStep(w) PROVE FALSE
        BY <1>2, <3>2 DEF WorkerStep, WorkerTake, PublishFailed, PublishOK, Broadcasted,
                          WorkerExit
      <3>3. CASE EvictTick \/ EvictScan \/ EvictExit
        BY <1>2, <3>3 DEF EvictTick, EvictScan, EvictVisit, EvictDelete, EvictScanned, EvictExit
      <3>4. ASSUME NEW c \in Closers, ShutdownLock(c) \/ ShutdownReturn(c) PROVE FALSE
        BY <1>2, <3>4 DEF ShutdownLock, ShutdownReturn
      <3>5. CASE Cancel \/ Advance \/ UNCHANGED vars
        BY <1>2, <3>5 DEF Cancel, Advance, vars
      <3> QED
        BY <3>1, <3>2, <3>3, <3>4, <3>5 DEF Next, Terminated
    <2> QED
      BY <2>1 DEF ShutdownClose, submitVars
  <1> QED
    BY <1>1, <1>2

\* Workers and Shutdown calls leave only when they may.
LEMMA NextExitInv ==
    TypeOK /\ NoSendOnClosedQueue /\ ExitInv /\ [Next]_vars => ExitInv'
  <1> SUFFICES ASSUME TypeOK, NoSendOnClosedQueue, ExitInv, [Next]_vars PROVE ExitInv'
    OBVIOUS
  <1> USE DEF TypeOK, ExitInv, lifeVars, workerVars
  <1>1. ASSUME NEW s \in Streams,
               \/ StreamEnd(s) \/ SubmitRefused(s) \/ SubmitInvalid(s)
               \/ StoreLoad(s) \/ StoreInsert(s) \/ StoreSwap(s)
               \/ \E smp \in Samples : Submit(s, smp)
        PROVE  ExitInv'
    BY <1>1 DEF StreamEnd, SubmitRefused, SubmitInvalid, Submit, StoreLoad, StoreInsert, StoreSwap
  <1>2. ASSUME NEW s \in Streams, Enqueue(s) PROVE ExitInv'
    <2>1. ~closed
      BY <1>2 DEF Enqueue, NoSendOnClosedQueue, Readers, InSubmit
    <2> QED
      BY <1>2, <2>1 DEF Enqueue
  <1>3. ASSUME NEW w \in Workers, WorkerTake(w) PROVE ExitInv'
    BY <1>3 DEF WorkerTake
  <1>4. ASSUME NEW w \in Workers, PublishFailed(w) \/ PublishOK(w) \/ Broadcasted(w)
        PROVE  ExitInv'
    BY <1>4 DEF PublishFailed, PublishOK, Broadcasted
  <1>5. ASSUME NEW w \in Workers, WorkerExit(w) PROVE ExitInv'
    BY <1>5 DEF WorkerExit
  <1>6. CASE EvictTick \/ EvictScan \/ EvictExit \/ Advance
    BY <1>6 DEF EvictTick, EvictScan, EvictVisit, EvictDelete, EvictScanned, EvictExit, Advance
  <1>7. ASSUME NEW c \in Closers, ShutdownLock(c) \/ ShutdownReturn(c) PROVE ExitInv'
    BY <1>7 DEF ShutdownLock, ShutdownReturn
  <1>8. ASSUME NEW c \in Closers, ShutdownClose(c) PROVE ExitInv'
    BY <1>8 DEF ShutdownClose
  <1>9. CASE Cancel
    BY <1>9 DEF Cancel
  <1>10. CASE UNCHANGED vars
    BY <1>10 DEF vars
  <1> QED
    BY <1>1, <1>2, <1>3, <1>4, <1>5, <1>6, <1>7, <1>8, <1>9, <1>10
    DEF Next, SubmitStep, WorkerStep, Terminated

\* Each action moves a sample from one place of the account to another.
LEMMA NextAccounting == TypeOK /\ Accounting /\ [Next]_vars => Accounting'
  <1> SUFFICES ASSUME TypeOK, Accounting, [Next]_vars PROVE Accounting'
    OBVIOUS
  <1>0. /\ IsFiniteSet(Readers) /\ Cardinality(Readers) \in Nat
        /\ IsFiniteSet(Publishing) /\ Cardinality(Publishing) \in Nat
    BY CountedFinite
  <1> USE DEF TypeOK, Accounting, submitVars, workerVars, counters
  <1>1. ASSUME NEW s \in Streams, StreamEnd(s) \/ SubmitRefused(s) PROVE Accounting'
    <2>1. Readers' = Readers /\ Publishing' = Publishing
      BY <1>1 DEF StreamEnd, SubmitRefused, Readers, Publishing, InSubmit
    <2> QED
      BY <1>1, <2>1 DEF StreamEnd, SubmitRefused
  <1>2. ASSUME NEW s \in Streams, SubmitInvalid(s) PROVE Accounting'
    <2>1. Readers' = Readers /\ Publishing' = Publishing
      BY <1>2 DEF SubmitInvalid, Readers, Publishing
    <2> QED
      BY <1>0, <1>2, <2>1 DEF SubmitInvalid
  <1>3. ASSUME NEW s \in Streams, NEW smp \in Samples, Submit(s, smp) PROVE Accounting'
    <2>1. Readers' = Readers \cup {s} /\ s \notin Readers /\ Publishing' = Publishing
      BY <1>3 DEF Submit, Readers, Publishing, InSubmit
    <2>2. Cardinality(Readers') = Cardinality(Readers) + 1
      BY <1>0, <2>1, FS_AddElement
    <2> QED
      BY <1>0, <1>3, <2>1, <2>2 DEF Submit
  <1>4. ASSUME NEW s \in Streams, StoreLoad(s) \/ StoreInsert(s) \/ StoreSwap(s)
        PROVE  Accounting'
    <2>1. Readers' = Readers /\ Publishing' = Publishing
      BY <1>4 DEF StoreLoad, StoreInsert, StoreSwap, Readers, Publishing, InSubmit
    <2> QED
      BY <1>4, <2>1 DEF StoreLoad, StoreInsert, StoreSwap
  <1>5. ASSUME NEW s \in Streams, Enqueue(s) PROVE Accounting'
    <2>1. Readers' = Readers \ {s} /\ s \in Readers /\ Publishing' = Publishing
      BY <1>5 DEF Enqueue, Readers, Publishing, InSubmit
    <2>2. Cardinality(Readers') = Cardinality(Readers) - 1
      BY <1>0, <2>1, FS_RemoveElement
    <2>3. CASE queue' = Append(queue, sample[s]) /\ UNCHANGED dropped
      <3>1. Len(queue') = Len(queue) + 1 /\ Len(queue) \in Nat
        BY <2>3
      <3> QED
        BY <1>0, <1>5, <2>1, <2>2, <2>3, <3>1 DEF Enqueue
    <2>4. CASE dropped' = dropped + 1 /\ UNCHANGED queue
      BY <1>0, <1>5, <2>1, <2>2, <2>4 DEF Enqueue
    <2> QED
      BY <1>5, <2>3, <2>4 DEF Enqueue
  <1>6. ASSUME NEW w \in Workers, WorkerTake(w) PROVE Accounting'
    <2>1. Publishing' = Publishing \cup {w} /\ w \notin Publishing /\ Readers' = Readers
      BY <1>6 DEF WorkerTake, Readers, Publishing
    <2>2. Cardinality(Publishing') = Cardinality(Publishing) + 1
      BY <1>0, <2>1, FS_AddElement
    <2>3. Len(queue') = Len(queue) - 1 /\ Len(queue) \in Nat
      BY <1>6 DEF WorkerTake
    <2> QED
      BY <1>0, <1>6, <2>1, <2>2, <2>3 DEF WorkerTake
  <1>7. ASSUME NEW w \in Workers, PublishFailed(w) \/ PublishOK(w) PROVE Accounting'
    <2>1. Publishing' = Publishing \ {w} /\ w \in Publishing /\ Readers' = Readers
      BY <1>7 DEF PublishFailed, PublishOK, Readers, Publishing
    <2>2. Cardinality(Publishing') = Cardinality(Publishing) - 1
      BY <1>0, <2>1, FS_RemoveElement
    <2>3. CASE PublishFailed(w)
      BY <1>0, <2>1, <2>2, <2>3 DEF PublishFailed
    <2>4. CASE PublishOK(w)
      BY <1>0, <2>1, <2>2, <2>4 DEF PublishOK
    <2> QED
      BY <1>7, <2>3, <2>4
  <1>8. ASSUME NEW w \in Workers, Broadcasted(w) \/ WorkerExit(w) PROVE Accounting'
    <2>1. Publishing' = Publishing /\ Readers' = Readers
      BY <1>8 DEF Broadcasted, WorkerExit, Readers, Publishing
    <2> QED
      BY <1>8, <2>1 DEF Broadcasted, WorkerExit
  <1>9. CASE UNCHANGED <<stage, queue, worker, counters>>
    BY <1>9 DEF Readers, Publishing
  <1>10. CASE EvictTick \/ EvictScan \/ EvictExit \/ Cancel \/ Advance
    BY <1>9, <1>10 DEF EvictTick, EvictScan, EvictVisit, EvictDelete, EvictScanned,
                       EvictExit, Cancel, Advance
  <1>11. ASSUME NEW c \in Closers, ShutdownLock(c) \/ ShutdownClose(c) \/ ShutdownReturn(c)
         PROVE  Accounting'
    BY <1>9, <1>11 DEF ShutdownLock, ShutdownClose, ShutdownReturn
  <1>12. CASE UNCHANGED vars
    BY <1>9, <1>12 DEF vars
  <1> QED
    BY <1>1, <1>2, <1>3, <1>4, <1>5, <1>6, <1>7, <1>8, <1>10, <1>11, <1>12
    DEF Next, SubmitStep, WorkerStep, Terminated

-----------------------------------------------------------------------------

\* The ingestor keeps its inductive invariant.
THEOREM IngestorInvariant == Spec => []IngestorInv
  <1>1. Init => IngestorInv
    <2> SUFFICES ASSUME Init PROVE IngestorInv
      OBVIOUS
    <2>1. TypeOK
      BY InitTypeOK
    <2>2. SubmitInv /\ ExitInv /\ Readers = {} /\ Publishing = {}
      BY DEF Init, SubmitInv, ExitInv, Readers, Publishing, InSubmit
    <2>3. NoSendOnClosedQueue /\ Accounting
      BY <2>2, FS_EmptySet DEF Init, NoSendOnClosedQueue, Accounting
    <2> QED
      BY <2>1, <2>2, <2>3 DEF IngestorInv
  <1>2. IngestorInv /\ [Next]_vars => IngestorInv'
    BY NextTypeOK, NextSubmitInv, NextNoSend, NextExitInv, NextAccounting DEF IngestorInv
  <1> QED
    BY <1>1, <1>2, PTL DEF Spec

\* The variables keep their types.
THEOREM TypeCorrect == Spec => []TypeOK
  <1>1. IngestorInv => TypeOK
    BY DEF IngestorInv
  <1> QED
    BY <1>1, IngestorInvariant, PTL

\* Submit never sends on the closed queue, whatever the number of streams and
\* of Shutdown calls: the read lock keeps the close out.
THEOREM SendSafety == Spec => []NoSendOnClosedQueue
  <1>1. IngestorInv => NoSendOnClosedQueue
    BY DEF IngestorInv
  <1> QED
    BY <1>1, IngestorInvariant, PTL

\* The counters account for every received sample.
THEOREM EverySampleCounted == Spec => []Accounting
  <1>1. IngestorInv => Accounting
    BY DEF IngestorInv
  <1> QED
    BY <1>1, IngestorInvariant, PTL

\* Shutdown returns only when the queue is drained and everything is counted.
THEOREM ShutdownDrains == Spec => []DrainedOnReturn
  <1>1. IngestorInv => DrainedOnReturn
    <2> SUFFICES ASSUME IngestorInv, NEW c \in Closers, closer[c] = "done", ~cancelled
                 PROVE  queue = <<>> /\ received = rejected + dropped + published + failed
      BY DEF DrainedOnReturn
    <2>1. closed /\ \A w \in Workers : worker[w] = "exited"
      BY DEF IngestorInv, ExitInv
    <2>2. queue = <<>>
      BY <2>1, IngestorAssumption DEF IngestorInv, ExitInv
    <2>3. Readers = {} /\ Publishing = {}
      BY <2>1 DEF IngestorInv, NoSendOnClosedQueue, Publishing
    <2>4. Cardinality(Readers) = 0 /\ Cardinality(Publishing) = 0 /\ Len(queue) = 0
      BY <2>2, <2>3, FS_EmptySet
    <2> QED
      BY <2>2, <2>4 DEF IngestorInv, Accounting, TypeOK
  <1> QED
    BY <1>1, IngestorInvariant, PTL

\* No interleaving of Submit calls and of the evictor replaces the last known
\* state of a drone by an older sample.
THEOREM LastKnownNeverGoesBack == Spec => LastKnownMonotone
  <1>1. ASSUME IngestorInv, [Next]_vars, NEW d \in Drones,
               lastState[d] # None, lastState'[d] # None, lastState'[d] # lastState[d]
        PROVE  lastState'[d].ts > lastState[d].ts
    <2> USE <1>1 DEF IngestorInv, TypeOK, submitVars, workerVars, evictVars, counters, lifeVars
    <2>1. ASSUME NEW s \in Streams, StoreSwap(s) PROVE lastState'[d].ts > lastState[d].ts
      BY <2>1 DEF StoreSwap, SubmitInv, Entry, InSubmit
    <2>2. ASSUME NEW s \in Streams, StoreInsert(s) PROVE FALSE
      BY <2>2 DEF StoreInsert
    <2>3. ASSUME NEW e \in Drones, EvictDelete(e) PROVE FALSE
      BY <2>3 DEF EvictDelete
    <2>4. CASE UNCHANGED lastState
      BY <2>4
    <2>5. ASSUME NEW s \in Streams,
                 \/ StreamEnd(s) \/ SubmitRefused(s) \/ SubmitInvalid(s)
                 \/ StoreLoad(s) \/ Enqueue(s) \/ \E smp \in Samples : Submit(s, smp)
          PROVE  UNCHANGED lastState
      BY <2>5 DEF StreamEnd, SubmitRefused, SubmitInvalid, StoreLoad, Enqueue, Submit
    <2>6. ASSUME NEW w \in Workers, WorkerStep(w) PROVE UNCHANGED lastState
      BY <2>6 DEF WorkerStep, WorkerTake, PublishFailed, PublishOK, Broadcasted, WorkerExit
    <2>7. ASSUME NEW e \in Drones, EvictVisit(e) PROVE UNCHANGED lastState
      BY <2>7 DEF EvictVisit
    <2>8. ASSUME EvictTick \/ EvictScanned \/ EvictExit \/ Cancel \/ Advance \/ UNCHANGED vars
          PROVE  UNCHANGED lastState
      BY <2>8 DEF EvictTick, EvictScanned, EvictExit, Cancel, Advance, vars
    <2>9. ASSUME NEW c \in Closers, ShutdownLock(c) \/ ShutdownClose(c) \/ ShutdownReturn(c)
          PROVE  UNCHANGED lastState
      BY <2>9 DEF ShutdownLock, ShutdownClose, ShutdownReturn
    <2> QED
      BY <2>1, <2>2, <2>3, <2>4, <2>5, <2>6, <2>7, <2>8, <2>9
      DEF Next, SubmitStep, EvictScan, Terminated
  <1>2. IngestorInv /\ [Next]_vars => [LastKnownStep]_vars
    BY <1>1 DEF LastKnownStep
  <1> QED
    BY <1>2, IngestorInvariant, PTL DEF Spec, LastKnownMonotone

=============================================================================
