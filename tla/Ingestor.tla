------------------------------ MODULE Ingestor ------------------------------
(***************************************************************************)
(* The ingest pipeline of the server (internal/usecase/ingest.go) with the *)
(* gRPC stream handlers that feed it (internal/delivery/grpc/handler.go).  *)
(*                                                                         *)
(* A stream handler calls Submit for each message; Submit runs under the   *)
(* read side of i.mu, records the drone's last known state in a sync.Map   *)
(* with a compare-and-swap loop, and enqueues without blocking.  Workers   *)
(* take samples off the queue, publish and broadcast them.  A background   *)
(* loop evicts last-known entries older than stateTTL.  Shutdown closes    *)
(* the queue under the write side of i.mu and waits for the goroutines.    *)
(*                                                                         *)
(* Steps are split at every access to state shared between goroutines.     *)
(* Samples are reduced to the drone (after fusion) and the timestamp.      *)
(***************************************************************************)
EXTENDS Integers, Sequences, FiniteSets

CONSTANTS
    Streams,        \* gRPC ingest streams, one handler goroutine each
    Workers,        \* worker goroutines started by Start
    Closers,        \* goroutines that call Shutdown
    Drones,         \* drone identifiers the resolver can return
    MaxTimestamp,   \* bound: sample timestamps are 1..MaxTimestamp
    QueueSize,      \* capacity of the queue channel
    StateTTL,       \* stateTTL, in clock ticks
    MaxClock,       \* bound on the wall clock
    MaxReceived     \* bound on the samples accepted by Submit

ASSUME IngestorAssumption ==
    /\ IsFiniteSet(Streams) /\ IsFiniteSet(Workers) /\ Workers # {}
    /\ MaxTimestamp \in Nat /\ QueueSize \in Nat /\ StateTTL \in Nat
    /\ MaxClock \in Nat /\ MaxReceived \in Nat

VARIABLES
    stage,      \* where each stream handler stands inside Submit
    sample,     \* the sample each handler is submitting
    storedAt,   \* the time its lastEntry was built
    seen,       \* the map entry its CAS loop loaded
    queue,      \* buffered samples
    closed,     \* i.closed; the queue and done channels close with it
    worker,     \* where each worker goroutine stands
    holding,    \* the sample each worker took off the queue
    lastState,  \* the sync.Map drone -> lastEntry, None when absent
    evictor,    \* where the eviction goroutine stands
    cutoff,     \* the cutoff of the scan in progress
    unvisited,  \* keys the scan has not visited yet
    closer,     \* where each Shutdown call stands
    cancelled,  \* the context given to Start is done
    clock,      \* wall clock
    received, rejected, dropped, published, failed   \* the atomic counters

submitVars == <<stage, sample, storedAt, seen>>
workerVars == <<worker, holding>>
evictVars  == <<evictor, cutoff, unvisited>>
counters   == <<received, rejected, dropped, published, failed>>
lifeVars   == <<closed, closer, cancelled>>
vars == <<submitVars, queue, workerVars, lastState, evictVars, lifeVars, clock, counters>>

Samples  == [drone : Drones, ts : 1..MaxTimestamp]
NoSample == [drone |-> "none", ts |-> 0]
Entries  == [ts : 1..MaxTimestamp, storedAt : 0..MaxClock]
None     == [ts |-> 0, storedAt |-> -1]

\* The stages of a Submit call that holds the read lock.
InSubmit == {"load", "insert", "swap", "enqueue"}
Readers == {s \in Streams : stage[s] \in InSubmit}
\* The workers between taking a sample and counting it published or failed.
Publishing == {w \in Workers : worker[w] = "publish"}
\* A Shutdown call waiting in i.mu.Lock: Go's RWMutex then admits no new reader.
WriterWaiting == \E c \in Closers : closer[c] = "lock"

Init ==
    /\ stage = [s \in Streams |-> "idle"]
    /\ sample = [s \in Streams |-> NoSample]
    /\ storedAt = [s \in Streams |-> 0]
    /\ seen = [s \in Streams |-> None]
    /\ queue = <<>>
    /\ closed = FALSE
    /\ worker = [w \in Workers |-> "select"]
    /\ holding = [w \in Workers |-> NoSample]
    /\ lastState = [d \in Drones |-> None]
    /\ evictor = "select"
    /\ cutoff = 0
    /\ unvisited = {}
    /\ closer = [c \in Closers |-> "idle"]
    /\ cancelled = FALSE
    /\ clock = 0
    /\ received = 0 /\ rejected = 0 /\ dropped = 0 /\ published = 0 /\ failed = 0

-----------------------------------------------------------------------------
(* Stream handlers: StreamTelemetry and Submit.                            *)

\* A stream ends: EOF, a receive error, or a cancelled stream context.
StreamEnd(s) ==
    /\ stage[s] = "idle"
    /\ stage' = [stage EXCEPT ![s] = "ended"]
    /\ UNCHANGED <<sample, storedAt, seen, queue, workerVars, lastState, evictVars,
                   lifeVars, clock, counters>>

\* Submit finds i.closed and the handler returns Unavailable.
SubmitRefused(s) ==
    /\ stage[s] = "idle"
    /\ closed
    /\ stage' = [stage EXCEPT ![s] = "ended"]
    /\ UNCHANGED <<sample, storedAt, seen, queue, workerVars, lastState, evictVars,
                   lifeVars, clock, counters>>

\* Submit takes the read lock; the sample fails Validate and is rejected.
SubmitInvalid(s) ==
    /\ stage[s] = "idle"
    /\ ~closed /\ ~WriterWaiting
    /\ received < MaxReceived
    /\ received' = received + 1
    /\ rejected' = rejected + 1
    /\ UNCHANGED <<submitVars, queue, workerVars, lastState, evictVars, lifeVars,
                   clock, dropped, published, failed>>

\* Submit takes the read lock, accepts a valid sample, resolves its drone and
\* builds the lastEntry it wants to store.
Submit(s, smp) ==
    /\ stage[s] = "idle"
    /\ ~closed /\ ~WriterWaiting
    /\ received < MaxReceived
    /\ received' = received + 1
    /\ stage' = [stage EXCEPT ![s] = "load"]
    /\ sample' = [sample EXCEPT ![s] = smp]
    /\ storedAt' = [storedAt EXCEPT ![s] = clock]
    /\ UNCHANGED <<seen, queue, workerVars, lastState, evictVars, lifeVars, clock,
                   rejected, dropped, published, failed>>

\* storeLastKnown: lastState.Load and the comparison of timestamps.
StoreLoad(s) ==
    /\ stage[s] = "load"
    /\ LET current == lastState[sample[s].drone] IN
       /\ seen' = [seen EXCEPT ![s] = current]
       /\ stage' = [stage EXCEPT ![s] =
                      CASE current = None            -> "insert"
                        [] current # None
                           /\ sample[s].ts > current.ts -> "swap"
                        [] OTHER                     -> "enqueue"]
    /\ UNCHANGED <<sample, storedAt, queue, workerVars, lastState, evictVars,
                   lifeVars, clock, counters>>

Entry(s) == [ts |-> sample[s].ts, storedAt |-> storedAt[s]]

\* storeLastKnown: LoadOrStore stores only into an absent key.
StoreInsert(s) ==
    /\ stage[s] = "insert"
    /\ \/ /\ lastState[sample[s].drone] = None
          /\ lastState' = [lastState EXCEPT ![sample[s].drone] = Entry(s)]
          /\ stage' = [stage EXCEPT ![s] = "enqueue"]
       \/ /\ lastState[sample[s].drone] # None
          /\ stage' = [stage EXCEPT ![s] = "load"]
          /\ UNCHANGED lastState
    /\ UNCHANGED <<sample, storedAt, seen, queue, workerVars, evictVars, lifeVars,
                   clock, counters>>

\* Mutant: Store instead of CompareAndSwap.
StoreSwapUnchecked(s) ==
    /\ stage[s] = "swap"
    /\ lastState' = [lastState EXCEPT ![sample[s].drone] = Entry(s)]
    /\ stage' = [stage EXCEPT ![s] = "enqueue"]
    /\ UNCHANGED <<sample, storedAt, seen, queue, workerVars, evictVars, lifeVars,
                   clock, counters>>

\* storeLastKnown: CompareAndSwap against the entry that was loaded.
StoreSwap(s) ==
    /\ stage[s] = "swap"
    /\ \/ /\ lastState[sample[s].drone] = seen[s]
          /\ lastState' = [lastState EXCEPT ![sample[s].drone] = Entry(s)]
          /\ stage' = [stage EXCEPT ![s] = "enqueue"]
       \/ /\ lastState[sample[s].drone] # seen[s]
          /\ stage' = [stage EXCEPT ![s] = "load"]
          /\ UNCHANGED lastState
    /\ UNCHANGED <<sample, storedAt, seen, queue, workerVars, evictVars, lifeVars,
                   clock, counters>>

\* The non-blocking send that ends Submit; the read lock is released.
Enqueue(s) ==
    /\ stage[s] = "enqueue"
    /\ \/ /\ Len(queue) < QueueSize
          /\ queue' = Append(queue, sample[s])
          /\ UNCHANGED dropped
       \/ /\ Len(queue) >= QueueSize
          /\ dropped' = dropped + 1
          /\ UNCHANGED queue
    /\ stage' = [stage EXCEPT ![s] = "idle"]
    /\ sample' = [sample EXCEPT ![s] = NoSample]
    /\ storedAt' = [storedAt EXCEPT ![s] = 0]
    /\ seen' = [seen EXCEPT ![s] = None]
    /\ UNCHANGED <<workerVars, lastState, evictVars, lifeVars, clock, received,
                   rejected, published, failed>>

-----------------------------------------------------------------------------
(* Workers.                                                                *)

WorkerTake(w) ==
    /\ worker[w] = "select"
    /\ queue # <<>>
    /\ holding' = [holding EXCEPT ![w] = Head(queue)]
    /\ queue' = Tail(queue)
    /\ worker' = [worker EXCEPT ![w] = "publish"]
    /\ UNCHANGED <<submitVars, lastState, evictVars, lifeVars, clock, counters>>

\* Mutant: the error path forgets to count.
PublishFailedUncounted(w) ==
    /\ worker[w] = "publish"
    /\ worker' = [worker EXCEPT ![w] = "select"]
    /\ holding' = [holding EXCEPT ![w] = NoSample]
    /\ UNCHANGED <<submitVars, queue, lastState, evictVars, lifeVars, clock, counters>>

\* Publish returned an error: the sample is counted failed and given up.
PublishFailed(w) ==
    /\ worker[w] = "publish"
    /\ failed' = failed + 1
    /\ worker' = [worker EXCEPT ![w] = "select"]
    /\ holding' = [holding EXCEPT ![w] = NoSample]
    /\ UNCHANGED <<submitVars, queue, lastState, evictVars, lifeVars, clock,
                   received, rejected, dropped, published>>

\* Publish succeeded.
PublishOK(w) ==
    /\ worker[w] = "publish"
    /\ published' = published + 1
    /\ worker' = [worker EXCEPT ![w] = "broadcast"]
    /\ UNCHANGED <<holding, submitVars, queue, lastState, evictVars, lifeVars, clock,
                   received, rejected, dropped, failed>>

\* The broadcaster was called with the published sample and returned.
Broadcasted(w) ==
    /\ worker[w] = "broadcast"
    /\ worker' = [worker EXCEPT ![w] = "select"]
    /\ holding' = [holding EXCEPT ![w] = NoSample]
    /\ UNCHANGED <<submitVars, queue, lastState, evictVars, lifeVars, clock, counters>>

\* Mutant: the worker returns as soon as the ingestor is closed.
WorkerExitUndrained(w) ==
    /\ worker[w] = "select"
    /\ cancelled \/ closed
    /\ worker' = [worker EXCEPT ![w] = "exited"]
    /\ UNCHANGED <<holding, submitVars, queue, lastState, evictVars, lifeVars, clock,
                   counters>>

\* The worker returns: its context is done, or the queue is closed and empty.
WorkerExit(w) ==
    /\ worker[w] = "select"
    /\ cancelled \/ (closed /\ queue = <<>>)
    /\ worker' = [worker EXCEPT ![w] = "exited"]
    /\ UNCHANGED <<holding, submitVars, queue, lastState, evictVars, lifeVars, clock,
                   counters>>

-----------------------------------------------------------------------------
(* evictStaleState.                                                        *)

\* The ticker fires: the cutoff is fixed for the whole scan.
EvictTick ==
    /\ evictor = "select"
    /\ evictor' = "scan"
    /\ cutoff' = clock - StateTTL
    /\ unvisited' = Drones
    /\ UNCHANGED <<submitVars, queue, workerVars, lastState, lifeVars, clock, counters>>

\* Range reads one entry: an expired one is about to be deleted.
EvictVisit(d) ==
    /\ evictor = "scan"
    /\ d \in unvisited
    /\ unvisited' = unvisited \ {d}
    /\ evictor' = IF lastState[d] # None /\ lastState[d].storedAt < cutoff
                  THEN d ELSE "scan"
    /\ UNCHANGED <<cutoff, submitVars, queue, workerVars, lastState, lifeVars, clock,
                   counters>>

\* lastState.Delete(key) removes whatever the key holds by now.
EvictDelete(d) ==
    /\ evictor = d
    /\ lastState' = [lastState EXCEPT ![d] = None]
    /\ evictor' = "scan"
    /\ UNCHANGED <<cutoff, unvisited, submitVars, queue, workerVars, lifeVars, clock,
                   counters>>

EvictScanned ==
    /\ evictor = "scan"
    /\ unvisited = {}
    /\ evictor' = "select"
    /\ cutoff' = 0
    /\ UNCHANGED <<unvisited, submitVars, queue, workerVars, lastState, lifeVars,
                   clock, counters>>

\* Mutant: the select has no case for the done channel.
EvictExitOnCancel ==
    /\ evictor = "select"
    /\ cancelled
    /\ evictor' = "exited"
    /\ UNCHANGED <<cutoff, unvisited, submitVars, queue, workerVars, lastState,
                   lifeVars, clock, counters>>

\* The goroutine returns when its context or the done channel is done.
EvictExit ==
    /\ evictor = "select"
    /\ cancelled \/ closed
    /\ evictor' = "exited"
    /\ UNCHANGED <<cutoff, unvisited, submitVars, queue, workerVars, lastState,
                   lifeVars, clock, counters>>

-----------------------------------------------------------------------------
(* Shutdown and the environment.                                           *)

\* Shutdown reaches i.mu.Lock.
ShutdownLock(c) ==
    /\ closer[c] = "idle"
    /\ closer' = [closer EXCEPT ![c] = "lock"]
    /\ UNCHANGED <<submitVars, queue, workerVars, lastState, evictVars, closed,
                   cancelled, clock, counters>>

\* Mutant: the queue is closed without the write lock.
ShutdownCloseUnlocked(c) ==
    /\ closer[c] = "lock"
    /\ closed' = TRUE
    /\ closer' = [closer EXCEPT ![c] = "wait"]
    /\ UNCHANGED <<submitVars, queue, workerVars, lastState, evictVars, cancelled,
                   clock, counters>>

\* No reader is left: under the write lock the queue and done are closed once.
ShutdownClose(c) ==
    /\ closer[c] = "lock"
    /\ Readers = {}
    /\ closed' = TRUE
    /\ closer' = [closer EXCEPT ![c] = "wait"]
    /\ UNCHANGED <<submitVars, queue, workerVars, lastState, evictVars, cancelled,
                   clock, counters>>

\* Mutant: Shutdown does not wait for the goroutines.
ShutdownReturnEarly(c) ==
    /\ closer[c] = "wait"
    /\ closer' = [closer EXCEPT ![c] = "done"]
    /\ UNCHANGED <<submitVars, queue, workerVars, lastState, evictVars, closed,
                   cancelled, clock, counters>>

\* wg.Wait returns once every goroutine of Start has returned.
ShutdownReturn(c) ==
    /\ closer[c] = "wait"
    /\ \A w \in Workers : worker[w] = "exited"
    /\ evictor = "exited"
    /\ closer' = [closer EXCEPT ![c] = "done"]
    /\ UNCHANGED <<submitVars, queue, workerVars, lastState, evictVars, closed,
                   cancelled, clock, counters>>

\* The context given to Start is cancelled.
Cancel ==
    /\ ~cancelled
    /\ cancelled' = TRUE
    /\ UNCHANGED <<submitVars, queue, workerVars, lastState, evictVars, closed, closer,
                   clock, counters>>

Advance ==
    /\ clock < MaxClock
    /\ clock' = clock + 1
    /\ UNCHANGED <<submitVars, queue, workerVars, lastState, evictVars, lifeVars,
                   counters>>

\* Every goroutine has returned.
Terminated ==
    /\ \A c \in Closers : closer[c] = "done"
    /\ \A s \in Streams : stage[s] = "ended"
    /\ UNCHANGED vars

SubmitStep(s) == StoreLoad(s) \/ StoreInsert(s) \/ StoreSwap(s) \/ Enqueue(s)
WorkerStep(w) ==
    WorkerTake(w) \/ PublishFailed(w) \/ PublishOK(w) \/ Broadcasted(w) \/ WorkerExit(w)
EvictScan == (\E d \in Drones : EvictVisit(d) \/ EvictDelete(d)) \/ EvictScanned

Next ==
    \/ \E s \in Streams :
         \/ StreamEnd(s) \/ SubmitRefused(s) \/ SubmitInvalid(s)
         \/ \E smp \in Samples : Submit(s, smp)
         \/ SubmitStep(s)
    \/ \E w \in Workers : WorkerStep(w)
    \/ EvictTick \/ EvictScan \/ EvictExit
    \/ \E c \in Closers : ShutdownLock(c) \/ ShutdownClose(c) \/ ShutdownReturn(c)
    \/ Cancel \/ Advance \/ Terminated

Spec == Init /\ [][Next]_vars

\* Goroutines that can run do run.  The evictor's select chooses among ready
\* cases at random, so a closed done channel is eventually taken (strong fairness).
Fairness ==
    /\ \A s \in Streams : WF_vars(SubmitStep(s))
    /\ \A w \in Workers : WF_vars(WorkerStep(w))
    /\ WF_vars(EvictScan) /\ SF_vars(EvictExit)
    /\ \A c \in Closers : WF_vars(ShutdownClose(c)) /\ WF_vars(ShutdownReturn(c))

FairSpec == Spec /\ Fairness

-----------------------------------------------------------------------------
(* Properties.                                                             *)

\* The shapes of the variables.
TypeOK ==
    /\ stage \in [Streams -> InSubmit \cup {"idle", "ended"}]
    /\ sample \in [Streams -> Samples \cup {NoSample}]
    /\ storedAt \in [Streams -> 0..MaxClock]
    /\ seen \in [Streams -> Entries \cup {None}]
    /\ queue \in Seq(Samples)
    /\ closed \in BOOLEAN /\ cancelled \in BOOLEAN
    /\ worker \in [Workers -> {"select", "publish", "broadcast", "exited"}]
    /\ holding \in [Workers -> Samples \cup {NoSample}]
    /\ lastState \in [Drones -> Entries \cup {None}]
    /\ evictor \in {"select", "scan", "exited"} \cup Drones
    /\ cutoff \in Int /\ unvisited \subseteq Drones
    /\ closer \in [Closers -> {"idle", "lock", "wait", "done"}]
    /\ clock \in 0..MaxClock
    /\ received \in Nat /\ rejected \in Nat /\ dropped \in Nat
    /\ published \in Nat /\ failed \in Nat

\* No Submit is between its closed check and its send when the queue channel
\* is closed: sending on a closed channel would panic the server.
NoSendOnClosedQueue == closed => Readers = {}

\* Every sample Submit counted as received is accounted for exactly once:
\* rejected, dropped, published, failed, buffered, or in the hands of a
\* handler or of a worker.  This is what the /metrics counters rely on.
Accounting ==
    received = rejected + dropped + published + failed
               + Len(queue) + Cardinality(Readers) + Cardinality(Publishing)

\* When Shutdown has returned and the workers were not cancelled, the queue
\* was drained: nothing accepted is left unpublished without being counted.
DrainedOnReturn ==
    (\E c \in Closers : closer[c] = "done") /\ ~cancelled
        => /\ queue = <<>>
           /\ received = rejected + dropped + published + failed

\* The last known state of a drone is never replaced by an older or equally
\* old sample, whatever handlers and evictor interleave; only eviction, which
\* removes the entry, lets the timestamp go back.
LastKnownStep ==
    \A d \in Drones :
      lastState[d] # None /\ lastState'[d] # None /\ lastState'[d] # lastState[d]
        => lastState'[d].ts > lastState[d].ts

\* Every step is a LastKnownStep: concurrent CAS loops keep the newest sample.
LastKnownMonotone == [][LastKnownStep]_vars

\* Shutdown terminates: neither the lock nor the drain blocks it for ever.
ShutdownReturns == \A c \in Closers : (closer[c] = "lock") ~> (closer[c] = "done")

-----------------------------------------------------------------------------
(* What the safety properties rest on: the inductive invariant.            *)

\* A handler inside Submit has a sample; one about to swap holds an entry
\* that is older than its sample.
SubmitInv ==
    \A s \in Streams :
      /\ stage[s] \in InSubmit => sample[s] \in Samples
      /\ stage[s] = "swap" => seen[s] # None /\ sample[s].ts > seen[s].ts

\* A worker only leaves a live context when the queue is closed and drained,
\* and no Shutdown call gets past the lock, or returns, before it may.
ExitInv ==
    /\ \A w \in Workers : worker[w] = "exited" /\ ~cancelled => closed /\ queue = <<>>
    /\ \A c \in Closers : closer[c] \in {"wait", "done"} => closed
    /\ \A c \in Closers : closer[c] = "done" => \A w \in Workers : worker[w] = "exited"

\* The inductive invariant of the ingestor.
IngestorInv ==
    TypeOK /\ SubmitInv /\ NoSendOnClosedQueue /\ Accounting /\ ExitInv

=============================================================================
