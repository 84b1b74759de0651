---------------------------- MODULE ServerProofs ----------------------------
(***************************************************************************)
(* Proofs about the life of the server process: it implements the ingestor *)
(* and the hub it is composed of, so what is proved of the ingestor holds  *)
(* of the server, and the shutdown sequence of run builds on it.           *)
(***************************************************************************)
EXTENDS Server, IngestorProofs

-----------------------------------------------------------------------------
(* The server implements the ingestor.                                     *)

\* What the server does to the ingestor is a step of the ingestor or leaves it alone.
LEMMA IngestorSteps == [ServerNext]_serverVars => [Next]_vars
  <1> SUFFICES ASSUME [ServerNext]_serverVars PROVE [Next]_vars
    OBVIOUS
  <1>1. CASE IngestorStep
    BY <1>1 DEF IngestorStep, Next, WorkerStep
  <1>2. ASSUME NEW w \in Workers, PublishAsync(w) PROVE [Next]_vars
    BY <1>2 DEF PublishAsync, Next, WorkerStep
  <1>3. ASSUME NEW w \in Workers, CallBroadcast(w) \/ SendToViewer(w) \/ BroadcastReturn(w)
        PROVE  [Next]_vars
    BY <1>3 DEF CallBroadcast, SendToViewer, BroadcastReturn, Next, WorkerStep
  <1>4. CASE AsyncResult \/ Signal \/ Expire
    BY <1>4 DEF AsyncResult, Signal, Expire
  <1>5. ASSUME NEW v \in Viewers, Connect(v) \/ ViewerStep(v) PROVE [Next]_vars
    BY <1>5 DEF Connect, ViewerStep
  <1>6. CASE MainStep
    BY <1>6 DEF MainStep, HubClose, GracefulStop, ForceStop, IngestorClose, IngestorReturn,
                FlushAndExit, Next
  <1>7. CASE UNCHANGED serverVars
    BY <1>7 DEF serverVars
  <1> QED
    BY <1>1, <1>2, <1>3, <1>4, <1>5, <1>6, <1>7 DEF ServerNext, Exited

\* cmd/server/main.go composes the Ingestor with a hub, a publisher and a shutdown, and
\* everything it does is allowed by the Ingestor's own specification: all that is proved
\* of the ingestor holds in the server.
THEOREM ServerImplementsIngestor == ServerSpec => Spec
  <1>1. ServerInit => Init
    BY DEF ServerInit
  <1> QED
    BY <1>1, IngestorSteps, PTL DEF ServerSpec, Spec

-----------------------------------------------------------------------------
(* The shutdown of run.                                                    *)

\* Run has returned from ingestor.Shutdown when it flushes; before it exits in time,
\* every message accepted has been answered for; and nobody cancels the context that
\* the workers were started with.
ShutdownInv ==
    /\ main \in {"serve", "hubclose", "graceful", "shutdown", "flush", "exit"}
    /\ expired \in BOOLEAN /\ unacked \in Nat /\ asyncFailed \in Nat
    /\ ~cancelled
    /\ \A w \in Workers : worker[w] \in {"publish", "broadcast"} => holding[w] \in Samples
    /\ main \in {"flush", "exit"} => \E c \in Closers : closer[c] = "done"
    /\ unacked + asyncFailed <= published
    /\ main = "exit" /\ ~expired => unacked = 0

\* The server starts idle, with nothing sent.
LEMMA ShutdownInit == ServerInit => ShutdownInv
  <1> SUFFICES ASSUME ServerInit PROVE ShutdownInv
    OBVIOUS
  <1>1. \A w \in Workers : worker[w] = "select"
    BY DEF ServerInit, Init
  <1>2. ~cancelled /\ published = 0
    BY DEF ServerInit, Init
  <1>3. unacked \in Nat /\ asyncFailed \in Nat /\ unacked + asyncFailed <= published
    BY <1>2 DEF ServerInit
  <1>4. expired \in BOOLEAN /\ main = "serve"
    BY DEF ServerInit
  <1> QED
    BY <1>1, <1>2, <1>3, <1>4 DEF ShutdownInv

\* The ingestor's own steps do not touch the shutdown, count published samples up at
\* most, and put into a worker's hands what Submit enqueued.
LEMMA IngestorStepInv ==
    ASSUME TypeOK, ShutdownInv, IngestorStep
    PROVE  ShutdownInv'
  <1> USE DEF TypeOK, ShutdownInv, Running, hubVars, mainVars, ackVars, submitVars,
              workerVars, evictVars, counters, lifeVars
  <1>0. UNCHANGED <<main, expired, unacked, asyncFailed>> /\ main # "exit"
    BY DEF IngestorStep
  <1>1. ASSUME NEW s \in Streams,
               \/ StreamEnd(s) \/ SubmitRefused(s) \/ SubmitInvalid(s)
               \/ \E smp \in Samples : Submit(s, smp)
        PROVE  ShutdownInv'
    BY <1>0, <1>1 DEF StreamEnd, SubmitRefused, SubmitInvalid, Submit
  <1>2. ASSUME NEW s \in Streams, SubmitStep(s) PROVE ShutdownInv'
    BY <1>0, <1>2 DEF SubmitStep, StoreLoad, StoreInsert, StoreSwap, Enqueue
  <1>3. ASSUME NEW w \in Workers, WorkerTake(w) PROVE ShutdownInv'
    <2>1. Head(queue) \in Samples
      BY <1>3 DEF WorkerTake
    <2> QED
      BY <1>0, <1>3, <2>1 DEF WorkerTake
  <1>4. ASSUME NEW w \in Workers, PublishFailed(w) \/ WorkerExit(w) PROVE ShutdownInv'
    BY <1>0, <1>4 DEF PublishFailed, WorkerExit
  <1>5. CASE EvictTick \/ EvictScan \/ EvictExit \/ Advance
    BY <1>0, <1>5 DEF EvictTick, EvictScan, EvictVisit, EvictDelete, EvictScanned, EvictExit,
                      Advance
  <1> QED
    BY <1>1, <1>2, <1>3, <1>4, <1>5 DEF IngestorStep

\* The publisher and the hub: a message counts as published when it counts as unacked.
LEMMA PartsStepInv ==
    ASSUME TypeOK, ShutdownInv,
           \/ \E w \in Workers :
                PublishAsync(w) \/ CallBroadcast(w) \/ SendToViewer(w) \/ BroadcastReturn(w)
           \/ AsyncResult
           \/ \E v \in Viewers : Connect(v) \/ ViewerStep(v)
    PROVE  ShutdownInv'
  <1> USE DEF TypeOK, ShutdownInv, Running, mainVars, ackVars, submitVars, workerVars,
              evictVars, counters, lifeVars, vars
  <1>1. ASSUME NEW w \in Workers, PublishAsync(w) PROVE ShutdownInv'
    BY <1>1 DEF PublishAsync, PublishOK
  <1>2. ASSUME NEW w \in Workers, CallBroadcast(w) \/ SendToViewer(w) \/ BroadcastReturn(w)
        PROVE  ShutdownInv'
    <2>1. CASE Broadcasted(w) /\ UNCHANGED <<mainVars, ackVars>>
      BY <2>1 DEF Broadcasted
    <2>2. CASE UNCHANGED <<vars, mainVars, ackVars>>
      BY <2>2
    <2> QED
      BY <1>2, <2>1, <2>2 DEF CallBroadcast, SendToViewer, BroadcastReturn
  <1>3. CASE AsyncResult
    <2>1. /\ unacked' = unacked - 1 /\ unacked > 0
          /\ asyncFailed' = asyncFailed \/ asyncFailed' = asyncFailed + 1
          /\ UNCHANGED <<vars, main, expired>>
      BY <1>3 DEF AsyncResult
    <2>2. unacked \in Nat /\ asyncFailed \in Nat /\ published \in Nat
      OBVIOUS
    <2>3. /\ unacked' \in Nat /\ asyncFailed' \in Nat
          /\ unacked' + asyncFailed' <= published'
      BY <2>1, <2>2
    <2>4. main' # "exit" /\ main' = main /\ closer' = closer /\ expired' = expired
          /\ cancelled' = cancelled /\ worker' = worker /\ holding' = holding
      BY <1>3, <2>1 DEF AsyncResult
    <2> QED
      BY <2>3, <2>4
  <1>4. ASSUME NEW v \in Viewers, Connect(v) \/ ViewerStep(v) PROVE ShutdownInv'
    BY <1>4 DEF Connect, ViewerStep
  <1> QED
    BY <1>1, <1>2, <1>3, <1>4

\* The sequence of run, step by step.
LEMMA MainStepInv ==
    ASSUME TypeOK, ShutdownInv, Signal \/ Expire \/ MainStep
    PROVE  ShutdownInv'
  <1> USE DEF TypeOK, ShutdownInv, ackVars, mainVars, submitVars, workerVars, evictVars,
              counters, lifeVars, vars
  <1>1. CASE Signal \/ HubClose
    BY <1>1 DEF Signal, HubClose
  <1>6. CASE Expire
    BY <1>6 DEF Expire
  <1>2. CASE GracefulStop \/ ForceStop
    BY <1>2 DEF GracefulStop, ForceStop, ShutdownLock
  <1>3. CASE IngestorClose
    BY <1>3 DEF IngestorClose, ShutdownClose
  <1>4. CASE IngestorReturn
    <2>1. PICK c \in Closers : ShutdownReturn(c)
      BY <1>4 DEF IngestorReturn
    <2>2. closer'[c] = "done"
      BY <2>1 DEF ShutdownReturn
    <2> QED
      BY <1>4, <2>1, <2>2 DEF IngestorReturn, ShutdownReturn
  <1>5. CASE FlushAndExit
    BY <1>5 DEF FlushAndExit
  <1> QED
    BY <1>1, <1>2, <1>3, <1>4, <1>5, <1>6 DEF MainStep

\* Every step of the server keeps the invariant of the shutdown.
LEMMA ShutdownNext == TypeOK /\ ShutdownInv /\ [ServerNext]_serverVars => ShutdownInv'
  <1>1. ASSUME ShutdownInv, UNCHANGED serverVars PROVE ShutdownInv'
    BY <1>1 DEF ShutdownInv, serverVars, vars, mainVars, ackVars, workerVars, lifeVars, counters
  <1> QED
    BY <1>1, IngestorStepInv, PartsStepInv, MainStepInv DEF ServerNext, Exited

\* The server keeps the ingestor's inductive invariant together with its own.
THEOREM ShutdownInvHolds == ServerSpec => [](IngestorInv /\ ShutdownInv)
  <1>1. IngestorInv => TypeOK
    BY DEF IngestorInv
  <1> QED
    BY <1>1, ShutdownInit, ShutdownNext, ServerImplementsIngestor, IngestorInvariant, PTL
    DEF ServerSpec

\* Once Shutdown has returned, the ingestor is closed, drained and idle.
LEMMA ShutDownIsEmpty ==
    ASSUME IngestorInv, ShutdownInv, main \in {"flush", "exit"}
    PROVE  /\ Readers = {} /\ queue = <<>> /\ Publishing = {}
           /\ received = rejected + dropped + published + failed
  <1>1. PICK c \in Closers : closer[c] = "done"
    BY DEF ShutdownInv
  <1>2. closed /\ \A w \in Workers : worker[w] = "exited"
    BY <1>1 DEF IngestorInv, ExitInv
  <1>3. queue = <<>>
    BY <1>2, IngestorAssumption DEF IngestorInv, ExitInv, ShutdownInv
  <1>4. Readers = {} /\ Publishing = {}
    BY <1>2 DEF IngestorInv, NoSendOnClosedQueue, Publishing
  <1>5. Cardinality(Readers) = 0 /\ Cardinality(Publishing) = 0 /\ Len(queue) = 0
    BY <1>3, <1>4, FS_EmptySet
  <1> QED
    BY <1>3, <1>4, <1>5 DEF IngestorInv, Accounting, TypeOK

\* main.go: a shutdown that meets its ten seconds leaves no sample behind, neither in a
\* handler, the queue or a worker, nor unanswered by JetStream.
THEOREM ShutdownLosesNothing == ServerSpec => []DrainedUnlessExpired
  <1>1. IngestorInv /\ ShutdownInv => DrainedUnlessExpired
    BY ShutDownIsEmpty DEF ShutdownInv, DrainedUnlessExpired
  <1> QED
    BY <1>1, ShutdownInvHolds, PTL

\* main.go: the statistics it logs at its end add up, also when Stop was forced.
THEOREM FinalTotalsAddUp == ServerSpec => []ExitTotals
  <1>1. IngestorInv /\ ShutdownInv => ExitTotals
    BY ShutDownIsEmpty DEF ShutdownInv, ExitTotals
  <1> QED
    BY <1>1, ShutdownInvHolds, PTL

-----------------------------------------------------------------------------
(* The server implements the hub.                                          *)

\* What the server does to the hub is a step of the hub or leaves it alone: a worker
\* broadcasts the sample it holds.
LEMMA HubSteps == ShutdownInv /\ [ServerNext]_serverVars => [H!HubNext]_(H!hubVars)
  <1> SUFFICES ASSUME ShutdownInv, [ServerNext]_serverVars PROVE [H!HubNext]_(H!hubVars)
    OBVIOUS
  <1>1. CASE UNCHANGED hubVars
    BY <1>1 DEF hubVars, H!hubVars
  <1>2. CASE IngestorStep \/ AsyncResult \/ Expire
    BY <1>1, <1>2 DEF IngestorStep, AsyncResult, Expire
  <1>3. ASSUME NEW w \in Workers, PublishAsync(w) PROVE [H!HubNext]_(H!hubVars)
    BY <1>1, <1>3 DEF PublishAsync
  <1>4. ASSUME NEW w \in Workers, CallBroadcast(w) PROVE [H!HubNext]_(H!hubVars)
    <2>1. holding[w] \in Samples /\ H!BroadcastStart(w, holding[w])
      BY <1>4 DEF CallBroadcast, ShutdownInv
    <2> QED
      BY <2>1 DEF H!HubNext
  <1>5. ASSUME NEW w \in Workers, SendToViewer(w) \/ BroadcastReturn(w)
        PROVE  [H!HubNext]_(H!hubVars)
    BY <1>5 DEF SendToViewer, BroadcastReturn, H!HubNext, H!BroadcastStep
  <1>6. ASSUME NEW v \in Viewers, Connect(v) \/ ViewerStep(v) PROVE [H!HubNext]_(H!hubVars)
    BY <1>6 DEF Connect, ViewerStep, H!HubNext
  <1>7. CASE Signal \/ HubClose
    BY <1>7 DEF Signal, HubClose, H!HubNext
  <1>8. CASE GracefulStop \/ ForceStop \/ IngestorClose \/ IngestorReturn \/ FlushAndExit
    BY <1>1, <1>8 DEF GracefulStop, ForceStop, IngestorClose, IngestorReturn, FlushAndExit
  <1>9. CASE UNCHANGED serverVars
    BY <1>1, <1>9 DEF serverVars
  <1> QED
    BY <1>2, <1>3, <1>4, <1>5, <1>6, <1>7, <1>8, <1>9 DEF ServerNext, MainStep, Exited

\* main.go hands the hub to the ingestor's workers and to SubscribeTelemetry: everything
\* the server does with it is allowed by the hub's specification, with the workers as
\* broadcasters.
THEOREM ServerImplementsHub == ServerSpec => H!HubSpec
  <1>1. ServerInit => H!HubInit
    BY DEF ServerInit
  <1> QED
    BY <1>1, HubSteps, ShutdownInvHolds, PTL DEF ServerSpec, H!HubSpec

-----------------------------------------------------------------------------
(* The variables of the whole server.                                      *)

\* The hub of the server starts with the shapes of its variables.
LEMMA ServerHubInit == H!HubInit => H!HubTypeOK
  <1> SUFFICES ASSUME H!HubInit PROVE H!HubTypeOK
    OBVIOUS
  <1> USE DEF H!HubInit
  <1>1. chan \in [Viewers -> Seq(Samples)]
    OBVIOUS
  <1>2. /\ viewer \in [Viewers -> {"out", "subscribe", "loop", "send", "unsubscribe", "ended"}]
        /\ todo \in [Workers -> SUBSET Viewers]
        /\ payload \in [Workers -> Samples \cup {NoSample}]
    OBVIOUS
  <1> QED
    BY <1>1, <1>2 DEF H!HubTypeOK

\* The handlers of SubscribeTelemetry keep them.
LEMMA ViewerTypes ==
    ASSUME H!HubTypeOK, NEW v \in Viewers,
           H!SubscribeCall(v) \/ H!ViewerStep(v) \/ H!SendReturns(v) \/ H!Leave(v)
    PROVE  H!HubTypeOK'
  <1> USE DEF H!HubTypeOK
  <1>1. CASE H!SubscribeCall(v) \/ H!SendReturns(v) \/ H!Leave(v)
    BY <1>1 DEF H!SubscribeCall, H!SendReturns, H!Leave
  <1>2. CASE H!Subscribe(v)
    BY <1>2 DEF H!Subscribe
  <1>3. CASE H!Receive(v)
    <2>1. chan' \in [Viewers -> Seq(Samples)]
      BY <1>3 DEF H!Receive
    <2>2. viewer' \in [Viewers -> {"out", "subscribe", "loop", "send", "unsubscribe", "ended"}]
      BY <1>3 DEF H!Receive
    <2> QED
      BY <1>3, <2>1, <2>2 DEF H!Receive
  <1>4. CASE H!ReceiveClosed(v)
    BY <1>4 DEF H!ReceiveClosed
  <1>5. CASE H!Unsubscribe(v)
    BY <1>5 DEF H!Unsubscribe
  <1> QED
    BY <1>1, <1>2, <1>3, <1>4, <1>5 DEF H!ViewerStep

\* Broadcast and Close keep them.
LEMMA HubTypes == H!HubTypeOK /\ [H!HubNext]_(H!hubVars) => H!HubTypeOK'
  <1> SUFFICES ASSUME H!HubTypeOK, [H!HubNext]_(H!hubVars) PROVE H!HubTypeOK'
    OBVIOUS
  <1> USE DEF H!HubTypeOK
  <1>1. ASSUME NEW w \in Workers, NEW m \in Samples, H!BroadcastStart(w, m) PROVE H!HubTypeOK'
    <2>1. broadcasts' \in Nat
      BY <1>1 DEF H!BroadcastStart
    <2>2. todo' \in [Workers -> SUBSET Viewers] /\ payload' \in [Workers -> Samples \cup {NoSample}]
      BY <1>1 DEF H!BroadcastStart
    <2> QED
      BY <1>1, <2>1, <2>2 DEF H!BroadcastStart
  <1>2. ASSUME NEW w \in Workers, NEW v \in Viewers, H!BroadcastSend(w, v) PROVE H!HubTypeOK'
    <2>1. payload[w] \in Samples /\ chan[v] \in Seq(Samples)
      BY <1>2 DEF H!BroadcastSend
    <2>2. Append(chan[v], payload[w]) \in Seq(Samples)
      BY <2>1
    <2>3. chan' \in [Viewers -> Seq(Samples)]
      BY <1>2, <2>2 DEF H!BroadcastSend
    <2> QED
      BY <1>2, <2>3 DEF H!BroadcastSend
  <1>3. ASSUME NEW w \in Workers, H!BroadcastEnd(w) PROVE H!HubTypeOK'
    BY <1>3 DEF H!BroadcastEnd
  <1>4. CASE H!CloseCall
    BY <1>4 DEF H!CloseCall
  <1>5. CASE H!Close
    BY <1>5 DEF H!Close
  <1>6. CASE UNCHANGED H!hubVars
    BY <1>6 DEF H!hubVars
  <1> HIDE DEF H!HubTypeOK
  <1> QED
    BY <1>1, <1>2, <1>3, <1>4, <1>5, <1>6, ViewerTypes
    DEF H!HubNext, H!BroadcastStep, H!HubTerminated

\* The variables of the server, those of its ingestor and its hub included, keep their
\* types.
THEOREM ServerTyped == ServerSpec => []ServerTypeOK
  <1>1. H!HubSpec => []H!HubTypeOK
    BY ServerHubInit, HubTypes, PTL DEF H!HubSpec
  <1>2. IngestorInv /\ ShutdownInv /\ H!HubTypeOK => ServerTypeOK
    BY DEF IngestorInv, ShutdownInv, ServerTypeOK
  <1> QED
    BY <1>1, <1>2, ShutdownInvHolds, ServerImplementsHub, PTL

=============================================================================
