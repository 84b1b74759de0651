------------------------------- MODULE Server -------------------------------
(***************************************************************************)
(* The life of the server process (cmd/server/main.go): the Ingestor, the  *)
(* Hub its workers broadcast to, the asynchronous JetStream publisher      *)
(* (internal/queue/natspub/publisher.go) and the shutdown sequence of run: *)
(* close the hub, stop gRPC gracefully or by force after ten seconds, shut *)
(* the ingestor down, flush the publisher, exit.                           *)
(*                                                                         *)
(* The process is gone once run has returned: nothing moves after that.    *)
(***************************************************************************)
EXTENDS Ingestor

CONSTANTS Viewers, BufferSize

VARIABLES
    viewer, registered, chan, open, hubClosed, closing, todo, payload,
    broadcasts, delivered, hubDropped,   \* the Hub
    main,       \* where run stands
    expired,    \* shutdownCtx is past its deadline
    unacked,    \* messages PublishMsgAsync accepted and JetStream has not acked
    asyncFailed \* publisher.failed

H == INSTANCE Hub WITH Broadcasters <- Workers, Payloads <- Samples, NoPayload <- NoSample,
                       MaxBroadcasts <- MaxReceived

hubVars == <<viewer, registered, chan, open, hubClosed, closing, todo, payload,
             broadcasts, delivered, hubDropped>>
mainVars == <<main, expired>>
ackVars  == <<unacked, asyncFailed>>
serverVars == <<vars, hubVars, mainVars, ackVars>>

ServerInit ==
    /\ Init
    /\ H!HubInit
    /\ main = "serve" /\ expired = FALSE
    /\ unacked = 0 /\ asyncFailed = 0

Running == main # "exit"

-----------------------------------------------------------------------------
(* The parts at work.                                                      *)

\* Handlers, workers and the evictor, in the steps that only touch the ingestor.
IngestorStep ==
    /\ Running
    /\ \/ \E s \in Streams :
            \/ StreamEnd(s) \/ SubmitRefused(s) \/ SubmitInvalid(s) \/ SubmitStep(s)
            \/ \E smp \in Samples : Submit(s, smp)
       \/ \E w \in Workers : WorkerTake(w) \/ PublishFailed(w) \/ WorkerExit(w)
       \/ EvictTick \/ EvictScan \/ EvictExit \/ Advance
    /\ UNCHANGED <<hubVars, mainVars, ackVars>>

\* PublishMsgAsync accepts a message: its ack is outstanding.
PublishAsync(w) ==
    /\ Running
    /\ PublishOK(w)
    /\ unacked' = unacked + 1
    /\ UNCHANGED <<hubVars, mainVars, asyncFailed>>

\* Mutant: an ack is counted twice.
AsyncResultTwice ==
    /\ Running
    /\ unacked > 0
    /\ unacked' = unacked - 2
    /\ asyncFailed' \in {asyncFailed, asyncFailed + 1}
    /\ UNCHANGED <<vars, hubVars, mainVars>>

\* JetStream acknowledges a message, or the error handler counts it failed.
AsyncResult ==
    /\ Running
    /\ unacked > 0
    /\ unacked' = unacked - 1
    /\ asyncFailed' \in {asyncFailed, asyncFailed + 1}
    /\ UNCHANGED <<vars, hubVars, mainVars>>

\* The worker calls Broadcast; on a closed hub the call returns at once.
CallBroadcast(w) ==
    /\ Running
    /\ worker[w] = "broadcast"
    /\ H!BroadcastStart(w, holding[w])
    /\ IF hubClosed THEN Broadcasted(w) ELSE UNCHANGED vars
    /\ UNCHANGED <<mainVars, ackVars>>

SendToViewer(w) ==
    /\ Running
    /\ \E v \in Viewers : H!BroadcastSend(w, v)
    /\ UNCHANGED <<vars, mainVars, ackVars>>

BroadcastReturn(w) ==
    /\ Running
    /\ H!BroadcastEnd(w)
    /\ Broadcasted(w)
    /\ UNCHANGED <<mainVars, ackVars>>

\* A viewer connects: gRPC accepts no new call once it is stopping.
Connect(v) ==
    /\ main \in {"serve", "hubclose"}
    /\ H!SubscribeCall(v)
    /\ UNCHANGED <<vars, mainVars, ackVars>>

ViewerStep(v) ==
    /\ Running
    /\ H!ViewerStep(v) \/ H!SendReturns(v) \/ H!Leave(v)
    /\ UNCHANGED <<vars, mainVars, ackVars>>

-----------------------------------------------------------------------------
(* The shutdown sequence of run.                                           *)

\* A signal, or a transport that stopped; shutdownCtx starts, hub.Close is called.
Signal ==
    /\ main = "serve"
    /\ main' = "hubclose"
    /\ H!CloseCall
    /\ UNCHANGED <<vars, expired, ackVars>>

HubClose ==
    /\ main = "hubclose"
    /\ H!Close
    /\ main' = "graceful"
    /\ UNCHANGED <<vars, expired, ackVars>>

\* The ten seconds of shutdownCtx are over.
Expire ==
    /\ main \notin {"serve", "exit"}
    /\ ~expired
    /\ expired' = TRUE
    /\ UNCHANGED <<vars, hubVars, main, ackVars>>

\* GracefulStop returns when every handler has returned.
GracefulStop ==
    /\ main = "graceful"
    /\ \A s \in Streams : stage[s] = "ended"
    /\ \A v \in Viewers : viewer[v] \in {"out", "ended"}
    /\ main' = "shutdown"
    /\ \E c \in Closers : ShutdownLock(c)
    /\ UNCHANGED <<hubVars, expired, ackVars>>

\* Mutant: run waits for GracefulStop alone.
ForceStopNever == FALSE /\ UNCHANGED serverVars

\* The deadline comes first: Stop cancels the handlers without waiting for them.
ForceStop ==
    /\ main = "graceful"
    /\ expired
    /\ main' = "shutdown"
    /\ \E c \in Closers : ShutdownLock(c)
    /\ UNCHANGED <<hubVars, expired, ackVars>>

\* ingestor.Shutdown closes the queue.
IngestorClose ==
    /\ main = "shutdown"
    /\ \E c \in Closers : ShutdownClose(c)
    /\ UNCHANGED <<hubVars, mainVars, ackVars>>

\* ingestor.Shutdown returns and Flush begins.
IngestorReturn ==
    /\ main = "shutdown"
    /\ \E c \in Closers : ShutdownReturn(c)
    /\ main' = "flush"
    /\ UNCHANGED <<hubVars, expired, ackVars>>

\* Mutant: run returns without waiting for the acks.
ExitWithoutFlush ==
    /\ main = "flush"
    /\ main' = "exit"
    /\ UNCHANGED <<vars, hubVars, expired, ackVars>>

\* Flush returns with every ack in, or because shutdownCtx is done; run returns.
FlushAndExit ==
    /\ main = "flush"
    /\ unacked = 0 \/ expired
    /\ main' = "exit"
    /\ UNCHANGED <<vars, hubVars, expired, ackVars>>

Exited == main = "exit" /\ UNCHANGED serverVars

MainStep ==
    HubClose \/ GracefulStop \/ ForceStop \/ IngestorClose \/ IngestorReturn \/ FlushAndExit

ServerNext ==
    \/ IngestorStep
    \/ \E w \in Workers :
         PublishAsync(w) \/ CallBroadcast(w) \/ SendToViewer(w) \/ BroadcastReturn(w)
    \/ AsyncResult
    \/ \E v \in Viewers : Connect(v) \/ ViewerStep(v)
    \/ Signal \/ Expire \/ MainStep \/ Exited

ServerSpec == ServerInit /\ [][ServerNext]_serverVars

-----------------------------------------------------------------------------
(* Fairness: goroutines run and the deadline comes.  Clients and JetStream *)
(* owe nothing.                                                            *)

Alone(A) == Running /\ A /\ UNCHANGED <<hubVars, mainVars, ackVars>>

\* What worker w does next, with the hub and the publisher it calls.
WorkerRuns(w) ==
    \/ Alone(WorkerTake(w) \/ PublishFailed(w) \/ WorkerExit(w))
    \/ PublishAsync(w) \/ CallBroadcast(w) \/ SendToViewer(w) \/ BroadcastReturn(w)

ServerFairness ==
    /\ \A s \in Streams : WF_serverVars(Alone(SubmitStep(s)))
    /\ \A w \in Workers : WF_serverVars(WorkerRuns(w))
    /\ WF_serverVars(Alone(EvictScan)) /\ SF_serverVars(Alone(EvictExit))
    /\ \A v \in Viewers :
         WF_serverVars(Running /\ H!ViewerStep(v) /\ UNCHANGED <<vars, mainVars, ackVars>>)
    /\ WF_serverVars(Expire) /\ WF_serverVars(MainStep)

ServerFairSpec == ServerSpec /\ ServerFairness

-----------------------------------------------------------------------------
(* Properties.                                                             *)

\* The shapes of the variables.
ServerTypeOK ==
    /\ TypeOK /\ H!HubTypeOK
    /\ main \in {"serve", "hubclose", "graceful", "shutdown", "flush", "exit"}
    /\ expired \in BOOLEAN
    /\ unacked \in Nat /\ asyncFailed \in Nat

\* A shutdown that meets its deadline loses nothing: at exit no handler is
\* inside Submit, the queue and the workers are empty, and JetStream has
\* answered for every message.
DrainedUnlessExpired ==
    main = "exit" /\ ~expired
        => Readers = {} /\ queue = <<>> /\ Publishing = {} /\ unacked = 0

\* The final statistics add up even when Stop left handlers running: no
\* sample is received after the totals that run logs at its end.
ExitTotals ==
    main \in {"flush", "exit"}
        => /\ received = rejected + dropped + published + failed
           /\ unacked + asyncFailed <= published

\* run returns after a signal, however clients and JetStream behave.
MainExits == (main # "serve") ~> (main = "exit")

\* The README promises a "graceful shutdown with drain": when run returns,
\* JetStream has answered for every message the server published.
DrainedAtExit == main = "exit" => unacked = 0

=============================================================================
