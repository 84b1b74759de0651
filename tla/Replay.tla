------------------------------- MODULE Replay -------------------------------
(***************************************************************************)
(* History replay: the manager (internal/replay/manager.go), the requests  *)
(* that reach it (cmd/geofence/replays.go), the publisher its runs share   *)
(* (cmd/geofence/replaypub.go), and the end of the process, which closes   *)
(* the manager and then the publisher (cmd/geofence/setup.go).             *)
(*                                                                         *)
(* A recording has Total samples, one per replay tick at speed 1, so       *)
(* cursor + 1 of them are due.  Handlers may still be at work while the    *)
(* process closes: the HTTP server is given five seconds to stop.          *)
(***************************************************************************)
EXTENDS Integers, FiniteSets

CONSTANTS
    Requests,       \* HTTP handlers at work at the same time
    Total, Speeds,
    MaxConcurrent, MaxFinished,   \* maxConcurrent, maxFinishedRuns
    MaxRuns,        \* bound: runs ever started
    MaxBreaks       \* bound: times the ingest stream breaks

RunIDs == 1..MaxRuns

ASSUME ReplayAssumption ==
    /\ Total \in Nat \ {0} /\ Speeds \subseteq Nat \ {0}
    /\ MaxConcurrent \in Nat \ {0} /\ MaxFinished \in Nat
    /\ MaxRuns \in Nat /\ MaxBreaks \in Nat

VARIABLES
    request,    \* request[q] : the call handler q is in, and the run it is about
    runs,       \* keys of the map runs
    nextID,
    run,        \* run[r] : state, speed, paused, whether it was cancelled, and play:
                \*   where it stands, its cursor and the samples published
    stream,     \* publisher.stream: none, open, or broken by the server
    connClosed, \* publisher.conn is closed
    breaks,
    cleanup,    \* open, waiting (baseCancel called), waited, closed
    sent        \* samples that left through the stream

replayVars == <<request, runs, nextID, run, stream, connClosed, breaks, cleanup, sent>>
pubVars == <<stream, connClosed, breaks, sent>>

NoRequest == [at |-> "idle", run |-> 0]
NewRun(speed) == [state |-> "running", speed |-> speed, paused |-> FALSE, cancelled |-> FALSE,
                  play |-> "launch", cursor |-> 0, published |-> 0]
NoRun == [NewRun(0) EXCEPT !.state = "none", !.play = "none"]

ReplayInit ==
    /\ request = [q \in Requests |-> NoRequest]
    /\ runs = {} /\ nextID = 0
    /\ run = [r \in RunIDs |-> NoRun]
    /\ stream = "none" /\ connClosed = FALSE /\ breaks = 0 /\ sent = 0
    /\ cleanup = "open"

-----------------------------------------------------------------------------
(* Requests.                                                               *)

RunningIn(map) == {r \in map : run[r].state = "running"}

\* Mutant: the newest runs stay, finished or not.
KeptNewest(map) == {r \in map : Cardinality({u \in map : u > r}) < MaxFinished}

\* pruneFinishedLocked: of the finished runs the MaxFinished newest stay; the
\* run just added is running.
Kept(map) ==
    LET finished == {r \in map : r # nextID + 1} \ RunningIn(map) IN
    {r \in map : r \in finished => Cardinality({u \in finished : u > r}) < MaxFinished}

\* Start has validated the range and the speed and reads the history.
StartReplay(q) ==
    /\ request[q] = NoRequest
    /\ request' = [request EXCEPT ![q].at = "load"]
    /\ UNCHANGED <<runs, nextID, run, cleanup, pubVars>>

\* The history is empty or cannot be read.
StartFails(q) ==
    /\ request[q].at = "load"
    /\ request' = [request EXCEPT ![q] = NoRequest]
    /\ UNCHANGED <<runs, nextID, run, cleanup, pubVars>>

RoomLeft == Cardinality(RunningIn(runs)) < MaxConcurrent

\* With the history at hand and the lock held, the run is added or refused.
AddRun(q) ==
    /\ request[q].at = "load"
    /\ IF RoomLeft
       THEN /\ nextID < MaxRuns
            /\ nextID' = nextID + 1
            /\ \E speed \in Speeds : run' = [run EXCEPT ![nextID + 1] = NewRun(speed)]
            /\ runs' = Kept(runs \cup {nextID + 1})
            /\ request' = [request EXCEPT ![q] = [at |-> "go", run |-> nextID + 1]]
       ELSE /\ request' = [request EXCEPT ![q] = NoRequest]
            /\ UNCHANGED <<runs, nextID, run>>
    /\ UNCHANGED <<cleanup, pubVars>>

\* wg.Go starts play, possibly after wg.Wait has returned.
Launch(q) ==
    /\ request[q].at = "go"
    /\ run' = [run EXCEPT ![request[q].run].play = "burst"]
    /\ request' = [request EXCEPT ![q] = NoRequest]
    /\ UNCHANGED <<runs, nextID, cleanup, pubVars>>

\* Cancel, SetSpeed and SetPaused look the run up and let go of the manager's lock.
LookUp(q, r, what) ==
    /\ request[q] = NoRequest
    /\ r \in runs
    /\ request' = [request EXCEPT ![q] = [at |-> what, run |-> r]]
    /\ UNCHANGED <<runs, nextID, run, cleanup, pubVars>>

\* Cancel only cancels the context; the run may have finished, or been pruned.
CancelRun(q) ==
    /\ request[q].at = "cancel"
    /\ run' = [run EXCEPT ![request[q].run].cancelled = TRUE]
    /\ request' = [request EXCEPT ![q] = NoRequest]
    /\ UNCHANGED <<runs, nextID, cleanup, pubVars>>

\* setSpeed or setPaused; ErrNotRunning once the run has ended.
ControlRun(q) ==
    /\ request[q].at = "control"
    /\ LET r == request[q].run IN
       IF run[r].state = "running"
       THEN \/ \E speed \in Speeds : run' = [run EXCEPT ![r].speed = speed]
            \/ \E paused \in BOOLEAN : run' = [run EXCEPT ![r].paused = paused]
       ELSE UNCHANGED run
    /\ request' = [request EXCEPT ![q] = NoRequest]
    /\ UNCHANGED <<runs, nextID, cleanup, pubVars>>

-----------------------------------------------------------------------------
(* play.                                                                   *)

\* Mutant: the cursor alone says how many samples are due.
DueBeyond(r) == run[r].cursor + 1

\* The samples due by the cursor.
Due(r) == IF run[r].cursor < Total THEN run[r].cursor + 1 ELSE Total
CtxDone(r) == run[r].cancelled \/ cleanup # "open"

\* setState, then play returns, which cancels its context.
Ends(r, state) ==
    run' = [run EXCEPT ![r].state = state, ![r].play = "ended", ![r].cancelled = TRUE]

\* Mutant: a publisher that is closed dials again.
CanOpenAlways == TRUE

\* A stream can be opened while the connection is not closed.
CanOpen == ~connClosed

\* Publish of the next due sample, which does not look at the context: the
\* shared stream is opened if need be, and carries the sample.
PublishSample(r) ==
    /\ run[r].play = "burst" /\ run[r].published < Due(r)
    /\ stream = "open" \/ (stream = "none" /\ CanOpen)
    /\ stream' = "open"
    /\ sent' = sent + 1
    /\ run' = [run EXCEPT ![r].published = @ + 1]
    /\ UNCHANGED <<request, runs, nextID, cleanup, connClosed, breaks>>

\* Opening fails, or Send meets a broken stream and forgets it: the run has failed.
PublishSampleFails(r) ==
    /\ run[r].play = "burst" /\ run[r].published < Due(r)
    /\ stream # "open"
    /\ stream' = "none"
    /\ Ends(r, "failed")
    /\ UNCHANGED <<request, runs, nextID, cleanup, connClosed, breaks, sent>>

\* Nothing more is due: wait for a tick, unless that was the last sample.
BurstOver(r) ==
    /\ run[r].play = "burst" /\ run[r].published = Due(r)
    /\ IF run[r].published = Total
       THEN Ends(r, "completed")
       ELSE run' = [run EXCEPT ![r].play = "wait"]
    /\ UNCHANGED <<request, runs, nextID, cleanup, pubVars>>

\* select takes the tick, also when the context is done too.
ReplayTick(r) ==
    /\ run[r].play = "wait"
    /\ run' = [run EXCEPT ![r].play = "burst",
                          ![r].cursor = IF run[r].paused THEN @ ELSE @ + run[r].speed]
    /\ UNCHANGED <<request, runs, nextID, cleanup, pubVars>>

\* Mutant: only Close ends a run.
ReplayCancelledByClose(r) ==
    /\ run[r].play = "wait" /\ cleanup # "open"
    /\ Ends(r, "cancelled")
    /\ UNCHANGED <<request, runs, nextID, cleanup, pubVars>>

\* select takes ctx.Done.
ReplayCancelled(r) ==
    /\ run[r].play = "wait" /\ CtxDone(r)
    /\ Ends(r, "cancelled")
    /\ UNCHANGED <<request, runs, nextID, cleanup, pubVars>>

\* The server, or the network, ends the stream.
StreamBreaks ==
    /\ stream = "open" /\ breaks < MaxBreaks
    /\ stream' = "broken"
    /\ breaks' = breaks + 1
    /\ UNCHANGED <<request, runs, nextID, run, cleanup, connClosed, sent>>

-----------------------------------------------------------------------------
(* cleanup.                                                                *)

Playing == {r \in RunIDs : run[r].play \in {"burst", "wait"}}

\* Close cancels the context every run derives from.
BaseCancel ==
    /\ cleanup = "open"
    /\ cleanup' = "waiting"
    /\ UNCHANGED <<request, runs, nextID, run, pubVars>>

\* Mutant: Close does not wait for the goroutines.
WaitReturnsAtOnce ==
    /\ cleanup = "waiting"
    /\ cleanup' = "waited"
    /\ UNCHANGED <<request, runs, nextID, run, pubVars>>

\* wg.Wait returns.
WaitReturns ==
    /\ cleanup = "waiting"
    /\ Playing = {}
    /\ cleanup' = "waited"
    /\ UNCHANGED <<request, runs, nextID, run, pubVars>>

\* The publisher closes its stream and its connection.
ClosePublisher ==
    /\ cleanup = "waited"
    /\ cleanup' = "closed"
    /\ stream' = "none" /\ connClosed' = TRUE
    /\ UNCHANGED <<request, runs, nextID, run, breaks, sent>>

ReplayIdle == cleanup = "closed" /\ UNCHANGED replayVars

RunStep(r) ==
    PublishSample(r) \/ PublishSampleFails(r) \/ BurstOver(r) \/ ReplayTick(r) \/ ReplayCancelled(r)

RequestStep(q) ==
    StartReplay(q) \/ StartFails(q) \/ AddRun(q) \/ Launch(q) \/ CancelRun(q) \/ ControlRun(q)

ReplayNext ==
    \/ \E q \in Requests :
         \/ RequestStep(q)
         \/ \E r \in RunIDs, what \in {"cancel", "control"} : LookUp(q, r, what)
    \/ \E r \in RunIDs : RunStep(r)
    \/ StreamBreaks \/ BaseCancel \/ WaitReturns \/ ClosePublisher \/ ReplayIdle

ReplaySpec == ReplayInit /\ [][ReplayNext]_replayVars

\* Goroutines run and Publish returns; a select whose two cases are ready takes
\* either at random, so it does not prefer the tick for ever.
ReplayFairness ==
    /\ \A r \in RunIDs : WF_replayVars(RunStep(r)) /\ SF_replayVars(ReplayCancelled(r))
    /\ \A q \in Requests : WF_replayVars(Launch(q) \/ CancelRun(q))
    /\ WF_replayVars(WaitReturns \/ ClosePublisher)

-----------------------------------------------------------------------------
(* Properties.                                                             *)

\* The shapes of the variables.
ReplayTypeOK ==
    /\ request \in [Requests -> [at : {"idle", "load", "go", "cancel", "control"},
                                 run : RunIDs \cup {0}]]
    /\ runs \subseteq 1..nextID /\ nextID \in 0..MaxRuns
    /\ \A r \in RunIDs :
         /\ run[r].state \in {"none", "running", "completed", "cancelled", "failed"}
         /\ run[r].play \in {"none", "launch", "burst", "wait", "ended"}
         /\ run[r].published \in 0..Total
         /\ run[r].paused \in BOOLEAN /\ run[r].cancelled \in BOOLEAN
    /\ stream \in {"none", "open", "broken"} /\ connClosed \in BOOLEAN
    /\ breaks \in 0..MaxBreaks
    /\ cleanup \in {"open", "waiting", "waited", "closed"}

\* The limit counts statuses, but what it protects is the pipeline: no more
\* than MaxConcurrent goroutines publish, the cancelled ones included that have
\* not noticed yet.
GoroutinesWithinLimit == Cardinality(Playing) <= MaxConcurrent

\* Pruning never takes a run from the map that still publishes: whatever plays
\* can be found, and cancelled.
PlayingIsListed == Playing \subseteq runs

\* Whatever plays counts against the limit and can be cancelled.
PlayingUnderControl == GoroutinesWithinLimit /\ PlayingIsListed

PublisherSilent == cleanup = "closed" => sent' = sent

\* Nothing leaves through the publisher once cleanup has closed it, although a
\* handler may start a run after wg.Wait has returned.
NothingSentAfterClose == [][PublisherSilent]_replayVars

\* A run whose context is done comes to an end, paused or not: Cancel works.
CancelledRunsEnd ==
    \A r \in RunIDs : run[r].cancelled ~> run[r].play \in {"launch", "ended"}

\* Close returns, so the process can exit.
CleanupEnds == cleanup = "waiting" ~> cleanup = "closed"

\* Replays end when asked to, one by one or all with the process.
ReplaysEnd == CancelledRunsEnd /\ CleanupEnds

=============================================================================
