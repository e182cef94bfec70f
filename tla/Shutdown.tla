------------------------------ MODULE Shutdown ------------------------------
(***************************************************************************)
(* How a session ends: Program.Run, the frame scheduler's deferred calls,  *)
(* the worker pool, the terminal poller and the goroutine of a diagnosis   *)
(* run that is still streaming.  Each is modelled in detail elsewhere      *)
(* (Program, Scheduler, ChatSession, DiagnoseLoop); here they are composed *)
(* to see who waits for whom once the program's context is cancelled.      *)
(*                                                                         *)
(* A run streams control messages into a bounded channel; a reader Cmd on  *)
(* a worker takes one and the UI goroutine re-arms it.  workers.Stop waits *)
(* for that reader, and only the run's own progress can release it: the    *)
(* run's context is cancelled later, by Model.Cleanup.                     *)
(***************************************************************************)
EXTENDS Naturals, Sequences, FiniteSets

CONSTANTS
    ShWorkers,      \* the worker goroutines of the pool
    ShCtrlCap,      \* ctrlBufSize
    MaxLoopEvents,  \* bound: control messages one run sends
    MaxSubmits,     \* bound: runs the user starts
    MaxDropped      \* bound: results lost because the results channel was full

ASSUME ShutdownAssumption == ShCtrlCap \in Nat \ {0}

VARIABLES
    shPhase,    \* where Program.Run's goroutine is
    shCtx,      \* the program's context is cancelled
    shLane,     \* Cmds scheduled and not yet taken by a worker
    shWorker,   \* worker -> the Cmd it runs, or "idle" / "exited"
    shResults,  \* Msgs returned by Cmds and not yet dispatched
    shPoll,     \* the pollEvents goroutine
    shLoop,     \* the loopStartCmd goroutine of the latest run
    shEvents,   \* control messages the run still has to send
    shCtrl,     \* messages in the ctrl channel
    shClosed,   \* close(ctrl) done
    shRunCtx,   \* the run's own context is cancelled
    shStreaming,\* Model.streaming
    shSubmits, shDropped

shVars == <<shPhase, shCtx, shLane, shWorker, shResults, shPoll, shLoop, shEvents,
            shCtrl, shClosed, shRunCtx, shStreaming, shSubmits, shDropped>>

shRunVars == <<shLoop, shEvents, shCtrl, shClosed, shRunCtx>>

ShInit ==
    /\ shPhase = "starting" /\ shCtx = FALSE
    /\ shLane = <<>> /\ shWorker = [w \in ShWorkers |-> "idle"] /\ shResults = <<>>
    /\ shPoll = "waiting"
    /\ shLoop = "none" /\ shEvents = 0 /\ shCtrl = 0 /\ shClosed = FALSE /\ shRunCtx = FALSE
    /\ shStreaming = FALSE /\ shSubmits = 0 /\ shDropped = 0

-----------------------------------------------------------------------------
(* The goroutine of Program.Run and scheduler.Run. *)

\* driver.Init: on success Started() is closed and the deferred calls are registered;
\* on failure Run returns before any of them and only Program.Run's own defers happen.
RunStarts ==
    /\ shPhase = "starting"
    /\ shPhase' \in {"running", "cleanup"}
    /\ UNCHANGED <<shCtx, shLane, shWorker, shResults, shPoll, shRunVars, shStreaming, shSubmits, shDropped>>

\* The context of Run is cancelled: requestQuit, a signal, or the caller.
CtxCancelled ==
    /\ ~shCtx /\ shPhase \in {"starting", "running"}
    /\ shCtx' = TRUE
    /\ UNCHANGED <<shPhase, shLane, shWorker, shResults, shPoll, shRunVars, shStreaming, shSubmits, shDropped>>

\* Enter with nothing streaming: submit makes a new context and channel and schedules
\* loopStartCmd.
Submitted ==
    /\ shPhase = "running" /\ ~shStreaming /\ shSubmits < MaxSubmits
    /\ shSubmits' = shSubmits + 1 /\ shStreaming' = TRUE
    /\ shLoop' = "none" /\ shEvents' = MaxLoopEvents /\ shCtrl' = 0
    /\ shClosed' = FALSE /\ shRunCtx' = FALSE
    /\ shLane' = Append(shLane, "start")
    /\ UNCHANGED <<shPhase, shCtx, shWorker, shResults, shPoll, shDropped>>

\* Esc while streaming: handleCancel schedules a Cmd that cancels the run's context.
CancelPressed ==
    /\ shPhase = "running" /\ shStreaming /\ ~shRunCtx
    /\ \A i \in DOMAIN shLane : shLane[i] # "cancel"
    /\ \A w \in ShWorkers : shWorker[w] # "cancel"
    /\ shLane' = Append(shLane, "cancel")
    /\ UNCHANGED <<shPhase, shCtx, shWorker, shResults, shPoll, shRunVars, shStreaming, shSubmits, shDropped>>

\* dispatchResult hands one result to Update: readControlMsg and every control message
\* re-arm the reader, streamDoneMsg ends the run for the model.
ResultDispatched ==
    /\ shPhase = "running" /\ shResults # <<>>
    /\ shResults' = Tail(shResults)
    /\ IF Head(shResults) = "done"
       THEN shStreaming' = FALSE /\ UNCHANGED shLane
       ELSE shLane' = Append(shLane, "reader") /\ UNCHANGED shStreaming
    /\ UNCHANGED <<shPhase, shCtx, shWorker, shPoll, shRunVars, shSubmits, shDropped>>

\* <-ctx.Done() in the frame loop, then the deferred calls in reverse order: the stopped
\* flag, close(msgCh) and workers.Stop, which closes jobs and waits.  Cmds still in the
\* scheduler's lanes stay there; the ones already in jobs are still run.
LoopLeaves ==
    /\ shPhase = "running" /\ shCtx
    /\ \E n \in 0 .. Len(shLane) : shLane' = SubSeq(shLane, 1, n)
    /\ shPhase' = "stopping"
    /\ UNCHANGED <<shCtx, shWorker, shResults, shPoll, shRunVars, shStreaming, shSubmits, shDropped>>

WorkersGone_NoWait == TRUE

\* wg.Wait() in workers.Stop.
WorkersGone == \A w \in ShWorkers : shWorker[w] = "exited"

WorkersJoined ==
    /\ shPhase = "stopping" /\ WorkersGone
    /\ shPhase' = "fini"
    /\ UNCHANGED <<shCtx, shLane, shWorker, shResults, shPoll, shRunVars, shStreaming, shSubmits, shDropped>>

\* driver.Fini: the terminal is restored and a blocked PollEvent returns.
TerminalRestored ==
    /\ shPhase = "fini"
    /\ shPhase' = "cleanup"
    /\ UNCHANGED <<shCtx, shLane, shWorker, shResults, shPoll, shRunVars, shStreaming, shSubmits, shDropped>>

\* defer p.runCleanup(), then defer cancel(): Model.Cleanup cancels the run in flight.
ProgramCleanup ==
    /\ shPhase = "cleanup"
    /\ shRunCtx' = (shSubmits > 0)
    /\ shCtx' = TRUE
    /\ shPhase' = "returned"
    /\ UNCHANGED <<shLane, shWorker, shResults, shPoll, shLoop, shEvents, shCtrl, shClosed,
                   shStreaming, shSubmits, shDropped>>

-----------------------------------------------------------------------------
(* The worker pool. *)

WorkerTakes(w) ==
    /\ shWorker[w] = "idle" /\ shLane # <<>> /\ shPhase \in {"running", "stopping"}
    /\ shWorker' = [shWorker EXCEPT ![w] = Head(shLane)]
    /\ shLane' = Tail(shLane)
    /\ UNCHANGED <<shPhase, shCtx, shResults, shPoll, shRunVars, shStreaming, shSubmits, shDropped>>

\* for j := range p.jobs ends once jobs is closed and empty.
WorkerExits(w) ==
    /\ shWorker[w] = "idle" /\ shLane = <<>> /\ shPhase = "stopping"
    /\ shWorker' = [shWorker EXCEPT ![w] = "exited"]
    /\ UNCHANGED <<shPhase, shCtx, shLane, shResults, shPoll, shRunVars, shStreaming, shSubmits, shDropped>>

\* The result is sent without blocking: it is lost when the channel is full.
Deliver(w, msg) ==
    /\ shWorker' = [shWorker EXCEPT ![w] = "idle"]
    /\ \/ shResults' = Append(shResults, msg) /\ UNCHANGED shDropped
       \/ shDropped < MaxDropped /\ shDropped' = shDropped + 1 /\ UNCHANGED shResults

\* loopStartCmd: spawns the goroutine and asks for the first read.
StartRuns(w) ==
    /\ shWorker[w] = "start"
    /\ shLoop' = "working"
    /\ Deliver(w, "read")
    /\ UNCHANGED <<shPhase, shCtx, shLane, shPoll, shEvents, shCtrl, shClosed, shRunCtx, shStreaming, shSubmits>>

\* armReader: msg, ok := <-ctrl, with no other arm.
ReaderReceives(w) ==
    /\ shWorker[w] = "reader"
    /\ \/ shCtrl > 0 /\ shCtrl' = shCtrl - 1 /\ Deliver(w, "read")
       \/ shCtrl = 0 /\ shClosed /\ UNCHANGED shCtrl /\ Deliver(w, "done")
    /\ UNCHANGED <<shPhase, shCtx, shLane, shPoll, shLoop, shEvents, shClosed, shRunCtx, shStreaming, shSubmits>>

CancelRuns(w) ==
    /\ shWorker[w] = "cancel"
    /\ shRunCtx' = TRUE
    /\ shWorker' = [shWorker EXCEPT ![w] = "idle"]
    /\ UNCHANGED <<shPhase, shCtx, shLane, shResults, shPoll, shLoop, shEvents, shCtrl, shClosed,
                   shStreaming, shSubmits, shDropped>>

WorkerRuns(w) == StartRuns(w) \/ ReaderReceives(w) \/ CancelRuns(w)

-----------------------------------------------------------------------------
(* The goroutine of the run. *)

runEnds_NoClose == shLoop' = "gone" /\ UNCHANGED shClosed

\* The next event of loop.Run; every wait inside it is bounded by a timeout, and a
\* cancelled context or the last event ends the run: ts.Close, close(ctrl).
runEnds == shLoop' = "gone" /\ shClosed' = TRUE

LoopWorks ==
    /\ shLoop = "working"
    /\ \/ shEvents > 0 /\ ~shRunCtx /\ shLoop' = "sending" /\ shEvents' = shEvents - 1
          /\ UNCHANGED shClosed
       \/ (shEvents = 0 \/ shRunCtx) /\ runEnds /\ UNCHANGED shEvents
    /\ UNCHANGED <<shPhase, shCtx, shLane, shWorker, shResults, shPoll, shCtrl, shRunCtx,
                   shStreaming, shSubmits, shDropped>>

\* send: select on the channel and on the context of the emit call; no timeout arm.
send ==
    \/ shCtrl < ShCtrlCap /\ shCtrl' = shCtrl + 1 /\ shLoop' = "working" /\ UNCHANGED shClosed
    \/ shRunCtx /\ runEnds /\ UNCHANGED shCtrl

LoopSends ==
    /\ shLoop = "sending"
    /\ send
    /\ UNCHANGED <<shPhase, shCtx, shLane, shWorker, shResults, shPoll, shEvents, shRunCtx,
                   shStreaming, shSubmits, shDropped>>

-----------------------------------------------------------------------------
(* The pollEvents goroutine: waits for Started or the context, then polls. *)

PollerSteps ==
    /\ \/ shPoll = "waiting" /\ shPhase \in {"running", "stopping", "fini"} /\ shPoll' = "polling"
       \/ shPoll \in {"waiting", "polling"} /\ shCtx /\ shPoll' = "gone"
    /\ UNCHANGED <<shPhase, shCtx, shLane, shWorker, shResults, shRunVars, shStreaming, shSubmits, shDropped>>

-----------------------------------------------------------------------------
\* The user may leave the session alone, and a session that is over stays so.  That no
\* goroutine waits for ever is QuitReturns and GoroutinesEnd.
ShIdle == UNCHANGED shVars

UiStep == RunStarts \/ ResultDispatched \/ LoopLeaves \/ WorkersJoined \/ TerminalRestored \/ ProgramCleanup

ShWorkerStep(w) == WorkerTakes(w) \/ WorkerExits(w) \/ WorkerRuns(w)

ShNext ==
    \/ UiStep \/ CtxCancelled \/ Submitted \/ CancelPressed
    \/ \E w \in ShWorkers : ShWorkerStep(w)
    \/ LoopWorks \/ LoopSends \/ PollerSteps
    \/ ShIdle

\* Every goroutine that can move eventually does; nothing obliges the user to submit,
\* cancel or quit.
ShFairness ==
    /\ WF_shVars(UiStep) /\ WF_shVars(PollerSteps)
    /\ WF_shVars(LoopWorks \/ LoopSends)
    /\ \A w \in ShWorkers : WF_shVars(ShWorkerStep(w))

ShSpec == ShInit /\ [][ShNext]_shVars /\ ShFairness

-----------------------------------------------------------------------------
\* Once Program.Run has returned no Cmd runs on the pool, whichever way it ended (a
\* failed driver.Init included), and a run still unwinding has its context cancelled, so
\* nothing talks to the model or the database for a session that is over.
NothingRunsAfterReturn ==
    shPhase = "returned" =>
        /\ \A w \in ShWorkers : shWorker[w] \in {"idle", "exited"}
        /\ shLoop \in {"working", "sending"} => shRunCtx

\* workers.Stop waits for the reader Cmd, the reader for the run's channel.  A reader that
\* finds the channel open and empty has the run's own goroutine to release it, and that
\* one is not waiting in turn for the reader.
NoCircularWait ==
    \A w \in ShWorkers :
        shWorker[w] = "reader" /\ shCtrl = 0 /\ ~shClosed =>
            shLoop = "working" \/ (shLoop = "sending" /\ shCtrl < ShCtrlCap)

\* A session ends in order: nobody waits for somebody who waits for him, and nothing is
\* left running for a session that is over.
ShutdownSound == NothingRunsAfterReturn /\ NoCircularWait

\* Quitting while a run streams ends Program.Run: workers.Stop waits for the reader Cmd
\* blocked on the run's channel, and the run keeps feeding or closes that channel.
QuitReturns == shCtx ~> (shPhase = "returned")

\* After a quit neither the run's goroutine nor the terminal poller is left behind, even
\* when a lost result left the run blocked on a full control channel with no reader.
GoroutinesEnd == shCtx ~> (shLoop \notin {"working", "sending"} /\ shPoll = "gone")

(* Quitting ends everything: Run returns while a run is streaming, and     *)
(* leaves no goroutine behind.                                             *)
QuitEnds == QuitReturns /\ GoroutinesEnd
=============================================================================
