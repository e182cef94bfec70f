----------------------------- MODULE Scheduler ------------------------------
(***************************************************************************)
(* render/scheduler: the three-lane queue (queue.go), the worker pool      *)
(* (worker.go) and the main loop of FrameScheduler.Run (frame.go), from    *)
(* driver.Init to the deferred shutdown.  A Cmd is a number, in the order  *)
(* of its push.  A frame's rendering touches none of this state and is one *)
(* step; priorityMsgCh is modelled in Program.                             *)
(***************************************************************************)
EXTENDS Naturals, Sequences, FiniteSets

CONSTANTS
    Workers,      \* the goroutines of the pool
    JobsCap,      \* capacity of workerPool.jobs
    ResultsCap,   \* capacity of workerPool.results
    InitMayFail,  \* driver.Init may return an error
    MaxCmds       \* BOUND: Cmds scheduled

ASSUME SchedulerAssumption ==
    /\ Workers # {}      \* newWorkerPool starts at least one
    /\ JobsCap \in Nat \ {0} /\ ResultsCap \in Nat \ {0}
    /\ MaxCmds \in Nat /\ InitMayFail \in BOOLEAN

Lanes == {"high", "normal", "idle"}
Cmds == 1..MaxCmds
Outcomes == {"msg", "nil", "panic"}   \* of runCmd

VARIABLES
    main,          \* where Run is
    ctxDone,
    queue,         \* per lane: the Cmds waiting
    jobs, jobsClosed,
    worker,        \* per worker: [pc, cmd, out]
    results,       \* Seq of [cmd, out]
    resultsClosed,
    stopped,       \* FrameScheduler.stopped
    msgClosed,     \* msgCh is closed
    driver,        \* "off", "ready", "fini"
    scheduled,     \* Cmds pushed so far
    lane,          \* history: per Cmd, its lane
    runs,          \* history: per Cmd, how often it was called
    startOrder,    \* history: Cmds in the order workers took them
    dispatched,    \* history: Cmds whose result the main loop dispatched
    dropped        \* history: [cmd, out] that were lost

runVars == <<main, ctxDone, stopped, msgClosed, driver>>
histVars == <<lane, runs, startOrder, dispatched, dropped>>
vars == <<runVars, queue, jobs, jobsClosed, worker, results, resultsClosed,
          scheduled, histVars>>

Free == [pc |-> "idle", cmd |-> 0, out |-> "nil"]

Init ==
    /\ main = "init"
    /\ ctxDone = FALSE
    /\ queue = [l \in Lanes |-> <<>>]
    /\ jobs = <<>>
    /\ jobsClosed = FALSE
    /\ worker = [w \in Workers |-> Free]
    /\ results = <<>>
    /\ resultsClosed = FALSE
    /\ stopped = FALSE
    /\ msgClosed = FALSE
    /\ driver = "off"
    /\ scheduled = 0
    /\ lane = [c \in Cmds |-> "normal"]
    /\ runs = [c \in Cmds |-> 0]
    /\ startOrder = <<>>
    /\ dispatched = {}
    /\ dropped = {}

-----------------------------------------------------------------------------
(* ScheduleAt -> queue.push, by any goroutine at any time. *)
push(l) ==
    /\ scheduled < MaxCmds
    /\ scheduled' = scheduled + 1
    /\ queue' = [queue EXCEPT ![l] = Append(@, scheduled + 1)]
    /\ lane' = [lane EXCEPT ![scheduled + 1] = l]

ScheduleAt(l) ==
    /\ push(l)
    /\ UNCHANGED <<runVars, jobs, jobsClosed, worker, results, resultsClosed,
                   runs, startOrder, dispatched, dropped>>

CtxCancel ==
    /\ ~ctxDone
    /\ ctxDone' = TRUE
    /\ UNCHANGED <<main, stopped, msgClosed, driver, queue, jobs, jobsClosed,
                   worker, results, resultsClosed, scheduled, histVars>>

-----------------------------------------------------------------------------
(* Run: driver.Init; an error returns at once, nothing is deferred yet. *)
RunInit ==
    /\ main = "init"
    /\ \/ main' = "select" /\ driver' = "ready"
       \/ InitMayFail /\ main' = "returned" /\ UNCHANGED driver
    /\ UNCHANGED <<ctxDone, stopped, msgClosed, queue, jobs, jobsClosed, worker,
                   results, resultsClosed, scheduled, histVars>>

GoTo(from, to) ==
    /\ main = from
    /\ main' = to
    /\ UNCHANGED <<ctxDone, stopped, msgClosed, driver, queue, jobs, jobsClosed,
                   worker, results, resultsClosed, scheduled, histVars>>

(* The arms of the select: a tick begins a frame, or ctx is done. *)
FrameStart == GoTo("select", "drain")
SeeDone == ctxDone /\ GoTo("select", "stopping")

(* dispatchResult -> dispatchMsg -> the hook, which may Schedule the next  *)
(* Cmd of a chain.  A nil success Msg is not dispatched, but consumed.     *)
dispatchResult ==
    /\ results # <<>>
    /\ results' = Tail(results)
    /\ dispatched' = dispatched \cup {Head(results).cmd}
    /\ \/ UNCHANGED <<queue, scheduled, lane>>
       \/ Head(results).out # "nil" /\ push("normal")
    /\ UNCHANGED <<runVars, jobs, jobsClosed, worker, resultsClosed, runs,
                   startOrder, dropped>>

(* The third arm of the select, and drainResults at the start of a frame. *)
SelectResult == main = "select" /\ dispatchResult
DrainResult == main = "drain" /\ dispatchResult
DrainEnd == results = <<>> /\ GoTo("drain", "frame")

(* Mutant: the idle lane is forgotten. *)
headLane_NoIdle == IF queue["high"] # <<>> THEN "high" ELSE "normal"

(* queue.popIf: the first lane that is not empty. *)
headLane ==
    IF queue["high"] # <<>> THEN "high"
    ELSE IF queue["normal"] # <<>> THEN "normal" ELSE "idle"

(* Mutant: a refused Cmd goes to the end of its lane. *)
SubmitHead_Requeue ==
    /\ main = "frame"
    /\ queue[headLane] # <<>>
    /\ LET c == Head(queue[headLane]) IN
        IF Len(jobs) < JobsCap
        THEN /\ jobs' = Append(jobs, c)
             /\ queue' = [queue EXCEPT ![headLane] = Tail(@)]
             /\ UNCHANGED main
        ELSE /\ queue' = [queue EXCEPT ![headLane] = Append(Tail(@), c)]
             /\ main' = "select"
             /\ UNCHANGED jobs
    /\ UNCHANGED <<ctxDone, stopped, msgClosed, driver, jobsClosed, worker,
                   results, resultsClosed, scheduled, histVars>>

(* popIf(TrySubmit), which runs on the main goroutine, before Stop. *)
SubmitHead ==
    /\ main = "frame"
    /\ queue[headLane] # <<>>
    /\ Len(jobs) < JobsCap
    /\ jobs' = Append(jobs, Head(queue[headLane]))
    /\ queue' = [queue EXCEPT ![headLane] = Tail(@)]
    /\ UNCHANGED <<runVars, jobsClosed, worker, results, resultsClosed,
                   scheduled, histVars>>

(* TrySubmit refused the head, or nothing waits: the frame is rendered     *)
(* (or panics and is recovered), and Run selects again.                    *)
FrameEnd ==
    /\ queue[headLane] = <<>> \/ Len(jobs) = JobsCap
    /\ GoTo("frame", "select")

-----------------------------------------------------------------------------
(* workerLoop *)
TakeJob(w) ==
    /\ worker[w].pc = "idle"
    /\ jobs # <<>>
    /\ worker' = [worker EXCEPT ![w] = [Free EXCEPT !.pc = "run", !.cmd = Head(jobs)]]
    /\ jobs' = Tail(jobs)
    /\ startOrder' = Append(startOrder, Head(jobs))
    /\ UNCHANGED <<runVars, queue, jobsClosed, results, resultsClosed,
                   scheduled, lane, runs, dispatched, dropped>>

(* runCmd, in its own recover scope. *)
RunCmd(w, out) ==
    /\ worker[w].pc = "run"
    /\ worker' = [worker EXCEPT ![w].pc = "send", ![w].out = out]
    /\ runs' = [runs EXCEPT ![worker[w].cmd] = @ + 1]
    /\ UNCHANGED <<runVars, queue, jobs, jobsClosed, results, resultsClosed,
                   scheduled, lane, startOrder, dispatched, dropped>>

ResultOf(w) == [cmd |-> worker[w].cmd, out |-> worker[w].out]

(* The non-blocking send: a full channel loses the result. *)
SendResult(w) ==
    /\ worker[w].pc = "send"
    /\ worker' = [worker EXCEPT ![w] = Free]
    /\ IF Len(results) < ResultsCap
       THEN results' = Append(results, ResultOf(w)) /\ UNCHANGED dropped
       ELSE dropped' = dropped \cup {ResultOf(w)} /\ UNCHANGED results
    /\ UNCHANGED <<runVars, queue, jobs, jobsClosed, resultsClosed, scheduled,
                   lane, runs, startOrder, dispatched>>

(* The for-range over jobs ends when the channel is closed and empty. *)
WorkerExit(w) ==
    /\ worker[w].pc = "idle"
    /\ jobs = <<>>
    /\ jobsClosed
    /\ worker' = [worker EXCEPT ![w].pc = "exited"]
    /\ UNCHANGED <<runVars, queue, jobs, jobsClosed, results, resultsClosed,
                   scheduled, histVars>>

-----------------------------------------------------------------------------
(* The deferred calls of Run: stopped.Store, close(msgCh), workers.Stop    *)
(* (close jobs, drain results until all workers are gone, close results),  *)
(* driver.Fini.                                                            *)
StopFlag ==
    /\ main = "stopping"
    /\ main' = "closeMsgs"
    /\ stopped' = TRUE
    /\ UNCHANGED <<ctxDone, msgClosed, driver, queue, jobs, jobsClosed, worker,
                   results, resultsClosed, scheduled, histVars>>

CloseMsgs ==
    /\ main = "closeMsgs"
    /\ main' = "stopPool"
    /\ msgClosed' = TRUE
    /\ UNCHANGED <<ctxDone, stopped, driver, queue, jobs, jobsClosed, worker,
                   results, resultsClosed, scheduled, histVars>>

StopPool ==
    /\ main = "stopPool"
    /\ main' = "wait"
    /\ jobsClosed' = TRUE
    /\ UNCHANGED <<ctxDone, stopped, msgClosed, driver, queue, jobs, worker,
                   results, resultsClosed, scheduled, histVars>>

(* Mutant: what is left is dispatched after the loop has ended. *)
DiscardResult_Dispatches ==
    /\ main \in {"wait", "join"}
    /\ results # <<>>
    /\ results' = Tail(results)
    /\ dispatched' = dispatched \cup {Head(results).cmd}
    /\ UNCHANGED <<runVars, queue, jobs, jobsClosed, worker, resultsClosed,
                   scheduled, lane, runs, startOrder, dropped>>

(* The drain goroutine of Stop. *)
DiscardResult ==
    /\ main \in {"wait", "join"}
    /\ results # <<>>
    /\ results' = Tail(results)
    /\ dropped' = dropped \cup {Head(results)}
    /\ UNCHANGED <<runVars, queue, jobs, jobsClosed, worker, resultsClosed,
                   scheduled, lane, runs, startOrder, dispatched>>

(* Mutant: results is closed without wg.Wait. *)
CloseResults_NoWait ==
    /\ main = "wait"
    /\ main' = "join"
    /\ resultsClosed' = TRUE
    /\ UNCHANGED <<ctxDone, stopped, msgClosed, driver, queue, jobs, jobsClosed,
                   worker, results, scheduled, histVars>>

CloseResults ==
    /\ main = "wait"
    /\ \A w \in Workers : worker[w].pc = "exited"
    /\ main' = "join"
    /\ resultsClosed' = TRUE
    /\ UNCHANGED <<ctxDone, stopped, msgClosed, driver, queue, jobs, jobsClosed,
                   worker, results, scheduled, histVars>>

RunReturns ==
    /\ main = "join"
    /\ results = <<>>
    /\ main' = "returned"
    /\ driver' = "fini"
    /\ UNCHANGED <<ctxDone, stopped, msgClosed, queue, jobs, jobsClosed, worker,
                   results, resultsClosed, scheduled, histVars>>

Returned == main = "returned" /\ UNCHANGED vars

MainStep ==
    \/ RunInit \/ FrameStart \/ SeeDone \/ SelectResult \/ DrainResult
    \/ DrainEnd \/ SubmitHead \/ FrameEnd
    \/ StopFlag \/ CloseMsgs \/ StopPool \/ DiscardResult \/ CloseResults
    \/ RunReturns

WorkerStep(w) ==
    \/ TakeJob(w)
    \/ \E out \in Outcomes : RunCmd(w, out)
    \/ SendResult(w)
    \/ WorkerExit(w)

Next ==
    \/ \E l \in Lanes : ScheduleAt(l)
    \/ CtxCancel
    \/ MainStep
    \/ \E w \in Workers : WorkerStep(w)
    \/ Returned

(* The main loop runs, its select is not unfair to ctx.Done() for ever     *)
(* (it picks at random among the ready arms), and every Cmd returns.       *)
Fairness ==
    /\ WF_vars(MainStep)
    /\ SF_vars(SeeDone)
    /\ SF_vars(FrameStart)
    /\ \A w \in Workers : WF_vars(WorkerStep(w))

Spec == Init /\ [][Next]_vars
FairSpec == Spec /\ Fairness
-----------------------------------------------------------------------------
ResultRecs == [cmd : Cmds, out : Outcomes]

(* Type invariant. *)
TypeOK ==
    /\ main \in {"init", "select", "drain", "frame", "stopping", "closeMsgs",
                 "stopPool", "wait", "join", "returned"}
    /\ queue \in [Lanes -> Seq(Cmds)]
    /\ jobs \in Seq(Cmds) /\ Len(jobs) <= JobsCap
    /\ results \in Seq(ResultRecs) /\ Len(results) <= ResultsCap
    /\ worker \in [Workers -> [pc : {"idle", "run", "send", "exited"},
                               cmd : 0..MaxCmds, out : Outcomes]]
    /\ driver \in {"off", "ready", "fini"}
    /\ {ctxDone, jobsClosed, resultsClosed, stopped, msgClosed} \subseteq BOOLEAN
    /\ scheduled \in 0..MaxCmds
    /\ lane \in [Cmds -> Lanes]
    /\ runs \in [Cmds -> Nat] /\ startOrder \in Seq(Cmds)
    /\ dispatched \subseteq Cmds /\ dropped \subseteq ResultRecs

(* Cmds of one lane are started in the order they were scheduled, however  *)
(* often a full jobs channel turned the head away.                         *)
LaneOrder ==
    \A i, j \in DOMAIN startOrder :
        i < j /\ lane[startOrder[i]] = lane[startOrder[j]]
            => startOrder[i] < startOrder[j]

(* Shutdown never closes a channel under a sender, nor takes the terminal  *)
(* from a Cmd that still runs: results is closed, and the driver is        *)
(* finished, only when every worker is gone and all it took has been run.  *)
ShutdownOrder ==
    /\ resultsClosed => /\ \A w \in Workers : worker[w].pc = "exited"
                        /\ jobs = <<>>
                        /\ Len(startOrder) =
                             Cardinality({c \in Cmds : runs[c] = 1})
    /\ driver = "fini" => resultsClosed /\ msgClosed /\ stopped

(* At any point of a shutdown the channels are within their capacities and *)
(* nothing is taken from a goroutine that still uses it.                   *)
SafeShutdown == TypeOK /\ ShutdownOrder

(* The abstract contract: a Cmd runs at most once and its outcome is       *)
(* dispatched at most once, while Run is alive.                            *)
status ==
    [c \in Cmds |->
        IF c > scheduled THEN "new"
        ELSE IF c \in dispatched THEN "dispatched"
        ELSE IF \E r \in dropped : r.cmd = c THEN "lost"
        ELSE IF runs[c] > 0 THEN "ran" ELSE "pending"]

Executor == INSTANCE CmdExecutor WITH
    status <- status, runs <- runs,
    alive <- main \notin {"stopping", "closeMsgs", "stopPool", "wait", "join",
                          "returned"}

(* Scheduler implements CmdExecutor. *)
ImplementsExecutor == Executor!Spec

(* Every scheduled Cmd is run, whatever its lane and however other Cmds    *)
(* end, once no more are pushed (MaxCmds; a steady supply of high Cmds may *)
(* starve the idle lane, by design), unless the program is asked to stop   *)
(* or Init failed.                                                         *)
CmdsRun ==
    \A c \in Cmds : c <= scheduled ~> (runs[c] > 0 \/ ctxDone \/ main = "returned")

(* Run returns once ctx is done.                                           *)
RunEnds == ctxDone ~> main = "returned"

(* The scheduler neither starves a Cmd nor hangs on its way out.           *)
KeepsRunning == CmdsRun /\ RunEnds

-----------------------------------------------------------------------------
(* What the comments say.                                                  *)

(* scheduler.go, Cmd: a non-nil Msg a Cmd returns flows through the        *)
(* results channel into the main-loop dispatch.  While Run is alive none   *)
(* is lost.                                                                *)
MsgsReachDispatch ==
    main \in {"select", "drain", "frame"} =>
        \A r \in dropped : r.out # "msg"
=============================================================================
