------------------------------- MODULE MCLive -------------------------------
(***************************************************************************)
(* The parts that promise that something eventually happens: the quit      *)
(* protocol, the buffered log writer, the shutdown of a session with a run *)
(* in flight, and the scheduler with its executor.  Each is checked on its *)
(* own, in one run: part says which of them runs, under its own fairness,  *)
(* and the others stay in their initial states.                            *)
(***************************************************************************)
EXTENDS Program, LogWriter, Shutdown, Scheduler

VARIABLE part

MCInit ==
    /\ part \in {"program", "log", "shutdown", "scheduler"}
    /\ PgInit /\ LwInit /\ ShInit /\ Init

MCNext ==
    /\ UNCHANGED part
    /\ \/ part = "program" /\ PgNext /\ UNCHANGED <<lwVars, shVars, vars>>
       \/ part = "log" /\ LwNext /\ UNCHANGED <<pgVars, shVars, vars>>
       \/ part = "shutdown" /\ ShNext /\ UNCHANGED <<pgVars, lwVars, vars>>
       \/ part = "scheduler" /\ Next /\ UNCHANGED <<pgVars, lwVars, shVars>>

\* The fairness of each module, for the one that runs.
Runs(p, A) == part = p /\ A
MCFairness ==
    /\ WF_pgVars(Runs("program", Clock)) /\ WF_pgVars(Runs("program", Main))
    /\ \A k \in Timers : WF_pgVars(Runs("program", TimerFires(k)))
    /\ \A e \in Emitters :
        WF_pgVars(Runs("program", EmitSend(e) \/ EmitDropOldest(e) \/ EmitRetry(e)))
    /\ WF_lwVars(Runs("log", TimerFire)) /\ WF_lwVars(Runs("log", TimerCallback))
    /\ WF_lwVars(Runs("log", FlushBuffer)) /\ WF_lwVars(Runs("log", DisposeReturn))
    /\ WF_lwVars(Runs("log", DirectWrite))
    /\ \A d \in DrainIds :
        WF_lwVars(Runs("log", DrainTake(d))) /\ WF_lwVars(Runs("log", DrainWrite(d)))
    /\ WF_shVars(Runs("shutdown", UiStep)) /\ WF_shVars(Runs("shutdown", PollerSteps))
    /\ WF_shVars(Runs("shutdown", LoopWorks \/ LoopSends))
    /\ \A w \in ShWorkers : WF_shVars(Runs("shutdown", ShWorkerStep(w)))
    /\ WF_vars(Runs("scheduler", MainStep))
    /\ SF_vars(Runs("scheduler", SeeDone)) /\ SF_vars(Runs("scheduler", FrameStart))
    /\ \A w \in Workers : WF_vars(Runs("scheduler", WorkerStep(w)))

MCSpec == MCInit /\ [][MCNext]_<<part, pgVars, lwVars, shVars, vars>> /\ MCFairness
=============================================================================
