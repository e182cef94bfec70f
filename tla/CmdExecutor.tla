---------------------------- MODULE CmdExecutor -----------------------------
(***************************************************************************)
(* What render/scheduler promises of a Cmd, without queue, workers and     *)
(* channels: it is run at most once, its outcome is dispatched at most     *)
(* once, after it ran and only while Run is alive; an outcome may be lost. *)
(***************************************************************************)
EXTENDS Naturals

CONSTANT Cmds

VARIABLES
    status,   \* per Cmd: "new", "pending", "ran", "dispatched", "lost"
    runs,     \* per Cmd: how often it was called
    alive     \* Run has not begun to shut down

vars == <<status, runs, alive>>

Init ==
    /\ status = [c \in Cmds |-> "new"]
    /\ runs = [c \in Cmds |-> 0]
    /\ alive = TRUE

Schedule(c) ==
    /\ status[c] = "new"
    /\ status' = [status EXCEPT ![c] = "pending"]
    /\ UNCHANGED <<runs, alive>>

Execute(c) ==
    /\ status[c] = "pending"
    /\ status' = [status EXCEPT ![c] = "ran"]
    /\ runs' = [runs EXCEPT ![c] = @ + 1]
    /\ UNCHANGED alive

(* The main loop hands the outcome to the hook, which may schedule the     *)
(* next Cmd.                                                               *)
Dispatch(c) ==
    /\ alive
    /\ status[c] = "ran"
    /\ \/ status' = [status EXCEPT ![c] = "dispatched"]
       \/ \E d \in Cmds : /\ status[d] = "new"
                          /\ status' = [status EXCEPT ![c] = "dispatched",
                                                      ![d] = "pending"]
    /\ UNCHANGED <<runs, alive>>

Lose(c) ==
    /\ status[c] = "ran"
    /\ status' = [status EXCEPT ![c] = "lost"]
    /\ UNCHANGED <<runs, alive>>

Stop == alive /\ alive' = FALSE /\ UNCHANGED <<status, runs>>

Next ==
    \/ \E c \in Cmds : Schedule(c) \/ Execute(c) \/ Dispatch(c) \/ Lose(c)
    \/ Stop

Spec == Init /\ [][Next]_vars
=============================================================================
