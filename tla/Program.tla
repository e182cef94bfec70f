------------------------------ MODULE Program -------------------------------
(***************************************************************************)
(* program.Program's input path (src/internal/app/cli/program/program.go): *)
(* the pollEvents goroutine and the quit timers' goroutines post messages  *)
(* with scheduler.EmitMsg (render/scheduler/frame.go), the scheduler       *)
(* goroutine drains them and handleMsg decides.  EmitMsg is three separate *)
(* channel operations.  Time is an integer; the main loop may be late by   *)
(* any amount (a slow frame), and so may a timer.                          *)
(***************************************************************************)
EXTENDS Integers, Sequences, FiniteSets

CONSTANTS
    QuitWindow,   \* Program.quitWindow
    PrioCap,      \* capacity of priorityMsgCh
    UserEvents,   \* events the terminal can deliver
    MaxEvents,    \* BOUND: events delivered
    MaxTime       \* BOUND: latest time of an event

ASSUME ProgramAssumption ==
    /\ QuitWindow \in Nat /\ PrioCap \in Nat \ {0}
    /\ MaxEvents \in Nat /\ MaxTime \in Nat
    /\ UserEvents \subseteq {"ctrlC", "ctrlBackslash", "key", "resize"}

Timers == 1..MaxEvents      \* one per arming
Emitters == {0} \cup Timers \* 0 is pollEvents

VARIABLES
    now,
    quitArmed, quitArmedAt,
    timers,       \* per arming: "none", "armed", "stopped", "fired"
    deadline,     \* per arming: when its timer is due
    emitPc,       \* per emitter: where its EmitMsg call is
    emitMsg,      \* per emitter: the argument
    prio,         \* priorityMsgCh
    quit,         \* "none", or what cancelled the Run context
    pgStopped,      \* FrameScheduler.stopped
    events,       \* events delivered so far
    presses,      \* history: when each Ctrl+C was handled
    hardExit,     \* history: Ctrl+\ was pressed
    overflowed    \* history: EmitMsg dropped a message

timerVars == <<timers, deadline>>
pgVars == <<now, quitArmed, quitArmedAt, timerVars, emitPc, emitMsg, prio, quit,
          pgStopped, events, presses, hardExit, overflowed>>

PgInit ==
    /\ now = 0
    /\ quitArmed = FALSE
    /\ quitArmedAt = 0
    /\ timers = [k \in Timers |-> "none"]
    /\ deadline = [k \in Timers |-> 0]
    /\ emitPc = [e \in Emitters |-> "idle"]
    /\ emitMsg = [e \in Emitters |-> "none"]
    /\ prio = <<>>
    /\ quit = "none"
    /\ pgStopped = FALSE
    /\ events = 0
    /\ presses = <<>>
    /\ hardExit = FALSE
    /\ overflowed = FALSE

(* Time goes on while something may still be due. *)
Clock ==
    /\ \/ now < MaxTime
       \/ \E k \in Timers : timers[k] = "armed" /\ deadline[k] > now
    /\ now' = now + 1
    /\ UNCHANGED <<quitArmed, quitArmedAt, timerVars, emitPc, emitMsg, prio,
                   quit, pgStopped, events, presses, hardExit,
                   overflowed>>

-----------------------------------------------------------------------------
(* pollEvents: PollEvent returned an event, unless ctx is done. *)
PollEvent(ev) ==
    /\ emitPc[0] = "idle"
    /\ quit = "none"
    /\ events < MaxEvents
    /\ now <= MaxTime
    /\ events' = events + 1
    /\ emitPc' = [emitPc EXCEPT ![0] = "send"]
    /\ emitMsg' = [emitMsg EXCEPT ![0] = ev]
    /\ hardExit' = (hardExit \/ ev = "ctrlBackslash")
    /\ UNCHANGED <<now, quitArmed, quitArmedAt, timerVars, prio, quit, pgStopped,
                   presses, overflowed>>

(* PollEvent returned an error or nil: the goroutine is gone, the program  *)
(* lives on without input.                                                 *)
PollFails ==
    /\ emitPc[0] = "idle"
    /\ emitPc' = [emitPc EXCEPT ![0] = "exited"]
    /\ UNCHANGED <<now, quitArmed, quitArmedAt, timerVars, emitMsg, prio, quit,
                   pgStopped, events, presses, hardExit,
                   overflowed>>

(* The AfterFunc goroutine of arming k. *)
TimerFires(k) ==
    /\ timers[k] = "armed"
    /\ deadline[k] <= now
    /\ timers' = [timers EXCEPT ![k] = "fired"]
    /\ emitPc' = [emitPc EXCEPT ![k] = "send"]
    /\ emitMsg' = [emitMsg EXCEPT ![k] = "quitDisarm"]
    /\ UNCHANGED <<now, quitArmed, quitArmedAt, deadline, prio, quit, pgStopped,
                   events, presses, hardExit,
                   overflowed>>

(* EmitMsg: refuse after Stop, else send if there is room ... *)
EmitSend(e) ==
    /\ emitPc[e] = "send"
    /\ IF pgStopped THEN emitPc' = [emitPc EXCEPT ![e] = "idle"] /\ UNCHANGED prio
       ELSE IF Len(prio) < PrioCap
       THEN /\ prio' = Append(prio, emitMsg[e])
            /\ emitPc' = [emitPc EXCEPT ![e] = "idle"]
       ELSE emitPc' = [emitPc EXCEPT ![e] = "dropOldest"] /\ UNCHANGED prio
    /\ UNCHANGED <<now, quitArmed, quitArmedAt, timerVars, emitMsg, quit,
                   pgStopped, events, presses, hardExit,
                   overflowed>>

(* ... else drop one oldest message (if one is still there) ... *)
EmitDropOldest(e) ==
    /\ emitPc[e] = "dropOldest"
    /\ prio' = IF prio = <<>> THEN prio ELSE Tail(prio)
    /\ overflowed' = (overflowed \/ prio # <<>>)
    /\ emitPc' = [emitPc EXCEPT ![e] = "retry"]
    /\ UNCHANGED <<now, quitArmed, quitArmedAt, timerVars, emitMsg, quit,
                   pgStopped, events, presses, hardExit>>

(* ... and try once more; if another emitter took the slot, give up. *)
EmitRetry(e) ==
    /\ emitPc[e] = "retry"
    /\ prio' = IF Len(prio) < PrioCap THEN Append(prio, emitMsg[e]) ELSE prio
    /\ overflowed' = (overflowed \/ Len(prio) = PrioCap)
    /\ emitPc' = [emitPc EXCEPT ![e] = "idle"]
    /\ UNCHANGED <<now, quitArmed, quitArmedAt, timerVars, emitMsg, quit,
                   pgStopped, events, presses, hardExit>>

-----------------------------------------------------------------------------
(* The scheduler goroutine: it stops draining once it has seen ctx done,   *)
(* but the drain of the current frame goes on after requestQuit.           *)
Handle(msg) ==
    /\ ~pgStopped
    /\ prio # <<>>
    /\ Head(prio) = msg
    /\ prio' = Tail(prio)
    /\ UNCHANGED <<now, emitPc, emitMsg, pgStopped, events, hardExit,
                   overflowed>>

(* Mutant: the flag alone decides. *)
inWindow_FlagOnly == quitArmed

(* The time-based test of handleCtrlC. *)
inWindow == quitArmed /\ now - quitArmedAt <= QuitWindow

requestQuit(why) == quit' = IF quit = "none" THEN why ELSE quit

(* handleCtrlC, second press: the Run context is cancelled. *)
CtrlCQuits ==
    /\ Handle("ctrlC")
    /\ inWindow
    /\ requestQuit("double")
    /\ presses' = Append(presses, now)
    /\ UNCHANGED <<quitArmed, quitArmedAt, timerVars>>

newTimer == Cardinality({k \in Timers : timers[k] # "none"}) + 1

(* Mutant: the timer is started with the first arming only. *)
CtrlCArms_OneTimer ==
    /\ Handle("ctrlC")
    /\ ~inWindow
    /\ quitArmed' = TRUE
    /\ quitArmedAt' = now
    /\ presses' = Append(presses, now)
    /\ timers' = IF newTimer = 1 THEN [timers EXCEPT ![1] = "armed"] ELSE timers
    /\ deadline' = [deadline EXCEPT ![newTimer] = now + QuitWindow]
    /\ UNCHANGED quit

(* handleCtrlC, otherwise: arm, stop the old timer (too late if it has     *)
(* fired), start a new one.  The Model gets CancelCmdMsg.                  *)
CtrlCArms ==
    /\ Handle("ctrlC")
    /\ ~inWindow
    /\ quitArmed' = TRUE
    /\ quitArmedAt' = now
    /\ presses' = Append(presses, now)
    /\ timers' = [k \in Timers |->
                    IF k = newTimer THEN "armed"
                    ELSE IF timers[k] = "armed" THEN "stopped" ELSE timers[k]]
    /\ deadline' = [deadline EXCEPT ![newTimer] = now + QuitWindow]
    /\ UNCHANGED quit

CtrlBackslash ==
    /\ Handle("ctrlBackslash")
    /\ requestQuit("hard")
    /\ UNCHANGED <<quitArmed, quitArmedAt, timerVars, presses>>

QuitDisarm ==
    /\ Handle("quitDisarm")
    /\ quitArmed' = FALSE
    /\ UNCHANGED <<quitArmedAt, timerVars, quit, presses>>

(* Everything else goes to Model.Update. *)
ToModel ==
    /\ Handle("key") \/ Handle("resize")
    /\ UNCHANGED <<quitArmed, quitArmedAt, timerVars, quit, presses>>

(* scheduler.Run sees ctx done and returns. *)
RunExits ==
    /\ quit # "none"
    /\ ~pgStopped
    /\ pgStopped' = TRUE
    /\ UNCHANGED <<now, quitArmed, quitArmedAt, timerVars, emitPc, emitMsg,
                   prio, quit, events, presses, hardExit,
                   overflowed>>

Main == CtrlCQuits \/ CtrlCArms \/ CtrlBackslash \/ QuitDisarm \/ ToModel

(* No event is left to come. *)
Quiet ==
    /\ pgStopped \/ events = MaxEvents \/ now > MaxTime \/ emitPc[0] = "exited"
    /\ UNCHANGED pgVars

PgNext ==
    \/ Clock
    \/ \E ev \in UserEvents : PollEvent(ev)
    \/ PollFails
    \/ \E k \in Timers : TimerFires(k)
    \/ \E e \in Emitters : EmitSend(e) \/ EmitDropOldest(e) \/ EmitRetry(e)
    \/ Main
    \/ RunExits
    \/ Quiet

(* Time passes, due timers fire, running goroutines proceed, and the frame *)
(* loop drains on every tick.                                              *)
PgFairness ==
    /\ WF_pgVars(Clock)
    /\ WF_pgVars(Main)
    /\ \A k \in Timers : WF_pgVars(TimerFires(k))
    /\ \A e \in Emitters :
        WF_pgVars(EmitSend(e) \/ EmitDropOldest(e) \/ EmitRetry(e))

PgSpec == PgInit /\ [][PgNext]_pgVars
PgFairSpec == PgSpec /\ PgFairness
-----------------------------------------------------------------------------
Msgs == UserEvents \cup {"quitDisarm"}

(* Type invariant. *)
PgTypeOK ==
    /\ now \in Nat /\ quitArmedAt \in 0..now
    /\ {quitArmed, pgStopped, hardExit, overflowed} \subseteq BOOLEAN
    /\ timers \in [Timers -> {"none", "armed", "stopped", "fired"}]
    /\ deadline \in [Timers -> Nat]
    /\ emitPc \in [Emitters -> {"idle", "send", "dropOldest", "retry", "exited"}]
    /\ emitMsg \in [Emitters -> Msgs \cup {"none"}]
    /\ prio \in Seq(Msgs) /\ Len(prio) <= PrioCap
    /\ quit \in {"none", "double", "hard"}
    /\ events \in 0..MaxEvents
    /\ presses \in Seq(Nat)

(* A double press is one: Ctrl+C quits only if the two last presses were   *)
(* handled at most a quit window apart, however late a disarm message is   *)
(* delivered or whether it is dropped.                                     *)
QuitJustified ==
    quit = "double" =>
        \E i \in 2..Len(presses) : presses[i] - presses[i - 1] <= QuitWindow

(* Only the newest arming has a running timer, so a disarm message that    *)
(* is posted late belongs to a timer that had fired before the new arming. *)
OneLiveTimer ==
    \A k, l \in Timers : timers[k] = "armed" /\ timers[l] = "armed" => k = l

(* The quit protocol is safe: only a real double press quits, and only the *)
(* newest arming has a running timer, with channels that drop and timers   *)
(* that are late.                                                          *)
QuitSound == PgTypeOK /\ QuitJustified /\ OneLiveTimer

(* The quit prompt hides the input row; it does not stay for ever, unless  *)
(* a full priorityMsgCh dropped a message (it may be the disarm message).  *)
PromptClears == quitArmed ~> (~quitArmed \/ quit # "none" \/ overflowed)

(* Ctrl+\ always quits, armed or not, unless it was dropped.               *)
HardExitQuits == hardExit ~> (quit # "none" \/ overflowed)

(* Both quit keys lead somewhere: the prompt of Ctrl+C goes away and       *)
(* Ctrl+\ ends the program, unless a full channel dropped a message.       *)
QuitKeysAnswered == PromptClears /\ HardExitQuits

-----------------------------------------------------------------------------
(* What the comment of handleCtrlC says: the decision is time-based and    *)
(* the disarm message is not load-bearing for correctness.  So a Ctrl+C    *)
(* handled strictly within the window after the previous one quits.        *)
DecisionIsTimeBased ==
    \A i \in 2..Len(presses) :
        presses[i] - presses[i - 1] < QuitWindow => quit # "none"
=============================================================================
