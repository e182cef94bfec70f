--------------------------- MODULE ProgramProofs ----------------------------
(***************************************************************************)
(* The quit protocol of Program is safe for every quit window, every       *)
(* channel capacity and any number of events.                              *)
(***************************************************************************)
EXTENDS Program, SequenceTheorems, TLAPS

(* While nothing has quit, the armed flag remembers the latest press. *)
ArmedByLastPress ==
    quitArmed /\ quit = "none" =>
        presses # <<>> /\ presses[Len(presses)] = quitArmedAt

(* A call of EmitMsg that has begun has a message to send. *)
EmitsAMessage ==
    \A e \in Emitters :
        emitPc[e] \in {"send", "dropOldest", "retry"} => emitMsg[e] \in Msgs

(* The inductive invariant. *)
PgInv ==
    /\ PgTypeOK
    /\ QuitJustified
    /\ OneLiveTimer
    /\ ArmedByLastPress
    /\ EmitsAMessage

(* Taking the first message of a channel leaves a shorter channel. *)
LEMMA TailLemma ==
    ASSUME NEW S, NEW s \in Seq(S), s # <<>>
    PROVE  /\ Tail(s) \in Seq(S) /\ Len(Tail(s)) = Len(s) - 1
           /\ Head(s) \in S
  BY HeadTailProperties

(* Initially nothing is armed and nothing has been sent. *)
LEMMA InitLemma == ASSUME PgInit PROVE PgInv
  <1> USE ProgramAssumption DEF PgInit
  <1>1. PgTypeOK
    <2>1. prio \in Seq(Msgs) /\ Len(prio) <= PrioCap /\ presses \in Seq(Nat)
      OBVIOUS
    <2>2. now \in Nat /\ quitArmedAt \in 0..now /\ events \in 0..MaxEvents
      OBVIOUS
    <2> QED BY <2>1, <2>2 DEF PgTypeOK
  <1>2. QuitJustified /\ OneLiveTimer /\ ArmedByLastPress /\ EmitsAMessage
    BY DEF QuitJustified, OneLiveTimer, ArmedByLastPress, EmitsAMessage
  <1> QED BY <1>1, <1>2 DEF PgInv

(* Steps that neither press, arm nor quit keep the two decision parts. *)
LEMMA DecisionFrame ==
    ASSUME PgInv, UNCHANGED <<quitArmed, quitArmedAt, quit, presses>>
    PROVE  QuitJustified' /\ ArmedByLastPress'
  BY DEF PgInv, QuitJustified, ArmedByLastPress

(* The clock. *)
LEMMA ClockLemma == ASSUME PgInv, Clock PROVE PgInv'
  <1> USE DEF Clock, timerVars
  <1>1. PgTypeOK'
    BY DEF PgInv, PgTypeOK
  <1>2. OneLiveTimer' /\ EmitsAMessage'
    BY DEF PgInv, OneLiveTimer, EmitsAMessage
  <1> QED BY <1>1, <1>2, DecisionFrame DEF PgInv

(* The poll goroutine starts to send an event. *)
LEMMA PollLemma ==
    ASSUME PgInv, NEW ev \in UserEvents, PollEvent(ev) PROVE PgInv'
  <1> USE DEF PollEvent, timerVars
  <1>1. PgTypeOK'
    BY ProgramAssumption DEF PgInv, PgTypeOK, Emitters, Msgs
  <1>2. OneLiveTimer' /\ EmitsAMessage'
    BY DEF PgInv, PgTypeOK, OneLiveTimer, EmitsAMessage, Emitters, Msgs
  <1> QED BY <1>1, <1>2, DecisionFrame DEF PgInv

(* The poll goroutine ends. *)
LEMMA PollFailsLemma == ASSUME PgInv, PollFails PROVE PgInv'
  <1> USE DEF PollFails, timerVars
  <1>1. PgTypeOK'
    BY DEF PgInv, PgTypeOK, Emitters
  <1>2. OneLiveTimer' /\ EmitsAMessage'
    BY DEF PgInv, PgTypeOK, OneLiveTimer, EmitsAMessage, Emitters
  <1> QED BY <1>1, <1>2, DecisionFrame DEF PgInv

(* A timer's goroutine starts to send the disarm message. *)
LEMMA TimerLemma == ASSUME PgInv, NEW k \in Timers, TimerFires(k) PROVE PgInv'
  <1> USE DEF TimerFires
  <1>1. PgTypeOK'
    BY DEF PgInv, PgTypeOK, Emitters, Msgs
  <1>2. OneLiveTimer'
    BY DEF PgInv, PgTypeOK, OneLiveTimer
  <1>3. EmitsAMessage'
    BY DEF PgInv, PgTypeOK, EmitsAMessage, Emitters, Msgs
  <1> QED BY <1>1, <1>2, <1>3, DecisionFrame DEF PgInv

(* The three channel operations of EmitMsg. *)
LEMMA EmitLemma ==
    ASSUME PgInv, NEW e \in Emitters,
           EmitSend(e) \/ EmitDropOldest(e) \/ EmitRetry(e)
    PROVE  PgInv'
  <1> USE DEF timerVars
  <1>1. emitMsg[e] \in Msgs
    BY DEF PgInv, EmitsAMessage, EmitSend, EmitDropOldest, EmitRetry
  <1>2. UNCHANGED <<now, quitArmed, quitArmedAt, timers, deadline, emitMsg,
                    quit, pgStopped, events, presses, hardExit>>
    BY DEF EmitSend, EmitDropOldest, EmitRetry
  <1>3. /\ emitPc' \in [Emitters -> {"idle", "send", "dropOldest", "retry",
                                     "exited"}]
        /\ \A f \in Emitters \ {e} : emitPc'[f] = emitPc[f]
    BY DEF PgInv, PgTypeOK, EmitSend, EmitDropOldest, EmitRetry
  <1>4. prio' \in Seq(Msgs) /\ Len(prio') <= PrioCap
    <2>1. prio \in Seq(Msgs) /\ Len(prio) \in Nat /\ Len(prio) <= PrioCap
      BY DEF PgInv, PgTypeOK
    <2>2. CASE prio' = prio
      BY <2>1, <2>2
    <2>3. CASE prio # <<>> /\ prio' = Tail(prio)
      BY <2>1, <2>3, TailLemma, ProgramAssumption
    <2>4. CASE Len(prio) < PrioCap /\ prio' = Append(prio, emitMsg[e])
      BY <1>1, <2>1, <2>4, ProgramAssumption
    <2> QED BY <2>2, <2>3, <2>4 DEF EmitSend, EmitDropOldest, EmitRetry
  <1>5. overflowed' \in BOOLEAN
    BY DEF PgInv, PgTypeOK, EmitSend, EmitDropOldest, EmitRetry
  <1>6. PgTypeOK'
    BY <1>2, <1>3, <1>4, <1>5 DEF PgInv, PgTypeOK
  <1>7. OneLiveTimer' /\ EmitsAMessage'
    BY <1>1, <1>2, <1>3 DEF PgInv, OneLiveTimer, EmitsAMessage
  <1> QED BY <1>2, <1>6, <1>7, DecisionFrame DEF PgInv

(* Whatever handleMsg makes of it, taking a message keeps the parts that   *)
(* do not concern the decision.                                            *)
LEMMA HandleLemma ==
    ASSUME PgInv, NEW msg, Handle(msg)
    PROVE  /\ prio' \in Seq(Msgs) /\ Len(prio') <= PrioCap
           /\ EmitsAMessage'
  <1>1. prio \in Seq(Msgs) /\ Len(prio) \in Nat /\ Len(prio) <= PrioCap
    BY DEF PgInv, PgTypeOK
  <1>2. prio' \in Seq(Msgs) /\ Len(prio') <= PrioCap
    BY <1>1, TailLemma, ProgramAssumption DEF Handle
  <1>3. EmitsAMessage'
    BY DEF PgInv, EmitsAMessage, Handle
  <1> QED BY <1>2, <1>3

(* Second press: the two last presses are the window apart. *)
LEMMA CtrlCQuitsLemma == ASSUME PgInv, CtrlCQuits PROVE PgInv'
  <1> USE DEF CtrlCQuits, timerVars
  <1>1. presses \in Seq(Nat) /\ now \in Nat /\ Len(presses) \in Nat
    BY DEF PgInv, PgTypeOK
  <1>2. PgTypeOK'
    BY <1>1, HandleLemma DEF PgInv, PgTypeOK, Handle, requestQuit
  <1>3. QuitJustified'
    <2>1. CASE quit = "none"
      <3>1. presses # <<>> /\ presses[Len(presses)] = quitArmedAt
        BY <2>1 DEF PgInv, ArmedByLastPress, inWindow
      <3>2. /\ Len(presses') = Len(presses) + 1
            /\ presses'[Len(presses) + 1] = now
            /\ presses'[Len(presses)] = quitArmedAt
            /\ Len(presses) >= 1
        BY <1>1, <3>1
      <3>3. now - quitArmedAt <= QuitWindow
        BY DEF inWindow
      <3> QED BY <1>1, <3>2, <3>3 DEF QuitJustified
    <2>2. CASE quit # "none"
      <3>1. quit' = quit
        BY <2>2 DEF requestQuit
      <3>2. \A i \in 1..Len(presses) : presses'[i] = presses[i]
        BY <1>1
      <3>3. Len(presses') = Len(presses) + 1
        BY <1>1
      <3> QED BY <1>1, <3>1, <3>2, <3>3 DEF PgInv, QuitJustified
    <2> QED BY <2>1, <2>2
  <1>4. OneLiveTimer'
    BY DEF PgInv, OneLiveTimer
  <1>5. ArmedByLastPress'
    BY DEF ArmedByLastPress, requestQuit
  <1> QED BY <1>2, <1>3, <1>4, <1>5, HandleLemma DEF PgInv

(* First press, or one too late: the flag is armed with this press, and    *)
(* every older timer is stopped.                                           *)
LEMMA CtrlCArmsLemma == ASSUME PgInv, CtrlCArms PROVE PgInv'
  <1> USE DEF CtrlCArms
  <1>1. presses \in Seq(Nat) /\ now \in Nat /\ Len(presses) \in Nat
    BY DEF PgInv, PgTypeOK
  <1>2. /\ Len(presses') = Len(presses) + 1
        /\ presses'[Len(presses) + 1] = now
        /\ \A i \in 1..Len(presses) : presses'[i] = presses[i]
        /\ presses' \in Seq(Nat) /\ presses' # <<>>
    BY <1>1
  <1>3. PgTypeOK'
    <2>1. timers' \in [Timers -> {"none", "armed", "stopped", "fired"}]
      BY DEF PgInv, PgTypeOK
    <2>2. deadline' \in [Timers -> Nat]
      <3>1. deadline \in [Timers -> Nat] /\ now + QuitWindow \in Nat
        BY <1>1, ProgramAssumption DEF PgInv, PgTypeOK
      <3> QED BY <3>1
    <2>3. now' = now /\ quitArmedAt' \in 0..now'
      BY <1>1 DEF Handle
    <2> QED BY <1>2, <2>1, <2>2, <2>3, HandleLemma DEF PgInv, PgTypeOK, Handle
  <1>4. QuitJustified'
    <2>1. SUFFICES ASSUME quit = "double"
                   PROVE  \E i \in 2..Len(presses') :
                            presses'[i] - presses'[i - 1] <= QuitWindow
      BY DEF QuitJustified
    <2>2. PICK i \in 2..Len(presses) :
             presses[i] - presses[i - 1] <= QuitWindow
      BY <2>1 DEF PgInv, QuitJustified
    <2>3. i \in 1..Len(presses) /\ i - 1 \in 1..Len(presses)
      BY <1>1, <2>2
    <2> QED BY <1>1, <1>2, <2>2, <2>3
  <1>5. OneLiveTimer'
    BY DEF OneLiveTimer
  <1>6. ArmedByLastPress'
    BY <1>2 DEF ArmedByLastPress
  <1> QED BY <1>3, <1>4, <1>5, <1>6, HandleLemma DEF PgInv

(* The other messages. *)
LEMMA OtherMsgLemma ==
    ASSUME PgInv, CtrlBackslash \/ QuitDisarm \/ ToModel PROVE PgInv'
  <1> USE DEF CtrlBackslash, QuitDisarm, ToModel, timerVars
  <1>1. PICK msg : Handle(msg)
    OBVIOUS
  <1>2. /\ quit' \in {"none", "double", "hard"}
        /\ quit' = "double" => quit = "double"
        /\ quit' = "none" => quit = "none"
        /\ quitArmed' \in {quitArmed, FALSE}
        /\ UNCHANGED <<timers, deadline, quitArmedAt, presses>>
    BY DEF PgInv, PgTypeOK, requestQuit
  <1>3. PgTypeOK'
    BY <1>1, <1>2, HandleLemma DEF PgInv, PgTypeOK, Handle
  <1>4. QuitJustified' /\ OneLiveTimer' /\ ArmedByLastPress'
    BY <1>2 DEF PgInv, QuitJustified, OneLiveTimer, ArmedByLastPress
  <1> QED BY <1>1, <1>3, <1>4, HandleLemma DEF PgInv

(* The scheduler stops, or nothing happens any more. *)
LEMMA EndLemma ==
    ASSUME PgInv, RunExits \/ UNCHANGED pgVars PROVE PgInv'
  <1> USE DEF RunExits, pgVars, timerVars
  <1>1. PgTypeOK'
    BY DEF PgInv, PgTypeOK
  <1>2. OneLiveTimer' /\ EmitsAMessage'
    BY DEF PgInv, OneLiveTimer, EmitsAMessage
  <1> QED BY <1>1, <1>2, DecisionFrame DEF PgInv

(* Every step keeps the invariant. *)
LEMMA NextLemma == ASSUME PgInv, [PgNext]_pgVars PROVE PgInv'
  BY ClockLemma, PollLemma, PollFailsLemma, TimerLemma, EmitLemma,
     CtrlCQuitsLemma, CtrlCArmsLemma, OtherMsgLemma, EndLemma
     DEF PgNext, Main, Quiet

(* The quit protocol is safe: Ctrl+C quits only if two presses were        *)
(* handled at most a quit window apart, and only the newest arming has a   *)
(* running timer, with channels that drop messages and timers that are     *)
(* late (handleCtrlC, EmitMsg), for every window and capacity.             *)
THEOREM QuitTheorem == PgSpec => []QuitSound
  <1>1. PgInit => PgInv
    BY InitLemma
  <1>2. PgInv /\ [PgNext]_pgVars => PgInv'
    BY NextLemma
  <1>3. PgInv => QuitSound
    BY DEF PgInv, QuitSound
  <1> QED BY <1>1, <1>2, <1>3, PTL DEF PgSpec
=============================================================================
