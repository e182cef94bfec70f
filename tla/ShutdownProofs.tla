--------------------------- MODULE ShutdownProofs ---------------------------
(***************************************************************************)
(* A session ends in order, for any number of workers and runs and any     *)
(* capacity of the control channel.                                        *)
(***************************************************************************)
EXTENDS Shutdown, SequenceTheorems, TLAPS

CmdKinds == {"start", "reader", "cancel"}

ShTypeOK ==
    /\ shPhase \in {"starting", "running", "stopping", "fini", "cleanup", "returned"}
    /\ shLane \in Seq(CmdKinds)
    /\ shWorker \in [ShWorkers -> CmdKinds \cup {"idle", "exited"}]
    /\ shResults \in Seq({"read", "done"})
    /\ shLoop \in {"none", "working", "sending", "gone"}
    /\ shCtrl \in Nat /\ shSubmits \in Nat

(* The chain of a run is one Cmd or one result at a time: loopStartCmd,    *)
(* then readers and their results in turn, until the result "done".        *)
Chain(x) == x \in {"start", "reader"}
LaneChain == \E i \in 1..Len(shLane) : Chain(shLane[i])
WorkerChain == \E w \in ShWorkers : Chain(shWorker[w])

OneChain ==
    /\ \A i, j \in 1..Len(shLane) : Chain(shLane[i]) /\ Chain(shLane[j]) => i = j
    /\ \A w, v \in ShWorkers : Chain(shWorker[w]) /\ Chain(shWorker[v]) => w = v
    /\ Len(shResults) <= 1
    /\ ~(LaneChain /\ WorkerChain)
    /\ shResults # <<>> => ~LaneChain /\ ~WorkerChain
    /\ ~shStreaming => ~LaneChain /\ ~WorkerChain /\ shResults = <<>>

(* Readers and results exist for a run whose goroutine was started, and a  *)
(* run that is gone has closed its channel.                                *)
RunInv ==
    /\ shLoop = "none" =>
        /\ \A i \in 1..Len(shLane) : shLane[i] # "reader"
        /\ \A w \in ShWorkers : shWorker[w] # "reader"
        /\ shResults = <<>>
    /\ shLoop = "gone" => shClosed

(* Before the first submit there is nothing to run. *)
SubmitInv ==
    shSubmits = 0 =>
        /\ \A i \in 1..Len(shLane) : shLane[i] # "start"
        /\ \A w \in ShWorkers : shWorker[w] # "start"
        /\ shLoop = "none"

(* Who is gone in which phase. *)
ShPhaseInv ==
    /\ shPhase = "starting" => \A w \in ShWorkers : shWorker[w] = "idle"
    /\ shPhase = "fini" => \A w \in ShWorkers : shWorker[w] = "exited"
    /\ shPhase \in {"cleanup", "returned"} =>
        \A w \in ShWorkers : shWorker[w] \in {"idle", "exited"}
    /\ shPhase = "returned" /\ shSubmits > 0 => shRunCtx

(* The inductive invariant. *)
ShInv == ShTypeOK /\ OneChain /\ RunInv /\ SubmitInv /\ ShPhaseInv

-----------------------------------------------------------------------------
(* Initially nothing runs. *)
LEMMA ShInitLemma == ASSUME ShInit PROVE ShInv
  <1> USE DEF ShInit
  <1>1. ShTypeOK
    BY DEF ShTypeOK
  <1>2. OneChain /\ RunInv /\ SubmitInv /\ ShPhaseInv
    BY DEF OneChain, RunInv, SubmitInv, ShPhaseInv, LaneChain, WorkerChain, Chain
  <1> QED BY <1>1, <1>2 DEF ShInv

(* The chain survives a step that leaves it alone. *)
LEMMA ChainFrame ==
    ASSUME OneChain, UNCHANGED <<shLane, shWorker, shResults, shStreaming>>
    PROVE  OneChain'
  BY DEF OneChain, LaneChain, WorkerChain

(* Program.Run's own goroutine and the poller. *)
LEMMA RunGoroutine ==
    ASSUME ShInv,
           RunStarts \/ CtxCancelled \/ WorkersJoined \/ TerminalRestored
             \/ ProgramCleanup \/ PollerSteps \/ UNCHANGED shVars
    PROVE  ShInv'
  <1> USE DEF RunStarts, CtxCancelled, WorkersJoined, TerminalRestored,
              ProgramCleanup, PollerSteps, shVars, shRunVars
  <1>1. ShTypeOK'
    BY DEF ShInv, ShTypeOK
  <1>2. RunInv' /\ SubmitInv'
    BY DEF ShInv, RunInv, SubmitInv
  <1>3. ShPhaseInv'
    BY DEF ShInv, ShPhaseInv, ShTypeOK, WorkersGone
  <1> QED BY <1>1, <1>2, <1>3, ChainFrame DEF ShInv

(* The goroutine of the run. *)
LEMMA LoopGoroutine ==
    ASSUME ShInv, LoopWorks \/ LoopSends PROVE ShInv'
  <1> USE DEF LoopWorks, LoopSends, send, runEnds
  <1>1. /\ shLoop \in {"working", "sending"}
        /\ shLoop' \in {"working", "sending", "gone"}
        /\ shLoop' = "gone" => shClosed'
        /\ shCtrl' \in {shCtrl, shCtrl + 1}
        /\ UNCHANGED <<shPhase, shLane, shWorker, shResults, shStreaming,
                       shSubmits, shRunCtx>>
    OBVIOUS
  <1>2. ShTypeOK'
    BY <1>1 DEF ShInv, ShTypeOK
  <1>3. RunInv' /\ SubmitInv' /\ ShPhaseInv'
    BY <1>1 DEF ShInv, RunInv, SubmitInv, ShPhaseInv
  <1> QED BY <1>1, <1>2, <1>3, ChainFrame DEF ShInv

(* A Cmd is scheduled at the end of the lane. *)
LEMMA LaneAppend ==
    ASSUME ShTypeOK, NEW x \in CmdKinds
    PROVE  LET t == Append(shLane, x)
           IN  /\ t \in Seq(CmdKinds)
               /\ Len(shLane) \in Nat /\ Len(t) = Len(shLane) + 1
               /\ \A i \in 1..Len(shLane) : t[i] = shLane[i]
               /\ t[Len(shLane) + 1] = x
  BY AppendProperties DEF ShTypeOK

(* Enter: a new run. *)
LEMMA SubmittedStep == ASSUME ShInv, Submitted PROVE ShInv'
  <1> USE DEF Submitted
  <1>1. /\ shLane' \in Seq(CmdKinds)
        /\ Len(shLane) \in Nat /\ Len(shLane') = Len(shLane) + 1
        /\ \A i \in 1..Len(shLane) : shLane'[i] = shLane[i]
        /\ shLane'[Len(shLane) + 1] = "start"
    BY LaneAppend DEF ShInv, CmdKinds
  <1>2. ~LaneChain /\ ~WorkerChain /\ shResults = <<>>
    BY DEF ShInv, OneChain
  <1>3. ShTypeOK'
    BY <1>1 DEF ShInv, ShTypeOK
  <1>4. OneChain'
    BY <1>1, <1>2 DEF OneChain, LaneChain, WorkerChain, Chain
  <1>5. RunInv'
    BY <1>1, <1>2 DEF RunInv, LaneChain, WorkerChain, Chain
  <1>6. SubmitInv' /\ ShPhaseInv'
    BY DEF ShInv, SubmitInv, ShPhaseInv, ShTypeOK
  <1> QED BY <1>3, <1>4, <1>5, <1>6 DEF ShInv

(* Esc. *)
LEMMA CancelStep == ASSUME ShInv, CancelPressed PROVE ShInv'
  <1> USE DEF CancelPressed, shRunVars
  <1>1. /\ shLane' \in Seq(CmdKinds)
        /\ Len(shLane) \in Nat /\ Len(shLane') = Len(shLane) + 1
        /\ \A i \in 1..Len(shLane) : shLane'[i] = shLane[i]
        /\ shLane'[Len(shLane) + 1] = "cancel"
    BY LaneAppend DEF ShInv, CmdKinds
  <1>2. ShTypeOK'
    BY <1>1 DEF ShInv, ShTypeOK
  <1>3. LaneChain' <=> LaneChain
    BY <1>1 DEF LaneChain, Chain
  <1>4. OneChain'
    BY <1>1, <1>3 DEF ShInv, OneChain, WorkerChain, Chain
  <1>5. RunInv' /\ SubmitInv' /\ ShPhaseInv'
    BY <1>1 DEF ShInv, RunInv, SubmitInv, ShPhaseInv
  <1> QED BY <1>2, <1>4, <1>5 DEF ShInv

(* A result reaches the model: the chain goes on with a reader, or ends. *)
LEMMA ResultStep == ASSUME ShInv, ResultDispatched PROVE ShInv'
  <1> USE DEF ResultDispatched, shRunVars
  <1>1. /\ shResults' \in Seq({"read", "done"}) /\ shResults' = <<>>
    <2>1. shResults \in Seq({"read", "done"}) /\ Len(shResults) <= 1
      BY DEF ShInv, ShTypeOK, OneChain
    <2>2. /\ shResults' \in Seq({"read", "done"}) /\ Len(shResults') = Len(shResults) - 1
          /\ Len(shResults') \in Nat /\ Len(shResults) \in Nat
      BY <2>1, HeadTailProperties
    <2> QED BY <2>1, <2>2, EmptySeq
  <1>2. ~LaneChain /\ ~WorkerChain /\ shLoop # "none"
    BY DEF ShInv, OneChain, RunInv
  <1>3. CASE Head(shResults) = "done"
    <2>1. shLane' = shLane /\ shStreaming' = FALSE
      BY <1>3
    <2>2. ShTypeOK'
      BY <1>1, <2>1 DEF ShInv, ShTypeOK
    <2>3. OneChain'
      BY <1>1, <1>2, <2>1 DEF ShInv, OneChain, LaneChain, WorkerChain
    <2>4. RunInv' /\ SubmitInv' /\ ShPhaseInv'
      BY <1>1, <2>1 DEF ShInv, RunInv, SubmitInv, ShPhaseInv
    <2> QED BY <2>2, <2>3, <2>4 DEF ShInv
  <1>4. CASE Head(shResults) # "done"
    <2>1. /\ shLane' \in Seq(CmdKinds)
          /\ Len(shLane) \in Nat /\ Len(shLane') = Len(shLane) + 1
          /\ \A i \in 1..Len(shLane) : shLane'[i] = shLane[i]
          /\ shLane'[Len(shLane) + 1] = "reader"
      BY <1>4, LaneAppend DEF ShInv, CmdKinds
    <2>2. ShTypeOK'
      BY <1>1, <2>1 DEF ShInv, ShTypeOK
    <2>3. shStreaming
      BY DEF ShInv, OneChain
    <2>4. OneChain'
      BY <1>1, <1>2, <1>4, <2>1, <2>3 DEF ShInv, OneChain, LaneChain, WorkerChain, Chain
    <2>5. RunInv' /\ ShPhaseInv'
      BY <1>2 DEF ShInv, RunInv, ShPhaseInv
    <2>6. SubmitInv'
      BY <1>2 DEF ShInv, SubmitInv
    <2> QED BY <2>2, <2>4, <2>5, <2>6 DEF ShInv
  <1> QED BY <1>3, <1>4

(* The frame loop ends: some of the lane is already in the jobs channel. *)
LEMMA LeaveStep == ASSUME ShInv, LoopLeaves PROVE ShInv'
  <1> USE DEF LoopLeaves, shRunVars
  <1>1. PICK n \in 0..Len(shLane) : shLane' = SubSeq(shLane, 1, n)
    OBVIOUS
  <1>2. /\ shLane' \in Seq(CmdKinds) /\ Len(shLane') = n /\ Len(shLane) \in Nat
        /\ \A i \in 1..n : shLane'[i] = shLane[i] /\ i \in 1..Len(shLane)
    BY <1>1, SubSeqProperties DEF ShInv, ShTypeOK
  <1>3. ShTypeOK'
    BY <1>2 DEF ShInv, ShTypeOK
  <1>4. LaneChain' => LaneChain
    BY <1>2 DEF LaneChain, Chain
  <1>5. OneChain'
    BY <1>2, <1>4 DEF ShInv, OneChain, WorkerChain
  <1>6. RunInv' /\ SubmitInv' /\ ShPhaseInv'
    BY <1>2 DEF ShInv, RunInv, SubmitInv, ShPhaseInv
  <1> QED BY <1>3, <1>5, <1>6 DEF ShInv

(* A worker takes a Cmd. *)
LEMMA TakesStep ==
    ASSUME ShInv, NEW w \in ShWorkers, WorkerTakes(w) PROVE ShInv'
  <1> USE DEF WorkerTakes, shRunVars
  <1> DEFINE c == Head(shLane)
  <1>1. /\ c \in CmdKinds /\ c = shLane[1] /\ 1 \in 1..Len(shLane)
        /\ shLane' \in Seq(CmdKinds) /\ Len(shLane) \in Nat
        /\ Len(shLane') = Len(shLane) - 1
        /\ \A i \in 1..Len(shLane') : shLane'[i] = shLane[i + 1]
        /\ \A i \in 1..Len(shLane') : i + 1 \in 1..Len(shLane) /\ i + 1 # 1
    BY HeadTailProperties DEF ShInv, ShTypeOK
  <1>2. /\ shWorker[w] = "idle" /\ shWorker'[w] = c
        /\ \A v \in ShWorkers : v # w => shWorker'[v] = shWorker[v]
        /\ shWorker' \in [ShWorkers -> CmdKinds \cup {"idle", "exited"}]
    BY <1>1 DEF ShInv, ShTypeOK
  <1> HIDE DEF c
  <1>3. ShTypeOK'
    BY <1>1, <1>2 DEF ShInv, ShTypeOK
  <1>4. OneChain'
    <2>1. CASE Chain(c)
      <3>1. LaneChain /\ ~WorkerChain /\ shResults = <<>> /\ shStreaming
        BY <1>1, <2>1 DEF ShInv, OneChain, LaneChain
      <3>2. \A i \in 1..Len(shLane') : ~Chain(shLane'[i])
        BY <1>1, <2>1 DEF ShInv, OneChain
      <3>3. \A v \in ShWorkers : v # w => ~Chain(shWorker'[v])
        BY <1>2, <3>1 DEF WorkerChain
      <3> QED BY <3>1, <3>2, <3>3 DEF ShInv, OneChain, LaneChain, WorkerChain
    <2>2. CASE ~Chain(c)
      <3>1. WorkerChain' => WorkerChain
        BY <1>2, <2>2 DEF WorkerChain
      <3>2. LaneChain' => LaneChain
        BY <1>1 DEF LaneChain
      <3>3. \A v \in ShWorkers : Chain(shWorker'[v]) => Chain(shWorker[v])
        BY <1>2, <2>2
      <3>4. \A i, j \in 1..Len(shLane') :
               Chain(shLane'[i]) /\ Chain(shLane'[j]) => i = j
        BY <1>1 DEF ShInv, OneChain
      <3>5. \A v, u \in ShWorkers :
               Chain(shWorker'[v]) /\ Chain(shWorker'[u]) => v = u
        BY <3>3 DEF ShInv, OneChain
      <3> QED BY <3>1, <3>2, <3>4, <3>5 DEF ShInv, OneChain
    <2> QED BY <2>1, <2>2
  <1>5. RunInv' /\ SubmitInv'
    BY <1>1, <1>2 DEF ShInv, RunInv, SubmitInv
  <1>6. ShPhaseInv'
    BY DEF ShInv, ShPhaseInv
  <1> QED BY <1>3, <1>4, <1>5, <1>6 DEF ShInv

(* A worker leaves. *)
LEMMA ExitsStep ==
    ASSUME ShInv, NEW w \in ShWorkers, WorkerExits(w) PROVE ShInv'
  <1> USE DEF WorkerExits, shRunVars
  <1>1. /\ shWorker[w] = "idle" /\ shWorker'[w] = "exited"
        /\ \A v \in ShWorkers : v # w => shWorker'[v] = shWorker[v]
        /\ shWorker' \in [ShWorkers -> CmdKinds \cup {"idle", "exited"}]
    BY DEF ShInv, ShTypeOK
  <1>2. ShTypeOK'
    BY <1>1 DEF ShInv, ShTypeOK
  <1>3. \A v \in ShWorkers : Chain(shWorker'[v]) <=> Chain(shWorker[v])
    BY <1>1 DEF Chain
  <1>4. OneChain'
    BY <1>3 DEF ShInv, OneChain, LaneChain, WorkerChain
  <1>5. RunInv' /\ SubmitInv' /\ ShPhaseInv'
    BY <1>1 DEF ShInv, RunInv, SubmitInv, ShPhaseInv
  <1> QED BY <1>2, <1>4, <1>5 DEF ShInv

(* A Cmd of the chain ends: its result takes its place, or is lost. *)
LEMMA DeliverLemma ==
    ASSUME ShInv, NEW w \in ShWorkers, Chain(shWorker[w]),
           NEW msg \in {"read", "done"}, Deliver(w, msg),
           UNCHANGED <<shLane, shStreaming>>
    PROVE  /\ OneChain'
           /\ shResults' \in Seq({"read", "done"})
           /\ shWorker' \in [ShWorkers -> CmdKinds \cup {"idle", "exited"}]
           /\ shWorker'[w] = "idle"
           /\ \A v \in ShWorkers : v # w =>
                shWorker'[v] = shWorker[v] /\ ~Chain(shWorker[v])
           /\ \A i \in 1..Len(shLane) : ~Chain(shLane[i])
  <1> USE DEF Deliver
  <1>1. /\ shWorker'[w] = "idle"
        /\ \A v \in ShWorkers : v # w => shWorker'[v] = shWorker[v]
        /\ shWorker' \in [ShWorkers -> CmdKinds \cup {"idle", "exited"}]
    BY DEF ShInv, ShTypeOK
  <1>2. shResults = <<>> /\ ~LaneChain /\ shStreaming
    BY DEF ShInv, OneChain, WorkerChain
  <1>3. \A v \in ShWorkers : v # w => ~Chain(shWorker[v])
    BY DEF ShInv, OneChain
  <1>4. shResults' \in {shResults, Append(shResults, msg)}
    OBVIOUS
  <1>5. shResults' \in Seq({"read", "done"}) /\ Len(shResults') <= 1
    <2>1. shResults \in Seq({"read", "done"}) /\ Len(shResults) = 0
      BY <1>2
    <2>2. /\ Append(shResults, msg) \in Seq({"read", "done"})
          /\ Len(Append(shResults, msg)) = 0 + 1
      BY <2>1, AppendProperties
    <2>3. CASE shResults' = shResults
      BY <2>1, <2>3
    <2>4. CASE shResults' = Append(shResults, msg)
      <3> HIDE DEF Deliver
      <3>1. 0 + 1 <= 1
        OBVIOUS
      <3> QED BY <2>2, <2>4, <3>1
    <2> QED BY <1>4, <2>3, <2>4
  <1>6. \A v \in ShWorkers : ~Chain(shWorker'[v])
    BY <1>1, <1>3 DEF Chain
  <1>7. ~WorkerChain' /\ ~LaneChain'
    BY <1>2, <1>6 DEF WorkerChain, LaneChain
  <1>8. OneChain'
    BY <1>2, <1>5, <1>6, <1>7 DEF ShInv, OneChain
  <1> QED BY <1>1, <1>2, <1>3, <1>5, <1>8 DEF LaneChain

(* loopStartCmd. *)
LEMMA StartStep ==
    ASSUME ShInv, NEW w \in ShWorkers, StartRuns(w) PROVE ShInv'
  <1> USE DEF StartRuns
  <1>1. Chain(shWorker[w])
    BY DEF Chain
  <1>2. /\ OneChain' /\ shResults' \in Seq({"read", "done"})
        /\ shWorker' \in [ShWorkers -> CmdKinds \cup {"idle", "exited"}]
        /\ shWorker'[w] = "idle"
        /\ \A v \in ShWorkers : v # w => shWorker'[v] = shWorker[v]
    BY <1>1, DeliverLemma
  <1>3. ShTypeOK'
    BY <1>2 DEF ShInv, ShTypeOK
  <1>4. RunInv' /\ SubmitInv'
    BY <1>2 DEF ShInv, RunInv, SubmitInv
  <1>5. ShPhaseInv'
    BY <1>2 DEF ShInv, ShPhaseInv
  <1> QED BY <1>2, <1>3, <1>4, <1>5 DEF ShInv

(* armReader. *)
LEMMA ReaderStep ==
    ASSUME ShInv, NEW w \in ShWorkers, ReaderReceives(w) PROVE ShInv'
  <1> USE DEF ReaderReceives
  <1>1. Chain(shWorker[w]) /\ shLoop # "none"
    BY DEF Chain, ShInv, RunInv
  <1>2. /\ OneChain' /\ shResults' \in Seq({"read", "done"})
        /\ shWorker' \in [ShWorkers -> CmdKinds \cup {"idle", "exited"}]
        /\ shWorker'[w] = "idle"
        /\ \A v \in ShWorkers : v # w => shWorker'[v] = shWorker[v]
    BY <1>1, DeliverLemma
  <1>3. shCtrl' \in Nat
    BY DEF ShInv, ShTypeOK
  <1>4. ShTypeOK'
    BY <1>2, <1>3 DEF ShInv, ShTypeOK
  <1>5. RunInv' /\ SubmitInv'
    BY <1>1, <1>2 DEF ShInv, RunInv, SubmitInv
  <1>6. ShPhaseInv'
    BY <1>2 DEF ShInv, ShPhaseInv
  <1> QED BY <1>2, <1>4, <1>5, <1>6 DEF ShInv

(* The Cmd of handleCancel. *)
LEMMA CancelRunsStep ==
    ASSUME ShInv, NEW w \in ShWorkers, CancelRuns(w) PROVE ShInv'
  <1> USE DEF CancelRuns
  <1>1. /\ shWorker[w] = "cancel" /\ shWorker'[w] = "idle"
        /\ \A v \in ShWorkers : v # w => shWorker'[v] = shWorker[v]
        /\ shWorker' \in [ShWorkers -> CmdKinds \cup {"idle", "exited"}]
    BY DEF ShInv, ShTypeOK
  <1>2. ShTypeOK'
    BY <1>1 DEF ShInv, ShTypeOK
  <1>3. \A v \in ShWorkers : Chain(shWorker'[v]) <=> Chain(shWorker[v])
    BY <1>1 DEF Chain
  <1>4. OneChain'
    BY <1>3 DEF ShInv, OneChain, LaneChain, WorkerChain
  <1>5. RunInv' /\ SubmitInv' /\ ShPhaseInv'
    BY <1>1 DEF ShInv, RunInv, SubmitInv, ShPhaseInv
  <1> QED BY <1>2, <1>4, <1>5 DEF ShInv

(* Every step keeps the invariant. *)
LEMMA ShNextLemma == ASSUME ShInv, [ShNext]_shVars PROVE ShInv'
  BY RunGoroutine, LoopGoroutine, SubmittedStep, CancelStep, ResultStep,
     LeaveStep, TakesStep, ExitsStep, StartStep, ReaderStep, CancelRunsStep
     DEF ShNext, UiStep, ShWorkerStep, WorkerRuns, ShIdle

(* A session ends in order: once Program.Run has returned no Cmd runs and  *)
(* a run still unwinding has its context cancelled, and at no time does a  *)
(* reader on a worker wait for a run that is gone or that waits for the    *)
(* reader (workerPool.Stop, armReader, send), with results that get lost.  *)
THEOREM SessionEndTheorem == ShSpec => []ShutdownSound
  <1>1. ShInit => ShInv
    BY ShInitLemma
  <1>2. ShInv /\ [ShNext]_shVars => ShInv'
    BY ShNextLemma
  <1>3. ShInv => ShutdownSound
    <2> SUFFICES ASSUME ShInv PROVE ShutdownSound
      OBVIOUS
    <2>1. NothingRunsAfterReturn
      BY DEF NothingRunsAfterReturn, ShInv, ShPhaseInv, SubmitInv, ShTypeOK
    <2>2. NoCircularWait
      BY ShutdownAssumption DEF NoCircularWait, ShInv, RunInv, ShTypeOK
    <2> QED BY <2>1, <2>2 DEF ShutdownSound
  <1> QED BY <1>1, <1>2, <1>3, PTL DEF ShSpec
=============================================================================
