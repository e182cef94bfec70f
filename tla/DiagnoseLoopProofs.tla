------------------------- MODULE DiagnoseLoopProofs -------------------------
(***************************************************************************)
(* Proofs about DiagnoseLoop, for every registry, every set of inputs and  *)
(* filters, every MaxTurns, MaxCalls and DedupWindow.                      *)
(***************************************************************************)
EXTENDS DiagnoseLoop, SequenceTheorems, NaturalsInduction, WellFoundedInduction, TLAPS

(* What a verdict must be for the state it is given in. *)
Verdict(r) ==
    /\ r \in [finish : Finishes, code : Codes]
    /\ r # NoResult
    /\ r.finish = "Cancelled" => ctx = "Canceled"
    /\ r.code = "TOTAL_TIMEOUT" => total = "DeadlineExceeded"
    /\ r.code = "MAX_TURNS" => Len(msgs) = 2 * MaxTurns

(* The invariants that speak of nothing but the data of the run. *)
DataInv ==
    /\ PairedTranscript
    /\ AnswersInOrder
    /\ ScopeEnforced
    /\ ScopeThreading
    /\ CacheInv
    /\ CachedIsFresh

(* The data invariants survive a step that leaves the data alone. *)
LEMMA DataFrame ==
    ASSUME DataInv, UNCHANGED <<turn, dataVars>>
    PROVE  DataInv'
  <1> USE DEF DataInv, dataVars
  <1>1. PairedTranscript' /\ AnswersInOrder'
    BY DEF PairedTranscript, AnswersInOrder
  <1>2. ScopeEnforced' /\ ScopeThreading'
    BY DEF ScopeEnforced, ScopeThreading, scopeDenied
  <1>3. CacheInv' /\ CachedIsFresh'
    BY DEF CacheInv, CachedIsFresh, cacheable
  <1> QED BY <1>1, <1>2, <1>3

(* Leaving Run with a verdict keeps the invariant, once the data does. *)
LEMMA ReturnLemma ==
    ASSUME IInv, NEW r, Verdict(r), Return(r), pc # "done",
           finishes' \in {finishes, finishes + 1},
           UNCHANGED <<ctx, total, msgs>>, TypeOK', DataInv'
    PROVE  IInv'
  <1>1. PhaseInv'
    BY DEF PhaseInv, IInv, Return
  <1>2. TruthfulVerdict'
    BY DEF TruthfulVerdict, Verdict, Return, IInv
  <1> QED BY <1>1, <1>2 DEF IInv, DataInv

(* The same for a return that leaves the data of the run alone. *)
LEMMA ReturnFrame ==
    ASSUME IInv, NEW r, Verdict(r), Return(r), pc # "done",
           finishes' \in {finishes, finishes + 1}, texts' \in 0..MaxTexts,
           UNCHANGED <<ctx, total, turn, dataVars>>
    PROVE  IInv'
  <1>1. DataInv'
    BY DataFrame DEF IInv, DataInv
  <1>2. TypeOK'
    BY DEF TypeOK, IInv, Return, Verdict, dataVars, PhaseInv
  <1> QED BY <1>1, <1>2, ReturnLemma DEF dataVars

(* The verdicts the helpers of loop.go hand out. *)
LEMMA ClassifyLemma ==
    ASSUME NEW e \in {"error", "DeadlineExceeded", "Canceled"},
           e = "Canceled" => total # "live", PhaseInv, TypeOK
    PROVE  Verdict(classifyTerminal(e))
  BY DEF classifyTerminal, Finishes, Codes, NoResult, PhaseInv, TypeOK, Verdict

(* Whatever error a stream reports, its classification is truthful. *)
LEMMA StreamErrLemma ==
    ASSUME IInv, NEW e \in StreamErrs PROVE Verdict(classifyTerminal(e))
  BY ClassifyLemma DEF StreamErrs, CtxErrs, IInv, PhaseInv

(* So is that of an error of emit. *)
LEMMA EmitErrLemma ==
    ASSUME NEW e \in EmitErrs PROVE Verdict(classifyEmitErr(e))
  BY DEF classifyEmitErr, EmitErrs, Finishes, Codes, NoResult, Verdict

(* A verdict that claims neither a cancel nor a timeout is truthful. *)
LEMMA PlainVerdict ==
    ASSUME NEW f \in Finishes \ {"Unset", "Cancelled"},
           NEW c \in {"none", "UNEXPECTED_PAUSE", "TOOL_UNKNOWN"}
    PROVE  Verdict([finish |-> f, code |-> c])
  BY DEF Finishes, Codes, NoResult, Verdict

(* The invariant holds when Run starts. *)
LEMMA InitInv == Init => IInv
  <1> SUFFICES ASSUME Init PROVE IInv
    OBVIOUS
  <1> USE BoundsAssumption DEF Init, EmptyMap
  <1>1. TypeOK
    <2>1. msgs \in Seq(Messages) /\ toolUses \in Seq(Keys) /\ results \in Seq(Results)
      OBVIOUS
    <2>2. result \in [finish : Finishes, code : Codes]
      BY DEF NoResult, Finishes, Codes
    <2>3. DOMAIN cache = {} /\ DOMAIN lastGood = {}
      OBVIOUS
    <2> QED BY <2>1, <2>2, <2>3 DEF TypeOK, MaybeFilter
  <1>2. PhaseInv
    BY DEF PhaseInv
  <1>3. PairedTranscript /\ AnswersInOrder
    BY DEF PairedTranscript, AnswersInOrder
  <1>4. ScopeEnforced /\ ScopeThreading
    BY DEF ScopeEnforced, ScopeThreading
  <1>5. CacheInv /\ CachedIsFresh
    BY DEF CacheInv, CachedIsFresh
  <1>6. TruthfulVerdict
    BY DEF TruthfulVerdict, NoResult
  <1> QED BY <1>1, <1>2, <1>3, <1>4, <1>5, <1>6 DEF IInv

(* Steps that leave the data of the run alone and stay in Run. *)
LEMMA StayFrame ==
    ASSUME IInv, pc \in {"turnStart", "open", "drain"},
           pc' \in {"turnStart", "open", "drain"}, texts' \in 0..MaxTexts,
           UNCHANGED <<ctx, total, turn, dataVars, finishes, result>>
    PROVE  IInv'
  <1>1. DataInv'
    BY DataFrame DEF IInv, DataInv
  <1>2. TypeOK'
    BY DEF TypeOK, IInv, dataVars
  <1>3. PhaseInv' /\ TruthfulVerdict'
    BY DEF PhaseInv, TruthfulVerdict, IInv, dataVars
  <1> QED BY <1>1, <1>2, <1>3 DEF IInv, DataInv

(* TurnStart keeps the invariant. *)
LEMMA TurnStartInv == IInv /\ TurnStart => IInv'
  <1> SUFFICES ASSUME IInv, TurnStart PROVE IInv'
    OBVIOUS
  <1>0. texts' \in 0..MaxTexts
    BY DEF TurnStart, IInv, TypeOK
  <1>1. CASE pc' = "open" /\ UNCHANGED <<finishes, result>>
    BY <1>0, <1>1, StayFrame DEF TurnStart
  <1>2. CASE ReturnEmitErr
    BY <1>0, <1>2, EmitErrLemma, ReturnFrame DEF TurnStart, ReturnEmitErr
  <1> QED BY <1>1, <1>2 DEF TurnStart, Emit

(* OpenStream keeps the invariant. *)
LEMMA OpenStreamInv == IInv /\ OpenStream => IInv'
  <1> SUFFICES ASSUME IInv, OpenStream PROVE IInv'
    OBVIOUS
  <1>0. texts' \in 0..MaxTexts
    BY DEF OpenStream, IInv, TypeOK
  <1>1. CASE pc' = "drain" /\ UNCHANGED <<finishes, result>>
    BY <1>0, <1>1, StayFrame DEF OpenStream
  <1>2. CASE \E e \in StreamErrs : Finish(classifyTerminal(e))
    BY <1>0, <1>2, StreamErrLemma, ReturnFrame DEF OpenStream, Finish
  <1> QED BY <1>1, <1>2 DEF OpenStream

(* DrainText keeps the invariant. *)
LEMMA DrainTextInv == IInv /\ DrainText => IInv'
  <1> SUFFICES ASSUME IInv, DrainText PROVE IInv'
    OBVIOUS
  <1>0. texts' \in 0..MaxTexts
    BY BoundsAssumption DEF DrainText, IInv, TypeOK
  <1>1. CASE pc' = "drain" /\ UNCHANGED <<finishes, result>>
    BY <1>0, <1>1, StayFrame DEF DrainText
  <1>2. CASE ReturnEmitErr
    BY <1>0, <1>2, EmitErrLemma, ReturnFrame DEF DrainText, ReturnEmitErr
  <1> QED BY <1>1, <1>2 DEF DrainText, Emit

(* StreamEnd keeps the invariant. *)
LEMMA StreamEndInv == IInv /\ StreamEnd => IInv'
  <1> SUFFICES ASSUME IInv, StreamEnd PROVE IInv'
    OBVIOUS
  <1>0. texts' \in 0..MaxTexts /\ pc # "done"
    BY DEF StreamEnd, IInv, TypeOK
  <1>1. PICK r : Verdict(r) /\ Finish(r)
    BY StreamErrLemma, PlainVerdict DEF StreamEnd, Finishes
  <1> QED BY <1>0, <1>1, ReturnFrame DEF StreamEnd, Finish

(* ToolUseEmpty keeps the invariant. *)
LEMMA ToolUseEmptyInv == IInv /\ ToolUseEmpty => IInv'
  <1> SUFFICES ASSUME IInv, ToolUseEmpty PROVE IInv'
    OBVIOUS
  <1>0. texts' \in 0..MaxTexts
    BY DEF ToolUseEmpty, IInv, TypeOK
  <1>1. Verdict([finish |-> "Error", code |-> "none"])
    BY PlainVerdict DEF Finishes
  <1> QED BY <1>0, <1>1, ReturnFrame DEF ToolUseEmpty, Finish

(* ToolUseUnknown keeps the invariant. *)
LEMMA ToolUseUnknownInv ==
    ASSUME IInv, NEW uses, ToolUseUnknown(uses) PROVE IInv'
  <1>0. texts' \in 0..MaxTexts
    BY DEF ToolUseUnknown, IInv, TypeOK
  <1>1. Verdict([finish |-> "ToolUse", code |-> "TOOL_UNKNOWN"])
    BY PlainVerdict DEF Finishes
  <1> QED BY <1>0, <1>1, ReturnFrame DEF ToolUseUnknown, Finish

(* MaxTurnsReached keeps the invariant. *)
LEMMA MaxTurnsReachedInv == IInv /\ MaxTurnsReached => IInv'
  <1> SUFFICES ASSUME IInv, MaxTurnsReached PROVE IInv'
    OBVIOUS
  <1>0. texts' \in 0..MaxTexts
    BY DEF MaxTurnsReached, IInv, TypeOK
  <1>1. Verdict([finish |-> "Error", code |-> "MAX_TURNS"])
    BY DEF MaxTurnsReached, IInv, PhaseInv, Verdict, Finishes, Codes, NoResult
  <1> QED BY <1>0, <1>1, ReturnFrame DEF MaxTurnsReached, Finish

(* ExecCachedLate keeps the invariant. *)
LEMMA ExecCachedLateInv == IInv /\ ExecCachedLate => IInv'
  <1> SUFFICES ASSUME IInv, ExecCachedLate PROVE IInv'
    OBVIOUS
  <1>0. texts' \in 0..MaxTexts
    BY DEF ExecCachedLate, IInv, TypeOK
  <1>1. Verdict(classifyTerminal(total))
    BY ClassifyLemma DEF ExecCachedLate, IInv, TypeOK
  <1> QED BY <1>0, <1>1, ReturnFrame DEF ExecCachedLate, Finish

(* ToolUseAccept keeps the invariant. *)
LEMMA ToolUseAcceptInv ==
    ASSUME IInv, NEW uses \in CallSeqs, ToolUseAccept(uses) PROVE IInv'
  <1> USE DEF ToolUseAccept, IInv
  <1>1. PICK n \in 1..MaxCalls : uses \in [1..n -> Calls]
    BY DEF CallSeqs
  <1>2. uses \in [1..n -> Keys] /\ n \in Nat
    BY <1>1, BoundsAssumption DEF Calls, Keys
  <1>3. uses \in Seq(Keys) /\ Len(uses) = n /\ n > 0
    BY <1>1, <1>2
  <1>4. TypeOK'
    BY <1>3 DEF TypeOK
  <1>5. PhaseInv'
    BY <1>3 DEF PhaseInv
  <1>6. PairedTranscript' /\ AnswersInOrder'
    BY <1>3 DEF PairedTranscript, AnswersInOrder, PhaseInv
  <1>7. ScopeEnforced' /\ ScopeThreading'
    BY DEF ScopeEnforced, ScopeThreading, scopeDenied
  <1>8. CacheInv' /\ CachedIsFresh'
    BY DEF CacheInv, CachedIsFresh, cacheable
  <1>9. TruthfulVerdict'
    BY DEF TruthfulVerdict, PhaseInv
  <1> QED BY <1>4, <1>5, <1>6, <1>7, <1>8, <1>9

(* EmitCall keeps the invariant. *)
LEMMA EmitCallInv == IInv /\ EmitCall => IInv'
  <1> SUFFICES ASSUME IInv, EmitCall PROVE IInv'
    OBVIOUS
  <1>1. called' \in Nat /\ called' <= Len(toolUses) /\ results = <<>>
    BY DEF EmitCall, IInv, TypeOK, PhaseInv
  <1>2. DataInv'
    <2>1. PairedTranscript' /\ AnswersInOrder'
      BY <1>1 DEF EmitCall, IInv, PairedTranscript, AnswersInOrder
    <2>2. ScopeEnforced' /\ ScopeThreading'
      BY DEF EmitCall, IInv, ScopeEnforced, ScopeThreading, scopeDenied
    <2>3. CacheInv' /\ CachedIsFresh'
      BY DEF EmitCall, IInv, CacheInv, CachedIsFresh, cacheable
    <2> QED BY <2>1, <2>2, <2>3 DEF DataInv
  <1>3. CASE UNCHANGED <<finishes, result>>
             /\ pc' = IF called + 1 = Len(toolUses) THEN "exec" ELSE "call"
    <2>1. TypeOK'
      BY <1>1, <1>3 DEF EmitCall, IInv, TypeOK
    <2>2. PhaseInv' /\ TruthfulVerdict'
      BY <1>1, <1>3 DEF EmitCall, IInv, PhaseInv, TruthfulVerdict, TypeOK
    <2> QED BY <1>2, <2>1, <2>2 DEF IInv, DataInv
  <1>4. CASE ReturnEmitErr
    <2>1. PICK e \in EmitErrs : Return(classifyEmitErr(e))
      BY <1>4 DEF ReturnEmitErr
    <2>2. Verdict(classifyEmitErr(e))
      BY EmitErrLemma
    <2>3. TypeOK'
      BY <1>1, <1>4, <2>1, <2>2 DEF EmitCall, IInv, TypeOK, Return, Verdict, ReturnEmitErr
    <2> QED BY <1>2, <1>4, <2>1, <2>2, <2>3, ReturnLemma DEF EmitCall, ReturnEmitErr
  <1> QED BY <1>3, <1>4 DEF EmitCall, Emit

(* Environment keeps the invariant. *)
LEMMA EnvironmentInv == IInv /\ (CancelCtx \/ TotalDeadline \/ Done) => IInv'
  <1> SUFFICES ASSUME IInv, CancelCtx \/ TotalDeadline \/ Done PROVE IInv'
    OBVIOUS
  <1> USE DEF CancelCtx, TotalDeadline, Done, vars
  <1>1. DataInv'
    BY DataFrame DEF IInv, DataInv
  <1>2. TypeOK'
    BY DEF TypeOK, IInv, dataVars
  <1>3. PhaseInv' /\ TruthfulVerdict'
    BY DEF PhaseInv, TruthfulVerdict, IInv, TypeOK, dataVars, NoResult
  <1> QED BY <1>1, <1>2, <1>3 DEF IInv, DataInv

(* Commit keeps the invariant. *)
LEMMA CommitInv == IInv /\ Commit => IInv'
  <1> SUFFICES ASSUME IInv, Commit PROVE IInv'
    OBVIOUS
  <1> DEFINE asst == [role |-> "assistant",
                      ids |-> [i \in 1..Len(toolUses) |-> <<turn, i>>]]
             user == [role |-> "user",
                      ids |-> [i \in 1..Len(results) |-> results[i].id]]
  <1>1. turn \in Nat /\ Len(toolUses) \in Nat /\ Len(toolUses) > 0
        /\ Len(results) = Len(toolUses)
    BY BoundsAssumption DEF TypeOK, PhaseInv, Commit, IInv
  <1>2. asst.ids \in Seq(Nat \X Nat) /\ asst.ids # <<>>
    BY <1>1
  <1>3. user.ids = asst.ids
    BY <1>1 DEF AnswersInOrder, IInv
  <1>4. asst \in Messages /\ user \in Messages
    BY <1>2, <1>3 DEF Messages
  <1>5. /\ msgs' \in Seq(Messages)
        /\ Len(msgs') = Len(msgs) + 2
        /\ \A i \in 1..Len(msgs) : msgs'[i] = msgs[i]
        /\ msgs'[Len(msgs) + 1] = asst /\ msgs'[Len(msgs) + 2] = user
    BY <1>4 DEF TypeOK, Commit, IInv
  <1>a. asst.role = "assistant" /\ user.role = "user"
    OBVIOUS
  <1> HIDE DEF asst, user
  <1>6. TypeOK'
    <2>1. turn' \in 1..MaxTurns
      BY BoundsAssumption DEF Commit, IInv, TypeOK
    <2> QED BY <1>5, <2>1, BoundsAssumption DEF TypeOK, Commit, IInv
  <1>7. PhaseInv'
    <2>1. Len(msgs) = 2 * (turn - 1) /\ turn \in 1..MaxTurns /\ Len(msgs') = Len(msgs) + 2
      BY <1>5 DEF PhaseInv, TypeOK, Commit, IInv
    <2>2. pc' = "exhausted" => Len(msgs') = 2 * MaxTurns
      BY <2>1, BoundsAssumption DEF Commit
    <2>3. pc' # "exhausted" => Len(msgs') = 2 * (turn' - 1)
      BY <2>1, BoundsAssumption DEF Commit
    <2> QED BY <2>2, <2>3 DEF PhaseInv, TypeOK, Commit, IInv
  <1>8. PairedTranscript'
    <2>1. Len(msgs) \in Nat /\ Len(msgs) % 2 = 0
      <3>1. Len(msgs) \in Nat
        BY DEF IInv, TypeOK
      <3>2. Len(msgs) % 2 = 0
        BY DEF IInv, PairedTranscript
      <3> QED BY <3>1, <3>2
    <2>2. ASSUME NEW i \in 1..Len(msgs'), i % 2 = 1
          PROVE  /\ msgs'[i].role = "assistant"
                 /\ msgs'[i + 1].role = "user"
                 /\ msgs'[i].ids # <<>>
                 /\ msgs'[i + 1].ids = msgs'[i].ids
      <3>1. CASE i <= Len(msgs)
        <4>1. i + 1 <= Len(msgs)
          BY <2>1, <2>2, <3>1
        <4> QED BY <1>5, <2>1, <2>2, <3>1, <4>1 DEF PairedTranscript, IInv
      <3>2. CASE i > Len(msgs)
        <4>1. i = Len(msgs) + 1
          BY <1>5, <2>1, <2>2, <3>2
        <4> QED BY <1>2, <1>3, <1>5, <1>a, <4>1, <2>1
      <3> QED BY <3>1, <3>2, <2>1
    <2> QED BY <1>5, <2>1, <2>2 DEF PairedTranscript
  <1>9. AnswersInOrder' /\ ScopeEnforced' /\ ScopeThreading'
    BY DEF AnswersInOrder, ScopeEnforced, ScopeThreading, Commit
  <1>10. CacheInv' /\ CachedIsFresh'
    BY DEF CacheInv, CachedIsFresh, cacheable, Commit, IInv
  <1>11. TruthfulVerdict'
    <2>1. pc' # "done" /\ finishes' = 0 /\ result' = NoResult
      BY DEF PhaseInv, Commit, IInv
    <2> QED BY <2>1 DEF TruthfulVerdict, NoResult
  <1> QED BY <1>6, <1>7, <1>8, <1>9, <1>10, <1>11 DEF IInv

(* Answering one call: a result for the first unanswered block is appended *)
(* and emitted.  The scope and the cache move as the particular answer     *)
(* says.                                                                   *)
LEMMA AnswerLemma ==
    ASSUME IInv, pc = "exec",
           NEW b \in BOOLEAN, NEW c \in BOOLEAN, NEW v \in Nat,
           NEW f \in MaybeFilter,
           AppendResult(b, c, v, f), EmitResult,
           UNCHANGED <<ctx, total, turn, texts, msgs, toolUses, called>>,
           activeFilter' \in MaybeFilter,
           activeFilter' = IF ~b /\ f # NoFilter THEN f ELSE activeFilter,
           v # 0 => ~scopeDenied(activeFilter, current.name),
           DOMAIN cache' \subseteq Keys,
           \A k \in DOMAIN cache' : cache'[k] \in Entries,
           DOMAIN lastGood' \subseteq Keys,
           \A k \in DOMAIN lastGood' : lastGood'[k] \in Good,
           execs' \in Nat,
           CacheInv', CachedIsFresh'
    PROVE  IInv'
  <1> DEFINE n == Len(results)
             r == [id |-> <<turn, n + 1>>, isError |-> b, cached |-> c,
                   key |-> current, value |-> v, filter |-> f,
                   scope |-> activeFilter]
  <1>1. n \in Nat /\ n < Len(toolUses) /\ called = Len(toolUses)
        /\ Len(toolUses) \in Nat /\ turn \in Nat
    BY BoundsAssumption DEF IInv, TypeOK, PhaseInv
  <1>2. current \in Keys /\ current \in Calls /\ current = toolUses[n + 1]
    <2>1. toolUses \in Seq(Keys) /\ n + 1 \in 1..Len(toolUses)
      BY <1>1 DEF IInv, TypeOK
    <2>2. toolUses[n + 1] \in Keys
      BY <2>1
    <2>3. Keys \subseteq Calls
      BY DEF Keys, Calls, Names
    <2> QED BY <2>2, <2>3 DEF current
  <1>3. r \in Results
    BY <1>1, <1>2 DEF Results, IInv, TypeOK, MaybeFilter
  <1>4. /\ results' \in Seq(Results)
        /\ Len(results') = n + 1
        /\ \A i \in 1..n : results'[i] = results[i]
        /\ results'[n + 1] = r
    BY <1>1, <1>3 DEF AppendResult, IInv, TypeOK
  <1>5. /\ r.id = <<turn, n + 1>> /\ r.isError = b /\ r.key = current
        /\ r.value = v /\ r.filter = f /\ r.scope = activeFilter
    OBVIOUS
  <1> HIDE DEF r
  <1>6. PairedTranscript'
    BY DEF IInv, PairedTranscript
  <1>7. AnswersInOrder'
    <2>1. Len(results') <= Len(toolUses') /\ called' = Len(toolUses')
      BY <1>1, <1>4
    <2>2. ASSUME NEW i \in 1..Len(results')
          PROVE  results'[i].id = <<turn, i>> /\ results'[i].key = toolUses[i]
      <3>1. CASE i = n + 1
        BY <1>2, <1>4, <1>5, <3>1
      <3>2. CASE i \in 1..n
        BY <1>4, <3>2 DEF IInv, AnswersInOrder
      <3> QED BY <1>1, <1>4, <3>1, <3>2
    <2> QED BY <2>1, <2>2, <1>1 DEF AnswersInOrder
  <1>8. ScopeEnforced'
    <2>1. ASSUME NEW i \in 1..Len(results'), results'[i].value # 0
          PROVE  ~scopeDenied(results'[i].scope, results'[i].key.name)
      <3>1. CASE i = n + 1
        BY <1>4, <1>5, <2>1, <3>1
      <3>2. CASE i \in 1..n
        BY <1>4, <2>1, <3>2 DEF IInv, ScopeEnforced
      <3> QED BY <1>1, <1>4, <3>1, <3>2
    <2> QED BY <2>1 DEF ScopeEnforced, scopeDenied
  <1>9. ScopeThreading'
    <2>1. ASSUME NEW i \in 1..Len(results')
          PROVE  (IF i < Len(results') THEN results'[i + 1].scope ELSE activeFilter')
                 = IF ~results'[i].isError /\ results'[i].filter # NoFilter
                   THEN results'[i].filter ELSE results'[i].scope
      <3>1. CASE i = n + 1
        BY <1>1, <1>4, <1>5, <3>1
      <3>2. CASE i = n
        BY <1>1, <1>4, <1>5, <3>2 DEF IInv, ScopeThreading
      <3>3. CASE i \in 1..(n - 1)
        <4>1. /\ i \in 1..n /\ i + 1 \in 1..n /\ i < n
              /\ i < Len(results') /\ i < Len(results) /\ Len(results) = n
          BY <1>1, <1>4, <3>3
        <4>2. results'[i] = results[i] /\ results'[i + 1] = results[i + 1]
          BY <1>4, <4>1
        <4>3. results[i + 1].scope = IF ~results[i].isError /\ results[i].filter # NoFilter
                                     THEN results[i].filter ELSE results[i].scope
          BY <4>1 DEF IInv, ScopeThreading
        <4> QED BY <4>1, <4>2, <4>3
      <3> QED BY <1>1, <1>4, <3>1, <3>2, <3>3
    <2> QED BY <2>1 DEF ScopeThreading
  <1>10. DataInv'
    BY <1>6, <1>7, <1>8, <1>9 DEF DataInv
  <1>11. CASE /\ UNCHANGED <<finishes, result>>
              /\ pc' = IF n + 1 = Len(toolUses) THEN "commit" ELSE "exec"
    <2>1. TypeOK'
      BY <1>4, <1>11 DEF IInv, TypeOK
    <2>2. PhaseInv'
      BY <1>1, <1>4, <1>11 DEF IInv, PhaseInv
    <2>3. TruthfulVerdict'
      BY <1>11 DEF IInv, TruthfulVerdict, PhaseInv
    <2> QED BY <1>10, <2>1, <2>2, <2>3 DEF IInv, DataInv
  <1>12. CASE ReturnEmitErr
    <2>1. PICK e \in EmitErrs : Return(classifyEmitErr(e))
      BY <1>12 DEF ReturnEmitErr
    <2>2. Verdict(classifyEmitErr(e))
      BY EmitErrLemma
    <2>3. TypeOK'
      BY <1>4, <1>12, <2>1, <2>2 DEF IInv, TypeOK, Return, Verdict, ReturnEmitErr
    <2> QED BY <1>10, <1>12, <2>1, <2>2, <2>3, ReturnLemma DEF ReturnEmitErr
  <1> QED BY <1>11, <1>12 DEF EmitResult, Emit

(* The call being answered is a registered one. *)
LEMMA CurrentKey ==
    ASSUME IInv, pc = "exec" PROVE current \in Keys
  <1>1. toolUses \in Seq(Keys) /\ Len(results) \in Nat
        /\ Len(results) < Len(toolUses)
    BY DEF IInv, TypeOK, PhaseInv
  <1> QED BY <1>1 DEF current

(* ExecDenied keeps the invariant. *)
LEMMA ExecDeniedInv == IInv /\ ExecDenied => IInv'
  <1> SUFFICES ASSUME IInv, ExecDenied PROVE IInv'
    OBVIOUS
  <1> USE DEF ExecDenied
  <1>1. /\ results' = Append(results, results'[Len(results) + 1])
        /\ results'[Len(results) + 1].cached = FALSE
        /\ Len(results) \in Nat /\ Len(results') = Len(results) + 1
        /\ \A i \in 1..Len(results) : results'[i] = results[i]
    BY DEF AppendResult, IInv, TypeOK
  <1>2. CacheInv'
    BY <1>1 DEF IInv, CacheInv, cacheable
  <1>3. CachedIsFresh'
    BY <1>1 DEF IInv, CachedIsFresh
  <1>4. NoFilter \in MaybeFilter /\ activeFilter' \in MaybeFilter
    BY DEF MaybeFilter, IInv, TypeOK
  <1>5. /\ DOMAIN cache' \subseteq Keys
        /\ \A k \in DOMAIN cache' : cache'[k] \in Entries
        /\ DOMAIN lastGood' \subseteq Keys
        /\ \A k \in DOMAIN lastGood' : lastGood'[k] \in Good
        /\ execs' \in Nat
    BY DEF IInv, TypeOK
  <1> QED BY <1>2, <1>3, <1>4, <1>5, AnswerLemma

(* ExecCached keeps the invariant. *)
LEMMA ExecCachedInv == IInv /\ ExecCached => IInv'
  <1> SUFFICES ASSUME IInv, ExecCached PROVE IInv'
    OBVIOUS
  <1> USE DEF ExecCached
  <1> DEFINE out == cache[current].out
  <1>1. /\ current \in DOMAIN cache
        /\ turn - cache[current].turn < DedupWindow
        /\ cacheable(current.name)
    BY DEF dedupHit, lookup
  <1>2. /\ out \in Outputs /\ out.kind = "ok"
        /\ out.value \in Nat /\ out.filter \in MaybeFilter
    BY <1>1 DEF IInv, TypeOK, CacheInv, Entries, Outputs, MaybeFilter
  <1>3. /\ current \in DOMAIN lastGood
        /\ out.value = lastGood[current].value
        /\ out.filter = lastGood[current].filter
        /\ turn - lastGood[current].turn < DedupWindow
    BY <1>1 DEF IInv, CacheInv
  <1>4. /\ Len(results) \in Nat /\ Len(results') = Len(results) + 1
        /\ \A i \in 1..Len(results) : results'[i] = results[i]
        /\ LET r == results'[Len(results) + 1] IN
            r.cached = TRUE /\ r.isError = FALSE /\ r.key = current
            /\ r.value = out.value /\ r.filter = out.filter
    BY DEF AppendResult, IInv, TypeOK
  <1>5. CacheInv'
    BY <1>1, <1>4 DEF IInv, CacheInv, cacheable
  <1>6. CachedIsFresh'
    BY <1>1, <1>3, <1>4 DEF IInv, CachedIsFresh, cacheable
  <1>7. activeFilter' = (IF out.filter # NoFilter THEN out.filter ELSE activeFilter)
    BY <1>2 DEF nextFilter
  <1>8. activeFilter' \in MaybeFilter
    BY <1>2, <1>7 DEF IInv, TypeOK
  <1>9. AppendResult(FALSE, TRUE, out.value, out.filter)
    OBVIOUS
  <1>10. /\ DOMAIN cache' \subseteq Keys
         /\ \A k \in DOMAIN cache' : cache'[k] \in Entries
         /\ DOMAIN lastGood' \subseteq Keys
         /\ \A k \in DOMAIN lastGood' : lastGood'[k] \in Good
         /\ execs' \in Nat
    BY DEF IInv, TypeOK
  <1> HIDE DEF out
  <1> QED BY <1>2, <1>5, <1>6, <1>7, <1>8, <1>9, <1>10, AnswerLemma

(* ExecFresh keeps the invariant. *)
LEMMA ExecFreshInv ==
    ASSUME IInv, NEW out \in ExecuteOutputs, ExecFresh(out) PROVE IInv'
  <1> USE DEF ExecFresh
  <1>1. out \in Outputs /\ out.value \in Nat /\ out.filter \in MaybeFilter
    BY DEF IInv, TypeOK, ExecuteOutputs, CtxErrs, Outputs, MaybeFilter
  <1>2. current \in Keys /\ turn \in Nat
    BY CurrentKey, BoundsAssumption DEF IInv, TypeOK
  <1>3. /\ Len(results) \in Nat /\ Len(results') = Len(results) + 1
        /\ \A i \in 1..Len(results) : results'[i] = results[i]
        /\ results'[Len(results) + 1].cached = FALSE
    BY DEF AppendResult, IInv, TypeOK
  <1>a. ASSUME NEW i \in 1..Len(results'), results'[i].cached
        PROVE  /\ i \in 1..Len(results) /\ results[i].cached
               /\ results'[i] = results[i]
    BY <1>3, <1>a
  (* A call answered from the cache in this turn would hit again. *)
  <1>4. ASSUME NEW i \in 1..Len(results), results[i].cached
        PROVE  results[i].key # current
    BY <1>4 DEF IInv, CachedIsFresh, CacheInv, dedupHit, lookup, cacheable
  <1>5. /\ DOMAIN cache' \subseteq Keys
        /\ \A k \in DOMAIN cache' : cache'[k] \in Entries
    BY <1>1, <1>2 DEF IInv, TypeOK, store, Entries
  <1>6. /\ DOMAIN lastGood' \subseteq Keys
        /\ \A k \in DOMAIN lastGood' : lastGood'[k] \in Good
    BY <1>1, <1>2 DEF IInv, TypeOK, Good
  <1>7. CacheInv'
    <2>1. ASSUME NEW k \in DOMAIN cache'
          PROVE  /\ cacheable(k.name)
                 /\ k \in DOMAIN lastGood'
                 /\ cache'[k].out.kind = "ok"
                 /\ cache'[k].out.value = lastGood'[k].value
                 /\ cache'[k].out.filter = lastGood'[k].filter
                 /\ cache'[k].turn = lastGood'[k].turn
      <3>1. CASE k = current /\ cacheable(current.name) /\ out.kind = "ok"
        BY <3>1 DEF store
      <3>2. CASE ~(cacheable(current.name) /\ out.kind = "ok")
        <4>1. cache' = cache /\ k \in DOMAIN cache
          BY <3>2, <2>1
        <4>2. lastGood' = lastGood \/ k # current
          BY <3>2, <4>1 DEF IInv, CacheInv
        <4> QED BY <4>1, <4>2 DEF IInv, CacheInv
      <3>3. CASE k # current /\ cacheable(current.name) /\ out.kind = "ok"
        BY <2>1, <3>3 DEF IInv, CacheInv, store
      <3> QED BY <3>1, <3>2, <3>3
    <2>2. DOMAIN cache \subseteq DOMAIN cache'
      BY DEF store
    <2>3. ASSUME NEW i \in 1..Len(results'), results'[i].cached
          PROVE  results'[i].key \in DOMAIN cache'
      BY <1>a, <2>2, <2>3 DEF IInv, CacheInv
    <2>4. ASSUME NEW k \in DOMAIN lastGood', cacheable(k.name)
          PROVE  k \in DOMAIN cache'
      <3>1. CASE k = current /\ out.kind = "ok"
        BY <2>4, <3>1 DEF store
      <3>2. CASE ~(k = current /\ out.kind = "ok")
        <4>1. k \in DOMAIN lastGood
          BY <2>4, <3>2
        <4> QED BY <2>2, <2>4, <4>1 DEF IInv, CacheInv
      <3> QED BY <3>1, <3>2
    <2> QED BY <2>1, <2>3, <2>4 DEF CacheInv, cacheable
  <1>8. CachedIsFresh'
    <2>1. ASSUME NEW i \in 1..Len(results), results[i].cached
          PROVE  /\ results[i].key \in DOMAIN lastGood'
                 /\ lastGood'[results[i].key] = lastGood[results[i].key]
      BY <1>4, <2>1 DEF IInv, CachedIsFresh
    <2>2. ASSUME NEW i \in 1..Len(results'), results'[i].cached
          PROVE  /\ DedupEnabled /\ results'[i].key.name \in Cacheable
                 /\ ~results'[i].isError
                 /\ results'[i].key \in DOMAIN lastGood'
                 /\ results'[i].value = lastGood'[results'[i].key].value
                 /\ results'[i].filter = lastGood'[results'[i].key].filter
                 /\ turn' - lastGood'[results'[i].key].turn < DedupWindow
      <3>1. i \in 1..Len(results) /\ results[i].cached /\ results'[i] = results[i]
            /\ turn' = turn
        BY <1>a, <2>2
      <3>2. /\ DedupEnabled /\ results[i].key.name \in Cacheable
            /\ ~results[i].isError
            /\ results[i].value = lastGood[results[i].key].value
            /\ results[i].filter = lastGood[results[i].key].filter
            /\ turn - lastGood[results[i].key].turn < DedupWindow
        BY <3>1 DEF IInv, CachedIsFresh
      <3>3. /\ results[i].key \in DOMAIN lastGood'
            /\ lastGood'[results[i].key] = lastGood[results[i].key]
        BY <2>1, <3>1
      <3> QED BY <3>1, <3>2, <3>3
    <2> QED BY <2>2 DEF CachedIsFresh
  <1>9. activeFilter' \in MaybeFilter
        /\ activeFilter' = IF ~(out.kind # "ok") /\ out.filter # NoFilter
                           THEN out.filter ELSE activeFilter
    BY <1>1 DEF nextFilter, IInv, TypeOK
  <1>10. execs' \in Nat /\ (out.kind # "ok") \in BOOLEAN
    BY DEF IInv, TypeOK
  <1>11. AppendResult(out.kind # "ok", FALSE, out.value, out.filter)
    OBVIOUS
  <1> QED BY <1>1, <1>5, <1>6, <1>7, <1>8, <1>9, <1>10, <1>11, AnswerLemma

(* ExecTerminal keeps the invariant. *)
LEMMA ExecTerminalInv ==
    ASSUME IInv, NEW out \in ExecuteOutputs, ExecTerminal(out) PROVE IInv'
  <1> DEFINE r == classifyToolErr(out.kind)
  <1>1. total \in {"Canceled", "DeadlineExceeded"}
        /\ (out.kind = "Canceled" => total = "Canceled")
    BY DEF ExecTerminal, terminalToolErr, ExecuteOutputs, CtxErrs
  <1>2. Verdict(r)
    BY <1>1 DEF IInv, PhaseInv, ExecTerminal, terminalToolErr,
       classifyToolErr, Verdict, Finishes, Codes, NoResult
  <1>3. Return(r) /\ finishes' \in {finishes, finishes + 1}
    BY DEF ExecTerminal, Finish
  <1>4. DataInv'
    <2>1. PairedTranscript' /\ AnswersInOrder'
      BY DEF ExecTerminal, IInv, PairedTranscript, AnswersInOrder
    <2>2. ScopeEnforced' /\ ScopeThreading'
      BY DEF ExecTerminal, IInv, ScopeEnforced, ScopeThreading, scopeDenied
    <2>3. CacheInv' /\ CachedIsFresh'
      BY DEF ExecTerminal, IInv, CacheInv, CachedIsFresh, cacheable
    <2> QED BY <2>1, <2>2, <2>3 DEF DataInv
  <1>5. TypeOK'
    BY <1>2, <1>3 DEF ExecTerminal, IInv, TypeOK, PhaseInv, Return, Verdict
  <1> HIDE DEF r
  <1> QED BY <1>2, <1>3, <1>4, <1>5, ReturnLemma DEF ExecTerminal

(* The inductive step. *)
LEMMA NextInv == IInv /\ [Next]_vars => IInv'
  <1> SUFFICES ASSUME IInv, [Next]_vars PROVE IInv'
    OBVIOUS
  <1>1. CASE RunStep
    BY <1>1, TurnStartInv, OpenStreamInv, DrainTextInv, StreamEndInv,
       ToolUseEmptyInv, ToolUseAcceptInv, ToolUseUnknownInv, EmitCallInv,
       ExecDeniedInv, ExecCachedInv, ExecCachedLateInv, ExecFreshInv,
       ExecTerminalInv, CommitInv, MaxTurnsReachedInv DEF RunStep
  <1>2. CASE CancelCtx \/ TotalDeadline \/ Done
    BY <1>2, EnvironmentInv
  <1>3. CASE UNCHANGED vars
    <2>1. Done \/ pc # "done"
      BY <1>3 DEF Done
    <2>2. DataInv'
      BY <1>3, DataFrame DEF vars, IInv, DataInv
    <2>3. TypeOK' /\ PhaseInv' /\ TruthfulVerdict'
      BY <1>3 DEF vars, dataVars, IInv, TypeOK, PhaseInv, TruthfulVerdict
    <2> QED BY <2>2, <2>3 DEF IInv, DataInv
  <1> QED BY <1>1, <1>2, <1>3 DEF Next

(* Every reachable state of Loop.Run satisfies the inductive invariant,    *)
(* and with it type correctness.                                           *)
THEOREM InvariantTheorem == Spec => []IInv
  BY InitInv, NextInv, PTL DEF Spec

(* Type correctness of Run's state. *)
THEOREM TypeTheorem == Spec => []TypeOK
  <1>1. IInv => TypeOK
    BY DEF IInv
  <1> QED BY <1>1, InvariantTheorem, PTL

(* The paired commit of Loop.Run: no transcript, sent or returned, has an  *)
(* unanswered tool_use, for any number of turns and calls.                 *)
THEOREM PairedTranscriptTheorem == Spec => []PairedTranscript
  <1>1. IInv => PairedTranscript
    BY DEF IInv
  <1> QED BY <1>1, InvariantTheorem, PTL

(* The dispatch guard of Loop.Run: whatever filters skills return, no tool *)
(* runs or is replayed outside the scope it is dispatched under, and that  *)
(* scope is the one its predecessors left.                                 *)
THEOREM ScopeTheorem == Spec => []ScopeBinds
  <1>1. IInv => ScopeBinds
    BY DEF IInv, ScopeBinds
  <1> QED BY <1>1, InvariantTheorem, PTL

(* The dedup cache: for every window, a replayed answer is the latest      *)
(* successful one and is younger than the window.                          *)
THEOREM CachedIsFreshTheorem == Spec => []CachedIsFresh
  <1>1. IInv => CachedIsFresh
    BY DEF IInv
  <1> QED BY <1>1, InvariantTheorem, PTL

(* Run's FinishReason and TermCode never claim a cancel, a total timeout   *)
(* or a turn limit that did not happen.                                    *)
THEOREM TruthfulVerdictTheorem == Spec => []TruthfulVerdict
  <1>1. IInv => TruthfulVerdict
    BY DEF IInv
  <1> QED BY <1>1, InvariantTheorem, PTL

(* A scope, once entered, stays until another one replaces it.             *)
THEOREM ScopeNeverLiftedTheorem == Spec => ScopeNeverLifted
  <1>1. ASSUME IInv, [Next]_vars, activeFilter # NoFilter
        PROVE  activeFilter' # NoFilter
    BY <1>1, NamesAssumption DEF Next, RunStep, vars, dataVars, TurnStart,
       OpenStream, DrainText, StreamEnd, ToolUseEmpty, ToolUseAccept,
       ToolUseUnknown, EmitCall, ExecDenied, ExecCached, ExecCachedLate,
       ExecFresh, ExecTerminal, Commit, MaxTurnsReached, CancelCtx,
       TotalDeadline, Done, nextFilter
  <1>2. IInv /\ [Next]_vars => [activeFilter # NoFilter => activeFilter' # NoFilter]_vars
    BY <1>1
  <1> QED BY <1>2, InvariantTheorem, PTL DEF Spec, ScopeNeverLifted

(* No cacheable tool is run again inside the window: an execution has      *)
(* missed the cache, and the cache holds every success that may be reused, *)
(* under the turn of its last one.                                         *)
THEOREM NoNeedlessRunTheorem == Spec => NoNeedlessRun
  <1> DEFINE P == /\ execs' # execs
                  /\ cacheable(current.name)
                  /\ current \in DOMAIN lastGood
                  => turn - lastGood[current].turn >= DedupWindow
  <1>1. ASSUME IInv, [Next]_vars, execs' # execs, cacheable(current.name),
               current \in DOMAIN lastGood
        PROVE  turn - lastGood[current].turn >= DedupWindow
    <2>1. ~dedupHit(current)
      BY <1>1 DEF Next, RunStep, vars, dataVars, TurnStart,
         OpenStream, DrainText, StreamEnd, ToolUseEmpty, ToolUseAccept,
         ToolUseUnknown, EmitCall, ExecDenied, ExecCached, ExecCachedLate,
         ExecFresh, ExecTerminal, Commit, MaxTurnsReached, CancelCtx,
         TotalDeadline, Done
    <2>2. current \in DOMAIN cache /\ cache[current].turn = lastGood[current].turn
      BY <1>1 DEF IInv, CacheInv
    <2>3. turn \in Nat /\ lastGood[current].turn \in Nat /\ DedupWindow \in Nat
      BY <1>1, BoundsAssumption DEF IInv, TypeOK, Good
    <2> QED BY <1>1, <2>1, <2>2, <2>3 DEF dedupHit, lookup
  <1>2. IInv /\ [Next]_vars => [P]_vars
    BY <1>1
  <1> QED BY <1>2, InvariantTheorem, PTL DEF Spec, NoNeedlessRun

(* In every turn all calls are announced before the first answer, and the  *)
(* answers follow the order of the calls (Phase 1 and Phase 2 of Run).     *)
THEOREM AnswersInOrderTheorem == Spec => []AnswersInOrder
  <1>1. IInv => AnswersInOrder
    BY DEF IInv
  <1> QED BY <1>1, InvariantTheorem, PTL

(* A set of numbers that is not empty has a least element. *)
LEMMA FirstOf ==
    ASSUME NEW T, T \subseteq Nat, T # {}
    PROVE  \E m \in T : \A k \in T : m <= k
  <1>1. PICK m \in T : \A k \in T : ~(<<k, m>> \in OpToRel(<, Nat))
    BY NatLessThanWellFounded, WFMin
  <1>2. \A k \in T : ~(k < m)
    BY <1>1 DEF OpToRel
  <1> QED BY <1>2

(* Only a denied call has the value 0: a tool that ran returned a number   *)
(* of its own, and the cache holds what tools returned.                    *)
DeniedInv ==
    /\ \A i \in 1..Len(results) :
        results[i].value = 0 => scopeDenied(results[i].scope, results[i].key.name)
    /\ \A k \in DOMAIN cache : cache[k].out.value # 0

(* One more answer keeps it. *)
LEMMA DeniedAppend ==
    ASSUME IInv, DeniedInv, NEW b, NEW c, NEW v, NEW f, AppendResult(b, c, v, f),
           v = 0 => scopeDenied(activeFilter, current.name)
    PROVE  \A i \in 1..Len(results') :
              results'[i].value = 0 => scopeDenied(results'[i].scope, results'[i].key.name)
  <1>0. PICK r : r = [id |-> <<turn, Len(results) + 1>>, isError |-> b,
                      cached |-> c, key |-> current, value |-> v,
                      filter |-> f, scope |-> activeFilter]
    OBVIOUS
  <1>1. r.key = current /\ r.value = v /\ r.scope = activeFilter
    BY <1>0
  <1>2. results \in Seq(Results) /\ Len(results) \in Nat
    BY DEF IInv, TypeOK
  <1>3. results' = Append(results, r)
    BY <1>0 DEF AppendResult
  <1>4. /\ Len(results') = Len(results) + 1 /\ results'[Len(results) + 1] = r
        /\ \A i \in 1..Len(results) : results'[i] = results[i]
    BY <1>2, <1>3
  <1>5. \A i \in 1..Len(results') : i \in 1..Len(results) \/ i = Len(results) + 1
    BY <1>2, <1>4
  <1> QED BY <1>1, <1>4, <1>5 DEF DeniedInv

LEMMA DeniedStep == ASSUME IInv, DeniedInv, [Next]_vars PROVE DeniedInv'
  <1>1. ASSUME UNCHANGED <<results, cache>> PROVE DeniedInv'
    BY <1>1 DEF DeniedInv
  <1>2. CASE ExecDenied
    BY <1>2, DeniedAppend DEF ExecDenied, DeniedInv
  <1>3. CASE ExecCached
    <2>1. /\ current \in DOMAIN cache /\ cache' = cache
          /\ AppendResult(FALSE, TRUE, cache[current].out.value, cache[current].out.filter)
      BY <1>3 DEF ExecCached, dedupHit, lookup
    <2>2. cache[current].out.value # 0
      BY <2>1 DEF DeniedInv
    <2> QED BY <2>1, <2>2, DeniedAppend DEF DeniedInv
  <1>4. ASSUME NEW out \in ExecuteOutputs, ExecFresh(out) PROVE DeniedInv'
    <2>1. out.value = execs + 1 /\ out.value # 0
      BY DEF ExecuteOutputs, IInv, TypeOK
    <2>2. /\ AppendResult(out.kind # "ok", FALSE, out.value, out.filter)
          /\ cache' = cache \/ cache' = store(current, out, turn)
      BY <1>4 DEF ExecFresh
    <2>3. \A k \in DOMAIN cache' : cache'[k].out.value # 0
      <3>1. CASE cache' = cache
        BY <3>1 DEF DeniedInv
      <3>2. CASE cache' = store(current, out, turn)
        <4>1. /\ DOMAIN cache' = DOMAIN cache \cup {current}
              /\ \A k \in DOMAIN cache' :
                    cache'[k] = IF k = current THEN [out |-> out, turn |-> turn] ELSE cache[k]
          BY <3>2 DEF store
        <4>2. [out |-> out, turn |-> turn].out = out
          OBVIOUS
        <4> QED BY <2>1, <4>1, <4>2 DEF DeniedInv
      <3> QED BY <2>2, <3>1, <3>2
    <2>4. \A i \in 1..Len(results') :
            results'[i].value = 0 => scopeDenied(results'[i].scope, results'[i].key.name)
      BY <2>1, <2>2, DeniedAppend
    <2> QED BY <2>3, <2>4 DEF DeniedInv
  <1>5. CASE Commit
    <2>1. results' = <<>> /\ cache' = cache
      BY <1>5 DEF Commit
    <2> QED BY <2>1 DEF DeniedInv
  <1>6. CASE [Next]_vars /\ ~ExecDenied /\ ~ExecCached /\ ~Commit
             /\ ~\E out \in ExecuteOutputs : ExecFresh(out)
    BY <1>1, <1>6 DEF Next, RunStep, vars, dataVars, TurnStart,
       OpenStream, DrainText, StreamEnd, ToolUseEmpty, ToolUseAccept,
       ToolUseUnknown, EmitCall, ExecCachedLate,
       ExecTerminal, MaxTurnsReached, CancelCtx, TotalDeadline, Done
  <1> QED BY <1>2, <1>3, <1>4, <1>5, <1>6

(* The scope of a call is the scope of the offer until an answer replaces  *)
(* it; otherwise there would be a first call where it is not.              *)
LEMMA ScopeOfOffer ==
    ASSUME IInv, NEW i \in 1..Len(results),
           \A j \in 1..(i - 1) : results[j].isError \/ results[j].filter = NoFilter
    PROVE  results[i].scope = results[1].scope
  <1> DEFINE T == {k \in 1..i : results[k].scope # results[1].scope}
  <1>1. SUFFICES ASSUME T # {} PROVE FALSE
    <2>1. i \in 1..i /\ i \notin T
      BY <1>1
    <2> QED BY <2>1
  <1>2. T \subseteq Nat
    OBVIOUS
  <1>3. PICK k \in T : \A m \in T : k <= m
    BY <1>1, <1>2, FirstOf
  <1>4. k \in 1..i /\ k # 1
    OBVIOUS
  <1>5. k - 1 \in 1..(i - 1) /\ k - 1 \in 1..i /\ k - 1 \in 1..Len(results) /\ k - 1 < Len(results)
    BY <1>4
  <1>6. results[k - 1].scope = results[1].scope
    <2>1. k - 1 \notin T
      BY <1>3, <1>4
    <2> QED BY <1>5, <2>1
  <1>7. results[k].scope = results[k - 1].scope
    <2>1. results[(k - 1) + 1].scope =
            IF ~results[k - 1].isError /\ results[k - 1].filter # NoFilter
            THEN results[k - 1].filter ELSE results[k - 1].scope
      BY <1>5 DEF IInv, ScopeThreading
    <2>2. (k - 1) + 1 = k
      BY <1>4
    <2>3. results[k - 1].isError \/ results[k - 1].filter = NoFilter
      BY <1>5
    <2> QED BY <2>1, <2>2, <2>3
  <1> QED BY <1>6, <1>7

(* What toolDefs offers the model and what the dispatch guard refuses: two *)
(* tests of one scope that never contradict each other within a turn,      *)
(* unless a result in between narrowed the scope.                          *)
THEOREM OfferHonouredTheorem == Spec => []OfferHonoured
  <1>1. Init => DeniedInv
    BY DEF Init, DeniedInv, EmptyMap
  <1>2. IInv /\ DeniedInv => OfferHonoured
    <2> SUFFICES ASSUME IInv, DeniedInv, NEW i \in 1..Len(results), results[i].value = 0,
                        results[i].key.name \in applyFilter(ToolNames, results[1].scope),
                        ~\E j \in 1..(i - 1) : ~results[j].isError /\ results[j].filter # NoFilter
                 PROVE  FALSE
      BY DEF OfferHonoured
    <2>1. \A j \in 1..(i - 1) : results[j].isError \/ results[j].filter = NoFilter
      OBVIOUS
    <2>2. results[i].scope = results[1].scope
      BY <2>1, ScopeOfOffer
    <2>3. scopeDenied(results[i].scope, results[i].key.name)
      BY DEF DeniedInv
    <2> QED BY <2>2, <2>3 DEF scopeDenied, applyFilter
  <1>3. IInv /\ DeniedInv /\ [Next]_vars => DeniedInv'
    BY DeniedStep
  <1> QED BY <1>1, <1>2, <1>3, InvariantTheorem, PTL DEF Spec
=============================================================================
