---------------------------- MODULE DiagnoseLoop ----------------------------
(***************************************************************************)
(* diagnose.Loop.Run (src/internal/app/diagnose/loop.go): one multi-turn   *)
(* run of the LLM / tool loop.  The goroutine that executes Run is         *)
(* sequential; it shares two contexts with the rest of the program: the    *)
(* caller's ctx, which the user may cancel at any time, and totalCtx,      *)
(* derived from it, which the total deadline may expire at any time.       *)
(* Every tool execution has a new value (execs): the database a tool reads *)
(* keeps changing, so an answer taken from the dedup cache can be told     *)
(* from the one a new execution would have produced.                       *)
(***************************************************************************)
EXTENDS Integers, Sequences

CONSTANTS
    ToolNames,      \* names in the Registry
    UnknownNames,   \* names the model may make up, not in the Registry
    SkillTool,      \* skillToolName, the scope-control tool
    Cacheable,      \* registered tools that do not opt out of dedup
    Inputs,         \* tool inputs, up to the canonical JSON hash
    Filters,        \* the ToolFilter values tools return
    NoFilter,       \* a nil filter
    MaxTurns,       \* Options.MaxTurns after defaults
    MaxCalls,       \* BOUND: tool_use blocks in one assistant turn
    MaxTexts,       \* BOUND: text chunks in one turn
    DedupEnabled,   \* Options.DedupEnabled
    DedupWindow     \* Options.DedupWindow after defaults

ASSUME BoundsAssumption ==
    /\ MaxTurns \in Nat \ {0}
    /\ MaxCalls \in Nat \ {0}
    /\ MaxTexts \in Nat
    /\ DedupWindow \in Nat \ {0}
    /\ DedupEnabled \in BOOLEAN

ASSUME NamesAssumption ==
    /\ Cacheable \subseteq ToolNames
    /\ ToolNames \cap UnknownNames = {}
    /\ SkillTool \notin UnknownNames
    /\ \A f \in Filters : f \subseteq ToolNames \cup UnknownNames
    /\ NoFilter \notin Filters

VARIABLES
    pc,           \* where Run is
    ctx,          \* ctx.Err(): "live" or "Canceled"
    total,        \* totalCtx.Err(): "live", "Canceled" or "DeadlineExceeded"
    turn,         \* result.Turns / the loop variable
    texts,        \* EventText emitted in this turn
    msgs,         \* the accumulator, from the end of req.Messages on
    toolUses,     \* tool_use blocks of the assistant turn in progress
    called,       \* how many EventToolCall were emitted for toolUses
    results,      \* tool_result blocks produced so far for toolUses
    activeFilter, \* run-local scope, a set of names or NoFilter
    cache,        \* dedupCache.entries
    execs,        \* number of ToolExecutor.Execute calls so far
    lastGood,     \* history: per key, the last successful fresh execution
    finishes,     \* history: EventFinish the consumer has received
    result        \* Result.FinishReason and TermCode, once Run returned

dataVars == <<msgs, toolUses, called, results, activeFilter, cache, execs,
              lastGood>>
vars == <<pc, ctx, total, turn, texts, dataVars, finishes, result>>

-----------------------------------------------------------------------------
Names == ToolNames \cup UnknownNames
Calls == [name : Names, input : Inputs]
Keys  == [name : ToolNames, input : Inputs]
EmptyMap == [k \in {} |-> 0]
NoResult == [finish |-> "Unset", code |-> "none"]

(* ToolOutput with the error of Execute folded in (kind). *)
Outputs == [kind : {"ok", "isError", "error", "DeadlineExceeded", "Canceled"},
            value : Nat, filter : Filters \cup {NoFilter}]

Entries == [out : Outputs, turn : Nat]
(* A tool_result block; key, value, filter (what the output carried; value *)
(* is 0 if nothing was executed) and scope (the scope it was dispatched    *)
(* under) are kept for the properties.                                     *)
Results == [id : Nat \X Nat, isError : BOOLEAN, cached : BOOLEAN,
            key : Calls, value : Nat, filter : Filters \cup {NoFilter},
            scope : Filters \cup {NoFilter}]
Messages == [role : {"assistant", "user"}, ids : Seq(Nat \X Nat)]

-----------------------------------------------------------------------------
(* scope.go *)
scopeDenied(filter, name) ==
    /\ filter # NoFilter
    /\ name # SkillTool
    /\ name \notin filter

(* Mutant: an empty allow-list is taken for no scope. *)
applyFilter_EmptyIsNil(tools, filter) ==
    IF filter = NoFilter \/ filter = {} THEN tools
    ELSE {n \in tools : n \in filter \/ n = SkillTool}

applyFilter(tools, filter) ==
    IF filter = NoFilter THEN tools
    ELSE {n \in tools : n \in filter \/ n = SkillTool}

(* dedup.go, and dedupResolve of loop.go *)
cacheable(name) == DedupEnabled /\ name \in Cacheable

(* Mutant: an entry as old as the window still counts. *)
lookup_OffByOne(key, curTurn) ==
    /\ key \in DOMAIN cache
    /\ curTurn - cache[key].turn <= DedupWindow

lookup(key, curTurn) ==
    /\ key \in DOMAIN cache
    /\ curTurn - cache[key].turn < DedupWindow

dedupHit(call) == cacheable(call.name) /\ lookup(call, turn)

(* Mutant: an entry that is there is kept, expired or not. *)
store_KeepsOld(key, out, curTurn) ==
    [k \in DOMAIN cache \cup {key} |->
        IF k \in DOMAIN cache THEN cache[k] ELSE [out |-> out, turn |-> curTurn]]

store(key, out, curTurn) ==
    [k \in DOMAIN cache \cup {key} |->
        IF k = key THEN [out |-> out, turn |-> curTurn] ELSE cache[k]]

(* The error mapping helpers of loop.go.  An error is "Canceled",          *)
(* "DeadlineExceeded", or "error" for every other one.                     *)
(* Mutant: whose deadline it was is not asked. *)
classifyTerminal_NoTotal(err) ==
    [finish |-> IF err = "Canceled" THEN "Cancelled" ELSE "Error", code |-> "none"]

classifyTerminal(err) ==
    IF err \in {"Canceled", "DeadlineExceeded"} /\ total = "DeadlineExceeded"
    THEN [finish |-> "Error", code |-> "TOTAL_TIMEOUT"]
    ELSE [finish |-> IF err = "Canceled" THEN "Cancelled" ELSE "Error",
          code |-> "none"]

terminalToolErr(kind) ==
    \/ kind = "Canceled"
    \/ kind = "DeadlineExceeded" /\ total = "DeadlineExceeded"

classifyToolErr(kind) ==
    IF kind = "Canceled" THEN [finish |-> "Cancelled", code |-> "none"]
    ELSE [finish |-> "Error", code |-> "TOTAL_TIMEOUT"]

classifyEmitErr(err) ==
    [finish |-> IF err \in {"Canceled", "DeadlineExceeded"} THEN "Cancelled"
                ELSE "Error",
     code |-> "none"]

-----------------------------------------------------------------------------
(* What the environment may answer.  The consumer's emit fails with ctx's  *)
(* error only once ctx is cancelled (and may then still succeed: select    *)
(* picks either ready case), or with an error of its own.                  *)
EmitErrs == {"error"} \cup (IF ctx = "Canceled" THEN {"Canceled"} ELSE {})

(* A stream or a tool reports Canceled only if its context was cancelled;  *)
(* its own, shorter deadline may pass at any time.                         *)
CtxErrs == {"DeadlineExceeded", "error"}
           \cup (IF total = "Canceled" THEN {"Canceled"} ELSE {})

(* SDKs may surface an expired total deadline as a cancellation. *)
StreamErrs == CtxErrs \cup (IF total # "live" THEN {"Canceled"} ELSE {})

(* Every way to leave Run: the caller gets r. *)
Return(r) == pc' = "done" /\ result' = r

(* "_ = emit(ctx, EventFinish)": a failing emit is ignored. *)
Finish(r) ==
    /\ Return(r)
    /\ finishes' \in {finishes, finishes + 1}

ReturnEmitErr ==
    /\ \E e \in EmitErrs : Return(classifyEmitErr(e))
    /\ UNCHANGED finishes

(* emit(ctx, ev): go on to pc = next, or return with the emit error. *)
Emit(next) ==
    \/ pc' = next /\ UNCHANGED <<finishes, result>>
    \/ ReturnEmitErr

-----------------------------------------------------------------------------
Init ==
    /\ pc = "turnStart"
    /\ ctx = "live"
    /\ total = "live"
    /\ turn = 1
    /\ texts = 0
    /\ msgs = <<>>
    /\ toolUses = <<>>
    /\ called = 0
    /\ results = <<>>
    /\ activeFilter = NoFilter
    /\ cache = EmptyMap
    /\ execs = 0
    /\ lastGood = EmptyMap
    /\ finishes = 0
    /\ result = NoResult

(* The user cancels: ctx is cancelled, and totalCtx with it unless the     *)
(* deadline already set its error.                                         *)
CancelCtx ==
    /\ pc # "done"
    /\ ctx = "live"
    /\ ctx' = "Canceled"
    /\ total' = IF total = "live" THEN "Canceled" ELSE total
    /\ UNCHANGED <<pc, turn, texts, dataVars, finishes, result>>

TotalDeadline ==
    /\ pc # "done"
    /\ total = "live"
    /\ total' = "DeadlineExceeded"
    /\ UNCHANGED <<pc, ctx, turn, texts, dataVars, finishes, result>>

TurnStart ==
    /\ pc = "turnStart"
    /\ Emit("open")
    /\ UNCHANGED <<ctx, total, turn, texts, dataVars>>

(* provider.Stream(turnCtx, turnReq) *)
OpenStream ==
    /\ pc = "open"
    /\ \/ pc' = "drain" /\ UNCHANGED <<finishes, result>>
       \/ \E e \in StreamErrs : Finish(classifyTerminal(e))
    /\ UNCHANGED <<ctx, total, turn, texts, dataVars>>

(* One text chunk of the stream. *)
DrainText ==
    /\ pc = "drain"
    /\ texts < MaxTexts
    /\ Emit("drain")
    /\ texts' = texts + 1
    /\ UNCHANGED <<ctx, total, turn, dataVars>>

(* The stream ends with a finish reason other than tool_use, or without    *)
(* one (then stream.Err() decides, and its absence is ErrStreamEmpty).     *)
StreamEnd ==
    /\ pc = "drain"
    /\ \/ \E f \in {"Stop", "StopSequence", "Length", "Refusal"} :
            Finish([finish |-> f, code |-> "none"])
       \/ Finish([finish |-> "Pause", code |-> "UNEXPECTED_PAUSE"])
       \/ \E e \in StreamErrs : Finish(classifyTerminal(e))
       \/ Finish([finish |-> "Error", code |-> "none"])
    /\ UNCHANGED <<ctx, total, turn, texts, dataVars>>

(* Mutant: a tool_use end without blocks asks the provider again. *)
ToolUseEmpty_Retries ==
    /\ pc = "drain"
    /\ pc' = "turnStart"
    /\ texts' = 0
    /\ UNCHANGED <<ctx, total, turn, dataVars, finishes, result>>

(* The stream ends with tool_use but carries no block. *)
ToolUseEmpty ==
    /\ pc = "drain"
    /\ Finish([finish |-> "Error", code |-> "none"])
    /\ UNCHANGED <<ctx, total, turn, texts, dataVars>>

(* Mutant: the assistant message is appended before the tools run. *)
ToolUseAccept_Eager(uses) ==
    /\ pc = "drain"
    /\ uses # <<>>
    /\ \A i \in 1..Len(uses) : uses[i].name \in ToolNames
    /\ pc' = "call"
    /\ toolUses' = uses
    /\ msgs' = Append(msgs, [role |-> "assistant",
                             ids |-> [i \in 1..Len(uses) |-> <<turn, i>>]])
    /\ UNCHANGED <<ctx, total, turn, texts, called, results, activeFilter,
                   cache, execs, lastGood, finishes, result>>

(* tool_use blocks uses, all names known: they become the pending          *)
(* assistant turn, not committed yet.                                      *)
ToolUseAccept(uses) ==
    /\ pc = "drain"
    /\ uses # <<>>
    /\ \A i \in 1..Len(uses) : uses[i].name \in ToolNames
    /\ pc' = "call"
    /\ toolUses' = uses
    /\ UNCHANGED <<ctx, total, turn, texts, msgs, called, results,
                   activeFilter, cache, execs, lastGood, finishes, result>>

(* One unknown name ends the run; nothing of the turn is committed. *)
ToolUseUnknown(uses) ==
    /\ pc = "drain"
    /\ \E i \in 1..Len(uses) : uses[i].name \notin ToolNames
    /\ Finish([finish |-> "ToolUse", code |-> "TOOL_UNKNOWN"])
    /\ UNCHANGED <<ctx, total, turn, texts, dataVars>>

(* Mutant: calls and executions interleaved. *)
EmitCall_Interleaved ==
    /\ pc = "call"
    /\ called < Len(toolUses)
    /\ Emit("exec")
    /\ called' = called + 1
    /\ UNCHANGED <<ctx, total, turn, texts, msgs, toolUses, results,
                   activeFilter, cache, execs, lastGood>>

(* Phase 1: every EventToolCall, before any execution. *)
EmitCall ==
    /\ pc = "call"
    /\ called < Len(toolUses)
    /\ Emit(IF called + 1 = Len(toolUses) THEN "exec" ELSE "call")
    /\ called' = called + 1
    /\ UNCHANGED <<ctx, total, turn, texts, msgs, toolUses, results,
                   activeFilter, cache, execs, lastGood>>

(* Phase 2 works on the first unanswered block. *)
current == toolUses[Len(results) + 1]

AppendResult(isError, isCached, val, filter) ==
    results' = Append(results,
        [id |-> <<turn, Len(results) + 1>>, isError |-> isError,
         cached |-> isCached, key |-> current, value |-> val,
         filter |-> filter, scope |-> activeFilter])

(* emit(EventToolResult), then the next block or the commit. *)
EmitResult ==
    Emit(IF Len(results) + 1 = Len(toolUses) THEN "commit" ELSE "exec")

(* Out of scope: answered with an error result, before dedup is asked. *)
ExecDenied ==
    /\ pc = "exec"
    /\ scopeDenied(activeFilter, current.name)
    /\ AppendResult(TRUE, FALSE, 0, NoFilter)
    /\ EmitResult
    /\ UNCHANGED <<ctx, total, turn, texts, msgs, toolUses, called,
                   activeFilter, cache, execs, lastGood>>

(* A successful output with a filter replaces the scope; nil inherits. *)
nextFilter(out) ==
    IF out.kind = "ok" /\ out.filter # NoFilter THEN out.filter ELSE activeFilter

(* Mutant: the cache is asked before the scope. *)
ExecCached_BeforeScope ==
    /\ pc = "exec"
    /\ dedupHit(current)
    /\ total = "live"
    /\ LET out == cache[current].out IN
        /\ AppendResult(FALSE, TRUE, out.value, out.filter)
        /\ activeFilter' = nextFilter(out)
    /\ EmitResult
    /\ UNCHANGED <<ctx, total, turn, texts, msgs, toolUses, called, cache,
                   execs, lastGood>>

(* A cache hit, only within the total budget. *)
ExecCached ==
    /\ pc = "exec"
    /\ ~scopeDenied(activeFilter, current.name)
    /\ dedupHit(current)
    /\ total = "live"
    /\ LET out == cache[current].out IN
        /\ AppendResult(FALSE, TRUE, out.value, out.filter)
        /\ activeFilter' = nextFilter(out)
    /\ EmitResult
    /\ UNCHANGED <<ctx, total, turn, texts, msgs, toolUses, called, cache,
                   execs, lastGood>>

ExecCachedLate ==
    /\ pc = "exec"
    /\ ~scopeDenied(activeFilter, current.name)
    /\ dedupHit(current)
    /\ total # "live"
    /\ Finish(classifyTerminal(total))
    /\ UNCHANGED <<ctx, total, turn, texts, dataVars>>

(* What exec.Execute(toolCtx, input) may return as its next call: an       *)
(* output, which may carry a filter even if it is an error result, or a Go *)
(* error.                                                                  *)
ExecuteOutputs ==
    {[kind |-> k, value |-> execs + 1, filter |-> f] :
        k \in {"ok", "isError"}, f \in Filters \cup {NoFilter}}
    \cup {[kind |-> k, value |-> execs + 1, filter |-> NoFilter] : k \in CtxErrs}

ExecFresh(out) ==
    /\ pc = "exec"
    /\ ~scopeDenied(activeFilter, current.name)
    /\ ~dedupHit(current)
    /\ ~terminalToolErr(out.kind)
    /\ execs' = execs + 1
    /\ activeFilter' = nextFilter(out)
    /\ cache' = IF cacheable(current.name) /\ out.kind = "ok"
                THEN store(current, out, turn) ELSE cache
    /\ lastGood' = IF out.kind = "ok"
                   THEN [k \in DOMAIN lastGood \cup {current} |->
                            IF k = current
                            THEN [value |-> out.value, filter |-> out.filter,
                                  turn |-> turn]
                            ELSE lastGood[k]]
                   ELSE lastGood
    /\ AppendResult(out.kind # "ok", FALSE, out.value, out.filter)
    /\ EmitResult
    /\ UNCHANGED <<ctx, total, turn, texts, msgs, toolUses, called>>

(* A cancelled tool, or one stopped by the total deadline, ends the run. *)
ExecTerminal(out) ==
    /\ pc = "exec"
    /\ ~scopeDenied(activeFilter, current.name)
    /\ ~dedupHit(current)
    /\ terminalToolErr(out.kind)
    /\ execs' = execs + 1
    /\ Finish(classifyToolErr(out.kind))
    /\ UNCHANGED <<ctx, total, turn, texts, msgs, toolUses, called, results,
                   activeFilter, cache, lastGood>>

(* Mutant: the scope is a local of the turn. *)
Commit_ResetsScope ==
    /\ pc = "commit"
    /\ msgs' = msgs \o
        << [role |-> "assistant",
            ids |-> [i \in 1..Len(toolUses) |-> <<turn, i>>]],
           [role |-> "user",
            ids |-> [i \in 1..Len(results) |-> results[i].id]] >>
    /\ IF turn < MaxTurns
       THEN turn' = turn + 1 /\ pc' = "turnStart"
       ELSE turn' = turn /\ pc' = "exhausted"
    /\ texts' = 0
    /\ toolUses' = <<>>
    /\ called' = 0
    /\ results' = <<>>
    /\ activeFilter' = NoFilter
    /\ UNCHANGED <<ctx, total, cache, execs, lastGood,
                   finishes, result>>

(* The paired commit, and the next iteration with fresh turn locals. *)
Commit ==
    /\ pc = "commit"
    /\ msgs' = msgs \o
        << [role |-> "assistant",
            ids |-> [i \in 1..Len(toolUses) |-> <<turn, i>>]],
           [role |-> "user",
            ids |-> [i \in 1..Len(results) |-> results[i].id]] >>
    /\ IF turn < MaxTurns
       THEN turn' = turn + 1 /\ pc' = "turnStart"
       ELSE turn' = turn /\ pc' = "exhausted"
    /\ texts' = 0
    /\ toolUses' = <<>>
    /\ called' = 0
    /\ results' = <<>>
    /\ UNCHANGED <<ctx, total, activeFilter, cache, execs, lastGood,
                   finishes, result>>

(* maxTurns exhausted without a natural finish. *)
MaxTurnsReached ==
    /\ pc = "exhausted"
    /\ Finish([finish |-> "Error", code |-> "MAX_TURNS"])
    /\ UNCHANGED <<ctx, total, turn, texts, dataVars>>

(* Run has returned. *)
Done == pc = "done" /\ UNCHANGED vars

CallSeqs == UNION {[1..n -> Calls] : n \in 1..MaxCalls}

RunStep ==
    \/ TurnStart
    \/ OpenStream
    \/ DrainText
    \/ StreamEnd
    \/ ToolUseEmpty
    \/ \E uses \in CallSeqs : ToolUseAccept(uses)
    \/ \E uses \in CallSeqs : ToolUseUnknown(uses)
    \/ EmitCall
    \/ ExecDenied
    \/ ExecCached
    \/ ExecCachedLate
    \/ \E out \in ExecuteOutputs : ExecFresh(out)
    \/ \E out \in ExecuteOutputs : ExecTerminal(out)
    \/ Commit
    \/ MaxTurnsReached

Next == RunStep \/ CancelCtx \/ TotalDeadline \/ Done

(* Every blocking call of the goroutine is bounded (emit selects on ctx,   *)
(* streams and tools run under a deadline), so it keeps making steps.      *)
Fairness == WF_vars(RunStep)

Spec == Init /\ [][Next]_vars
FairSpec == Spec /\ Fairness
-----------------------------------------------------------------------------
Codes == {"none", "TOTAL_TIMEOUT", "UNEXPECTED_PAUSE", "TOOL_UNKNOWN", "MAX_TURNS"}
Finishes == {"Unset", "Stop", "StopSequence", "Length", "Refusal", "Pause",
             "ToolUse", "Cancelled", "Error"}
MaybeFilter == Filters \cup {NoFilter}
Good == [value : Nat, filter : MaybeFilter, turn : Nat]

(* Type invariant. *)
TypeOK ==
    /\ pc \in {"turnStart", "open", "drain", "call", "exec", "commit",
               "exhausted", "done"}
    /\ ctx \in {"live", "Canceled"}
    /\ total \in {"live", "Canceled", "DeadlineExceeded"}
    /\ turn \in 1..MaxTurns
    /\ texts \in 0..MaxTexts
    /\ msgs \in Seq(Messages)
    /\ toolUses \in Seq(Keys)
    /\ called \in Nat
    /\ results \in Seq(Results)
    /\ activeFilter \in MaybeFilter
    /\ DOMAIN cache \subseteq Keys
    /\ \A k \in DOMAIN cache : cache[k] \in Entries
    /\ execs \in Nat
    /\ DOMAIN lastGood \subseteq Keys
    /\ \A k \in DOMAIN lastGood : lastGood[k] \in Good
    /\ finishes \in {0, 1}
    /\ result \in [finish : Finishes, code : Codes]

(* The transcript the provider is sent, and the one Run returns, never     *)
(* holds a tool_use without its tool_result: it is a sequence of pairs of  *)
(* an assistant message and the user message that answers exactly its      *)
(* blocks, in order, whatever was cancelled, denied, failed or timed out   *)
(* (the paired commit of Loop.Run; an orphan is a provider error 400).     *)
PairedTranscript ==
    /\ Len(msgs) % 2 = 0
    /\ \A i \in 1..Len(msgs) :
        i % 2 = 1 => /\ msgs[i].role = "assistant"
                     /\ msgs[i + 1].role = "user"
                     /\ msgs[i].ids # <<>>
                     /\ msgs[i + 1].ids = msgs[i].ids

(* No tool is answered before every call of the turn was announced, and    *)
(* answers come in the order of the calls: the UI marks the blocks by it.  *)
AnswersInOrder ==
    /\ Len(results) <= Len(toolUses)
    /\ called <= Len(toolUses)
    /\ results # <<>> => called = Len(toolUses)
    /\ \A i \in 1..Len(results) : /\ results[i].id = <<turn, i>>
                                  /\ results[i].key = toolUses[i]

(* A tool outside the scope in force when it is dispatched is not run and  *)
(* its earlier answer is not replayed: only an error result is made.       *)
ScopeEnforced ==
    \A i \in 1..Len(results) :
        LET r == results[i] IN
        r.value # 0 => ~scopeDenied(r.scope, r.key.name)

(* Each call of a turn is dispatched under the scope its predecessors left *)
(* behind: a successful output with a filter (fresh or replayed from the   *)
(* cache) replaces the scope at once, every other answer leaves it alone.  *)
ScopeThreading ==
    \A i \in 1..Len(results) :
        LET r == results[i]
            after == IF i < Len(results) THEN results[i + 1].scope
                                         ELSE activeFilter
        IN  after = IF ~r.isError /\ r.filter # NoFilter
                    THEN r.filter ELSE r.scope

(* A scope binds at once and without exception: it is enforced on every    *)
(* call, fresh or replayed, and handed from each call of a turn to the     *)
(* next.                                                                   *)
ScopeBinds == ScopeEnforced /\ ScopeThreading

(* An answer replayed from the dedup cache is the one the most recent      *)
(* successful execution of that very call gave, fewer than DedupWindow     *)
(* turns ago, for a tool that allows it; replaying does not renew it.      *)
CachedIsFresh ==
    \A i \in 1..Len(results) :
        LET r == results[i] IN
        r.cached =>
            /\ DedupEnabled /\ r.key.name \in Cacheable
            /\ ~r.isError
            /\ r.key \in DOMAIN lastGood
            /\ r.value = lastGood[r.key].value
            /\ r.filter = lastGood[r.key].filter
            /\ turn - lastGood[r.key].turn < DedupWindow

(* What Run reports is what happened: Cancelled only if the caller         *)
(* cancelled, TOTAL_TIMEOUT only if the total deadline passed first,       *)
(* MAX_TURNS only if every turn was committed, and a Finish event only as  *)
(* the last thing the consumer sees.                                       *)
TruthfulVerdict ==
    /\ result.finish = "Cancelled" => ctx = "Canceled"
    /\ result.code = "TOTAL_TIMEOUT" => total = "DeadlineExceeded"
    /\ result.code = "MAX_TURNS" => Len(msgs) = 2 * MaxTurns
    /\ finishes = 1 => pc = "done"
    /\ pc = "done" => result # NoResult

(* The model is never offered a tool that is then refused: applyFilter and *)
(* scopeDenied are two separate tests of the same scope, so a call to a    *)
(* tool offered in this turn (results[1].scope is still the scope of the   *)
(* offer) is denied only if an earlier call of the turn narrowed the       *)
(* scope.                                                                  *)
OfferHonoured ==
    \A i \in 1..Len(results) :
        /\ results[i].value = 0
        /\ results[i].key.name \in applyFilter(ToolNames, results[1].scope)
        => \E j \in 1..(i - 1) :
                ~results[j].isError /\ results[j].filter # NoFilter

(* Once a Run has a scope it never gets rid of it: a nil ToolFilter is     *)
(* inherit, never clear.                                                   *)
ScopeNeverLifted ==
    [][activeFilter # NoFilter => activeFilter' # NoFilter]_vars

(* The other half of CachedIsFresh: a tool that allows dedup is not run    *)
(* again for a call whose last success is younger than the window, however *)
(* many turns, failures of the same call, expiries and scope changes lie   *)
(* in between (a success refreshes its entry, and nothing else drops one). *)
NoNeedlessRun ==
    [][/\ execs' # execs
       /\ cacheable(current.name)
       /\ current \in DOMAIN lastGood
       => turn - lastGood[current].turn >= DedupWindow]_vars

-----------------------------------------------------------------------------
(* The inductive invariant behind the safety properties.                   *)

(* What each program point knows of the turn's locals. *)
PhaseInv ==
    /\ pc \in {"turnStart", "open", "drain", "exhausted"} =>
        toolUses = <<>> /\ results = <<>> /\ called = 0
    /\ pc = "call" => results = <<>> /\ called < Len(toolUses)
    /\ pc = "exec" => Len(results) < Len(toolUses) /\ called = Len(toolUses)
    /\ pc = "commit" => Len(results) = Len(toolUses) /\ toolUses # <<>>
    /\ pc = "exhausted" => Len(msgs) = 2 * MaxTurns
    /\ pc \notin {"exhausted", "done"} => Len(msgs) = 2 * (turn - 1)
    /\ pc # "done" => finishes = 0 /\ result = NoResult
    /\ total = "Canceled" => ctx = "Canceled"

(* An entry is the last successful execution of its call, every success    *)
(* that may be cached has one, and the entry behind an answer replayed in  *)
(* this turn is still there.                                               *)
CacheInv ==
    /\ \A k \in DOMAIN cache :
        /\ cacheable(k.name)
        /\ k \in DOMAIN lastGood
        /\ cache[k].out.kind = "ok"
        /\ cache[k].out.value = lastGood[k].value
        /\ cache[k].out.filter = lastGood[k].filter
        /\ cache[k].turn = lastGood[k].turn
    /\ \A k \in DOMAIN lastGood : cacheable(k.name) => k \in DOMAIN cache
    /\ \A i \in 1..Len(results) : results[i].cached => results[i].key \in DOMAIN cache

(* The cache and the history agree at every step, so a replay is always    *)
(* the latest success (the inductive part of CachedIsFresh), and each      *)
(* program point of Run has the turn locals its code relies on.            *)
IInv ==
    /\ TypeOK
    /\ PhaseInv
    /\ PairedTranscript
    /\ AnswersInOrder
    /\ ScopeEnforced
    /\ ScopeThreading
    /\ CacheInv
    /\ CachedIsFresh
    /\ TruthfulVerdict

(* Run returns, whatever the provider, the tools and the consumer answer.  *)
Terminates == <>(pc = "done")
=============================================================================
