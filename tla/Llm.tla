--------------------------------- MODULE Llm --------------------------------
(***************************************************************************)
(* The providers behind llm.Provider: the factory's choice of one, request *)
(* validation and conversion, and the stream adapters of the openai and    *)
(* anthropic packages, which put tool calls together from the fragments    *)
(* the server sends.                                                       *)
(***************************************************************************)
EXTENDS Integers, Sequences, FiniteSets, SequencesExt, FiniteSetsExt

CONSTANTS
    LlmConfigs,      \* [active, key, url, adaptive, models]
    LlmRequests,     \* [max, thinking, budget, messages]
    OpenaiChunks,    \* [reasoning, refusal, text, tools, finish]
    AnthropicEvents, \* [type, index, delta, tag]
    MaxToolBlocks, MaxToolInputBytes, MinThinkingBudget,
    MaxServerEvents  \* BOUND: events of one stream

VARIABLES
    llmPc, provider, request, wire,
    toolAcc,     \* tool index -> [id, args]
    emitted,     \* chunks Next returned
    streamErr,
    served       \* history: what the server sent

llmVars == <<llmPc, provider, request, wire, toolAcc, emitted, streamErr, served>>

Unset == "unset"
Nothing == [kind |-> "none"]
Full == [k \in {-1} |-> [id |-> "full", args |-> <<>>]]
-----------------------------------------------------------------------------
(* resolve: the entry of the active model overrides key and URL, each only *)
(* where it sets one; without an entry the provider is anthropic.          *)
resolve(c) ==
    LET entries == SelectSeq(c.models, LAMBDA m : m.name = c.active)
        first == entries[1]
    IN  IF entries = <<>> THEN [provider |-> "anthropic", key |-> c.key, url |-> c.url]
        ELSE [provider |-> first.provider, key |-> IF first.key = "" THEN c.key ELSE first.key,
              url |-> IF first.url = "" THEN c.url ELSE first.url]

(* factory.New and the constructors: keyless only for ollama on loopback. *)
factoryNew(c) ==
    LET r == resolve(c) IN
    IF c.adaptive THEN "NOT_IMPLEMENTED" ELSE
    CASE r.provider = "fake" -> "fake"
      [] r.provider = "anthropic" -> IF r.key = "" THEN "AUTH_FAILED" ELSE "anthropic"
      [] r.provider = "openai-compat" ->
           IF r.key = "" THEN "AUTH_FAILED" ELSE IF r.url = "" THEN "REQUEST_INVALID" ELSE "openai"
      [] r.provider = "ollama" -> IF r.url # "loopback" THEN "REQUEST_INVALID" ELSE "openai"
      [] OTHER -> "UNAVAILABLE"

ValidateRequest(q) ==
    /\ q.messages # <<>> /\ q.max > 0
    /\ \A i \in DOMAIN q.messages : q.messages[i].role \in {"user", "assistant"}
    /\ q.thinking => q.budget >= MinThinkingBudget /\ q.budget < q.max

Of(kind, blocks) == SelectSeq(blocks, LAMBDA b : b.kind = kind)

(* openai: the tool results first, each a message of its own, then one     *)
(* user message with all the text.                                         *)
userToSDK(blocks) ==
    LET results == Of("result", blocks) IN
    [i \in DOMAIN results |-> [as |-> "tool", id |-> results[i].id]]
    \o IF Of("text", blocks) # <<>> \/ results = <<>> THEN <<[as |-> "user", id |-> 0]>> ELSE <<>>

assistantToSDK(blocks) ==
    LET uses == Of("use", blocks) IN
    <<[as |-> "assistant", id |-> {uses[i].id : i \in DOMAIN uses}]>>

(* A nil payload or a block that does not belong to the role is refused;   *)
(* anthropic converts block by block and keeps the order.                  *)
toParams(p, q) ==
    LET blocks(i) == q.messages[i].blocks
        wrong(i) == \E b \in ToSet(blocks(i)) :
            b.nil \/ (p = "openai" /\ b.kind = IF q.messages[i].role = "user" THEN "use" ELSE "result")
        openai(i) == IF q.messages[i].role = "user" THEN userToSDK(blocks(i)) ELSE assistantToSDK(blocks(i))
        anthropic(i) == <<[as |-> q.messages[i].role, id |-> blocks(i)]>>
    IN  IF \E i \in DOMAIN q.messages : wrong(i) THEN Nothing
        ELSE [kind |-> "wire", list |-> FlattenSeq([i \in DOMAIN q.messages |->
                                 IF p = "openai" THEN openai(i) ELSE anthropic(i)])]
-----------------------------------------------------------------------------
(* DecodeToolInput: one JSON object, not too large; empty means {}. *)
DecodeToolInput(args) == \A i \in DOMAIN args : args[i] # "garbage"

decodeTools(acc) ==
    LET keys == SetToSortSeq(DOMAIN acc, <) IN
    IF \E k \in DOMAIN acc : ~DecodeToolInput(acc[k].args) THEN [finish |-> "error"]
    ELSE [finish |-> "tool_use", tools |-> [i \in DOMAIN keys |-> acc[keys[i]]]]

Put(acc, k, block) == [j \in DOMAIN acc \cup {k} |-> IF j = k THEN block ELSE acc[j]]

(* What a fragment does to a known block: Full when it would grow past the *)
(* limit, checked before the write.                                        *)
grow(acc, k, frag) ==
    IF Len(acc[k].args) + Len(frag) > MaxToolInputBytes THEN Full
    ELSE [acc EXCEPT ![k].args = @ \o frag]

accumulateToolCall(acc, tc) ==
    LET known == IF tc.index \in DOMAIN acc THEN acc ELSE Put(acc, tc.index, [id |-> "", args |-> <<>>])
    IN  IF Cardinality(DOMAIN known) > MaxToolBlocks THEN Full
        ELSE grow([known EXCEPT ![tc.index].id = IF tc.id = "" THEN @ ELSE tc.id], tc.index, tc.frag)

mapFinish(acc, reason) ==
    CASE reason \in {"stop", "length"} -> [finish |-> reason]
      [] reason = "tool_calls" ->
           IF DOMAIN acc = {} THEN [finish |-> "error"] ELSE decodeTools(acc)
      [] OTHER -> [finish |-> "error"]    \* content_filter, function_call, unknown

mapChunk_FinishFirst(acc, c) ==
    IF c.finish # Unset THEN [acc |-> acc, emit |-> mapFinish(acc, c.finish)]
    ELSE LET next == FoldLeft(LAMBDA a, tc : IF a = Full THEN a ELSE accumulateToolCall(a, tc), acc, c.tools)
         IN  [acc |-> next, emit |-> Nothing]

(* Reasoning, refusal and text end the handling of a chunk: what else it   *)
(* carries is not looked at.                                               *)
mapChunk(acc, c) ==
    LET next == FoldLeft(LAMBDA a, tc : IF a = Full THEN a ELSE accumulateToolCall(a, tc), acc, c.tools)
    IN  IF c.reasoning THEN [acc |-> acc, emit |-> [finish |-> Unset]]
        ELSE IF c.refusal THEN [acc |-> acc, emit |-> [finish |-> "refusal"]]
        ELSE IF c.text THEN [acc |-> acc, emit |-> [finish |-> Unset]]
        ELSE IF next = Full THEN [acc |-> next, emit |-> Nothing]
        ELSE [acc |-> next,
              emit |-> IF c.finish = Unset THEN Nothing ELSE mapFinish(next, c.finish)]

mapStopReason(sr) ==
    CASE sr \in {"tool_use", "refusal", "pause_turn", "stop_sequence", Unset} -> sr
      [] sr = "max_tokens" -> "length"
      [] OTHER -> "stop"

(* anthropic: a block starts with its id, its input follows, and the       *)
(* message's delta carries the stop reason.                                *)
mapEvent(acc, e) ==
    CASE e.type = "tool_start" ->
           IF Cardinality(DOMAIN acc) >= MaxToolBlocks THEN [acc |-> Full, emit |-> Nothing]
           ELSE [acc |-> Put(acc, e.index, [id |-> e.tag, args |-> <<>>]), emit |-> Nothing]
      [] e.type \in {"text", "thinking"} -> [acc |-> acc, emit |-> [finish |-> Unset]]
      [] e.type = "json" ->
           [acc |-> IF e.index \in DOMAIN acc THEN grow(acc, e.index, e.delta) ELSE acc, emit |-> Nothing]
      [] e.type = "message_delta" ->
           [acc |-> acc, emit |-> IF mapStopReason(e.tag) = "tool_use" THEN decodeTools(acc)
                                  ELSE [finish |-> mapStopReason(e.tag)]]
      [] OTHER -> [acc |-> acc, emit |-> Nothing]

classifyErr(status) ==
    CASE status \in {400, 422} -> "REQUEST_INVALID"
      [] status \in {401, 403} -> "AUTH_FAILED"
      [] status = 408 -> "TIMEOUT"
      [] OTHER -> "UNAVAILABLE"
-----------------------------------------------------------------------------
LlmInit ==
    /\ llmPc = "new" /\ provider = "none" /\ request = Nothing /\ wire = Nothing
    /\ toolAcc = <<>> /\ emitted = <<>> /\ streamErr = "none" /\ served = <<>>

NewProvider ==
    /\ llmPc = "new"
    /\ \E c \in LlmConfigs : provider' = factoryNew(c)
    /\ llmPc' = IF provider' \in {"openai", "anthropic"} THEN "ready" ELSE "done"
    /\ UNCHANGED <<request, wire, toolAcc, emitted, streamErr, served>>

(* Stream: nothing is sent for a request that is invalid or not convertible. *)
Stream ==
    /\ llmPc = "ready"
    /\ request' \in LlmRequests
    /\ wire' = IF ValidateRequest(request') THEN toParams(provider, request') ELSE Nothing
    /\ IF wire' = Nothing THEN llmPc' = "done" /\ streamErr' = "REQUEST_INVALID"
       ELSE llmPc' = "streaming" /\ UNCHANGED streamErr
    /\ UNCHANGED <<provider, toolAcc, emitted, served>>

(* One event of the server through Next; a violated limit ends the stream. *)
NextEvent(e, r) ==
    /\ served' = Append(served, e)
    /\ IF r.acc = Full THEN streamErr' = "DECODE_FAILED" /\ llmPc' = "done" /\ UNCHANGED toolAcc
       ELSE toolAcc' = r.acc /\ UNCHANGED <<llmPc, streamErr>>
    /\ emitted' = IF r.emit = Nothing THEN emitted ELSE Append(emitted, r.emit)
    /\ UNCHANGED <<provider, request, wire>>

OpenaiNext ==
    /\ llmPc = "streaming" /\ provider = "openai" /\ Len(served) < MaxServerEvents
    /\ \E c \in OpenaiChunks : NextEvent(c, mapChunk(toolAcc, c))

(* The server starts a block once, before its input. *)
AnthropicNext ==
    /\ llmPc = "streaming" /\ provider = "anthropic" /\ Len(served) < MaxServerEvents
    /\ \E e \in AnthropicEvents :
         /\ e.type = "tool_start" => e.index \notin DOMAIN toolAcc
         /\ e.type = "json" => e.index \in DOMAIN toolAcc
         /\ NextEvent(e, mapEvent(toolAcc, e))

StreamEnds ==
    /\ llmPc = "streaming" /\ llmPc' = "done"
    /\ \/ UNCHANGED streamErr
       \/ \E status \in {400, 401, 408, 500} : streamErr' = classifyErr(status)
    /\ UNCHANGED <<provider, request, wire, toolAcc, emitted, served>>

LlmDone == llmPc = "done" /\ UNCHANGED llmVars

LlmNext == NewProvider \/ Stream \/ OpenaiNext \/ AnthropicNext \/ StreamEnds \/ LlmDone
LlmSpec == LlmInit /\ [][LlmNext]_llmVars
-----------------------------------------------------------------------------
(* Some servers put text and something else into one chunk. *)
Mixed(e) == provider = "openai" /\ (e.text \/ e.reasoning) /\ (e.tools # <<>> \/ e.finish # Unset)
CallsIn(e, k) ==
    IF provider = "openai" THEN FlattenSeq([i \in DOMAIN e.tools |->
                                  IF e.tools[i].index = k THEN e.tools[i].frag ELSE <<>>])
    ELSE IF e.type = "json" /\ e.index = k THEN e.delta ELSE <<>>
SentFor(k) == FlattenSeq([i \in DOMAIN served |-> CallsIn(served[i], k)])

(* The tool calls of the last finish carry, in index order, every fragment *)
(* the server sent for their index, including those in the chunk that      *)
(* carries the finish reason; no fragment goes to another call.            *)
ToolCallsWhole ==
    LET finishing(e) == IF provider = "openai" THEN e.finish # Unset ELSE e.type = "message_delta"
        keys == SetToSortSeq(DOMAIN toolAcc, <)
    IN  /\ emitted # <<>> /\ Last(emitted).finish = "tool_use" /\ streamErr # "DECODE_FAILED"
        /\ finishing(Last(served))
        /\ \A i \in DOMAIN served : ~Mixed(served[i])
        => /\ Len(Last(emitted).tools) = Len(keys)
           /\ \A i \in DOMAIN keys : Last(emitted).tools[i].args = SentFor(keys[i])

(* A model cannot make the adapter hold more tool input than the limits,   *)
(* however it splits it into blocks and fragments.                         *)
ToolInputBounded ==
    /\ Cardinality(DOMAIN toolAcc) <= MaxToolBlocks
    /\ \A k \in DOMAIN toolAcc : Len(toolAcc[k].args) <= MaxToolInputBytes

(* openai requires the tool messages of a turn directly after the          *)
(* assistant message with their calls: whatever the order of the blocks,   *)
(* no user text comes between them.                                        *)
ToolRepliesFollowCalls ==
    wire # Nothing /\ provider = "openai" =>
        \A i \in DOMAIN wire.list : wire.list[i].as = "tool" =>
            i > 1 /\ wire.list[i-1].as # "user"

(* Tool calls survive the wire in both directions: put together whole and  *)
(* within the limits, and answered right behind the calls.                 *)
ToolTrafficWhole == ToolCallsWhole /\ ToolInputBounded /\ ToolRepliesFollowCalls
=============================================================================
