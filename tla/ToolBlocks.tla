---------------------------- MODULE ToolBlocks ------------------------------
(***************************************************************************)
(* The tool blocks of the transcript: a ToolUse for each call and a        *)
(* ToolResult for each answer, the state the result gives to the use it    *)
(* belongs to, and the rows both render through the adapter of the tool.   *)
(* Tool ids come from the model and may come back in a later turn.         *)
(***************************************************************************)
EXTENDS Integers, Sequences, FiniteSets, SequencesExt

CONSTANTS
    ToolIds,        \* ids of tool calls
    MaxToolNodes    \* BOUND: nodes of the transcript

ASSUME ToolAssumption == MaxToolNodes \in Nat

VARIABLES
    toolNodes,      \* the tool nodes of Model.scrollback
    names       \* Model.toolUseNames

tbVars == <<toolNodes, names>>

(* What each registered adapter implements beside RenderHeader; a tool that *)
(* is not registered falls back to Generic.                                 *)
Registry == [Bash |-> {"progress", "queued", "result", "error", "rejected"},
             Read |-> {"result", "error"}, Skill |-> {}]
Tools == DOMAIN Registry \cup {"other"}
Lookup(name) == IF name \in DOMAIN Registry THEN Registry[name] ELSE {}

(* Contents as the renderers tell them apart: the three sentences of the    *)
(* permission dialogue, a string that only begins like the interrupt one,   *)
(* other strings, a structured value, nothing.                              *)
Contents == {"cancel", "reject", "interrupt", "interrupt_more", "text", "lines", "struct", "empty"}
-----------------------------------------------------------------------------
deriveResultState(content, isError) ==
    IF content = "cancel" THEN "canceled"
    ELSE IF content \in {"reject", "interrupt"} THEN "rejected"
    ELSE IF isError THEN "error"
    ELSE "success"

resultIndicator(state) ==
    CASE state = "success" -> "check" [] state = "error" -> "cross"
      [] state = "rejected" -> "barred" [] state = "canceled" -> "stop"

stateIndicator(state) ==
    CASE state = "queued" -> "pause" [] state = "running" -> "play"
      [] state = "resolved" -> "dot" [] state = "error" -> "cross"

(* A row: its indicator and what its text says. *)
Row(ind, says) == [ind |-> ind, says |-> says]
Says(content) == IF content = "empty" THEN "nothing" ELSE content

(* Bash says "(empty)" for empty output and Read "(empty file)"; Generic is *)
(* asked only when there is some content.                                   *)
callResultRenderer(name, content, verbose) ==
    IF "result" \in Lookup(name)
    THEN IF content = "empty" THEN IF name = "Read" /\ verbose THEN "nothing" ELSE "(empty)"
         ELSE content
    ELSE Says(content)

(* FormatFallbackToolUseError always says something, "Error: " at least. *)
FormatFallbackToolUseError(content) == IF content = "struct" THEN "failed" ELSE "Error: "

callRejectedRenderer(name, content) ==
    IF "rejected" \in Lookup(name) THEN Says(content) ELSE "nothing"

collectStateRows(t, verbose) ==
    LET ind == resultIndicator(t.state)
        ok == callResultRenderer(t.name, t.content, verbose)
        no == callRejectedRenderer(t.name, t.content)
    IN  CASE t.state = "success" -> IF ok = "nothing" THEN <<>> ELSE <<Row(ind, ok)>>
          [] t.state = "error" -> <<Row(ind, FormatFallbackToolUseError(t.content))>>
          [] t.state = "rejected" -> <<Row(ind, IF no = "nothing" THEN "Interrupted" ELSE no)>>
          [] t.state = "canceled" -> <<Row(ind, "Interrupted")>>

collectRows(t, verbose) ==
    LET rows == collectStateRows(t, verbose)
    IN  IF t.cached THEN Append(rows, Row("none", "(cached)")) ELSE rows

(* The header, replaced while the call is queued, and the row below it. *)
useRows(t) ==
    LET head == Row(stateIndicator(t.state), IF t.state = "queued" THEN "Waiting" ELSE "header")
    IN  IF t.state = "running" /\ "progress" \in Lookup(t.name)
        THEN <<head, Row("none", "Running")>> ELSE <<head>>

(* A row of several lines becomes several rows, a wrapped one too. *)
expandBlockRows(rows) ==
    FlattenSeq([i \in DOMAIN rows |-> IF rows[i].says = "lines"
                                      THEN <<rows[i], Row("none", "lines")>> ELSE <<rows[i]>>])

NodeRows(t, verbose) ==
    expandBlockRows(IF t.kind = "use" THEN useRows(t) ELSE collectRows(t, verbose))
-----------------------------------------------------------------------------
TbInit == toolNodes = <<>> /\ names = [i \in ToolIds |-> "unknown"]

NewToolUse(id, name) == [kind |-> "use", id |-> id, name |-> name, state |-> "queued"]
NewToolResult(id, name, content, isError, cached) ==
    [kind |-> "result", id |-> id, name |-> name, content |-> content, isError |-> isError,
     cached |-> cached, state |-> deriveResultState(content, isError)]

Uses(id) == {i \in DOMAIN toolNodes : toolNodes[i].kind = "use" /\ toolNodes[i].id = id}

transitionToolUseState_First(id, state) ==
    IF Uses(id) = {} THEN toolNodes
    ELSE [toolNodes EXCEPT ![CHOOSE i \in Uses(id) : \A j \in Uses(id) : i <= j].state = state]

(* The last use with the id takes the state. *)
transitionToolUseState(id, state) ==
    IF Uses(id) = {} THEN toolNodes
    ELSE [toolNodes EXCEPT ![CHOOSE i \in Uses(id) : \A j \in Uses(id) : i >= j].state = state]

(* No call is made while another one with its id is open. *)
Open(id) == \E i \in Uses(id) : toolNodes[i].state = "running"

ToolUseMsg(id, name) ==
    /\ Len(toolNodes) < MaxToolNodes /\ ~Open(id)
    /\ names' = [names EXCEPT ![id] = name]
    /\ toolNodes' = Append(toolNodes, [NewToolUse(id, name) EXCEPT !.state = "running"])

(* A result without a name it could be rendered for is skipped. *)
ToolResultMsg(id, content, isError, cached) ==
    /\ Len(toolNodes) < MaxToolNodes
    /\ Open(id) \/ names[id] = "unknown"
    /\ toolNodes' = IF names[id] = "unknown" THEN toolNodes
                ELSE Append(transitionToolUseState(id, IF isError THEN "error" ELSE "resolved"),
                            NewToolResult(id, names[id], content, isError, cached))
    /\ UNCHANGED names

TbDone == Len(toolNodes) = MaxToolNodes /\ UNCHANGED tbVars

TbNext ==
    \/ \E id \in ToolIds, n \in Tools : ToolUseMsg(id, n)
    \/ \E id \in ToolIds, c \in Contents, e, k \in BOOLEAN : ToolResultMsg(id, c, e, k)
    \/ TbDone

TbSpec == TbInit /\ [][TbNext]_tbVars
-----------------------------------------------------------------------------
(* The header of a call says how that call ended: with an id that comes    *)
(* back, and with the results of several calls in any order, a result      *)
(* settles the call it answers, and no call stays "running" beside its     *)
(* result.                                                                 *)
HeaderAgreesWithResult ==
    \A i, j \in DOMAIN toolNodes :
        (/\ i < j /\ toolNodes[i].kind = "use" /\ toolNodes[j].kind = "result" /\ toolNodes[i].id = toolNodes[j].id
         /\ ~\E k \in i+1..j-1 : toolNodes[k].kind = "use" /\ toolNodes[k].id = toolNodes[i].id)
        => /\ toolNodes[i].state = IF toolNodes[j].isError THEN "error" ELSE "resolved"
           /\ toolNodes[i].name = toolNodes[j].name

(* What went wrong is seen: a result that the user refused or interrupted  *)
(* is shown as such even when it also counts as an error, and an error is  *)
(* never a blank, whatever adapter the tool has and whatever it answered.  *)
FailureShown ==
    \A j \in DOMAIN toolNodes : toolNodes[j].kind = "result" => \A v \in BOOLEAN :
        LET t == toolNodes[j]
            seen == {NodeRows(t, v)[i].ind : i \in DOMAIN NodeRows(t, v)}
        IN  /\ t.content = "cancel" => "stop" \in seen
            /\ t.content \in {"reject", "interrupt"} => "barred" \in seen
            /\ (t.isError /\ t.content \notin {"cancel", "reject", "interrupt"}) => "cross" \in seen

(* A result served from the cache says so, even when it has no other row.  *)
CachedShown ==
    \A j \in DOMAIN toolNodes : toolNodes[j].kind = "result" /\ toolNodes[j].cached => \A v \in BOOLEAN :
        \E i \in DOMAIN NodeRows(toolNodes[j], v) : NodeRows(toolNodes[j], v)[i].says = "(cached)"

(* The transcript tells how each call ended: in its header and in its      *)
(* result, also when it failed, was refused or came from the cache.        *)
ToolOutcomeShown == HeaderAgreesWithResult /\ FailureShown /\ CachedShown
=============================================================================
