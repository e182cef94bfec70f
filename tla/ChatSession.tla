---------------------------- MODULE ChatSession -----------------------------
(***************************************************************************)
(* The chat Model of llmapp and the goroutine it shares a run with:        *)
(* submit, the loop adapter (makeEmit, loopStartCmd), the control channel, *)
(* the TokenStream and Model.Update (src/internal/app/cli/llmapp).  The    *)
(* producer is the goroutine of loopStartCmd; which events Loop.Run emits  *)
(* is left open, in the order Run allows (DiagnoseLoop).  The consumer is  *)
(* one chain: readControlMsg -> reader Cmd -> control msg -> readControlMsg*)
(* until the channel is closed.  Text tokens and tool calls are numbered   *)
(* by one counter, in the order Run emits them.                            *)
(***************************************************************************)
EXTENDS TokenStreamOps

CONSTANTS
    CtrlCap,      \* ctrlBufSize
    TextKinds,    \* token kinds Run emits
    MaxStamps,    \* BOUND: text chunks and tool calls over all runs
    MaxRuns       \* BOUND: submits

ASSUME SessionAssumption ==
    CtrlCap \in Nat \ {0} /\ MaxStamps \in Nat /\ MaxRuns \in Nat

VARIABLES
    run,          \* number of the current (or last) submit
    cancelled,    \* runs whose context was cancelled
    cancelCmds,   \* runs whose cancel() a worker is about to call
    (* shared by the producer and the Model *)
    ts,           \* the TokenStream
    ctrl,         \* the control channel
    ctrlClosed,
    (* the producer *)
    prod,         \* "none", "run", "closing", "closeCtrl", "exited"
    phase,        \* what Run may emit next: "text", "calls" (announcing the
                  \* calls of a turn), "results" (answering), "finished"
    todo,         \* messages the current emit has still to send
    segBuf,       \* the segment that is not sealed yet
    openTools,    \* calls of the turn whose results are due, in order
    stamp,        \* last number given to a token or a call
    (* the Model *)
    reader,       \* where the reader chain is
    inflight,     \* the control message it carries
    streaming, previewNodes, scrollback, finishHandled, sawContent,
    sawThinking, sealedTruncated,
    lastSnapshot, \* the run /report would describe, 0 if none
    (* history *)
    accepted      \* tokens the TokenStream took

prodVars == <<prod, phase, todo, segBuf, openTools, stamp, accepted>>
uiVars == <<streaming, previewNodes, scrollback, finishHandled, sawContent,
            sawThinking, sealedTruncated, lastSnapshot>>
vars == <<run, cancelled, cancelCmds, ts, ctrl, ctrlClosed, prodVars, reader,
          inflight, uiVars>>

-----------------------------------------------------------------------------
(* Control messages (streamControlMsg) and scrollback nodes. *)
Tick == [t |-> "tick"]
Sealed(text, trunc) == [t |-> "sealed", text |-> text, truncated |-> trunc]
Thinking == [t |-> "thinking"]
ToolUse(id) == [t |-> "toolUse", id |-> id]
ToolResult(id, err) == [t |-> "toolResult", id |-> id, isError |-> err]
FinishMsg(f) == [t |-> "finish", finish |-> f]
NoMsg == [t |-> "none"]

UserNode == [n |-> "user", run |-> run]
TextNode(text) == [n |-> "text", run |-> run, text |-> text]
ToolNode(id) == [n |-> "tool", run |-> run, id |-> id, state |-> "running"]
ResultNode(id) == [n |-> "result", run |-> run, id |-> id]
Marker(m) == [n |-> "marker", run |-> run, marker |-> m]

(* "Error" stands for every end with an error, a refusal or a DIAGNOSE.*   *)
(* code: each of them adds one marker, whatever was shown before.          *)
FinishReasons == {"Stop", "StopSequence", "Length", "Cancelled", "Error"}

Init ==
    /\ run = 0
    /\ cancelled = {}
    /\ cancelCmds = {}
    /\ ts = NewTokenStream
    /\ ctrl = <<>>
    /\ ctrlClosed = FALSE
    /\ prod = "none"
    /\ phase = "text"
    /\ todo = <<>>
    /\ segBuf = <<>>
    /\ openTools = <<>>
    /\ stamp = 0
    /\ reader = "none"
    /\ inflight = NoMsg
    /\ streaming = FALSE
    /\ previewNodes = <<>>
    /\ scrollback = <<>>
    /\ finishHandled = FALSE
    /\ sawContent = FALSE
    /\ sawThinking = FALSE
    /\ sealedTruncated = FALSE
    /\ lastSnapshot = 0
    /\ accepted = {}

-----------------------------------------------------------------------------
(* handleAction(ActionSubmit) -> submit: fresh plumbing for this run; the  *)
(* Cmd it returns starts the producer.                                     *)
Submit ==
    /\ ~streaming
    /\ run < MaxRuns
    /\ run' = run + 1
    /\ ts' = NewTokenStream
    /\ ctrl' = <<>>
    /\ ctrlClosed' = FALSE
    /\ streaming' = TRUE
    /\ previewNodes' = <<>>
    /\ finishHandled' = FALSE
    /\ sawContent' = FALSE
    /\ sawThinking' = FALSE
    /\ sealedTruncated' = FALSE
    /\ scrollback' = Append(scrollback, [UserNode EXCEPT !.run = run + 1])
    /\ reader' = "start"
    /\ UNCHANGED <<cancelled, cancelCmds, prodVars, inflight, lastSnapshot>>

(* loopStartCmd on a worker: the goroutine starts, readControlMsg returns. *)
StartLoop ==
    /\ reader = "start"
    /\ reader' = "armed"
    /\ prod' = "run"
    /\ phase' = "text"
    /\ todo' = <<>>
    /\ segBuf' = <<>>
    /\ openTools' = <<>>
    /\ UNCHANGED <<run, cancelled, cancelCmds, ts, ctrl, ctrlClosed, stamp,
                   accepted, inflight, uiVars>>

(* handleCancel returns a Cmd that holds this run's cancel ... *)
HandleCancel ==
    /\ streaming
    /\ cancelCmds' = cancelCmds \cup {run}
    /\ UNCHANGED <<run, cancelled, ts, ctrl, ctrlClosed, prodVars, reader,
                   inflight, uiVars>>

(* ... and a worker calls it, perhaps after the run has ended. *)
RunCancel(r) ==
    /\ r \in cancelCmds
    /\ cancelCmds' = cancelCmds \ {r}
    /\ cancelled' = cancelled \cup {r}
    /\ UNCHANGED <<run, ts, ctrl, ctrlClosed, prodVars, reader, inflight, uiVars>>

-----------------------------------------------------------------------------
(* The emit closure of makeEmit, as called by Loop.Run. *)

(* seal: the pending segment goes out before the event's own message. *)
seal(trunc) == IF segBuf = <<>> THEN <<>> ELSE <<Sealed(segBuf, trunc)>>

Emitting == prod = "run" /\ todo = <<>>

(* EventText: the segment grows, AppendChunk (refused once ctx is done),   *)
(* then a preview tick.                                                    *)
EmitText(k) ==
    /\ Emitting
    /\ phase = "text"
    /\ stamp < MaxStamps
    /\ stamp' = stamp + 1
    /\ LET t == [id |-> stamp + 1, kind |-> k] IN
        /\ segBuf' = Append(segBuf, t)
        /\ IF run \in cancelled
           THEN UNCHANGED <<ts, accepted>>
           ELSE /\ ts' = [ts EXCEPT !.tokens =
                            Append(@, [token |-> t, finish |-> "Unset"])]
                /\ accepted' = accepted \cup {t.id}
    /\ todo' = <<Tick>>
    /\ UNCHANGED <<run, cancelled, cancelCmds, ctrl, ctrlClosed, prod, phase,
                   openTools, reader, inflight, uiVars>>

EmitThinking ==
    /\ Emitting
    /\ phase = "text"
    /\ stamp < MaxStamps
    /\ stamp' = stamp + 1
    /\ todo' = <<Thinking>>
    /\ UNCHANGED <<run, cancelled, cancelCmds, ts, ctrl, ctrlClosed, prod,
                   phase, segBuf, openTools, accepted, reader, inflight, uiVars>>

(* EventToolCall seals the segment before it. *)
EmitToolCall ==
    /\ Emitting
    /\ phase \in {"text", "calls"}
    /\ stamp < MaxStamps
    /\ stamp' = stamp + 1
    /\ openTools' = Append(openTools, stamp + 1)
    /\ phase' = "calls"
    /\ todo' = seal(FALSE) \o <<ToolUse(stamp + 1)>>
    /\ segBuf' = <<>>
    /\ UNCHANGED <<run, cancelled, cancelCmds, ts, ctrl, ctrlClosed, prod,
                   accepted, reader, inflight, uiVars>>

EmitToolResult(err) ==
    /\ Emitting
    /\ openTools # <<>>
    /\ openTools' = Tail(openTools)
    /\ phase' = IF Len(openTools) = 1 THEN "text" ELSE "results"
    /\ todo' = seal(FALSE) \o <<ToolResult(Head(openTools), err)>>
    /\ segBuf' = <<>>
    /\ UNCHANGED <<run, cancelled, cancelCmds, ts, ctrl, ctrlClosed, prod,
                   stamp, accepted, reader, inflight, uiVars>>

(* EventFinish: natural ends come with no call open; a cancel or a total   *)
(* timeout ends the run anywhere.                                          *)
EmitFinish(f) ==
    /\ Emitting
    /\ openTools # <<>> => f \in {"Cancelled", "Error"}
    /\ f = "Cancelled" => run \in cancelled
    /\ phase' = "finished"
    /\ todo' = seal(f = "Length") \o <<FinishMsg(f)>>
    /\ segBuf' = <<>>
    /\ UNCHANGED <<run, cancelled, cancelCmds, ts, ctrl, ctrlClosed, prod,
                   openTools, stamp, accepted, reader, inflight, uiVars>>

(* send: ctrl <- msg ... *)
Send ==
    /\ prod = "run"
    /\ todo # <<>>
    /\ Len(ctrl) < CtrlCap
    /\ ctrl' = Append(ctrl, Head(todo))
    /\ todo' = Tail(todo)
    /\ prod' = IF phase = "finished" /\ Len(todo) = 1 THEN "closing" ELSE prod
    /\ UNCHANGED <<run, cancelled, cancelCmds, ts, ctrlClosed, phase, segBuf,
                   openTools, stamp, accepted, reader, inflight, uiVars>>

(* ... or ctx.Done(): emit fails and Run returns without an EventFinish. *)
SendCancelled ==
    /\ prod = "run"
    /\ todo # <<>>
    /\ run \in cancelled
    /\ prod' = "closing"
    /\ todo' = <<>>
    /\ UNCHANGED <<run, cancelled, cancelCmds, ts, ctrl, ctrlClosed, phase,
                   segBuf, openTools, stamp, accepted, reader, inflight, uiVars>>

(* The deferred calls of the goroutine: ts.Close, then close(ctrl). *)
CloseStream ==
    /\ prod = "closing"
    /\ prod' = "closeCtrl"
    /\ ts' = afterClose(ts)
    /\ UNCHANGED <<run, cancelled, cancelCmds, ctrl, ctrlClosed, phase, todo,
                   segBuf, openTools, stamp, accepted, reader, inflight, uiVars>>

CloseCtrl ==
    /\ prod = "closeCtrl"
    /\ prod' = "exited"
    /\ ctrlClosed' = TRUE
    /\ UNCHANGED <<run, cancelled, cancelCmds, ts, ctrl, phase, todo, segBuf,
                   openTools, stamp, accepted, reader, inflight, uiVars>>

-----------------------------------------------------------------------------
(* Update(readControlMsg): a reader Cmd goes to the workers. *)
ArmReader ==
    /\ reader = "armed"
    /\ reader' = "reading"
    /\ UNCHANGED <<run, cancelled, cancelCmds, ts, ctrl, ctrlClosed, prodVars,
                   inflight, uiVars>>

(* Mutant: an empty channel is taken for a closed one. *)
ReadCtrl_EmptyIsDone ==
    /\ reader = "reading"
    /\ \/ /\ ctrl # <<>>
          /\ inflight' = Head(ctrl)
          /\ ctrl' = Tail(ctrl)
          /\ reader' = "msg"
       \/ /\ ctrl = <<>>
          /\ reader' = "done"
          /\ UNCHANGED <<inflight, ctrl>>
    /\ UNCHANGED <<run, cancelled, cancelCmds, ts, ctrlClosed, prodVars, uiVars>>

(* The reader Cmd receives a message, or finds the channel closed. *)
ReadCtrl ==
    /\ reader = "reading"
    /\ \/ /\ ctrl # <<>>
          /\ inflight' = Head(ctrl)
          /\ ctrl' = Tail(ctrl)
          /\ reader' = "msg"
       \/ /\ ctrl = <<>>
          /\ ctrlClosed
          /\ reader' = "done"
          /\ UNCHANGED <<inflight, ctrl>>
    /\ UNCHANGED <<run, cancelled, cancelCmds, ts, ctrlClosed, prodVars, uiVars>>

(* transitionToolUseState; a result without its call is not rendered. *)
settle(sb, id, st) ==
    [i \in DOMAIN sb |->
        IF sb[i].n = "tool" /\ sb[i].id = id
        THEN [sb[i] EXCEPT !.state = st] ELSE sb[i]]

(* appendFinishNode: the nodes a finish reason adds. *)
finishNodes(f) ==
    IF sawThinking /\ ~sawContent /\ f = "Stop" THEN <<Marker("thinkingOnly")>>
    ELSE CASE f = "Cancelled" -> <<Marker("cancelled")>>
           [] f = "Error" -> <<Marker("error")>>
           [] ~sawContent /\ f \in {"StopSequence", "Length"} -> <<Marker("empty")>>
           [] sawContent /\ f = "Length" /\ ~sealedTruncated -> <<Marker("truncated")>>
           [] OTHER -> <<>>

Handling(kind) == reader = "msg" /\ inflight.t = kind

(* Every branch of handleControl re-arms the reader. *)
Handled == /\ reader' = "armed"
           /\ inflight' = NoMsg
           /\ UNCHANGED <<run, cancelled, cancelCmds, ctrl, ctrlClosed,
                          prodVars, streaming>>

(* Drained blocks as preview nodes. *)
Preview(bs) == [i \in DOMAIN bs |-> TextNode(bs[i].text)]

(* Mutant: previewed text goes straight to the scrollback. *)
HandleTick_Commits ==
    /\ Handling("tick")
    /\ scrollback' = scrollback \o Preview(drainChunks(ts).emitted)
    /\ ts' = afterDrain(ts)
    /\ Handled
    /\ UNCHANGED <<previewNodes, finishHandled, sawContent, sawThinking,
                   sealedTruncated, lastSnapshot>>

(* Mutant: a tick does not drain. *)
HandleTick_NoDrain ==
    /\ Handling("tick")
    /\ Handled
    /\ UNCHANGED <<ts, previewNodes, scrollback, finishHandled, sawContent, sawThinking,
                   sealedTruncated, lastSnapshot>>

HandleTick ==
    /\ Handling("tick")
    /\ previewNodes' = previewNodes \o Preview(drainChunks(ts).emitted)
    /\ ts' = afterDrain(ts)
    /\ Handled
    /\ UNCHANGED <<scrollback, finishHandled, sawContent, sawThinking,
                   sealedTruncated, lastSnapshot>>

HandleSealed ==
    /\ Handling("sealed")
    /\ sawContent' = TRUE
    /\ sealedTruncated' = inflight.truncated
    /\ scrollback' = Append(scrollback, TextNode(inflight.text))
    /\ ts' = afterDrain(ts)
    /\ previewNodes' = <<>>
    /\ Handled
    /\ UNCHANGED <<finishHandled, sawThinking, lastSnapshot>>

(* Mutant: an early return without the next reader. *)
HandleThinking_NoRearm ==
    /\ Handling("thinking")
    /\ sawThinking' = TRUE
    /\ reader' = "none"
    /\ inflight' = NoMsg
    /\ UNCHANGED <<run, cancelled, cancelCmds, ctrl, ctrlClosed, prodVars,
                   streaming, ts, previewNodes, scrollback, finishHandled, sawContent,
                   sealedTruncated, lastSnapshot>>

HandleThinking ==
    /\ Handling("thinking")
    /\ sawThinking' = TRUE
    /\ Handled
    /\ UNCHANGED <<ts, previewNodes, scrollback, finishHandled, sawContent,
                   sealedTruncated, lastSnapshot>>

HandleToolUse ==
    /\ Handling("toolUse")
    /\ scrollback' = Append(scrollback, ToolNode(inflight.id))
    /\ Handled
    /\ UNCHANGED <<ts, previewNodes, finishHandled, sawContent, sawThinking,
                   sealedTruncated, lastSnapshot>>

(* Mutant: the call keeps its Running state. *)
HandleToolResult_NoSettle ==
    /\ Handling("toolResult")
    /\ scrollback' =
        IF \E x \in ToSet(scrollback) : x.n = "tool" /\ x.id = inflight.id
        THEN Append(scrollback, ResultNode(inflight.id))
        ELSE scrollback
    /\ Handled
    /\ UNCHANGED <<ts, previewNodes, finishHandled, sawContent, sawThinking,
                   sealedTruncated, lastSnapshot>>

HandleToolResult ==
    /\ Handling("toolResult")
    /\ scrollback' =
        IF \E x \in ToSet(scrollback) : x.n = "tool" /\ x.id = inflight.id
        THEN Append(settle(scrollback, inflight.id,
                           IF inflight.isError THEN "error" ELSE "resolved"),
                    ResultNode(inflight.id))
        ELSE scrollback
    /\ Handled
    /\ UNCHANGED <<ts, previewNodes, finishHandled, sawContent, sawThinking,
                   sealedTruncated, lastSnapshot>>

HandleFinish ==
    /\ Handling("finish")
    /\ finishHandled' = TRUE
    /\ scrollback' = scrollback \o finishNodes(inflight.finish)
    /\ ts' = afterDrain(ts)
    /\ previewNodes' = <<>>
    /\ lastSnapshot' = IF inflight.finish = "Cancelled" THEN lastSnapshot ELSE run
    /\ Handled
    /\ UNCHANGED <<sawContent, sawThinking, sealedTruncated>>

(* Update(streamDoneMsg): the final flush, and back to idle. *)
StreamDone ==
    /\ reader = "done"
    /\ LET residual == previewNodes \o Preview(drainChunks(ts).emitted)
           note == IF finishHandled THEN <<>> ELSE <<Marker("cancelled")>>
       IN  /\ scrollback' = scrollback \o residual \o note
           /\ sawContent' = (sawContent \/ residual # <<>>)
    /\ ts' = afterDrain(ts)
    /\ reader' = "none"
    /\ streaming' = FALSE
    /\ previewNodes' = <<>>
    /\ finishHandled' = FALSE
    /\ sawThinking' = FALSE
    /\ sealedTruncated' = FALSE
    /\ UNCHANGED <<run, cancelled, cancelCmds, ctrl, ctrlClosed, prodVars,
                   inflight, lastSnapshot>>

ProducerStep ==
    \/ \E k \in TextKinds : EmitText(k)
    \/ EmitThinking
    \/ EmitToolCall
    \/ \E e \in BOOLEAN : EmitToolResult(e)
    \/ \E f \in FinishReasons : EmitFinish(f)
    \/ Send
    \/ SendCancelled
    \/ CloseStream
    \/ CloseCtrl

ConsumerStep ==
    \/ StartLoop
    \/ ArmReader
    \/ ReadCtrl
    \/ HandleTick
    \/ HandleSealed
    \/ HandleThinking
    \/ HandleToolUse
    \/ HandleToolResult
    \/ HandleFinish
    \/ StreamDone

Idle == run = MaxRuns /\ ~streaming /\ cancelCmds = {} /\ UNCHANGED vars

Next ==
    \/ Submit
    \/ HandleCancel
    \/ \E r \in 1..MaxRuns : RunCancel(r)
    \/ ProducerStep
    \/ ConsumerStep
    \/ Idle

(* Loop.Run terminates (DiagnoseLoop), the workers run every Cmd, and the  *)
(* main loop dispatches every Msg.                                         *)
Fairness ==
    /\ WF_vars(ProducerStep)
    /\ WF_vars(ConsumerStep)
    /\ WF_vars(\E r \in 1..MaxRuns : RunCancel(r))

Spec == Init /\ [][Next]_vars
FairSpec == Spec /\ Fairness
-----------------------------------------------------------------------------
KnownMsg(m) ==
    m.t \in {"tick", "thinking", "none", "sealed", "toolUse", "toolResult", "finish"}

(* Type invariant. *)
TypeOK ==
    /\ run \in 0..MaxRuns
    /\ cancelled \subseteq 1..run /\ cancelCmds \subseteq 1..run
    /\ Len(ctrl) <= CtrlCap
    /\ \A m \in ToSet(ctrl) \cup ToSet(todo) \cup {inflight} : KnownMsg(m)
    /\ prod \in {"none", "run", "closing", "closeCtrl", "exited"}
    /\ phase \in {"text", "calls", "results", "finished"}
    /\ stamp \in 0..MaxStamps /\ openTools \in Seq(1..stamp)
    /\ reader \in {"none", "start", "armed", "reading", "msg", "done"}
    /\ streaming \in BOOLEAN /\ finishHandled \in BOOLEAN
    /\ sawContent \in BOOLEAN /\ sawThinking \in BOOLEAN
    /\ sealedTruncated \in BOOLEAN
    /\ lastSnapshot \in 0..run
    /\ accepted \subseteq 1..stamp

(* The tokens the scrollback shows, in order, and the numbers of what it   *)
(* shows: tokens and tool calls.                                           *)
TokenIds(node) == [i \in DOMAIN node.text |-> node.text[i].id]
Shown == FlattenSeq([i \in DOMAIN scrollback |->
            CASE scrollback[i].n = "text" -> TokenIds(scrollback[i])
              [] scrollback[i].n = "tool" -> <<scrollback[i].id>>
              [] OTHER -> <<>>])
Markers(r) == {i \in DOMAIN scrollback :
                scrollback[i].n = "marker" /\ scrollback[i].run = r}

(* Text and tool blocks enter the scrollback in the order Run emitted      *)
(* them, however far the UI lags behind: what is shown for the first time  *)
(* is later than all that is shown above it.                               *)
FirstShownInOrder ==
    \A i \in 1..Len(Shown) :
        (\A j \in 1..(i - 1) : Shown[j] # Shown[i])
            => \A j \in 1..(i - 1) : Shown[j] < Shown[i]

(* A run nobody cancelled leaves all the text it streamed on the screen.   *)
NothingLostUncancelled ==
    ~streaming /\ cancelled = {} => accepted \subseteq ToSet(Shown)

(* What a run says reaches the scrollback in order, and all of it unless   *)
(* the user cancels, although preview and sealed text travel on two paths. *)
ShownComplete == TypeOK /\ FirstShownInOrder /\ NothingLostUncancelled

(* No cancel marker without a cancel: unless the user cancels, the         *)
(* EventFinish of a run reaches the UI before the channel is closed.       *)
NoSpuriousCancel ==
    \A i \in DOMAIN scrollback :
        scrollback[i].n = "marker" /\ scrollback[i].marker = "cancelled"
            => scrollback[i].run \in cancelled

(* A run ends with at most one verdict, and a tool block is left running   *)
(* only above a cancel or error verdict of its run.                        *)
ToolsSettled ==
    ~streaming =>
        \A i \in DOMAIN scrollback :
            /\ scrollback[i].n = "user" => Cardinality(Markers(scrollback[i].run)) <= 1
            /\ scrollback[i].n = "tool" /\ scrollback[i].state = "running" =>
                \E j \in Markers(scrollback[i].run) :
                    j > i /\ scrollback[j].marker \in {"cancelled", "error"}

(* /report describes the last run that completed: never one the screen     *)
(* shows as cancelled.                                                     *)
SnapshotNotCancelled ==
    \A i \in Markers(lastSnapshot) : scrollback[i].marker # "cancelled"

Ticks(msgs) == Cardinality({i \in DOMAIN msgs : msgs[i].t = "tick"})

(* Every token in the stream's channel has a tick on its way that will     *)
(* drain it, so at most CtrlCap + 2 of them wait: with chanCap 512 and     *)
(* ctrlBufSize 64 AppendChunk never blocks on a full channel.              *)
BacklogBounded ==
    prod = "run" => /\ Len(ts.tokens) <= Ticks(todo) + Ticks(ctrl) + Ticks(<<inflight>>)
                    /\ Len(ts.tokens) <= CtrlCap + 2

(* One run at a time: the goroutine of a run is gone before the Model can  *)
(* start the next one.                                                     *)
OneRunAtATime == ~streaming => prod \in {"none", "exited"}

(* Runs do not reach into each other: one goroutine at a time, a late      *)
(* cancel of an old run leaves the next one alone, and no cancelled run    *)
(* becomes the snapshot of /report.                                        *)
RunsIsolated == OneRunAtATime /\ NoSpuriousCancel /\ SnapshotNotCancelled

(* Every submit ends: the spinner stops and input is accepted again.       *)
StreamEnds == streaming ~> ~streaming

-----------------------------------------------------------------------------
(* What the comments and tests of llmapp say of the final flush.           *)

(* A run nobody cancelled commits no text twice (model.go: on the normal   *)
(* path previewNodes and TokenStream are empty at streamDoneMsg;           *)
(* model_test.go: no duplicate text on the normal path).                   *)
NoDuplicateText ==
    cancelled = {} => \A i, j \in 1..Len(Shown) : i # j => Shown[i] # Shown[j]

(* Text that reached the TokenStream before a cancel is committed by the   *)
(* final flush, so it is not lost (model.go, streamDoneMsg).               *)
NothingLostOnCancel ==
    ~streaming => accepted \subseteq ToSet(Shown)
=============================================================================
