-------------------------- MODULE ChatSessionProofs --------------------------
(***************************************************************************)
(* Theorems about the chat session, for every number of runs, chunks and   *)
(* tool calls and every capacity of the control channel.                   *)
(***************************************************************************)
EXTENDS ChatSession, SequenceTheorems, FiniteSetTheorems, TLAPS

(* A set of naturals that is not empty has a least element: induction      *)
(* without an operator as its parameter.                                   *)
LEMMA LeastNatural ==
    ASSUME NEW T, T \subseteq Nat, T # {}
    PROVE  \E m \in T : \A k \in T : m <= k
  <1>1. PICK m \in T : \A k \in T : ~(<<k, m>> \in OpToRel(<, Nat))
    BY NatLessThanWellFounded, WFMin
  <1>2. \A k \in T : ~(k < m)
    BY <1>1 DEF OpToRel
  <1> QED BY <1>2

-----------------------------------------------------------------------------
(* The types of the TokenStream. *)
Toks == [id : Nat, kind : TextKinds]
Ends == {"Unset", "Stop", "Length", "Error", "Cancelled"}
Chunks == [token : Toks, finish : Ends]
Blocks == [text : Seq(Toks), truncated : BOOLEAN, continued : BOOLEAN, empty : BOOLEAN]
Streams == [tokens : Seq(Chunks), lineBuf : Seq(Toks), emitted : Seq(Blocks),
            openFence : BOOLEAN, finish : Ends, sawContent : BOOLEAN, closed : BOOLEAN]

LEMMA EmitTyped ==
    ASSUME NEW s \in Streams, NEW trunc \in BOOLEAN, NEW cont \in BOOLEAN
    PROVE  emitWholeBuffer(s, trunc, cont) \in Streams
  <1> DEFINE b == [text |-> s.lineBuf, truncated |-> trunc, continued |-> cont,
                   empty |-> FALSE]
  <1>1. b \in Blocks
    BY DEF Streams, Blocks
  <1> HIDE DEF b
  <1>2. /\ s.emitted \in Seq(Blocks)
        /\ <<>> \in Seq(Toks)
    BY DEF Streams
  <1>3. Append(s.emitted, b) \in Seq(Blocks)
    BY <1>1, <1>2
  <1>4. [s EXCEPT !.lineBuf = <<>>] \in Streams
    BY <1>2 DEF Streams
  <1>5. [s EXCEPT !.lineBuf = <<>>, !.emitted = Append(@, b)] \in Streams
    BY <1>2, <1>3, <1>4 DEF Streams
  <1> QED BY <1>5 DEF emitWholeBuffer, b

LEMMA AppendTokenTyped ==
    ASSUME NEW s \in Streams, NEW t \in Toks
    PROVE  appendToken(s, t) \in Streams
  <1> DEFINE inFence == s.openFence # (t.kind = "fence")
             w == [s EXCEPT !.sawContent = TRUE, !.lineBuf = Append(@, t),
                            !.openFence = inFence]
  <1>1. inFence \in BOOLEAN
    OBVIOUS
  <1>2. s.lineBuf \in Seq(Toks) /\ Append(s.lineBuf, t) \in Seq(Toks)
    BY DEF Streams
  <1>3. w \in Streams
    BY <1>1, <1>2 DEF Streams
  <1> HIDE DEF w, inFence
  <1>4. tryEmitLines(w) \in Streams
    BY <1>3, EmitTyped DEF tryEmitLines
  <1>5. /\ emitWholeBuffer(w, FALSE, TRUE) \in Streams
        /\ emitWholeBuffer(w, FALSE, FALSE) \in Streams
    BY <1>3, EmitTyped
  <1>6. appendToken(s, t) =
           CASE inFence /\ Len(w.lineBuf) > LineBufCap -> emitWholeBuffer(w, FALSE, TRUE)
             [] inFence /\ Len(w.lineBuf) <= LineBufCap -> w
             [] ~inFence /\ t.kind = "fence" -> emitWholeBuffer(w, FALSE, FALSE)
             [] OTHER -> tryEmitLines(w)
    BY DEF appendToken, w, inFence
  <1> QED BY <1>3, <1>4, <1>5, <1>6

LEMMA FlushTyped ==
    ASSUME NEW s \in Streams, NEW trunc \in BOOLEAN
    PROVE  flushPartial(s, trunc) \in Streams /\ flushRest(s) \in Streams
  <1>1. ASSUME NEW r \in Streams, NEW b \in BOOLEAN
        PROVE  flushPartial(r, b) \in Streams
    <2> DEFINE f == emitWholeBuffer(r, b, FALSE)
               e == [text |-> <<>>, truncated |-> FALSE, continued |-> FALSE,
                     empty |-> TRUE]
    <2>1. f \in Streams
      BY EmitTyped
    <2>2. e \in Blocks
      BY DEF Blocks
    <2> HIDE DEF f, e
    <2>3. f.emitted \in Seq(Blocks) /\ Append(f.emitted, e) \in Seq(Blocks)
      BY <2>1, <2>2 DEF Streams
    <2>4. [f EXCEPT !.emitted = Append(@, e)] \in Streams
      BY <2>1, <2>3 DEF Streams
    <2> QED BY <2>1, <2>4 DEF flushPartial, f, e
  <1> DEFINE tr == truncatedFinish(s)
  <1>2. tr \in BOOLEAN
    BY DEF truncatedFinish
  <1> HIDE DEF tr
  <1>3. flushPartial(s, tr) \in Streams
    BY <1>1, <1>2
  <1> QED BY <1>1, <1>3 DEF flushRest, tr

LEMMA ProcessTyped ==
    ASSUME NEW s \in Streams, NEW c \in Chunks
    PROVE  processChunk(s, c) \in Streams
  <1> DEFINE w == IF c.token = NoToken THEN s ELSE appendToken(s, c.token)
  <1>1. c.token \in Toks /\ c.finish \in Ends
    BY DEF Chunks
  <1>2. w \in Streams
    BY <1>1, AppendTokenTyped
  <1> HIDE DEF w
  <1>3. [w EXCEPT !.finish = c.finish] \in Streams
    BY <1>1, <1>2 DEF Streams
  <1> DEFINE r == [w EXCEPT !.finish = c.finish]
             tr == c.finish \in {"Length", "Error"}
  <1>4. tr \in BOOLEAN
    OBVIOUS
  <1> HIDE DEF r, tr
  <1>5. flushPartial(r, tr) \in Streams
    BY <1>3, <1>4, FlushTyped DEF r
  <1> QED BY <1>2, <1>5 DEF processChunk, w, r, tr

(* Updates of one field. *)
LEMMA StreamFields ==
    ASSUME NEW s \in Streams
    PROVE  /\ \A c \in Seq(Chunks) : /\ [s EXCEPT !.tokens = c] \in Streams
                                     /\ [s EXCEPT !.tokens = c].tokens = c
           /\ [s EXCEPT !.emitted = <<>>] \in Streams
           /\ [s EXCEPT !.emitted = <<>>].tokens = s.tokens
           /\ [s EXCEPT !.closed = TRUE] \in Streams
           /\ [s EXCEPT !.finish = "Cancelled"] \in Streams
  <1>1. <<>> \in Seq(Blocks)
    OBVIOUS
  <1> QED BY <1>1 DEF Streams, Ends

(* drainChunks is defined: one chunk after another.                        *)
DrainChain(s, N, g) ==
    /\ g[0] = s /\ \A n \in 0..N : g[n] \in Streams
    /\ \A n \in 1..N : g[n] = processChunk(g[n - 1], s.tokens[n])
    /\ drainChunks(s) = [g[N] EXCEPT !.tokens = <<>>]

LEMMA DrainRun == ASSUME NEW s \in Streams PROVE \E g : DrainChain(s, Len(s.tokens), g)
  <1> DEFINE N == Len(s.tokens)
             tok(n) == s.tokens[n]
  <1>1. N \in Nat /\ \A n \in 1..N : tok(n) \in Chunks
    BY DEF Streams
  <1> HIDE DEF N, tok
  <1>2. \A m \in 0..N : \E g \in [0..m -> Streams] :
           g[0] = s /\ \A n \in 1..m : g[n] = processChunk(g[n - 1], tok(n))
    <2> DEFINE T == {m \in 0..N : ~\E g \in [0..m -> Streams] :
                        g[0] = s /\ \A n \in 1..m : g[n] = processChunk(g[n - 1], tok(n))}
    <2> SUFFICES ASSUME T # {} PROVE FALSE
      OBVIOUS
    <2>1. T \subseteq Nat
      BY <1>1
    <2> HIDE DEF T
    <2>2. PICK m \in T : \A k \in T : m <= k
      BY <2>1, LeastNatural
    <2>3. m \in 0..N
      BY DEF T
    <2>4. CASE m = 0
      <3> DEFINE g == [n \in 0..0 |-> s]
      <3>1. g \in [0..m -> Streams] /\ g[0] = s /\ 1..m = {}
        BY <2>4
      <3> HIDE DEF g
      <3> QED BY <2>3, <3>1 DEF T
    <2>5. CASE m # 0
      <3>1. m - 1 \in 0..N /\ m - 1 \notin T
        BY <1>1, <2>2, <2>3, <2>5
      <3>2. PICK g \in [0..(m - 1) -> Streams] :
               g[0] = s /\ \A n \in 1..(m - 1) : g[n] = processChunk(g[n - 1], tok(n))
        BY <3>1 DEF T
      <3> DEFINE x == processChunk(g[m - 1], tok(m))
                 h == [n \in 0..m |-> IF n = m THEN x ELSE g[n]]
      <3>3. x \in Streams
        <4>1. g[m - 1] \in Streams /\ tok(m) \in Chunks
          BY <1>1, <2>3, <2>5
        <4> QED BY <4>1, ProcessTyped
      <3> HIDE DEF x
      <3>4. h \in [0..m -> Streams] /\ h[0] = s /\ h[m] = x
            /\ \A n \in 0..(m - 1) : h[n] = g[n]
        BY <2>3, <2>5, <3>2, <3>3
      <3> HIDE DEF h
      <3>5. \A n \in 1..m : h[n] = processChunk(h[n - 1], tok(n))
        <4> TAKE n \in 1..m
        <4>1. CASE n = m
          BY <2>3, <2>5, <3>4, <4>1 DEF x
        <4>2. CASE n # m
          BY <2>3, <2>5, <3>2, <3>4, <4>2
        <4> QED BY <4>1, <4>2
      <3> QED BY <2>3, <3>4, <3>5 DEF T
    <2> QED BY <2>4, <2>5
  <1>3. PICK g \in [0..N -> Streams] :
           g[0] = s /\ \A n \in 1..N : g[n] = processChunk(g[n - 1], tok(n))
    BY <1>1, <1>2
  <1>4. g = [n \in 0..N |-> IF n = 0 THEN s ELSE processChunk(g[n - 1], tok(n))]
    <2>1. \A n \in 0..N : n = 0 \/ n \in 1..N
      BY <1>1
    <2> QED BY <1>3, <2>1
  <1> DEFINE after == CHOOSE f : f = [n \in 0..N |->
                        IF n = 0 THEN s ELSE processChunk(f[n - 1], tok(n))]
  <1>5. after = [n \in 0..N |->
                   IF n = 0 THEN s ELSE processChunk(after[n - 1], tok(n))]
    BY <1>4
  <1>6. drainChunks(s) = [after[N] EXCEPT !.tokens = <<>>]
    BY DEF drainChunks, N, tok
  <1> HIDE DEF after
  <1>7. after[0] = s /\ \A n \in 1..N : after[n] = processChunk(after[n - 1], tok(n))
    BY <1>1, <1>5
  <1>8. \A n \in 0..N : after[n] \in Streams
    <2> DEFINE T == {m \in 0..N : after[m] \notin Streams}
    <2> SUFFICES ASSUME T # {} PROVE FALSE
      OBVIOUS
    <2>4. T \subseteq Nat
      BY <1>1
    <2>1. PICK m \in T : \A k \in T : m <= k
      BY <2>4, LeastNatural
    <2>2. m # 0
      BY <1>7
    <2>3. m - 1 \in 0..N /\ m - 1 \notin T /\ m \in 1..N
      BY <1>1, <2>1, <2>2
    <2> QED BY <1>1, <1>7, <2>3, ProcessTyped
  <1>9. \A n \in 1..N : after[n] = processChunk(after[n - 1], s.tokens[n])
    BY <1>7 DEF tok
  <1> QED BY <1>6, <1>7, <1>8, <1>9 DEF DrainChain, N

(* ... and yields a stream whose channel is empty.                         *)
LEMMA DrainTyped ==
    ASSUME NEW s \in Streams
    PROVE  /\ drainChunks(s) \in Streams /\ drainChunks(s).tokens = <<>>
           /\ afterDrain(s) \in Streams /\ afterDrain(s).tokens = <<>>
  <1>1. PICK N, g : N = Len(s.tokens) /\ DrainChain(s, N, g)
    BY DrainRun
  <1>2. PICK a : a = g[N]
    OBVIOUS
  <1>3. a \in Streams /\ drainChunks(s) = [a EXCEPT !.tokens = <<>>]
    <2>1. N \in 0..N
      BY <1>1 DEF Streams
    <2> QED BY <1>1, <1>2, <2>1 DEF DrainChain
  <1>4. [a EXCEPT !.tokens = <<>>] \in Streams /\ [a EXCEPT !.tokens = <<>>].tokens = <<>>
    <2>1. <<>> \in Seq(Chunks)
      OBVIOUS
    <2> QED BY <1>3, <2>1, StreamFields
  <1>5. drainChunks(s) \in Streams /\ drainChunks(s).tokens = <<>>
    BY <1>3, <1>4
  <1> QED BY <1>5, StreamFields DEF afterDrain

LEMMA CloseTyped == ASSUME NEW s \in Streams PROVE afterClose(s) \in Streams
  <1> DEFINE r == [s EXCEPT !.closed = TRUE]
             d == drainChunks(r)
             e == IF d.finish = "Unset" THEN [d EXCEPT !.finish = "Cancelled"] ELSE d
  <1>1. d \in Streams
    BY StreamFields, DrainTyped
  <1> HIDE DEF d
  <1>2. e \in Streams
    BY <1>1, StreamFields
  <1> HIDE DEF e
  <1>3. flushRest(e) \in Streams
    BY <1>2, FlushTyped
  <1> QED BY <1>3 DEF afterClose, e, d

-----------------------------------------------------------------------------
(* The types of the session. *)
Msgs ==
    {Tick, Thinking}
        \cup [t : {"sealed"}, text : Seq(Toks), truncated : BOOLEAN]
        \cup [t : {"toolUse"}, id : Nat]
        \cup [t : {"toolResult"}, id : Nat, isError : BOOLEAN]
        \cup [t : {"finish"}, finish : FinishReasons]

Verdicts == {"cancelled", "error", "thinkingOnly", "empty", "truncated"}

Nodes ==
    [n : {"user"}, run : Nat]
        \cup [n : {"text"}, run : Nat, text : Seq(Toks)]
        \cup [n : {"tool"}, run : Nat, id : Nat, state : {"running", "error", "resolved"}]
        \cup [n : {"result"}, run : Nat, id : Nat]
        \cup [n : {"marker"}, run : Nat, marker : Verdicts]

RunType ==
    /\ run \in 0..MaxRuns /\ cancelled \subseteq 1..run /\ cancelCmds \subseteq 1..run
    /\ lastSnapshot \in 0..run
    /\ streaming => run > 0

ChanType ==
    /\ ts \in Streams
    /\ ctrl \in Seq(Msgs) /\ Len(ctrl) <= CtrlCap
    /\ reader \in {"none", "start", "armed", "reading", "msg", "done"}
    /\ inflight \in Msgs \cup {NoMsg}

ProdType ==
    /\ prod \in {"none", "run", "closing", "closeCtrl", "exited"}
    /\ phase \in {"text", "calls", "results", "finished"}
    /\ todo \in Seq(Msgs) /\ segBuf \in Seq(Toks)
    /\ stamp \in 0..MaxStamps /\ openTools \in Seq(1..stamp)
    /\ accepted \subseteq 1..stamp

(* The preview holds text of the current run. *)
Texts(s) == \A i \in 1..Len(s) : s[i].n = "text" /\ s[i].run = run

UiType == previewNodes \in Seq(Nodes) /\ Texts(previewNodes) /\ scrollback \in Seq(Nodes)

CsTypeOK == RunType /\ ChanType /\ ProdType /\ UiType

(* One producer and one reader chain per run; both are gone, and what they *)
(* share is empty, before the next run.                                    *)
ChainInv ==
    /\ streaming <=> reader # "none"
    /\ reader \in {"none", "start"} =>
         prod \in {"none", "exited"} /\ ctrl = <<>> /\ ~finishHandled
    /\ reader = "start" => ~ctrlClosed
    /\ reader \notin {"none", "start"} => prod # "none" /\ (ctrlClosed <=> prod = "exited")
    /\ reader = "done" => ctrl = <<>> /\ ctrlClosed
    /\ prod # "run" => todo = <<>>
    /\ reader = "msg" <=> inflight # NoMsg

(* A run's finish message is its last one, and comes unless it is          *)
(* cancelled; a Cancelled finish means that it was.                        *)
IsFinish(m) == m.t = "finish"
FinishComing == IsFinish(inflight) \/ \E i \in 1..Len(ctrl) : IsFinish(ctrl[i])
CancelledMeant(m) == IsFinish(m) /\ m.finish = "Cancelled" => run \in cancelled

FinishInv ==
    /\ \A i \in 1..Len(ctrl) : IsFinish(ctrl[i]) => i = Len(ctrl) /\ prod # "run"
    /\ \A i \in 1..Len(todo) : IsFinish(todo[i]) => i = Len(todo) /\ phase = "finished"
    /\ IsFinish(inflight) => ctrl = <<>> /\ prod # "run"
    /\ prod = "run" /\ phase = "finished" => todo # <<>> /\ IsFinish(todo[Len(todo)])
    /\ finishHandled => ctrl = <<>> /\ prod # "run" /\ reader # "msg"
    /\ reader \notin {"none", "start"} /\ prod # "run" /\ run \notin cancelled =>
         finishHandled \/ FinishComing
    /\ CancelledMeant(inflight)
    /\ \A i \in 1..Len(ctrl) : CancelledMeant(ctrl[i])
    /\ \A i \in 1..Len(todo) : CancelledMeant(todo[i])

(* Verdicts: one per run, none before the finish is handled. *)
IsMarker(x) == x.n = "marker"
MarkInv ==
    /\ \A i \in 1..Len(scrollback) : scrollback[i].run \in 1..run
    /\ \A i \in 1..Len(scrollback) :
         IsMarker(scrollback[i]) /\ scrollback[i].run = run /\ streaming => finishHandled
    /\ \A i, j \in 1..Len(scrollback) :
         IsMarker(scrollback[i]) /\ IsMarker(scrollback[j])
           /\ scrollback[i].run = scrollback[j].run => i = j
    /\ lastSnapshot = run /\ streaming => finishHandled
    /\ \A i \in 1..Len(scrollback) :
         IsMarker(scrollback[i]) /\ scrollback[i].marker = "cancelled" =>
           scrollback[i].run \in cancelled /\ scrollback[i].run # lastSnapshot

(* A call on the screen is still running: its result is due, or on its     *)
(* way behind it, or the run is about to end badly, or has.                *)
IsRunning(x) == x.n = "tool" /\ x.state = "running"
EndsBadly(m) == IsFinish(m) /\ m.finish \in {"Cancelled", "Error"}
Answers(m, id) == m.t = "toolResult" /\ m.id = id
Due(id) == prod = "run" /\ phase # "finished" /\ \E i \in 1..Len(openTools) : openTools[i] = id
Answered(s, id) == \E i \in 1..Len(s) : Answers(s[i], id)
BadEnd(s) == \E i \in 1..Len(s) : EndsBadly(s[i])
Doomed ==
    \/ EndsBadly(inflight) \/ BadEnd(ctrl) \/ BadEnd(todo)
    \/ prod # "run" /\ ~finishHandled /\ ~FinishComing
Verdict(i) ==
    \E j \in (i + 1)..Len(scrollback) :
        /\ IsMarker(scrollback[j]) /\ scrollback[j].run = scrollback[i].run
        /\ scrollback[j].marker \in {"cancelled", "error"}

Pending(id) ==
    Due(id) \/ Answers(inflight, id) \/ Answered(ctrl, id) \/ Answered(todo, id) \/ Doomed

ToolInv ==
    /\ \A i \in 1..Len(scrollback) : IsRunning(scrollback[i]) =>
         \/ Verdict(i)
         \/ /\ scrollback[i].run = run /\ streaming /\ reader # "start"
            /\ Pending(scrollback[i].id)
    /\ inflight.t = "toolUse" =>
         \/ Due(inflight.id) \/ Answered(ctrl, inflight.id) \/ Answered(todo, inflight.id)
         \/ Doomed
    /\ \A i \in 1..Len(ctrl) : ctrl[i].t = "toolUse" =>
         \/ Due(ctrl[i].id) \/ Answered(todo, ctrl[i].id)
         \/ \E j \in (i + 1)..Len(ctrl) : Answers(ctrl[j], ctrl[i].id)
         \/ Doomed
    /\ \A i \in 1..Len(todo) : todo[i].t = "toolUse" => Due(todo[i].id)

(* Every waiting token has its tick. *)
BacklogInv ==
    /\ reader = "start" => ts.tokens = <<>>
    /\ \A i \in 1..Len(todo) : todo[i].t = "tick" => Len(todo) = 1
    /\ prod = "run" => Len(ts.tokens) <= Ticks(todo) + Ticks(ctrl) + Ticks(<<inflight>>)

(* The inductive invariant. *)
ChatInv == CsTypeOK /\ ChainInv /\ FinishInv /\ MarkInv /\ ToolInv /\ BacklogInv

-----------------------------------------------------------------------------
(* Messages and nodes. *)
LEMMA MsgFacts ==
    /\ Tick \in Msgs /\ Tick.t = "tick" /\ Thinking \in Msgs /\ Thinking.t = "thinking"
    /\ NoMsg.t = "none" /\ NoMsg \notin Msgs
    /\ \A x \in Seq(Toks), b \in BOOLEAN :
         Sealed(x, b) \in Msgs /\ Sealed(x, b).t = "sealed"
    /\ \A id \in Nat : ToolUse(id) \in Msgs /\ ToolUse(id).t = "toolUse" /\ ToolUse(id).id = id
    /\ \A id \in Nat, b \in BOOLEAN :
         /\ ToolResult(id, b) \in Msgs
         /\ ToolResult(id, b).t = "toolResult" /\ ToolResult(id, b).id = id
    /\ \A f \in FinishReasons :
         FinishMsg(f) \in Msgs /\ FinishMsg(f).t = "finish" /\ FinishMsg(f).finish = f
  BY DEF Msgs, Tick, Thinking, NoMsg, Sealed, ToolUse, ToolResult, FinishMsg

LEMMA MsgFields ==
    ASSUME NEW m \in Msgs
    PROVE  /\ m.t \in {"tick", "thinking", "sealed", "toolUse", "toolResult", "finish"}
           /\ m.t = "sealed" => m.text \in Seq(Toks) /\ m.truncated \in BOOLEAN
           /\ m.t = "toolUse" => m.id \in Nat
           /\ m.t = "toolResult" => m.id \in Nat /\ m.isError \in BOOLEAN
           /\ m.t = "finish" => m.finish \in FinishReasons
  BY DEF Msgs, Tick, Thinking

LEMMA NodeFacts ==
    ASSUME run \in Nat
    PROVE  /\ [UserNode EXCEPT !.run = run + 1] \in Nodes
           /\ [UserNode EXCEPT !.run = run + 1].n = "user"
           /\ [UserNode EXCEPT !.run = run + 1].run = run + 1
           /\ \A x \in Seq(Toks) : /\ TextNode(x) \in Nodes
                                   /\ TextNode(x).n = "text" /\ TextNode(x).run = run
           /\ \A id \in Nat :
                /\ ToolNode(id) \in Nodes /\ ToolNode(id).n = "tool"
                /\ ToolNode(id).run = run /\ ToolNode(id).id = id
                /\ ResultNode(id) \in Nodes /\ ResultNode(id).n = "result"
                /\ ResultNode(id).run = run
           /\ \A v \in Verdicts : /\ Marker(v) \in Nodes /\ Marker(v).n = "marker"
                                  /\ Marker(v).run = run /\ Marker(v).marker = v
  BY DEF Nodes, UserNode, TextNode, ToolNode, ResultNode, Marker

LEMMA NodeFields ==
    ASSUME NEW x \in Nodes
    PROVE  /\ x.n \in {"user", "text", "tool", "result", "marker"} /\ x.run \in Nat
           /\ x.n = "tool" => x.id \in Nat /\ x.state \in {"running", "error", "resolved"}
           /\ x.n = "marker" => x.marker \in Verdicts
  BY DEF Nodes

LEMMA SettleNode ==
    ASSUME NEW x \in Nodes, x.n = "tool", NEW st \in {"error", "resolved"}
    PROVE  LET y == [x EXCEPT !.state = st] IN
           y \in Nodes /\ y.n = "tool" /\ y.run = x.run /\ y.id = x.id /\ y.state = st
  BY DEF Nodes

(* The preview of a stream. *)
LEMMA PreviewTyped ==
    ASSUME run \in Nat, NEW s \in Streams
    PROVE  /\ Preview(drainChunks(s).emitted) \in Seq(Nodes)
           /\ \A i \in 1..Len(Preview(drainChunks(s).emitted)) :
                /\ Preview(drainChunks(s).emitted)[i].n = "text"
                /\ Preview(drainChunks(s).emitted)[i].run = run
  <1> DEFINE bs == drainChunks(s).emitted
             N == Len(bs)
             F(i) == TextNode(bs[i].text)
  <1>1. bs \in Seq(Blocks)
    BY DrainTyped DEF Streams
  <1> HIDE DEF bs
  <1>6. N \in Nat /\ DOMAIN bs = 1..N /\ \A i \in 1..N : bs[i] \in Blocks
    BY <1>1
  <1>2. N \in Nat /\ DOMAIN bs = 1..N /\ \A i \in 1..N : bs[i].text \in Seq(Toks)
    BY <1>6 DEF Blocks
  <1>3. \A i \in 1..N : F(i) \in Nodes /\ F(i).n = "text" /\ F(i).run = run
    BY <1>2, NodeFacts
  <1>4. Preview(bs) = [i \in 1..N |-> F(i)]
    BY <1>2 DEF Preview
  <1> HIDE DEF F, N
  <1>5. [i \in 1..N |-> F(i)] \in Seq(Nodes) /\ Len([i \in 1..N |-> F(i)]) = N
    BY <1>2, <1>3, IsASeq
  <1> QED BY <1>3, <1>4, <1>5 DEF bs

(* The messages an emit sends before its own. *)
LEMMA SealTyped ==
    ASSUME segBuf \in Seq(Toks), NEW b \in BOOLEAN, NEW m \in Msgs
    PROVE  LET s == seal(b) \o <<m>> IN
           /\ s \in Seq(Msgs) /\ Len(s) \in {1, 2} /\ s[Len(s)] = m
           /\ Len(s) = 2 => s[1].t = "sealed"
  <1> DEFINE h == seal(b)
             s == h \o <<m>>
  <1>1. <<m>> \in Seq(Msgs) /\ Len(<<m>>) = 1 /\ <<m>>[1] = m
    OBVIOUS
  <1>2. /\ h \in Seq(Msgs) /\ Len(h) \in {0, 1}
        /\ Len(h) = 1 => h[1].t = "sealed"
    <2>1. CASE segBuf = <<>>
      BY <2>1 DEF seal
    <2>2. CASE segBuf # <<>>
      <3> DEFINE x == Sealed(segBuf, b)
      <3>1. x \in Msgs /\ x.t = "sealed"
        BY MsgFacts
      <3> HIDE DEF x
      <3>2. h = <<x>>
        BY <2>2 DEF seal, x
      <3> QED BY <3>1, <3>2
    <2> QED BY <2>1, <2>2
  <1> HIDE DEF h
  <1>3. /\ s \in Seq(Msgs) /\ Len(s) = Len(h) + 1
        /\ \A i \in 1..Len(s) : s[i] = IF i <= Len(h) THEN h[i] ELSE <<m>>[i - Len(h)]
    BY <1>1, <1>2, ConcatProperties
  <1> HIDE DEF s
  <1>4. CASE Len(h) = 0
    BY <1>1, <1>3, <1>4 DEF s, h
  <1>5. CASE Len(h) = 1
    BY <1>1, <1>2, <1>3, <1>5 DEF s, h
  <1> QED BY <1>2, <1>4, <1>5

-----------------------------------------------------------------------------
(* Type correctness. *)
LEMMA NewStream == NewTokenStream \in Streams /\ NewTokenStream.tokens = <<>>
  <1>1. <<>> \in Seq(Chunks) /\ <<>> \in Seq(Toks) /\ <<>> \in Seq(Blocks)
    OBVIOUS
  <1> QED BY <1>1 DEF NewTokenStream, Streams, Ends

LEMMA CsInitType == ASSUME Init PROVE CsTypeOK
  <1> USE DEF Init
  <1>1. RunType
    BY SessionAssumption DEF RunType
  <1>2. ChanType
    BY SessionAssumption, NewStream DEF ChanType
  <1>3. ProdType
    BY SessionAssumption DEF ProdType
  <1>4. UiType
    BY DEF UiType, Texts
  <1> QED BY <1>1, <1>2, <1>3, <1>4 DEF CsTypeOK

LEMMA SubmitType == ASSUME CsTypeOK, Submit PROVE CsTypeOK'
  <1>1. run \in Nat /\ run + 1 \in 0..MaxRuns
    BY SessionAssumption DEF CsTypeOK, RunType, Submit
  <1> DEFINE x == [UserNode EXCEPT !.run = run + 1]
  <1>2. x \in Nodes
    BY <1>1, NodeFacts
  <1> HIDE DEF x
  <1>3. UiType'
    BY <1>2 DEF Submit, CsTypeOK, UiType, Texts, x
  <1>4. RunType'
    BY <1>1 DEF CsTypeOK, RunType, Submit
  <1>5. ChanType'
    BY NewStream, SessionAssumption DEF CsTypeOK, ChanType, Submit
  <1>6. ProdType'
    BY DEF CsTypeOK, ProdType, Submit, prodVars
  <1> QED BY <1>3, <1>4, <1>5, <1>6 DEF CsTypeOK

(* The steps that leave the screen and the runs alone. *)
LEMMA UiFrame ==
    ASSUME CsTypeOK, UNCHANGED <<run, cancelled, cancelCmds, uiVars>>
    PROVE  RunType' /\ UiType'
  BY DEF CsTypeOK, RunType, UiType, Texts, uiVars

LEMMA ProdFrame == ASSUME CsTypeOK, UNCHANGED prodVars PROVE ProdType'
  BY DEF CsTypeOK, ProdType, prodVars

LEMMA ChanFrame ==
    ASSUME CsTypeOK, UNCHANGED <<ts, ctrl, reader, inflight>> PROVE ChanType'
  BY DEF CsTypeOK, ChanType

LEMMA CancelType ==
    ASSUME CsTypeOK, HandleCancel \/ \E r \in 1..MaxRuns : RunCancel(r) PROVE CsTypeOK'
  <1>1. /\ UNCHANGED <<ts, ctrl, ctrlClosed, prodVars, reader, inflight, uiVars, run>>
        /\ cancelled' \subseteq 1..run /\ cancelCmds' \subseteq 1..run
    <2>1. CASE HandleCancel
      <3>1. run \in 1..run
        BY <2>1 DEF HandleCancel, CsTypeOK, RunType
      <3> QED BY <2>1, <3>1 DEF HandleCancel, CsTypeOK, RunType
    <2>2. CASE \E r \in 1..MaxRuns : RunCancel(r)
      BY <2>2 DEF RunCancel, CsTypeOK, RunType
    <2> QED BY <2>1, <2>2
  <1>2. RunType' /\ UiType'
    BY <1>1 DEF CsTypeOK, RunType, UiType, Texts, uiVars
  <1> QED BY <1>1, <1>2, ProdFrame, ChanFrame DEF CsTypeOK

LEMMA StartLoopType == ASSUME CsTypeOK, StartLoop PROVE CsTypeOK'
  <1>1. RunType' /\ UiType'
    BY UiFrame DEF StartLoop
  <1>2. ChanType'
    BY DEF CsTypeOK, ChanType, StartLoop
  <1>3. ProdType'
    BY DEF CsTypeOK, ProdType, StartLoop
  <1> QED BY <1>1, <1>2, <1>3 DEF CsTypeOK

(* The events of Loop.Run. *)
LEMMA EmitTextType ==
    ASSUME CsTypeOK, NEW k \in TextKinds, EmitText(k)
    PROVE  /\ CsTypeOK'
           /\ Len(ts'.tokens) \in {Len(ts.tokens), Len(ts.tokens) + 1}
  <1> DEFINE t == [id |-> stamp + 1, kind |-> k]
             c == [token |-> t, finish |-> "Unset"]
  <1>1. stamp \in Nat /\ stamp + 1 \in 0..MaxStamps /\ stamp' = stamp + 1
    BY SessionAssumption DEF CsTypeOK, ProdType, EmitText
  <1>2. t \in Toks /\ t.id = stamp + 1
    BY <1>1 DEF Toks
  <1>3. c \in Chunks
    BY <1>2 DEF Chunks, Ends
  <1>4. /\ segBuf' = Append(segBuf, t) /\ todo' = <<Tick>>
        /\ \/ UNCHANGED <<ts, accepted>>
           \/ /\ ts' = [ts EXCEPT !.tokens = Append(ts.tokens, c)]
              /\ accepted' = accepted \cup {t.id}
        /\ UNCHANGED <<run, cancelled, cancelCmds, ctrl, ctrlClosed, prod, phase,
                       openTools, reader, inflight, uiVars>>
    BY DEF EmitText
  <1> HIDE DEF t, c
  <1>5. RunType' /\ UiType'
    BY <1>4, UiFrame
  <1>6. ts' \in Streams /\ Len(ts'.tokens) \in {Len(ts.tokens), Len(ts.tokens) + 1}
    <2>1. ts \in Streams /\ ts.tokens \in Seq(Chunks)
      BY DEF CsTypeOK, ChanType, Streams
    <2>2. /\ Append(ts.tokens, c) \in Seq(Chunks)
          /\ Len(Append(ts.tokens, c)) = Len(ts.tokens) + 1
      BY <1>3, <2>1
    <2> QED BY <1>4, <2>1, <2>2, StreamFields
  <1>7. ChanType'
    BY <1>4, <1>6 DEF CsTypeOK, ChanType
  <1>8. openTools' \in Seq(1..stamp')
    BY <1>1, <1>4, SeqMonotonic DEF CsTypeOK, ProdType
  <1>9. ProdType'
    BY <1>1, <1>2, <1>4, <1>8, MsgFacts DEF CsTypeOK, ProdType
  <1> QED BY <1>5, <1>6, <1>7, <1>9 DEF CsTypeOK

LEMMA EmitThinkingType == ASSUME CsTypeOK, EmitThinking PROVE CsTypeOK'
  <1>1. stamp \in Nat /\ stamp + 1 \in 0..MaxStamps /\ stamp' = stamp + 1
    BY SessionAssumption DEF CsTypeOK, ProdType, EmitThinking
  <1>2. openTools' \in Seq(1..stamp')
    BY <1>1, SeqMonotonic DEF CsTypeOK, ProdType, EmitThinking
  <1>3. ProdType'
    BY <1>1, <1>2, MsgFacts DEF CsTypeOK, ProdType, EmitThinking
  <1> QED BY <1>3, UiFrame, ChanFrame DEF CsTypeOK, EmitThinking

LEMMA EmitToolCallType ==
    ASSUME CsTypeOK, EmitToolCall
    PROVE  /\ CsTypeOK' /\ stamp + 1 \in Nat
           /\ Len(todo') \in {1, 2} /\ todo'[Len(todo')] = ToolUse(stamp + 1)
           /\ Len(todo') = 2 => todo'[1].t = "sealed"
  <1>1. stamp \in Nat /\ stamp + 1 \in 0..MaxStamps /\ stamp' = stamp + 1
    BY SessionAssumption DEF CsTypeOK, ProdType, EmitToolCall
  <1> DEFINE m == ToolUse(stamp + 1)
  <1>2. m \in Msgs
    BY <1>1, MsgFacts
  <1>3. todo' = seal(FALSE) \o <<m>>
    BY DEF EmitToolCall
  <1> HIDE DEF m
  <1>4. /\ todo' \in Seq(Msgs) /\ Len(todo') \in {1, 2} /\ todo'[Len(todo')] = m
        /\ Len(todo') = 2 => todo'[1].t = "sealed"
    BY <1>2, <1>3, SealTyped DEF CsTypeOK, ProdType
  <1>5. openTools' \in Seq(1..stamp')
    <2>1. openTools \in Seq(1..stamp') /\ stamp + 1 \in 1..stamp'
      BY <1>1, SeqMonotonic DEF CsTypeOK, ProdType
    <2> QED BY <2>1 DEF EmitToolCall
  <1>6. /\ phase' = "calls" /\ segBuf' = <<>>
        /\ UNCHANGED <<run, cancelled, cancelCmds, ts, ctrl, ctrlClosed, prod,
                       accepted, reader, inflight, uiVars>>
    BY DEF EmitToolCall
  <1>7. ProdType'
    BY <1>1, <1>4, <1>5, <1>6 DEF CsTypeOK, ProdType
  <1>8. CsTypeOK'
    BY <1>6, <1>7, UiFrame, ChanFrame DEF CsTypeOK
  <1> QED BY <1>1, <1>4, <1>8 DEF m

LEMMA EmitToolResultType ==
    ASSUME CsTypeOK, NEW e \in BOOLEAN, EmitToolResult(e)
    PROVE  /\ CsTypeOK' /\ Head(openTools) \in Nat
           /\ Len(todo') \in {1, 2} /\ todo'[Len(todo')] = ToolResult(Head(openTools), e)
           /\ Len(todo') = 2 => todo'[1].t = "sealed"
  <1>1. /\ openTools \in Seq(1..stamp) /\ openTools # <<>>
        /\ Head(openTools) \in 1..stamp /\ Tail(openTools) \in Seq(1..stamp)
        /\ stamp \in Nat
    BY SessionAssumption DEF CsTypeOK, ProdType, EmitToolResult
  <1> DEFINE m == ToolResult(Head(openTools), e)
  <1>2. m \in Msgs
    BY <1>1, MsgFacts
  <1>3. todo' = seal(FALSE) \o <<m>>
    BY DEF EmitToolResult
  <1> HIDE DEF m
  <1>4. /\ todo' \in Seq(Msgs) /\ Len(todo') \in {1, 2} /\ todo'[Len(todo')] = m
        /\ Len(todo') = 2 => todo'[1].t = "sealed"
    BY <1>2, <1>3, SealTyped DEF CsTypeOK, ProdType
  <1>5. /\ phase' \in {"text", "results"} /\ segBuf' = <<>>
        /\ openTools' = Tail(openTools)
        /\ UNCHANGED <<run, cancelled, cancelCmds, ts, ctrl, ctrlClosed, prod,
                       stamp, accepted, reader, inflight, uiVars>>
    BY DEF EmitToolResult
  <1>6. ProdType'
    BY <1>1, <1>4, <1>5 DEF CsTypeOK, ProdType
  <1>7. CsTypeOK'
    BY <1>5, <1>6, UiFrame, ChanFrame DEF CsTypeOK
  <1> QED BY <1>1, <1>4, <1>7 DEF m

LEMMA EmitFinishType ==
    ASSUME CsTypeOK, NEW f \in FinishReasons, EmitFinish(f)
    PROVE  /\ CsTypeOK'
           /\ Len(todo') \in {1, 2} /\ todo'[Len(todo')] = FinishMsg(f)
           /\ Len(todo') = 2 => todo'[1].t = "sealed"
  <1> DEFINE m == FinishMsg(f)
             b == f = "Length"
  <1>2. m \in Msgs /\ b \in BOOLEAN
    BY MsgFacts
  <1>3. todo' = seal(b) \o <<m>>
    BY DEF EmitFinish
  <1> HIDE DEF m, b
  <1>4. /\ todo' \in Seq(Msgs) /\ Len(todo') \in {1, 2} /\ todo'[Len(todo')] = m
        /\ Len(todo') = 2 => todo'[1].t = "sealed"
    BY <1>2, <1>3, SealTyped DEF CsTypeOK, ProdType
  <1>6. ProdType'
    BY <1>4 DEF CsTypeOK, ProdType, EmitFinish
  <1> QED BY <1>4, <1>6, UiFrame, ChanFrame DEF CsTypeOK, EmitFinish, m

LEMMA SendType ==
    ASSUME CsTypeOK, Send \/ SendCancelled \/ CloseStream \/ CloseCtrl
    PROVE  CsTypeOK'
  <1>1. RunType' /\ UiType'
    BY UiFrame DEF Send, SendCancelled, CloseStream, CloseCtrl
  <1>2. ChanType'
    <2>1. CASE Send
      <3>1. Head(todo) \in Msgs
        BY <2>1 DEF Send, CsTypeOK, ProdType
      <3> DEFINE m == Head(todo)
      <3> HIDE DEF m
      <3>2. ctrl' \in Seq(Msgs) /\ Len(ctrl') = Len(ctrl) + 1
        BY <2>1, <3>1 DEF Send, CsTypeOK, ChanType, m
      <3> QED BY <2>1, <3>2, SessionAssumption DEF Send, CsTypeOK, ChanType
    <2>2. CASE SendCancelled \/ CloseCtrl
      BY <2>2 DEF SendCancelled, CloseCtrl, CsTypeOK, ChanType
    <2>3. CASE CloseStream
      BY <2>3, CloseTyped DEF CloseStream, CsTypeOK, ChanType
    <2> QED BY <2>1, <2>2, <2>3
  <1>3. ProdType'
    <2>3. todo \in Seq(Msgs) /\ (todo # <<>> => Tail(todo) \in Seq(Msgs))
      BY DEF CsTypeOK, ProdType
    <2>4. \/ todo # <<>> /\ todo' = Tail(todo)
          \/ todo' = <<>>
          \/ todo' = todo
      BY DEF Send, SendCancelled, CloseStream, CloseCtrl
    <2>1. todo' \in Seq(Msgs)
      <3>1. <<>> \in Seq(Msgs)
        OBVIOUS
      <3> QED BY <2>3, <2>4, <3>1, Zenon
    <2>2. /\ prod' \in {"run", "closing", "closeCtrl", "exited"}
          /\ UNCHANGED <<phase, segBuf, stamp, openTools, accepted>>
      BY DEF Send, SendCancelled, CloseStream, CloseCtrl
    <2> QED BY <2>1, <2>2 DEF CsTypeOK, ProdType
  <1> QED BY <1>1, <1>2, <1>3 DEF CsTypeOK

LEMMA ReadType == ASSUME CsTypeOK, ArmReader \/ ReadCtrl PROVE CsTypeOK'
  <1>1. RunType' /\ UiType' /\ ProdType'
    BY UiFrame, ProdFrame DEF ArmReader, ReadCtrl
  <1>2. ChanType'
    BY SessionAssumption DEF CsTypeOK, ChanType, ArmReader, ReadCtrl
  <1> QED BY <1>1, <1>2 DEF CsTypeOK

(* The branches of handleControl. *)
LEMMA HandledType ==
    ASSUME CsTypeOK, Handled, UNCHANGED ts \/ ts' = afterDrain(ts)
    PROVE  ChanType' /\ ProdType'
  <1>1. ts' \in Streams
    BY DrainTyped DEF CsTypeOK, ChanType
  <1>2. ChanType'
    BY <1>1 DEF CsTypeOK, ChanType, Handled
  <1> QED BY <1>2, ProdFrame DEF Handled

(* settle changes the state of calls and nothing else. *)
LEMMA SettleFacts ==
    ASSUME NEW sb \in Seq(Nodes), NEW id, NEW st \in {"error", "resolved"}
    PROVE  /\ settle(sb, id, st) \in Seq(Nodes) /\ Len(settle(sb, id, st)) = Len(sb)
           /\ \A i \in 1..Len(sb) :
                IF sb[i].n = "tool" /\ sb[i].id = id
                THEN /\ settle(sb, id, st)[i].n = "tool"
                     /\ settle(sb, id, st)[i].run = sb[i].run
                     /\ settle(sb, id, st)[i].id = id
                     /\ settle(sb, id, st)[i].state = st
                ELSE settle(sb, id, st)[i] = sb[i]
  <1> DEFINE F(i) == IF sb[i].n = "tool" /\ sb[i].id = id
                     THEN [sb[i] EXCEPT !.state = st] ELSE sb[i]
             N == Len(sb)
  <1>1. N \in Nat /\ DOMAIN sb = 1..N /\ \A i \in 1..N : sb[i] \in Nodes
    OBVIOUS
  <1>2. settle(sb, id, st) = [i \in 1..N |-> F(i)]
    BY <1>1 DEF settle
  <1>3. \A i \in 1..N :
           /\ F(i) \in Nodes
           /\ IF sb[i].n = "tool" /\ sb[i].id = id
              THEN F(i).n = "tool" /\ F(i).run = sb[i].run /\ F(i).id = id /\ F(i).state = st
              ELSE F(i) = sb[i]
    <2> TAKE i \in 1..N
    <2> DEFINE x == sb[i]
    <2>1. x \in Nodes
      BY <1>1
    <2> HIDE DEF x
    <2>2. CASE x.n = "tool" /\ x.id = id
      <3> DEFINE y == [x EXCEPT !.state = st]
      <3>1. F(i) = y
        BY <2>2 DEF x
      <3>2. y \in Nodes /\ y.n = "tool" /\ y.run = x.run /\ y.id = x.id /\ y.state = st
        BY <2>1, <2>2, SettleNode
      <3> HIDE DEF F, y
      <3> QED BY <2>2, <3>1, <3>2 DEF x
    <2>3. CASE ~(x.n = "tool" /\ x.id = id)
      BY <2>1, <2>3 DEF x
    <2> QED BY <2>2, <2>3
  <1> HIDE DEF F
  <1>4. [i \in 1..N |-> F(i)] \in Seq(Nodes) /\ Len([i \in 1..N |-> F(i)]) = N
    BY <1>1, <1>3, IsASeq
  <1>5. \A i \in 1..N : settle(sb, id, st)[i] = F(i)
    BY <1>2
  <1> HIDE DEF N
  <1> QED BY <1>2, <1>3, <1>4, <1>5 DEF N

(* finishNodes adds at most one verdict, and one for a bad end. *)
LEMMA FinishNodesFacts ==
    ASSUME run \in Nat, NEW f \in FinishReasons
    PROVE  LET fn == finishNodes(f) IN
           \/ fn = <<>> /\ f \notin {"Cancelled", "Error"}
           \/ \E v \in Verdicts :
                /\ fn = <<Marker(v)>>
                /\ v = "cancelled" <=> f = "Cancelled"
                /\ f = "Error" => v = "error"
  BY DEF finishNodes, Verdicts, FinishReasons

-----------------------------------------------------------------------------
LEMMA CsInitLemma == ASSUME Init PROVE ChatInv
  <1>1. CsTypeOK
    BY CsInitType
  <1> USE DEF Init
  <1>2. ChainInv
    BY MsgFacts DEF ChainInv
  <1>3. FinishInv
    BY MsgFacts DEF FinishInv, IsFinish, CancelledMeant
  <1>4. MarkInv
    BY DEF MarkInv
  <1>5. ToolInv
    BY MsgFacts DEF ToolInv
  <1>6. BacklogInv
    BY DEF BacklogInv
  <1> QED BY <1>1, <1>2, <1>3, <1>4, <1>5, <1>6 DEF ChatInv

(* Another user of cancel. *)
LEMMA CancelStep ==
    ASSUME ChatInv, HandleCancel \/ \E r \in 1..MaxRuns : RunCancel(r) PROVE ChatInv'
  <1>1. /\ UNCHANGED <<ts, ctrl, ctrlClosed, prodVars, reader, inflight, uiVars, run>>
        /\ cancelled \subseteq cancelled'
    BY DEF HandleCancel, RunCancel
  <1>2. CsTypeOK'
    BY CancelType DEF ChatInv
  <1>3. ChainInv'
    BY <1>1 DEF ChatInv, ChainInv, prodVars, uiVars
  <1>4. FinishInv'
    BY <1>1 DEF ChatInv, FinishInv, prodVars, uiVars, FinishComing, CancelledMeant
  <1>5. MarkInv'
    BY <1>1 DEF ChatInv, MarkInv, uiVars
  <1>6. ToolInv'
    BY <1>1 DEF ChatInv, ToolInv, uiVars, prodVars, Verdict, Pending, Due, Doomed, FinishComing
  <1>7. BacklogInv'
    BY <1>1 DEF ChatInv, BacklogInv, prodVars
  <1> QED BY <1>2, <1>3, <1>4, <1>5, <1>6, <1>7 DEF ChatInv

(* Steps that only change ctrlClosed, ts without its channel, the closing  *)
(* phases of the producer, or arm the reader.                              *)
LEMMA CloseStep == ASSUME ChatInv, CloseStream \/ CloseCtrl PROVE ChatInv'
  <1>1. /\ UNCHANGED <<ctrl, phase, todo, openTools, reader, inflight, uiVars, run, cancelled>>
        /\ prod # "run" /\ prod' # "run" /\ prod' # "none" /\ prod # "none"
    BY DEF CloseStream, CloseCtrl
  <1>2. CsTypeOK'
    BY SendType DEF ChatInv
  <1>3. ChainInv'
    BY <1>1 DEF ChatInv, ChainInv, uiVars, CloseStream, CloseCtrl
  <1>4. FinishInv'
    BY <1>1 DEF ChatInv, FinishInv, uiVars, FinishComing, CancelledMeant
  <1>5. MarkInv'
    BY <1>1 DEF ChatInv, MarkInv, uiVars
  <1>6. ToolInv'
    BY <1>1 DEF ChatInv, ToolInv, uiVars, Verdict, Pending, Due, Doomed, FinishComing
  <1>7. BacklogInv'
    <2>1. reader # "start"
      BY DEF ChatInv, ChainInv, CloseStream, CloseCtrl
    <2> QED BY <1>1, <2>1 DEF ChatInv, BacklogInv
  <1> QED BY <1>2, <1>3, <1>4, <1>5, <1>6, <1>7 DEF ChatInv

LEMMA ArmStep == ASSUME ChatInv, ArmReader PROVE ChatInv'
  <1>1. /\ UNCHANGED <<run, cancelled, cancelCmds, ts, ctrl, ctrlClosed, prodVars,
                       inflight, uiVars>>
        /\ reader = "armed" /\ reader' = "reading"
    BY DEF ArmReader
  <1>2. CsTypeOK'
    BY ReadType DEF ChatInv
  <1>3. ChainInv'
    BY <1>1 DEF ChatInv, ChainInv, uiVars, prodVars
  <1>4. FinishInv'
    BY <1>1 DEF ChatInv, FinishInv, uiVars, prodVars, FinishComing, CancelledMeant
  <1>5. MarkInv'
    BY <1>1 DEF ChatInv, MarkInv, uiVars
  <1>6. ToolInv'
    BY <1>1 DEF ChatInv, ToolInv, uiVars, prodVars, Verdict, Pending, Due, Doomed, FinishComing
  <1>7. BacklogInv'
    BY <1>1 DEF ChatInv, BacklogInv, prodVars
  <1> QED BY <1>2, <1>3, <1>4, <1>5, <1>6, <1>7 DEF ChatInv

-----------------------------------------------------------------------------
(* Counting ticks. *)
TickAt(s) == {i \in 1..Len(s) : s[i].t = "tick"}

LEMMA TicksFacts ==
    ASSUME NEW s \in Seq(Msgs \cup {NoMsg})
    PROVE  /\ Ticks(s) = Cardinality(TickAt(s)) /\ IsFiniteSet(TickAt(s))
           /\ Ticks(s) \in Nat /\ Ticks(s) <= Len(s)
  <1>1. DOMAIN s = 1..Len(s) /\ Len(s) \in Nat
    OBVIOUS
  <1>2. Ticks(s) = Cardinality(TickAt(s))
    BY <1>1 DEF Ticks, TickAt
  <1>3. IsFiniteSet(1..Len(s)) /\ Cardinality(1..Len(s)) = Len(s)
    BY <1>1, FS_Interval
  <1>4. TickAt(s) \in SUBSET (1..Len(s))
    BY DEF TickAt
  <1>5. IsFiniteSet(TickAt(s)) /\ Cardinality(TickAt(s)) <= Len(s)
    BY <1>3, <1>4, FS_Subset
  <1> QED BY <1>2, <1>5, FS_CardinalityType

LEMMA TicksOne ==
    ASSUME NEW m \in Msgs \cup {NoMsg}
    PROVE  Ticks(<<m>>) = IF m.t = "tick" THEN 1 ELSE 0
  <1>1. <<m>> \in Seq(Msgs \cup {NoMsg}) /\ Len(<<m>>) = 1 /\ <<m>>[1] = m
    OBVIOUS
  <1>2. 1..1 = {1}
    OBVIOUS
  <1>3. TickAt(<<m>>) = IF m.t = "tick" THEN {1} ELSE {}
    BY <1>1, <1>2 DEF TickAt
  <1> QED BY <1>1, <1>3, TicksFacts, FS_EmptySet, FS_Singleton

LEMMA TicksAppend ==
    ASSUME NEW s \in Seq(Msgs), NEW m \in Msgs
    PROVE  Ticks(Append(s, m)) = Ticks(s) + Ticks(<<m>>)
  <1> DEFINE t == Append(s, m)
             n == Len(s)
  <1>1. /\ t \in Seq(Msgs) /\ n \in Nat /\ Len(t) = n + 1 /\ t[n + 1] = m
        /\ \A i \in 1..n : t[i] = s[i]
    BY AppendProperties
  <1> HIDE DEF t
  <1>2. s \in Seq(Msgs \cup {NoMsg}) /\ t \in Seq(Msgs \cup {NoMsg})
    BY <1>1, SeqMonotonic
  <1>3. 1..(n + 1) = (1..n) \cup {n + 1} /\ n + 1 \notin 1..n
    BY <1>1
  <1>4. TickAt(t) = IF m.t = "tick" THEN TickAt(s) \cup {n + 1} ELSE TickAt(s)
    BY <1>1, <1>3 DEF TickAt
  <1>5. n + 1 \notin TickAt(s)
    BY <1>3 DEF TickAt
  <1>6. Ticks(s) = Cardinality(TickAt(s)) /\ IsFiniteSet(TickAt(s)) /\ Ticks(s) \in Nat
    BY <1>2, TicksFacts
  <1>7. Ticks(t) = Cardinality(TickAt(t))
    BY <1>2, TicksFacts
  <1>8. Cardinality(TickAt(s) \cup {n + 1}) = Cardinality(TickAt(s)) + 1
    BY <1>5, <1>6, FS_AddElement
  <1>9. Ticks(<<m>>) = IF m.t = "tick" THEN 1 ELSE 0
    BY TicksOne
  <1> QED BY <1>4, <1>6, <1>7, <1>8, <1>9 DEF t

LEMMA TicksTail ==
    ASSUME NEW s \in Seq(Msgs), s # <<>>
    PROVE  Ticks(s) = Ticks(Tail(s)) + Ticks(<<Head(s)>>)
  <1> DEFINE t == Tail(s)
             n == Len(s)
             m == Head(s)
             A == TickAt(s) \ {1}
             B == TickAt(t)
  <1>1. /\ t \in Seq(Msgs) /\ n \in Nat /\ n > 0 /\ Len(t) = n - 1
        /\ m \in Msgs /\ m = s[1]
        /\ \A i \in 1..(n - 1) : t[i] = s[i + 1]
    BY HeadTailProperties
  <1> HIDE DEF t, m
  <1>2. s \in Seq(Msgs \cup {NoMsg}) /\ t \in Seq(Msgs \cup {NoMsg})
    BY <1>1, SeqMonotonic
  <1>3. /\ Ticks(s) = Cardinality(TickAt(s)) /\ IsFiniteSet(TickAt(s)) /\ Ticks(s) \in Nat
        /\ Ticks(t) = Cardinality(TickAt(t)) /\ IsFiniteSet(TickAt(t)) /\ Ticks(t) \in Nat
    BY <1>2, TicksFacts
  <1>4. /\ IsFiniteSet(A)
        /\ Cardinality(A) = IF 1 \in TickAt(s) THEN Ticks(s) - 1 ELSE Ticks(s)
    BY <1>3, FS_RemoveElement
  <1>5. ExistsBijection(B, A)
    <2> DEFINE f == [i \in B |-> i + 1]
    <2>1. \A i \in B : i \in 1..(n - 1) /\ i + 1 \in A
      BY <1>1 DEF TickAt
    <2>2. \A j \in A : j - 1 \in B /\ (j - 1) + 1 = j
      BY <1>1 DEF TickAt
    <2> HIDE DEF A, B
    <2>3. f \in [B -> A] /\ \A i \in B : f[i] = i + 1
      BY <2>1
    <2>6. \A i \in B : i \in Nat
      BY <1>1, <2>1
    <2> HIDE DEF f
    <2>4. f \in Injection(B, A)
      BY <2>3, <2>6 DEF Injection, IsInjective
    <2>5. f \in Surjection(B, A)
      BY <2>2, <2>3 DEF Surjection
    <2> QED BY <2>4, <2>5 DEF ExistsBijection, Bijection
  <1>6. Cardinality(A) = Cardinality(B)
    BY <1>3, <1>5, FS_Bijection
  <1>7. 1 \in TickAt(s) <=> m.t = "tick"
    BY <1>1 DEF TickAt
  <1>8. Ticks(<<m>>) = IF m.t = "tick" THEN 1 ELSE 0
    BY <1>1, TicksOne
  <1> QED BY <1>3, <1>4, <1>6, <1>7, <1>8 DEF t, m

-----------------------------------------------------------------------------
(* The scrollback grows; of its nodes only the state of a call changes,    *)
(* and no call runs again.                                                 *)
Keeps(sb, sb2) ==
    /\ sb2 \in Seq(Nodes) /\ Len(sb) <= Len(sb2)
    /\ \A i \in 1..Len(sb) :
         /\ sb2[i].n = sb[i].n /\ sb2[i].run = sb[i].run
         /\ IsMarker(sb[i]) => sb2[i] = sb[i]
         /\ IsRunning(sb2[i]) => sb2[i] = sb[i]

LEMMA KeepsAppend ==
    ASSUME NEW sb \in Seq(Nodes), NEW x \in Nodes
    PROVE  /\ Keeps(sb, Append(sb, x)) /\ Len(Append(sb, x)) = Len(sb) + 1
           /\ Append(sb, x)[Len(sb) + 1] = x
           /\ \A i \in 1..Len(Append(sb, x)) : i \in 1..Len(sb) \/ i = Len(sb) + 1
  <1> DEFINE t == Append(sb, x)
  <1>1. /\ t \in Seq(Nodes) /\ Len(sb) \in Nat /\ Len(t) = Len(sb) + 1
        /\ t[Len(sb) + 1] = x /\ \A i \in 1..Len(sb) : t[i] = sb[i]
    BY AppendProperties
  <1> HIDE DEF t
  <1>2. \A i \in 1..Len(t) : i \in 1..Len(sb) \/ i = Len(sb) + 1
    BY <1>1
  <1>3. Keeps(sb, t)
    BY <1>1 DEF Keeps
  <1> QED BY <1>1, <1>2, <1>3 DEF t

LEMMA KeepsConcat ==
    ASSUME NEW sb \in Seq(Nodes), NEW x \in Seq(Nodes)
    PROVE  /\ Keeps(sb, sb \o x) /\ Len(sb \o x) = Len(sb) + Len(x)
           /\ \A i \in 1..Len(sb \o x) :
                \/ i \in 1..Len(sb)
                \/ i - Len(sb) \in 1..Len(x) /\ (sb \o x)[i] = x[i - Len(sb)]
  <1> DEFINE t == sb \o x
  <1>1. /\ t \in Seq(Nodes) /\ Len(sb) \in Nat /\ Len(x) \in Nat
        /\ Len(t) = Len(sb) + Len(x)
        /\ \A i \in 1..Len(t) : t[i] = IF i <= Len(sb) THEN sb[i] ELSE x[i - Len(sb)]
    BY ConcatProperties
  <1> HIDE DEF t
  <1>2. \A i \in 1..Len(sb) : i \in 1..Len(t) /\ i <= Len(sb)
    BY <1>1
  <1>3. \A i \in 1..Len(t) :
           \/ i \in 1..Len(sb)
           \/ i - Len(sb) \in 1..Len(x) /\ ~(i <= Len(sb))
    BY <1>1
  <1>4. Keeps(sb, t)
    BY <1>1, <1>2 DEF Keeps
  <1> QED BY <1>1, <1>3, <1>4 DEF t

LEMMA KeepsTrans ==
    ASSUME NEW a \in Seq(Nodes), NEW b \in Seq(Nodes), NEW c \in Seq(Nodes),
           Keeps(a, b), Keeps(b, c)
    PROVE  Keeps(a, c)
  <1>1. Len(a) \in Nat /\ Len(b) \in Nat /\ Len(c) \in Nat
        /\ Len(a) <= Len(b) /\ Len(b) <= Len(c)
    BY DEF Keeps
  <1>2. \A i \in 1..Len(a) : i \in 1..Len(b)
    BY <1>1
  <1> QED BY <1>1, <1>2 DEF Keeps, IsMarker

LEMMA TextsConcat ==
    ASSUME NEW a \in Seq(Nodes), NEW b \in Seq(Nodes), Texts(a), Texts(b)
    PROVE  a \o b \in Seq(Nodes) /\ Texts(a \o b)
  <1> DEFINE c == a \o b
  <1>1. /\ c \in Seq(Nodes) /\ Keeps(a, c)
        /\ \A i \in 1..Len(c) :
                \/ i \in 1..Len(a)
                \/ i - Len(a) \in 1..Len(b) /\ c[i] = b[i - Len(a)]
    BY KeepsConcat
  <1> HIDE DEF c
  <1>2. Texts(c)
    BY <1>1 DEF Texts, Keeps
  <1> QED BY <1>1, <1>2 DEF c

(* A verdict below a node stays below it. *)
LEMMA VerdictKept ==
    ASSUME CsTypeOK, Keeps(scrollback, scrollback'),
           NEW i \in 1..Len(scrollback), Verdict(i)
    PROVE  Verdict(i)'
  <1>1. PICK j \in (i + 1)..Len(scrollback) :
          /\ IsMarker(scrollback[j]) /\ scrollback[j].run = scrollback[i].run
          /\ scrollback[j].marker \in {"cancelled", "error"}
    BY DEF Verdict
  <1>2. Len(scrollback) \in Nat /\ Len(scrollback') \in Nat
        /\ Len(scrollback) <= Len(scrollback')
    BY DEF CsTypeOK, UiType, Keeps
  <1>3. j \in 1..Len(scrollback) /\ j \in (i + 1)..Len(scrollback')
    BY <1>2
  <1>4. /\ scrollback'[j] = scrollback[j]
        /\ scrollback'[i].run = scrollback[i].run
    BY <1>1, <1>3 DEF Keeps
  <1> QED BY <1>1, <1>3, <1>4 DEF Verdict

(* Nodes without a verdict leave the verdicts alone. *)
LEMMA MarkKept ==
    ASSUME CsTypeOK, MarkInv, Keeps(scrollback, scrollback'),
           \A i \in 1..Len(scrollback') :
             i \in 1..Len(scrollback)
               \/ (~IsMarker(scrollback'[i]) /\ scrollback'[i].run = run /\ run > 0),
           UNCHANGED <<run, streaming, finishHandled, lastSnapshot, cancelled>>
    PROVE  MarkInv'
  <1>1. run \in Nat
    BY SessionAssumption DEF CsTypeOK, RunType
  <1>2. \A i \in 1..Len(scrollback) : IsMarker(scrollback'[i]) =>
            IsMarker(scrollback[i]) /\ scrollback'[i] = scrollback[i]
    BY DEF Keeps, IsMarker
  <1>3. \A i \in 1..Len(scrollback') : IsMarker(scrollback'[i]) =>
            /\ i \in 1..Len(scrollback)
            /\ IsMarker(scrollback[i]) /\ scrollback'[i] = scrollback[i]
    BY <1>2
  <1>4. \A i \in 1..Len(scrollback') : scrollback'[i].run \in 1..run
    BY <1>1 DEF MarkInv, Keeps
  <1> QED BY <1>3, <1>4 DEF MarkInv

LEMMA SubmitStep == ASSUME ChatInv, Submit PROVE ChatInv'
  <1>1. CsTypeOK'
    BY SubmitType DEF ChatInv
  <1>2. /\ reader = "none" /\ prod \in {"none", "exited"} /\ todo = <<>>
        /\ inflight = NoMsg /\ run \in Nat
    BY SessionAssumption DEF ChatInv, CsTypeOK, RunType, ChainInv, Submit
  <1>3. /\ run' = run + 1 /\ ts' = NewTokenStream /\ ctrl' = <<>> /\ ~ctrlClosed'
        /\ streaming' /\ ~finishHandled' /\ reader' = "start"
        /\ UNCHANGED <<cancelled, prod, phase, todo, openTools, inflight, lastSnapshot>>
        /\ ~streaming
    BY DEF Submit, prodVars
  <1>4. ChainInv'
    BY <1>2, <1>3 DEF ChainInv
  <1>5. FinishInv'
    BY <1>2, <1>3, MsgFacts DEF FinishInv, IsFinish, CancelledMeant
  <1> DEFINE x == [UserNode EXCEPT !.run = run + 1]
  <1>6. x \in Nodes /\ x.n = "user" /\ x.run = run + 1 /\ scrollback' = Append(scrollback, x)
    BY <1>2, NodeFacts DEF Submit
  <1> HIDE DEF x
  <1>7. /\ Keeps(scrollback, scrollback')
        /\ \A i \in 1..Len(scrollback') : i \in 1..Len(scrollback) \/ scrollback'[i] = x
    BY <1>6, KeepsAppend DEF ChatInv, CsTypeOK, UiType
  <1>8. MarkInv'
    <2>1. \A i \in 1..Len(scrollback') : IsMarker(scrollback'[i]) =>
            /\ i \in 1..Len(scrollback)
            /\ IsMarker(scrollback[i]) /\ scrollback'[i] = scrollback[i]
      BY <1>6, <1>7 DEF Keeps, IsMarker
    <2>2. \A i \in 1..Len(scrollback) : scrollback[i].run \in 1..run /\ scrollback[i].run # run + 1
      BY <1>2 DEF ChatInv, MarkInv
    <2>3. \A i \in 1..Len(scrollback') : scrollback'[i].run \in 1..(run + 1)
      BY <1>2, <1>6, <1>7, <2>2 DEF Keeps
    <2>4. lastSnapshot # run + 1
      BY <1>2 DEF ChatInv, CsTypeOK, RunType
    <2> QED BY <1>3, <2>1, <2>2, <2>3, <2>4 DEF ChatInv, MarkInv
  <1>9. ToolInv'
    <2>1. ASSUME NEW i \in 1..Len(scrollback'), IsRunning(scrollback'[i])
          PROVE  Verdict(i)'
      <3>1. i \in 1..Len(scrollback) /\ IsRunning(scrollback[i])
        BY <1>6, <1>7, <2>1 DEF Keeps, IsRunning
      <3>2. Verdict(i)
        BY <1>3, <3>1 DEF ChatInv, ToolInv
      <3> QED BY <1>7, <3>1, <3>2, VerdictKept DEF ChatInv
    <2> QED BY <1>2, <1>3, <2>1, MsgFacts DEF ToolInv
  <1>10. BacklogInv'
    BY <1>2, <1>3, NewStream DEF BacklogInv
  <1> QED BY <1>1, <1>4, <1>5, <1>8, <1>9, <1>10 DEF ChatInv

LEMMA StartLoopStep == ASSUME ChatInv, StartLoop PROVE ChatInv'
  <1>1. CsTypeOK'
    BY StartLoopType DEF ChatInv
  <1>2. /\ reader = "start" /\ reader' = "armed" /\ prod' = "run" /\ phase' = "text"
        /\ todo' = <<>> /\ openTools' = <<>>
        /\ UNCHANGED <<run, cancelled, ts, ctrl, ctrlClosed, inflight, uiVars>>
    BY DEF StartLoop
  <1>3. /\ prod \in {"none", "exited"} /\ ctrl = <<>> /\ ~finishHandled /\ ~ctrlClosed
        /\ streaming /\ inflight = NoMsg /\ ts.tokens = <<>>
    BY <1>2 DEF ChatInv, ChainInv, BacklogInv
  <1>4. ChainInv'
    BY <1>2, <1>3 DEF ChainInv, uiVars
  <1>5. FinishInv'
    BY <1>2, <1>3, MsgFacts DEF FinishInv, IsFinish, CancelledMeant, uiVars
  <1>6. MarkInv'
    BY <1>2 DEF ChatInv, MarkInv, uiVars
  <1>7. ToolInv'
    BY <1>2, <1>3, MsgFacts DEF ChatInv, ToolInv, Verdict, uiVars
  <1>8. BacklogInv'
    <2>1. \A s \in {todo', ctrl', <<inflight'>>} : Ticks(s) \in Nat
      <3>1. /\ todo' \in Seq(Msgs \cup {NoMsg}) /\ ctrl' \in Seq(Msgs \cup {NoMsg})
            /\ <<inflight'>> \in Seq(Msgs \cup {NoMsg})
        BY <1>2, <1>3
      <3> QED BY <3>1, TicksFacts
    <2> QED BY <1>2, <1>3, <2>1 DEF BacklogInv
  <1> QED BY <1>1, <1>4, <1>5, <1>6, <1>7, <1>8 DEF ChatInv

(* What holds whenever Run may emit. *)
LEMMA EmittingFacts ==
    ASSUME ChatInv, Emitting
    PROVE  /\ prod = "run" /\ todo = <<>> /\ ~finishHandled /\ ~FinishComing /\ ~Doomed
           /\ reader \notin {"none", "start"} /\ streaming /\ phase # "finished"
           /\ ~ctrlClosed
  <1>1. prod = "run" /\ todo = <<>>
    BY DEF Emitting
  <1>2. /\ ~finishHandled /\ ~FinishComing /\ phase # "finished"
    BY <1>1 DEF ChatInv, FinishInv, FinishComing
  <1>3. reader \notin {"none", "start"} /\ streaming /\ ~ctrlClosed
    BY <1>1 DEF ChatInv, ChainInv
  <1>4. ~Doomed
    BY <1>1, <1>2 DEF Doomed, FinishComing, EndsBadly, BadEnd
  <1> QED BY <1>1, <1>2, <1>3, <1>4

(* An emit leaves the screen and the channel alone. *)
LEMMA EmitLemma ==
    ASSUME ChatInv, Emitting, prod' = "run",
           UNCHANGED <<run, cancelled, ctrl, ctrlClosed, reader, inflight, uiVars>>,
           todo' # <<>>, todo' \in Seq(Msgs),
           \A i \in 1..Len(todo') :
              /\ IsFinish(todo'[i]) => i = Len(todo') /\ phase' = "finished"
              /\ CancelledMeant(todo'[i]),
           (\A i \in 1..Len(todo) : todo[i].t = "toolUse" => Due(todo[i].id))',
           phase' = "finished" => IsFinish(todo'[Len(todo')]),
           \A id : Due(id) => Due(id)' \/ Answered(todo', id) \/ BadEnd(todo')
    PROVE  ChainInv' /\ FinishInv' /\ MarkInv' /\ ToolInv'
  <1>1. /\ prod = "run" /\ todo = <<>> /\ ~finishHandled /\ ~FinishComing /\ ~Doomed
        /\ reader \notin {"none", "start"} /\ streaming /\ phase # "finished"
    BY EmittingFacts
  <1>2. ChainInv'
    BY <1>1 DEF ChatInv, ChainInv, uiVars
  <1>3. FinishInv'
    BY <1>1 DEF ChatInv, FinishInv, uiVars, CancelledMeant, FinishComing, IsFinish
  <1>4. MarkInv'
    BY DEF ChatInv, MarkInv, uiVars
  <1>5. ToolInv'
    <2>1. \A id : ~Answered(todo, id)
      BY <1>1 DEF Answered
    <2>2. \A id : Due(id) => Due(id)' \/ Answered(todo, id)' \/ Doomed'
      BY DEF Doomed, Answered, BadEnd
    <2>3. \A id : Pending(id) => Pending(id)'
      BY <1>1, <2>1, <2>2 DEF Pending, Answered
    <2>4. \A i : Verdict(i) => Verdict(i)'
      BY DEF Verdict, uiVars
    <2>5. (\A i \in 1..Len(scrollback) : IsRunning(scrollback[i]) =>
              \/ Verdict(i)
              \/ /\ scrollback[i].run = run /\ streaming /\ reader # "start"
                 /\ Pending(scrollback[i].id))'
      BY <2>3, <2>4 DEF ChatInv, ToolInv, uiVars
    <2>6. (inflight.t = "toolUse" =>
              \/ Due(inflight.id) \/ Answered(ctrl, inflight.id)
              \/ Answered(todo, inflight.id) \/ Doomed)'
      BY <1>1, <2>1, <2>2 DEF ChatInv, ToolInv, Answered
    <2>7. (\A i \in 1..Len(ctrl) : ctrl[i].t = "toolUse" =>
              \/ Due(ctrl[i].id) \/ Answered(todo, ctrl[i].id)
              \/ \E j \in (i + 1)..Len(ctrl) : Answers(ctrl[j], ctrl[i].id)
              \/ Doomed)'
      BY <1>1, <2>1, <2>2 DEF ChatInv, ToolInv
    <2>8. (\A i \in 1..Len(todo) : todo[i].t = "toolUse" => Due(todo[i].id))'
      OBVIOUS
    <2> QED BY <2>5, <2>6, <2>7, <2>8 DEF ToolInv
  <1> QED BY <1>2, <1>3, <1>4, <1>5

(* The ticks on their way, and the tokens an emit adds. *)
LEMMA EmitBacklog ==
    ASSUME ChatInv, Emitting, CsTypeOK', UNCHANGED <<ctrl, reader, inflight>>,
           Len(todo') \in {1, 2},
           \A i \in 1..Len(todo') : todo'[i].t = "tick" => Len(todo') = 1,
           ts' = ts \/ (todo' = <<Tick>> /\ Len(ts'.tokens) <= Len(ts.tokens) + 1)
    PROVE  BacklogInv'
  <1>1. prod = "run" /\ todo = <<>> /\ reader # "start"
    BY EmittingFacts
  <1>2. ctrl \in Seq(Msgs \cup {NoMsg}) /\ todo' \in Seq(Msgs \cup {NoMsg})
        /\ <<inflight>> \in Seq(Msgs \cup {NoMsg})
    BY SeqMonotonic DEF ChatInv, CsTypeOK, ChanType, ProdType
  <1>3. Ticks(ctrl) \in Nat /\ Ticks(todo') \in Nat /\ Ticks(<<inflight>>) \in Nat
    BY <1>2, TicksFacts
  <1>4. Ticks(todo) = 0
    <2>1. todo \in Seq(Msgs \cup {NoMsg}) /\ Len(todo) = 0
      BY <1>1
    <2>2. Ticks(todo) \in Nat /\ Ticks(todo) <= Len(todo)
      BY <2>1, TicksFacts
    <2> QED BY <2>1, <2>2
  <1>5. Ticks(<<Tick>>) = 1
    BY TicksOne, MsgFacts
  <1>6. Len(ts.tokens) \in Nat /\ Len(ts'.tokens) \in Nat
    BY DEF ChatInv, CsTypeOK, ChanType, Streams
  <1>7. Len(ts.tokens) <= Ticks(ctrl) + Ticks(<<inflight>>)
    BY <1>1, <1>3, <1>4, <1>6 DEF ChatInv, BacklogInv
  <1>8. Len(ts'.tokens) <= Ticks(todo') + Ticks(ctrl) + Ticks(<<inflight>>)
    BY <1>3, <1>5, <1>6, <1>7
  <1> QED BY <1>1, <1>8 DEF BacklogInv

LEMMA EmitTextStep == ASSUME ChatInv, NEW k \in TextKinds, EmitText(k) PROVE ChatInv'
  <1>1. CsTypeOK' /\ Len(ts'.tokens) \in {Len(ts.tokens), Len(ts.tokens) + 1}
    BY EmitTextType DEF ChatInv
  <1>2. /\ Emitting /\ todo' = <<Tick>> /\ phase = "text" /\ prod = "run"
        /\ UNCHANGED <<run, cancelled, ctrl, ctrlClosed, prod, phase, openTools,
                       reader, inflight, uiVars>>
    BY DEF EmitText, Emitting
  <1>3. Len(todo') = 1 /\ todo'[1] = Tick /\ Tick.t = "tick" /\ todo' \in Seq(Msgs)
    BY <1>2, MsgFacts
  <1>4. \A id : Due(id) => Due(id)'
    BY <1>2 DEF Due
  <1>5. ChainInv' /\ FinishInv' /\ MarkInv' /\ ToolInv'
    <2>1. \A i \in 1..Len(todo') : todo'[i].t = "tick"
      BY <1>3
    <2>2. \A i \in 1..Len(todo') : ~IsFinish(todo'[i]) /\ CancelledMeant(todo'[i])
      BY <2>1 DEF IsFinish, CancelledMeant
    <2>3. (\A i \in 1..Len(todo) : todo[i].t = "toolUse" => Due(todo[i].id))'
      BY <2>1
    <2> QED BY <1>2, <1>3, <1>4, <2>2, <2>3, EmitLemma
  <1>6. BacklogInv'
    BY <1>1, <1>2, <1>3, EmitBacklog DEF ChatInv, CsTypeOK, ChanType, Streams
  <1> QED BY <1>1, <1>5, <1>6 DEF ChatInv

LEMMA EmitThinkingStep == ASSUME ChatInv, EmitThinking PROVE ChatInv'
  <1>1. CsTypeOK'
    BY EmitThinkingType DEF ChatInv
  <1>2. /\ Emitting /\ todo' = <<Thinking>> /\ phase = "text" /\ prod = "run"
        /\ UNCHANGED <<run, cancelled, ctrl, ctrlClosed, prod, phase, openTools, ts,
                       reader, inflight, uiVars>>
    BY DEF EmitThinking, Emitting
  <1>3. Len(todo') = 1 /\ todo'[1] = Thinking /\ Thinking.t = "thinking" /\ todo' \in Seq(Msgs)
    BY <1>2, MsgFacts
  <1>4. \A id : Due(id) => Due(id)'
    BY <1>2 DEF Due
  <1>7. \A i \in 1..Len(todo') : todo'[i].t = "thinking"
    BY <1>3
  <1>5. ChainInv' /\ FinishInv' /\ MarkInv' /\ ToolInv'
    <2>2. \A i \in 1..Len(todo') : ~IsFinish(todo'[i]) /\ CancelledMeant(todo'[i])
      BY <1>7 DEF IsFinish, CancelledMeant
    <2>3. (\A i \in 1..Len(todo) : todo[i].t = "toolUse" => Due(todo[i].id))'
      BY <1>7
    <2> QED BY <1>2, <1>3, <1>4, <2>2, <2>3, EmitLemma
  <1>6. BacklogInv'
    BY <1>1, <1>2, <1>3, <1>7, EmitBacklog
  <1> QED BY <1>1, <1>5, <1>6 DEF ChatInv

LEMMA EmitToolCallStep == ASSUME ChatInv, EmitToolCall PROVE ChatInv'
  <1>1. /\ CsTypeOK' /\ stamp + 1 \in Nat
        /\ Len(todo') \in {1, 2} /\ todo'[Len(todo')] = ToolUse(stamp + 1)
        /\ Len(todo') = 2 => todo'[1].t = "sealed"
    BY EmitToolCallType DEF ChatInv
  <1>2. /\ Emitting /\ phase' = "calls" /\ prod = "run" /\ prod' = "run"
        /\ openTools' = Append(openTools, stamp + 1)
        /\ UNCHANGED <<run, cancelled, ctrl, ctrlClosed, ts, reader, inflight, uiVars>>
    BY DEF EmitToolCall, Emitting
  <1>3. ToolUse(stamp + 1).t = "toolUse" /\ ToolUse(stamp + 1).id = stamp + 1
        /\ todo' \in Seq(Msgs)
    BY <1>1, MsgFacts DEF CsTypeOK, ProdType
  <1>4. \A i \in 1..Len(todo') : \/ todo'[i].t = "sealed"
                                 \/ todo'[i].t = "toolUse" /\ todo'[i].id = stamp + 1
    BY <1>1, <1>3
  <1>5. /\ \A i \in 1..Len(openTools) : i \in 1..Len(openTools') /\ openTools'[i] = openTools[i]
        /\ Len(openTools') \in 1..Len(openTools') /\ openTools'[Len(openTools')] = stamp + 1
    <2>1. openTools \in Seq(Nat)
      BY SeqMonotonic, SessionAssumption DEF ChatInv, CsTypeOK, ProdType
    <2>2. stamp + 1 \in Nat
      BY <1>1
    <2>3. /\ Len(openTools') = Len(openTools) + 1 /\ Len(openTools) \in Nat
          /\ openTools'[Len(openTools) + 1] = stamp + 1
          /\ \A i \in 1..Len(openTools) : openTools'[i] = openTools[i]
      BY <1>2, <2>1, <2>2, AppendProperties
    <2> QED BY <2>3
  <1>6. \A id : Due(id) \/ id = stamp + 1 => Due(id)'
    <2>1. \E i \in 1..Len(openTools') : openTools'[i] = stamp + 1
      BY <1>5
    <2>2. \A id : (\E i \in 1..Len(openTools) : openTools[i] = id)
                     => \E i \in 1..Len(openTools') : openTools'[i] = id
      BY <1>5
    <2>3. \A id : (\E i \in 1..Len(openTools') : openTools'[i] = id) => Due(id)'
      BY <1>2 DEF Due
    <2> QED BY <2>1, <2>2, <2>3 DEF Due
  <1>7. ChainInv' /\ FinishInv' /\ MarkInv' /\ ToolInv'
    <2>2. \A i \in 1..Len(todo') : ~IsFinish(todo'[i]) /\ CancelledMeant(todo'[i])
      BY <1>4 DEF IsFinish, CancelledMeant
    <2>3. (\A i \in 1..Len(todo) : todo[i].t = "toolUse" => Due(todo[i].id))'
      BY <1>4, <1>6
    <2>4. todo' # <<>>
      BY <1>1
    <2> QED BY <1>2, <1>3, <1>6, <2>2, <2>3, <2>4, EmitLemma
  <1>8. BacklogInv'
    BY <1>1, <1>2, <1>4, EmitBacklog
  <1> QED BY <1>1, <1>7, <1>8 DEF ChatInv

LEMMA EmitToolResultStep ==
    ASSUME ChatInv, NEW e \in BOOLEAN, EmitToolResult(e) PROVE ChatInv'
  <1> DEFINE h == Head(openTools)
  <1>1. /\ CsTypeOK' /\ h \in Nat
        /\ Len(todo') \in {1, 2} /\ todo'[Len(todo')] = ToolResult(h, e)
        /\ Len(todo') = 2 => todo'[1].t = "sealed"
    BY EmitToolResultType DEF ChatInv
  <1>2. /\ Emitting /\ phase' \in {"text", "results"} /\ prod = "run" /\ prod' = "run"
        /\ openTools' = Tail(openTools) /\ openTools # <<>>
        /\ UNCHANGED <<run, cancelled, ctrl, ctrlClosed, ts, reader, inflight, uiVars>>
    BY DEF EmitToolResult, Emitting
  <1>3. ToolResult(h, e).t = "toolResult" /\ ToolResult(h, e).id = h
        /\ todo' \in Seq(Msgs)
    BY <1>1, MsgFacts DEF CsTypeOK, ProdType
  <1>4. \A i \in 1..Len(todo') : \/ todo'[i].t = "sealed"
                                 \/ todo'[i].t = "toolResult"
    BY <1>1, <1>3
  <1>5. \A i \in 1..Len(openTools) : \/ openTools[i] = h
                                     \/ /\ i - 1 \in 1..Len(openTools')
                                        /\ openTools'[i - 1] = openTools[i]
    <2>1. openTools \in Seq(1..stamp) /\ openTools # <<>>
      BY <1>2 DEF ChatInv, CsTypeOK, ProdType
    <2>2. /\ h = openTools[1] /\ Len(openTools) \in Nat
          /\ Len(openTools') = Len(openTools) - 1
          /\ \A i \in 1..Len(openTools') : openTools'[i] = openTools[i + 1]
      BY <1>2, <2>1, HeadTailProperties
    <2> HIDE DEF h
    <2> TAKE i \in 1..Len(openTools)
    <2>3. CASE i = 1
      BY <2>2, <2>3
    <2>4. CASE i # 1
      <3>1. i - 1 \in 1..Len(openTools') /\ (i - 1) + 1 = i
        BY <2>2, <2>4
      <3> QED BY <2>2, <3>1
    <2> QED BY <2>3, <2>4
  <1>6. \A id : Due(id) => Due(id)' \/ Answered(todo', id)
    <2>1. Answered(todo', h)
      <3>1. Len(todo') \in 1..Len(todo')
        <4>1. Len(todo') = 1 \/ Len(todo') = 2
          BY <1>1
        <4> QED BY <4>1
      <3> QED BY <1>1, <1>3, <3>1 DEF Answered, Answers
    <2>2. \A id : (\E i \in 1..Len(openTools) : openTools[i] = id)
                     => id = h \/ \E i \in 1..Len(openTools') : openTools'[i] = id
      BY <1>5
    <2>3. \A id : (\E i \in 1..Len(openTools') : openTools'[i] = id) => Due(id)'
      BY <1>2 DEF Due
    <2> HIDE DEF h
    <2> QED BY <2>1, <2>2, <2>3 DEF Due
  <1> HIDE DEF h
  <1>7. ChainInv' /\ FinishInv' /\ MarkInv' /\ ToolInv'
    <2>2. \A i \in 1..Len(todo') : ~IsFinish(todo'[i]) /\ CancelledMeant(todo'[i])
      BY <1>4 DEF IsFinish, CancelledMeant
    <2>3. (\A i \in 1..Len(todo) : todo[i].t = "toolUse" => Due(todo[i].id))'
      BY <1>4
    <2>4. todo' # <<>>
      BY <1>1
    <2> QED BY <1>2, <1>3, <1>6, <2>2, <2>3, <2>4, EmitLemma
  <1>8. BacklogInv'
    BY <1>1, <1>2, <1>4, EmitBacklog
  <1> QED BY <1>1, <1>7, <1>8 DEF ChatInv

LEMMA EmitFinishStep ==
    ASSUME ChatInv, NEW f \in FinishReasons, EmitFinish(f) PROVE ChatInv'
  <1>1. /\ CsTypeOK'
        /\ Len(todo') \in {1, 2} /\ todo'[Len(todo')] = FinishMsg(f)
        /\ Len(todo') = 2 => todo'[1].t = "sealed"
    BY EmitFinishType DEF ChatInv
  <1>2. /\ Emitting /\ phase' = "finished" /\ prod = "run" /\ prod' = "run"
        /\ openTools # <<>> => f \in {"Cancelled", "Error"}
        /\ f = "Cancelled" => run \in cancelled
        /\ UNCHANGED <<run, cancelled, ctrl, ctrlClosed, ts, openTools, reader, inflight, uiVars>>
    BY DEF EmitFinish, Emitting
  <1>3. FinishMsg(f).t = "finish" /\ FinishMsg(f).finish = f /\ todo' \in Seq(Msgs)
    BY <1>1, MsgFacts DEF CsTypeOK, ProdType
  <1>4. \A i \in 1..Len(todo') : \/ todo'[i].t = "sealed"
                                 \/ i = Len(todo') /\ todo'[i] = FinishMsg(f)
    BY <1>1
  <1>9. Len(todo') \in 1..Len(todo')
    BY <1>1
  <1>6. \A id : Due(id) => BadEnd(todo')
    <2>1. \A id : Due(id) => openTools # <<>>
      BY DEF Due
    <2>2. f \in {"Cancelled", "Error"} => BadEnd(todo')
      BY <1>1, <1>3, <1>9 DEF BadEnd, EndsBadly, IsFinish
    <2> QED BY <1>2, <2>1, <2>2
  <1>7. ChainInv' /\ FinishInv' /\ MarkInv' /\ ToolInv'
    <2>2. \A i \in 1..Len(todo') :
             /\ IsFinish(todo'[i]) => i = Len(todo')
             /\ CancelledMeant(todo'[i])
             /\ todo'[i].t \in {"sealed", "finish"}
      BY <1>2, <1>3, <1>4 DEF IsFinish, CancelledMeant
    <2>3. (\A i \in 1..Len(todo) : todo[i].t = "toolUse" => Due(todo[i].id))'
      BY <2>2
    <2>5. todo' # <<>>
      BY <1>9
    <2>4. todo' # <<>> /\ IsFinish(todo'[Len(todo')])
      BY <1>1, <1>3, <2>5, Zenon DEF IsFinish
    <2> QED BY <1>2, <1>3, <1>6, <2>2, <2>3, <2>4, EmitLemma
  <1>8. BacklogInv'
    BY <1>1, <1>2, <1>3, <1>4, EmitBacklog
  <1> QED BY <1>1, <1>7, <1>8 DEF ChatInv

-----------------------------------------------------------------------------
(* Queues of messages. *)
Appended(s, m, u) ==
    /\ Len(s) \in Nat /\ Len(u) = Len(s) + 1 /\ u[Len(s) + 1] = m
    /\ \A i \in 1..Len(s) : i \in 1..Len(u) /\ u[i] = s[i]
    /\ \A i \in 1..Len(u) : i \in 1..Len(s) \/ i = Len(s) + 1
    /\ Len(s) + 1 \in 1..Len(u) /\ u # <<>>
    /\ Ticks(u) = Ticks(s) + Ticks(<<m>>)

LEMMA AppendMsg ==
    ASSUME NEW s \in Seq(Msgs), NEW m \in Msgs
    PROVE  Appended(s, m, Append(s, m))
  <1> DEFINE u == Append(s, m)
  <1>1. /\ Len(s) \in Nat /\ Len(u) = Len(s) + 1 /\ u[Len(s) + 1] = m
        /\ \A i \in 1..Len(s) : u[i] = s[i]
    BY AppendProperties
  <1>2. Ticks(u) = Ticks(s) + Ticks(<<m>>)
    BY TicksAppend
  <1>3. u # <<>>
    BY <1>1
  <1> HIDE DEF u
  <1>4. Appended(s, m, u)
    BY <1>1, <1>2, <1>3 DEF Appended
  <1> QED BY <1>4 DEF u

LEMMA TailMsg ==
    ASSUME NEW s \in Seq(Msgs), s # <<>>, NEW u, u = Tail(s)
    PROVE  /\ Head(s) = s[1] /\ s[1] \in Msgs /\ 1 \in 1..Len(s)
           /\ Len(s) \in Nat /\ Len(u) = Len(s) - 1 /\ u \in Seq(Msgs)
           /\ \A i \in 1..Len(u) : i + 1 \in 1..Len(s) /\ u[i] = s[i + 1] /\ i + 1 # 1
           /\ \A i \in 1..Len(s) : i = 1 \/ (i - 1 \in 1..Len(u) /\ u[i - 1] = s[i])
           /\ Ticks(s) = Ticks(u) + Ticks(<<s[1]>>)
  <1>1. /\ Head(s) = s[1] /\ s[1] \in Msgs /\ Len(s) \in Nat /\ Len(s) > 0
        /\ Len(u) = Len(s) - 1 /\ u \in Seq(Msgs)
        /\ \A i \in 1..Len(u) : u[i] = s[i + 1]
    BY HeadTailProperties
  <1>2. Ticks(s) = Ticks(u) + Ticks(<<s[1]>>)
    BY <1>1, TicksTail
  <1>3. \A i \in 1..Len(s) : i = 1 \/ (i - 1 \in 1..Len(u) /\ u[i - 1] = s[i])
    <2> TAKE i \in 1..Len(s)
    <2>1. CASE i # 1
      <3>1. i - 1 \in 1..Len(u) /\ (i - 1) + 1 = i
        BY <1>1, <2>1
      <3> QED BY <1>1, <3>1
    <2> QED BY <2>1
  <1> QED BY <1>1, <1>2, <1>3

LEMMA SendStep == ASSUME ChatInv, Send PROVE ChatInv'
  <1> DEFINE m == todo[1]
             n == Len(ctrl)
             last == phase = "finished" /\ Len(todo) = 1
  <1>1. CsTypeOK'
    BY SendType DEF ChatInv
  <1>2. /\ prod = "run" /\ todo # <<>> /\ ctrl' = Append(ctrl, Head(todo))
        /\ todo' = Tail(todo) /\ prod' = IF last THEN "closing" ELSE "run"
        /\ UNCHANGED <<run, cancelled, ts, ctrlClosed, phase, openTools, reader,
                       inflight, uiVars>>
    BY DEF Send
  <1>3. /\ Head(todo) = m /\ m \in Msgs /\ 1 \in 1..Len(todo)
        /\ Len(todo) \in Nat /\ Len(todo') = Len(todo) - 1
        /\ \A i \in 1..Len(todo') : i + 1 \in 1..Len(todo) /\ todo'[i] = todo[i + 1] /\ i + 1 # 1
        /\ \A i \in 1..Len(todo) : i = 1 \/ (i - 1 \in 1..Len(todo') /\ todo'[i - 1] = todo[i])
        /\ Ticks(todo) = Ticks(todo') + Ticks(<<m>>)
    BY <1>2, TailMsg DEF ChatInv, CsTypeOK, ProdType
  <1>4. /\ n \in Nat /\ Len(ctrl') = n + 1 /\ ctrl'[n + 1] = m
        /\ \A i \in 1..n : i \in 1..Len(ctrl') /\ ctrl'[i] = ctrl[i]
        /\ \A i \in 1..Len(ctrl') : i \in 1..n \/ i = n + 1
        /\ n + 1 \in 1..Len(ctrl') /\ ctrl' # <<>>
        /\ Ticks(ctrl') = Ticks(ctrl) + Ticks(<<m>>)
    <2>1. m \in Msgs /\ ctrl \in Seq(Msgs) /\ ctrl' = Append(ctrl, m)
      BY <1>2, <1>3 DEF ChatInv, CsTypeOK, ChanType
    <2> HIDE DEF m
    <2>2. Appended(ctrl, m, ctrl')
      BY <2>1, AppendMsg
    <2> QED BY <2>2 DEF Appended
  <1>5. /\ reader \notin {"none", "start", "done"} /\ ~finishHandled /\ ~IsFinish(inflight)
        /\ \A i \in 1..n : ~IsFinish(ctrl[i])
    BY <1>2 DEF ChatInv, ChainInv, FinishInv
  <1>6. /\ IsFinish(m) <=> last
        /\ last => todo' = <<>>
    <2>1. last => IsFinish(m)
      BY <1>2, <1>3 DEF ChatInv, FinishInv
    <2>2. IsFinish(m) => last
      BY <1>2, <1>3 DEF ChatInv, FinishInv
    <2>3. last => todo' = <<>>
      <3>1. last => Len(todo') = 0
        BY <1>3
      <3> QED BY <1>1, <3>1 DEF CsTypeOK, ProdType
    <2> QED BY <2>1, <2>2, <2>3
  <1> HIDE DEF m
  <1>7. ChainInv'
    BY <1>2, <1>4, <1>5, <1>6 DEF ChatInv, ChainInv, uiVars
  <1>8. FinishInv'
    <2>1. \A i \in 1..Len(ctrl') : IsFinish(ctrl'[i]) => i = Len(ctrl') /\ prod' # "run"
      BY <1>2, <1>4, <1>5, <1>6
    <2>2. \A i \in 1..Len(todo') : IsFinish(todo'[i]) => i = Len(todo') /\ phase' = "finished"
      <3> TAKE i \in 1..Len(todo')
      <3>1. i + 1 \in 1..Len(todo) /\ todo'[i] = todo[i + 1] /\ i \in Int
        BY <1>3
      <3>2. IsFinish(todo[i + 1]) => i + 1 = Len(todo) /\ phase = "finished"
        BY <3>1 DEF ChatInv, FinishInv
      <3>3. i + 1 = Len(todo) => i = Len(todo')
        BY <1>3, <3>1
      <3> QED BY <1>2, <3>1, <3>2, <3>3
    <2>3. prod' = "run" /\ phase' = "finished" => todo' # <<>> /\ IsFinish(todo'[Len(todo')])
      <3> SUFFICES ASSUME prod' = "run", phase = "finished"
                   PROVE  todo' # <<>> /\ IsFinish(todo'[Len(todo')])
        BY <1>2
      <3>1. Len(todo) # 1 /\ IsFinish(todo[Len(todo)])
        BY <1>2 DEF ChatInv, FinishInv
      <3>2. Len(todo) \in 1..Len(todo) /\ Len(todo) - 1 = Len(todo')
        BY <1>3
      <3>3. todo'[Len(todo')] = todo[Len(todo)] /\ Len(todo') \in 1..Len(todo')
        BY <1>3, <3>1, <3>2
      <3>4. todo' # <<>>
        BY <3>3
      <3> QED BY <3>1, <3>3, <3>4
    <2>4. prod' # "run" => FinishComing'
      BY <1>2, <1>4, <1>6 DEF FinishComing
    <2>5. (/\ \A i \in 1..Len(ctrl) : CancelledMeant(ctrl[i])
           /\ \A i \in 1..Len(todo) : CancelledMeant(todo[i])
           /\ CancelledMeant(inflight))'
      <3>1. \A x : CancelledMeant(x) => CancelledMeant(x)'
        BY <1>2 DEF CancelledMeant
      <3>2. /\ \A i \in 1..Len(ctrl) : CancelledMeant(ctrl[i])
            /\ \A i \in 1..Len(todo) : CancelledMeant(todo[i])
            /\ CancelledMeant(inflight) /\ CancelledMeant(m)
        BY <1>3 DEF ChatInv, FinishInv, m
      <3>3. /\ \A i \in 1..Len(ctrl') : CancelledMeant(ctrl'[i])
            /\ \A i \in 1..Len(todo') : CancelledMeant(todo'[i])
        BY <1>3, <1>4, <3>2
      <3> QED BY <1>2, <3>1, <3>2, <3>3
    <2>6. ~finishHandled' /\ ~IsFinish(inflight')
      BY <1>2, <1>5 DEF uiVars
    <2> QED BY <2>1, <2>2, <2>3, <2>4, <2>5, <2>6 DEF FinishInv, CancelledMeant
  <1>9. MarkInv'
    BY <1>2 DEF ChatInv, MarkInv, uiVars
  <1>10. ToolInv'
    <2>1. \A id : Due(id) => Due(id)'
      BY <1>2 DEF Due
    <2>2. \A id : Answered(ctrl, id) => Answered(ctrl', id)
      BY <1>4 DEF Answered
    <2>3. \A id : Answered(todo, id) => Answers(m, id) \/ Answered(todo', id)
      BY <1>3 DEF Answered, m
    <2>4. \A id : Answers(m, id) => Answered(ctrl', id)
      BY <1>4 DEF Answered
    <2>5. Doomed => Doomed'
      <3>1. BadEnd(ctrl) => BadEnd(ctrl')
        BY <1>4 DEF BadEnd
      <3>2. BadEnd(todo) => BadEnd(ctrl') \/ BadEnd(todo')
        BY <1>3, <1>4 DEF BadEnd, m
      <3>3. (BadEnd(ctrl') => BadEnd(ctrl)') /\ (BadEnd(todo') => BadEnd(todo)')
        BY DEF BadEnd
      <3> QED BY <1>2, <3>1, <3>2, <3>3 DEF Doomed, EndsBadly
    <2>6. \A i : Verdict(i) => Verdict(i)'
      BY <1>2 DEF Verdict, uiVars
    <2>7. \A id : Pending(id) => Pending(id)'
      BY <1>2, <2>1, <2>2, <2>3, <2>4, <2>5 DEF Pending, Answered
    <2>8. (\A i \in 1..Len(scrollback) : IsRunning(scrollback[i]) =>
              \/ Verdict(i)
              \/ /\ scrollback[i].run = run /\ streaming /\ reader # "start"
                 /\ Pending(scrollback[i].id))'
      BY <1>2, <2>6, <2>7 DEF ChatInv, ToolInv, uiVars
    <2>9. (inflight.t = "toolUse" =>
              \/ Due(inflight.id) \/ Answered(ctrl, inflight.id)
              \/ Answered(todo, inflight.id) \/ Doomed)'
      BY <1>2, <2>1, <2>2, <2>3, <2>4, <2>5 DEF ChatInv, ToolInv, Answered
    <2>10. (\A i \in 1..Len(ctrl) : ctrl[i].t = "toolUse" =>
              \/ Due(ctrl[i].id) \/ Answered(todo, ctrl[i].id)
              \/ \E j \in (i + 1)..Len(ctrl) : Answers(ctrl[j], ctrl[i].id)
              \/ Doomed)'
      <3> SUFFICES ASSUME NEW i \in 1..Len(ctrl'), ctrl'[i].t = "toolUse"
                   PROVE  (\/ Due(ctrl[i].id) \/ Answered(todo, ctrl[i].id)
                           \/ \E j \in (i + 1)..Len(ctrl) : Answers(ctrl[j], ctrl[i].id)
                           \/ Doomed)'
        OBVIOUS
      <3>1. CASE i = n + 1
        <4>1. Due(m.id)
          BY <1>3, <1>4, <3>1 DEF ChatInv, ToolInv, m
        <4> QED BY <1>4, <2>1, <3>1, <4>1
      <3>2. CASE i \in 1..n
        <4>6. PICK id : id = ctrl[i].id
          OBVIOUS
        <4>1. ctrl'[i] = ctrl[i] /\ ctrl[i].t = "toolUse"
          BY <1>4, <3>2
        <4>2. \/ Due(id) \/ Answered(todo, id)
              \/ \E j \in (i + 1)..n : Answers(ctrl[j], id)
              \/ Doomed
          BY <3>2, <4>1, <4>6 DEF ChatInv, ToolInv
        <4>3. n + 1 \in (i + 1)..Len(ctrl')
          BY <1>4, <3>2
        <4>4. \A j \in (i + 1)..n : j \in (i + 1)..Len(ctrl') /\ ctrl'[j] = ctrl[j]
          BY <1>4, <3>2
        <4> HIDE DEF n
        <4>5. \/ Due(id)' \/ Answered(todo', id)
              \/ \E j \in (i + 1)..Len(ctrl') : Answers(ctrl'[j], id)
              \/ Doomed'
          <5>1. CASE Due(id)
            BY <2>1, <5>1
          <5>2. CASE Answered(todo, id)
            BY <1>4, <2>3, <4>3, <5>2
          <5>3. CASE \E j \in (i + 1)..n : Answers(ctrl[j], id)
            BY <4>4, <5>3
          <5> QED BY <2>5, <4>2, <5>1, <5>2, <5>3
        <4> QED BY <4>1, <4>5, <4>6 DEF Answered
      <3> QED BY <1>4, <3>1, <3>2
    <2>11. (\A i \in 1..Len(todo) : todo[i].t = "toolUse" => Due(todo[i].id))'
      BY <1>3, <2>1 DEF ChatInv, ToolInv
    <2> QED BY <2>8, <2>9, <2>10, <2>11 DEF ToolInv
  <1>11. BacklogInv'
    <2>1. /\ ctrl \in Seq(Msgs \cup {NoMsg}) /\ todo' \in Seq(Msgs \cup {NoMsg})
          /\ <<inflight>> \in Seq(Msgs \cup {NoMsg}) /\ <<m>> \in Seq(Msgs \cup {NoMsg})
      BY <1>1, <1>3, SeqMonotonic DEF ChatInv, CsTypeOK, ChanType, ProdType
    <2>2. /\ Ticks(ctrl) \in Nat /\ Ticks(todo') \in Nat /\ Ticks(<<inflight>>) \in Nat
          /\ Ticks(<<m>>) \in Nat
      BY <2>1, TicksFacts
    <2>3. \A i \in 1..Len(todo') : todo'[i].t # "tick"
      <3>1. \A i \in 1..Len(todo) : todo[i].t = "tick" => Len(todo) = 1
        BY DEF ChatInv, BacklogInv
      <3> TAKE i \in 1..Len(todo')
      <3>2. i + 1 \in 1..Len(todo) /\ todo'[i] = todo[i + 1] /\ Len(todo) # 1
        BY <1>3
      <3>3. todo[i + 1].t # "tick"
        BY <3>1, <3>2
      <3> QED BY <3>2, <3>3
    <2>4. Len(ts.tokens) \in Nat /\
          Len(ts.tokens) <= Ticks(todo') + Ticks(ctrl') + Ticks(<<inflight>>)
      BY <1>2, <1>3, <1>4, <2>2 DEF ChatInv, BacklogInv, CsTypeOK, ChanType, Streams
    <2> QED BY <1>2, <1>5, <2>3, <2>4 DEF BacklogInv
  <1> QED BY <1>1, <1>7, <1>8, <1>9, <1>10, <1>11 DEF ChatInv

LEMMA SendCancelledStep == ASSUME ChatInv, SendCancelled PROVE ChatInv'
  <1>1. CsTypeOK'
    BY SendType DEF ChatInv
  <1>2. /\ prod = "run" /\ run \in cancelled /\ prod' = "closing" /\ todo' = <<>>
        /\ UNCHANGED <<run, cancelled, ts, ctrl, ctrlClosed, phase, openTools, reader,
                       inflight, uiVars>>
    BY DEF SendCancelled
  <1>3. /\ reader \notin {"none", "start"} /\ ~finishHandled /\ ~FinishComing
    BY <1>2 DEF ChatInv, ChainInv, FinishInv, FinishComing
  <1>4. ChainInv'
    BY <1>2, <1>3 DEF ChatInv, ChainInv, uiVars
  <1>5. FinishInv'
    BY <1>2, <1>3 DEF ChatInv, FinishInv, CancelledMeant, uiVars
  <1>6. MarkInv'
    BY <1>2 DEF ChatInv, MarkInv, uiVars
  <1>7. Doomed'
    BY <1>2, <1>3 DEF Doomed, FinishComing, uiVars
  <1>8. ToolInv'
    <2>1. \A i : Verdict(i) => Verdict(i)'
      BY <1>2 DEF Verdict, uiVars
    <2>2. \A id : Pending(id)'
      BY <1>7 DEF Pending
    <2>3. (\A i \in 1..Len(scrollback) : IsRunning(scrollback[i]) =>
              \/ Verdict(i)
              \/ /\ scrollback[i].run = run /\ streaming /\ reader # "start"
                 /\ Pending(scrollback[i].id))'
      BY <1>2, <2>1, <2>2 DEF ChatInv, ToolInv, uiVars
    <2> QED BY <1>2, <1>7, <2>3 DEF ToolInv
  <1>9. BacklogInv'
    BY <1>2, <1>3 DEF BacklogInv
  <1> QED BY <1>1, <1>4, <1>5, <1>6, <1>8, <1>9 DEF ChatInv

(* The reader Cmd takes the oldest message. *)
LEMMA ReadStep ==
    ASSUME ChatInv, ReadCtrl, ctrl # <<>>
    PROVE  ChatInv'
  <1> DEFINE m == ctrl[1]
  <1>1. CsTypeOK'
    BY ReadType DEF ChatInv
  <1>2. /\ reader = "reading" /\ inflight' = Head(ctrl) /\ ctrl' = Tail(ctrl)
        /\ reader' = "msg"
        /\ UNCHANGED <<run, cancelled, ts, ctrlClosed, prod, phase, todo, openTools, uiVars>>
    BY DEF ReadCtrl, prodVars
  <1>3. inflight = NoMsg
    BY <1>2 DEF ChatInv, ChainInv
  <1>4. /\ inflight' = m /\ m \in Msgs /\ 1 \in 1..Len(ctrl)
        /\ Len(ctrl) \in Nat /\ Len(ctrl') = Len(ctrl) - 1 /\ ctrl' \in Seq(Msgs)
        /\ \A i \in 1..Len(ctrl') : i + 1 \in 1..Len(ctrl) /\ ctrl'[i] = ctrl[i + 1] /\ i + 1 # 1
        /\ \A i \in 1..Len(ctrl) : i = 1 \/ (i - 1 \in 1..Len(ctrl') /\ ctrl'[i - 1] = ctrl[i])
        /\ Ticks(ctrl) = Ticks(ctrl') + Ticks(<<m>>)
    <2>1. ctrl \in Seq(Msgs)
      BY DEF ChatInv, CsTypeOK, ChanType
    <2> QED BY <1>2, <2>1, TailMsg
  <1>5. ~finishHandled /\ ~IsFinish(inflight)
    BY <1>3, MsgFacts DEF ChatInv, FinishInv, IsFinish
  <1>6. ChainInv'
    <2>1. m # NoMsg
      BY <1>4, MsgFacts
    <2> QED BY <1>2, <1>4, <2>1 DEF ChatInv, ChainInv, uiVars
  <1>7. FinishComing <=> FinishComing'
    <2>1. (\E i \in 1..Len(ctrl) : IsFinish(ctrl[i])) <=>
             IsFinish(m) \/ \E i \in 1..Len(ctrl') : IsFinish(ctrl'[i])
      BY <1>4
    <2> QED BY <1>4, <1>5, <2>1 DEF FinishComing
  <1>8. FinishInv'
    <2>1. \A i \in 1..Len(ctrl') : IsFinish(ctrl'[i]) => i = Len(ctrl') /\ prod' # "run"
      <3> TAKE i \in 1..Len(ctrl')
      <3>1. i + 1 \in 1..Len(ctrl) /\ ctrl'[i] = ctrl[i + 1] /\ i \in Int
        BY <1>4
      <3>2. IsFinish(ctrl[i + 1]) => i + 1 = Len(ctrl) /\ prod # "run"
        BY <3>1 DEF ChatInv, FinishInv
      <3>3. i + 1 = Len(ctrl) => i = Len(ctrl')
        BY <1>4, <3>1
      <3> QED BY <1>2, <3>1, <3>2, <3>3
    <2>2. IsFinish(m) => ctrl' = <<>> /\ prod # "run"
      <3>1. IsFinish(m) => Len(ctrl) = 1 /\ prod # "run"
        BY <1>4 DEF ChatInv, FinishInv
      <3>2. Len(ctrl) = 1 => ctrl' = <<>>
        <4>1. Len(ctrl) = 1 => Len(ctrl') = 0
          BY <1>4
        <4> QED BY <1>4, <4>1
      <3> QED BY <3>1, <3>2
    <2>3. (/\ \A i \in 1..Len(ctrl) : CancelledMeant(ctrl[i])
           /\ \A i \in 1..Len(todo) : CancelledMeant(todo[i])
           /\ CancelledMeant(inflight))'
      <3>1. \A x : CancelledMeant(x) => CancelledMeant(x)'
        BY <1>2 DEF CancelledMeant
      <3>2. /\ \A i \in 1..Len(ctrl) : CancelledMeant(ctrl[i])
            /\ \A i \in 1..Len(todo) : CancelledMeant(todo[i])
        BY DEF ChatInv, FinishInv
      <3>3. /\ \A i \in 1..Len(ctrl') : CancelledMeant(ctrl'[i])
            /\ CancelledMeant(m)
        BY <1>4, <3>2
      <3> QED BY <1>2, <1>4, <3>1, <3>2, <3>3
    <2> HIDE DEF m
    <2> QED BY <1>2, <1>4, <1>5, <1>7, <2>1, <2>2, <2>3 DEF ChatInv, FinishInv, uiVars
  <1>9. MarkInv'
    BY <1>2 DEF ChatInv, MarkInv, uiVars
  <1> HIDE DEF m
  <1>10. ToolInv'
    <2>1. \A id : Due(id) => Due(id)'
      BY <1>2 DEF Due
    <2>2. \A id : Answered(ctrl, id) => Answers(m, id) \/ Answered(ctrl', id)
      BY <1>4 DEF Answered, m
    <2>3. \A id : ~Answers(inflight, id)
      BY <1>3, MsgFacts DEF Answers
    <2>4. Doomed => Doomed'
      <3>1. BadEnd(ctrl) => EndsBadly(m) \/ BadEnd(ctrl')
        BY <1>4 DEF BadEnd, m
      <3>2. (BadEnd(ctrl') => BadEnd(ctrl)') /\ (BadEnd(todo) => BadEnd(todo)')
        BY <1>2 DEF BadEnd
      <3>3. ~EndsBadly(inflight) /\ (EndsBadly(m) => EndsBadly(inflight)')
        BY <1>4, <1>5 DEF EndsBadly
      <3>4. finishHandled' = finishHandled /\ prod' = prod
        BY <1>2 DEF uiVars
      <3> QED BY <1>7, <3>1, <3>2, <3>3, <3>4 DEF Doomed
    <2>5. \A i : Verdict(i) => Verdict(i)'
      BY <1>2 DEF Verdict, uiVars
    <2>6. \A id : Pending(id) => Pending(id)'
      BY <1>2, <1>4, <2>1, <2>2, <2>3, <2>4 DEF Pending, Answered
    <2>7. (\A i \in 1..Len(scrollback) : IsRunning(scrollback[i]) =>
              \/ Verdict(i)
              \/ /\ scrollback[i].run = run /\ streaming /\ reader # "start"
                 /\ Pending(scrollback[i].id))'
      BY <1>2, <2>5, <2>6 DEF ChatInv, ToolInv, uiVars
    <2>8. \A i \in 1..Len(ctrl) : \A id : (\E j \in (i + 1)..Len(ctrl) : Answers(ctrl[j], id)) =>
             \E j \in i..Len(ctrl') : Answers(ctrl'[j], id)
      <3> TAKE i \in 1..Len(ctrl)
      <3> TAKE id
      <3> HAVE \E j \in (i + 1)..Len(ctrl) : Answers(ctrl[j], id)
      <3>1. PICK j \in (i + 1)..Len(ctrl) : Answers(ctrl[j], id)
        OBVIOUS
      <3>2. j \in 1..Len(ctrl) /\ j # 1 /\ j - 1 \in i..Len(ctrl')
        BY <1>4
      <3> QED BY <1>4, <3>1, <3>2
    <2>9. (inflight.t = "toolUse" =>
              \/ Due(inflight.id) \/ Answered(ctrl, inflight.id)
              \/ Answered(todo, inflight.id) \/ Doomed)'
      <3> SUFFICES ASSUME m.t = "toolUse"
                   PROVE  (\/ Due(inflight.id) \/ Answered(ctrl, inflight.id)
                           \/ Answered(todo, inflight.id) \/ Doomed)'
        BY <1>4
      <3>1. PICK id : id = m.id
        OBVIOUS
      <3>2. \/ Due(id) \/ Answered(todo, id) \/ Doomed
            \/ \E j \in (1 + 1)..Len(ctrl) : Answers(ctrl[j], id)
        BY <1>4, <3>1 DEF ChatInv, ToolInv, m
      <3>3. \/ Due(id)' \/ Answered(todo, id) \/ Doomed' \/ Answered(ctrl', id)
        BY <1>4, <2>1, <2>4, <2>8, <3>2 DEF Answered
      <3> QED BY <1>2, <1>4, <3>1, <3>3 DEF Answered
    <2>10. (\A i \in 1..Len(ctrl) : ctrl[i].t = "toolUse" =>
              \/ Due(ctrl[i].id) \/ Answered(todo, ctrl[i].id)
              \/ \E j \in (i + 1)..Len(ctrl) : Answers(ctrl[j], ctrl[i].id)
              \/ Doomed)'
      <3> SUFFICES ASSUME NEW i \in 1..Len(ctrl'), ctrl'[i].t = "toolUse"
                   PROVE  (\/ Due(ctrl[i].id) \/ Answered(todo, ctrl[i].id)
                           \/ \E j \in (i + 1)..Len(ctrl) : Answers(ctrl[j], ctrl[i].id)
                           \/ Doomed)'
        OBVIOUS
      <3>1. PICK id : id = ctrl'[i].id
        OBVIOUS
      <3>2. i + 1 \in 1..Len(ctrl) /\ ctrl'[i] = ctrl[i + 1]
        BY <1>4
      <3>3. \/ Due(id) \/ Answered(todo, id) \/ Doomed
            \/ \E j \in ((i + 1) + 1)..Len(ctrl) : Answers(ctrl[j], id)
        BY <3>1, <3>2 DEF ChatInv, ToolInv
      <3>4. \/ Due(id)' \/ Answered(todo, id) \/ Doomed'
            \/ \E j \in (i + 1)..Len(ctrl') : Answers(ctrl'[j], id)
        BY <2>1, <2>4, <2>8, <3>2, <3>3
      <3> QED BY <1>2, <3>1, <3>4 DEF Answered
    <2>11. (\A i \in 1..Len(todo) : todo[i].t = "toolUse" => Due(todo[i].id))'
      BY <1>2, <2>1 DEF ChatInv, ToolInv
    <2> QED BY <2>7, <2>9, <2>10, <2>11 DEF ToolInv
  <1>11. BacklogInv'
    <2>1. /\ ctrl' \in Seq(Msgs \cup {NoMsg}) /\ todo \in Seq(Msgs \cup {NoMsg})
          /\ <<m>> \in Seq(Msgs \cup {NoMsg})
      BY <1>4, SeqMonotonic DEF ChatInv, CsTypeOK, ChanType, ProdType
    <2>2. Ticks(ctrl') \in Nat /\ Ticks(todo) \in Nat /\ Ticks(<<m>>) \in Nat
      BY <2>1, TicksFacts
    <2>3. Ticks(<<inflight>>) = 0
      BY <1>3, TicksOne, MsgFacts
    <2>4. prod = "run" => Len(ts.tokens) <= Ticks(todo) + Ticks(ctrl') + Ticks(<<m>>)
      <3>1. Len(ts.tokens) \in Nat
        BY DEF ChatInv, CsTypeOK, ChanType, Streams
      <3>2. prod = "run" => Len(ts.tokens) <= Ticks(todo) + Ticks(ctrl) + Ticks(<<inflight>>)
        BY DEF ChatInv, BacklogInv
      <3> QED BY <1>4, <2>2, <2>3, <3>1, <3>2
    <2> QED BY <1>2, <1>4, <2>4 DEF ChatInv, BacklogInv
  <1> QED BY <1>1, <1>6, <1>8, <1>9, <1>10, <1>11 DEF ChatInv

(* The reader Cmd finds the channel closed. *)
LEMMA ReadClosedStep ==
    ASSUME ChatInv, ReadCtrl, ctrl = <<>>
    PROVE  ChatInv'
  <1>1. CsTypeOK'
    BY ReadType DEF ChatInv
  <1>2. /\ reader = "reading" /\ ctrlClosed /\ reader' = "done"
        /\ UNCHANGED <<run, cancelled, ts, ctrl, ctrlClosed, prodVars, inflight, uiVars>>
    BY DEF ReadCtrl
  <1>3. ChainInv'
    BY <1>2 DEF ChatInv, ChainInv, uiVars, prodVars
  <1>4. FinishInv'
    BY <1>2 DEF ChatInv, FinishInv, uiVars, prodVars, FinishComing, CancelledMeant
  <1>5. MarkInv'
    BY <1>2 DEF ChatInv, MarkInv, uiVars
  <1>6. ToolInv'
    BY <1>2 DEF ChatInv, ToolInv, uiVars, prodVars, Verdict, Pending, Due, Doomed, FinishComing
  <1>7. BacklogInv'
    BY <1>2 DEF ChatInv, BacklogInv, prodVars
  <1> QED BY <1>1, <1>3, <1>4, <1>5, <1>6, <1>7 DEF ChatInv

-----------------------------------------------------------------------------
(* The branches of handleControl: what they have in common. *)
LEMMA HandleFrame ==
    ASSUME ChatInv, reader = "msg", Handled
    PROVE  /\ ChainInv' /\ ~finishHandled /\ streaming /\ run > 0 /\ run \in Nat
           /\ inflight \in Msgs /\ inflight' = NoMsg /\ reader' = "armed"
           /\ UNCHANGED <<run, cancelled, cancelCmds, ctrl, ctrlClosed, prod, phase,
                          todo, openTools, streaming>>
  <1>1. /\ inflight' = NoMsg /\ reader' = "armed"
        /\ UNCHANGED <<run, cancelled, cancelCmds, ctrl, ctrlClosed, prod, phase,
                       todo, openTools, streaming>>
    BY DEF Handled, prodVars
  <1>2. ~finishHandled /\ streaming /\ inflight # NoMsg
    BY DEF ChatInv, ChainInv, FinishInv
  <1>3. run > 0 /\ run \in Nat /\ inflight \in Msgs
    BY <1>2, SessionAssumption DEF ChatInv, CsTypeOK, RunType, ChanType
  <1>4. ChainInv'
    BY <1>1 DEF ChatInv, ChainInv
  <1> QED BY <1>1, <1>2, <1>3, <1>4

LEMMA HandleFinishInv ==
    ASSUME ChatInv, reader = "msg", Handled, ~IsFinish(inflight), UNCHANGED finishHandled
    PROVE  FinishInv' /\ (FinishComing <=> FinishComing')
  <1>1. /\ inflight' = NoMsg /\ reader' = "armed" /\ ~finishHandled
        /\ UNCHANGED <<run, cancelled, ctrl, prod, phase, todo, finishHandled>>
    BY HandleFrame
  <1>2. ~IsFinish(NoMsg)
    BY MsgFacts DEF IsFinish
  <1>3. FinishComing <=> FinishComing'
    BY <1>1, <1>2 DEF FinishComing
  <1>4. CancelledMeant(inflight)'
    BY <1>1, <1>2 DEF CancelledMeant
  <1>5. /\ \A i \in 1..Len(ctrl) : IsFinish(ctrl[i]) => i = Len(ctrl) /\ prod # "run"
        /\ \A i \in 1..Len(todo) : IsFinish(todo[i]) => i = Len(todo) /\ phase = "finished"
        /\ prod = "run" /\ phase = "finished" => todo # <<>> /\ IsFinish(todo[Len(todo)])
        /\ prod # "run" /\ run \notin cancelled => FinishComing
        /\ \A i \in 1..Len(ctrl) : CancelledMeant(ctrl[i])
        /\ \A i \in 1..Len(todo) : CancelledMeant(todo[i])
    BY <1>1 DEF ChatInv, FinishInv
  <1>6. (/\ \A i \in 1..Len(ctrl) : CancelledMeant(ctrl[i])
         /\ \A i \in 1..Len(todo) : CancelledMeant(todo[i]))'
    BY <1>1, <1>5 DEF CancelledMeant
  <1> QED BY <1>1, <1>2, <1>3, <1>4, <1>5, <1>6 DEF FinishInv

LEMMA HandleTools ==
    ASSUME ChatInv, reader = "msg", Handled, ~IsFinish(inflight), UNCHANGED finishHandled,
           Keeps(scrollback, scrollback'),
           \A i \in 1..Len(scrollback') : IsRunning(scrollback'[i]) =>
             \/ /\ i \in 1..Len(scrollback)
                /\ inflight.t = "toolResult" => scrollback[i].id # inflight.id
             \/ /\ inflight.t = "toolUse"
                /\ scrollback'[i].run = run /\ scrollback'[i].id = inflight.id
    PROVE  ToolInv'
  <1>1. /\ inflight' = NoMsg /\ reader' = "armed" /\ streaming
        /\ UNCHANGED <<run, cancelled, ctrl, prod, phase, todo, openTools, finishHandled,
                       streaming>>
    BY HandleFrame
  <1>2. FinishComing <=> FinishComing'
    BY HandleFinishInv
  <1>3. Doomed => Doomed'
    <2>1. ~EndsBadly(inflight)
      BY DEF EndsBadly
    <2>2. (BadEnd(ctrl) => BadEnd(ctrl)') /\ (BadEnd(todo) => BadEnd(todo)')
      BY <1>1 DEF BadEnd
    <2> QED BY <1>1, <1>2, <2>1, <2>2 DEF Doomed
  <1>4. \A id : /\ Due(id) => Due(id)'
                /\ Answered(ctrl, id) => Answered(ctrl, id)'
                /\ Answered(todo, id) => Answered(todo, id)'
    BY <1>1 DEF Due, Answered
  <1>5. \A id : Due(id) \/ Answered(ctrl, id) \/ Answered(todo, id) \/ Doomed => Pending(id)'
    BY <1>3, <1>4 DEF Pending
  <1>6. (\A i \in 1..Len(scrollback) : IsRunning(scrollback[i]) =>
              \/ Verdict(i)
              \/ /\ scrollback[i].run = run /\ streaming /\ reader # "start"
                 /\ Pending(scrollback[i].id))'
    <2> SUFFICES ASSUME NEW i \in 1..Len(scrollback'), IsRunning(scrollback'[i])
                 PROVE  (\/ Verdict(i)
                         \/ /\ scrollback[i].run = run /\ streaming /\ reader # "start"
                            /\ Pending(scrollback[i].id))'
      OBVIOUS
    <2>1. CASE /\ i \in 1..Len(scrollback)
               /\ inflight.t = "toolResult" => scrollback[i].id # inflight.id
      <3>1. scrollback'[i] = scrollback[i] /\ IsRunning(scrollback[i])
        BY <2>1 DEF Keeps
      <3>2. ~Answers(inflight, scrollback[i].id)
        BY <2>1 DEF Answers
      <3>3. \/ Verdict(i)
            \/ /\ scrollback[i].run = run
               /\ \/ Due(scrollback[i].id) \/ Answered(ctrl, scrollback[i].id)
                  \/ Answered(todo, scrollback[i].id) \/ Doomed
        BY <2>1, <3>1, <3>2 DEF ChatInv, ToolInv, Pending
      <3>4. CASE Verdict(i)
        BY <2>1, <3>4, VerdictKept DEF ChatInv
      <3>5. CASE ~Verdict(i)
        BY <1>1, <1>5, <3>1, <3>3, <3>5
      <3> QED BY <3>4, <3>5
    <2>2. CASE /\ inflight.t = "toolUse"
               /\ scrollback'[i].run = run /\ scrollback'[i].id = inflight.id
      <3>1. PICK id : id = inflight.id
        OBVIOUS
      <3>2. Due(id) \/ Answered(ctrl, id) \/ Answered(todo, id) \/ Doomed
        BY <2>2, <3>1 DEF ChatInv, ToolInv
      <3> QED BY <1>1, <1>5, <2>2, <3>1, <3>2
    <2> QED BY <2>1, <2>2
  <1>7. (inflight.t = "toolUse" =>
              \/ Due(inflight.id) \/ Answered(ctrl, inflight.id)
              \/ Answered(todo, inflight.id) \/ Doomed)'
    BY <1>1, MsgFacts
  <1>8. (\A i \in 1..Len(ctrl) : ctrl[i].t = "toolUse" =>
              \/ Due(ctrl[i].id) \/ Answered(todo, ctrl[i].id)
              \/ \E j \in (i + 1)..Len(ctrl) : Answers(ctrl[j], ctrl[i].id)
              \/ Doomed)'
    BY <1>1, <1>3, <1>4 DEF ChatInv, ToolInv
  <1>9. (\A i \in 1..Len(todo) : todo[i].t = "toolUse" => Due(todo[i].id))'
    BY <1>1, <1>4 DEF ChatInv, ToolInv
  <1> QED BY <1>6, <1>7, <1>8, <1>9 DEF ToolInv

LEMMA HandleBacklog ==
    ASSUME ChatInv, reader = "msg", Handled,
           (UNCHANGED ts /\ inflight.t # "tick") \/ ts' = afterDrain(ts)
    PROVE  BacklogInv' /\ ChanType' /\ ProdType'
  <1>1. /\ inflight' = NoMsg /\ reader' = "armed" /\ inflight \in Msgs
        /\ UNCHANGED <<ctrl, prod, todo>>
    BY HandleFrame
  <1>2. ChanType' /\ ProdType'
    BY HandledType DEF ChatInv
  <1>3. ctrl \in Seq(Msgs \cup {NoMsg}) /\ todo \in Seq(Msgs \cup {NoMsg})
    BY SeqMonotonic DEF ChatInv, CsTypeOK, ChanType, ProdType
  <1>4. Ticks(ctrl) \in Nat /\ Ticks(todo) \in Nat
    BY <1>3, TicksFacts
  <1>5. Ticks(<<NoMsg>>) = 0
    BY TicksOne, MsgFacts
  <1>6. prod = "run" => Len(ts'.tokens) <= Ticks(todo) + Ticks(ctrl)
    <2>1. CASE UNCHANGED ts /\ inflight.t # "tick"
      <3>1. Ticks(<<inflight>>) = 0
        BY <1>1, <2>1, TicksOne
      <3>2. Len(ts.tokens) \in Nat
        BY DEF ChatInv, CsTypeOK, ChanType, Streams
      <3> QED BY <1>4, <2>1, <3>1, <3>2 DEF ChatInv, BacklogInv
    <2>2. CASE ts' = afterDrain(ts)
      <3>1. ts'.tokens = <<>>
        BY <2>2, DrainTyped DEF ChatInv, CsTypeOK, ChanType
      <3>2. Len(ts'.tokens) = 0
        BY <3>1
      <3> QED BY <1>4, <3>2
    <2> QED BY <2>1, <2>2
  <1>7. Len(ts'.tokens) \in Nat
    BY <1>2 DEF ChanType, Streams
  <1>8. prod' = "run" => Len(ts'.tokens) <= Ticks(todo') + Ticks(ctrl') + Ticks(<<inflight'>>)
    BY <1>1, <1>4, <1>5, <1>6, <1>7
  <1> QED BY <1>1, <1>2, <1>8 DEF ChatInv, BacklogInv

(* Put together, for every message but a finish. *)
LEMMA HandleLemma ==
    ASSUME ChatInv, reader = "msg", Handled, ~IsFinish(inflight),
           UNCHANGED <<finishHandled, lastSnapshot>>,
           (UNCHANGED ts /\ inflight.t # "tick") \/ ts' = afterDrain(ts),
           previewNodes' \in Seq(Nodes), Texts(previewNodes'),
           Keeps(scrollback, scrollback'),
           \A i \in 1..Len(scrollback') :
             i \in 1..Len(scrollback)
               \/ (~IsMarker(scrollback'[i]) /\ scrollback'[i].run = run),
           \A i \in 1..Len(scrollback') : IsRunning(scrollback'[i]) =>
             \/ /\ i \in 1..Len(scrollback)
                /\ inflight.t = "toolResult" => scrollback[i].id # inflight.id
             \/ /\ inflight.t = "toolUse"
                /\ scrollback'[i].run = run /\ scrollback'[i].id = inflight.id
    PROVE  ChatInv'
  <1>1. /\ ChainInv' /\ run > 0
        /\ UNCHANGED <<run, cancelled, cancelCmds, streaming>>
    BY HandleFrame
  <1>2. RunType'
    BY <1>1 DEF ChatInv, CsTypeOK, RunType
  <1>3. UiType'
    BY <1>1 DEF UiType, Texts, Keeps
  <1>4. BacklogInv' /\ ChanType' /\ ProdType'
    BY HandleBacklog
  <1>5. FinishInv'
    BY HandleFinishInv
  <1>6. MarkInv'
    BY <1>1, MarkKept DEF ChatInv
  <1>7. ToolInv'
    BY HandleTools
  <1> QED BY <1>1, <1>2, <1>3, <1>4, <1>5, <1>6, <1>7 DEF ChatInv, CsTypeOK

LEMMA KeepsSame == ASSUME NEW sb \in Seq(Nodes) PROVE Keeps(sb, sb)
  <1>1. Len(sb) \in Nat
    OBVIOUS
  <1> QED BY <1>1 DEF Keeps

(* A branch that leaves the scrollback alone. *)
LEMMA HandleQuiet ==
    ASSUME ChatInv, reader = "msg", Handled, ~IsFinish(inflight), inflight.t # "toolResult",
           UNCHANGED <<finishHandled, lastSnapshot, scrollback>>,
           (UNCHANGED ts /\ inflight.t # "tick") \/ ts' = afterDrain(ts),
           previewNodes' \in Seq(Nodes), Texts(previewNodes')
    PROVE  ChatInv'
  <1>1. Keeps(scrollback, scrollback')
    BY KeepsSame DEF ChatInv, CsTypeOK, UiType
  <1> QED BY <1>1, HandleLemma

LEMMA HandleTickStep == ASSUME ChatInv, HandleTick PROVE ChatInv'
  <1> DEFINE p == Preview(drainChunks(ts).emitted)
  <1>1. /\ reader = "msg" /\ inflight.t = "tick" /\ Handled
        /\ previewNodes' = previewNodes \o p /\ ts' = afterDrain(ts)
        /\ UNCHANGED <<scrollback, finishHandled, lastSnapshot>>
    BY DEF HandleTick, Handling
  <1>2. p \in Seq(Nodes) /\ previewNodes \in Seq(Nodes) /\ Texts(p) /\ Texts(previewNodes)
    BY <1>1, HandleFrame, PreviewTyped DEF ChatInv, CsTypeOK, ChanType, UiType, Texts
  <1> HIDE DEF p
  <1>3. previewNodes' \in Seq(Nodes) /\ Texts(previewNodes')
    BY <1>1, <1>2, TextsConcat
  <1>4. ~IsFinish(inflight)
    BY <1>1 DEF IsFinish
  <1> QED BY <1>1, <1>3, <1>4, HandleQuiet

LEMMA HandleThinkingStep == ASSUME ChatInv, HandleThinking PROVE ChatInv'
  <1>1. /\ reader = "msg" /\ inflight.t = "thinking" /\ Handled
        /\ UNCHANGED <<ts, previewNodes, scrollback, finishHandled, lastSnapshot>>
    BY DEF HandleThinking, Handling
  <1>2. ~IsFinish(inflight) /\ previewNodes' \in Seq(Nodes) /\ Texts(previewNodes')
    BY <1>1 DEF IsFinish, ChatInv, CsTypeOK, UiType
  <1> QED BY <1>1, <1>2, HandleQuiet

(* A branch that appends one node. *)
LEMMA HandleAppend ==
    ASSUME ChatInv, reader = "msg", Handled, ~IsFinish(inflight), inflight.t # "toolResult",
           UNCHANGED <<finishHandled, lastSnapshot>>,
           (UNCHANGED ts /\ inflight.t # "tick") \/ ts' = afterDrain(ts),
           previewNodes' \in Seq(Nodes), Texts(previewNodes'),
           NEW x \in Nodes, scrollback' = Append(scrollback, x),
           ~IsMarker(x), x.run = run,
           IsRunning(x) => inflight.t = "toolUse" /\ x.id = inflight.id
    PROVE  ChatInv'
  <1>1. /\ Keeps(scrollback, scrollback')
        /\ \A i \in 1..Len(scrollback') : i \in 1..Len(scrollback) \/ scrollback'[i] = x
    BY KeepsAppend DEF ChatInv, CsTypeOK, UiType
  <1>2. \A i \in 1..Len(scrollback') :
          \/ i \in 1..Len(scrollback)
          \/ ~IsMarker(scrollback'[i]) /\ scrollback'[i].run = run
    BY <1>1
  <1>3. \A i \in 1..Len(scrollback') : IsRunning(scrollback'[i]) =>
          \/ i \in 1..Len(scrollback)
          \/ /\ inflight.t = "toolUse"
             /\ scrollback'[i].run = run /\ scrollback'[i].id = inflight.id
    BY <1>1
  <1> QED BY <1>1, <1>2, <1>3, HandleLemma

LEMMA HandleSealedStep == ASSUME ChatInv, HandleSealed PROVE ChatInv'
  <1> DEFINE x == TextNode(inflight.text)
  <1>1. /\ reader = "msg" /\ inflight.t = "sealed" /\ Handled
        /\ scrollback' = Append(scrollback, x)
        /\ previewNodes' = <<>> /\ ts' = afterDrain(ts)
        /\ UNCHANGED <<finishHandled, lastSnapshot>>
    BY DEF HandleSealed, Handling
  <1>2. inflight.text \in Seq(Toks) /\ run \in Nat
    BY <1>1, HandleFrame, MsgFields
  <1>3. x \in Nodes /\ x.n = "text" /\ x.run = run
    BY <1>2, NodeFacts
  <1> HIDE DEF x
  <1>4. ~IsMarker(x) /\ ~IsRunning(x) /\ ~IsFinish(inflight)
    BY <1>1, <1>3 DEF IsMarker, IsRunning, IsFinish
  <1>5. previewNodes' \in Seq(Nodes) /\ Texts(previewNodes')
    BY <1>1 DEF Texts
  <1> QED BY <1>1, <1>3, <1>4, <1>5, HandleAppend

LEMMA HandleToolUseStep == ASSUME ChatInv, HandleToolUse PROVE ChatInv'
  <1> DEFINE x == ToolNode(inflight.id)
  <1>1. /\ reader = "msg" /\ inflight.t = "toolUse" /\ Handled
        /\ scrollback' = Append(scrollback, x)
        /\ UNCHANGED <<ts, previewNodes, finishHandled, lastSnapshot>>
    BY DEF HandleToolUse, Handling
  <1>2. inflight.id \in Nat /\ run \in Nat
    BY <1>1, HandleFrame, MsgFields
  <1>3. x \in Nodes /\ x.n = "tool" /\ x.run = run /\ x.id = inflight.id
    BY <1>2, NodeFacts
  <1> HIDE DEF x
  <1>4. ~IsMarker(x) /\ ~IsFinish(inflight) /\ previewNodes' \in Seq(Nodes)
        /\ Texts(previewNodes')
    BY <1>1, <1>3 DEF IsMarker, IsFinish, ChatInv, CsTypeOK, UiType
  <1> QED BY <1>1, <1>3, <1>4, HandleAppend

LEMMA HandleToolResultStep == ASSUME ChatInv, HandleToolResult PROVE ChatInv'
  <1>1. /\ reader = "msg" /\ inflight.t = "toolResult" /\ Handled
        /\ UNCHANGED <<ts, previewNodes, finishHandled, lastSnapshot>>
    BY DEF HandleToolResult, Handling
  <1>2. inflight.id \in Nat /\ run \in Nat
    BY <1>1, HandleFrame, MsgFields
  <1>3. ~IsFinish(inflight) /\ previewNodes' \in Seq(Nodes) /\ scrollback \in Seq(Nodes)
        /\ Texts(previewNodes')
    BY <1>1 DEF IsFinish, ChatInv, CsTypeOK, UiType
  <1> DEFINE known == \E x \in ToSet(scrollback) : x.n = "tool" /\ x.id = inflight.id
             st == IF inflight.isError THEN "error" ELSE "resolved"
             x == ResultNode(inflight.id)
             sb == settle(scrollback, inflight.id, st)
  <1>4. CASE known
    <2>1. scrollback' = Append(sb, x)
      BY <1>4 DEF HandleToolResult
    <2>2. x \in Nodes /\ x.n = "result" /\ x.run = run
      BY <1>2, NodeFacts
    <2>3. st \in {"error", "resolved"}
      OBVIOUS
    <2> HIDE DEF st
    <2>4. /\ sb \in Seq(Nodes) /\ Len(sb) = Len(scrollback)
          /\ \A i \in 1..Len(scrollback) :
                IF scrollback[i].n = "tool" /\ scrollback[i].id = inflight.id
                THEN /\ sb[i].n = "tool" /\ sb[i].run = scrollback[i].run
                     /\ sb[i].id = inflight.id /\ sb[i].state = st
                ELSE sb[i] = scrollback[i]
      BY <1>3, <2>3, SettleFacts
    <2> HIDE DEF x, sb
    <2>5. Keeps(scrollback, sb)
      <3>1. Len(scrollback) \in Nat
        BY <1>3
      <3> QED BY <2>3, <2>4, <3>1 DEF Keeps, IsMarker, IsRunning
    <2>6. /\ Keeps(sb, scrollback')
          /\ \A i \in 1..Len(scrollback') : i \in 1..Len(sb) \/ scrollback'[i] = x
      BY <2>1, <2>2, <2>4, KeepsAppend
    <2>7. Keeps(scrollback, scrollback')
      <3>1. scrollback' \in Seq(Nodes)
        BY <2>6 DEF Keeps
      <3> QED BY <1>3, <2>4, <2>5, <2>6, <3>1, KeepsTrans
    <2>8. \A i \in 1..Len(scrollback') :
          \/ i \in 1..Len(scrollback)
          \/ ~IsMarker(scrollback'[i]) /\ scrollback'[i].run = run /\ ~IsRunning(scrollback'[i])
      BY <2>2, <2>4, <2>6 DEF IsMarker, IsRunning
    <2>9. \A i \in 1..Len(scrollback) : IsRunning(scrollback'[i]) => scrollback[i].id # inflight.id
      <3> SUFFICES ASSUME NEW i \in 1..Len(scrollback), IsRunning(scrollback'[i]),
                          scrollback[i].id = inflight.id
                   PROVE  FALSE
        OBVIOUS
      <3>1. scrollback'[i] = sb[i]
        BY <2>4, <2>6 DEF Keeps
      <3>2. scrollback[i].n = "tool"
        BY <2>7 DEF Keeps, IsRunning
      <3> QED BY <2>3, <2>4, <3>1, <3>2 DEF IsRunning
    <2> QED BY <1>1, <1>3, <2>7, <2>8, <2>9, HandleLemma
  <1>5. CASE ~known
    <2>1. scrollback' = scrollback
      BY <1>5 DEF HandleToolResult
    <2>2. \A i \in 1..Len(scrollback) : scrollback[i] \in ToSet(scrollback)
      BY <1>3 DEF ToSet
    <2>3. \A i \in 1..Len(scrollback) : IsRunning(scrollback'[i]) => scrollback[i].id # inflight.id
      BY <1>5, <2>1, <2>2 DEF IsRunning
    <2>4. Keeps(scrollback, scrollback')
      BY <1>3, <2>1, KeepsSame
    <2>5. \A i \in 1..Len(scrollback') :
             i \in 1..Len(scrollback)
               \/ (~IsMarker(scrollback'[i]) /\ scrollback'[i].run = run)
      BY <2>1
    <2> HIDE DEF known
    <2> QED BY <1>1, <1>3, <2>1, <2>3, <2>4, <2>5, HandleLemma
  <1> QED BY <1>4, <1>5

(* A bad verdict that is new lies below every node of its run. *)
LEMMA NewVerdict ==
    ASSUME CsTypeOK, Keeps(scrollback, scrollback'), NEW i \in 1..Len(scrollback),
           NEW j \in 1..Len(scrollback'), j > Len(scrollback),
           IsMarker(scrollback'[j]), scrollback'[j].run = scrollback[i].run,
           scrollback'[j].marker \in {"cancelled", "error"}
    PROVE  Verdict(i)'
  <1>1. Len(scrollback) \in Nat /\ Len(scrollback') \in Nat
    BY DEF CsTypeOK, UiType, Keeps
  <1>2. j \in (i + 1)..Len(scrollback')
    BY <1>1
  <1>3. scrollback'[i].run = scrollback[i].run
    BY DEF Keeps
  <1> QED BY <1>2, <1>3 DEF Verdict

(* At most one new verdict, of the current run, which has none yet. *)
LEMMA NewMark ==
    ASSUME CsTypeOK, MarkInv, ~finishHandled, streaming, UNCHANGED <<run, cancelled>>,
           Keeps(scrollback, scrollback'), NEW L,
           finishHandled' \/ ~streaming',
           \A i \in 1..Len(scrollback') :
             \/ i \in 1..Len(scrollback)
             \/ /\ scrollback'[i].run = run
                /\ IsMarker(scrollback'[i]) =>
                     /\ i = L
                     /\ scrollback'[i].marker = "cancelled" =>
                          run \in cancelled /\ lastSnapshot' # run,
           lastSnapshot' \in {lastSnapshot, run}
    PROVE  MarkInv'
  <1>1. run \in Nat /\ run > 0
    BY SessionAssumption DEF CsTypeOK, RunType
  <1>2. \A i \in 1..Len(scrollback) : IsMarker(scrollback'[i]) =>
            /\ IsMarker(scrollback[i]) /\ scrollback'[i] = scrollback[i]
            /\ scrollback[i].run # run
    BY DEF Keeps, IsMarker, MarkInv
  <1>3. \A i \in 1..Len(scrollback') : scrollback'[i].run \in 1..run
    BY <1>1 DEF MarkInv, Keeps
  <1>4. \A i, j \in 1..Len(scrollback') :
         IsMarker(scrollback'[i]) /\ IsMarker(scrollback'[j])
           /\ scrollback'[i].run = scrollback'[j].run => i = j
    <2> SUFFICES ASSUME NEW i \in 1..Len(scrollback'), NEW j \in 1..Len(scrollback'),
                        IsMarker(scrollback'[i]), IsMarker(scrollback'[j]),
                        scrollback'[i].run = scrollback'[j].run
                 PROVE  i = j
      OBVIOUS
    <2>1. CASE i \in 1..Len(scrollback) /\ j \in 1..Len(scrollback)
      BY <1>2, <2>1 DEF MarkInv
    <2>2. CASE i \in 1..Len(scrollback) /\ j \notin 1..Len(scrollback)
      BY <1>2, <2>2
    <2>3. CASE i \notin 1..Len(scrollback) /\ j \in 1..Len(scrollback)
      BY <1>2, <2>3
    <2>4. CASE i \notin 1..Len(scrollback) /\ j \notin 1..Len(scrollback)
      BY <2>4
    <2> QED BY <2>1, <2>2, <2>3, <2>4
  <1>5. \A i \in 1..Len(scrollback') :
         IsMarker(scrollback'[i]) /\ scrollback'[i].marker = "cancelled" =>
           scrollback'[i].run \in cancelled /\ scrollback'[i].run # lastSnapshot'
    <2> SUFFICES ASSUME NEW i \in 1..Len(scrollback'),
                        IsMarker(scrollback'[i]), scrollback'[i].marker = "cancelled"
                 PROVE  scrollback'[i].run \in cancelled /\ scrollback'[i].run # lastSnapshot'
      OBVIOUS
    <2>1. CASE i \in 1..Len(scrollback)
      BY <1>2, <2>1 DEF MarkInv
    <2>2. CASE i \notin 1..Len(scrollback)
      BY <2>2
    <2> QED BY <2>1, <2>2
  <1> QED BY <1>3, <1>4, <1>5 DEF MarkInv

LEMMA HandleFinishStep == ASSUME ChatInv, HandleFinish PROVE ChatInv'
  <1> DEFINE f == inflight.finish
             fn == finishNodes(f)
             n == Len(scrollback)
  <1>1. /\ reader = "msg" /\ inflight.t = "finish" /\ Handled /\ finishHandled'
        /\ scrollback' = scrollback \o fn /\ previewNodes' = <<>> /\ ts' = afterDrain(ts)
        /\ lastSnapshot' = IF f = "Cancelled" THEN lastSnapshot ELSE run
    BY DEF HandleFinish, Handling
  <1>2. /\ ChainInv' /\ ~finishHandled /\ streaming /\ run > 0 /\ run \in Nat
        /\ inflight \in Msgs /\ inflight' = NoMsg /\ reader' = "armed"
        /\ UNCHANGED <<run, cancelled, cancelCmds, ctrl, prod, phase, todo, openTools, streaming>>
    BY <1>1, HandleFrame
  <1>3. f \in FinishReasons
    BY <1>1, <1>2, MsgFields
  <1>4. /\ IsFinish(inflight) /\ ctrl = <<>> /\ prod # "run" /\ todo = <<>>
        /\ f = "Cancelled" => run \in cancelled
    BY <1>1 DEF ChatInv, FinishInv, ChainInv, IsFinish, CancelledMeant
  <1>5. scrollback \in Seq(Nodes) /\ n \in Nat /\ lastSnapshot # run /\ lastSnapshot \in 0..run
    BY <1>2 DEF ChatInv, CsTypeOK, UiType, RunType, MarkInv
  <1>6. \/ fn = <<>> /\ f \notin {"Cancelled", "Error"}
        \/ \E v \in Verdicts : /\ fn = <<Marker(v)>>
                               /\ v = "cancelled" <=> f = "Cancelled"
                               /\ f = "Error" => v = "error"
    BY <1>2, <1>3, FinishNodesFacts
  <1> HIDE DEF fn
  <1>7. /\ Keeps(scrollback, scrollback')
        /\ \A i \in 1..Len(scrollback') :
             \/ i \in 1..n
             \/ /\ i = n + 1 /\ scrollback'[i].run = run /\ IsMarker(scrollback'[i])
                /\ scrollback'[i].marker = "cancelled" <=> f = "Cancelled"
        /\ f \in {"Cancelled", "Error"} =>
             /\ n + 1 \in 1..Len(scrollback')
             /\ scrollback'[n + 1].run = run /\ IsMarker(scrollback'[n + 1])
             /\ scrollback'[n + 1].marker \in {"cancelled", "error"}
    <2>1. CASE fn = <<>> /\ f \notin {"Cancelled", "Error"}
      <3>1. scrollback' = scrollback
        BY <1>1, <1>5, <2>1
      <3> QED BY <1>5, <2>1, <3>1, KeepsSame
    <2>2. CASE \E v \in Verdicts : /\ fn = <<Marker(v)>>
                                   /\ v = "cancelled" <=> f = "Cancelled"
                                   /\ f = "Error" => v = "error"
      <3>1. PICK v \in Verdicts : /\ fn = <<Marker(v)>>
                                  /\ v = "cancelled" <=> f = "Cancelled"
                                  /\ f = "Error" => v = "error"
        BY <2>2
      <3> DEFINE x == Marker(v)
      <3>2. x \in Nodes /\ x.n = "marker" /\ x.run = run /\ x.marker = v
        BY <1>2, NodeFacts
      <3>3. fn = <<x>>
        BY <3>1
      <3> HIDE DEF x
      <3>4. scrollback' = Append(scrollback, x)
        BY <1>1, <1>5, <3>2, <3>3
      <3>5. /\ Keeps(scrollback, scrollback') /\ Len(scrollback') = n + 1
            /\ scrollback'[n + 1] = x
            /\ \A i \in 1..Len(scrollback') : i \in 1..n \/ i = n + 1
        BY <1>5, <3>2, <3>4, KeepsAppend
      <3> QED BY <1>5, <3>1, <3>2, <3>5 DEF IsMarker
    <2> QED BY <1>6, <2>1, <2>2
  <1>8. MarkInv'
    <2>1. lastSnapshot' \in {lastSnapshot, run}
      BY <1>1
    <2>3. PICK L : L = n + 1
      OBVIOUS
    <2>2. \A i \in 1..Len(scrollback') :
             \/ i \in 1..Len(scrollback)
             \/ /\ scrollback'[i].run = run
                /\ IsMarker(scrollback'[i]) =>
                     /\ i = L
                     /\ scrollback'[i].marker = "cancelled" =>
                          run \in cancelled /\ lastSnapshot' # run
      BY <1>1, <1>4, <1>5, <1>7, <2>3
    <2>4. finishHandled' /\ UNCHANGED <<run, cancelled>>
      BY <1>1, <1>2
    <2>5. CsTypeOK /\ MarkInv /\ ~finishHandled /\ streaming /\ Keeps(scrollback, scrollback')
      BY <1>2, <1>7 DEF ChatInv
    <2> QED BY <2>1, <2>2, <2>4, <2>5, NewMark
  <1>9. CsTypeOK'
    <2>1. ChanType' /\ ProdType'
      BY <1>1, HandledType DEF ChatInv
    <2>2. UiType'
      <3>1. <<>> \in Seq(Nodes)
        OBVIOUS
      <3> QED BY <1>1, <1>7, <3>1 DEF UiType, Texts, Keeps
    <2>3. run \in 0..run
      BY <1>2
    <2>4. lastSnapshot' \in 0..run
      BY <1>1, <1>5, <2>3
    <2>5. RunType'
      BY <1>2, <2>4 DEF ChatInv, CsTypeOK, RunType
    <2> QED BY <2>1, <2>2, <2>5 DEF CsTypeOK
  <1>10. FinishInv'
    BY <1>1, <1>2, <1>4, MsgFacts DEF FinishInv, IsFinish, CancelledMeant
  <1>11. ToolInv'
    <2> SUFFICES ASSUME NEW i \in 1..Len(scrollback'), IsRunning(scrollback'[i])
                 PROVE  Verdict(i)'
      BY <1>2, <1>4, MsgFacts DEF ToolInv
    <2>1. i \in 1..n
      BY <1>7 DEF IsRunning, IsMarker
    <2>2. scrollback'[i] = scrollback[i] /\ IsRunning(scrollback[i])
      BY <1>7, <2>1 DEF Keeps
    <2>3. CASE Verdict(i)
      BY <1>7, <2>1, <2>3, VerdictKept DEF ChatInv
    <2>4. CASE ~Verdict(i)
      <3>1. scrollback[i].run = run /\ Pending(scrollback[i].id)
        BY <2>1, <2>2, <2>4 DEF ChatInv, ToolInv
      <3>2. ~Answers(inflight, scrollback[i].id)
        BY <1>1 DEF Answers
      <3>3. Doomed
        BY <1>4, <3>1, <3>2 DEF Pending, Due, Answered
      <3>4. f \in {"Cancelled", "Error"}
        BY <1>4, <3>3 DEF Doomed, EndsBadly, BadEnd, FinishComing
      <3>5. n + 1 > n
        BY <1>5
      <3> QED BY <1>7, <2>1, <3>1, <3>4, <3>5, NewVerdict DEF ChatInv
    <2> QED BY <2>3, <2>4
  <1>12. BacklogInv'
    BY <1>1, HandleBacklog
  <1> QED BY <1>2, <1>8, <1>9, <1>10, <1>11, <1>12 DEF ChatInv

(* The final flush. *)
LEMMA StreamDoneStep == ASSUME ChatInv, StreamDone PROVE ChatInv'
  <1> DEFINE p == Preview(drainChunks(ts).emitted)
             residual == previewNodes \o p
             x == Marker("cancelled")
             note == IF finishHandled THEN <<>> ELSE <<x>>
             mid == scrollback \o residual
             n == Len(mid)
  <1>1. /\ reader = "done" /\ scrollback' = mid \o note /\ ts' = afterDrain(ts)
        /\ reader' = "none" /\ ~streaming' /\ streaming' \in BOOLEAN
        /\ previewNodes' = <<>> /\ ~finishHandled'
        /\ UNCHANGED <<run, cancelled, cancelCmds, ctrl, ctrlClosed, prodVars, inflight, lastSnapshot>>
    BY DEF StreamDone
  <1>2. /\ streaming /\ ctrl = <<>> /\ ctrlClosed /\ prod = "exited" /\ todo = <<>>
        /\ inflight = NoMsg /\ run \in Nat /\ run > 0
    BY <1>1, SessionAssumption DEF ChatInv, ChainInv, CsTypeOK, RunType
  <1>3. /\ ~FinishComing
        /\ ~finishHandled => run \in cancelled /\ lastSnapshot # run
    <2>1. ~FinishComing
      BY <1>2, MsgFacts DEF FinishComing, IsFinish
    <2> QED BY <1>1, <1>2, <2>1 DEF ChatInv, FinishInv, MarkInv
  <1>4. /\ p \in Seq(Nodes) /\ scrollback \in Seq(Nodes) /\ previewNodes \in Seq(Nodes)
        /\ \A i \in 1..Len(p) : p[i].n = "text" /\ p[i].run = run
    BY <1>2, PreviewTyped DEF ChatInv, CsTypeOK, ChanType, UiType
  <1>5. Texts(p) /\ Texts(previewNodes)
    BY <1>4 DEF ChatInv, CsTypeOK, UiType, Texts
  <1> HIDE DEF p
  <1>6. /\ residual \in Seq(Nodes)
        /\ \A i \in 1..Len(residual) : residual[i].n = "text" /\ residual[i].run = run
    BY <1>4, <1>5, TextsConcat DEF Texts
  <1> HIDE DEF residual
  <1>7. /\ mid \in Seq(Nodes) /\ n \in Nat /\ Len(scrollback) <= n /\ Len(scrollback) \in Nat
        /\ Keeps(scrollback, mid)
        /\ \A i \in 1..n : \/ i \in 1..Len(scrollback)
                           \/ mid[i].n = "text" /\ mid[i].run = run
    <2>1. /\ Keeps(scrollback, mid) /\ mid \in Seq(Nodes)
          /\ \A i \in 1..Len(mid) :
                \/ i \in 1..Len(scrollback)
                \/ i - Len(scrollback) \in 1..Len(residual) /\ mid[i] = residual[i - Len(scrollback)]
      BY <1>4, <1>6, KeepsConcat
    <2> HIDE DEF mid
    <2>2. Len(mid) \in Nat /\ Len(scrollback) <= Len(mid) /\ Len(scrollback) \in Nat
      BY <1>4, <2>1 DEF Keeps
    <2> QED BY <1>6, <2>1, <2>2
  <1>8. x \in Nodes /\ x.n = "marker" /\ x.run = run /\ x.marker = "cancelled"
    BY <1>2, NodeFacts DEF Verdicts
  <1> HIDE DEF mid, x
  <1>9. /\ Keeps(scrollback, scrollback')
        /\ \A i \in 1..Len(scrollback') :
             \/ i \in 1..Len(scrollback)
             \/ scrollback'[i].n = "text" /\ scrollback'[i].run = run
             \/ i = n + 1 /\ ~finishHandled /\ scrollback'[i] = x
        /\ ~finishHandled => n + 1 \in 1..Len(scrollback') /\ scrollback'[n + 1] = x
    <2>1. CASE finishHandled
      <3>1. scrollback' = mid
        BY <1>1, <1>7, <2>1
      <3> QED BY <1>7, <2>1, <3>1
    <2>2. CASE ~finishHandled
      <3>1. scrollback' = Append(mid, x)
        BY <1>1, <1>7, <1>8, <2>2
      <3>2. /\ Keeps(mid, scrollback') /\ Len(scrollback') = n + 1
            /\ scrollback'[n + 1] = x
            /\ \A i \in 1..Len(scrollback') : i \in 1..n \/ i = n + 1
        BY <1>7, <1>8, <3>1, KeepsAppend
      <3>3. scrollback' \in Seq(Nodes)
        BY <3>2 DEF Keeps
      <3>4. Keeps(scrollback, scrollback')
        BY <1>4, <1>7, <3>2, <3>3, KeepsTrans
      <3>5. \A i \in 1..n : i \in 1..Len(scrollback)
              \/ (scrollback'[i].n = "text" /\ scrollback'[i].run = run)
        BY <1>7, <3>2 DEF Keeps
      <3>6. n + 1 \in 1..Len(scrollback')
        BY <1>7, <3>2
      <3> QED BY <2>2, <3>2, <3>4, <3>5, <3>6
    <2> QED BY <2>1, <2>2
  <1>10. CsTypeOK'
    <2>1. ts' \in Streams
      BY <1>1, DrainTyped DEF ChatInv, CsTypeOK, ChanType
    <2>2. ChanType'
      BY <1>1, <2>1 DEF ChatInv, CsTypeOK, ChanType
    <2>3. ProdType'
      BY <1>1, ProdFrame DEF ChatInv
    <2>4. UiType'
      <3>1. <<>> \in Seq(Nodes)
        OBVIOUS
      <3> QED BY <1>1, <1>9, <3>1 DEF UiType, Texts, Keeps
    <2>5. RunType'
      BY <1>1 DEF ChatInv, CsTypeOK, RunType
    <2> QED BY <2>2, <2>3, <2>4, <2>5 DEF CsTypeOK
  <1>11. ChainInv'
    BY <1>1, <1>2 DEF ChainInv, prodVars
  <1>12. FinishInv'
    BY <1>1, <1>2, MsgFacts DEF FinishInv, IsFinish, CancelledMeant, prodVars
  <1>13. MarkInv'
    <2>1. CASE finishHandled
      <3>1. \A i \in 1..Len(scrollback') : \/ i \in 1..Len(scrollback)
                                           \/ ~IsMarker(scrollback'[i]) /\ scrollback'[i].run = run
        BY <1>9, <2>1 DEF IsMarker
      <3>2. \A i \in 1..Len(scrollback') : IsMarker(scrollback'[i]) =>
            /\ i \in 1..Len(scrollback)
            /\ IsMarker(scrollback[i]) /\ scrollback'[i] = scrollback[i]
        BY <1>9, <3>1 DEF Keeps, IsMarker
      <3>3. \A i \in 1..Len(scrollback') : scrollback'[i].run \in 1..run
        BY <1>2, <1>9, <3>1 DEF ChatInv, MarkInv, Keeps
      <3>4. /\ ~streaming' /\ UNCHANGED <<run, cancelled, lastSnapshot>>
        BY <1>1
      <3>5. \A i, j \in 1..Len(scrollback') :
               IsMarker(scrollback'[i]) /\ IsMarker(scrollback'[j])
                 /\ scrollback'[i].run = scrollback'[j].run => i = j
        BY <3>2 DEF ChatInv, MarkInv
      <3>6. \A i \in 1..Len(scrollback') :
               IsMarker(scrollback'[i]) /\ scrollback'[i].marker = "cancelled" =>
                 scrollback'[i].run \in cancelled /\ scrollback'[i].run # lastSnapshot
        BY <3>2 DEF ChatInv, MarkInv
      <3> QED BY <3>3, <3>4, <3>5, <3>6 DEF MarkInv
    <2>2. CASE ~finishHandled
      <3>2. PICK L : L = n + 1
        OBVIOUS
      <3>1. \A i \in 1..Len(scrollback') :
             \/ i \in 1..Len(scrollback)
             \/ /\ scrollback'[i].run = run
                /\ IsMarker(scrollback'[i]) =>
                     /\ i = L
                     /\ scrollback'[i].marker = "cancelled" =>
                          run \in cancelled /\ lastSnapshot' # run
        BY <1>1, <1>3, <1>8, <1>9, <2>2, <3>2 DEF IsMarker
      <3>3. ~streaming' /\ UNCHANGED <<run, cancelled>> /\ lastSnapshot' \in {lastSnapshot, run}
        BY <1>1
      <3>4. CsTypeOK /\ MarkInv /\ streaming /\ Keeps(scrollback, scrollback')
        BY <1>2, <1>9 DEF ChatInv
      <3> QED BY <2>2, <3>1, <3>3, <3>4, NewMark
    <2> QED BY <2>1, <2>2
  <1>14. ToolInv'
    <2> SUFFICES ASSUME NEW i \in 1..Len(scrollback'), IsRunning(scrollback'[i])
                 PROVE  Verdict(i)'
      BY <1>1, <1>2, MsgFacts DEF ToolInv, prodVars
    <2>1. i \in 1..Len(scrollback)
      BY <1>8, <1>9 DEF IsRunning
    <2>2. scrollback'[i] = scrollback[i] /\ IsRunning(scrollback[i])
      BY <1>9, <2>1 DEF Keeps
    <2>3. CASE Verdict(i)
      BY <1>9, <2>1, <2>3, VerdictKept DEF ChatInv
    <2>4. CASE ~Verdict(i)
      <3>1. scrollback[i].run = run /\ Pending(scrollback[i].id)
        BY <2>1, <2>2, <2>4 DEF ChatInv, ToolInv
      <3>2. ~Answers(inflight, scrollback[i].id) /\ ~EndsBadly(inflight)
        BY <1>2, MsgFacts DEF Answers, EndsBadly, IsFinish
      <3>3. Doomed
        BY <1>2, <3>1, <3>2 DEF Pending, Due, Answered
      <3>4. ~finishHandled
        BY <1>2, <3>2, <3>3 DEF Doomed, BadEnd
      <3>5. n + 1 > Len(scrollback)
        BY <1>7
      <3>6. /\ n + 1 \in 1..Len(scrollback') /\ IsMarker(scrollback'[n + 1])
            /\ scrollback'[n + 1].run = scrollback[i].run
            /\ scrollback'[n + 1].marker \in {"cancelled", "error"}
        BY <1>8, <1>9, <3>1, <3>4 DEF IsMarker
      <3> HIDE DEF n
      <3> QED BY <1>9, <2>1, <3>5, <3>6, NewVerdict DEF ChatInv
    <2> QED BY <2>3, <2>4
  <1>15. BacklogInv'
    BY <1>1, <1>2 DEF BacklogInv, prodVars
  <1> QED BY <1>10, <1>11, <1>12, <1>13, <1>14, <1>15 DEF ChatInv

-----------------------------------------------------------------------------
LEMMA ChatStutter == ASSUME ChatInv, UNCHANGED vars PROVE ChatInv'
  <1> USE DEF vars, prodVars, uiVars
  <1>1. CsTypeOK'
    BY DEF ChatInv, CsTypeOK, RunType, ChanType, ProdType, UiType, Texts
  <1>2. ChainInv'
    BY DEF ChatInv, ChainInv
  <1>3. FinishInv'
    BY DEF ChatInv, FinishInv, FinishComing, CancelledMeant
  <1>4. MarkInv'
    BY DEF ChatInv, MarkInv
  <1>5. ToolInv'
    BY DEF ChatInv, ToolInv, Verdict, Pending, Due, Doomed, FinishComing
  <1>6. BacklogInv'
    BY DEF ChatInv, BacklogInv
  <1> QED BY <1>1, <1>2, <1>3, <1>4, <1>5, <1>6 DEF ChatInv

LEMMA ChatStep == ASSUME ChatInv, [Next]_vars PROVE ChatInv'
  <1>1. CASE Submit
    BY <1>1, SubmitStep
  <1>2. CASE HandleCancel \/ \E r \in 1..MaxRuns : RunCancel(r)
    BY <1>2, CancelStep
  <1>3. CASE ProducerStep
    <2>1. CASE \E k \in TextKinds : EmitText(k)
      BY <2>1, EmitTextStep
    <2>2. CASE EmitThinking
      BY <2>2, EmitThinkingStep
    <2>3. CASE EmitToolCall
      BY <2>3, EmitToolCallStep
    <2>4. CASE \E e \in BOOLEAN : EmitToolResult(e)
      BY <2>4, EmitToolResultStep
    <2>5. CASE \E f \in FinishReasons : EmitFinish(f)
      BY <2>5, EmitFinishStep
    <2>6. CASE Send
      BY <2>6, SendStep
    <2>7. CASE SendCancelled
      BY <2>7, SendCancelledStep
    <2>8. CASE CloseStream \/ CloseCtrl
      BY <2>8, CloseStep
    <2> QED BY <1>3, <2>1, <2>2, <2>3, <2>4, <2>5, <2>6, <2>7, <2>8 DEF ProducerStep
  <1>4. CASE ConsumerStep
    <2>1. CASE StartLoop
      BY <2>1, StartLoopStep
    <2>2. CASE ArmReader
      BY <2>2, ArmStep
    <2>3. CASE ReadCtrl
      BY <2>3, ReadStep, ReadClosedStep
    <2>4. CASE HandleTick
      BY <2>4, HandleTickStep
    <2>5. CASE HandleSealed
      BY <2>5, HandleSealedStep
    <2>6. CASE HandleThinking
      BY <2>6, HandleThinkingStep
    <2>7. CASE HandleToolUse
      BY <2>7, HandleToolUseStep
    <2>8. CASE HandleToolResult
      BY <2>8, HandleToolResultStep
    <2>9. CASE HandleFinish
      BY <2>9, HandleFinishStep
    <2>10. CASE StreamDone
      BY <2>10, StreamDoneStep
    <2> QED BY <1>4, <2>1, <2>2, <2>3, <2>4, <2>5, <2>6, <2>7, <2>8, <2>9, <2>10
            DEF ConsumerStep
  <1>5. CASE Idle \/ UNCHANGED vars
    BY <1>5, ChatStutter DEF Idle
  <1> QED BY <1>1, <1>2, <1>3, <1>4, <1>5 DEF Next

LEMMA ChatInvariant == Spec => []ChatInv
  <1>1. Init => ChatInv
    BY CsInitLemma
  <1>2. ChatInv /\ [Next]_vars => ChatInv'
    BY ChatStep
  <1> QED BY <1>1, <1>2, PTL DEF Spec

(* Runs do not reach into each other: the goroutine of one run is gone     *)
(* before the next is submitted, no marker says cancelled of a run that    *)
(* nobody cancelled, and the snapshot of /report is never a run shown as   *)
(* cancelled.                                                              *)
THEOREM RunsIsolatedTheorem == Spec => []RunsIsolated
  <1>1. ChatInv => RunsIsolated
    <2> SUFFICES ASSUME ChatInv PROVE RunsIsolated
      OBVIOUS
    <2>1. OneRunAtATime
      BY DEF ChatInv, ChainInv, OneRunAtATime
    <2>2. DOMAIN scrollback = 1..Len(scrollback)
      BY DEF ChatInv, CsTypeOK, UiType
    <2>3. NoSpuriousCancel
      BY <2>2 DEF ChatInv, MarkInv, IsMarker, NoSpuriousCancel
    <2>4. SnapshotNotCancelled
      BY <2>2 DEF ChatInv, MarkInv, IsMarker, SnapshotNotCancelled, Markers
    <2> QED BY <2>1, <2>3, <2>4 DEF RunsIsolated
  <1> QED BY <1>1, ChatInvariant, PTL

(* Between runs every tool block on the screen is settled, or lies above   *)
(* the cancel or error verdict of its run, and no run has two verdicts.    *)
THEOREM ToolsSettledTheorem == Spec => []ToolsSettled
  <1>1. ChatInv => ToolsSettled
    <2> SUFFICES ASSUME ChatInv, ~streaming, NEW i \in DOMAIN scrollback
                 PROVE  /\ Cardinality(Markers(scrollback[i].run)) <= 1
                        /\ scrollback[i].n = "tool" /\ scrollback[i].state = "running" =>
                             \E j \in Markers(scrollback[i].run) :
                               j > i /\ scrollback[j].marker \in {"cancelled", "error"}
      BY DEF ToolsSettled
    <2>1. DOMAIN scrollback = 1..Len(scrollback) /\ Len(scrollback) \in Nat
      BY DEF ChatInv, CsTypeOK, UiType
    <2> DEFINE M == Markers(scrollback[i].run)
    <2>2. \A j \in M : /\ j \in 1..Len(scrollback) /\ IsMarker(scrollback[j])
                       /\ scrollback[j].run = scrollback[i].run
      BY <2>1 DEF Markers, IsMarker
    <2>3. \A j, k \in M : j = k
      BY <2>2 DEF ChatInv, MarkInv
    <2>4. Cardinality(M) <= 1
      <3> HIDE DEF M
      <3>1. CASE M = {}
        BY <3>1, FS_EmptySet
      <3>2. CASE M # {}
        <4>1. PICK j : M = {j}
          BY <2>3, <3>2
        <4> QED BY <4>1, FS_Singleton
      <3> QED BY <3>1, <3>2
    <2>5. ASSUME scrollback[i].n = "tool", scrollback[i].state = "running"
          PROVE  \E j \in M : j > i /\ scrollback[j].marker \in {"cancelled", "error"}
      <3>1. Verdict(i)
        BY <2>1, <2>5 DEF ChatInv, ToolInv, IsRunning
      <3>2. PICK j \in (i + 1)..Len(scrollback) :
              /\ IsMarker(scrollback[j]) /\ scrollback[j].run = scrollback[i].run
              /\ scrollback[j].marker \in {"cancelled", "error"}
        BY <3>1 DEF Verdict
      <3>3. j \in 1..Len(scrollback) /\ j > i
        BY <2>1
      <3>4. j \in M
        BY <2>1, <3>2, <3>3 DEF Markers, IsMarker
      <3> QED BY <3>2, <3>3, <3>4
    <2> QED BY <2>4, <2>5
  <1> QED BY <1>1, ChatInvariant, PTL

(* Every token in the stream's channel has a tick on its way, so no more   *)
(* than CtrlCap + 2 of them wait, whatever Run emits: AppendChunk never    *)
(* blocks on a full channel.                                               *)
THEOREM BacklogTheorem == Spec => []BacklogBounded
  <1>1. ChatInv => BacklogBounded
    <2> SUFFICES ASSUME ChatInv, prod = "run" PROVE BacklogBounded
      BY DEF BacklogBounded
    <2>1. Len(ts.tokens) <= Ticks(todo) + Ticks(ctrl) + Ticks(<<inflight>>)
      BY DEF ChatInv, BacklogInv
    <2>2. /\ todo \in Seq(Msgs) /\ ctrl \in Seq(Msgs \cup {NoMsg})
          /\ inflight \in Msgs \cup {NoMsg} /\ todo \in Seq(Msgs \cup {NoMsg})
          /\ Len(ctrl) <= CtrlCap /\ Len(ctrl) \in Nat /\ Len(ts.tokens) \in Nat
      BY SeqMonotonic DEF ChatInv, CsTypeOK, ChanType, ProdType, Streams
    <2>3. Ticks(ctrl) \in Nat /\ Ticks(ctrl) <= Len(ctrl)
      BY <2>2, TicksFacts
    <2>4. Ticks(<<inflight>>) \in 0..1
      BY <2>2, TicksOne
    <2>5. Ticks(todo) \in 0..1
      <3>1. Ticks(todo) = Cardinality(TickAt(todo)) /\ Ticks(todo) \in Nat /\ Ticks(todo) <= Len(todo)
        BY <2>2, TicksFacts
      <3>2. CASE Len(todo) = 1
        BY <3>1, <3>2
      <3>3. CASE Len(todo) # 1
        <4>1. TickAt(todo) = {}
          BY <3>3 DEF ChatInv, BacklogInv, TickAt
        <4> QED BY <3>1, <4>1, FS_EmptySet
      <3> QED BY <3>2, <3>3
    <2>6. Len(ts.tokens) <= CtrlCap + 2
      BY <2>1, <2>2, <2>3, <2>4, <2>5, SessionAssumption
    <2> QED BY <2>1, <2>6 DEF BacklogBounded
  <1> QED BY <1>1, ChatInvariant, PTL
-----------------------------------------------------------------------------
(* Concatenation of a sequence of sequences.                               *)
Agree(a, b, N) == \A n \in 1..N : a[n] = b[n]
Joins(ss, m, g) ==
    /\ g[1] = ss[1]
    /\ \A i \in 2..m : g[i] = g[i-1] \o ss[i]

LEMMA JoinExists ==
    ASSUME NEW E, NEW ss \in Seq(Seq(E)), NEW N \in 1..Len(ss)
    PROVE  \E g \in [1..N -> Seq(E)] : Joins(ss, N, g)
  <1> DEFINE T == {m \in 1..Len(ss) : ~\E g \in [1..m -> Seq(E)] : Joins(ss, m, g)}
  <1>1. SUFFICES T = {}
    OBVIOUS
  <1>2. SUFFICES ASSUME T # {} PROVE FALSE
    OBVIOUS
  <1>3. T \subseteq Nat /\ Len(ss) \in Nat
    OBVIOUS
  <1>4. PICK m \in T : \A k \in T : m <= k
    BY <1>2, <1>3, LeastNatural
  <1>5. m \in 1..Len(ss) /\ m \in Nat /\ ss[m] \in Seq(E)
    BY <1>3, <1>4
  <1>6. CASE m = 1
    <2>1. PICK g : g = [k \in 1..1 |-> ss[1]]
      OBVIOUS
    <2>2. g \in [1..1 -> Seq(E)] /\ g[1] = ss[1]
      BY <1>5, <1>6, <2>1
    <2>3. Joins(ss, 1, g)
      BY <2>2 DEF Joins
    <2> QED BY <1>4, <1>6, <2>2, <2>3
  <1>7. CASE m # 1
    <2>0. PICK n : n = Len(ss)
      OBVIOUS
    <2>a. m - 1 \in 1..n /\ m - 1 \in 1..(m - 1) /\ ~(m <= m - 1)
      BY <1>3, <1>5, <1>7, <2>0
    <2>1. m - 1 \in 1..Len(ss) /\ m - 1 \notin T /\ m - 1 \in 1..(m - 1)
      BY <1>4, <2>0, <2>a
    <2>2. PICK g \in [1..(m - 1) -> Seq(E)] : Joins(ss, m - 1, g)
      BY <2>1
    <2>3. PICK x : x = g[m-1] \o ss[m]
      OBVIOUS
    <2>4. x \in Seq(E)
      BY <1>5, <2>1, <2>2, <2>3, ConcatProperties
    <2>5. PICK h : h = [k \in 1..m |-> IF k = m THEN x ELSE g[k]]
      OBVIOUS
    <2>6. /\ h \in [1..m -> Seq(E)] /\ h[m] = x
          /\ \A k \in 1..(m - 1) : h[k] = g[k]
      BY <1>5, <1>7, <2>2, <2>4, <2>5
    <2>7. Joins(ss, m, h)
      <3>1. h[1] = ss[1]
        BY <1>5, <1>7, <2>1, <2>2, <2>6 DEF Joins
      <3>2. ASSUME NEW k \in 2..m PROVE h[k] = h[k-1] \o ss[k]
        <4>1. CASE k = m
          BY <2>1, <2>3, <2>6, <4>1
        <4>2. CASE k # m
          <5>1. k \in 2..(m-1) /\ k \in 1..(m-1) /\ k-1 \in 1..(m-1)
            BY <1>5, <3>2, <4>2
          <5>2. h[k] = g[k] /\ h[k-1] = g[k-1]
            BY <2>6, <5>1
          <5> QED BY <2>2, <5>1, <5>2 DEF Joins
        <4> QED BY <4>1, <4>2
      <3> QED BY <3>1, <3>2 DEF Joins
    <2> QED BY <1>4, <2>6, <2>7
  <1> QED BY <1>6, <1>7

LEMMA JoinUnique ==
    ASSUME NEW a, NEW b, NEW N \in Nat \ {0}, NEW g, NEW h, Joins(a, N, g), Joins(b, N, h), Agree(a, b, N)
    PROVE  g[N] = h[N]
  <1> DEFINE T == {m \in 1..N : g[m] # h[m]}
  <1>1. T = {}
    <2> SUFFICES ASSUME T # {} PROVE FALSE
      OBVIOUS
    <2>1. T \subseteq Nat
      OBVIOUS
    <2>2. PICK m \in T : \A k \in T : m <= k
      BY <2>1, LeastNatural
    <2>0. \A i \in 1..N : a[i] = b[i]
      BY DEF Agree
    <2>3. m \in 1..N /\ m # 1
      BY <2>0 DEF Joins
    <2>4. m \in 2..N /\ m - 1 \in 1..N /\ m - 1 \notin T
      BY <2>2, <2>3
    <2>5. g[m - 1] = h[m - 1] /\ a[m] = b[m]
      BY <2>0, <2>4
    <2> QED BY <2>4, <2>5 DEF Joins
  <1>2. N \in 1..N
    OBVIOUS
  <1> QED BY <1>1, <1>2

LEMMA FlattenJoin ==
    ASSUME NEW E, NEW ss \in Seq(Seq(E)), Len(ss) # 0
    PROVE  \E g \in [1..Len(ss) -> Seq(E)] : Joins(ss, Len(ss), g) /\ FlattenSeq(ss) = g[Len(ss)]
  <1> DEFINE N == Len(ss)
             f == CHOOSE f : f = [i \in 1..N |-> IF i = 1 THEN ss[i] ELSE f[i-1] \o ss[i]]
  <1>0. N \in Nat \ {0} /\ N \in 1..Len(ss)
    OBVIOUS
  <1>1. PICK g \in [1..N -> Seq(E)] : Joins(ss, N, g)
    BY <1>0, JoinExists
  <1>2. g = [i \in 1..N |-> IF i = 1 THEN ss[i] ELSE g[i-1] \o ss[i]]
    <2>1. ASSUME NEW i \in 1..N PROVE g[i] = IF i = 1 THEN ss[i] ELSE g[i-1] \o ss[i]
      <3>1. i = 1 \/ i \in 2..N
        BY <1>0
      <3> QED BY <1>1, <3>1 DEF Joins
    <2> QED BY <2>1
  <1>3. f = [i \in 1..N |-> IF i = 1 THEN ss[i] ELSE f[i-1] \o ss[i]]
    BY <1>2
  <1>4. FlattenSeq(ss) = f[N]
    BY DEF FlattenSeq
  <1> HIDE DEF f
  <1>5. Joins(ss, N, f)
    <2>1. f[1] = ss[1]
      BY <1>0, <1>3
    <2>2. ASSUME NEW i \in 2..N PROVE f[i] = f[i-1] \o ss[i]
      <3>1. i \in 1..N /\ i # 1
        BY <1>0
      <3> QED BY <1>3, <3>1
    <2> QED BY <2>1, <2>2 DEF Joins
  <1>6. f[N] = g[N]
    <2>1. Agree(ss, ss, N)
      BY DEF Agree
    <2> QED BY <1>0, <1>1, <1>5, <2>1, JoinUnique
  <1> QED BY <1>1, <1>4, <1>6

LEMMA FlattenEmpty == FlattenSeq(<<>>) = <<>>
  BY DEF FlattenSeq

LEMMA FlattenAppend ==
    ASSUME NEW E, NEW ss \in Seq(Seq(E)), NEW x \in Seq(E)
    PROVE  FlattenSeq(ss) \in Seq(E) /\ FlattenSeq(Append(ss, x)) = FlattenSeq(ss) \o x
  <1>0. PICK N, more : N = Len(ss) /\ more = Append(ss, x)
    OBVIOUS
  <1>1. /\ N \in Nat /\ more \in Seq(Seq(E)) /\ Len(more) = N + 1 /\ more[N + 1] = x
        /\ \A i \in 1..N : more[i] = ss[i]
    BY <1>0
  <1>2. PICK h \in [1..(N + 1) -> Seq(E)] : Joins(more, N + 1, h) /\ FlattenSeq(more) = h[N + 1]
    <2>1. Len(more) = N + 1 /\ Len(more) # 0 /\ more \in Seq(Seq(E))
      BY <1>1
    <2> QED BY <2>1, FlattenJoin
  <1>3. CASE N = 0
    <2>1. ss = <<>>
      BY <1>0, <1>3, EmptySeq
    <2>2. FlattenSeq(ss) = <<>> /\ <<>> \in Seq(E)
      BY <2>1, FlattenEmpty
    <2>3. FlattenSeq(more) = x
      BY <1>1, <1>2, <1>3 DEF Joins
    <2>4. <<>> \o x = x
      BY ConcatEmptySeq
    <2> QED BY <1>0, <2>2, <2>3, <2>4
  <1>4. CASE N # 0
    <2>1. PICK g \in [1..N -> Seq(E)] : Joins(ss, N, g) /\ FlattenSeq(ss) = g[N]
      BY <1>0, <1>4, FlattenJoin
    <2>2. Joins(more, N, h)
      <3>1. \A i \in 2..N : i \in 2..(N + 1)
        BY <1>1
      <3> QED BY <1>2, <3>1 DEF Joins
    <2>3. Agree(ss, more, N) /\ N \in Nat \ {0}
      BY <1>1, <1>4 DEF Agree
    <2>4. g[N] = h[N]
      BY <2>1, <2>2, <2>3, JoinUnique
    <2>5. N + 1 \in 2..(N + 1) /\ (N + 1) - 1 = N /\ N \in 1..N
      BY <1>1, <1>4
    <2>6. h[N + 1] = h[N] \o x
      BY <1>1, <1>2, <2>5 DEF Joins
    <2> QED BY <1>0, <1>2, <2>1, <2>4, <2>5, <2>6
  <1> QED BY <1>3, <1>4

LEMMA FunctionSeq ==
    ASSUME NEW S, NEW k \in Nat, NEW g \in [1..k -> S]
    PROVE  g \in Seq(S) /\ Len(g) = k
  OBVIOUS

(* The numbers that the members of a sequence stand for, one after another. *)
Flat(q, f) == FlattenSeq([i \in DOMAIN q |-> f[q[i]]])

LEMMA FlatAppend ==
    ASSUME NEW A, NEW f \in [A -> Seq(Nat)], NEW q \in Seq(A), NEW m \in A
    PROVE  Flat(q, f) \in Seq(Nat) /\ Flat(Append(q, m), f) = Flat(q, f) \o f[m]
  <1>1. PICK n, x, more, y, ap : /\ n = Len(q) /\ x = [i \in DOMAIN q |-> f[q[i]]] /\ ap = Append(q, m)
                             /\ more = [i \in DOMAIN ap |-> f[ap[i]]] /\ y = f[m]
    OBVIOUS
  <1>2. n \in Nat /\ DOMAIN q = 1..n /\ y \in Seq(Nat) /\ \A i \in 1..n : q[i] \in A
    BY <1>1
  <1>3. x \in Seq(Seq(Nat)) /\ Len(x) = n /\ \A i \in 1..n : x[i] = f[q[i]]
    BY <1>1, <1>2
  <1>4. /\ ap \in Seq(A) /\ Len(ap) = n + 1 /\ DOMAIN ap = 1..(n + 1) /\ ap[n + 1] = m
        /\ \A i \in 1..n : ap[i] = q[i]
    BY <1>1, <1>2, AppendProperties
  <1>5. \A i \in 1..(n + 1) : i \in 1..n \/ i = n + 1
    BY <1>2
  <1>6. /\ more \in Seq(Seq(Nat)) /\ Len(more) = n + 1 /\ more[n + 1] = y
        /\ \A i \in 1..n : more[i] = f[q[i]]
    <2>1. \A i \in 1..(n + 1) : ap[i] \in A /\ f[ap[i]] \in Seq(Nat)
      <3> TAKE i \in 1..(n + 1)
      <3>1. ap[i] \in A
        BY <1>4, ElementOfSeq
      <3> QED BY <3>1
    <2>2. more = [i \in 1..(n + 1) |-> f[ap[i]]] /\ n + 1 \in Nat
      BY <1>1, <1>2, <1>4
    <2>3. more \in Seq(Seq(Nat)) /\ Len(more) = n + 1 /\ \A i \in 1..(n + 1) : more[i] = f[ap[i]]
      <3>1. PICK k : k = n + 1 /\ k \in Nat
        BY <2>2
      <3>2. more \in [1..k -> Seq(Nat)] /\ \A i \in 1..k : more[i] = f[ap[i]]
        BY <2>1, <2>2, <3>1
      <3>3. more \in Seq(Seq(Nat)) /\ Len(more) = k
        <4>1. PICK g : g = [i \in 1..k |-> f[ap[i]]]
          OBVIOUS
        <4>2. \A i \in 1..k : f[ap[i]] \in Seq(Nat)
          BY <2>1, <3>1
        <4>3. g \in [1..k -> Seq(Nat)]
          BY <4>1, <4>2
        <4>4. g \in Seq(Seq(Nat)) /\ Len(g) = k
          BY <3>1, <4>3, FunctionSeq
        <4> QED BY <2>2, <3>1, <4>1, <4>4
      <3> QED BY <3>1, <3>2, <3>3
    <2>4. n + 1 \in 1..(n + 1) /\ \A i \in 1..n : i \in 1..(n + 1)
      BY <1>2
    <2> QED BY <1>1, <1>4, <2>3, <2>4
  <1>7. PICK z : z = Append(x, y)
    OBVIOUS
  <1>8. z \in Seq(Seq(Nat)) /\ Len(z) = n + 1 /\ z[n + 1] = y /\ \A i \in 1..n : z[i] = x[i]
    BY <1>2, <1>3, <1>7, AppendProperties
  <1>9. \A i \in 1..Len(more) : more[i] = z[i]
    BY <1>3, <1>5, <1>6, <1>8
  <1>10. more = z
    BY <1>6, <1>8, <1>9, SeqEqual
  <1>11. Flat(q, f) = FlattenSeq(x) /\ Flat(Append(q, m), f) = FlattenSeq(more)
    BY <1>1 DEF Flat
  <1>12. FlattenSeq(x) \in Seq(Nat) /\ FlattenSeq(z) = FlattenSeq(x) \o y
    BY <1>2, <1>3, <1>7, FlattenAppend
  <1> QED BY <1>1, <1>10, <1>11, <1>12

LEMMA NumbersAssociative ==
    ASSUME NEW a \in Seq(Nat), NEW b \in Seq(Nat), NEW c \in Seq(Nat)
    PROVE  (a \o b) \o c = a \o (b \o c)
  BY ConcatAssociative

Regroups(a, b, c) == (a \o b) \o c = a \o (b \o c)

LEMMA RegroupLemma ==
    ASSUME NEW A, NEW a \in Seq(A), NEW b \in Seq(A), NEW c \in Seq(A)
    PROVE  Regroups(a, b, c)
  BY ConcatAssociative DEF Regroups

LEMMA FlatEmpty == ASSUME NEW f PROVE Flat(<<>>, f) = <<>>
  <1>1. [i \in DOMAIN <<>> |-> f[<<>>[i]]] = <<>>
    OBVIOUS
  <1> QED BY <1>1, FlattenEmpty DEF Flat

LEMMA FlatTyped == ASSUME NEW A, NEW f \in [A -> Seq(Nat)], NEW q \in Seq(A) PROVE Flat(q, f) \in Seq(Nat)
  <1>1. CASE q = <<>>
    <2>1. Flat(<<>>, f) = <<>>
      BY FlatEmpty
    <2>2. Flat(q, f) = <<>>
      BY <1>1, <2>1, Zenon
    <2>3. <<>> \in Seq(Nat)
      OBVIOUS
    <2> QED BY <2>2, <2>3
  <1>2. CASE q # <<>>
    <2>1. PICK m : m = Head(q) /\ m \in A
      BY <1>2
    <2>2. Flat(q, f) \in Seq(Nat) /\ Flat(Append(q, m), f) = Flat(q, f) \o f[m]
      BY <2>1, FlatAppend
    <2> QED BY <2>2
  <1> QED BY <1>1, <1>2

LEMMA FlatOne == ASSUME NEW A, NEW f \in [A -> Seq(Nat)], NEW m \in A PROVE Flat(<<m>>, f) = f[m]
  <1>1. <<>> \in Seq(A) /\ <<m>> = Append(<<>>, m) /\ f[m] \in Seq(Nat)
    OBVIOUS
  <1>2. <<>> \o f[m] = f[m]
    BY <1>1, ConcatEmptySeq
  <1> QED BY <1>1, <1>2, FlatAppend, FlatEmpty

LEMMA FlatConcat ==
    ASSUME NEW A, NEW f \in [A -> Seq(Nat)], NEW q \in Seq(A), NEW r \in Seq(A)
    PROVE  Flat(q \o r, f) = Flat(q, f) \o Flat(r, f)
  <1> DEFINE P(n) == SubSeq(r, 1, n)
             T == {n \in 0..Len(r) : Flat(q \o P(n), f) # Flat(q, f) \o Flat(P(n), f)}
  <1>1. PICK N : N = Len(r) /\ N \in Nat
    OBVIOUS
  <1>2. P(N) = r
    BY <1>1, SubSeqFull
  <1>3. SUFFICES ASSUME T # {} PROVE FALSE
    <2>1. N \in 0..Len(r)
      BY <1>1
    <2>2. ASSUME T = {} PROVE Flat(q \o P(N), f) = Flat(q, f) \o Flat(P(N), f)
      BY <2>1, <2>2
    <2> QED BY <1>2, <2>2
  <1>4. T \subseteq Nat
    BY <1>1
  <1>5. PICK m \in T : \A k \in T : m <= k
    BY <1>3, <1>4, LeastNatural
  <1>6. m \in 0..N /\ Flat(q \o P(m), f) # Flat(q, f) \o Flat(P(m), f)
    BY <1>1, <1>5
  <1>7. CASE m = 0
    <2>1. P(m) = <<>>
      BY <1>7
    <2>2. q \o <<>> = q /\ Flat(q, f) \o <<>> = Flat(q, f)
      BY ConcatEmptySeq, FlatTyped
    <2> QED BY <1>6, <2>1, <2>2, FlatEmpty
  <1>8. CASE m # 0
    <2>1. PICK n, x, p : n = m - 1 /\ x = r[m] /\ p = P(n)
      OBVIOUS
    <2>2. n \in Nat /\ n \in 0..N /\ m \in 1..N /\ ~(m <= n) /\ m = n + 1
      BY <1>1, <1>6, <1>8, <2>1
    <2>3. x \in A /\ p \in Seq(A)
      <3>1. \A i \in 1..N : r[i] \in A
        BY <1>1
      <3>2. \A i \in 1..n : i \in 1..N
        BY <1>1, <2>2
      <3> QED BY <2>1, <2>2, <3>1, <3>2, SubSeqProperties
    <2>4. Flat(q \o p, f) = Flat(q, f) \o Flat(p, f)
      BY <1>1, <1>5, <2>1, <2>2
    <2>5. P(m) = Append(p, x)
      <3>1. 1 \in 1..Len(r) /\ m \in 1..Len(r)
        BY <1>1, <2>2
      <3>2. P(m) = SubSeq(r, 1, m - 1) \o <<r[m]>>
        <4>1. PICK o : o = 1
          OBVIOUS
        <4>2. r \in Seq(A) /\ o \in 1..Len(r) /\ m \in o..Len(r)
          BY <3>1, <4>1
        <4>3. SubSeq(r, o, m) = SubSeq(r, o, m - 1) \o <<r[m]>>
          BY <4>2, SubSeqRecursiveSecond
        <4> QED BY <4>1, <4>3
      <3> QED BY <2>1, <2>3, <3>2
    <2>6. q \o Append(p, x) = Append(q \o p, x) /\ q \o p \in Seq(A)
      <3>1. <<x>> \in Seq(A)
        BY <2>3
      <3>2. (q \o p) \o <<x>> = q \o (p \o <<x>>)
        <4>1. PICK w : w = <<x>>
          OBVIOUS
        <4>2. q \in Seq(A) /\ p \in Seq(A) /\ w \in Seq(A)
          BY <2>3, <3>1, <4>1
        <4>3. Regroups(q, p, w)
          BY <4>2, RegroupLemma
        <4> QED BY <4>1, <4>3 DEF Regroups
      <3>3. q \o p \in Seq(A)
        BY <2>3, ConcatProperties
      <3>4. p \o <<x>> = Append(p, x) /\ (q \o p) \o <<x>> = Append(q \o p, x)
        BY <2>3, <3>3
      <3> QED BY <3>2, <3>3, <3>4
    <2>7. Flat(Append(q \o p, x), f) = Flat(q \o p, f) \o f[x] /\ Flat(Append(p, x), f) = Flat(p, f) \o f[x]
      BY <2>3, <2>6, FlatAppend
    <2>8. (Flat(q, f) \o Flat(p, f)) \o f[x] = Flat(q, f) \o (Flat(p, f) \o f[x])
      <3>1. Flat(q, f) \in Seq(Nat) /\ Flat(p, f) \in Seq(Nat) /\ f[x] \in Seq(Nat)
        BY <2>3, FlatTyped
      <3> QED BY <3>1, NumbersAssociative
    <2> QED BY <1>6, <2>4, <2>5, <2>6, <2>7, <2>8
  <1> QED BY <1>7, <1>8

-----------------------------------------------------------------------------
(* Sequences of numbers.                                                   *)
Elems(p) == {p[i] : i \in 1..Len(p)}
Rising(p) == \A i, j \in 1..Len(p) : i < j => p[i] < p[j]
Below(A, B) == \A x \in A, y \in B : x < y
FirstInOrder(s) ==
    \A i \in 1..Len(s) : (\A j \in 1..(i - 1) : s[j] # s[i]) => \A j \in 1..(i - 1) : s[j] < s[i]

Joined(p, q, r, m, n) ==
    /\ r \in Seq(Nat) /\ Len(r) = m + n /\ m \in Nat /\ n \in Nat
    /\ \A i \in 1..m : r[i] = p[i] /\ p[i] \in Nat /\ i \in 1..Len(r)
    /\ \A i \in 1..n : r[m + i] = q[i] /\ q[i] \in Nat /\ m + i \in 1..Len(r)
    /\ \A i \in 1..Len(r) : i \in 1..m \/ \E j \in 1..n : i = m + j

LEMMA JoinFacts ==
    ASSUME NEW p \in Seq(Nat), NEW q \in Seq(Nat), NEW r, r = p \o q
    PROVE  Joined(p, q, r, Len(p), Len(q))
  <1>1. PICK m, n : m = Len(p) /\ n = Len(q)
    OBVIOUS
  <1>2. m \in Nat /\ n \in Nat /\ r \in Seq(Nat) /\ Len(r) = m + n
    BY <1>1, ConcatProperties
  <1>3. \A i \in 1..(m + n) : r[i] = IF i <= m THEN p[i] ELSE q[i - m]
    BY <1>1, ConcatProperties
  <1>4. /\ \A i \in 1..m : p[i] \in Nat
        /\ \A i \in 1..n : q[i] \in Nat
    BY <1>1
  <1>5. \A i \in 1..m : i \in 1..(m + n) /\ i <= m
    BY <1>2
  <1>6. \A i \in 1..n : m + i \in 1..(m + n) /\ ~(m + i <= m) /\ (m + i) - m = i
    BY <1>2
  <1>7. \A i \in 1..(m + n) : i \in 1..m \/ \E j \in 1..n : i = m + j
    <2> TAKE i \in 1..(m + n)
    <2>1. ASSUME i \notin 1..m PROVE i - m \in 1..n /\ i = m + (i - m)
      BY <1>2, <2>1
    <2> QED BY <2>1
  <1>8. \A i \in 1..m : r[i] = p[i]
    BY <1>3, <1>5
  <1>9. \A i \in 1..n : r[m + i] = q[i]
    BY <1>3, <1>6
  <1> QED BY <1>1, <1>2, <1>4, <1>5, <1>6, <1>7, <1>8, <1>9 DEF Joined

LEMMA ElemsFacts ==
    ASSUME NEW p \in Seq(Nat), NEW q \in Seq(Nat)
    PROVE  Elems(p \o q) = Elems(p) \cup Elems(q) /\ Elems(p) \subseteq Nat
  <1>1. PICK r : r = p \o q
    OBVIOUS
  <1>2. /\ \A i \in 1..Len(p) : r[i] = p[i] /\ p[i] \in Nat /\ i \in 1..Len(r)
        /\ \A i \in 1..Len(q) : r[Len(p) + i] = q[i] /\ q[i] \in Nat /\ Len(p) + i \in 1..Len(r)
        /\ \A i \in 1..Len(r) : i \in 1..Len(p) \/ \E j \in 1..Len(q) : i = Len(p) + j
    <2>1. Joined(p, q, r, Len(p), Len(q))
      BY <1>1, JoinFacts
    <2> QED BY <2>1, Zenon DEF Joined
  <1>3. ASSUME NEW x \in Elems(r) PROVE x \in Elems(p) \cup Elems(q)
    <2>1. PICK i : i \in 1..Len(r) /\ x = r[i]
      BY DEF Elems
    <2> QED BY <1>2, <2>1 DEF Elems
  <1>4. ASSUME NEW x \in Elems(p) \cup Elems(q) PROVE x \in Elems(r)
    <2>1. ASSUME x \in Elems(p) PROVE x \in Elems(r)
      BY <1>2, <2>1 DEF Elems
    <2>2. ASSUME x \in Elems(q) PROVE x \in Elems(r)
      <3>1. PICK i : i \in 1..Len(q) /\ x = q[i]
        BY <2>2 DEF Elems
      <3> QED BY <1>2, <3>1 DEF Elems
    <2> QED BY <2>1, <2>2
  <1>5. Elems(p) \subseteq Nat
    BY <1>2 DEF Elems
  <1> QED BY <1>1, <1>3, <1>4, <1>5

LEMMA ElemsOne == ASSUME NEW x PROVE Elems(<<x>>) = {x} /\ Elems(<<>>) = {} /\ Rising(<<x>>) /\ Rising(<<>>)
  BY DEF Elems, Rising

LEMMA RisingSplit ==
    ASSUME NEW p \in Seq(Nat), NEW q \in Seq(Nat), Rising(p \o q)
    PROVE  Rising(p) /\ Rising(q) /\ Below(Elems(p), Elems(q))
  <1>1. PICK r, m, n : r = p \o q /\ m = Len(p) /\ n = Len(q)
    OBVIOUS
  <1>2. /\ m \in Nat /\ n \in Nat
        /\ \A i \in 1..m : r[i] = p[i] /\ p[i] \in Nat /\ i \in 1..Len(r)
        /\ \A i \in 1..n : r[m + i] = q[i] /\ q[i] \in Nat /\ m + i \in 1..Len(r)
    <2>1. Joined(p, q, r, m, n)
      BY <1>1, JoinFacts
    <2> QED BY <2>1, Zenon DEF Joined
  <1>3. \A i, j \in 1..Len(r) : i < j => r[i] < r[j]
    BY <1>1 DEF Rising
  <1>4. Rising(p)
    BY <1>1, <1>2, <1>3 DEF Rising
  <1>5. Rising(q)
    <2>1. \A i, j \in 1..n : i < j => m + i < m + j
      BY <1>2
    <2> QED BY <1>1, <1>2, <1>3, <2>1 DEF Rising
  <1>6. Below(Elems(p), Elems(q))
    <2>1. \A i \in 1..m, j \in 1..n : i < m + j
      BY <1>2
    <2>2. \A i \in 1..m, j \in 1..n : p[i] < q[j]
      BY <1>2, <1>3, <2>1
    <2> QED BY <1>1, <2>2 DEF Below, Elems
  <1> QED BY <1>4, <1>5, <1>6

LEMMA RisingJoin ==
    ASSUME NEW p \in Seq(Nat), NEW q \in Seq(Nat), Rising(p), Rising(q), Below(Elems(p), Elems(q))
    PROVE  Rising(p \o q)
  <1>1. PICK r, m, n : r = p \o q /\ m = Len(p) /\ n = Len(q)
    OBVIOUS
  <1>2. /\ m \in Nat /\ n \in Nat
        /\ \A i \in 1..m : r[i] = p[i] /\ p[i] \in Nat
        /\ \A i \in 1..n : r[m + i] = q[i] /\ q[i] \in Nat
        /\ \A i \in 1..Len(r) : i \in 1..m \/ \E j \in 1..n : i = m + j
    <2>1. Joined(p, q, r, m, n)
      BY <1>1, JoinFacts
    <2> QED BY <2>1, Zenon DEF Joined
  <1>3. ASSUME NEW i \in 1..Len(r), NEW j \in 1..Len(r), i < j PROVE r[i] < r[j]
    <2>1. CASE i \in 1..m /\ j \in 1..m
      BY <1>1, <1>2, <1>3, <2>1 DEF Rising
    <2>2. CASE i \in 1..m /\ j \notin 1..m
      <3>1. PICK k : k \in 1..n /\ j = m + k
        BY <1>2, <2>2
      <3>2. p[i] < q[k]
        <4>1. p[i] \in Elems(p) /\ q[k] \in Elems(q)
          BY <1>1, <2>2, <3>1 DEF Elems
        <4> QED BY <4>1 DEF Below
      <3> QED BY <1>2, <2>2, <3>1, <3>2
    <2>3. CASE i \notin 1..m
      <3>1. PICK h : h \in 1..n /\ i = m + h
        BY <1>2, <2>3
      <3>2. j \notin 1..m
        BY <1>2, <1>3, <3>1
      <3>3. PICK k : k \in 1..n /\ j = m + k
        BY <1>2, <3>2
      <3>4. h < k
        BY <1>2, <1>3, <3>1, <3>3
      <3>5. q[h] < q[k]
        BY <1>1, <3>1, <3>3, <3>4 DEF Rising
      <3> QED BY <1>2, <3>1, <3>3, <3>5
    <2> QED BY <2>1, <2>2, <2>3
  <1> QED BY <1>1, <1>3 DEF Rising

(* What is appended is in order, and known already or later than all.      *)
LEMMA FirstJoin ==
    ASSUME NEW s \in Seq(Nat), NEW x \in Seq(Nat), FirstInOrder(s), Rising(x),
           \A y \in Elems(x) : y \in Elems(s) \/ \A z \in Elems(s) : z < y
    PROVE  FirstInOrder(s \o x)
  <1>1. PICK r, m, n : r = s \o x /\ m = Len(s) /\ n = Len(x)
    OBVIOUS
  <1>2. /\ m \in Nat /\ n \in Nat
        /\ \A i \in 1..m : r[i] = s[i] /\ s[i] \in Nat
        /\ \A i \in 1..n : r[m + i] = x[i] /\ x[i] \in Nat
        /\ \A i \in 1..Len(r) : i \in 1..m \/ \E j \in 1..n : i = m + j
    <2>1. Joined(s, x, r, m, n)
      BY <1>1, JoinFacts
    <2> QED BY <2>1, Zenon DEF Joined
  <1>3. ASSUME NEW i \in 1..Len(r), \A j \in 1..(i - 1) : r[j] # r[i], NEW j \in 1..(i - 1)
        PROVE  r[j] < r[i]
    <2>1. CASE i \in 1..m
      <3>1. \A k \in 1..(i - 1) : k \in 1..m
        BY <1>2, <2>1
      <3>2. \A k \in 1..(i - 1) : s[k] # s[i]
        BY <1>2, <1>3, <2>1, <3>1
      <3>3. s[j] < s[i]
        BY <1>1, <1>3, <2>1, <3>2 DEF FirstInOrder
      <3> QED BY <1>2, <1>3, <2>1, <3>1, <3>3
    <2>2. CASE i \notin 1..m
      <3>1. PICK k : k \in 1..n /\ i = m + k
        BY <1>2, <2>2
      <3>2. r[i] = x[k] /\ x[k] \in Elems(x)
        BY <1>1, <1>2, <3>1 DEF Elems
      <3>3. \A h \in 1..m : h \in 1..(i - 1)
        BY <1>2, <3>1
      <3>4. x[k] \notin Elems(s)
        <4>1. SUFFICES ASSUME NEW h \in 1..m, x[k] = s[h] PROVE FALSE
          BY <1>1 DEF Elems
        <4> QED BY <1>2, <1>3, <3>2, <3>3, <4>1
      <3>5. \A z \in Elems(s) : z < x[k]
        BY <3>2, <3>4
      <3>6. CASE j \in 1..m
        BY <1>1, <1>2, <3>2, <3>5, <3>6 DEF Elems
      <3>7. CASE j \notin 1..m
        <4>0. j \in 1..Len(r)
          BY <1>3
        <4>1. PICK h : h \in 1..n /\ j = m + h
          BY <1>2, <3>7, <4>0
        <4>2. h < k
          BY <1>2, <1>3, <3>1, <4>1
        <4>3. x[h] < x[k]
          BY <1>1, <3>1, <4>1, <4>2 DEF Rising
        <4> QED BY <1>2, <3>2, <4>1, <4>3
      <3> QED BY <3>6, <3>7
    <2> QED BY <2>1, <2>2
  <1> QED BY <1>1, <1>3 DEF FirstInOrder

-----------------------------------------------------------------------------
(* The account of the two paths.  s is on the screen; p is on its way in   *)
(* messages, or in the open segment; b is in the stream and its preview; n *)
(* is the last number given.  What the stream holds is on the screen or in *)
(* a message too, unless a cancel dropped the message: then it is later    *)
(* than anything else.                                                     *)
Account(s, p, b, n, acc, live, safe) ==
    /\ s \in Seq(Nat) /\ p \in Seq(Nat) /\ b \in Seq(Nat) /\ n \in Nat
    /\ Rising(p) /\ Rising(b) /\ FirstInOrder(s)
    /\ Elems(s) \cup Elems(p) \cup Elems(b) \subseteq 1..n
    /\ Below(Elems(s), Elems(p))
    /\ \A y \in Elems(b) : \/ y \in Elems(s) \cup Elems(p)
                           \/ ~live /\ \A x \in Elems(s) \cup Elems(p) : x < y
    /\ safe => acc \subseteq Elems(s) \cup Elems(p)

(* A message reaches the screen, and the stream may lose some of its text. *)
LEMMA AccShow ==
    ASSUME NEW s, NEW x \in Seq(Nat), NEW p \in Seq(Nat), NEW b, NEW c \in Seq(Nat), NEW n, NEW acc,
           NEW live, NEW safe, Account(s, x \o p, b, n, acc, live, safe), Rising(c), Elems(c) \subseteq Elems(b)
    PROVE  Account(s \o x, p, c, n, acc, live, safe)
  <1>1. PICK S, X, P, B, C : S = Elems(s) /\ X = Elems(x) /\ P = Elems(p) /\ B = Elems(b) /\ C = Elems(c)
    OBVIOUS
  <1>2. s \in Seq(Nat) /\ n \in Nat /\ FirstInOrder(s) /\ Rising(x \o p) /\ Below(S, Elems(x \o p))
    BY <1>1 DEF Account
  <1>3. Elems(x \o p) = X \cup P /\ Elems(s \o x) = S \cup X /\ S \subseteq Nat
    BY <1>1, <1>2, ElemsFacts
  <1>4. Rising(p) /\ Rising(x) /\ Below(X, P)
    BY <1>1, <1>2, RisingSplit
  <1>5. /\ S \cup X \cup P \cup B \subseteq 1..n
        /\ \A y \in B : y \in S \cup X \cup P \/ (~live /\ \A z \in S \cup X \cup P : z < y)
        /\ safe => acc \subseteq S \cup X \cup P
    <2>1. S \cup (X \cup P) = S \cup X \cup P
      OBVIOUS
    <2> QED BY <1>1, <1>3, <2>1 DEF Account
  <1>6. Below(S \cup X, P) /\ Below(S, X)
    BY <1>2, <1>3, <1>4 DEF Below
  <1>7. FirstInOrder(s \o x)
    <2>1. \A y \in X : \A z \in S : z < y
      BY <1>6 DEF Below
    <2> QED BY <1>1, <1>2, <1>4, <2>1, FirstJoin
  <1>8. s \o x \in Seq(Nat)
    BY <1>2, ConcatProperties
  <1> QED BY <1>1, <1>2, <1>3, <1>4, <1>5, <1>6, <1>7, <1>8 DEF Account

(* A message is dropped together with all that come after it.              *)
LEMMA AccDrop ==
    ASSUME NEW s, NEW p \in Seq(Nat), NEW d \in Seq(Nat), NEW b, NEW n, NEW acc,
           Account(s, p \o d, b, n, acc, TRUE, FALSE)
    PROVE  Account(s, p, b, n, acc, FALSE, FALSE)
  <1>1. PICK S, P, D, B : S = Elems(s) /\ P = Elems(p) /\ D = Elems(d) /\ B = Elems(b)
    OBVIOUS
  <1>2. /\ s \in Seq(Nat) /\ b \in Seq(Nat) /\ n \in Nat /\ FirstInOrder(s) /\ Rising(b)
        /\ Rising(p \o d) /\ Below(S, Elems(p \o d))
    BY <1>1 DEF Account
  <1>3. Elems(p \o d) = P \cup D
    BY <1>1, ElemsFacts
  <1>4. Rising(p) /\ Below(P, D)
    BY <1>1, <1>2, RisingSplit
  <1>5. S \cup P \cup B \subseteq 1..n /\ B \subseteq S \cup P \cup D
    BY <1>1, <1>3 DEF Account
  <1>6. Below(S, P) /\ Below(S, D)
    BY <1>2, <1>3 DEF Below
  <1>7. \A y \in B : y \in S \cup P \/ \A x \in S \cup P : x < y
    BY <1>4, <1>5, <1>6 DEF Below
  <1> QED BY <1>1, <1>2, <1>4, <1>5, <1>6, <1>7 DEF Account

(* A new number.                                                           *)
LEMMA AccNew ==
    ASSUME NEW s, NEW p, NEW b, NEW c, NEW n, NEW acc, NEW more, NEW safe, NEW m,
           Account(s, p, b, n, acc, TRUE, safe), m = n + 1,
           c \in {b, b \o <<m>>}, more \subseteq acc \cup {m}
    PROVE  Account(s, p \o <<m>>, c, m, more, TRUE, safe)
  <1>1. PICK S, P, B : S = Elems(s) /\ P = Elems(p) /\ B = Elems(b)
    OBVIOUS
  <1>2. /\ s \in Seq(Nat) /\ p \in Seq(Nat) /\ b \in Seq(Nat) /\ n \in Nat /\ FirstInOrder(s)
        /\ Rising(b) /\ Rising(p) /\ Below(S, P)
        /\ S \cup P \cup B \subseteq 1..n /\ B \subseteq S \cup P
        /\ safe => acc \subseteq S \cup P
    BY <1>1 DEF Account
  <1>3. m \in Nat /\ <<m>> \in Seq(Nat) /\ Elems(<<m>>) = {m} /\ Rising(<<m>>)
    <2>1. m \in Nat /\ <<m>> \in Seq(Nat)
      BY <1>2
    <2> QED BY <2>1, ElemsOne
  <1>4. \A x \in S \cup P \cup B : x < m
    BY <1>2
  <1>5. /\ p \o <<m>> \in Seq(Nat) /\ Elems(p \o <<m>>) = P \cup {m}
        /\ b \o <<m>> \in Seq(Nat) /\ Elems(b \o <<m>>) = B \cup {m}
    <2>1. PICK w : w = <<m>>
      OBVIOUS
    <2>2. p \in Seq(Nat) /\ b \in Seq(Nat) /\ w \in Seq(Nat) /\ Elems(w) = {m}
      BY <1>2, <1>3, <2>1
    <2>3. p \o w \in Seq(Nat) /\ b \o w \in Seq(Nat)
      BY <2>2, ConcatProperties
    <2>4. Elems(p \o w) = Elems(p) \cup Elems(w) /\ Elems(b \o w) = Elems(b) \cup Elems(w)
      BY <2>2, ElemsFacts
    <2> QED BY <1>1, <2>1, <2>2, <2>3, <2>4
  <1>6. Below(P, {m}) /\ Below(B, {m}) /\ Below(S, P \cup {m})
    BY <1>2, <1>4 DEF Below
  <1>7. Rising(p \o <<m>>) /\ Rising(b \o <<m>>)
    BY <1>1, <1>2, <1>3, <1>6, RisingJoin
  <1>8. PICK C : C = Elems(c)
    OBVIOUS
  <1>9. c \in Seq(Nat) /\ Rising(c) /\ C \subseteq B \cup {m}
    BY <1>1, <1>2, <1>5, <1>7, <1>8
  <1>10. S \cup (P \cup {m}) \cup C \subseteq 1..m
    <2>1. 1..n \subseteq 1..m /\ m \in 1..m
      BY <1>2, <1>3
    <2> QED BY <1>2, <1>9, <2>1
  <1>11. C \subseteq S \cup (P \cup {m}) /\ (safe => more \subseteq S \cup (P \cup {m}))
    BY <1>2, <1>9
  <1> QED BY <1>1, <1>2, <1>3, <1>5, <1>6, <1>7, <1>8, <1>9, <1>10, <1>11 DEF Account

(* The end of a run: what is left of the stream goes to the screen.        *)
LEMMA AccEnd ==
    ASSUME NEW s, NEW r \in Seq(Nat), NEW b \in Seq(Nat), NEW n, NEW acc, NEW safe,
           Account(s, <<>>, r \o b, n, acc, FALSE, safe)
    PROVE  Account(s \o r, <<>>, b, n, acc, FALSE, safe)
  <1>1. PICK S, R, B : S = Elems(s) /\ R = Elems(r) /\ B = Elems(b)
    OBVIOUS
  <1>2. s \in Seq(Nat) /\ n \in Nat /\ FirstInOrder(s) /\ Rising(r \o b)
    BY DEF Account
  <1>3. Elems(r \o b) = R \cup B /\ Elems(s \o r) = S \cup R /\ Elems(<<>>) = {} /\ Rising(<<>>)
    BY <1>1, <1>2, ElemsFacts, ElemsOne
  <1>4. Rising(r) /\ Rising(b) /\ Below(R, B)
    BY <1>1, <1>2, RisingSplit
  <1>5. /\ S \cup R \cup B \subseteq 1..n
        /\ \A y \in R \cup B : y \in S \/ \A x \in S : x < y
        /\ safe => acc \subseteq S
    <2>1. S \cup {} = S
      OBVIOUS
    <2> QED BY <1>1, <1>3, <2>1 DEF Account
  <1>6. FirstInOrder(s \o r)
    <2>1. \A y \in R : y \in S \/ \A z \in S : z < y
      BY <1>5
    <2> QED BY <1>1, <1>2, <1>4, <2>1, FirstJoin
  <1>7. s \o r \in Seq(Nat) /\ <<>> \in Seq(Nat)
    BY <1>2, ConcatProperties
  <1>8. \A y \in B : y \in S \cup R \/ \A x \in S \cup R : x < y
    BY <1>4, <1>5 DEF Below
  <1>9. Below(S \cup R, {}) /\ (S \cup R) \cup {} = S \cup R
    BY DEF Below
  <1> QED BY <1>1, <1>2, <1>3, <1>4, <1>5, <1>6, <1>7, <1>8, <1>9 DEF Account

(* A number that is given to nothing, a cancel, the end of a producer.     *)
LEMMA AccWeaken ==
    ASSUME NEW s, NEW p, NEW b, NEW n, NEW acc, NEW live, NEW safe, NEW m \in Nat, NEW more, NEW live2, NEW safe2,
           Account(s, p, b, n, acc, live, safe), n <= m, more \subseteq acc,
           live2 => live, safe2 => safe
    PROVE  Account(s, p, b, m, more, live2, safe2)
  <1>1. 1..n \subseteq 1..m
    BY DEF Account
  <1>2. Elems(s) \cup Elems(p) \cup Elems(b) \subseteq 1..m
    BY <1>1 DEF Account
  <1> QED BY <1>2 DEF Account

(* A new stream.                                                           *)
LEMMA AccFresh ==
    ASSUME NEW s, NEW p, NEW b, NEW n, NEW acc, NEW live, NEW safe, NEW live2,
           Account(s, p, b, n, acc, live, safe)
    PROVE  Account(s, p, <<>>, n, acc, live2, safe)
  <1>1. Elems(<<>>) = {} /\ Rising(<<>>) /\ <<>> \in Seq(Nat)
    BY DEF Elems, Rising
  <1>2. Elems(s) \cup Elems(p) \cup {} \subseteq 1..n
    BY DEF Account
  <1> QED BY <1>1, <1>2 DEF Account

-----------------------------------------------------------------------------
(* The numbers of a text, of a message, of a node and of a block.          *)
IdsOf(text) == [i \in DOMAIN text |-> text[i].id]
MsgIds(m) == IF m.t = "sealed" THEN IdsOf(m.text) ELSE IF m.t = "toolUse" THEN <<m.id>> ELSE <<>>
NodeIds(x) == IF x.n = "text" THEN IdsOf(x.text) ELSE IF x.n = "tool" THEN <<x.id>> ELSE <<>>
MsgFun == [m \in Msgs |-> MsgIds(m)]
NodeFun == [x \in Nodes |-> NodeIds(x)]
BlockFun == [b \in Blocks |-> IdsOf(b.text)]

LEMMA IdsFacts ==
    ASSUME NEW text \in Seq(Toks)
    PROVE  /\ IdsOf(text) \in Seq(Nat)
           /\ \A t \in Toks : IdsOf(Append(text, t)) = IdsOf(text) \o <<t.id>>
  <1>1. PICK n, x : n = Len(text) /\ x = IdsOf(text)
    OBVIOUS
  <1>2. n \in Nat /\ DOMAIN text = 1..n /\ \A i \in 1..n : text[i] \in Toks /\ text[i].id \in Nat
    <2>1. \A t \in Toks : t.id \in Nat
      BY DEF Toks
    <2> QED BY <1>1, <2>1
  <1>3. x \in Seq(Nat) /\ Len(x) = n /\ \A i \in 1..n : x[i] = text[i].id
    BY <1>1, <1>2 DEF IdsOf
  <1>4. ASSUME NEW t \in Toks PROVE IdsOf(Append(text, t)) = x \o <<t.id>>
    <2>1. PICK k, w, y, z : k = t.id /\ w = Append(text, t) /\ y = IdsOf(w) /\ z = Append(x, k)
      OBVIOUS
    <2>2. k \in Nat
      BY <2>1 DEF Toks
    <2>3. w \in Seq(Toks) /\ DOMAIN w = 1..(n + 1) /\ w[n + 1] = t /\ \A i \in 1..n : w[i] = text[i]
      BY <1>1, <1>2, <2>1, AppendProperties
    <2>4. \A i \in 1..(n + 1) : i \in 1..n \/ i = n + 1
      BY <1>2
    <2>5. \A i \in 1..(n + 1) : w[i].id \in Nat
      BY <1>2, <2>1, <2>2, <2>3, <2>4
    <2>6. y \in Seq(Nat) /\ Len(y) = n + 1 /\ \A i \in 1..(n + 1) : y[i] = w[i].id
      BY <1>2, <2>1, <2>3, <2>5 DEF IdsOf
    <2>7. z \in Seq(Nat) /\ Len(z) = n + 1 /\ z[n + 1] = k /\ \A i \in 1..n : z[i] = x[i]
      BY <1>2, <1>3, <2>1, <2>2, AppendProperties
    <2>8. \A i \in 1..Len(y) : y[i] = z[i]
      <3>1. ASSUME NEW i \in 1..n PROVE y[i] = z[i]
        <4>1. i \in 1..(n + 1)
          BY <1>2
        <4> QED BY <1>3, <2>3, <2>6, <2>7, <4>1
      <3>2. y[n + 1] = z[n + 1]
        <4>1. n + 1 \in 1..(n + 1)
          BY <1>2
        <4> QED BY <2>1, <2>3, <2>6, <2>7, <4>1
      <3> QED BY <2>4, <2>6, <3>1, <3>2
    <2>9. y = z
      BY <2>6, <2>7, <2>8, SeqEqual
    <2>10. x \o <<k>> = Append(x, k)
      BY <1>3, <2>2
    <2> QED BY <2>1, <2>9, <2>10
  <1> QED BY <1>1, <1>3, <1>4

LEMMA IdsEmpty == IdsOf(<<>>) = <<>>
  BY DEF IdsOf

LEMMA FunTypes ==
    MsgFun \in [Msgs -> Seq(Nat)] /\ NodeFun \in [Nodes -> Seq(Nat)] /\ BlockFun \in [Blocks -> Seq(Nat)]
  <1>1. ASSUME NEW m \in Msgs PROVE MsgIds(m) \in Seq(Nat)
    <2>1. m.t = "sealed" => IdsOf(m.text) \in Seq(Nat)
      BY MsgFields, IdsFacts
    <2>2. m.t = "toolUse" => <<m.id>> \in Seq(Nat)
      BY MsgFields
    <2>3. <<>> \in Seq(Nat)
      OBVIOUS
    <2> QED BY <2>1, <2>2, <2>3 DEF MsgIds
  <1>2. ASSUME NEW x \in Nodes PROVE NodeIds(x) \in Seq(Nat)
    <2>1. x.n = "text" => x.text \in Seq(Toks)
      BY DEF Nodes
    <2>2. x.n = "text" => IdsOf(x.text) \in Seq(Nat)
      BY <2>1, IdsFacts
    <2>3. x.n = "tool" => <<x.id>> \in Seq(Nat)
      BY NodeFields
    <2>4. <<>> \in Seq(Nat)
      OBVIOUS
    <2> QED BY <2>2, <2>3, <2>4 DEF NodeIds
  <1>3. ASSUME NEW b \in Blocks PROVE IdsOf(b.text) \in Seq(Nat)
    <2>1. b.text \in Seq(Toks)
      BY DEF Blocks
    <2> QED BY <2>1, IdsFacts
  <1> QED BY <1>1, <1>2, <1>3 DEF MsgFun, NodeFun, BlockFun

-----------------------------------------------------------------------------
(* What the stream holds, and what waits in its channel.                   *)
Held(s) == Flat(s.emitted, BlockFun) \o IdsOf(s.lineBuf)
Queue(s) == [i \in DOMAIN s.tokens |-> s.tokens[i].token.id]

LEMMA HeldTyped ==
    ASSUME NEW s \in Streams
    PROVE  Held(s) \in Seq(Nat) /\ Flat(s.emitted, BlockFun) \in Seq(Nat) /\ IdsOf(s.lineBuf) \in Seq(Nat)
  <1>1. s.emitted \in Seq(Blocks) /\ s.lineBuf \in Seq(Toks)
    BY DEF Streams
  <1>2. Flat(s.emitted, BlockFun) \in Seq(Nat) /\ IdsOf(s.lineBuf) \in Seq(Nat)
    BY <1>1, FlatTyped, IdsFacts, FunTypes
  <1> QED BY <1>2, ConcatProperties DEF Held

LEMMA HeldBlock ==
    ASSUME NEW bs \in Seq(Blocks), NEW b \in Blocks
    PROVE  Flat(Append(bs, b), BlockFun) = Flat(bs, BlockFun) \o IdsOf(b.text)
  <1>1. BlockFun[b] = IdsOf(b.text)
    BY DEF BlockFun
  <1> QED BY <1>1, FlatAppend, FunTypes

LEMMA HeldEmit ==
    ASSUME NEW s \in Streams, NEW trunc \in BOOLEAN, NEW cont \in BOOLEAN, NEW e, e = emitWholeBuffer(s, trunc, cont)
    PROVE  e \in Streams /\ Held(e) = Held(s) /\ e.tokens = s.tokens
  <1>1. e \in Streams
    BY EmitTyped
  <1>2. CASE s.lineBuf = <<>>
    BY <1>1, <1>2 DEF emitWholeBuffer
  <1>3. CASE s.lineBuf # <<>>
    <2>1. PICK b : b = [text |-> s.lineBuf, truncated |-> trunc, continued |-> cont, empty |-> FALSE]
      OBVIOUS
    <2>2. b \in Blocks /\ b.text = s.lineBuf /\ s.emitted \in Seq(Blocks)
      BY <2>1 DEF Streams, Blocks
    <2>3. e = [s EXCEPT !.lineBuf = <<>>, !.emitted = Append(s.emitted, b)]
      BY <1>3, <2>1 DEF emitWholeBuffer
    <2>4. e.lineBuf = <<>> /\ e.emitted = Append(s.emitted, b) /\ e.tokens = s.tokens
      BY <2>3 DEF Streams
    <2>5. Flat(e.emitted, BlockFun) = Held(s)
      BY <2>2, <2>4, HeldBlock DEF Held
    <2>6. Held(s) \o <<>> = Held(s)
      BY HeldTyped, ConcatEmptySeq
    <2>7. Held(e) = Held(s)
      BY <2>4, <2>5, <2>6, IdsEmpty DEF Held
    <2> QED BY <1>1, <2>4, <2>7
  <1> QED BY <1>2, <1>3

LEMMA HeldToken ==
    ASSUME NEW s \in Streams, NEW t \in Toks, NEW e, e = appendToken(s, t)
    PROVE  e \in Streams /\ Held(e) = Held(s) \o <<t.id>> /\ e.tokens = s.tokens
  <1>1. PICK inFence, w : /\ inFence = (s.openFence # (t.kind = "fence"))
                          /\ w = [s EXCEPT !.sawContent = TRUE, !.lineBuf = Append(s.lineBuf, t), !.openFence = inFence]
    OBVIOUS
  <1>2. inFence \in BOOLEAN /\ s.lineBuf \in Seq(Toks) /\ Append(s.lineBuf, t) \in Seq(Toks)
    BY <1>1 DEF Streams
  <1>3. w \in Streams /\ w.tokens = s.tokens /\ w.emitted = s.emitted /\ w.lineBuf = Append(s.lineBuf, t)
    BY <1>1, <1>2 DEF Streams
  <1>4. Held(w) = Held(s) \o <<t.id>>
    <2>1. IdsOf(w.lineBuf) = IdsOf(s.lineBuf) \o <<t.id>>
      BY <1>2, <1>3, IdsFacts
    <2>2. PICK a, b, c : a = Flat(s.emitted, BlockFun) /\ b = IdsOf(s.lineBuf) /\ c = <<t.id>>
      OBVIOUS
    <2>3. a \in Seq(Nat) /\ b \in Seq(Nat) /\ c \in Seq(Nat)
      BY <2>2, HeldTyped DEF Toks
    <2>4. (a \o b) \o c = a \o (b \o c)
      BY <2>3, NumbersAssociative
    <2> QED BY <1>3, <2>1, <2>2, <2>4 DEF Held
  <1>5. e = w \/ \E b \in BOOLEAN : e = emitWholeBuffer(w, FALSE, b)
    <2>1. e = CASE inFence /\ Len(w.lineBuf) > LineBufCap -> emitWholeBuffer(w, FALSE, TRUE)
                [] inFence /\ Len(w.lineBuf) <= LineBufCap -> w
                [] ~inFence /\ t.kind = "fence" -> emitWholeBuffer(w, FALSE, FALSE)
                [] OTHER -> tryEmitLines(w)
      BY <1>1 DEF appendToken
    <2>2. tryEmitLines(w) = w \/ \E b \in BOOLEAN : tryEmitLines(w) = emitWholeBuffer(w, FALSE, b)
      BY DEF tryEmitLines
    <2> QED BY <2>1, <2>2
  <1> QED BY <1>3, <1>4, <1>5, HeldEmit

LEMMA HeldFlush ==
    ASSUME NEW s \in Streams, NEW trunc \in BOOLEAN, NEW e, e = flushPartial(s, trunc)
    PROVE  e \in Streams /\ Held(e) = Held(s) /\ e.tokens = s.tokens
  <1>1. PICK f, b : /\ f = emitWholeBuffer(s, trunc, FALSE)
                    /\ b = [text |-> <<>>, truncated |-> FALSE, continued |-> FALSE, empty |-> TRUE]
    OBVIOUS
  <1>2. f \in Streams /\ Held(f) = Held(s) /\ f.tokens = s.tokens
    BY <1>1, HeldEmit
  <1>3. e \in Streams
    BY FlushTyped
  <1>4. e = f \/ e = [f EXCEPT !.emitted = Append(f.emitted, b)]
    BY <1>1 DEF flushPartial
  <1>5. ASSUME e = [f EXCEPT !.emitted = Append(f.emitted, b)] PROVE Held(e) = Held(f) /\ e.tokens = f.tokens
    <2>1. e.emitted = Append(f.emitted, b) /\ e.lineBuf = f.lineBuf /\ e.tokens = f.tokens
      BY <1>2, <1>5 DEF Streams
    <2>2. b \in Blocks /\ b.text = <<>> /\ f.emitted \in Seq(Blocks)
      <3>1. <<>> \in Seq(Toks)
        OBVIOUS
      <3> QED BY <1>1, <1>2, <3>1 DEF Blocks, Streams
    <2>3. Flat(e.emitted, BlockFun) = Flat(f.emitted, BlockFun) \o <<>>
      BY <2>1, <2>2, HeldBlock, IdsEmpty
    <2>4. Flat(f.emitted, BlockFun) \o <<>> = Flat(f.emitted, BlockFun)
      BY <1>2, HeldTyped, ConcatEmptySeq
    <2> QED BY <2>1, <2>3, <2>4 DEF Held
  <1> QED BY <1>2, <1>3, <1>4, <1>5

LEMMA HeldChunk ==
    ASSUME NEW s \in Streams, NEW c \in Chunks, c.token # NoToken, NEW e, e = processChunk(s, c)
    PROVE  e \in Streams /\ Held(e) = Held(s) \o <<c.token.id>> /\ e.tokens = s.tokens
  <1>1. PICK w, trunc : w = appendToken(s, c.token) /\ trunc = (c.finish \in {"Length", "Error"})
    OBVIOUS
  <1>2. c.token \in Toks /\ c.finish \in Ends /\ trunc \in BOOLEAN
    BY <1>1 DEF Chunks
  <1>3. w \in Streams /\ Held(w) = Held(s) \o <<c.token.id>> /\ w.tokens = s.tokens
    BY <1>1, <1>2, HeldToken
  <1>4. CASE c.finish = "Unset"
    BY <1>1, <1>3, <1>4 DEF processChunk
  <1>5. CASE c.finish # "Unset"
    <2>1. PICK r : r = [w EXCEPT !.finish = c.finish]
      OBVIOUS
    <2>2. /\ r \in Streams /\ r.emitted = w.emitted /\ r.lineBuf = w.lineBuf /\ r.tokens = w.tokens
          /\ e = flushPartial(r, trunc)
      BY <1>1, <1>2, <1>3, <1>5, <2>1 DEF Streams, processChunk
    <2>3. e \in Streams /\ Held(e) = Held(r) /\ e.tokens = r.tokens
      BY <1>2, <2>2, HeldFlush
    <2> QED BY <1>3, <2>2, <2>3 DEF Held
  <1> QED BY <1>4, <1>5

LEMMA QueueTyped ==
    ASSUME NEW s \in Streams
    PROVE  Queue(s) \in Seq(Nat) /\ Len(Queue(s)) = Len(s.tokens)
           /\ \A i \in 1..Len(s.tokens) : Queue(s)[i] = s.tokens[i].token.id
  <1>1. PICK q, n : q = s.tokens /\ n = Len(q)
    OBVIOUS
  <1>2. q \in Seq(Chunks)
    BY <1>1 DEF Streams
  <1>3. n \in Nat /\ DOMAIN q = 1..n /\ \A i \in 1..n : q[i] \in Chunks
    BY <1>1, <1>2
  <1>4. \A i \in 1..n : q[i].token.id \in Nat
    BY <1>3 DEF Chunks, Toks
  <1>5. PICK z : z = [i \in 1..n |-> q[i].token.id]
    OBVIOUS
  <1>6. z \in Seq(Nat) /\ Len(z) = n /\ \A i \in 1..n : z[i] = q[i].token.id
    BY <1>3, <1>4, <1>5
  <1>7. Queue(s) = z
    BY <1>1, <1>3, <1>5 DEF Queue
  <1> QED BY <1>1, <1>6, <1>7

Real(s) == \A i \in 1..Len(s.tokens) : s.tokens[i].token # NoToken

LEMMA HeldDrain ==
    ASSUME NEW s \in Streams, Real(s)
    PROVE  /\ drainChunks(s) \in Streams /\ drainChunks(s).tokens = <<>>
           /\ Held(drainChunks(s)) = Held(s) \o Queue(s)
  <1>1. PICK q, N, z : q = s.tokens /\ N = Len(q) /\ z = Queue(s)
    OBVIOUS
  <1>2. PICK g : DrainChain(s, N, g)
    BY <1>1, DrainRun
  <1>3. q \in Seq(Chunks)
    BY <1>1 DEF Streams
  <1>4. N \in Nat /\ \A i \in 1..N : q[i] \in Chunks /\ q[i].token # NoToken
    BY <1>1, <1>3 DEF Real
  <1>5. z \in Seq(Nat) /\ Len(z) = N /\ \A i \in 1..N : z[i] = q[i].token.id
    BY <1>1, QueueTyped
  <1>6. /\ g[0] = s /\ \A n \in 0..N : g[n] \in Streams
        /\ \A n \in 1..N : g[n] = processChunk(g[n - 1], q[n])
        /\ drainChunks(s) = [g[N] EXCEPT !.tokens = <<>>]
    BY <1>1, <1>2 DEF DrainChain
  <1>7. Held(g[N]) = Held(s) \o z
    <2> DEFINE T == {m \in 0..N : Held(g[m]) # Held(s) \o SubSeq(z, 1, m)}
    <2>0. SubSeq(z, 1, N) = z /\ N \in 0..N
      BY <1>4, <1>5, SubSeqFull
    <2>1. SUFFICES ASSUME T # {} PROVE FALSE
      <3>1. ASSUME T = {} PROVE Held(g[N]) = Held(s) \o SubSeq(z, 1, N)
        BY <2>0, <3>1
      <3> QED BY <2>0, <3>1
    <2>2. T \subseteq Nat
      BY <1>4
    <2>3. PICK m \in T : \A k \in T : m <= k
      BY <2>1, <2>2, LeastNatural
    <2>4. m \in 0..N /\ Held(g[m]) # Held(s) \o SubSeq(z, 1, m)
      BY <2>3
    <2>5. CASE m = 0
      <3>1. SubSeq(z, 1, 0) = <<>>
        BY SubSeqEmpty
      <3>2. Held(s) \o <<>> = Held(s)
        BY HeldTyped, ConcatEmptySeq
      <3> QED BY <1>6, <2>4, <2>5, <3>1, <3>2
    <2>6. CASE m # 0
      <3>1. PICK n, e, d, c : n = m - 1 /\ e = g[n] /\ d = g[m] /\ c = q[m]
        OBVIOUS
      <3>2. n \in Nat /\ n \in 0..N /\ m \in 1..N /\ ~(m <= n) /\ m - 1 = n
        BY <1>4, <2>4, <2>6, <3>1
      <3>3. e \in Streams /\ c \in Chunks /\ c.token # NoToken /\ d = processChunk(e, c)
        BY <1>4, <1>6, <3>1, <3>2
      <3>4. Held(d) = Held(e) \o <<c.token.id>>
        BY <3>3, HeldChunk
      <3>5. Held(e) = Held(s) \o SubSeq(z, 1, n)
        BY <2>3, <3>1, <3>2
      <3>6. SubSeq(z, 1, m) = SubSeq(z, 1, n) \o <<z[m]>>
        <4>1. 1 \in 1..Len(z) /\ m \in 1..Len(z)
          BY <1>4, <1>5, <3>2
        <4> QED BY <1>5, <3>2, <4>1, SubSeqRecursiveSecond
      <3>7. z[m] = c.token.id /\ z[m] \in Nat
        BY <1>5, <3>1, <3>2
      <3>8. SubSeq(z, 1, n) \in Seq(Nat)
        <4>1. \A i \in 1..n : z[i] \in Nat
          BY <1>4, <1>5, <3>2
        <4> QED BY <3>2, <4>1, SubSeqProperties
      <3>9. (Held(s) \o SubSeq(z, 1, n)) \o <<z[m]>> = Held(s) \o (SubSeq(z, 1, n) \o <<z[m]>>)
        <4>1. Held(s) \in Seq(Nat) /\ <<z[m]>> \in Seq(Nat)
          BY <3>7, HeldTyped
        <4> QED BY <3>8, <4>1, NumbersAssociative
      <3> QED BY <2>4, <3>1, <3>4, <3>5, <3>6, <3>7, <3>9
    <2> QED BY <2>5, <2>6
  <1>8. PICK e, d : e = g[N] /\ d = [e EXCEPT !.tokens = <<>>]
    OBVIOUS
  <1>9. e \in Streams
    BY <1>4, <1>6, <1>8
  <1>10. d.emitted = e.emitted /\ d.lineBuf = e.lineBuf
    BY <1>8, <1>9 DEF Streams
  <1>11. Held(d) = Held(e) /\ drainChunks(s) = d
    BY <1>6, <1>8, <1>10 DEF Held
  <1> QED BY <1>1, <1>7, <1>8, <1>11, DrainTyped

(* A drain hands its blocks to the preview and keeps the open line.        *)
LEMMA DrainSplit ==
    ASSUME NEW s \in Streams, Real(s), NEW d, NEW e, d = drainChunks(s), e = afterDrain(s)
    PROVE  /\ e \in Streams /\ e.tokens = <<>> /\ d.emitted \in Seq(Blocks)
           /\ Flat(d.emitted, BlockFun) \in Seq(Nat)
           /\ Held(s) \o Queue(s) = Flat(d.emitted, BlockFun) \o (Held(e) \o Queue(e))
  <1>1. d \in Streams /\ d.tokens = <<>> /\ Held(d) = Held(s) \o Queue(s)
    BY HeldDrain
  <1>2. e \in Streams /\ e.tokens = <<>>
    BY DrainTyped
  <1>3. e = [d EXCEPT !.emitted = <<>>]
    BY DEF afterDrain
  <1>4. e.emitted = <<>> /\ e.lineBuf = d.lineBuf
    BY <1>1, <1>3 DEF Streams
  <1>5. Held(e) \o Queue(e) = IdsOf(d.lineBuf)
    <2>1. IdsOf(d.lineBuf) \in Seq(Nat)
      BY <1>1, HeldTyped
    <2>2. Flat(e.emitted, BlockFun) = <<>>
      BY <1>4, FlatEmpty
    <2>3. Queue(e) = <<>>
      BY <1>2 DEF Queue
    <2> QED BY <1>4, <2>1, <2>2, <2>3, ConcatEmptySeq DEF Held
  <1>6. d.emitted \in Seq(Blocks) /\ Flat(d.emitted, BlockFun) \in Seq(Nat)
    BY <1>1, HeldTyped DEF Streams
  <1> QED BY <1>1, <1>2, <1>5, <1>6 DEF Held

LEMMA HeldClose ==
    ASSUME NEW s \in Streams, Real(s), NEW e, e = afterClose(s)
    PROVE  e \in Streams /\ Real(e) /\ Held(e) \o Queue(e) = Held(s) \o Queue(s)
  <1>1. e \in Streams
    BY CloseTyped
  <1>2. CASE s.closed
    BY <1>1, <1>2 DEF afterClose
  <1>3. CASE ~s.closed
    <2>1. PICK r, d, f : /\ r = [s EXCEPT !.closed = TRUE] /\ d = drainChunks(r)
                         /\ f = IF d.finish = "Unset" THEN [d EXCEPT !.finish = "Cancelled"] ELSE d
      OBVIOUS
    <2>2. r \in Streams /\ r.tokens = s.tokens /\ r.emitted = s.emitted /\ r.lineBuf = s.lineBuf
      BY <2>1, StreamFields DEF Streams
    <2>3. Real(r) /\ Held(r) = Held(s) /\ Queue(r) = Queue(s)
      BY <2>2 DEF Real, Held, Queue
    <2>4. d \in Streams /\ d.tokens = <<>> /\ Held(d) = Held(s) \o Queue(s)
      BY <2>1, <2>2, <2>3, HeldDrain
    <2>5. f \in Streams /\ f.tokens = <<>> /\ f.emitted = d.emitted /\ f.lineBuf = d.lineBuf
      BY <2>1, <2>4, StreamFields DEF Streams
    <2>6. e = f \/ e = flushPartial(f, truncatedFinish(f))
      BY <1>3, <2>1 DEF afterClose, flushRest
    <2>7. truncatedFinish(f) \in BOOLEAN
      BY DEF truncatedFinish
    <2>8. Held(e) = Held(f) /\ e.tokens = f.tokens
      BY <2>5, <2>6, <2>7, HeldFlush
    <2>9. Held(e) = Held(s) \o Queue(s) /\ e.tokens = <<>>
      BY <2>4, <2>5, <2>8 DEF Held
    <2>10. Real(e) /\ Queue(e) = <<>>
      BY <2>9 DEF Real, Queue
    <2>11. Held(e) \o <<>> = Held(e)
      BY <1>1, HeldTyped, ConcatEmptySeq
    <2> QED BY <1>1, <2>9, <2>10, <2>11
  <1> QED BY <1>2, <1>3

-----------------------------------------------------------------------------
(* Where the numbers of the session are. *)
MsgsIds(q) == Flat(q, MsgFun)
NodesIds(q) == Flat(q, NodeFun)
Segment == IF prod = "run" THEN IdsOf(segBuf) ELSE <<>>
OnPath == MsgIds(inflight) \o (MsgsIds(ctrl) \o (MsgsIds(todo) \o Segment))
Streamed == NodesIds(previewNodes) \o (Held(ts) \o Queue(ts))

FlagType ==
    /\ finishHandled \in BOOLEAN /\ sawContent \in BOOLEAN /\ sawThinking \in BOOLEAN
    /\ sealedTruncated \in BOOLEAN /\ streaming \in BOOLEAN

(* The account of the session; the segment is empty once the finish is     *)
(* emitted, and a new run starts with an empty stream.                     *)
PathInv ==
    /\ Account(NodesIds(scrollback), OnPath, Streamed, stamp, accepted, prod = "run", cancelled = {})
    /\ prod = "run" /\ phase = "finished" => segBuf = <<>>
    /\ reader = "start" => Streamed = <<>>
    /\ FlagType

LEMMA MsgsFacts ==
    /\ MsgsIds(<<>>) = <<>> /\ MsgIds(NoMsg) = <<>> /\ MsgIds(Tick) = <<>> /\ MsgIds(Thinking) = <<>>
    /\ \A m \in Msgs : MsgIds(m) \in Seq(Nat) /\ MsgsIds(<<m>>) = MsgIds(m)
    /\ \A q \in Seq(Msgs) : MsgsIds(q) \in Seq(Nat)
    /\ \A q, r \in Seq(Msgs) : MsgsIds(q \o r) = MsgsIds(q) \o MsgsIds(r)
  <1>1. MsgsIds(<<>>) = <<>>
    BY FlatEmpty DEF MsgsIds
  <1>2. MsgIds(NoMsg) = <<>> /\ MsgIds(Tick) = <<>> /\ MsgIds(Thinking) = <<>>
    BY DEF MsgIds, NoMsg, Tick, Thinking
  <1>3. ASSUME NEW m \in Msgs PROVE MsgIds(m) \in Seq(Nat) /\ MsgsIds(<<m>>) = MsgIds(m)
    <2>1. MsgFun[m] = MsgIds(m) /\ MsgFun[m] \in Seq(Nat)
      BY FunTypes DEF MsgFun
    <2>2. Flat(<<m>>, MsgFun) = MsgFun[m]
      BY FlatOne, FunTypes
    <2> QED BY <2>1, <2>2 DEF MsgsIds
  <1>4. ASSUME NEW q \in Seq(Msgs) PROVE MsgsIds(q) \in Seq(Nat)
    BY FlatTyped, FunTypes DEF MsgsIds
  <1>5. ASSUME NEW q \in Seq(Msgs), NEW r \in Seq(Msgs) PROVE MsgsIds(q \o r) = MsgsIds(q) \o MsgsIds(r)
    BY FlatConcat, FunTypes DEF MsgsIds
  <1> QED BY <1>1, <1>2, <1>3, <1>4, <1>5

LEMMA NodesFacts ==
    /\ NodesIds(<<>>) = <<>>
    /\ \A q \in Seq(Nodes) : NodesIds(q) \in Seq(Nat)
    /\ \A q \in Seq(Nodes), x \in Nodes : NodesIds(Append(q, x)) = NodesIds(q) \o NodeIds(x)
    /\ \A q, r \in Seq(Nodes) : NodesIds(q \o r) = NodesIds(q) \o NodesIds(r)
  <1>1. NodesIds(<<>>) = <<>>
    BY FlatEmpty DEF NodesIds
  <1>2. ASSUME NEW q \in Seq(Nodes) PROVE NodesIds(q) \in Seq(Nat)
    BY FlatTyped, FunTypes DEF NodesIds
  <1>3. ASSUME NEW q \in Seq(Nodes), NEW x \in Nodes PROVE NodesIds(Append(q, x)) = NodesIds(q) \o NodeIds(x)
    <2>1. NodeFun[x] = NodeIds(x)
      BY DEF NodeFun
    <2>2. Flat(Append(q, x), NodeFun) = Flat(q, NodeFun) \o NodeFun[x]
      BY FlatAppend, FunTypes
    <2> QED BY <2>1, <2>2 DEF NodesIds
  <1>4. ASSUME NEW q \in Seq(Nodes), NEW r \in Seq(Nodes) PROVE NodesIds(q \o r) = NodesIds(q) \o NodesIds(r)
    BY FlatConcat, FunTypes DEF NodesIds
  <1> QED BY <1>1, <1>2, <1>3, <1>4

(* A node that carries no number.                                          *)
LEMMA NodesQuiet ==
    ASSUME NEW q \in Seq(Nodes), NEW x \in Nodes, x.n \in {"user", "result", "marker"}
    PROVE  NodesIds(Append(q, x)) = NodesIds(q)
  <1>1. NodeIds(x) = <<>>
    BY DEF NodeIds
  <1>2. NodesIds(q) \in Seq(Nat) /\ NodesIds(Append(q, x)) = NodesIds(q) \o <<>>
    BY <1>1, NodesFacts
  <1> QED BY <1>2, ConcatEmptySeq

(* Two sequences of records that stand for the same numbers.               *)
LEMMA FlatSame ==
    ASSUME NEW q, NEW r, NEW f, NEW g, DOMAIN q = DOMAIN r, \A i \in DOMAIN q : f[q[i]] = g[r[i]]
    PROVE  Flat(q, f) = Flat(r, g)
  <1>1. [i \in DOMAIN q |-> f[q[i]]] = [i \in DOMAIN r |-> g[r[i]]]
    OBVIOUS
  <1> QED BY <1>1 DEF Flat

LEMMA PreviewIds ==
    ASSUME NEW bs \in Seq(Blocks), run \in Nat
    PROVE  NodesIds(Preview(bs)) = Flat(bs, BlockFun)
  <1>1. PICK q : q = Preview(bs)
    OBVIOUS
  <1>2. DOMAIN q = DOMAIN bs /\ \A i \in DOMAIN bs : q[i] = TextNode(bs[i].text)
    BY <1>1 DEF Preview
  <1>3. ASSUME NEW i \in DOMAIN q PROVE NodeFun[q[i]] = BlockFun[bs[i]]
    <2>1. PICK b, x : b = bs[i] /\ x = b.text
      OBVIOUS
    <2>2. b \in Blocks
      BY <1>2, <2>1
    <2>3. x \in Seq(Toks)
      BY <2>1, <2>2 DEF Blocks
    <2>4. TextNode(x) \in Nodes /\ TextNode(x).n = "text"
      BY <2>3, NodeFacts
    <2>5. TextNode(x).text = x
      BY DEF TextNode
    <2>6. NodeFun[TextNode(x)] = IdsOf(x)
      BY <2>4, <2>5 DEF NodeFun, NodeIds
    <2>7. BlockFun[b] = IdsOf(x)
      BY <2>1, <2>2 DEF BlockFun
    <2> QED BY <1>2, <2>1, <2>6, <2>7
  <1>4. Flat(q, NodeFun) = Flat(bs, BlockFun)
    BY <1>2, <1>3, FlatSame
  <1> QED BY <1>1, <1>4 DEF NodesIds

LEMMA SettleIds ==
    ASSUME NEW sb \in Seq(Nodes), NEW id, NEW st \in {"error", "resolved"}
    PROVE  NodesIds(settle(sb, id, st)) = NodesIds(sb)
  <1>1. PICK q : q = settle(sb, id, st)
    OBVIOUS
  <1>2. DOMAIN q = DOMAIN sb
        /\ \A i \in DOMAIN sb : q[i] = IF sb[i].n = "tool" /\ sb[i].id = id THEN [sb[i] EXCEPT !.state = st] ELSE sb[i]
    BY <1>1 DEF settle
  <1>3. ASSUME NEW i \in DOMAIN q PROVE NodeFun[q[i]] = NodeFun[sb[i]]
    <2>1. PICK x : x = sb[i] /\ x \in Nodes
      BY <1>2
    <2>2. CASE x.n = "tool" /\ x.id = id
      <3>1. PICK y : y = [x EXCEPT !.state = st]
        OBVIOUS
      <3>2. y \in Nodes /\ y.n = "tool" /\ y.id = x.id
        BY <2>2, <2>1, <3>1, SettleNode
      <3>3. NodeIds(y) = NodeIds(x)
        BY <2>2, <3>2 DEF NodeIds
      <3> QED BY <1>2, <2>1, <2>2, <3>1, <3>2, <3>3 DEF NodeFun
    <2>3. CASE ~(x.n = "tool" /\ x.id = id)
      BY <1>2, <2>1, <2>3
    <2> QED BY <2>2, <2>3
  <1>4. Flat(q, NodeFun) = Flat(sb, NodeFun)
    BY <1>2, <1>3, FlatSame
  <1> QED BY <1>1, <1>4 DEF NodesIds

(* The messages of an emit: the sealed segment, then its own.              *)
LEMMA SealIds ==
    ASSUME segBuf \in Seq(Toks), NEW b \in BOOLEAN, NEW m \in Msgs
    PROVE  MsgsIds(seal(b) \o <<m>>) = IdsOf(segBuf) \o MsgIds(m)
  <1>1. <<m>> \in Seq(Msgs) /\ MsgIds(m) \in Seq(Nat) /\ MsgsIds(<<m>>) = MsgIds(m) /\ <<>> \in Seq(Msgs)
    BY MsgsFacts
  <1>2. seal(b) \in Seq(Msgs) /\ MsgsIds(seal(b)) = IdsOf(segBuf)
    <2>1. CASE segBuf = <<>>
      <3>1. seal(b) = <<>>
        BY <2>1 DEF seal
      <3> QED BY <1>1, <2>1, <3>1, MsgsFacts, IdsEmpty
    <2>2. CASE segBuf # <<>>
      <3>1. PICK x : x = Sealed(segBuf, b)
        OBVIOUS
      <3>2. x \in Msgs /\ x.t = "sealed" /\ x.text = segBuf
        BY <3>1, MsgFacts DEF Sealed
      <3>3. seal(b) = <<x>>
        BY <2>2, <3>1 DEF seal
      <3>4. MsgIds(x) = IdsOf(segBuf)
        BY <3>2 DEF MsgIds
      <3>5. <<x>> \in Seq(Msgs) /\ MsgsIds(<<x>>) = MsgIds(x)
        BY <3>2, MsgsFacts
      <3> QED BY <3>3, <3>4, <3>5
    <2> QED BY <2>1, <2>2
  <1>3. MsgsIds(seal(b) \o <<m>>) = MsgsIds(seal(b)) \o MsgsIds(<<m>>)
    BY <1>1, <1>2, MsgsFacts
  <1> QED BY <1>1, <1>2, <1>3

LEMMA PathTypes ==
    ASSUME ChatInv
    PROVE  /\ MsgIds(inflight) \in Seq(Nat) /\ MsgsIds(ctrl) \in Seq(Nat) /\ MsgsIds(todo) \in Seq(Nat)
           /\ IdsOf(segBuf) \in Seq(Nat) /\ Segment \in Seq(Nat)
           /\ NodesIds(previewNodes) \in Seq(Nat) /\ Held(ts) \in Seq(Nat) /\ Queue(ts) \in Seq(Nat)
           /\ NodesIds(scrollback) \in Seq(Nat) /\ run \in Nat /\ stamp \in Nat
           /\ ts \in Streams /\ ctrl \in Seq(Msgs) /\ todo \in Seq(Msgs) /\ segBuf \in Seq(Toks)
           /\ previewNodes \in Seq(Nodes) /\ scrollback \in Seq(Nodes)
  <1>1. /\ ts \in Streams /\ ctrl \in Seq(Msgs) /\ todo \in Seq(Msgs) /\ segBuf \in Seq(Toks)
        /\ previewNodes \in Seq(Nodes) /\ scrollback \in Seq(Nodes) /\ inflight \in Msgs \cup {NoMsg}
        /\ run \in Nat /\ stamp \in Nat
    BY SessionAssumption DEF ChatInv, CsTypeOK, ChanType, ProdType, UiType, RunType
  <1>2. <<>> \in Seq(Nat)
    OBVIOUS
  <1>3. MsgIds(inflight) \in Seq(Nat)
    BY <1>1, <1>2, MsgsFacts
  <1>4. IdsOf(segBuf) \in Seq(Nat) /\ Segment \in Seq(Nat)
    BY <1>1, <1>2, IdsFacts DEF Segment
  <1>5. MsgsIds(ctrl) \in Seq(Nat) /\ MsgsIds(todo) \in Seq(Nat)
    BY <1>1, MsgsFacts
  <1>6. NodesIds(previewNodes) \in Seq(Nat) /\ NodesIds(scrollback) \in Seq(Nat)
    BY <1>1, NodesFacts
  <1>7. Held(ts) \in Seq(Nat) /\ Queue(ts) \in Seq(Nat)
    BY <1>1, HeldTyped, QueueTyped
  <1> QED BY <1>1, <1>3, <1>4, <1>5, <1>6, <1>7

(* Every token of the stream has a number.                                 *)
LEMMA RealStream == ASSUME ChatInv, PathInv PROVE Real(ts)
  <1>1. Elems(Streamed) \subseteq 1..stamp
    BY DEF PathInv, Account
  <1>2. PICK a, b, c : a = NodesIds(previewNodes) /\ b = Held(ts) /\ c = Queue(ts)
    OBVIOUS
  <1>3. a \in Seq(Nat) /\ b \in Seq(Nat) /\ c \in Seq(Nat) /\ ts \in Streams /\ stamp \in Nat
    BY <1>2, PathTypes
  <1>4. Elems(a \o (b \o c)) = Elems(a) \cup Elems(b \o c) /\ Elems(b \o c) = Elems(b) \cup Elems(c)
    <2>1. b \o c \in Seq(Nat)
      BY <1>3, ConcatProperties
    <2> QED BY <1>3, <2>1, ElemsFacts
  <1>5. Elems(c) \subseteq 1..stamp
    BY <1>1, <1>2, <1>4 DEF Streamed
  <1>6. ASSUME NEW i \in 1..Len(ts.tokens) PROVE ts.tokens[i].token # NoToken
    <2>1. Len(c) = Len(ts.tokens) /\ c[i] = ts.tokens[i].token.id
      BY <1>2, <1>3, QueueTyped
    <2>2. c[i] \in Elems(c)
      BY <2>1 DEF Elems
    <2>3. ts.tokens[i].token.id # 0
      BY <1>3, <1>5, <2>1, <2>2
    <2> QED BY <2>3 DEF NoToken
  <1> QED BY <1>6 DEF Real

-----------------------------------------------------------------------------
LEMMA NumbersEmpty ==
    <<>> \in Seq(Nat) /\ \A a \in Seq(Nat) : a \o <<>> = a /\ <<>> \o a = a
  BY ConcatEmptySeq

LEMMA NewStreamIds == Held(NewTokenStream) = <<>> /\ Queue(NewTokenStream) = <<>>
  <1>1. Flat(NewTokenStream.emitted, BlockFun) = <<>> /\ IdsOf(NewTokenStream.lineBuf) = <<>>
    BY FlatEmpty, IdsEmpty DEF NewTokenStream
  <1>2. Queue(NewTokenStream) = <<>>
    BY DEF Queue, NewTokenStream
  <1> QED BY <1>1, <1>2, NumbersEmpty DEF Held

(* The first message of a sequence, and the others.                        *)
LEMMA HeadIds ==
    ASSUME NEW q \in Seq(Msgs), q # <<>>
    PROVE  /\ Head(q) \in Msgs /\ Tail(q) \in Seq(Msgs)
           /\ MsgsIds(q) = MsgIds(Head(q)) \o MsgsIds(Tail(q))
  <1>1. PICK h, r : h = Head(q) /\ r = Tail(q)
    OBVIOUS
  <1>2. h \in Msgs /\ r \in Seq(Msgs) /\ <<h>> \in Seq(Msgs)
    BY <1>1
  <1>3. q = <<h>> \o r
    BY <1>1, HeadTailAppend, <1>2
  <1>4. MsgsIds(<<h>> \o r) = MsgsIds(<<h>>) \o MsgsIds(r) /\ MsgsIds(<<h>>) = MsgIds(h)
    BY <1>2, MsgsFacts
  <1> QED BY <1>1, <1>2, <1>3, <1>4

(* A token enters the channel of the stream.                               *)
LEMMA QueueAppend ==
    ASSUME NEW s \in Streams, NEW t \in Toks, NEW e,
           e = [s EXCEPT !.tokens = Append(s.tokens, [token |-> t, finish |-> "Unset"])]
    PROVE  Held(e) = Held(s) /\ Queue(e) = Queue(s) \o <<t.id>>
  <1>1. PICK c, q, n : c = [token |-> t, finish |-> "Unset"] /\ q = s.tokens /\ n = Len(q)
    OBVIOUS
  <1>2. c \in Chunks /\ c.token = t /\ q \in Seq(Chunks) /\ n \in Nat
    BY <1>1 DEF Chunks, Ends, Streams
  <1>3. e \in Streams /\ e.tokens = Append(q, c) /\ e.emitted = s.emitted /\ e.lineBuf = s.lineBuf
    <2>1. Append(q, c) \in Seq(Chunks)
      BY <1>2
    <2> QED BY <1>1, <2>1 DEF Streams
  <1>4. Held(e) = Held(s)
    BY <1>3 DEF Held
  <1>5. PICK x, y, k, z : x = Queue(s) /\ y = Queue(e) /\ k = t.id /\ z = Append(x, k)
    OBVIOUS
  <1>6. k \in Nat
    BY <1>5 DEF Toks
  <1>7. x \in Seq(Nat) /\ Len(x) = n /\ \A i \in 1..n : x[i] = q[i].token.id
    BY <1>1, <1>5, QueueTyped
  <1>8. Len(e.tokens) = n + 1 /\ e.tokens[n + 1] = c /\ \A i \in 1..n : e.tokens[i] = q[i]
    BY <1>1, <1>2, <1>3, AppendProperties
  <1>9. y \in Seq(Nat) /\ Len(y) = n + 1 /\ \A i \in 1..(n + 1) : y[i] = e.tokens[i].token.id
    BY <1>3, <1>5, <1>8, QueueTyped
  <1>10. z \in Seq(Nat) /\ Len(z) = n + 1 /\ z[n + 1] = k /\ \A i \in 1..n : z[i] = x[i]
    BY <1>5, <1>6, <1>7, AppendProperties
  <1>11. \A i \in 1..(n + 1) : i \in 1..n \/ i = n + 1
    BY <1>2
  <1>12. \A i \in 1..n : i \in 1..(n + 1)
    BY <1>2
  <1>13. ASSUME NEW i \in 1..n PROVE y[i] = z[i]
    <2>1. y[i] = e.tokens[i].token.id
      BY <1>9, <1>12
    <2>2. e.tokens[i] = q[i]
      BY <1>8
    <2>3. x[i] = q[i].token.id /\ z[i] = x[i]
      BY <1>7, <1>10
    <2> QED BY <2>1, <2>2, <2>3
  <1>14. y[n + 1] = z[n + 1]
    <2>1. n + 1 \in 1..(n + 1)
      BY <1>2
    <2> QED BY <1>2, <1>5, <1>8, <1>9, <1>10, <2>1
  <1>15. y = z
    <2>1. \A i \in 1..Len(y) : y[i] = z[i]
      BY <1>9, <1>11, <1>13, <1>14
    <2> QED BY <1>9, <1>10, <2>1, SeqEqual
  <1>16. x \o <<k>> = Append(x, k)
    BY <1>6, <1>7
  <1> QED BY <1>4, <1>5, <1>15, <1>16

(* Four sequences in a row, bracketed as OnPath brackets them.             *)
Brackets(a, c, t, g, x) ==
    /\ a \o (c \o (t \o (g \o x))) = (a \o (c \o (t \o g))) \o x
    /\ a \o (c \o (t \o g)) = (a \o c) \o (t \o g)
    /\ a \o (c \o (t \o g)) \in Seq(Nat) /\ a \o c \in Seq(Nat) /\ t \o g \in Seq(Nat)
    /\ c \o (t \o g) \in Seq(Nat)

LEMMA PathBrackets ==
    ASSUME NEW a \in Seq(Nat), NEW c \in Seq(Nat), NEW t \in Seq(Nat), NEW g \in Seq(Nat), NEW x \in Seq(Nat)
    PROVE  Brackets(a, c, t, g, x)
  <1>1. /\ t \o g \in Seq(Nat) /\ g \o x \in Seq(Nat) /\ a \o c \in Seq(Nat)
    BY ConcatProperties
  <1>2. c \o (t \o g) \in Seq(Nat) /\ t \o (g \o x) \in Seq(Nat)
    BY <1>1, ConcatProperties
  <1>3. a \o (c \o (t \o g)) \in Seq(Nat)
    BY <1>2, ConcatProperties
  <1>4. PICK u, v : u = t \o g /\ v = c \o u
    OBVIOUS
  <1>5. u \in Seq(Nat) /\ v \in Seq(Nat)
    BY <1>1, <1>2, <1>4
  <1>6. u \o x = t \o (g \o x)
    BY <1>4, NumbersAssociative
  <1>7. (c \o u) \o x = c \o (u \o x)
    <2>1. c \in Seq(Nat) /\ u \in Seq(Nat) /\ x \in Seq(Nat)
      BY <1>5
    <2>2. Regroups(c, u, x)
      BY <2>1, RegroupLemma
    <2> QED BY <2>2 DEF Regroups
  <1>8. (a \o v) \o x = a \o (v \o x)
    <2>1. a \in Seq(Nat) /\ v \in Seq(Nat) /\ x \in Seq(Nat)
      BY <1>5
    <2>2. Regroups(a, v, x)
      BY <2>1, RegroupLemma
    <2> QED BY <2>2 DEF Regroups
  <1>9. (a \o c) \o u = a \o (c \o u)
    <2>1. a \in Seq(Nat) /\ c \in Seq(Nat) /\ u \in Seq(Nat)
      BY <1>5
    <2>2. Regroups(a, c, u)
      BY <2>1, RegroupLemma
    <2> QED BY <2>2 DEF Regroups
  <1> QED BY <1>1, <1>2, <1>3, <1>4, <1>6, <1>7, <1>8, <1>9 DEF Brackets

-----------------------------------------------------------------------------
(* The steps. *)
LEMMA PathNext ==
    ASSUME NEW s, NEW p, NEW b, NEW n, NEW acc, Account(s, p, b, n, acc, prod' = "run", cancelled' = {}),
           s = NodesIds(scrollback'), p = OnPath', b = Streamed', n = stamp', acc = accepted',
           prod' = "run" /\ phase' = "finished" => segBuf' = <<>>,
           reader' = "start" => Streamed' = <<>>, FlagType'
    PROVE  PathInv'
  <1>1. Account(NodesIds(scrollback'), OnPath', Streamed', stamp', accepted', prod' = "run", cancelled' = {})
    OBVIOUS
  <1> QED BY <1>1 DEF PathInv

LEMMA PathInit == ASSUME Init PROVE PathInv
  <1>1. NodesIds(scrollback) = <<>> /\ NodesIds(previewNodes) = <<>>
    BY NodesFacts DEF Init
  <1>2. Streamed = <<>>
    BY <1>1, NewStreamIds, NumbersEmpty DEF Streamed, Init
  <1>3. OnPath = <<>>
    <2>1. Segment = <<>> /\ MsgIds(inflight) = <<>> /\ MsgsIds(ctrl) = <<>> /\ MsgsIds(todo) = <<>>
      BY MsgsFacts DEF Segment, Init
    <2> QED BY <2>1, NumbersEmpty DEF OnPath
  <1>4. Account(<<>>, <<>>, <<>>, stamp, accepted, prod = "run", cancelled = {})
    <2>1. stamp = 0 /\ accepted = {} /\ <<>> \in Seq(Nat) /\ Len(<<>>) = 0
      BY NumbersEmpty DEF Init
    <2>2. FirstInOrder(<<>>)
      BY DEF FirstInOrder
    <2>3. Elems(<<>>) = {} /\ Rising(<<>>)
      BY ElemsOne
    <2>4. Below({}, {})
      BY DEF Below
    <2> QED BY <2>1, <2>2, <2>3, <2>4 DEF Account
  <1>5. FlagType /\ prod # "run"
    BY DEF FlagType, Init
  <1> QED BY <1>1, <1>2, <1>3, <1>4, <1>5 DEF PathInv

LEMMA SubmitPath == ASSUME ChatInv, PathInv, Submit PROVE PathInv'
  <1>1. PICK S, P, B : S = NodesIds(scrollback) /\ P = OnPath /\ B = Streamed
    OBVIOUS
  <1>2. Account(S, P, B, stamp, accepted, prod = "run", cancelled = {})
    BY <1>1 DEF PathInv
  <1>3. Account(S, P, <<>>, stamp, accepted, prod = "run", cancelled = {})
    BY <1>2, AccFresh
  <1>4. Streamed' = <<>>
    <2>1. NodesIds(previewNodes') = <<>> /\ ts' = NewTokenStream
      BY NodesFacts DEF Submit
    <2> QED BY <2>1, NewStreamIds, NumbersEmpty DEF Streamed
  <1>5. reader = "none" /\ prod # "run" /\ ctrl = <<>>
    BY DEF Submit, ChatInv, ChainInv
  <1>6. OnPath' = P
    BY <1>1, <1>5 DEF OnPath, Segment, Submit, prodVars
  <1>7. NodesIds(scrollback') = S
    <2>1. PICK x : x = [UserNode EXCEPT !.run = run + 1]
      OBVIOUS
    <2>2. run \in Nat /\ scrollback \in Seq(Nodes)
      BY PathTypes
    <2>3. x \in Nodes /\ x.n = "user"
      BY <2>1, <2>2, NodeFacts
    <2>4. scrollback' = Append(scrollback, x)
      BY <2>1 DEF Submit
    <2> QED BY <1>1, <2>2, <2>3, <2>4, NodesQuiet
  <1>8. FlagType'
    BY DEF FlagType, Submit
  <1>9. stamp' = stamp /\ accepted' = accepted /\ prod' = prod /\ cancelled' = cancelled
    BY DEF Submit, prodVars
  <1>10. Account(S, P, <<>>, stamp, accepted, prod' = "run", cancelled' = {})
    BY <1>3, <1>9
  <1> QED BY <1>4, <1>5, <1>6, <1>7, <1>8, <1>9, <1>10, PathNext

LEMMA StartLoopPath == ASSUME ChatInv, PathInv, StartLoop PROVE PathInv'
  <1>1. PICK S, P : S = NodesIds(scrollback) /\ P = OnPath
    OBVIOUS
  <1>2. Account(S, P, Streamed, stamp, accepted, prod = "run", cancelled = {})
    BY <1>1 DEF PathInv
  <1>3. Account(S, P, <<>>, stamp, accepted, prod' = "run", cancelled = {})
    BY <1>2, AccFresh
  <1>4. Streamed' = <<>>
    <2>1. Streamed' = Streamed
      BY DEF Streamed, StartLoop, uiVars
    <2> QED BY <2>1 DEF PathInv, StartLoop
  <1>5. prod # "run" /\ todo = <<>>
    BY DEF StartLoop, ChatInv, ChainInv
  <1>6. OnPath' = P
    <2>1. Segment = <<>> /\ Segment' = <<>>
      BY <1>5, IdsEmpty DEF Segment, StartLoop
    <2> QED BY <1>1, <1>5, <2>1 DEF OnPath, StartLoop
  <1>7. NodesIds(scrollback') = S /\ FlagType'
    BY <1>1 DEF StartLoop, uiVars, PathInv, FlagType
  <1>8. stamp' = stamp /\ accepted' = accepted /\ cancelled' = cancelled /\ segBuf' = <<>>
    BY DEF StartLoop
  <1>9. Account(S, P, <<>>, stamp, accepted, prod' = "run", cancelled' = {})
    BY <1>3, <1>8
  <1> QED BY <1>4, <1>6, <1>7, <1>8, <1>9, PathNext

LEMMA CancelPath ==
    ASSUME ChatInv, PathInv, HandleCancel \/ \E r \in 1..MaxRuns : RunCancel(r) PROVE PathInv'
  <1>1. /\ UNCHANGED <<run, ts, ctrl, prodVars, reader, inflight, uiVars>>
        /\ cancelled' = {} => cancelled = {}
    BY DEF HandleCancel, RunCancel
  <1>2. PICK S, P, B : S = NodesIds(scrollback) /\ P = OnPath /\ B = Streamed
    OBVIOUS
  <1>3. Account(S, P, B, stamp, accepted, prod = "run", cancelled = {})
    BY <1>2 DEF PathInv
  <1>4. Account(S, P, B, stamp, accepted, prod' = "run", cancelled' = {})
    <2>1. stamp \in Nat /\ stamp <= stamp /\ accepted \subseteq accepted /\ prod' = prod
      BY <1>1, PathTypes DEF prodVars
    <2> QED BY <1>1, <1>3, <2>1, AccWeaken
  <1>5. P = OnPath' /\ B = Streamed' /\ S = NodesIds(scrollback')
    BY <1>1, <1>2 DEF OnPath, Segment, Streamed, prodVars, uiVars
  <1>6. /\ stamp' = stamp /\ accepted' = accepted /\ FlagType'
        /\ prod' = "run" /\ phase' = "finished" => segBuf' = <<>>
        /\ reader' = "start" => Streamed' = <<>>
    BY <1>1, <1>2, <1>5 DEF PathInv, FlagType, prodVars, uiVars
  <1> QED BY <1>4, <1>5, <1>6, PathNext

LEMMA EmitTextPath == ASSUME ChatInv, PathInv, NEW k \in TextKinds, EmitText(k) PROVE PathInv'
  <1>1. PICK A, C, G, V, H, Q, S, m, t :
           /\ A = MsgIds(inflight) /\ C = MsgsIds(ctrl) /\ G = IdsOf(segBuf) /\ S = NodesIds(scrollback)
           /\ V = NodesIds(previewNodes) /\ H = Held(ts) /\ Q = Queue(ts)
           /\ m = stamp + 1 /\ t = [id |-> m, kind |-> k]
    OBVIOUS
  <1>2. /\ A \in Seq(Nat) /\ C \in Seq(Nat) /\ G \in Seq(Nat) /\ V \in Seq(Nat) /\ H \in Seq(Nat) /\ Q \in Seq(Nat)
        /\ stamp \in Nat /\ ts \in Streams /\ segBuf \in Seq(Toks)
    BY <1>1, PathTypes
  <1>3. m \in Nat /\ t \in Toks /\ t.id = m /\ <<m>> \in Seq(Nat)
    BY <1>1, <1>2 DEF Toks
  <1>4. prod = "run" /\ todo = <<>> /\ phase = "text" /\ MsgsIds(<<>>) = <<>> /\ <<>> \in Seq(Nat)
    BY MsgsFacts DEF EmitText, Emitting
  <1>5. OnPath = A \o (C \o (<<>> \o G))
    BY <1>1, <1>4 DEF OnPath, Segment
  <1>6. OnPath' = OnPath \o <<m>>
    <2>1. segBuf' = Append(segBuf, t) /\ prod' = "run" /\ inflight' = inflight /\ ctrl' = ctrl /\ todo' = <<Tick>>
      BY <1>1, <1>4 DEF EmitText
    <2>2. IdsOf(segBuf') = G \o <<m>>
      BY <1>1, <1>2, <1>3, <2>1, IdsFacts
    <2>3. MsgsIds(todo') = <<>>
      BY <2>1, MsgsFacts, MsgFacts
    <2>4. OnPath' = A \o (C \o (<<>> \o (G \o <<m>>)))
      BY <1>1, <2>1, <2>2, <2>3 DEF OnPath, Segment
    <2>5. A \o (C \o (<<>> \o (G \o <<m>>))) = (A \o (C \o (<<>> \o G))) \o <<m>>
      <3>1. PICK o, x : o = <<>> /\ x = <<m>>
        OBVIOUS
      <3>2. A \in Seq(Nat) /\ C \in Seq(Nat) /\ o \in Seq(Nat) /\ G \in Seq(Nat) /\ x \in Seq(Nat)
        BY <1>2, <1>3, <1>4, <3>1
      <3>3. Brackets(A, C, o, G, x)
        BY <3>2, PathBrackets
      <3> QED BY <3>1, <3>3 DEF Brackets
    <2> QED BY <1>5, <2>4, <2>5
  <1>7. Streamed' \in {Streamed, Streamed \o <<m>>}
    <2>0. previewNodes' = previewNodes /\ Streamed = V \o (H \o Q)
      BY <1>1 DEF EmitText, uiVars, Streamed
    <2>1. CASE run \in cancelled
      BY <2>0, <2>1 DEF EmitText, Streamed
    <2>2. CASE run \notin cancelled
      <3>1. ts' = [ts EXCEPT !.tokens = Append(ts.tokens, [token |-> t, finish |-> "Unset"])]
        BY <1>1, <2>2 DEF EmitText
      <3>2. Held(ts') = H /\ Queue(ts') = Q \o <<m>>
        BY <1>1, <1>2, <1>3, <3>1, QueueAppend
      <3>3. Streamed' = V \o (H \o (Q \o <<m>>))
        BY <1>1, <2>0, <3>2 DEF Streamed
      <3>4. V \o (H \o (Q \o <<m>>)) = (V \o (H \o Q)) \o <<m>>
        <4>1. H \o Q \in Seq(Nat)
          BY <1>2, ConcatProperties
        <4>2. (H \o Q) \o <<m>> = H \o (Q \o <<m>>)
          <5>1. H \in Seq(Nat) /\ Q \in Seq(Nat) /\ <<m>> \in Seq(Nat)
            BY <1>2, <1>3
          <5> QED BY <5>1, NumbersAssociative
        <4>3. PICK r : r = H \o Q
          OBVIOUS
        <4>4. (V \o r) \o <<m>> = V \o (r \o <<m>>)
          <5>1. V \in Seq(Nat) /\ r \in Seq(Nat) /\ <<m>> \in Seq(Nat)
            BY <1>2, <1>3, <4>1, <4>3
          <5> QED BY <5>1, NumbersAssociative
        <4> QED BY <4>2, <4>3, <4>4
      <3> QED BY <2>0, <3>3, <3>4
    <2> QED BY <2>1, <2>2
  <1>8. accepted' \subseteq accepted \cup {m}
    BY <1>1 DEF EmitText
  <1>9. Account(S, OnPath, Streamed, stamp, accepted, TRUE, cancelled = {})
    <2>1. Account(S, OnPath, Streamed, stamp, accepted, prod = "run", cancelled = {})
      BY <1>1 DEF PathInv
    <2>2. stamp <= stamp /\ accepted \subseteq accepted
      BY <1>2
    <2> QED BY <1>2, <1>4, <2>1, <2>2, AccWeaken
  <1>10. PICK P, B, B2, a2 : P = OnPath /\ B = Streamed /\ B2 = Streamed' /\ a2 = accepted'
    OBVIOUS
  <1>11. Account(S, P \o <<m>>, B2, m, a2, TRUE, cancelled = {})
    BY <1>1, <1>7, <1>8, <1>9, <1>10, AccNew
  <1>12. prod' = "run" /\ cancelled' = cancelled /\ stamp' = m /\ phase' = "text" /\ reader' = reader /\ NodesIds(scrollback') = S
    BY <1>1, <1>4 DEF EmitText, uiVars
  <1>13. Account(S, P \o <<m>>, B2, m, a2, prod' = "run", cancelled' = {})
    <2>1. Account(S, P \o <<m>>, B2, m, a2, TRUE, cancelled' = {})
      BY <1>11, <1>12
    <2>2. m <= m /\ a2 \subseteq a2
      BY <1>3
    <2> QED BY <1>3, <2>1, <2>2, AccWeaken
  <1>14. reader' = "start" => Streamed' = <<>>
    <2>1. reader # "start"
      BY <1>4 DEF ChatInv, ChainInv
    <2> QED BY <1>12, <2>1
  <1>15. FlagType'
    BY DEF FlagType, PathInv, EmitText, uiVars
  <1> QED BY <1>6, <1>10, <1>12, <1>13, <1>14, <1>15, PathNext

(* The other emits leave the stream alone.                                 *)
LEMMA EmitPath ==
    ASSUME ChatInv, PathInv, Emitting, NEW m \in Nat, m \in {stamp, stamp + 1}, stamp' = m, NEW x \in {<<>>, <<m>>},
           x = <<m>> => m = stamp + 1,
           OnPath' = OnPath \o x, UNCHANGED <<cancelled, ts, prod, accepted, reader, uiVars>>,
           phase' = "finished" => segBuf' = <<>>
    PROVE  PathInv'
  <1>1. PICK S, P, B, a : S = NodesIds(scrollback) /\ P = OnPath /\ B = Streamed /\ a = accepted
    OBVIOUS
  <1>2. stamp \in Nat /\ P \in Seq(Nat) /\ prod = "run" /\ reader # "start"
    <2>1. P \in Seq(Nat)
      BY <1>1 DEF PathInv, Account
    <2> QED BY <2>1, PathTypes DEF Emitting, ChatInv, ChainInv
  <1>3. Account(S, P, B, stamp, a, TRUE, cancelled = {})
    <2>1. Account(S, P, B, stamp, a, prod = "run", cancelled = {})
      BY <1>1 DEF PathInv
    <2>2. stamp <= stamp /\ a \subseteq a
      BY <1>2
    <2> QED BY <1>2, <2>1, <2>2, AccWeaken
  <1>4. Account(S, P \o x, B, m, a, TRUE, cancelled = {})
    <2>1. CASE x = <<>>
      <3>1. stamp <= m /\ a \subseteq a
        BY <1>2
      <3>2. Account(S, P, B, m, a, TRUE, cancelled = {})
        BY <1>3, <3>1, AccWeaken
      <3> QED BY <1>2, <2>1, <3>2, NumbersEmpty
    <2>2. CASE x # <<>>
      <3>1. m = stamp + 1 /\ x = <<m>> /\ a \subseteq a \cup {m} /\ B \in {B, B \o <<m>>}
        BY <2>2
      <3> QED BY <1>3, <3>1, AccNew
    <2> QED BY <2>1, <2>2
  <1>5. Account(S, P \o x, B, m, a, prod' = "run", cancelled' = {})
    <2>1. Account(S, P \o x, B, m, a, TRUE, cancelled' = {})
      BY <1>4
    <2>2. m <= m /\ a \subseteq a
      BY <1>2
    <2> QED BY <2>1, <2>2, AccWeaken
  <1>6. NodesIds(scrollback') = S /\ Streamed' = B /\ accepted' = a /\ FlagType'
    BY <1>1 DEF Streamed, uiVars, PathInv, FlagType
  <1> QED BY <1>1, <1>2, <1>5, <1>6, PathNext

(* An emit that seals the segment before its own message.                  *)
LEMMA SealPath ==
    ASSUME ChatInv, Emitting, NEW b \in BOOLEAN, NEW x \in Msgs, todo' = seal(b) \o <<x>>, segBuf' = <<>>,
           UNCHANGED <<prod, inflight, ctrl>>
    PROVE  OnPath' = OnPath \o MsgIds(x)
  <1>1. PICK A, C, G, X : A = MsgIds(inflight) /\ C = MsgsIds(ctrl) /\ G = IdsOf(segBuf) /\ X = MsgIds(x)
    OBVIOUS
  <1>2. /\ A \in Seq(Nat) /\ C \in Seq(Nat) /\ G \in Seq(Nat) /\ X \in Seq(Nat) /\ <<>> \in Seq(Nat)
        /\ segBuf \in Seq(Toks)
    BY <1>1, PathTypes, MsgsFacts, NumbersEmpty
  <1>3. prod = "run" /\ todo = <<>> /\ MsgsIds(<<>>) = <<>>
    BY MsgsFacts DEF Emitting
  <1>4. OnPath = A \o (C \o (<<>> \o G))
    BY <1>1, <1>3 DEF OnPath, Segment
  <1>5. MsgsIds(todo') = G \o X
    BY <1>1, <1>2, SealIds
  <1>6. OnPath' = A \o (C \o ((G \o X) \o <<>>))
    BY <1>1, <1>3, <1>5, IdsEmpty DEF OnPath, Segment
  <1>7. (G \o X) \o <<>> = <<>> \o (G \o X)
    <2>1. G \o X \in Seq(Nat)
      BY <1>2, ConcatProperties
    <2> QED BY <2>1, NumbersEmpty
  <1>8. A \o (C \o (<<>> \o (G \o X))) = (A \o (C \o (<<>> \o G))) \o X
    <2>1. PICK o : o = <<>>
      OBVIOUS
    <2>2. A \in Seq(Nat) /\ C \in Seq(Nat) /\ o \in Seq(Nat) /\ G \in Seq(Nat) /\ X \in Seq(Nat)
      BY <1>2, <2>1
    <2>3. Brackets(A, C, o, G, X)
      BY <2>2, PathBrackets
    <2> QED BY <2>1, <2>3 DEF Brackets
  <1>9. OnPath' = A \o (C \o (<<>> \o (G \o X)))
    BY <1>6, <1>7, Zenon
  <1>10. PICK L, R : L = A \o (C \o (<<>> \o G)) /\ R = A \o (C \o (<<>> \o (G \o X)))
    OBVIOUS
  <1>11. R = L \o X
    BY <1>8, <1>10, Zenon
  <1>12. OnPath = L /\ OnPath' = R
    BY <1>4, <1>9, <1>10, Zenon
  <1> QED BY <1>1, <1>11, <1>12, Zenon

LEMMA EmitThinkingPath == ASSUME ChatInv, PathInv, EmitThinking PROVE PathInv'
  <1>1. Emitting /\ stamp + 1 \in Nat /\ stamp' = stamp + 1 /\ phase' = "text"
    <2>1. Emitting /\ stamp' = stamp + 1 /\ phase' = "text"
      BY DEF EmitThinking
    <2>2. stamp \in Nat
      BY PathTypes
    <2> QED BY <2>1, <2>2
  <1>2. OnPath' = OnPath
    <2>1. todo = <<>> /\ todo' = <<Thinking>>
      BY DEF EmitThinking, Emitting
    <2>2. MsgsIds(todo) = <<>> /\ MsgsIds(todo') = <<>>
      BY <2>1, MsgsFacts, MsgFacts
    <2> QED BY <2>2 DEF OnPath, Segment, EmitThinking
  <1>3. OnPath \in Seq(Nat)
    BY DEF PathInv, Account
  <1>4. OnPath' = OnPath \o <<>> /\ <<>> # <<stamp + 1>>
    <2>1. PICK P : P = OnPath
      OBVIOUS
    <2>2. P \o <<>> = P
      BY <1>3, <2>1, NumbersEmpty
    <2>3. <<>> # <<stamp + 1>>
      OBVIOUS
    <2> QED BY <1>2, <2>1, <2>2, <2>3
  <1>5. UNCHANGED <<cancelled, ts, prod, accepted, reader, uiVars>>
    BY DEF EmitThinking
  <1>6. PICK m, x : m = stamp + 1 /\ x = <<>>
    OBVIOUS
  <1>7. m \in Nat /\ m \in {stamp, stamp + 1} /\ stamp' = m /\ x \in {<<>>, <<m>>} /\ OnPath' = OnPath \o x
    BY <1>1, <1>4, <1>6
  <1>8. x = <<m>> => m = stamp + 1
    BY <1>6
  <1>9. Emitting /\ (phase' = "finished" => segBuf' = <<>>)
    BY <1>1
  <1> QED BY <1>5, <1>7, <1>8, <1>9, EmitPath

LEMMA EmitToolCallPath == ASSUME ChatInv, PathInv, EmitToolCall PROVE PathInv'
  <1>1. /\ Emitting /\ stamp + 1 \in Nat /\ stamp' = stamp + 1 /\ phase' = "calls" /\ segBuf' = <<>>
        /\ todo' = seal(FALSE) \o <<ToolUse(stamp + 1)>>
    <2>1. /\ Emitting /\ stamp' = stamp + 1 /\ phase' = "calls" /\ segBuf' = <<>>
          /\ todo' = seal(FALSE) \o <<ToolUse(stamp + 1)>>
      BY DEF EmitToolCall
    <2>2. stamp \in Nat
      BY PathTypes
    <2> QED BY <2>1, <2>2
  <1>2. ToolUse(stamp + 1) \in Msgs /\ MsgIds(ToolUse(stamp + 1)) = <<stamp + 1>>
    BY <1>1, MsgFacts DEF MsgIds
  <1>3. UNCHANGED <<cancelled, ts, prod, inflight, ctrl, accepted, reader, uiVars>>
    BY DEF EmitToolCall
  <1>4. OnPath' = OnPath \o <<stamp + 1>>
    BY <1>1, <1>2, <1>3, SealPath
  <1> QED BY <1>1, <1>3, <1>4, EmitPath

LEMMA EmitToolResultPath == ASSUME ChatInv, PathInv, NEW e \in BOOLEAN, EmitToolResult(e) PROVE PathInv'
  <1>1. /\ Emitting /\ stamp \in Nat /\ stamp' = stamp /\ phase' # "finished" /\ segBuf' = <<>>
        /\ todo' = seal(FALSE) \o <<ToolResult(Head(openTools), e)>>
    BY PathTypes DEF EmitToolResult
  <1>2. PICK id : id = Head(openTools) /\ id \in Nat
    <2>1. openTools \in Seq(1..stamp) /\ openTools # <<>>
      BY DEF EmitToolResult, ChatInv, CsTypeOK, ProdType
    <2> QED BY <1>1, <2>1
  <1>3. ToolResult(id, e) \in Msgs /\ MsgIds(ToolResult(id, e)) = <<>>
    BY <1>2, MsgFacts DEF MsgIds
  <1>4. UNCHANGED <<cancelled, ts, prod, inflight, ctrl, accepted, reader, uiVars>>
    BY DEF EmitToolResult
  <1>5. OnPath' = OnPath \o <<>> /\ <<>> # <<stamp>>
    BY <1>1, <1>2, <1>3, <1>4, SealPath
  <1> QED BY <1>1, <1>4, <1>5, EmitPath

LEMMA EmitFinishPath == ASSUME ChatInv, PathInv, NEW f \in FinishReasons, EmitFinish(f) PROVE PathInv'
  <1>1. PICK b \in BOOLEAN : b = (f = "Length")
    OBVIOUS
  <1>2. /\ Emitting /\ stamp \in Nat /\ stamp' = stamp /\ segBuf' = <<>>
        /\ todo' = seal(b) \o <<FinishMsg(f)>>
    BY <1>1, PathTypes DEF EmitFinish
  <1>3. FinishMsg(f) \in Msgs /\ MsgIds(FinishMsg(f)) = <<>>
    BY MsgFacts DEF MsgIds
  <1>4. UNCHANGED <<cancelled, ts, prod, inflight, ctrl, accepted, reader, uiVars>>
    BY DEF EmitFinish
  <1>5. OnPath' = OnPath \o <<>> /\ <<>> # <<stamp>>
    BY <1>2, <1>3, <1>4, SealPath
  <1> QED BY <1>2, <1>4, <1>5, EmitPath

(* A step that moves messages along the path and leaves the rest alone.    *)
LEMMA MovePath ==
    ASSUME PathInv, OnPath' = OnPath, UNCHANGED <<cancelled, previewNodes, phase, segBuf, stamp, accepted, scrollback>>,
           Streamed' = Streamed, prod' = "run" => prod = "run", reader' = "start" => reader = "start",
           UNCHANGED <<finishHandled, sawContent, sawThinking, sealedTruncated, streaming>>, stamp \in Nat
    PROVE  PathInv'
  <1>1. PICK S, P, B, a : S = NodesIds(scrollback) /\ P = OnPath /\ B = Streamed /\ a = accepted
    OBVIOUS
  <1>2. Account(S, P, B, stamp, a, prod = "run", cancelled = {})
    BY <1>1 DEF PathInv
  <1>3. Account(S, P, B, stamp, a, prod' = "run", cancelled' = {})
    <2>1. stamp <= stamp /\ a \subseteq a
      OBVIOUS
    <2> QED BY <1>2, <2>1, AccWeaken
  <1>4. /\ NodesIds(scrollback') = S /\ FlagType'
        /\ prod' = "run" /\ phase' = "finished" => segBuf' = <<>>
        /\ reader' = "start" => Streamed' = <<>>
    BY <1>1 DEF PathInv, FlagType
  <1> QED BY <1>1, <1>3, <1>4, PathNext

LEMMA SendPath == ASSUME ChatInv, PathInv, Send PROVE PathInv'
  <1>1. PICK A, C, h, T, G : /\ A = MsgIds(inflight) /\ C = MsgsIds(ctrl) /\ h = MsgIds(Head(todo))
                             /\ T = MsgsIds(Tail(todo)) /\ G = Segment
    OBVIOUS
  <1>2. /\ todo \in Seq(Msgs) /\ todo # <<>> /\ ctrl \in Seq(Msgs) /\ stamp \in Nat
        /\ A \in Seq(Nat) /\ C \in Seq(Nat) /\ G \in Seq(Nat)
    BY <1>1, PathTypes DEF Send
  <1>3. Head(todo) \in Msgs /\ Tail(todo) \in Seq(Msgs) /\ MsgsIds(todo) = h \o T
    BY <1>1, <1>2, HeadIds
  <1>4. h \in Seq(Nat) /\ T \in Seq(Nat)
    BY <1>1, <1>3, MsgsFacts
  <1>5. MsgsIds(ctrl') = C \o h /\ MsgsIds(todo') = T
    <2>1. PICK m : m = Head(todo) /\ m \in Msgs
      BY <1>3
    <2>2. ctrl' = ctrl \o <<m>> /\ <<m>> \in Seq(Msgs)
      BY <1>2, <2>1 DEF Send
    <2>3. MsgsIds(ctrl \o <<m>>) = MsgsIds(ctrl) \o MsgsIds(<<m>>) /\ MsgsIds(<<m>>) = MsgIds(m)
      BY <1>2, <2>1, <2>2, MsgsFacts
    <2> QED BY <1>1, <2>1, <2>2, <2>3 DEF Send
  <1>6. Segment' = G
    <2>1. prod = "run" /\ segBuf' = segBuf
      BY DEF Send
    <2>2. CASE prod' = "run"
      BY <1>1, <2>1, <2>2 DEF Segment
    <2>3. CASE prod' # "run"
      <3>1. phase = "finished"
        BY <2>1, <2>3 DEF Send
      <3>2. segBuf = <<>>
        BY <2>1, <3>1 DEF PathInv
      <3> QED BY <1>1, <2>1, <2>3, <3>2, IdsEmpty DEF Segment
    <2> QED BY <2>2, <2>3
  <1>7. OnPath' = OnPath
    <2>1. OnPath = A \o (C \o ((h \o T) \o G)) /\ OnPath' = A \o ((C \o h) \o (T \o G))
      BY <1>1, <1>3, <1>5, <1>6 DEF OnPath, Send
    <2>2. (h \o T) \o G = h \o (T \o G)
      BY <1>2, <1>4, NumbersAssociative
    <2>3. PICK r : r = T \o G
      OBVIOUS
    <2>4. C \in Seq(Nat) /\ h \in Seq(Nat) /\ r \in Seq(Nat)
      BY <1>2, <1>4, <2>3, ConcatProperties
    <2>5. (C \o h) \o r = C \o (h \o r)
      BY <2>4, NumbersAssociative
    <2> QED BY <2>1, <2>2, <2>3, <2>5
  <1>8. /\ UNCHANGED <<cancelled, ts, previewNodes, phase, segBuf, stamp, accepted, scrollback, reader>>
        /\ UNCHANGED <<finishHandled, sawContent, sawThinking, sealedTruncated, streaming>> /\ prod = "run"
    BY DEF Send, uiVars
  <1>9. Streamed' = Streamed
    BY <1>8 DEF Streamed
  <1> QED BY <1>2, <1>7, <1>8, <1>9, MovePath

LEMMA SendCancelledPath == ASSUME ChatInv, PathInv, SendCancelled PROVE PathInv'
  <1>1. PICK A, C, T, G, S, B, a : /\ A = MsgIds(inflight) /\ C = MsgsIds(ctrl) /\ T = MsgsIds(todo) /\ G = Segment
                                   /\ S = NodesIds(scrollback) /\ B = Streamed /\ a = accepted
    OBVIOUS
  <1>2. A \in Seq(Nat) /\ C \in Seq(Nat) /\ T \in Seq(Nat) /\ G \in Seq(Nat) /\ stamp \in Nat
    BY <1>1, PathTypes
  <1>3. PICK p, d : p = A \o C /\ d = T \o G
    OBVIOUS
  <1>4. OnPath = p \o d /\ p \in Seq(Nat) /\ d \in Seq(Nat)
    <2>1. Brackets(A, C, T, G, G)
      BY <1>2, PathBrackets
    <2> QED BY <1>1, <1>3, <2>1 DEF Brackets, OnPath
  <1>5. OnPath' = p
    <2>1. OnPath' = A \o (C \o (<<>> \o <<>>))
      BY <1>1, MsgsFacts DEF OnPath, Segment, SendCancelled
    <2>2. <<>> \o <<>> = <<>> /\ C \o <<>> = C
      BY <1>2, NumbersEmpty
    <2> QED BY <1>3, <2>1, <2>2
  <1>6. Account(S, p \o d, B, stamp, a, TRUE, FALSE)
    <2>1. Account(S, p \o d, B, stamp, a, prod = "run", cancelled = {})
      BY <1>1, <1>4 DEF PathInv
    <2>2. stamp <= stamp /\ a \subseteq a /\ prod = "run"
      BY <1>2 DEF SendCancelled
    <2> QED BY <1>2, <2>1, <2>2, AccWeaken
  <1>7. Account(S, p, B, stamp, a, FALSE, FALSE)
    BY <1>4, <1>6, AccDrop
  <1>8. /\ UNCHANGED <<cancelled, ts, previewNodes, stamp, accepted, scrollback, reader>>
        /\ UNCHANGED <<finishHandled, sawContent, sawThinking, sealedTruncated, streaming>>
        /\ prod' = "closing" /\ run \in cancelled
    BY DEF SendCancelled, uiVars
  <1>9. Account(S, p, B, stamp, a, prod' = "run", cancelled' = {})
    <2>1. stamp <= stamp /\ a \subseteq a /\ prod' # "run" /\ cancelled' # {}
      BY <1>2, <1>8
    <2> QED BY <1>2, <1>7, <2>1, AccWeaken
  <1>10. Streamed' = B
    BY <1>1, <1>8 DEF Streamed
  <1>11. FlagType' /\ (reader' = "start" => Streamed' = <<>>) /\ NodesIds(scrollback') = S
    BY <1>1, <1>8, <1>10 DEF PathInv, FlagType
  <1> QED BY <1>1, <1>5, <1>8, <1>9, <1>10, <1>11, PathNext

LEMMA ClosePath == ASSUME ChatInv, PathInv, CloseStream \/ CloseCtrl PROVE PathInv'
  <1>1. /\ UNCHANGED <<cancelled, previewNodes, phase, segBuf, stamp, accepted, scrollback, reader, ctrl, todo, inflight>>
        /\ UNCHANGED <<finishHandled, sawContent, sawThinking, sealedTruncated, streaming>>
        /\ prod # "run" /\ prod' # "run"
    BY DEF CloseStream, CloseCtrl, uiVars
  <1>2. Streamed' = Streamed
    <2>1. CASE CloseStream
      <3>1. ts \in Streams /\ Real(ts)
        BY PathTypes, RealStream
      <3>2. Held(ts') \o Queue(ts') = Held(ts) \o Queue(ts)
        BY <2>1, <3>1, HeldClose DEF CloseStream
      <3> QED BY <1>1, <3>2 DEF Streamed
    <2>2. CASE CloseCtrl
      BY <1>1, <2>2 DEF Streamed, CloseCtrl
    <2> QED BY <2>1, <2>2
  <1>3. OnPath' = OnPath /\ stamp \in Nat
    BY <1>1, PathTypes DEF OnPath, Segment
  <1> QED BY <1>1, <1>2, <1>3, MovePath

LEMMA ReadPath == ASSUME ChatInv, PathInv, ArmReader \/ ReadCtrl PROVE PathInv'
  <1>1. /\ UNCHANGED <<cancelled, ts, previewNodes, prod, phase, segBuf, todo, stamp, accepted, scrollback>>
        /\ UNCHANGED <<finishHandled, sawContent, sawThinking, sealedTruncated, streaming>>
        /\ reader' # "start"
    BY DEF ArmReader, ReadCtrl, prodVars, uiVars
  <1>2. Streamed' = Streamed /\ stamp \in Nat
    BY <1>1, PathTypes DEF Streamed
  <1>3. OnPath' = OnPath
    <2>1. CASE UNCHANGED <<ctrl, inflight>>
      BY <1>1, <2>1 DEF OnPath, Segment
    <2>2. CASE ReadCtrl /\ ctrl # <<>>
      <3>1. inflight = NoMsg /\ inflight' = Head(ctrl) /\ ctrl' = Tail(ctrl) /\ ctrl \in Seq(Msgs)
        BY <2>2, PathTypes DEF ReadCtrl, ChatInv, ChainInv
      <3>2. PICK h, C, T, G : h = MsgIds(inflight') /\ C = MsgsIds(ctrl') /\ T = MsgsIds(todo) /\ G = Segment
        OBVIOUS
      <3>3. MsgsIds(ctrl) = h \o C /\ inflight' \in Msgs /\ ctrl' \in Seq(Msgs)
        BY <2>2, <3>1, <3>2, HeadIds
      <3>4. h \in Seq(Nat) /\ C \in Seq(Nat) /\ T \in Seq(Nat) /\ G \in Seq(Nat)
        BY <3>2, <3>3, MsgsFacts, PathTypes
      <3>5. OnPath = <<>> \o ((h \o C) \o (T \o G)) /\ OnPath' = h \o (C \o (T \o G))
        BY <1>1, <3>1, <3>2, <3>3, MsgsFacts DEF OnPath, Segment
      <3>6. Brackets(h, C, T, G, G)
        BY <3>4, PathBrackets
      <3>7. PICK r : r = h \o (C \o (T \o G)) /\ r \in Seq(Nat)
        BY <3>6 DEF Brackets
      <3>8. <<>> \o r = r
        BY <3>7, NumbersEmpty
      <3> QED BY <3>5, <3>6, <3>7, <3>8 DEF Brackets
    <2> QED BY <2>1, <2>2 DEF ArmReader, ReadCtrl
  <1> QED BY <1>1, <1>2, <1>3, MovePath

(* A drain moves numbers from the stream to the preview.                   *)
LEMMA DrainPath ==
    ASSUME ChatInv, PathInv, NEW e, e = afterDrain(ts), NEW q, q = previewNodes \o Preview(drainChunks(ts).emitted),
           NEW r, r = Held(e) \o Queue(e)
    PROVE  /\ q \in Seq(Nodes) /\ NodesIds(q) \in Seq(Nat) /\ r \in Seq(Nat)
           /\ Streamed = NodesIds(q) \o r
  <1>1. PICK d, bs, w : d = drainChunks(ts) /\ bs = d.emitted /\ w = Preview(bs)
    OBVIOUS
  <1>2. ts \in Streams /\ Real(ts) /\ run \in Nat /\ previewNodes \in Seq(Nodes)
    BY PathTypes, RealStream
  <1>3. PICK V, F, z : V = NodesIds(previewNodes) /\ F = Flat(bs, BlockFun) /\ z = Held(ts) \o Queue(ts)
    OBVIOUS
  <1>4. e \in Streams /\ bs \in Seq(Blocks) /\ F \in Seq(Nat) /\ z = F \o r
    BY <1>1, <1>2, <1>3, DrainSplit
  <1>5. r \in Seq(Nat)
    <2>1. Held(e) \in Seq(Nat) /\ Queue(e) \in Seq(Nat)
      BY <1>4, HeldTyped, QueueTyped
    <2> QED BY <2>1, ConcatProperties
  <1>6. w \in Seq(Nodes) /\ NodesIds(w) = F
    <2>1. w \in Seq(Nodes)
      BY <1>1, <1>2, PreviewTyped
    <2> QED BY <1>1, <1>2, <1>3, <1>4, <2>1, PreviewIds
  <1>7. q = previewNodes \o w
    BY <1>1
  <1>8. q \in Seq(Nodes) /\ NodesIds(q) = V \o F /\ V \in Seq(Nat)
    <2>1. q \in Seq(Nodes)
      BY <1>2, <1>6, <1>7, ConcatProperties
    <2>2. NodesIds(previewNodes \o w) = NodesIds(previewNodes) \o NodesIds(w)
      BY <1>2, <1>6, NodesFacts
    <2>3. V \in Seq(Nat)
      BY <1>3, PathTypes
    <2> QED BY <1>3, <1>6, <1>7, <2>1, <2>2, <2>3
  <1>9. Streamed = V \o (F \o r)
    BY <1>3, <1>4 DEF Streamed
  <1>10. (V \o F) \o r = V \o (F \o r)
    <2>1. V \in Seq(Nat) /\ F \in Seq(Nat) /\ r \in Seq(Nat)
      BY <1>4, <1>5, <1>8
    <2>2. Regroups(V, F, r)
      BY <2>1, RegroupLemma
    <2> QED BY <2>2 DEF Regroups
  <1>11. NodesIds(q) \in Seq(Nat)
    BY <1>8, NodesFacts
  <1> QED BY <1>5, <1>8, <1>9, <1>10, <1>11

(* What a message carries reaches the screen.                              *)
LEMMA HandlePath ==
    ASSUME ChatInv, PathInv, reader = "msg", Handled,
           NodesIds(scrollback') = NodesIds(scrollback) \o MsgIds(inflight),
           Streamed' \in Seq(Nat), Rising(Streamed'), Elems(Streamed') \subseteq Elems(Streamed), FlagType'
    PROVE  PathInv'
  <1>1. PICK X, C, T, G, S, B, c, a : /\ X = MsgIds(inflight) /\ C = MsgsIds(ctrl) /\ T = MsgsIds(todo) /\ G = Segment
                                      /\ S = NodesIds(scrollback) /\ B = Streamed /\ c = Streamed' /\ a = accepted
    OBVIOUS
  <1>2. X \in Seq(Nat) /\ C \in Seq(Nat) /\ T \in Seq(Nat) /\ G \in Seq(Nat) /\ stamp \in Nat
    BY <1>1, PathTypes
  <1>3. PICK P : P = C \o (T \o G)
    OBVIOUS
  <1>4. P \in Seq(Nat) /\ OnPath = X \o P
    <2>1. Brackets(X, C, T, G, G)
      BY <1>2, PathBrackets
    <2> QED BY <1>1, <1>3, <2>1 DEF Brackets, OnPath
  <1>5. OnPath' = P
    <2>1. OnPath' = <<>> \o P
      BY <1>1, <1>3, MsgsFacts DEF OnPath, Segment, Handled, prodVars
    <2> QED BY <1>4, <2>1, NumbersEmpty
  <1>6. Account(S, X \o P, B, stamp, a, prod = "run", cancelled = {})
    BY <1>1, <1>4 DEF PathInv
  <1>7. Account(S \o X, P, c, stamp, a, prod = "run", cancelled = {})
    BY <1>1, <1>2, <1>4, <1>6, AccShow
  <1>8. UNCHANGED <<cancelled, prod, phase, segBuf, stamp, accepted>> /\ reader' = "armed"
    BY DEF Handled, prodVars
  <1>9. Account(S \o X, P, c, stamp, a, prod' = "run", cancelled' = {})
    BY <1>7, <1>8
  <1>10. (prod' = "run" /\ phase' = "finished" => segBuf' = <<>>) /\ NodesIds(scrollback') = S \o X
    BY <1>1, <1>8 DEF PathInv
  <1> QED BY <1>1, <1>5, <1>8, <1>9, <1>10, PathNext

(* The stream stays, or loses a prefix of what it holds.                   *)
LEMMA StreamKept ==
    ASSUME PathInv, Streamed' = Streamed
    PROVE  Streamed' \in Seq(Nat) /\ Rising(Streamed') /\ Elems(Streamed') \subseteq Elems(Streamed)
  <1>1. Streamed \in Seq(Nat) /\ Rising(Streamed)
    BY DEF PathInv, Account
  <1>2. PICK B, c : B = Streamed /\ c = Streamed'
    OBVIOUS
  <1> QED BY <1>1

LEMMA StreamDrained ==
    ASSUME ChatInv, PathInv, ts' = afterDrain(ts), previewNodes' = <<>>
    PROVE  /\ Streamed' \in Seq(Nat) /\ Rising(Streamed') /\ Elems(Streamed') \subseteq Elems(Streamed)
           /\ Streamed = NodesIds(previewNodes \o Preview(drainChunks(ts).emitted)) \o Streamed'
           /\ NodesIds(previewNodes \o Preview(drainChunks(ts).emitted)) \in Seq(Nat)
           /\ previewNodes \o Preview(drainChunks(ts).emitted) \in Seq(Nodes)
  <1>1. PICK e, q, r, B, c, f : /\ e = afterDrain(ts) /\ q = previewNodes \o Preview(drainChunks(ts).emitted)
                                /\ r = Held(e) \o Queue(e) /\ B = Streamed /\ c = Streamed' /\ f = NodesIds(q)
    OBVIOUS
  <1>2. q \in Seq(Nodes) /\ f \in Seq(Nat) /\ r \in Seq(Nat) /\ B = f \o r
    BY <1>1, DrainPath
  <1>3. c = r
    <2>1. c = <<>> \o r
      BY <1>1, NodesFacts DEF Streamed
    <2> QED BY <1>2, <2>1, NumbersEmpty
  <1>4. Rising(f \o r)
    BY <1>1, <1>2 DEF PathInv, Account
  <1>5. Rising(r) /\ Elems(f \o r) = Elems(f) \cup Elems(r)
    BY <1>2, <1>4, RisingSplit, ElemsFacts
  <1> QED BY <1>1, <1>2, <1>3, <1>5

LEMMA HandleTickPath == ASSUME ChatInv, PathInv, HandleTick PROVE PathInv'
  <1>1. PICK e, q, r, B : /\ e = afterDrain(ts) /\ q = previewNodes \o Preview(drainChunks(ts).emitted)
                          /\ r = Held(e) \o Queue(e) /\ B = Streamed
    OBVIOUS
  <1>2. B = NodesIds(q) \o r
    BY <1>1, DrainPath
  <1>3. Streamed' = Streamed
    BY <1>1, <1>2 DEF Streamed, HandleTick
  <1>4. NodesIds(scrollback') = NodesIds(scrollback) \o MsgIds(inflight)
    <2>1. MsgIds(inflight) = <<>> /\ scrollback' = scrollback
      BY DEF HandleTick, Handling, MsgIds
    <2>2. NodesIds(scrollback) \in Seq(Nat)
      BY PathTypes
    <2> QED BY <2>1, <2>2, NumbersEmpty
  <1>5. FlagType'
    BY DEF PathInv, FlagType, HandleTick, Handled
  <1>6. reader = "msg" /\ Handled
    BY DEF HandleTick, Handling
  <1> QED BY <1>3, <1>4, <1>5, <1>6, StreamKept, HandlePath

LEMMA HandleThinkingPath == ASSUME ChatInv, PathInv, HandleThinking PROVE PathInv'
  <1>1. Streamed' = Streamed
    BY DEF Streamed, HandleThinking
  <1>2. NodesIds(scrollback') = NodesIds(scrollback) \o MsgIds(inflight)
    <2>1. MsgIds(inflight) = <<>> /\ scrollback' = scrollback
      BY DEF HandleThinking, Handling, MsgIds
    <2>2. NodesIds(scrollback) \in Seq(Nat)
      BY PathTypes
    <2> QED BY <2>1, <2>2, NumbersEmpty
  <1>3. FlagType'
    BY DEF PathInv, FlagType, HandleThinking, Handled
  <1>4. reader = "msg" /\ Handled
    BY DEF HandleThinking, Handling
  <1> QED BY <1>1, <1>2, <1>3, <1>4, StreamKept, HandlePath

LEMMA HandleSealedPath == ASSUME ChatInv, PathInv, HandleSealed PROVE PathInv'
  <1>1. PICK m, x : m = inflight /\ x = m.text
    OBVIOUS
  <1>2. reader = "msg" /\ Handled /\ m.t = "sealed" /\ m \in Msgs
    <2>1. reader = "msg" /\ Handled /\ m.t = "sealed"
      BY <1>1 DEF HandleSealed, Handling
    <2> QED BY <1>1, <2>1 DEF ChatInv, ChainInv, CsTypeOK, ChanType
  <1>3. x \in Seq(Toks) /\ m.truncated \in BOOLEAN /\ run \in Nat /\ scrollback \in Seq(Nodes)
    BY <1>1, <1>2, MsgFields, PathTypes
  <1>4. PICK y : y = TextNode(x)
    OBVIOUS
  <1>5. y \in Nodes /\ NodeIds(y) = IdsOf(x) /\ MsgIds(m) = IdsOf(x)
    <2>1. y \in Nodes /\ y.n = "text"
      BY <1>3, <1>4, NodeFacts
    <2>2. y.text = x
      BY <1>4 DEF TextNode
    <2> QED BY <1>1, <1>2, <2>1, <2>2 DEF NodeIds, MsgIds
  <1>6. NodesIds(scrollback') = NodesIds(scrollback) \o MsgIds(inflight)
    <2>1. scrollback' = Append(scrollback, y)
      BY <1>1, <1>4 DEF HandleSealed
    <2>2. NodesIds(Append(scrollback, y)) = NodesIds(scrollback) \o NodeIds(y)
      BY <1>3, <1>5, NodesFacts
    <2> QED BY <1>1, <1>5, <2>1, <2>2
  <1>7. FlagType'
    BY <1>1, <1>3 DEF PathInv, FlagType, HandleSealed, Handled
  <1>8. ts' = afterDrain(ts) /\ previewNodes' = <<>>
    BY DEF HandleSealed
  <1> QED BY <1>2, <1>6, <1>7, <1>8, StreamDrained, HandlePath

LEMMA HandleToolUsePath == ASSUME ChatInv, PathInv, HandleToolUse PROVE PathInv'
  <1>1. PICK m, x : m = inflight /\ x = m.id
    OBVIOUS
  <1>2. reader = "msg" /\ Handled /\ m.t = "toolUse" /\ m \in Msgs
    <2>1. reader = "msg" /\ Handled /\ m.t = "toolUse"
      BY <1>1 DEF HandleToolUse, Handling
    <2> QED BY <1>1, <2>1 DEF ChatInv, ChainInv, CsTypeOK, ChanType
  <1>3. x \in Nat /\ run \in Nat /\ scrollback \in Seq(Nodes)
    BY <1>1, <1>2, MsgFields, PathTypes
  <1>4. PICK y : y = ToolNode(x)
    OBVIOUS
  <1>5. y \in Nodes /\ NodeIds(y) = <<x>> /\ MsgIds(m) = <<x>>
    <2>1. y \in Nodes /\ y.n = "tool" /\ y.id = x
      BY <1>3, <1>4, NodeFacts
    <2> QED BY <1>1, <1>2, <2>1 DEF NodeIds, MsgIds
  <1>6. NodesIds(scrollback') = NodesIds(scrollback) \o MsgIds(inflight)
    <2>1. scrollback' = Append(scrollback, y)
      BY <1>1, <1>4 DEF HandleToolUse
    <2>2. NodesIds(Append(scrollback, y)) = NodesIds(scrollback) \o NodeIds(y)
      BY <1>3, <1>5, NodesFacts
    <2> QED BY <1>1, <1>5, <2>1, <2>2
  <1>7. FlagType'
    BY DEF PathInv, FlagType, HandleToolUse, Handled
  <1>8. Streamed' = Streamed
    BY DEF Streamed, HandleToolUse
  <1> QED BY <1>2, <1>6, <1>7, <1>8, StreamKept, HandlePath

LEMMA HandleToolResultPath == ASSUME ChatInv, PathInv, HandleToolResult PROVE PathInv'
  <1>1. PICK m, id : m = inflight /\ id = m.id
    OBVIOUS
  <1>2. reader = "msg" /\ Handled /\ m.t = "toolResult" /\ m \in Msgs
    <2>1. reader = "msg" /\ Handled /\ m.t = "toolResult"
      BY <1>1 DEF HandleToolResult, Handling
    <2> QED BY <1>1, <2>1 DEF ChatInv, ChainInv, CsTypeOK, ChanType
  <1>3. id \in Nat /\ run \in Nat /\ scrollback \in Seq(Nodes) /\ MsgIds(m) = <<>>
    BY <1>1, <1>2, MsgFields, PathTypes DEF MsgIds
  <1>4. NodesIds(scrollback') = NodesIds(scrollback)
    <2>1. CASE scrollback' = scrollback
      BY <2>1
    <2>2. CASE scrollback' # scrollback
      <3>1. PICK st, sb, x : /\ st = (IF m.isError THEN "error" ELSE "resolved")
                             /\ sb = settle(scrollback, id, st) /\ x = ResultNode(id)
        OBVIOUS
      <3>2. scrollback' = Append(sb, x)
        BY <1>1, <2>2, <3>1 DEF HandleToolResult
      <3>3. st \in {"error", "resolved"}
        BY <3>1
      <3>4. sb \in Seq(Nodes) /\ NodesIds(sb) = NodesIds(scrollback)
        BY <1>3, <3>1, <3>3, SettleFacts, SettleIds
      <3>5. x \in Nodes /\ x.n = "result"
        BY <1>3, <3>1, NodeFacts
      <3> QED BY <3>2, <3>4, <3>5, NodesQuiet
    <2> QED BY <2>1, <2>2
  <1>5. NodesIds(scrollback') = NodesIds(scrollback) \o MsgIds(inflight)
    <2>1. NodesIds(scrollback) \in Seq(Nat)
      BY PathTypes
    <2> QED BY <1>1, <1>3, <1>4, <2>1, NumbersEmpty
  <1>6. FlagType'
    BY DEF PathInv, FlagType, HandleToolResult, Handled
  <1>7. Streamed' = Streamed
    BY DEF Streamed, HandleToolResult
  <1> QED BY <1>2, <1>5, <1>6, <1>7, StreamKept, HandlePath

LEMMA HandleFinishPath == ASSUME ChatInv, PathInv, HandleFinish PROVE PathInv'
  <1>1. PICK m, f : m = inflight /\ f = m.finish
    OBVIOUS
  <1>2. reader = "msg" /\ Handled /\ m.t = "finish" /\ m \in Msgs
    <2>1. reader = "msg" /\ Handled /\ m.t = "finish"
      BY <1>1 DEF HandleFinish, Handling
    <2> QED BY <1>1, <2>1 DEF ChatInv, ChainInv, CsTypeOK, ChanType
  <1>3. f \in FinishReasons /\ run \in Nat /\ scrollback \in Seq(Nodes) /\ MsgIds(m) = <<>>
    BY <1>1, <1>2, MsgFields, PathTypes DEF MsgIds
  <1>4. NodesIds(scrollback') = NodesIds(scrollback)
    <2>1. PICK fn : fn = finishNodes(f) /\ scrollback' = scrollback \o fn
      BY <1>1 DEF HandleFinish
    <2>2. fn = <<>> \/ \E v \in Verdicts : fn = <<Marker(v)>>
      BY <1>3, <2>1, FinishNodesFacts
    <2>3. CASE fn = <<>>
      <3>1. scrollback \o <<>> = scrollback
        BY <1>3, ConcatEmptySeq
      <3> QED BY <2>1, <2>3, <3>1
    <2>4. ASSUME NEW v \in Verdicts, fn = <<Marker(v)>> PROVE NodesIds(scrollback') = NodesIds(scrollback)
      <3>1. PICK x : x = Marker(v)
        OBVIOUS
      <3>2. x \in Nodes /\ x.n = "marker"
        BY <1>3, <3>1, NodeFacts
      <3>3. scrollback' = Append(scrollback, x)
        BY <1>3, <2>1, <2>4, <3>1, <3>2
      <3> QED BY <1>3, <3>2, <3>3, NodesQuiet
    <2> QED BY <2>2, <2>3, <2>4
  <1>5. NodesIds(scrollback') = NodesIds(scrollback) \o MsgIds(inflight)
    <2>1. NodesIds(scrollback) \in Seq(Nat)
      BY PathTypes
    <2> QED BY <1>1, <1>3, <1>4, <2>1, NumbersEmpty
  <1>6. FlagType'
    BY DEF PathInv, FlagType, HandleFinish, Handled
  <1>7. ts' = afterDrain(ts) /\ previewNodes' = <<>>
    BY DEF HandleFinish
  <1> QED BY <1>2, <1>5, <1>6, <1>7, StreamDrained, HandlePath

LEMMA StreamDonePath == ASSUME ChatInv, PathInv, StreamDone PROVE PathInv'
  <1>1. PICK q, note : /\ q = previewNodes \o Preview(drainChunks(ts).emitted)
                       /\ note = IF finishHandled THEN <<>> ELSE <<Marker("cancelled")>>
    OBVIOUS
  <1>2. PICK S, f, B, c, a : /\ S = NodesIds(scrollback) /\ f = NodesIds(q) /\ B = Streamed /\ c = Streamed'
                             /\ a = accepted
    OBVIOUS
  <1>3. ts' = afterDrain(ts) /\ previewNodes' = <<>>
    BY DEF StreamDone
  <1>4. c \in Seq(Nat) /\ f \in Seq(Nat) /\ q \in Seq(Nodes) /\ B = f \o c
    BY <1>1, <1>2, <1>3, StreamDrained
  <1>5. /\ S \in Seq(Nat) /\ scrollback \in Seq(Nodes) /\ run \in Nat /\ stamp \in Nat
    BY <1>2, PathTypes
  <1>6. ctrl = <<>> /\ prod = "exited" /\ todo = <<>> /\ inflight = NoMsg
    BY DEF StreamDone, ChatInv, ChainInv
  <1>7. OnPath = <<>> /\ OnPath' = <<>>
    <2>1. OnPath = <<>>
      BY <1>6, MsgsFacts, NumbersEmpty DEF OnPath, Segment
    <2>2. OnPath' = OnPath
      BY DEF OnPath, Segment, StreamDone, prodVars
    <2> QED BY <2>1, <2>2
  <1>8. NodesIds(scrollback') = S \o f
    <2>1. PICK w : w = scrollback \o q
      OBVIOUS
    <2>2. scrollback' = w \o note
      BY <1>1, <2>1 DEF StreamDone
    <2>3. w \in Seq(Nodes) /\ NodesIds(w) = S \o f
      <3>1. w \in Seq(Nodes)
        BY <1>4, <1>5, <2>1, ConcatProperties
      <3>2. NodesIds(scrollback \o q) = NodesIds(scrollback) \o NodesIds(q)
        BY <1>4, <1>5, NodesFacts
      <3> QED BY <1>2, <2>1, <3>1, <3>2
    <2>4. CASE note = <<>>
      <3>1. w \o <<>> = w
        BY <2>3, ConcatEmptySeq
      <3> QED BY <2>2, <2>3, <2>4, <3>1
    <2>5. CASE note # <<>>
      <3>1. PICK x : x = Marker("cancelled")
        OBVIOUS
      <3>2. x \in Nodes /\ x.n = "marker"
        BY <1>5, <3>1, NodeFacts DEF Verdicts
      <3>3. scrollback' = Append(w, x)
        BY <1>1, <2>2, <2>3, <2>5, <3>1, <3>2
      <3> QED BY <2>3, <3>2, <3>3, NodesQuiet
    <2> QED BY <2>4, <2>5
  <1>9. Account(S, <<>>, f \o c, stamp, a, FALSE, cancelled = {})
    <2>1. Account(S, <<>>, f \o c, stamp, a, prod = "run", cancelled = {})
      BY <1>2, <1>4, <1>7 DEF PathInv
    <2>2. stamp <= stamp /\ a \subseteq a
      BY <1>5
    <2> QED BY <1>5, <2>1, <2>2, AccWeaken
  <1>10. Account(S \o f, <<>>, c, stamp, a, FALSE, cancelled = {})
    BY <1>4, <1>9, AccEnd
  <1>11. UNCHANGED <<cancelled, prod, stamp, accepted>> /\ reader' = "none"
    BY DEF StreamDone, prodVars
  <1>12. Account(S \o f, <<>>, c, stamp, a, prod' = "run", cancelled' = {})
    <2>1. stamp <= stamp /\ a \subseteq a /\ prod' # "run"
      BY <1>5, <1>6, <1>11
    <2>2. Account(S \o f, <<>>, c, stamp, a, FALSE, cancelled' = {})
      BY <1>10, <1>11
    <2> QED BY <1>5, <2>1, <2>2, AccWeaken
  <1>13. FlagType'
    <2>1. sawContent' \in BOOLEAN
      BY DEF StreamDone
    <2> QED BY <2>1 DEF FlagType, StreamDone
  <1> QED BY <1>2, <1>6, <1>7, <1>8, <1>11, <1>12, <1>13, PathNext

LEMMA PathStutter == ASSUME ChatInv, PathInv, UNCHANGED vars PROVE PathInv'
  <1>1. OnPath' = OnPath /\ Streamed' = Streamed /\ stamp \in Nat
    BY PathTypes DEF OnPath, Segment, Streamed, vars, prodVars, uiVars
  <1>2. /\ UNCHANGED <<cancelled, previewNodes, prod, phase, segBuf, stamp, accepted, scrollback, reader>>
        /\ UNCHANGED <<finishHandled, sawContent, sawThinking, sealedTruncated, streaming>>
    BY DEF vars, prodVars, uiVars
  <1> QED BY <1>1, <1>2, MovePath

LEMMA PathStep == ASSUME ChatInv, PathInv, [Next]_vars PROVE PathInv'
  <1>1. CASE Submit
    BY <1>1, SubmitPath
  <1>2. CASE HandleCancel \/ \E r \in 1..MaxRuns : RunCancel(r)
    BY <1>2, CancelPath
  <1>3. CASE ProducerStep
    <2>1. CASE \E k \in TextKinds : EmitText(k)
      BY <2>1, EmitTextPath
    <2>2. CASE EmitThinking
      BY <2>2, EmitThinkingPath
    <2>3. CASE EmitToolCall
      BY <2>3, EmitToolCallPath
    <2>4. CASE \E e \in BOOLEAN : EmitToolResult(e)
      BY <2>4, EmitToolResultPath
    <2>5. CASE \E f \in FinishReasons : EmitFinish(f)
      BY <2>5, EmitFinishPath
    <2>6. CASE Send
      BY <2>6, SendPath
    <2>7. CASE SendCancelled
      BY <2>7, SendCancelledPath
    <2>8. CASE CloseStream \/ CloseCtrl
      BY <2>8, ClosePath
    <2> QED BY <1>3, <2>1, <2>2, <2>3, <2>4, <2>5, <2>6, <2>7, <2>8 DEF ProducerStep
  <1>4. CASE ConsumerStep
    <2>1. CASE StartLoop
      BY <2>1, StartLoopPath
    <2>2. CASE ArmReader \/ ReadCtrl
      BY <2>2, ReadPath
    <2>3. CASE HandleTick
      BY <2>3, HandleTickPath
    <2>4. CASE HandleSealed
      BY <2>4, HandleSealedPath
    <2>5. CASE HandleThinking
      BY <2>5, HandleThinkingPath
    <2>6. CASE HandleToolUse
      BY <2>6, HandleToolUsePath
    <2>7. CASE HandleToolResult
      BY <2>7, HandleToolResultPath
    <2>8. CASE HandleFinish
      BY <2>8, HandleFinishPath
    <2>9. CASE StreamDone
      BY <2>9, StreamDonePath
    <2> QED BY <1>4, <2>1, <2>2, <2>3, <2>4, <2>5, <2>6, <2>7, <2>8, <2>9 DEF ConsumerStep
  <1>5. CASE Idle \/ UNCHANGED vars
    BY <1>5, PathStutter DEF Idle
  <1> QED BY <1>1, <1>2, <1>3, <1>4, <1>5 DEF Next

LEMMA PathInvariant == Spec => [](ChatInv /\ PathInv)
  <1>1. Init => ChatInv /\ PathInv
    BY CsInitLemma, PathInit
  <1>2. ChatInv /\ PathInv /\ [Next]_vars => (ChatInv /\ PathInv)'
    BY ChatStep, PathStep
  <1> QED BY <1>1, <1>2, PTL DEF Spec

(* What a run says reaches the scrollback in the order Run emits it: what  *)
(* is shown for the first time is later than all that is shown above it,   *)
(* although text travels twice, as preview through the TokenStream and as  *)
(* sealed segment through the control channel; and unless the user cancels *)
(* all the text the stream took is on the screen when the run has ended.   *)
THEOREM ShownTheorem == Spec => []ShownComplete
  <1>1. ChatInv /\ PathInv => ShownComplete
    <2> SUFFICES ASSUME ChatInv, PathInv PROVE ShownComplete
      OBVIOUS
    <2>1. PICK s : s = NodesIds(scrollback)
      OBVIOUS
    <2>2. scrollback \in Seq(Nodes) /\ stamp \in Nat
      BY PathTypes
    <2>3. Shown = s
      <3>1. ASSUME NEW i \in DOMAIN scrollback
            PROVE  NodeFun[scrollback[i]] = CASE scrollback[i].n = "text" -> TokenIds(scrollback[i])
                                              [] scrollback[i].n = "tool" -> <<scrollback[i].id>>
                                              [] OTHER -> <<>>
        <4>1. PICK x : x = scrollback[i] /\ x \in Nodes
          BY <2>2, <3>1
        <4>2. NodeFun[x] = NodeIds(x) /\ TokenIds(x) = IdsOf(x.text)
          BY <4>1 DEF NodeFun, TokenIds, IdsOf
        <4>3. CASE x.n = "text"
          BY <4>1, <4>2, <4>3 DEF NodeIds
        <4>4. CASE x.n = "tool"
          BY <4>1, <4>2, <4>4 DEF NodeIds
        <4>5. CASE x.n \notin {"text", "tool"}
          BY <4>1, <4>2, <4>5 DEF NodeIds
        <4> QED BY <4>3, <4>4, <4>5
      <3>2. [i \in DOMAIN scrollback |-> NodeFun[scrollback[i]]]
              = [i \in DOMAIN scrollback |->
                   CASE scrollback[i].n = "text" -> TokenIds(scrollback[i])
                     [] scrollback[i].n = "tool" -> <<scrollback[i].id>>
                     [] OTHER -> <<>>]
        BY <3>1
      <3> QED BY <2>1, <3>2 DEF Shown, NodesIds, Flat
    <2>4. Account(s, OnPath, Streamed, stamp, accepted, prod = "run", cancelled = {})
      BY <2>1 DEF PathInv
    <2>5. FirstShownInOrder
      BY <2>3, <2>4 DEF Account, FirstInOrder, FirstShownInOrder
    <2>6. NothingLostUncancelled
      <3>1. SUFFICES ASSUME ~streaming, cancelled = {} PROVE accepted \subseteq ToSet(s)
        BY <2>3 DEF NothingLostUncancelled
      <3>2. OnPath = <<>>
        <4>1. ctrl = <<>> /\ prod # "run" /\ todo = <<>> /\ inflight = NoMsg
          BY <3>1 DEF ChatInv, ChainInv
        <4> QED BY <4>1, MsgsFacts, NumbersEmpty DEF OnPath, Segment
      <3>3. accepted \subseteq Elems(s) \cup Elems(<<>>) /\ s \in Seq(Nat)
        BY <2>4, <3>1, <3>2 DEF Account
      <3>4. Elems(<<>>) = {} /\ Elems(s) = ToSet(s)
        BY <3>3, ElemsOne DEF Elems, ToSet
      <3> QED BY <3>3, <3>4
    <2>7. TypeOK
      <3>1. \A m \in Msgs \cup {NoMsg} : KnownMsg(m)
        BY MsgFields, MsgFacts DEF KnownMsg
      <3>2. ToSet(ctrl) \cup ToSet(todo) \cup {inflight} \subseteq Msgs \cup {NoMsg}
        <4>1. ctrl \in Seq(Msgs) /\ todo \in Seq(Msgs) /\ inflight \in Msgs \cup {NoMsg}
          BY PathTypes DEF ChatInv, CsTypeOK, ChanType
        <4> QED BY <4>1 DEF ToSet
      <3>3. \A m \in ToSet(ctrl) \cup ToSet(todo) \cup {inflight} : KnownMsg(m)
        BY <3>1, <3>2
      <3> QED BY <3>3 DEF TypeOK, ChatInv, CsTypeOK, RunType, ChanType, ProdType, PathInv, FlagType
    <2> QED BY <2>5, <2>6, <2>7 DEF ShownComplete
  <1> QED BY <1>1, PathInvariant, PTL
=============================================================================
