----------------------------- MODULE TraceSpans -----------------------------
(***************************************************************************)
(* Trace context of the logger: uuid7 ids from a possibly skewed clock,    *)
(* spans whose state is replaced by compare-and-swap from several          *)
(* goroutines, and the sidecar events that carry their ids.                *)
(***************************************************************************)
EXTENDS Integers, Sequences, FiniteSets, SequencesExt

CONSTANTS
    Spans,       \* spans 1..n, opened in that order
    Keys,        \* attribute keys callers set
    Goroutines,  \* goroutines that share the spans
    SeqLimit,    \* 0x1000
    MaxSwaps,    \* SetAttr and RecordError calls on one span
    MaxMs,       \* largest wall-clock reading
    MaxEvents    \* log calls bound to a span's context

ASSUME TraceSpansAssumption ==
    SeqLimit \in Nat \ {0} /\ MaxMs \in Nat /\ Spans = 1..Cardinality(Spans)

VARIABLES
    clock,     \* uuid7State: <<lastMs, lastSeq>>
    issued,    \* ids handed out, in order
    span,      \* spans opened: trace, id, parent (0: none)
    spanState, \* the atomic pointer: attrs, err, ended, version (its identity)
    starting,  \* each goroutine's StartSpan that has drawn its trace id
    op,        \* what each goroutine is doing: load done, compare-and-swap due
    stored,    \* attributes whose SetAttr took effect
    events     \* sidecar events

tsVars == <<clock, issued, span, spanState, starting, op, stored, events>>

Opened == 1..Len(span)
NoOp == [kind |-> "none"]
Reserved == {"event", "trace_id", "span_id"}

(* <<ms, seq>> pairs compare as the bytes of the id do. *)
Before(a, b) == a[1] < b[1] \/ (a[1] = b[1] /\ a[2] < b[2])

(* Never behind the last id: a clock set back is held, a full millisecond  *)
(* borrows the next one.                                                   *)
nextUUID7TimestampAndSeq(now) ==
    LET ms == IF now < clock[1] THEN clock[1] ELSE now
    IN  IF ms > clock[1] THEN <<ms, 0>>
        ELSE IF clock[2] + 1 >= SeqLimit THEN <<ms + 1, 0>>
        ELSE <<ms, clock[2] + 1>>

TsInit ==
    /\ clock = <<0, 0>> /\ issued = <<>> /\ span = <<>> /\ spanState = <<>> /\ stored = <<>>
    /\ starting = [g \in Goroutines |-> NoOp] /\ op = [g \in Goroutines |-> NoOp] /\ events = <<>>

(* A span is opened under the one its context carries, if any: a fresh     *)
(* trace id is drawn either way and dropped for the parent's.              *)
StartSpan(g, parent, now) ==
    /\ starting[g] = NoOp /\ op[g] = NoOp
    /\ Len(span) + Cardinality({h \in Goroutines : starting[h] # NoOp}) < Cardinality(Spans)
    /\ clock' = nextUUID7TimestampAndSeq(now)
    /\ issued' = Append(issued, clock')
    /\ starting' = [starting EXCEPT ![g] =
           [parent |-> parent, trace |-> IF parent = 0 THEN clock' ELSE span[parent].trace]]
    /\ UNCHANGED <<span, spanState, op, stored, events>>

(* Its own id is a second draw: others may draw, and the clock may step    *)
(* back, in between.                                                       *)
SpanStarted(g, now) ==
    /\ starting[g] # NoOp
    /\ clock' = nextUUID7TimestampAndSeq(now)
    /\ issued' = Append(issued, clock')
    /\ span' = Append(span, [id |-> clock', parent |-> starting[g].parent, trace |-> starting[g].trace])
    /\ spanState' = Append(spanState, [attrs |-> {}, err |-> FALSE, ended |-> FALSE, version |-> 0])
    /\ stored' = Append(stored, {})
    /\ starting' = [starting EXCEPT ![g] = NoOp]
    /\ UNCHANGED <<op, events>>

(* Load: the state the new one is built from; nothing to do once ended. *)
LoadSpan(g, s, kind, key) ==
    /\ op[g] = NoOp /\ starting[g] = NoOp /\ ~spanState[s].ended
    /\ kind = "end" \/ spanState[s].version < MaxSwaps
    /\ op' = [op EXCEPT ![g] = [kind |-> kind, span |-> s, key |-> key, old |-> spanState[s]]]
    /\ UNCHANGED <<clock, issued, span, spanState, starting, stored, events>>

Swapped(g) ==
    LET o == op[g]
        old == o.old
        next == [old EXCEPT !.version = @ + 1]
    IN  CASE o.kind = "attr" -> [next EXCEPT !.attrs = @ \cup {o.key}]
          [] o.kind = "error" -> [next EXCEPT !.err = TRUE]
          [] o.kind = "end" -> [next EXCEPT !.ended = TRUE]

casSucceeds_Blind(g) == TRUE
casSucceeds(g) == spanState[op[g].span] = op[g].old

(* The context's ids win over trace_id and span_id attributes. *)
marshalSidecarEvent(kind, s, attrTrace, attrs, err) ==
    [kind |-> kind, span |-> s, id |-> span[s].id, attrs |-> attrs, err |-> err,
     trace |-> IF span[s].trace # <<>> THEN span[s].trace ELSE attrTrace]

(* emitSpanEnd: reserved keys among the span's attributes are skipped. *)
emitSpanEnd(s, st) ==
    Append(events, marshalSidecarEvent("span.end", s, span[s].trace, st.attrs \ Reserved, st.err))

CompareAndSwap(g) ==
    /\ op[g] # NoOp
    /\ LET s == op[g].span IN
       /\ casSucceeds(g)
       /\ spanState' = [spanState EXCEPT ![s] = Swapped(g)]
       /\ stored' = IF op[g].kind = "attr" THEN [stored EXCEPT ![s] = @ \cup {op[g].key}] ELSE stored
       /\ events' = IF op[g].kind = "end" THEN emitSpanEnd(s, op[g].old) ELSE events
    /\ op' = [op EXCEPT ![g] = NoOp]
    /\ UNCHANGED <<clock, issued, span, starting>>

(* A conflict loads again; a span ended meanwhile swallows the call. *)
Retry(g) ==
    /\ op[g] # NoOp /\ ~casSucceeds(g)
    /\ LET now == spanState[op[g].span]
       IN  op' = [op EXCEPT ![g] = IF now.ended THEN NoOp ELSE [@ EXCEPT !.old = now]]
    /\ UNCHANGED <<clock, issued, span, spanState, starting, stored, events>>

(* A log call through WithContext, with a trace_id attribute of its own. *)
LogInContext(s, attrTrace) ==
    /\ Len(SelectSeq(events, LAMBDA e : e.kind = "log")) < MaxEvents
    /\ events' = Append(events, marshalSidecarEvent("log", s, attrTrace, {}, FALSE))
    /\ UNCHANGED <<clock, issued, span, spanState, starting, op, stored>>

TsDone ==
    /\ Len(span) = Cardinality(Spans) /\ \A s \in Opened : spanState[s].ended
    /\ \A g \in Goroutines : op[g] = NoOp
    /\ UNCHANGED tsVars

TsNext ==
    \/ \E g \in Goroutines, now \in 0..MaxMs :
         \/ \E parent \in 0..Len(span) : StartSpan(g, parent, now)
         \/ SpanStarted(g, now)
    \/ \E g \in Goroutines :
         \/ \E s \in Opened : \E k \in Keys : LoadSpan(g, s, "attr", k)
         \/ \E s \in Opened, kind \in {"error", "end"} : LoadSpan(g, s, kind, "none")
         \/ CompareAndSwap(g) \/ Retry(g)
    \/ \E s \in Opened, t \in {<<>>} \cup {span[p].trace : p \in Opened} : LogInContext(s, t)
    \/ TsDone

TsSpec == TsInit /\ [][TsNext]_tsVars
-----------------------------------------------------------------------------
(* uuid7's contract: ids strictly increase in the order they are drawn,    *)
(* whatever the wall clock does.                                           *)
IdsIncrease == \A i \in 1..Len(issued) - 1 : Before(issued[i], issued[i+1])

Ends(s) == {i \in DOMAIN events : events[i].kind = "span.end" /\ events[i].span = s}

(* A span ends once, and its event carries every attribute whose SetAttr   *)
(* took effect: none is lost to a concurrent SetAttr, RecordError or End.  *)
SpanEndComplete ==
    \A s \in Opened :
        /\ Cardinality(Ends(s)) = IF spanState[s].ended THEN 1 ELSE 0
        /\ \A i \in Ends(s) : events[i].attrs = stored[s] \ Reserved

(* Every event of a tree of spans carries the trace id of its root, and    *)
(* two trees never share one.                                              *)
TraceShared ==
    LET root[s \in Opened] == IF span[s].parent = 0 THEN s ELSE root[span[s].parent]
    IN  \A i, j \in DOMAIN events :
          (root[events[i].span] = root[events[j].span]) <=> (events[i].trace = events[j].trace)

(* A trace can be put together again: ordered ids, one trace id for a      *)
(* tree, and span ends with every attribute, for all races of its          *)
(* goroutines.                                                             *)
TracesSound == IdsIncrease /\ SpanEndComplete /\ TraceShared
=============================================================================
