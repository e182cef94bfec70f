---------------------------- MODULE TokenStream -----------------------------
(***************************************************************************)
(* streaming.TokenStream with its callers: producers in AppendChunk, the   *)
(* main loop in Drain (or the legacy Flush), and whoever calls Close.  The *)
(* channel send of AppendChunk is outside the mutex and the closed check   *)
(* before it is not atomic with it, so a send may land after Close.        *)
(***************************************************************************)
EXTENDS TokenStreamOps

CONSTANTS
    Producers,   \* goroutines that call AppendChunk
    Kinds,       \* token kinds they send
    ChanCap,     \* streamOptions.chanCap
    MaxChunks    \* BOUND: chunks sent over the life of the stream

ASSUME StreamAssumption == ChanCap \in Nat \ {0} /\ MaxChunks \in Nat

VARIABLES
    stream,      \* the stream
    tsCtxDone,   \* s.ctx is done
    pc,          \* per producer: where AppendChunk is
    chunk,       \* per producer: its argument
    made,        \* chunks created so far
    sent,        \* history: tokens accepted by the channel, in order
    gone,        \* history: tokens that left the stream, in order
    late,        \* history: tokens accepted after Close drained the channel
    blocks,      \* history: blocks Drain returned
    flushed      \* history: Flush was called

tsVars == <<stream, tsCtxDone, pc, chunk, made, sent, gone, late, blocks, flushed>>

ChunkFinishes == {"Unset", "Stop", "Length", "Error"}
Tokens == [id : 1..MaxChunks, kind : Kinds]
NoChunk == [token |-> NoToken, finish |-> "Unset"]
Chunks == [token : Tokens \cup {NoToken}, finish : ChunkFinishes]

Text(bs) == FlattenSeq([i \in DOMAIN bs |-> bs[i].text])

TsInit ==
    /\ stream = NewTokenStream
    /\ tsCtxDone = FALSE
    /\ pc = [p \in Producers |-> "idle"]
    /\ chunk = [p \in Producers |-> NoChunk]
    /\ made = 0
    /\ sent = <<>>
    /\ gone = <<>>
    /\ late = {}
    /\ blocks = <<>>
    /\ flushed = FALSE

(* AppendChunk up to the channel select: refused if closed or ctx done. *)
AppendCheck(p) ==
    /\ pc[p] = "idle"
    /\ made < MaxChunks
    /\ made' = made + 1
    /\ IF stream.closed \/ tsCtxDone
       THEN UNCHANGED <<pc, chunk>>
       ELSE \E k \in Kinds, f \in ChunkFinishes :
              /\ chunk' = [chunk EXCEPT ![p] =
                            [token |-> [id |-> made + 1, kind |-> k],
                             finish |-> f]]
              /\ pc' = [pc EXCEPT ![p] = "send"]
    /\ UNCHANGED <<stream, tsCtxDone, sent, gone, late, blocks, flushed>>

(* An empty token with a finish reason: the thinking-only end. *)
AppendFinishOnly(p) ==
    /\ pc[p] = "idle"
    /\ made < MaxChunks
    /\ ~stream.closed /\ ~tsCtxDone
    /\ made' = made + 1
    /\ chunk' = [chunk EXCEPT ![p] = [token |-> NoToken, finish |-> "Stop"]]
    /\ pc' = [pc EXCEPT ![p] = "send"]
    /\ UNCHANGED <<stream, tsCtxDone, sent, gone, late, blocks, flushed>>

(* The select: the send, if the channel has room ... *)
AppendSend(p) ==
    /\ pc[p] = "send"
    /\ Len(stream.tokens) < ChanCap
    /\ stream' = [stream EXCEPT !.tokens = Append(@, chunk[p])]
    /\ pc' = [pc EXCEPT ![p] = "idle"]
    /\ chunk' = [chunk EXCEPT ![p] = NoChunk]
    /\ sent' = IF chunk[p].token = NoToken THEN sent
               ELSE Append(sent, chunk[p].token)
    /\ late' = IF stream.closed /\ chunk[p].token # NoToken
               THEN late \cup {chunk[p].token.id} ELSE late
    /\ UNCHANGED <<tsCtxDone, made, gone, blocks, flushed>>

(* ... or ctx.Done(). *)
AppendCancelled(p) ==
    /\ pc[p] = "send"
    /\ tsCtxDone
    /\ pc' = [pc EXCEPT ![p] = "idle"]
    /\ chunk' = [chunk EXCEPT ![p] = NoChunk]
    /\ UNCHANGED <<stream, tsCtxDone, made, sent, gone, late, blocks, flushed>>

Drain ==
    /\ stream.tokens # <<>> \/ stream.emitted # <<>>
    /\ stream' = afterDrain(stream)
    /\ gone' = gone \o Text(drainChunks(stream).emitted)
    /\ blocks' = blocks \o drainChunks(stream).emitted
    /\ UNCHANGED <<tsCtxDone, pc, chunk, made, sent, late, flushed>>

(* The legacy entry empties the stream and hands out its last block; the   *)
(* blocks before it leave the stream unseen.                               *)
Flush ==
    /\ stream.tokens # <<>> \/ stream.emitted # <<>> \/ stream.lineBuf # <<>>
    /\ stream' = afterFlush(stream)
    /\ gone' = gone \o Text(Flushed(stream))
    /\ flushed' = TRUE
    /\ UNCHANGED <<tsCtxDone, pc, chunk, made, sent, late, blocks>>

Close ==
    /\ ~stream.closed
    /\ stream' = afterClose(stream)
    /\ tsCtxDone' = TRUE
    /\ UNCHANGED <<pc, chunk, made, sent, gone, late, blocks, flushed>>

(* The context the stream was built with is cancelled. *)
CancelCtx ==
    /\ ~tsCtxDone
    /\ tsCtxDone' = TRUE
    /\ UNCHANGED <<stream, pc, chunk, made, sent, gone, late, blocks, flushed>>

Done ==
    /\ stream.closed /\ \A p \in Producers : pc[p] = "idle"
    /\ UNCHANGED tsVars

TsNext ==
    \/ \E p \in Producers :
        AppendCheck(p) \/ AppendFinishOnly(p) \/ AppendSend(p) \/ AppendCancelled(p)
    \/ Drain
    \/ Flush
    \/ Close
    \/ CancelCtx
    \/ Done

TsSpec == TsInit /\ [][TsNext]_tsVars
-----------------------------------------------------------------------------
Blocks == [text : Seq(Tokens), truncated : BOOLEAN, continued : BOOLEAN,
           empty : BOOLEAN]

(* Type invariant. *)
TsTypeOK ==
    /\ stream.tokens \in Seq(Chunks) /\ Len(stream.tokens) <= ChanCap
    /\ stream.lineBuf \in Seq(Tokens)
    /\ stream.emitted \in Seq(Blocks)
    /\ stream.openFence \in BOOLEAN /\ stream.closed \in BOOLEAN /\ stream.sawContent \in BOOLEAN
    /\ stream.finish \in ChunkFinishes \cup {"Cancelled"}
    /\ tsCtxDone \in BOOLEAN
    /\ pc \in [Producers -> {"idle", "send"}]
    /\ chunk \in [Producers -> Chunks]

TextOf(c) == IF c.token = NoToken THEN <<>> ELSE <<c.token>>
Pending == FlattenSeq([i \in DOMAIN stream.tokens |-> TextOf(stream.tokens[i])])

(* No text is lost, duplicated or reordered on its way through the         *)
(* channel, the line buffer and the emitted blocks, however sends, drains, *)
(* flushes, cap overflows and Close interleave.                            *)
Conservation == sent = gone \o Text(stream.emitted) \o stream.lineBuf \o Pending

(* Close leaves nothing behind except what producers that ignore its       *)
(* contract sent too late: one more Drain returns everything else.         *)
CloseFlushes ==
    stream.closed => \A t \in ToSet(stream.lineBuf) \cup ToSet(Pending) : t.id \in late

FencesIn(b) == Cardinality({i \in DOMAIN b.text : b.text[i].kind = "fence"})

(* A fenced section is shown in one block: a block with an unbalanced      *)
(* fence was forced out by the buffer cap, by an end of the stream, or     *)
(* follows one that was (or a Flush).                                      *)
FenceIntegrity ==
    \A i \in DOMAIN blocks :
        FencesIn(blocks[i]) % 2 = 1 =>
            \/ blocks[i].continued
            \/ \E j \in 1..(i - 1) : blocks[j].continued
            \/ stream.finish # "Unset"
            \/ flushed

(* A finish reason is never invented nor withdrawn: Stop, Length and Error *)
(* come from a chunk, and Close only fills in Cancelled where there is no  *)
(* reason.                                                                 *)
FinishFromChunk ==
    [][stream'.finish # stream.finish =>
        IF stream'.finish = "Cancelled" THEN stream.finish = "Unset" /\ ~stream.closed /\ stream'.closed
        ELSE \E i \in DOMAIN stream.tokens : stream.tokens[i].finish = stream'.finish]_tsVars

(* What AppendChunk accepts comes out of Drain: all the text once and in   *)
(* order, fences whole, and the finish reason the producer gave.           *)
StreamContract ==
    /\ [](TsTypeOK /\ Conservation /\ CloseFlushes /\ FenceIntegrity)
    /\ FinishFromChunk
=============================================================================
