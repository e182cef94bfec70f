--------------------------- MODULE TokenStreamOps ---------------------------
(***************************************************************************)
(* The sequential part of streaming.TokenStream                            *)
(* (src/internal/app/cli/render/streaming/stream.go): what one call does   *)
(* to the state the mutex protects, and to the token channel.  A token is  *)
(* a record [id, kind]: "part" is text without a newline, "line" is text   *)
(* that ends with one, "fence" completes a run of three backticks.  A      *)
(* block is the sequence of tokens it shows, and the two flags it carries. *)
(***************************************************************************)
EXTENDS Naturals, SequencesExt

CONSTANT LineBufCap    \* streamOptions.lineBufCap, in tokens

ASSUME LineBufCapAssumption == LineBufCap \in Nat \ {0}

NoToken == [id |-> 0, kind |-> "none"]

NewTokenStream ==
    [tokens |-> <<>>, lineBuf |-> <<>>, emitted |-> <<>>,
     openFence |-> FALSE, finish |-> "Unset", sawContent |-> FALSE,
     closed |-> FALSE]

emitWholeBuffer(s, trunc, cont) ==
    IF s.lineBuf = <<>> THEN s
    ELSE [s EXCEPT !.lineBuf = <<>>,
                   !.emitted = Append(@, [text |-> s.lineBuf,
              truncated |-> trunc, continued |-> cont, empty |-> FALSE])]

(* Outside a fence only the newest token can hold a newline. *)
tryEmitLines(s) ==
    IF Last(s.lineBuf).kind = "line" \/ Len(s.lineBuf) > LineBufCap
    THEN emitWholeBuffer(s, FALSE, Last(s.lineBuf).kind # "line")
    ELSE s

flushPartial(s, trunc) ==
    LET f == emitWholeBuffer(s, trunc, FALSE) IN
    IF ~s.sawContent /\ s.finish = "Stop"
    THEN [f EXCEPT !.emitted = Append(@, [text |-> <<>>, truncated |-> FALSE,
                                  continued |-> FALSE, empty |-> TRUE])]
    ELSE f

(* The token half of processChunkUnsafe, with scanFenceStateUnsafe. *)
appendToken(s, t) ==
    LET inFence == s.openFence # (t.kind = "fence")
        w == [s EXCEPT !.sawContent = TRUE, !.lineBuf = Append(@, t),
                       !.openFence = inFence]
    IN  CASE inFence /\ Len(w.lineBuf) > LineBufCap ->
                emitWholeBuffer(w, FALSE, TRUE)
          [] inFence /\ Len(w.lineBuf) <= LineBufCap -> w
          [] ~inFence /\ t.kind = "fence" -> emitWholeBuffer(w, FALSE, FALSE)
          [] OTHER -> tryEmitLines(w)

(* A chunk is [token, finish]; finish "Error" stands for a non-nil Err. *)
processChunk(s, c) ==
    LET w == IF c.token = NoToken THEN s ELSE appendToken(s, c.token) IN
    IF c.finish = "Unset" THEN w
    ELSE flushPartial([w EXCEPT !.finish = c.finish],
                      c.finish \in {"Length", "Error"})

(* The chunks are processed in the order of the channel. *)
drainChunks(s) ==
    LET after[n \in 0..Len(s.tokens)] ==
            IF n = 0 THEN s ELSE processChunk(after[n - 1], s.tokens[n])
    IN  [after[Len(s.tokens)] EXCEPT !.tokens = <<>>]

(* The stream after Drain; the caller owns drainChunks(s).emitted. *)
afterDrain(s) == [drainChunks(s) EXCEPT !.emitted = <<>>]

truncatedFinish(s) == s.finish \in {"Length", "Cancelled", "Error"}

flushRest(s) ==
    IF s.lineBuf = <<>> THEN s ELSE flushPartial(s, truncatedFinish(s))

(* Mutant: Close overwrites the finish reason of the stream. *)
afterClose_Overwrites(s) ==
    IF s.closed THEN s
    ELSE flushRest([drainChunks([s EXCEPT !.closed = TRUE])
                    EXCEPT !.finish = "Stop"])

afterClose(s) ==
    IF s.closed THEN s
    ELSE LET d == drainChunks([s EXCEPT !.closed = TRUE]) IN
         flushRest(IF d.finish = "Unset" THEN [d EXCEPT !.finish = "Cancelled"]
                                         ELSE d)

(* The stream after Flush; the caller gets the last of Flushed(s). *)
Flushed(s) == flushRest(drainChunks(s)).emitted
afterFlush(s) == [flushRest(drainChunks(s)) EXCEPT !.emitted = <<>>]
=============================================================================
