----------------------------- MODULE InputLine ------------------------------
(***************************************************************************)
(* The input line of the demonstrator (demoapp.Model): editing at a rune   *)
(* cursor (input.ResolveMode, MoveCursor), the history Ring, and Up and    *)
(* Down through it with the unfinished line kept as a draft.               *)
(***************************************************************************)
EXTENDS Integers, Sequences, FiniteSets, SequencesExt

CONSTANTS
    InputRunes,     \* runes that may be typed
    RingCapacity,   \* input.RingCapacity (256 in the code)
    MaxLineLen,     \* BOUND: runes of the line
    MaxEntries      \* BOUND: lines submitted

ASSUME InputAssumption == RingCapacity \in Nat \ {0}

VARIABLES
    line, cursor,   \* Model.buffer as runes, Model.cursor
    ring,           \* [entries, head, size]
    nav,            \* historyNav
    submitted,      \* history: every line that was submitted
    draft           \* history: the line before the first Up

ilVars == <<line, cursor, ring, nav, submitted, draft>>

NoNav == [active |-> FALSE, index |-> 0, buffer |-> <<>>, cursor |-> 0]
-----------------------------------------------------------------------------
(* Ring: a line like the one before is not stored. *)
At(r, idx) == r.entries[(r.head - r.size + idx + RingCapacity) % RingCapacity]

RingPush(r, entry) ==
    IF entry = <<>> \/ (r.size > 0 /\ r.entries[(r.head - 1 + RingCapacity) % RingCapacity] = entry)
    THEN r
    ELSE [entries |-> [r.entries EXCEPT ![r.head] = entry],
          head |-> (r.head + 1) % RingCapacity,
          size |-> IF r.size < RingCapacity THEN r.size + 1 ELSE r.size]

(* ResolveMode and MoveCursor, by the action the key was bound to. *)
deleteAt(i) == RemoveAt(line, i)

DeleteBackward == IF cursor = 0 THEN <<line, cursor>> ELSE <<deleteAt(cursor), cursor - 1>>
DeleteForward == IF cursor = Len(line) THEN <<line, cursor>> ELSE <<deleteAt(cursor + 1), cursor>>
InsertRune(r) == <<InsertAt(line, cursor + 1, r), cursor + 1>>

MoveCursor(kind) ==
    CASE kind = "left" -> IF cursor > 0 THEN cursor - 1 ELSE 0
      [] kind = "right" -> IF cursor < Len(line) THEN cursor + 1 ELSE cursor
      [] kind = "home" -> 0
      [] kind = "end" -> Len(line)
-----------------------------------------------------------------------------
IlInit ==
    /\ line = <<>> /\ cursor = 0 /\ nav = NoNav /\ submitted = <<>> /\ draft = <<>>
    /\ ring = [entries |-> [i \in 0..RingCapacity-1 |-> <<>>], head |-> 0, size |-> 0]

(* An edit ends the navigation. *)
Edit(to) == line' = to[1] /\ cursor' = to[2] /\ nav' = NoNav /\ UNCHANGED <<ring, submitted, draft>>

KeyRune(r) == Len(line) < MaxLineLen /\ Edit(InsertRune(r))
KeyDelete == Edit(DeleteBackward) \/ Edit(DeleteForward)
KeyMove(k) == cursor' = MoveCursor(k) /\ UNCHANGED <<line, ring, nav, submitted, draft>>

Submit ==
    /\ Len(submitted) < MaxEntries
    /\ ring' = RingPush(ring, line)
    /\ submitted' = IF line = <<>> THEN submitted ELSE Append(submitted, line)
    /\ line' = <<>> /\ cursor' = 0 /\ nav' = NoNav /\ UNCHANGED draft

(* Esc, and the first Ctrl+C through CancelCmdMsg. *)
Cancel == Edit(<<<<>>, 0>>)

applyHistoryPrev_SavesAlways ==
    LET at == IF nav.active THEN nav.index ELSE ring.size
    IN  /\ ring.size > 0 /\ draft' = IF nav.active THEN draft ELSE line
        /\ nav' = [active |-> TRUE, index |-> IF at > 0 THEN at - 1 ELSE 0,
                   buffer |-> line, cursor |-> cursor]
        /\ line' = IF at > 0 THEN At(ring, at - 1) ELSE line
        /\ cursor' = Len(line') /\ UNCHANGED <<ring, submitted>>

(* The first Up saves the line; the oldest entry is the last one shown. *)
applyHistoryPrev ==
    LET n == IF nav.active THEN nav
             ELSE [active |-> TRUE, index |-> ring.size, buffer |-> line, cursor |-> cursor]
    IN  /\ ring.size > 0 /\ draft' = IF nav.active THEN draft ELSE line
        /\ nav' = [n EXCEPT !.index = IF @ > 0 THEN @ - 1 ELSE 0]
        /\ line' = IF n.index > 0 THEN At(ring, n.index - 1) ELSE line
        /\ cursor' = IF n.index > 0 THEN Len(line') ELSE cursor
        /\ UNCHANGED <<ring, submitted>>

(* Down behind the newest entry restores the saved line and its cursor. *)
applyHistoryNext ==
    /\ nav.active
    /\ IF nav.index + 1 >= ring.size
       THEN line' = nav.buffer /\ cursor' = nav.cursor /\ nav' = NoNav
       ELSE /\ line' = At(ring, nav.index + 1) /\ cursor' = Len(line')
            /\ nav' = [nav EXCEPT !.index = @ + 1]
    /\ UNCHANGED <<ring, submitted, draft>>

IlNext ==
    \/ \E r \in InputRunes : KeyRune(r)
    \/ KeyDelete \/ Submit \/ Cancel \/ applyHistoryPrev \/ applyHistoryNext
    \/ \E k \in {"left", "right", "home", "end"} : KeyMove(k)

IlSpec == IlInit /\ [][IlNext]_ilVars
-----------------------------------------------------------------------------
(* The lines, without the repetitions that follow each other. *)
DistinctOf(lines) ==
    LET d[n \in 0..Len(lines)] ==
            IF n = 0 THEN <<>>
            ELSE IF d[n-1] # <<>> /\ Last(d[n-1]) = lines[n] THEN d[n-1]
            ELSE Append(d[n-1], lines[n])
    IN  d[Len(lines)]
Distinct == DistinctOf(submitted)

(* The cursor is a position of the line after any sequence of keys: an     *)
(* edit through it never reaches outside the runes.                        *)
CursorInLine == cursor \in 0..Len(line)

(* Up walks through what was submitted: the ring holds the newest lines in *)
(* the order they were entered, also after it has wrapped around.          *)
RingIsNewest ==
    LET n == Len(Distinct)
    IN  /\ ring.size = IF n < RingCapacity THEN n ELSE RingCapacity
        /\ \A i \in 0..ring.size-1 : At(ring, i) = Distinct[n - ring.size + i + 1]

(* The unfinished line is not lost: Down past the newest entry brings back *)
(* the line as it was before the first Up, however far the user walked.    *)
DraftComesBack ==
    [][(applyHistoryNext /\ ~nav'.active) => line' = draft]_ilVars

(* Editing and walking through the history lose nothing: the cursor stays  *)
(* in the line, Up finds the newest entries, Down ends at the draft.       *)
InputContract ==
    /\ [](CursorInLine /\ RingIsNewest)
    /\ DraftComesBack
=============================================================================
