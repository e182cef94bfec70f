---------------------------- MODULE MessageBlock -----------------------------
(***************************************************************************)
(* block.Message.Render: the fenced ranges of a text are found, prose is   *)
(* wrapped to the columns of the context, code keeps its lines, and a mark *)
(* "~" is put behind the text of a truncated or continued message.         *)
(* A text is typed rune by rune; the functions that render it are checked  *)
(* on every text, width, policy and mark.                                  *)
(***************************************************************************)
EXTENDS Integers, Sequences, FiniteSets, SequencesExt

CONSTANTS
    MsgCols,     \* values of Context.Cols
    MaxRunes     \* BOUND: runes and line breaks of a text

ASSUME MsgAssumption == MsgCols \subseteq Nat \ {0} /\ MaxRunes \in Nat

VARIABLE text   \* Message.Text, split at its line breaks

(* "W" is a wide rune, "F" and "G" are runs of three and four backticks. *)
MsgRunes == {"a", " ", "W", "F", "G"}
runeCols(r) == CASE r = "W" -> 2 [] r = "F" -> 3 [] r = "G" -> 4 [] OTHER -> 1
Width(s) == FoldLeft(LAMBDA n, r : n + runeCols(r), 0, s)
Policies == {"soft", "hard", "none"}
Marks == {"no", "truncated", "continued"}
Blank(s) == \A i \in DOMAIN s : s[i] = " "
NonBlank(s) == SelectSeq(s, LAMBDA r : r # " ")
-----------------------------------------------------------------------------
(* The last space of cur is at lastSpace, 0 when there is none; skip holds  *)
(* while the spaces behind a break on a space are passed over.              *)
softRune_LosesSuffix(cols, st, r) ==
    IF st.skip /\ r = " " THEN st
    ELSE IF Width(st.cur) + runeCols(r) <= cols THEN
           [st EXCEPT !.cur = Append(@, r), !.skip = FALSE,
                      !.lastSpace = IF r = " " THEN Len(st.cur) + 1 ELSE @]
    ELSE   [lines |-> Append(st.lines, SubSeq(st.cur, 1, st.lastSpace - 1)),
            cur |-> <<r>>, lastSpace |-> 0, skip |-> FALSE]

softRune(cols, st, r) ==
    IF st.skip /\ r = " " THEN st
    ELSE IF Width(st.cur) + runeCols(r) <= cols THEN
           [st EXCEPT !.cur = Append(@, r), !.skip = FALSE,
                      !.lastSpace = IF r = " " THEN Len(st.cur) + 1 ELSE @]
    ELSE IF r = " " /\ Width(st.cur) + 1 > cols THEN
           [lines |-> Append(st.lines, st.cur), cur |-> <<>>, lastSpace |-> 0, skip |-> TRUE]
    ELSE IF st.lastSpace > 0 THEN
           [lines |-> Append(st.lines, SubSeq(st.cur, 1, st.lastSpace - 1)),
            cur |-> Append(SubSeq(st.cur, st.lastSpace + 1, Len(st.cur)), r),
            lastSpace |-> 0, skip |-> FALSE]
    ELSE   [lines |-> Append(st.lines, st.cur), cur |-> <<r>>, lastSpace |-> 0, skip |-> FALSE]

lastLine(st) ==
    IF st.cur # <<>> \/ st.lines = <<>> THEN Append(st.lines, st.cur) ELSE st.lines

wrapSoft(line, cols) ==
    IF Width(line) <= cols THEN <<line>>
    ELSE lastLine(FoldLeft(LAMBDA x, r : softRune(cols, x, r),
                  [lines |-> <<>>, cur |-> <<>>, lastSpace |-> 0, skip |-> FALSE], line))

wrapHard(line, cols) ==
    IF Width(line) <= cols THEN <<line>>
    ELSE lastLine(FoldLeft(LAMBDA x, r :
                  IF Width(x.cur) + runeCols(r) > cols
                  THEN [lines |-> Append(x.lines, x.cur), cur |-> <<r>>]
                  ELSE [x EXCEPT !.cur = Append(@, r)], [lines |-> <<>>, cur |-> <<>>], line))

(* The longest prefix that leaves a column for the ellipsis. *)
cutTo(line, cols) ==
    SubSeq(line, 1, CHOOSE n \in 0..Len(line) :
        /\ Width(SubSeq(line, 1, n)) <= cols
        /\ n = Len(line) \/ Width(SubSeq(line, 1, n + 1)) > cols)

wrapNone(line, cols) ==
    IF Width(line) <= cols THEN line ELSE Append(cutTo(line, cols - 1), "~")

wrapLine(line, cols, policy) ==
    CASE policy = "hard" -> wrapHard(line, cols)
      [] policy = "none" -> <<wrapNone(line, cols)>>
      [] OTHER -> wrapSoft(line, cols)

(* An empty text has no rows; an empty line of a text has one. *)
wrap(lines, cols, policy) ==
    IF lines = <<<<>>>> THEN <<>>
    ELSE FlattenSeq([i \in DOMAIN lines |-> wrapLine(lines[i], cols, policy)])
-----------------------------------------------------------------------------
(* Fences: at most three spaces, a run of at least three backticks, then a  *)
(* label (open) or nothing (close).                                         *)
trimLeft(s) == LET n == Cardinality({i \in DOMAIN s : Blank(SubSeq(s, 1, i))})
               IN  SubSeq(s, n + 1, Len(s))
runOf(s) == LET n == Cardinality({i \in DOMAIN s : \A j \in 1..i : s[j] \in {"F", "G"}})
            IN  [run |-> Width(SubSeq(s, 1, n)), tail |-> SubSeq(s, n + 1, Len(s))]
indentOf(s) == Len(s) - Len(trimLeft(s))

parseFenceOpen(line) ==
    LET f == runOf(trimLeft(line))
        tail == trimLeft(f.tail)
        lang == Cardinality({i \in DOMAIN tail : \A j \in 1..i : tail[j] = "a"})
    IN  /\ indentOf(line) <= 3 /\ f.run >= 3
        /\ Blank(SubSeq(tail, lang + 1, Len(tail)))

openRun(line) == runOf(trimLeft(line)).run
langOf(line) == Len(NonBlank(runOf(trimLeft(line)).tail))

isFenceClose(line, run) ==
    LET f == runOf(trimLeft(line))
    IN  indentOf(line) <= 3 /\ f.run >= run /\ Blank(f.tail)

(* The ranges in order: from each opening line to the first line that       *)
(* closes it, or to the end of the text.                                    *)
scanFenceRanges(lines) ==
    FoldLeftDomain(LAMBDA rs, i :
        IF (rs # <<>> /\ i <= Last(rs).end) \/ ~parseFenceOpen(lines[i]) THEN rs
        ELSE LET ends == {j \in i+1..Len(lines) : isFenceClose(lines[j], openRun(lines[i]))}
                 first == CHOOSE j \in ends : \A k \in ends : j <= k
             IN  Append(rs, [start |-> i, closed |-> ends # {},
                             end |-> IF ends # {} THEN first ELSE Len(lines)]), <<>>, lines)

(* Prose of nothing but blanks between two ranges is dropped. *)
splitSegments(lines, fences) ==
    LET from(i) == IF i = 1 THEN 1 ELSE fences[i-1].end + 1
        prose(a, b) == LET p == SubSeq(lines, a, b) IN
            IF \A k \in DOMAIN p : Blank(p[k]) THEN <<>> ELSE <<[kind |-> "prose", lines |-> p, lang |-> 0]>>
        body(f) == SubSeq(lines, f.start + 1, IF f.closed THEN f.end - 1 ELSE Len(lines))
    IN  FlattenSeq([i \in DOMAIN fences |->
            Append(prose(from(i), fences[i].start - 1),
                   [kind |-> "fence", lines |-> body(fences[i]),
                    lang |-> langOf(lines[fences[i].start])])])
        \o prose(from(Len(fences) + 1), Len(lines))
-----------------------------------------------------------------------------
(* A painted row: what writeTextRow fits into the columns. *)
writeTextRow(row, cols) == IF Width(row) <= cols THEN row ELSE cutTo(row, cols)

(* A rule across the columns with the label in it; in few columns the rule  *)
(* is three dashes and the label, and may leave some of the row.            *)
buildLangLabel(lang, cols) ==
    [i \in 1..(IF lang = 0 \/ cols - lang - 2 >= 6 \/ lang + 4 > cols THEN cols ELSE lang + 4)
        |-> "-"]

(* The label, then the code, with a column kept on each side. *)
renderCodeBlock(lang, lines, cols) ==
    LET body == IF lines # <<>> /\ Last(lines) = <<>> THEN Front(lines) ELSE lines
    IN  <<buildLangLabel(lang, cols)>>
        \o [i \in DOMAIN body |-> <<" ">> \o cutTo(body[i], IF cols > 2 THEN cols - 2 ELSE 0)]

(* A full last row leaves no cell for the mark: one more row. *)
rowsWithMarker(rows, cols, mark) ==
    IF rows # <<>> /\ mark # "no" /\ Width(Last(rows)) >= cols THEN Len(rows) + 1 ELSE Len(rows)

lastRowOccupied(row) ==
    SubSeq(row, 1, Cardinality({i \in DOMAIN row : ~Blank(SubSeq(row, i, Len(row)))}))

(* Behind the last rune that is not a blank, or over it when there is no    *)
(* cell left; a wide rune that loses its second half is blanked.            *)
markRow(used, cols) ==
    IF Width(used) < cols THEN used \o <<"~">>
    ELSE Front(used) \o (IF Last(used) = "W" THEN <<" ", "~">> ELSE <<"~">>)

applyTailMarker(rows, cols) ==
    Append(Front(rows), markRow(lastRowOccupied(Last(rows)), cols))

padTo(rows, n) == rows \o [i \in 1..(n - Len(rows)) |-> <<>>]

paintRows(rows, cols, mark) ==
    padTo([i \in DOMAIN rows |-> writeTextRow(rows[i], cols)], rowsWithMarker(rows, cols, mark))

markPlain(rows, cols, policy, mark) ==
    IF rows = <<>> \/ mark = "no" \/ (mark = "truncated" /\ policy = "none")
    THEN rows ELSE applyTailMarker(rows, cols)

renderPlainText(lines, cols, policy, mark) ==
    markPlain(paintRows(wrap(lines, cols, policy), cols, mark), cols, policy, mark)

(* The segments one below the other, the mark behind the last of them. *)
renderSegments(segs, cols, policy) ==
    FlattenSeq([i \in DOMAIN segs |->
        IF segs[i].kind = "fence" THEN renderCodeBlock(segs[i].lang, segs[i].lines, cols)
        ELSE renderPlainText(segs[i].lines, cols, policy, "no")])

markMixed(rows, cols, mark) ==
    IF mark = "no" \/ rows = <<>> THEN rows
    ELSE applyTailMarker(IF Width(lastRowOccupied(Last(rows))) >= cols
                         THEN Append(rows, <<>>) ELSE rows, cols)

renderMixed(lines, fences, cols, policy, mark) ==
    markMixed(renderSegments(splitSegments(lines, fences), cols, policy), cols, mark)

renderText(lines, fences, cols, policy, mark) ==
    IF fences = <<>> THEN renderPlainText(lines, cols, policy, mark)
    ELSE renderMixed(lines, fences, cols, policy, mark)

RenderMsg(lines, cols, policy, mark) ==
    IF lines = <<<<>>>> THEN <<>>
    ELSE renderText(lines, scanFenceRanges(lines), cols, policy, mark)

(* The assistant's bullet and the indent below it; nothing without rows. *)
withBullet(rows) ==
    [i \in DOMAIN rows |-> (IF i = 1 THEN <<"*", " ">> ELSE <<" ", " ">>) \o rows[i]]

renderWithBullet(lines, cols, policy, mark) ==
    withBullet(RenderMsg(lines, cols - 2, policy, mark))
-----------------------------------------------------------------------------
MsgInit == text = <<<<>>>>

Size == FoldLeft(LAMBDA n, l : n + Len(l), Len(text) - 1, text)

TypeRune(r) == Size < MaxRunes /\ text' = [text EXCEPT ![Len(text)] = Append(@, r)]
BreakLine == Size < MaxRunes /\ text' = Append(text, <<>>)
MsgDone == Size = MaxRunes /\ UNCHANGED text

MsgNext == (\E r \in MsgRunes : TypeRune(r)) \/ BreakLine \/ MsgDone

MsgSpec == MsgInit /\ [][MsgNext]_text
-----------------------------------------------------------------------------
Cur == Last(text)
NarrowText(s) == \A i \in DOMAIN s : runeCols(s[i]) = 1
Typed(rows) == SelectSeq(FlattenSeq(rows), LAMBDA r : r \notin {" ", "~", "-", "*"})

(* wrap.go promises rows of at most cols columns.  It keeps the promise    *)
(* for runes of one column under every policy, and for wide ones where no  *)
(* word is carried to the next row.                                        *)
RowsFit ==
    Cur # <<>> => \A c \in MsgCols, p \in Policies :
        (NarrowText(Cur) \/ (p # "soft" /\ \A r \in ToSet(Cur) : runeCols(r) <= c)) =>
            \A i \in DOMAIN wrapLine(Cur, c, p) : Width(wrapLine(Cur, c, p)[i]) <= c

(* The same promise for every line: a word carried over to the next row    *)
(* with the wide rune that did not fit may be a column too long, and       *)
(* writeTextRow then does not paint that rune.                             *)
SoftRowsFit ==
    ToSet(Cur) \subseteq {"a", " ", "W"} => \A c \in MsgCols : c >= 2 =>
        \A i \in DOMAIN wrapSoft(Cur, c) : Width(wrapSoft(Cur, c)[i]) <= c

(* Wrapping loses nothing but blanks: every other rune is in the rows, in  *)
(* the order of the text; a hard break loses nothing at all.               *)
WrapKeepsText ==
    Cur # <<>> => \A c \in MsgCols :
        /\ NonBlank(FlattenSeq(wrapSoft(Cur, c))) = NonBlank(Cur)
        /\ FlattenSeq(wrapHard(Cur, c)) = Cur

(* Reading the lines one by one, a fence is closed by no shorter run than  *)
(* opened it: the lines that scanFenceRanges gives to a range are those    *)
(* read while a fence is open, its two fence lines included.               *)
FencesNest ==
    LET read == FoldLeft(LAMBDA st, l :
                   IF st.open = 0
                   THEN IF parseFenceOpen(l) THEN [open |-> openRun(l), code |-> Append(st.code, TRUE)]
                        ELSE [st EXCEPT !.code = Append(@, FALSE)]
                   ELSE LET f == runOf(trimLeft(l)) IN
                        [open |-> IF indentOf(l) <= 3 /\ f.run >= st.open /\ Blank(f.tail)
                                  THEN 0 ELSE st.open,
                         code |-> Append(st.code, TRUE)], [open |-> 0, code |-> <<>>], text)
        rs == scanFenceRanges(text)
    IN  Size > 0 => \A i \in DOMAIN text :
            read.code[i] <=> \E k \in DOMAIN rs : rs[k].start <= i /\ i <= rs[k].end

(* The mark of a truncated or continued message and the bullet of the      *)
(* assistant never cost a rune of the text: the same runes are painted     *)
(* with them as without them, in prose and behind a fenced block.          *)
MarkKeepsText ==
    Size > 0 => \A c \in MsgCols, p \in Policies, m \in Marks :
        Typed(renderWithBullet(text, c + 2, p, m)) = Typed(RenderMsg(text, c, p, "no"))

(* A rendered message is the message: its runes are all there, in rows     *)
(* that fit, with fences where the lines say and marks that cover no text. *)
MessageWhole == RowsFit /\ WrapKeepsText /\ FencesNest /\ MarkKeepsText
=============================================================================
