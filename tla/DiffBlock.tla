----------------------------- MODULE DiffBlock ------------------------------
(***************************************************************************)
(* block.Diff: a unified diff is parsed (ParseUnified, with the bare lines *)
(* as fallback), its rows get the line numbers of the file, and rendered   *)
(* rows are kept in blockCache, an LRU that concurrent renders share.      *)
(* The tool that writes the diff is external: it knows which line of which *)
(* file every line it writes is about.                                     *)
(***************************************************************************)
EXTENDS Integers, Sequences, FiniteSets, SequencesExt

CONSTANTS
    Renderers,       \* goroutines that render at the same time
    DiffCols,        \* values of Context.Cols
    BlockCacheCap,   \* blockCacheCap (256 in the code)
    MaxDiffSteps     \* BOUND: lines of the diff and renders of it, together

ASSUME DiffAssumption ==
    DiffCols \subseteq Nat \ {0} /\ BlockCacheCap \in Nat \ {0} /\ MaxDiffSteps \in Nat

VARIABLES
    diffSrc,    \* the lines written so far
    oldAt, newAt,   \* next line of the old and of the new file
    docs,       \* the diffs shown: as a unified diff, and as a bare fence
    lru,        \* blockLRU.order with its buffers, front first
    job,        \* what each renderer is doing
    renders

dbVars == <<diffSrc, oldAt, newAt, docs, lru, job, renders>>

(* A raw line: what its prefix makes of it, the hunk it announces, and the  *)
(* line of the file it is about.  "---x" is a removed line whose text       *)
(* starts with "-- " and "+++x" an added one whose text starts with "++ ":  *)
(* both look like file headers.  "blank" is an empty kept line that lost    *)
(* its leading space.  The text ends with a newline, so that the empty last *)
(* piece the parser skips is no line of the diff.                           *)
Raw(k, o, n, no) == [kind |-> k, old |-> o, new |-> n, no |-> no]
Markers == {"+", "-", " "}
Removed == {"-", "---x"}
Added == {"+", "+++x"}
Kept == {" ", "blank"}
HeaderLike == {"---x", "+++x"}
-----------------------------------------------------------------------------
(* ParseUnified *)
(* The first byte alone decides. *)
classifyMarker(l) ==
    IF l.kind \in Removed \cup {"---"} THEN "-"
    ELSE IF l.kind \in Added \cup {"+++"} THEN "+"
    ELSE IF l.kind = " " THEN " " ELSE "?"

parseHunkHeader(l) == [old |-> l.old, new |-> l.new, bare |-> FALSE, lines |-> <<>>]
entry(l) == [marker |-> classifyMarker(l), of |-> l]

pathOf(l) == IF l.kind \in HeaderLike THEN "text" ELSE "path"

(* Extra headers and file headers are taken wherever they stand, and so is  *)
(* what looks like one; the path of "+++" wins unless it is /dev/null;      *)
(* lines outside a hunk and the note about a missing newline are dropped.   *)
parseLine(d, l) ==
    IF d.err \/ l.kind = "extra" THEN d
    ELSE IF l.kind \in {"---", "+++"} \cup HeaderLike THEN
           [d EXCEPT !.path = IF l.kind \in {"+++", "+++x"} \/ @ = "none" THEN pathOf(l) ELSE @]
    ELSE IF l.kind = "hunk" THEN [d EXCEPT !.hunks = Append(@, parseHunkHeader(l))]
    ELSE IF l.kind = "@@bad" THEN [err |-> TRUE, path |-> "none", hunks |-> <<>>]
    ELSE IF d.hunks = <<>> \/ l.kind = "noeol" THEN d
    ELSE [d EXCEPT !.hunks[Len(d.hunks)].lines = Append(@, entry(l))]

ParseUnified(src) == FoldLeft(parseLine, [err |-> FALSE, path |-> "none", hunks |-> <<>>], src)

bareLines(src) ==
    FlattenSeq([i \in DOMAIN src |-> IF src[i].kind = "blank" THEN <<>> ELSE <<entry(src[i])>>])

NewDiffFromBareLines(src) ==
    [err |-> FALSE, path |-> "none",
     hunks |-> IF bareLines(src) = <<>> THEN <<>>
               ELSE <<[old |-> 0, new |-> 0, bare |-> TRUE, lines |-> bareLines(src)]>>]

NewDiff(src) == LET d == ParseUnified(src) IN IF d.err THEN NewDiffFromBareLines(src) ELSE d
-----------------------------------------------------------------------------
(* Rows *)
singleColumnGutter(marker, oldNo, newNo, bare) ==
    IF bare \/ marker = "?" THEN 0 ELSE IF marker = "-" THEN oldNo ELSE newNo

advance_Both(marker, at) == [old |-> at.old + 1, new |-> at.new + 1]

advance(marker, at) ==
    [old |-> IF marker \in {"-", " "} THEN at.old + 1 ELSE at.old,
     new |-> IF marker \in {"+", " "} THEN at.new + 1 ELSE at.new]

Header(h) == [gutter |-> 0, marker |-> "@@", of |-> Raw("hunk", h.old, h.new, 0)]

hunkRows(h) ==
    LET step(st, e) ==
            [at |-> advance(e.marker, st.at),
             rows |-> Append(st.rows,
                [gutter |-> singleColumnGutter(e.marker, st.at.old, st.at.new, h.bare),
                 marker |-> e.marker, of |-> e.of])]
    IN  FoldLeft(step, [at |-> [old |-> h.old, new |-> h.new],
                        rows |-> IF h.bare THEN <<>> ELSE <<Header(h)>>], h.lines).rows

renderDiffRows(d) == FlattenSeq([i \in DOMAIN d.hunks |-> hunkRows(d.hunks[i])])

(* The painted rows: a row is cut at the columns. *)
Painted(d, cols) == [cols |-> cols, rows |-> renderDiffRows(d)]

serializeDiff(d) == [path |-> d.path, hunks |-> d.hunks]

makeBlockCacheKey(d, cols) == <<serializeDiff(d), cols>>
-----------------------------------------------------------------------------
(* blockLRU: each call is one critical section. *)
Hit(key) == {i \in DOMAIN lru : lru[i].key = key}
ToFront(i) == <<lru[i]>> \o RemoveAt(lru, i)

Put(key, buf) ==
    IF Hit(key) # {}
    THEN <<[key |-> key, buf |-> buf]>> \o RemoveAt(lru, CHOOSE i \in Hit(key) : TRUE)
    ELSE LET grown == <<[key |-> key, buf |-> buf]>> \o lru
         IN  IF Len(grown) > BlockCacheCap THEN Front(grown) ELSE grown
-----------------------------------------------------------------------------
Idle == [pc |-> "idle"]

DbInit ==
    /\ diffSrc = <<>> /\ oldAt = 1 /\ newAt = 1 /\ docs = <<>>
    /\ lru = <<>> /\ job = [r \in Renderers |-> Idle] /\ renders = 0

Room == Len(diffSrc) + renders < MaxDiffSteps
Writing == docs = <<>> /\ Room
InHunk == \E i \in DOMAIN diffSrc : diffSrc[i].kind = "hunk"
Write(l) == diffSrc' = Append(diffSrc, l) /\ UNCHANGED <<docs, lru, job, renders>>

(* The headers of the file come before its first hunk. *)
WriteHeader(k) == Writing /\ ~InHunk /\ Write(Raw(k, 0, 0, 0)) /\ UNCHANGED <<oldAt, newAt>>

(* A hunk starts some lines further down both files. *)
WriteHunk(gap) ==
    /\ Writing
    /\ oldAt' = oldAt + gap /\ newAt' = newAt + gap
    /\ Write(Raw("hunk", oldAt', newAt', 0))

WriteBody(k) ==
    /\ Writing /\ InHunk
    /\ Write(Raw(k, 0, 0, IF k \in Removed THEN oldAt ELSE newAt))
    /\ oldAt' = IF k \in Removed \cup Kept THEN oldAt + 1 ELSE oldAt
    /\ newAt' = IF k \in Added \cup Kept THEN newAt + 1 ELSE newAt

(* The note about a missing newline, or a header that is cut off. *)
WriteNote(k) == Writing /\ InHunk /\ Write(Raw(k, 0, 0, 0)) /\ UNCHANGED <<oldAt, newAt>>

(* The diff is complete and becomes two blocks of the document. *)
ShowDiff ==
    /\ docs = <<>> /\ diffSrc # <<>>
    /\ docs' = <<NewDiff(diffSrc), NewDiffFromBareLines(diffSrc)>>
    /\ UNCHANGED <<diffSrc, oldAt, newAt, lru, job, renders>>

(* Diff.Render up to the lookup: a hit is promoted and returned. *)
RenderLookup(r, d, cols) ==
    /\ job[r].pc \in {"idle", "done"} /\ Room /\ d \in DOMAIN docs
    /\ renders' = renders + 1
    /\ LET key == makeBlockCacheKey(docs[d], cols)
           hit == Hit(key)
           at == CHOOSE i \in hit : TRUE
       IN  IF hit # {}
           THEN /\ lru' = ToFront(at)
                /\ job' = [job EXCEPT ![r] = [pc |-> "done", d |-> d, cols |-> cols,
                                              buf |-> lru[at].buf]]
           ELSE /\ job' = [job EXCEPT ![r] = [pc |-> "miss", d |-> d, cols |-> cols]]
                /\ UNCHANGED lru
    /\ UNCHANGED <<diffSrc, oldAt, newAt, docs>>

(* A miss renders outside the lock and then stores; no rows, no entry. *)
RenderPut(r) ==
    /\ job[r].pc = "miss"
    /\ LET d == docs[job[r].d]
           buf == Painted(d, job[r].cols)
       IN  /\ job' = [job EXCEPT ![r] = [pc |-> "done", d |-> @.d, cols |-> @.cols, buf |-> buf]]
           /\ lru' = IF buf.rows = <<>> THEN lru
                     ELSE Put(makeBlockCacheKey(d, job[r].cols), buf)
    /\ UNCHANGED <<diffSrc, oldAt, newAt, docs, renders>>

DbDone == docs # <<>> /\ ~Room /\ (\A r \in Renderers : job[r].pc # "miss")
          /\ UNCHANGED dbVars

DbNext ==
    \/ \E k \in {"extra", "---", "+++"} : WriteHeader(k)
    \/ \E g \in {0, 2} : WriteHunk(g)
    \/ \E k \in Removed \cup Added \cup Kept : WriteBody(k)
    \/ \E k \in {"noeol", "@@bad"} : WriteNote(k)
    \/ ShowDiff
    \/ \E r \in Renderers, d \in 1..2, c \in DiffCols : RenderLookup(r, d, c)
    \/ \E r \in Renderers : RenderPut(r)
    \/ DbDone

DbSpec == DbInit /\ [][DbNext]_dbVars
-----------------------------------------------------------------------------
SrcKinds == {diffSrc[i].kind : i \in DOMAIN diffSrc}

(* The number beside a row is the number of that line in the file: in the  *)
(* new file for added and kept lines, in the old one for removed lines,    *)
(* whatever notes and headers stand between them.  Lines the parser does   *)
(* not count are the exception: a line that looks like a file header is    *)
(* not shown, a blank one is shown without a number, and the numbers       *)
(* behind them are wrong.                                                  *)
GutterIsFileLine ==
    SrcKinds \cap (HeaderLike \cup {"blank"}) = {} =>
        \A i \in DOMAIN docs : \A k \in DOMAIN renderDiffRows(docs[i]) :
            LET row == renderDiffRows(docs[i])[k]
            IN  row.gutter # 0 => row.gutter = row.of.no

(* What has no row: in a bare fence the blank lines, in a parsed diff the  *)
(* headers, the notes, and the body lines that look like a header.         *)
Hidden(bare) == IF bare THEN {"blank"} ELSE {"extra", "---", "+++", "noeol"} \cup HeaderLike

LinesBut(src, hidden) ==
    FlattenSeq([i \in DOMAIN src |-> IF src[i].kind \in hidden THEN <<>> ELSE <<src[i]>>])
LinesOf(rows) == [k \in DOMAIN rows |-> rows[k].of]

(* No other line disappears: every hunk header and every added, kept or    *)
(* removed line of the diff is a row of the block, once and in its place,  *)
(* whatever stands around it; a diff with a hunk header that is cut off,   *)
(* and a bare fence, show every line that is not blank.                    *)
EveryLineShown ==
    \A i \in DOMAIN docs :
        LinesOf(renderDiffRows(docs[i])) = LinesBut(diffSrc, Hidden(i = 2 \/ "@@bad" \in SrcKinds))

(* A render returns what rendering anew would: renders that overlap, both  *)
(* miss and both store, and evictions between them, never give one block   *)
(* the rows of the other block or of another width.                        *)
CachedRowsFresh ==
    \A r \in Renderers : job[r].pc = "done" =>
        job[r].buf = Painted(docs[job[r].d], job[r].cols)

(* The LRU never holds a key twice: the map and the list agree, so an      *)
(* eviction cannot remove the map's entry of a key still in the list.      *)
OneEntryPerKey ==
    \A i, j \in DOMAIN lru : lru[i].key = lru[j].key => i = j

(* A diff block shows the diff: every line once, with its number in the    *)
(* file, and the same from the shared cache as anew.                       *)
DiffFaithful == GutterIsFileLine /\ EveryLineShown /\ CachedRowsFresh /\ OneEntryPerKey
=============================================================================
