----------------------------- MODULE Scrollback -----------------------------
(***************************************************************************)
(* VirtualScrollback: nodes with measured heights, the prefix-sum table,   *)
(* sticky scrolling, dropping of the oldest nodes, and the LRU of rendered *)
(* grids that is keyed by a block's index.  A node is an identity and a    *)
(* kind; the kind gives its height at each width.                          *)
(***************************************************************************)
EXTENDS Integers, Sequences, FiniteSets, SequencesExt, FiniteSetsExt

CONSTANTS
    SbHeight,      \* [kind -> [width -> rows]]; 0 means that Render fails
    MaxNodes,      \* WithMaxNodes, after the clamp
    Overscan, CacheSize,
    SbViewports,   \* sizes <<cols, rows>> that Render is called with
    MaxPushes,     \* BOUND: nodes pushed
    MaxMoves       \* BOUND: scroll calls and renders

ASSUME SbAssumption ==
    /\ MaxNodes \in Nat \ {0} /\ CacheSize \in Nat \ {0} /\ Overscan \in Nat
    /\ SbViewports \subseteq (Nat \ {0}) \X (Nat \ {0})
    /\ \A kind \in DOMAIN SbHeight, vp \in SbViewports : SbHeight[kind][vp[1]] \in Nat

VARIABLES
    nodes,    \* sequence of [id, kind]
    heights, offsets,
    cache,    \* entries [idx, cols, rows, node], most recent first
    sticky, scrollY,
    view,     \* lastCols and lastRows
    painted,  \* what Render painted, until the next call: row -> <<node id, row of it>>
    sbSpent

sbVars == <<nodes, heights, offsets, cache, sticky, scrollY, view, painted, sbSpent>>

Floor0(n) == IF n < 0 THEN 0 ELSE n
Min2(a, b) == IF a < b THEN a ELSE b

rebuildOffsets(h) ==
    LET off[i \in 1..Len(h)+1] == IF i = 1 THEN 0 ELSE off[i-1] + h[i-1] IN off
totalHeight(o) == o[Len(o)]

(* The block whose rows contain line y: SearchInts(offsets, y+1) - 1, clamped. *)
findBlockAt(o, y) ==
    IF y < 0 \/ Len(o) < 2 THEN 1
    ELSE Min2(Max({i \in 1..Len(o) : o[i] <= y}), Len(o) - 1)

(* Before the first Render, and for a node that does not render, one row. *)
measureHeight(kind, cols) ==
    IF cols = 0 \/ SbHeight[kind][cols] = 0 THEN 1 ELSE SbHeight[kind][cols]

bottom(o, rows) == Floor0(totalHeight(o) - rows)
-----------------------------------------------------------------------------
(* lruRing *)
cacheHas(c, i, cols, rows) ==
    \E k \in DOMAIN c : c[k].idx = i /\ c[k].cols = cols /\ c[k].rows = rows

\* The entry of a block in the ring's index.
entryOf(c, i) == CHOOSE k \in DOMAIN c : c[k].idx = i

cacheGet(c, i) == <<c[entryOf(c, i)]>> \o RemoveAt(c, entryOf(c, i))

(* Replace the entry of that index, evict the oldest at capacity, insert. *)
putFromBuffer(c, i, cols, rows, node) ==
    LET rest == IF \E k \in DOMAIN c : c[k].idx = i THEN RemoveAt(c, entryOf(c, i)) ELSE c
        room == IF Len(rest) >= CacheSize THEN Front(rest) ELSE rest
    IN  <<[idx |-> i, cols |-> cols, rows |-> rows, node |-> node]>> \o room

(* Every index shifts when nodes are dropped, so no entry may survive. *)
InvalidateAll(c) == <<>>

afterDrop_IfSticky(sy, dropped) == IF sticky THEN Floor0(sy - dropped) ELSE sy

(* scrollY counts rows from the oldest node that is still there. *)
afterDrop(sy, dropped) == Floor0(sy - dropped)
-----------------------------------------------------------------------------
SbInit ==
    /\ nodes = <<>> /\ heights = <<>> /\ offsets = <<0>> /\ cache = <<>>
    /\ sticky = TRUE /\ scrollY = 0 /\ view = <<0, 0>>
    /\ painted = <<>> /\ sbSpent = [pushes |-> 0, moves |-> 0]

(* Push: measure, append, follow the bottom if sticky; past the cap drop   *)
(* the oldest max(1, maxNodes/10) nodes with every cached grid.            *)
Push ==
    /\ sbSpent.pushes < MaxPushes
    /\ \E kind \in DOMAIN SbHeight :
         LET ns == Append(nodes, [id |-> sbSpent.pushes, kind |-> kind])
             hs == Append(heights, measureHeight(kind, view[1]))
             os == Append(offsets, totalHeight(offsets) + Last(hs))
             sy == IF sticky THEN bottom(os, view[2]) ELSE scrollY
             dropN == Max({1, MaxNodes \div 10})
             cut(s) == SubSeq(s, dropN + 1, Len(s))
         IN  IF Len(ns) <= MaxNodes
             THEN /\ nodes' = ns /\ heights' = hs /\ offsets' = os /\ scrollY' = sy
                  /\ cache' = cache
             ELSE /\ nodes' = cut(ns) /\ heights' = cut(hs) /\ cache' = InvalidateAll(cache)
                  /\ scrollY' = afterDrop(sy, rebuildOffsets(hs)[dropN + 1])
                  /\ offsets' = rebuildOffsets(cut(hs))
    /\ sbSpent' = [sbSpent EXCEPT !.pushes = @ + 1]
    /\ painted' = <<>>
    /\ UNCHANGED <<sticky, view>>

Moves == sbSpent' = [sbSpent EXCEPT !.moves = @ + 1] /\ sbSpent.moves < MaxMoves

(* Arriving at the bottom resumes following, scrolling up pauses it. *)
ScrollBy(delta) ==
    LET sy == Floor0(scrollY + delta)
        maxY == bottom(offsets, view[2])
    IN  /\ Moves
        /\ scrollY' = Min2(sy, maxY)
        /\ sticky' = IF sy >= maxY THEN TRUE ELSE IF delta < 0 THEN FALSE ELSE sticky
        /\ painted' = <<>>
        /\ UNCHANGED <<nodes, heights, offsets, cache, view>>

ScrollToBottom ==
    /\ Moves
    /\ sticky' = TRUE /\ scrollY' = bottom(offsets, view[2])
    /\ painted' = <<>>
    /\ UNCHANGED <<nodes, heights, offsets, cache, view>>

(* Render of the blocks from startIdx to endIdx: cached grid or fresh one. *)
RenderBlock(acc, i) ==
    LET n == nodes[i]
        cols == acc.cols
        hit == cacheHas(acc.cache, i, cols, acc.hs[i])
        c == IF hit THEN cacheGet(acc.cache, i)
             ELSE putFromBuffer(acc.cache, i, cols, acc.hs[i], n.id)
        top == acc.os[i] - acc.sy
        rowsOf == {r \in 0..acc.rows-1 : r >= top /\ r < top + acc.hs[i]}
    IN  IF ~hit /\ SbHeight[n.kind][cols] = 0 THEN acc
        ELSE [acc EXCEPT !.cache = c,
                         !.out = [r \in 0..acc.rows-1 |->
                                    IF r \in rowsOf THEN <<c[1].node, r - top>> ELSE @[r]]]

paintBlocks(blank, first, last) ==
    LET after[i \in first-1..last] == IF i < first THEN blank ELSE RenderBlock(after[i-1], i)
    IN  after[last]

(* Render: on a new viewport size everything is measured again; then the   *)
(* blocks of the viewport and its overscan are painted.                    *)
Render(vp) ==
    LET cols == vp[1]
        rows == vp[2]
        resized == vp # view
        hs == IF resized THEN [i \in DOMAIN nodes |-> measureHeight(nodes[i].kind, cols)] ELSE heights
        os == IF resized THEN rebuildOffsets(hs) ELSE offsets
        total == totalHeight(os)
        s0 == IF resized /\ sticky THEN bottom(os, rows) ELSE scrollY
        sy == IF total = 0 THEN s0 ELSE Min2(s0, bottom(os, rows))
        first == findBlockAt(os, Floor0(sy - Overscan))
        last == Min2(findBlockAt(os, Min2(sy + rows + Overscan, total) - 1), Len(nodes))
        blank == [cols |-> cols, rows |-> rows, hs |-> hs, os |-> os, sy |-> sy,
                  cache |-> IF resized THEN InvalidateAll(cache) ELSE cache,
                  out |-> [r \in 0..rows-1 |-> <<>>]]
        done == IF total = 0 THEN blank ELSE paintBlocks(blank, first, last)
    IN  /\ Moves
        /\ heights' = hs /\ offsets' = os /\ scrollY' = sy /\ view' = vp
        /\ cache' = done.cache /\ painted' = done.out
        /\ UNCHANGED <<nodes, sticky>>

SbDone == sbSpent = [pushes |-> MaxPushes, moves |-> MaxMoves] /\ UNCHANGED sbVars

SbNext ==
    \/ Push \/ ScrollToBottom \/ SbDone
    \/ \E d \in {-2, -1, 1} : ScrollBy(d)
    \/ \E vp \in SbViewports : Render(vp)

SbSpec == SbInit /\ [][SbNext]_sbVars
-----------------------------------------------------------------------------
(* Row y of the whole document by definition: the nodes one after another, *)
(* each with its rows at the current width.                                *)
Document(cols) ==
    FlattenSeq([i \in DOMAIN nodes |->
        [r \in 1..measureHeight(nodes[i].kind, cols) |->
            IF SbHeight[nodes[i].kind][cols] = 0 THEN <<>> ELSE <<nodes[i].id, r - 1>>]])

(* What Render paints is the document from scrollY on, whatever was        *)
(* cached, dropped, resized or scrolled before.                            *)
RenderShowsDocument ==
    painted # <<>> =>
        LET doc == Document(view[1]) IN
        \A r \in 0..view[2]-1 :
            painted[r] = IF scrollY + r < Len(doc) THEN doc[scrollY + r + 1] ELSE <<>>

(* While sticky the last row of the document is the last row on screen,    *)
(* after any push, drop, scroll or resize.                                 *)
StickyAtBottom == sticky => scrollY = bottom(offsets, view[2])

(* A user who scrolled up keeps the row at the top of the viewport when    *)
(* nodes arrive and old ones are dropped, unless that row was dropped.     *)
ReadingPositionKept ==
    [][nodes' # nodes /\ ~sticky /\ view[1] # 0 =>
         LET doc == Document(view[1])
             gone == Len(doc) - (Len(Document(view[1])') - SbHeight[Last(nodes')["kind"]][view[1]])
         IN  scrollY >= gone /\ SbHeight[Last(nodes')["kind"]][view[1]] > 0
                => Document(view[1])'[scrollY' + 1] = doc[scrollY + 1]]_sbVars

(* The viewport shows the document: at the bottom while sticky, and at the *)
(* row the user is reading otherwise, across pushes, drops and resizes.    *)
ViewportContract ==
    /\ [](RenderShowsDocument /\ StickyAtBottom)
    /\ ReadingPositionKept
=============================================================================
