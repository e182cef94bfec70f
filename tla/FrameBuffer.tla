---------------------------- MODULE FrameBuffer -----------------------------
(***************************************************************************)
(* One frame of the scheduler (runFrame): a Grid is acquired from the      *)
(* BufferPool, the RenderFn fills it, DiffEngine.Diff compares it with the *)
(* last frame and applyPatches sends the difference to the driver.  The    *)
(* poll goroutine changes the cached size while a frame is in progress.    *)
(***************************************************************************)
EXTENDS Integers, Sequences, FiniteSets, SequencesExt, FiniteSetsExt

CONSTANTS
    FbSizes,         \* terminal sizes <<cols, rows>>
    SmallCapacity,   \* bounds of the sub-pools, in cells
    MediumCapacity,
    LargeCapacity,
    GenLimit,        \* Grid.generation wraps around at this value (2^64 in the code)
    MaxFrames,       \* BOUND: frames
    MaxDraws,        \* BOUND: SetCell calls of the RenderFn over all frames
    MaxResizes       \* BOUND: changes of the terminal size

ASSUME FbAssumption ==
    /\ FbSizes \subseteq (Nat \ {0}) \X (Nat \ {0}) /\ FbSizes # {}
    /\ SmallCapacity < MediumCapacity /\ MediumCapacity < LargeCapacity
    /\ GenLimit \in Nat \ {0, 1} /\ MaxFrames \in Nat

VARIABLES
    grids,      \* the Grids in use, by identity; others are garbage
    pool,       \* the three sub-pools: sets of identities
    lastFrame, next,
    fbPc,       \* where runFrame is
    frameSize,  \* driver.Size() as this frame read it
    patches,    \* what applyPatches still has to do
    screen,     \* tcell's cell buffer
    dim,        \* the driver's cached cols and rows
    termSize,   \* the size of the real terminal
    resizes,    \* EventResize events not polled yet
    storing,    \* size whose rows PollEvent has still to store
    spent,      \* [frames, draws, resizes] so far
    dirt        \* history: why the terminal may differ from lastFrame

fbVars == <<grids, pool, lastFrame, next, fbPc, frameSize, patches, screen,
            dim, termSize, resizes, storing, spent, dirt>>

None == 0
Buckets == {"small", "medium", "large"}
Chars == {"a", "W"}     \* a narrow and a wide rune
RuneWidth(c) == IF c = "W" THEN 2 ELSE 1
Cells(sz) == 0..(sz[1] * sz[2] - 1)
Columns == UNION {0..sz[1]-1 : sz \in FbSizes}
Rows == UNION {0..sz[2]-1 : sz \in FbSizes}
Surface == Columns \X Rows
-----------------------------------------------------------------------------
(* Grid *)
NewGrid(sz) == [size |-> sz, cells |-> [i \in Cells(sz) |-> "zero"],
                stamp |-> [i \in Cells(sz) |-> 0], gen |-> 1, cap |-> sz[1] * sz[2]]

InGrid(g, x, y) == x \in 0..g.size[1]-1 /\ y \in 0..g.size[2]-1
idx(g, x, y) == y * g.size[1] + x
live(g, x, y) == InGrid(g, x, y) /\ g.stamp[idx(g, x, y)] = g.gen
Cell(g, x, y) == IF live(g, x, y) THEN g.cells[idx(g, x, y)] ELSE "zero"

setCellRaw(g, x, y, c) ==
    [g EXCEPT !.cells[idx(g, x, y)] = c, !.stamp[idx(g, x, y)] = g.gen]

clearWideOverlap(g, x, y) ==
    LET old == Cell(g, x, y) IN
    IF old = "cont"
    THEN IF Cell(g, x - 1, y) = "W" THEN setCellRaw(g, x - 1, y, "zero") ELSE g
    ELSE IF old = "W" /\ Cell(g, x + 1, y) = "cont"
         THEN setCellRaw(g, x + 1, y, "zero") ELSE g

SetCell(g, x, y, c) ==
    LET h == setCellRaw(clearWideOverlap(g, x, y), x, y, c)
    IN  IF RuneWidth(c) = 2 /\ x + 1 < g.size[1] THEN setCellRaw(h, x + 1, y, "cont") ELSE h

(* Rows are copied one by one, because idx depends on cols; with equal cols *)
(* and fewer rows the slice, and with it its capacity, is kept.             *)
Resize(g, sz) ==
    LET kept(i) == i % sz[1] < g.size[1] /\ i \div sz[1] < g.size[2]
        from(i) == (i \div sz[1]) * g.size[1] + (i % sz[1])
    IN  [size |-> sz, gen |-> g.gen,
         cells |-> [i \in Cells(sz) |-> IF kept(i) THEN g.cells[from(i)] ELSE "zero"],
         stamp |-> [i \in Cells(sz) |-> IF kept(i) THEN g.stamp[from(i)] ELSE 0],
         cap |-> IF sz[1] = g.size[1] /\ sz[2] <= g.size[2] THEN g.cap ELSE sz[1] * sz[2]]

Reset_Wraps(g) == [g EXCEPT !.gen = (@ + 1) % GenLimit]

(* On wraparound every stamp is cleared and the generation restarts at 1. *)
Reset(g) ==
    IF (g.gen + 1) % GenLimit # 0 THEN [g EXCEPT !.gen = @ + 1]
    ELSE [g EXCEPT !.gen = 1, !.cells = [i \in DOMAIN @ |-> "zero"],
                   !.stamp = [i \in DOMAIN @ |-> 0]]
-----------------------------------------------------------------------------
(* BufferPool: by cells needed on the way out, by capacity on the way in. *)
subPoolFor(n) ==
    IF n <= SmallCapacity THEN "small"
    ELSE IF n <= MediumCapacity THEN "medium"
    ELSE IF n <= LargeCapacity THEN "large"
    ELSE "none"

Release(p, g, id) ==
    IF id = None \/ subPoolFor(g[id].cap) = "none" THEN p
    ELSE [p EXCEPT ![subPoolFor(g[id].cap)] = @ \cup {id}]

Fresh == spent.frames      \* a Grid is named after the frame that allocated it
-----------------------------------------------------------------------------
(* The loop over the cells: the members of S below n, in order. *)
Ascending(S, n) ==
    LET upTo[k \in 0..n] == IF k = 0 THEN <<>>
                            ELSE IF k-1 \in S THEN Append(upTo[k-1], k-1) ELSE upTo[k-1]
    IN  upTo[n]

(* DiffEngine.Diff: row-major, continuation cells skipped, only non-zero   *)
(* cells on a full redraw.                                                 *)
Diff(prev, g) ==
    LET resized == prev # None /\ grids[prev].size # g.size
        full == prev = None \/ resized
        pos(i) == <<i % g.size[1], i \div g.size[1]>>
        changed(i) ==
            LET c == Cell(g, pos(i)[1], pos(i)[2]) IN
            /\ c # "cont"
            /\ IF full THEN c # "zero" ELSE Cell(grids[prev], pos(i)[1], pos(i)[2]) # c
        order == Ascending({i \in Cells(g.size) : changed(i)}, g.size[1] * g.size[2])
    IN  (IF resized THEN <<[kind |-> "resize", at |-> g.size, cell |-> "zero"]>> ELSE <<>>)
        \o [k \in DOMAIN order |-> [kind |-> "set", at |-> pos(order[k]),
                                    cell |-> Cell(g, pos(order[k])[1], pos(order[k])[2])]]

(* The clear translation of applyPatches: the zero Cell is sent as a space. *)
shown(c) == IF c = "zero" THEN " " ELSE c
-----------------------------------------------------------------------------
FbInit ==
    /\ grids = [i \in 1..MaxFrames |-> NewGrid(<<0, 0>>)]
    /\ pool = [b \in Buckets |-> {}]
    /\ lastFrame = None /\ next = None
    /\ fbPc = "init" /\ frameSize = <<0, 0>> /\ patches = <<>>
    /\ screen = [p \in Surface |-> " "]
    /\ dim = <<0, 0>> /\ termSize = <<0, 0>> /\ resizes = <<>> /\ storing = <<>>
    /\ spent = [frames |-> 0, draws |-> 0, resizes |-> 0]
    /\ dirt = {}

(* Driver.Init caches the size the terminal has. *)
DriverInit ==
    /\ fbPc = "init" /\ fbPc' = "idle"
    /\ \E sz \in FbSizes : dim' = sz /\ termSize' = sz
    /\ UNCHANGED <<grids, pool, lastFrame, next, frameSize, patches, screen, resizes, storing, spent, dirt>>

(* The window changes; tcell keeps the cells that still fit and queues an event. *)
TermResize ==
    /\ fbPc # "init" /\ spent.resizes < MaxResizes
    /\ \E sz \in FbSizes \ {termSize} :
        /\ termSize' = sz
        /\ resizes' = Append(resizes, sz)
        /\ screen' = [p \in Surface |-> IF p[1] < sz[1] /\ p[2] < sz[2] THEN screen[p] ELSE " "]
    /\ spent' = [spent EXCEPT !.resizes = @ + 1]
    /\ dirt' = dirt \cup {"window"}
    /\ UNCHANGED <<grids, pool, lastFrame, next, fbPc, frameSize, patches, dim, storing>>

(* PollEvent stores cols and rows in two atomics. *)
PollResizeCols ==
    /\ storing = <<>> /\ resizes # <<>>
    /\ storing' = Head(resizes) /\ resizes' = Tail(resizes)
    /\ dim' = <<Head(resizes)[1], dim[2]>>
    /\ UNCHANGED <<grids, pool, lastFrame, next, fbPc, frameSize, patches, screen, termSize, spent, dirt>>

PollResizeRows ==
    /\ storing # <<>>
    /\ dim' = <<dim[1], storing[2]>> /\ storing' = <<>>
    /\ UNCHANGED <<grids, pool, lastFrame, next, fbPc, frameSize, patches, screen, termSize, resizes, spent, dirt>>

(* runFrame up to the first load of driver.Size(). *)
FrameBegin ==
    /\ fbPc = "idle" /\ spent.frames < MaxFrames
    /\ fbPc' = "size" /\ frameSize' = dim
    /\ spent' = [spent EXCEPT !.frames = @ + 1]
    /\ UNCHANGED <<grids, pool, lastFrame, next, patches, screen, dim, termSize, resizes, storing, dirt>>

(* The second load, then BufferPool.Acquire: sync.Pool may give any parked *)
(* Grid or none; a parked one is resized and reset.                        *)
Acquire ==
    /\ fbPc = "size"
    /\ LET sz == <<frameSize[1], dim[2]>>
           b == subPoolFor(sz[1] * sz[2])
       IN  /\ frameSize' = sz
           /\ \/ /\ next' = Fresh
                 /\ grids' = [grids EXCEPT ![Fresh] = NewGrid(sz)]
                 /\ pool' = pool
              \/ /\ b \in Buckets
                 /\ \E id \in pool[b] :
                      /\ next' = id
                      /\ grids' = [grids EXCEPT ![id] = Reset(Resize(@, sz))]
                      /\ pool' = [pool EXCEPT ![b] = @ \ {id}]
    /\ fbPc' = "render"
    /\ UNCHANGED <<lastFrame, patches, screen, dim, termSize, resizes, storing, spent, dirt>>

(* One SetCell of the RenderFn. *)
Draw ==
    /\ fbPc = "render" /\ spent.draws < MaxDraws
    /\ \E x \in 0..frameSize[1]-1, y \in 0..frameSize[2]-1, c \in Chars :
         grids' = [grids EXCEPT ![next] = SetCell(@, x, y, c)]
    /\ spent' = [spent EXCEPT !.draws = @ + 1]
    /\ UNCHANGED <<pool, lastFrame, next, fbPc, frameSize, patches, screen, dim, termSize, resizes, storing, dirt>>

DiffFrames ==
    /\ fbPc = "render"
    /\ patches' = Diff(lastFrame, grids[next])
    /\ fbPc' = "apply"
    /\ UNCHANGED <<grids, pool, lastFrame, next, frameSize, screen, dim, termSize, resizes, storing, spent, dirt>>

(* One patch.  Driver.Resize stores the frame's size in the cache and calls *)
(* Sync, which repaints the cell buffer and clears none of it.              *)
ApplyPatch ==
    /\ fbPc = "apply" /\ patches # <<>>
    /\ patches' = Tail(patches)
    /\ LET p == Head(patches) IN
       IF p.kind = "resize"
       THEN /\ dim' = p.at
            /\ dirt' = IF p.at = termSize THEN {"redraw"} ELSE dirt \cup {"window"}
            /\ screen' = screen
       ELSE /\ screen' = IF p.at[1] < termSize[1] /\ p.at[2] < termSize[2]
                         THEN [screen EXCEPT ![p.at] = shown(p.cell)] ELSE screen
            /\ UNCHANGED <<dim, dirt>>
    /\ UNCHANGED <<grids, pool, lastFrame, next, fbPc, frameSize, termSize, resizes, storing, spent>>

(* Show, release prev, adopt next as lastFrame. *)
Adopt ==
    /\ fbPc = "apply" /\ patches = <<>>
    /\ pool' = Release(pool, grids, lastFrame)
    /\ lastFrame' = next /\ next' = None /\ fbPc' = "idle"
    /\ UNCHANGED <<grids, frameSize, patches, screen, dim, termSize, resizes, storing, spent, dirt>>

(* A panic before next is adopted: the deferred function releases next and *)
(* lastFrame stays what it was, whatever part of the patches was sent.     *)
FramePanics ==
    /\ fbPc \in {"render", "apply"}
    /\ pool' = Release(pool, grids, next)
    /\ next' = None /\ fbPc' = "idle" /\ patches' = <<>>
    /\ dirt' = IF fbPc = "apply" THEN dirt \cup {"panic"} ELSE dirt
    /\ UNCHANGED <<grids, lastFrame, frameSize, screen, dim, termSize, resizes, storing, spent>>

(* Run returns: the deferred release of lastFrame. *)
RunExit ==
    /\ fbPc = "idle"
    /\ pool' = Release(pool, grids, lastFrame)
    /\ lastFrame' = None /\ fbPc' = "stopped"
    /\ UNCHANGED <<grids, next, frameSize, patches, screen, dim, termSize, resizes, storing, spent, dirt>>

FbDone == fbPc = "stopped" /\ UNCHANGED fbVars

FbNext ==
    \/ DriverInit \/ TermResize \/ PollResizeCols \/ PollResizeRows
    \/ FrameBegin \/ Acquire \/ Draw \/ DiffFrames \/ ApplyPatch \/ Adopt
    \/ FramePanics \/ RunExit \/ FbDone

FbSpec == FbInit /\ [][FbNext]_fbVars
-----------------------------------------------------------------------------
(* No Grid is in the pool and in use at once, or in two sub-pools: the     *)
(* use-after-release that the ownership contract of BufferPool forbids,    *)
(* for every panic in a frame.                                             *)
GridOwnership ==
    /\ \A b \in Buckets : pool[b] \cap {lastFrame, next} = {}
    /\ \A b, c \in Buckets : b # c => pool[b] \cap pool[c] = {}
    /\ lastFrame # None => lastFrame # next
    /\ fbPc \in {"render", "apply"} => next # None

(* A Grid that Acquire hands out reads as blank, also when its array was   *)
(* used for other frames and its generation counter wrapped around.        *)
AcquiredBlank ==
    [][Acquire => \A p \in Surface : Cell(grids'[next'], p[1], p[2]) = "zero"]_fbVars

(* Between frames the terminal shows every drawn cell of lastFrame, unless *)
(* patches were cut short by a panic or the window changed and no frame    *)
(* has redrawn it yet; without a redraw it shows every blank cell too.  A  *)
(* panic while rendering leaves no trace.                                  *)
ScreenShowsFrame ==
    fbPc = "idle" /\ lastFrame # None =>
        \A p \in Surface :
            LET c == Cell(grids[lastFrame], p[1], p[2]) IN
            /\ c \in Chars /\ dirt \subseteq {"redraw"} => screen[p] = c
            /\ c = "zero" /\ dirt = {} => screen[p] = " "

(* A frame is drawn on a blank Grid that nobody else holds, and the        *)
(* terminal shows it afterwards, for every panic and resize.               *)
FrameContract ==
    /\ [](GridOwnership /\ ScreenShowsFrame)
    /\ AcquiredBlank
=============================================================================
