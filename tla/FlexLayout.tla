----------------------------- MODULE FlexLayout -----------------------------
(***************************************************************************)
(* flexLayouter.Layout: intrinsic sizes bottom-up, then basis, growing and *)
(* shrinking, and positions top-down.  Weights are float64 in the code.    *)
(* Shares depend on their ratios only, so a tree counts them in a unit, a  *)
(* power of two small enough to make its weights whole (quarters, say);    *)
(* what matters is that every sum, quotient and product is rounded.        *)
(***************************************************************************)
EXTENDS Integers, Sequences, FiniteSets, SequencesExt, FiniteSetsExt

CONSTANTS
    FlexTrees,      \* [kids : [1..n -> Seq], node : [1..n -> specs]]; 1 is the root
    FlexViewports,  \* <<width, height>>
    MaxDim,         \* math.MaxInt32
    MaxChildren,
    MantissaBits    \* significant bits of a float: 53 in a float64

(* A cell count is a float, and the rounding of a sum of shares stays      *)
(* below one cell: 2^31 * 1001 against 2^53.                               *)
ASSUME FloatAssumption ==
    /\ MantissaBits \in Nat \ {0} /\ MaxDim \in Nat /\ MaxChildren \in Nat
    /\ MaxDim * (MaxChildren + 1) < 2^MantissaBits

VARIABLES tree, viewport, result

flexVars == <<tree, viewport, result>>

ErrInvalidDimension == [err |-> "INVALID_DIMENSION", box |-> <<>>]
FlexPending == [err |-> "pending", box |-> <<>>]

mainOf(dir, sz) == IF dir = "row" THEN sz[1] ELSE sz[2]
crossOf(dir, sz) == IF dir = "row" THEN sz[2] ELSE sz[1]
pair(dir, main, cross) == IF dir = "row" THEN <<main, cross>> ELSE <<cross, main>>
SumSeq(s) == LET acc[i \in 0..Len(s)] == IF i = 0 THEN 0 ELSE acc[i-1] + s[i] IN acc[Len(s)]

(* No shared node, no negative weight or basis, not too many children. *)
validateTree(t) ==
    LET refs == FlattenSeq(t.kids) IN
    /\ \A i, j \in DOMAIN refs : i # j => refs[i] # refs[j]
    /\ \A n \in DOMAIN t.node :
         /\ t.node[n].grow >= 0 /\ t.node[n].shrink >= 0
         /\ t.node[n].fixed => t.node[n].basis >= 0
         /\ Len(t.kids[n]) <= MaxChildren

(* Phase A: a leaf measures itself, a container adds up its children. *)
intrinsicPass(t) ==
    LET dir(n) == t.node[n].dir
        size[n \in DOMAIN t.node] ==
            IF t.kids[n] = <<>> THEN t.node[n].size
            ELSE pair(dir(n), SumSeq([i \in DOMAIN t.kids[n] |-> mainOf(dir(n), size[t.kids[n][i]])]),
                      Max({crossOf(dir(n), size[k]) : k \in ToSet(t.kids[n])}))
    IN  size

(* The float <<num, den>> nearest to n/d, the even one of two.             *)
Scales == {<<2^i, 1>> : i \in 0..2*MantissaBits} \cup {<<1, 2^i>> : i \in 1..MantissaBits}
Float(n, d) ==
    LET scale == CHOOSE s \in Scales : /\ 2^(MantissaBits - 1) * d * s[2] <= n * s[1]
                                       /\ n * s[1] < 2^MantissaBits * d * s[2]
        num == n * scale[1]
        den == d * scale[2]
        q == num \div den
        twice == 2 * (num % den)
        up == twice > den \/ (twice = den /\ q % 2 = 1)
    IN  IF n = 0 THEN <<0, 1>>
        ELSE <<(q + IF up THEN 1 ELSE 0) * scale[2], scale[1]>>

(* totalGrow and totalShrink, added up child by child. *)
sumWeights(ws) ==
    LET acc[i \in 0..Len(ws)] ==
            IF i = 0 THEN <<0, 1>>
            ELSE Float(acc[i-1][1] + ws[i] * acc[i-1][2], acc[i-1][2])
    IN  acc[Len(ws)]

(* int(float64(cells) * (weight / total)) *)
shareOf(cells, weight, total) ==
    LET ratio == Float(weight * total[2], total[1])
        product == Float(cells * ratio[1], ratio[2])
    IN  product[1] \div product[2]

(* Phase C, room left: truncated shares, the rest to the largest weight. *)
largestGrowIdx(t, ks) ==
    Min({i \in DOMAIN ks : \A j \in DOMAIN ks : t.node[ks[j]].grow <= t.node[ks[i]].grow})

(* Mutant: what truncation leaves is given to nobody. *)
growSizes_DropsRest(t, ks, bases, remainder) ==
    LET grow == [i \in DOMAIN ks |-> t.node[ks[i]].grow]
        total == sumWeights(grow)
    IN  IF total[1] = 0 THEN bases
        ELSE [i \in DOMAIN ks |-> bases[i] + shareOf(remainder, grow[i], total)]

growSizes(t, ks, bases, remainder) ==
    LET grow == [i \in DOMAIN ks |-> t.node[ks[i]].grow]
        total == sumWeights(grow)
        share(i) == shareOf(remainder, grow[i], total)
        rest == remainder - SumSeq([i \in DOMAIN ks |-> share(i)])
    IN  IF total[1] = 0 THEN bases
        ELSE [i \in DOMAIN ks |->
                bases[i] + share(i) + IF i = largestGrowIdx(t, ks) THEN rest ELSE 0]

(* Phase C, too little room: cut by weight, then one cell at a time from   *)
(* the child of the largest weight that still has a cell, a weight of 0    *)
(* included.                                                               *)
largestShrinkIdxWithRoom(t, ks, sizes) ==
    LET room == {i \in DOMAIN ks : sizes[i] > 0}
    IN  IF room = {} THEN 0
        ELSE Min({i \in room : \A j \in room : t.node[ks[j]].shrink <= t.node[ks[i]].shrink})

shrinkSizes(t, ks, bases, overflow) ==
    LET shrink == [i \in DOMAIN ks |-> t.node[ks[i]].shrink]
        total == sumWeights(shrink)
        cut(i) == shareOf(overflow, shrink[i], total)
        first == [i \in DOMAIN ks |-> Max({0, bases[i] - cut(i)})]
        left == overflow - (SumSeq(bases) - SumSeq(first))
        trim[k \in 0..Max({0, left})] ==
            IF k = 0 THEN first
            ELSE LET i == largestShrinkIdxWithRoom(t, ks, trim[k-1])
                 IN  IF i = 0 THEN trim[k-1] ELSE [trim[k-1] EXCEPT ![i] = @ - 1]
    IN  IF total[1] = 0 THEN bases ELSE trim[Max({0, left})]

effectiveBasis(t, n, dir, intr) == IF t.node[n].fixed THEN t.node[n].basis ELSE mainOf(dir, intr[n])

clampCross(child, parent) == IF child <= 0 \/ child > parent THEN parent ELSE child

applyAlign(align, parent, child) ==
    LET size == IF align = "stretch" THEN parent ELSE clampCross(child, parent)
    IN  <<size, CASE align = "center" -> (parent - size) \div 2
                  [] align = "end" -> parent - size
                  [] OTHER -> 0>>

(* <<leading space, gap between children>> *)
applyJustify(justify, parent, total, n) ==
    LET free == Max({0, parent - total})
    IN  CASE justify = "around" -> <<free \div (2 * n), 2 * (free \div (2 * n))>>
          [] justify = "between" -> <<0, IF n < 2 THEN 0 ELSE free \div (n - 1)>>
          [] justify = "center" -> <<free \div 2, 0>>
          [] justify = "end" -> <<free, 0>>
          [] OTHER -> <<0, 0>>

ParentOf(t, n) == CHOOSE p \in DOMAIN t.kids : n \in ToSet(t.kids[p])

(* Phases B and C for every node: the size of each from its parent's. *)
mainSizes(t, p, sz, intr) ==
    LET ks == t.kids[p]
        dir == t.node[p].dir
        bases == [i \in DOMAIN ks |-> effectiveBasis(t, ks[i], dir, intr)]
        remainder == mainOf(dir, sz) - SumSeq(bases)
    IN  CASE remainder > 0 -> growSizes(t, ks, bases, remainder)
          [] remainder < 0 -> shrinkSizes(t, ks, bases, -remainder)
          [] OTHER -> bases

distributePass(t, vp, intr) ==
    LET size[n \in DOMAIN t.node] ==
            IF n = 1 THEN vp
            ELSE LET p == ParentOf(t, n)
                     dir == t.node[p].dir
                     i == CHOOSE i \in DOMAIN t.kids[p] : t.kids[p][i] = n
                 IN  pair(dir, mainSizes(t, p, size[p], intr)[i],
                          applyAlign(t.node[p].align, crossOf(dir, size[p]), crossOf(dir, intr[n]))[1])
    IN  size

(* Phase D: children one after another from the leading space on. *)
positionPass(t, size) ==
    LET at[n \in DOMAIN t.node] ==
            IF n = 1 THEN <<0, 0>>
            ELSE LET p == ParentOf(t, n)
                     dir == t.node[p].dir
                     ks == t.kids[p]
                     i == CHOOSE i \in DOMAIN ks : ks[i] = n
                     mains == [k \in DOMAIN ks |-> mainOf(dir, size[ks[k]])]
                     jg == applyJustify(t.node[p].justify, mainOf(dir, size[p]), SumSeq(mains), Len(ks))
                 IN  pair(dir,
                       mainOf(dir, at[p]) + jg[1] + SumSeq(SubSeq(mains, 1, i - 1)) + (i - 1) * jg[2],
                       crossOf(dir, at[p])
                         + applyAlign(t.node[p].align, crossOf(dir, size[p]), crossOf(dir, size[n]))[2])
    IN  at

(* Layout with its error returns; sums must fit in MaxDim. *)
LayoutOf(t, vp) ==
    LET intr == intrinsicPass(t)
        size == distributePass(t, vp, intr)
        overflows(p) == SumSeq([i \in DOMAIN t.kids[p] |->
                            effectiveBasis(t, t.kids[p][i], t.node[p].dir, intr)]) > MaxDim
                        \/ mainOf(t.node[p].dir, intr[p]) > MaxDim
    IN  IF vp[1] <= 0 \/ vp[2] <= 0 \/ ~validateTree(t) THEN ErrInvalidDimension
        ELSE IF \E n \in DOMAIN t.node : t.kids[n] = <<>> /\ Min({t.node[n].size[1], t.node[n].size[2]}) < 0
             THEN ErrInvalidDimension
        ELSE IF \E p \in DOMAIN t.node : overflows(p) THEN ErrInvalidDimension
        ELSE LET at == positionPass(t, size)
             IN  [err |-> "none", box |-> [n \in DOMAIN t.node |-> [at |-> at[n], size |-> size[n]]]]

FlexInit ==
    /\ tree = [kids |-> <<>>, node |-> <<>>]
    /\ viewport = <<0, 0>>
    /\ result = FlexPending

Layout ==
    /\ result = FlexPending
    /\ tree' \in FlexTrees /\ viewport' \in FlexViewports
    /\ result' = LayoutOf(tree', viewport')

FlexDone == result # FlexPending /\ UNCHANGED flexVars

FlexNext == Layout \/ FlexDone
FlexSpec == FlexInit /\ [][FlexNext]_flexVars
-----------------------------------------------------------------------------
Ok == result.err = "none"
MainExtent(p, n) == mainOf(tree.node[p].dir, result.box[n].size)
Basis(p, n) == effectiveBasis(tree, n, tree.node[p].dir, intrinsicPass(tree))
BasisSum(p, ns) == MapThenSumSet(LAMBDA n : Basis(p, n), ns)

(* The main axis is handed out to the cell, at every level of the tree and *)
(* for every rounding of the shares: what truncation leaves over goes to   *)
(* somebody who grows; and as long as the children that may shrink can     *)
(* give up what is missing, they alone do, and give up no more than that.  *)
MainAxisFilled ==
    Ok => \A p \in DOMAIN tree.kids :
        LET kids == ToSet(tree.kids[p])
            parent == mainOf(tree.node[p].dir, result.box[p].size)
            used == MapThenSumSet(LAMBDA n : MainExtent(p, n), kids)
            missing == BasisSum(p, kids) - parent
            elastic == {n \in kids : tree.node[n].shrink > 0}
        IN  /\ missing < 0 /\ (\E n \in kids : tree.node[n].grow > 0) => used = parent
            /\ missing > 0 /\ BasisSum(p, elastic) >= missing =>
                  /\ used = parent
                  /\ \A n \in kids \ elastic : MainExtent(p, n) = Basis(p, n)

(* Children that fit lie inside their parent, in order, without overlap,   *)
(* for every combination of justify and align.                             *)
ChildrenInside ==
    Ok => \A p \in DOMAIN tree.kids :
        LET dir == tree.node[p].dir
            ks == tree.kids[p]
            box == result.box
            used == SumSeq([i \in DOMAIN ks |-> MainExtent(p, ks[i])])
            start(n) == mainOf(dir, box[n].at)
            cross(n) == crossOf(dir, box[n].at)
        IN  /\ \A i \in DOMAIN ks : MainExtent(p, ks[i]) >= 0
            /\ \A i \in 1..Len(ks)-1 : start(ks[i]) + MainExtent(p, ks[i]) <= start(ks[i+1])
            /\ used <= MainExtent(p, p) /\ ks # <<>> =>
                  /\ start(p) <= start(ks[1])
                  /\ start(Last(ks)) + MainExtent(p, Last(ks)) <= start(p) + MainExtent(p, p)
            /\ \A i \in DOMAIN ks :
                  /\ cross(p) <= cross(ks[i])
                  /\ cross(ks[i]) + crossOf(dir, box[ks[i]].size) <= cross(p) + crossOf(dir, box[p].size)

(* Children tile their parent: no cell of the main axis is lost to         *)
(* truncation, none is given twice.                                        *)
LayoutTiles == MainAxisFilled /\ ChildrenInside

(* What flex.go says of Shrink = 0 ("do not shrink") and its tests repeat: *)
(* such a child keeps its basis even with overflow.  The loop that takes   *)
(* what is left over asks only who has room.                               *)
NoShrinkKeepsBasis ==
    Ok => \A p \in DOMAIN tree.kids : \A n \in ToSet(tree.kids[p]) :
            tree.node[n].shrink = 0 => MainExtent(p, n) >= Basis(p, n)
=============================================================================
