---------------------------- MODULE RenderProofs ----------------------------
(***************************************************************************)
(* Theorems about the components around the screen: the input line, the    *)
(* frames that are drawn, the tool blocks of the transcript, the token     *)
(* stream, the scrollback and the diff blocks.                             *)
(***************************************************************************)
EXTENDS InputLine, FrameBuffer, ToolBlocks, TokenStream, Scrollback, DiffBlock, SequenceTheorems,
        FiniteSetTheorems, NaturalsInduction, WellFoundedInduction, TLAPS

(* A set of numbers that is not empty has a least element.                 *)
LEMMA LeastNat ==
    ASSUME NEW T, T \subseteq Nat, T # {}
    PROVE  \E m \in T : \A k \in T : m <= k
  <1>1. PICK m \in T : \A k \in T : ~(<<k, m>> \in OpToRel(<, Nat))
    BY NatLessThanWellFounded, WFMin
  <1>2. \A k \in T : ~(k < m)
    BY <1>1 DEF OpToRel
  <1> QED BY <1>2

-----------------------------------------------------------------------------
(* The input line.                                                         *)

Texts == Seq(InputRunes)

(* One step of the walk over the submitted lines.                          *)
AddLine(d, l) == IF d # <<>> /\ Last(d) = l THEN d ELSE Append(d, l)
Agree(a, b, N) == \A n \in 1..N : a[n] = b[n]
Walks(lines, m, g) ==
    /\ g[0] = <<>>
    /\ \A n \in 1..m : g[n] = AddLine(g[n-1], lines[n])

LEMMA AddLineType == ASSUME NEW d \in Seq(Texts), NEW l \in Texts PROVE AddLine(d, l) \in Seq(Texts)
  BY DEF AddLine

(* The walk exists: there is no first line it cannot be extended to.       *)
LEMMA WalkExists ==
    ASSUME NEW lines \in Seq(Texts), NEW N \in Nat, N <= Len(lines)
    PROVE  \E g \in [0..N -> Seq(Texts)] : Walks(lines, N, g)
  <1> DEFINE T == {m \in 0..N : ~\E g \in [0..m -> Seq(Texts)] : Walks(lines, m, g)}
  <1>1. T = {}
    <2> SUFFICES ASSUME T # {} PROVE FALSE
      OBVIOUS
    <2>1. T \subseteq Nat
      OBVIOUS
    <2>2. PICK m \in T : \A k \in T : m <= k
      BY <2>1, LeastNat
    <2>3. m \in 0..N /\ m \in Nat
      OBVIOUS
    <2>4. CASE m = 0
      <3>1. PICK g : g = [i \in 0..0 |-> <<>>]
        OBVIOUS
      <3>2. g \in [0..0 -> Seq(Texts)] /\ g[0] = <<>>
        BY <3>1
      <3>3. Walks(lines, 0, g)
        BY <3>2 DEF Walks
      <3> QED BY <2>4, <3>2, <3>3
    <2>5. CASE m # 0
      <3>1. m - 1 \in 0..N /\ m - 1 \notin T /\ m \in 1..Len(lines)
        BY <2>2, <2>3, <2>5
      <3>2. PICK g \in [0..(m - 1) -> Seq(Texts)] : Walks(lines, m - 1, g)
        BY <3>1
      <3>3. PICK x : x = AddLine(g[m - 1], lines[m])
        OBVIOUS
      <3>4. x \in Seq(Texts)
        <4>1. m - 1 \in 0..(m - 1) /\ lines[m] \in Texts
          BY <2>3, <3>1
        <4> QED BY <3>2, <3>3, <4>1, AddLineType
      <3>5. PICK h : h = [i \in 0..m |-> IF i = m THEN x ELSE g[i]]
        OBVIOUS
      <3>6. /\ h \in [0..m -> Seq(Texts)] /\ h[m] = x
            /\ \A i \in 0..(m - 1) : h[i] = g[i]
        BY <2>3, <2>5, <3>2, <3>4, <3>5
      <3>7. Walks(lines, m, h)
        <4>1. h[0] = <<>>
          BY <2>3, <2>5, <3>2, <3>6 DEF Walks
        <4>2. ASSUME NEW n \in 1..m PROVE h[n] = AddLine(h[n-1], lines[n])
          <5>1. CASE n = m
            <6>1. h[n - 1] = g[m - 1]
              BY <2>3, <2>5, <3>6, <5>1
            <6> QED BY <3>3, <3>6, <5>1, <6>1
          <5>2. CASE n # m
            <6>1. n \in 1..(m - 1) /\ n \in 0..(m - 1) /\ n - 1 \in 0..(m - 1)
              BY <2>3, <5>2
            <6> QED BY <3>2, <3>6, <6>1 DEF Walks
          <5> QED BY <5>1, <5>2
        <4> QED BY <4>1, <4>2 DEF Walks
      <3> QED BY <3>6, <3>7
    <2> QED BY <2>4, <2>5
  <1> QED BY <1>1

(* Two walks agree as far as their lines do.                               *)
LEMMA WalkUnique ==
    ASSUME NEW a, NEW b, NEW N \in Nat, NEW g, NEW h, Walks(a, N, g), Walks(b, N, h), Agree(a, b, N)
    PROVE  g[N] = h[N]
  <1> DEFINE T == {m \in 0..N : g[m] # h[m]}
  <1>1. T = {}
    <2> SUFFICES ASSUME T # {} PROVE FALSE
      OBVIOUS
    <2>1. T \subseteq Nat
      OBVIOUS
    <2>2. PICK m \in T : \A k \in T : m <= k
      BY <2>1, LeastNat
    <2>3. m \in 0..N /\ m # 0
      BY DEF Walks
    <2>4. m \in 1..N /\ m - 1 \in 0..N /\ m - 1 \notin T
      BY <2>2, <2>3
    <2>5. g[m - 1] = h[m - 1]
      BY <2>4
    <2>6. g[m] = AddLine(g[m - 1], a[m]) /\ h[m] = AddLine(h[m - 1], b[m])
      BY <2>4 DEF Walks
    <2>7. a[m] = b[m]
      BY <2>4 DEF Agree
    <2> QED BY <2>5, <2>6, <2>7
  <1>2. N \in 0..N
    OBVIOUS
  <1> QED BY <1>1, <1>2

(* DistinctOf ends such a walk.                                            *)
LEMMA DistinctWalk ==
    ASSUME NEW lines \in Seq(Texts)
    PROVE  \E g \in [0..Len(lines) -> Seq(Texts)] :
              Walks(lines, Len(lines), g) /\ DistinctOf(lines) = g[Len(lines)]
  <1> DEFINE N == Len(lines)
             d == CHOOSE d : d = [n \in 0..N |->
                    IF n = 0 THEN <<>>
                    ELSE IF d[n-1] # <<>> /\ Last(d[n-1]) = lines[n] THEN d[n-1]
                    ELSE Append(d[n-1], lines[n])]
  <1>0. N \in Nat /\ N <= Len(lines)
    OBVIOUS
  <1>1. PICK g \in [0..N -> Seq(Texts)] : Walks(lines, N, g)
    BY <1>0, WalkExists
  <1>2. g = [n \in 0..N |-> IF n = 0 THEN <<>>
                    ELSE IF g[n-1] # <<>> /\ Last(g[n-1]) = lines[n] THEN g[n-1]
                    ELSE Append(g[n-1], lines[n])]
    <2>1. ASSUME NEW n \in 0..N
          PROVE  g[n] = IF n = 0 THEN <<>>
                    ELSE IF g[n-1] # <<>> /\ Last(g[n-1]) = lines[n] THEN g[n-1]
                    ELSE Append(g[n-1], lines[n])
      <3>1. n = 0 \/ n \in 1..N
        BY <1>0
      <3> QED BY <1>1, <3>1 DEF Walks, AddLine
    <2> QED BY <2>1
  <1>3. d = [n \in 0..N |-> IF n = 0 THEN <<>>
                    ELSE IF d[n-1] # <<>> /\ Last(d[n-1]) = lines[n] THEN d[n-1]
                    ELSE Append(d[n-1], lines[n])]
    BY <1>2
  <1>4. DistinctOf(lines) = d[N]
    BY DEF DistinctOf
  <1> HIDE DEF d
  <1>5. Walks(lines, N, d)
    <2>1. d[0] = <<>>
      BY <1>0, <1>3
    <2>2. ASSUME NEW n \in 1..N PROVE d[n] = AddLine(d[n-1], lines[n])
      <3>1. n \in 0..N /\ n # 0
        BY <1>0
      <3> QED BY <1>3, <3>1 DEF AddLine
    <2> QED BY <2>1, <2>2 DEF Walks
  <1>6. d[N] = g[N]
    <2>1. Agree(lines, lines, N)
      BY DEF Agree
    <2> QED BY <1>0, <1>1, <1>5, <2>1, WalkUnique
  <1> QED BY <1>1, <1>4, <1>6

LEMMA DistinctAppend ==
    ASSUME NEW lines \in Seq(Texts), NEW l \in Texts
    PROVE  /\ DistinctOf(lines) \in Seq(Texts)
           /\ DistinctOf(Append(lines, l)) = AddLine(DistinctOf(lines), l)
  <1>0. PICK N, more : N = Len(lines) /\ more = Append(lines, l)
    OBVIOUS
  <1>1. /\ N \in Nat /\ more \in Seq(Texts) /\ Len(more) = N + 1 /\ more[N + 1] = l
        /\ \A n \in 1..N : more[n] = lines[n]
    BY <1>0
  <1>2. PICK g \in [0..N -> Seq(Texts)] : Walks(lines, N, g) /\ DistinctOf(lines) = g[N]
    BY <1>0, DistinctWalk
  <1>3. PICK h \in [0..(N + 1) -> Seq(Texts)] :
           Walks(more, N + 1, h) /\ DistinctOf(more) = h[N + 1]
    BY <1>1, DistinctWalk
  <1>4. Walks(more, N, h)
    <2>1. \A n \in 1..N : n \in 1..(N + 1)
      BY <1>1
    <2> QED BY <1>3, <2>1 DEF Walks
  <1>8. Agree(lines, more, N)
    BY <1>1 DEF Agree
  <1>5. g[N] = h[N]
    <2>1. Walks(lines, N, g)
      BY <1>2
    <2>2. N \in Nat
      BY <1>1
    <2> QED BY <1>4, <1>8, <2>1, <2>2, WalkUnique
  <1>6. h[N + 1] = AddLine(h[N], l)
    <2>1. N + 1 \in 1..(N + 1) /\ (N + 1) - 1 = N
      BY <1>1
    <2> QED BY <1>1, <1>3, <2>1 DEF Walks
  <1>7. g[N] \in Seq(Texts)
    BY <1>1, <1>2
  <1> QED BY <1>0, <1>2, <1>3, <1>5, <1>6, <1>7

(* Where an entry of the ring is.                                          *)
LEMMA ModSlot ==
    ASSUME NEW C \in Nat \ {0}, NEW x \in Int, x >= 0, x < 2 * C
    PROVE  x % C = IF x < C THEN x ELSE x - C
  OBVIOUS

Slot(head, size, i) == IF head - size + i >= 0 THEN head - size + i ELSE head - size + i + RingCapacity

Rings == [entries : [0..RingCapacity-1 -> Texts], head : 0..RingCapacity-1, size : 0..RingCapacity]

LEMMA AtSlot ==
    ASSUME NEW r \in Rings, NEW i \in 0..r.size-1
    PROVE  /\ Slot(r.head, r.size, i) \in 0..RingCapacity-1
           /\ At(r, i) = r.entries[Slot(r.head, r.size, i)]
  <1>0. RingCapacity \in Nat \ {0} /\ r.head \in 0..RingCapacity-1 /\ r.size \in 0..RingCapacity
    BY InputAssumption DEF Rings
  <1>1. PICK h, n : h = r.head /\ n = r.size
    OBVIOUS
  <1>2. h - n + i + RingCapacity \in Int /\ h - n + i + RingCapacity >= 0
        /\ h - n + i + RingCapacity < 2 * RingCapacity
    BY <1>0, <1>1
  <1>3. (h - n + i + RingCapacity) % RingCapacity =
          IF h - n + i + RingCapacity < RingCapacity THEN h - n + i + RingCapacity
          ELSE (h - n + i + RingCapacity) - RingCapacity
    BY <1>0, <1>2, ModSlot
  <1>4. (h - n + i + RingCapacity) % RingCapacity = Slot(h, n, i) /\ Slot(h, n, i) \in 0..RingCapacity-1
    BY <1>0, <1>1, <1>3 DEF Slot
  <1> QED BY <1>1, <1>4 DEF At

(* The ring holds the last entries of a sequence of lines.                 *)
Holds(r, d) ==
    /\ r.size = IF Len(d) < RingCapacity THEN Len(d) ELSE RingCapacity
    /\ \A i \in 0..r.size-1 : At(r, i) = d[Len(d) - r.size + i + 1]
    /\ r.size < RingCapacity => r.head = r.size

LEMMA PushHolds ==
    ASSUME NEW r \in Rings, NEW d \in Seq(Texts), NEW l \in Texts, l # <<>>, Holds(r, d)
    PROVE  RingPush(r, l) \in Rings /\ Holds(RingPush(r, l), AddLine(d, l))
  <1> DEFINE C == RingCapacity
  <1>0. /\ C \in Nat /\ C > 0 /\ r.head \in 0..C-1 /\ r.size \in 0..C /\ Len(d) \in Nat
        /\ r.entries \in [0..C-1 -> Texts]
    BY InputAssumption DEF Rings
  <1>1. PICK h, n, e, q : h = r.head /\ n = r.size /\ e = r.entries /\ q = Len(d)
    OBVIOUS
  <1>a. C \in Nat \ {0} /\ h \in 0..C-1 /\ n \in 0..C /\ q \in Nat
    BY <1>0, <1>1
  <1>2. n = (IF q < C THEN q ELSE C) /\ (n < C => h = n) /\ (n > 0 <=> d # <<>>)
    BY <1>0, <1>1 DEF Holds
  <1>b. n <= q
    BY <1>a, <1>2
  <1>3. \A i \in 0..n-1 : /\ Slot(h, n, i) \in 0..C-1
                          /\ At(r, i) = e[Slot(h, n, i)] /\ At(r, i) = d[q - n + i + 1]
    BY <1>1, AtSlot DEF Holds
  <1>4. n > 0 => e[(h - 1 + C) % C] = Last(d)
    <2> SUFFICES ASSUME n > 0 PROVE e[(h - 1 + C) % C] = Last(d)
      OBVIOUS
    <2>1. n - 1 \in 0..n-1 /\ q - n + (n - 1) + 1 = q
      BY <1>0, <1>1
    <2>2. At(r, n - 1) = d[q]
      BY <1>3, <2>1
    <2>3. h - n + (n - 1) + C = h - 1 + C
      BY <1>0, <1>1
    <2>4. At(r, n - 1) = e[(h - 1 + C) % C]
      BY <1>1, <2>3 DEF At
    <2> QED BY <1>1, <2>2, <2>4 DEF Last
  <1>5. CASE d # <<>> /\ Last(d) = l
    <2>1. RingPush(r, l) = r /\ AddLine(d, l) = d
      BY <1>1, <1>2, <1>4, <1>5 DEF RingPush, AddLine
    <2> QED BY <2>1
  <1>6. CASE ~(d # <<>> /\ Last(d) = l)
    <2>1. AddLine(d, l) = Append(d, l)
      BY <1>6 DEF AddLine
    <2>2. PICK hh, nn, ee : /\ hh = (h + 1) % C /\ nn = (IF n < C THEN n + 1 ELSE n)
                            /\ ee = [e EXCEPT ![h] = l]
      OBVIOUS
    <2>3. PICK p : p = [entries |-> ee, head |-> hh, size |-> nn]
      OBVIOUS
    <2>4. RingPush(r, l) = p
      BY <1>1, <1>2, <1>4, <1>6, <2>2, <2>3 DEF RingPush
    <2>5. hh = IF h + 1 < C THEN h + 1 ELSE 0
      <3>1. h + 1 \in Int /\ h + 1 >= 0 /\ h + 1 < 2 * C
        BY <1>0, <1>1
      <3>2. (h + 1) % C = IF h + 1 < C THEN h + 1 ELSE (h + 1) - C
        BY <1>a, <3>1, ModSlot
      <3> QED BY <1>a, <2>2, <3>2
    <2>6. /\ ee \in [0..C-1 -> Texts] /\ ee[h] = l
          /\ \A j \in 0..C-1 : j # h => ee[j] = e[j]
      BY <1>0, <1>1, <2>2
    <2>7. hh \in 0..C-1 /\ nn \in 0..C
      BY <1>a, <2>2, <2>5
    <2>c. C = RingCapacity
      OBVIOUS
    <2>8. p \in Rings /\ p.entries = ee /\ p.head = hh /\ p.size = nn
      BY <2>3, <2>6, <2>7 DEF Rings
    <2>d. PICK m : m = Append(d, l)
      OBVIOUS
    <2>9. /\ Len(m) = q + 1 /\ m[q + 1] = l
          /\ \A i \in 1..q : m[i] = d[i]
      BY <1>1, <2>d
    <2>10. nn = (IF q + 1 < C THEN q + 1 ELSE C) /\ (nn < C => hh = nn)
      BY <1>0, <1>1, <1>2, <2>2, <2>5
    <2>11. ASSUME NEW i \in 0..nn-1
           PROVE  At(p, i) = m[q + 1 - nn + i + 1]
      <3>a. i \in 0..nn-1 /\ i \in Int
        BY <2>7
      <3>1. Slot(hh, nn, i) \in 0..C-1 /\ At(p, i) = ee[Slot(hh, nn, i)]
        BY <2>8, <2>11, AtSlot
      <3>2. CASE i = nn - 1
        <4>1. Slot(hh, nn, i) = h
          BY <1>a, <1>2, <2>c, <2>2, <2>5, <3>a, <3>2 DEF Slot
        <4>2. q + 1 - nn + i + 1 = q + 1
          BY <1>a, <2>7, <3>a, <3>2
        <4> QED BY <2>6, <2>9, <3>1, <4>1, <4>2
      <3>3. CASE i # nn - 1 /\ n < C
        <4>1. i \in 0..n-1 /\ Slot(hh, nn, i) = Slot(h, n, i) /\ Slot(hh, nn, i) # h
          BY <1>a, <1>2, <2>c, <2>2, <2>5, <3>a, <3>3 DEF Slot
        <4>2. q + 1 - nn + i + 1 = q - n + i + 1 /\ q - n + i + 1 \in 1..q
          BY <1>a, <1>b, <2>2, <3>a, <3>3, <4>1
        <4> QED BY <1>3, <2>6, <2>9, <3>1, <4>1, <4>2
      <3>4. CASE i # nn - 1 /\ n = C
        <4>1. i + 1 \in 0..n-1 /\ Slot(hh, nn, i) = Slot(h, n, i + 1) /\ Slot(hh, nn, i) # h
          <5>1. nn = C /\ n = C /\ i \in Int /\ 0 <= i /\ i + 1 <= C - 1
            BY <1>a, <2>2, <3>a, <3>4
          <5>2. C \in Int /\ h \in Int /\ 0 <= h /\ h <= C - 1
            BY <1>a
          <5>3. CASE hh = h + 1 /\ h + 1 < C
            BY <2>c, <5>1, <5>2, <5>3 DEF Slot
          <5>4. CASE hh = 0 /\ h = C - 1
            BY <2>c, <5>1, <5>2, <5>4 DEF Slot
          <5>5. (hh = h + 1 /\ h + 1 < C) \/ (hh = 0 /\ h = C - 1)
            BY <2>5, <5>2
          <5> QED BY <5>3, <5>4, <5>5, Zenon
        <4>2. q + 1 - nn + i + 1 = q - n + (i + 1) + 1 /\ q - n + (i + 1) + 1 \in 1..q
          BY <1>a, <1>b, <2>2, <3>a, <3>4, <4>1
        <4> QED BY <1>3, <2>6, <2>9, <3>1, <4>1, <4>2
      <3>5. n < C \/ n = C
        BY <1>a
      <3> QED BY <3>2, <3>3, <3>4, <3>5, Zenon
    <2>12. Holds(p, m)
      <3>1. \A i \in 0..p.size-1 : At(p, i) = m[Len(m) - p.size + i + 1]
        <4>1. Len(m) - p.size = q + 1 - nn
          BY <1>a, <2>7, <2>8, <2>9
        <4> QED BY <2>8, <2>11, <4>1
      <3>2. p.size = IF Len(m) < C THEN Len(m) ELSE C
        BY <2>8, <2>9, <2>10
      <3> QED BY <2>8, <2>10, <3>1, <3>2 DEF Holds
    <2> QED BY <2>1, <2>d, <2>4, <2>8, <2>12
  <1> QED BY <1>5, <1>6

(* The cursor of a line, and of the line that was saved by the first Up.   *)
Navs == [active : BOOLEAN, index : Nat, buffer : Texts, cursor : Nat]

LineInv ==
    /\ line \in Texts /\ CursorInLine /\ nav \in Navs
    /\ nav.active => nav.buffer = draft /\ nav.cursor \in 0..Len(nav.buffer)

RingInv == submitted \in Seq(Texts) /\ ring \in Rings /\ Holds(ring, Distinct)

IlInv == LineInv /\ RingInv

LEMMA NoNavType == NoNav \in Navs /\ ~NoNav.active
  <1>1. <<>> \in Texts /\ 0 \in Nat
    BY DEF Texts
  <1> QED BY <1>1 DEF NoNav, Navs

(* Every entry the ring is asked for is a line.                            *)
LEMMA AtText == ASSUME NEW r \in Rings, NEW i \in Nat PROVE At(r, i) \in Texts
  <1>1. PICK h, n, e : h = r.head /\ n = r.size /\ e = r.entries
    OBVIOUS
  <1>2. /\ RingCapacity \in Nat \ {0} /\ h \in 0..RingCapacity-1 /\ n \in 0..RingCapacity
        /\ e \in [0..RingCapacity-1 -> Texts]
    BY <1>1, InputAssumption DEF Rings
  <1>3. (h - n + i + RingCapacity) % RingCapacity \in 0..RingCapacity-1
    BY <1>2
  <1> QED BY <1>1, <1>2, <1>3 DEF At

LEMMA Edited ==
    ASSUME NEW x \in Texts, NEW c \in 0..Len(x), NEW to, to = <<x, c>>, Edit(to), IlInv
    PROVE  IlInv'
  <1>1. line' = x /\ cursor' = c /\ nav' = NoNav /\ UNCHANGED <<ring, submitted, draft>>
    BY DEF Edit
  <1>2. LineInv'
    BY <1>1, NoNavType DEF LineInv, CursorInLine
  <1>3. RingInv'
    BY <1>1 DEF RingInv, Distinct, IlInv
  <1> QED BY <1>2, <1>3 DEF IlInv

LEMMA RemoveText ==
    ASSUME NEW x \in Texts, NEW i \in 1..Len(x)
    PROVE  RemoveAt(x, i) \in Texts /\ Len(RemoveAt(x, i)) = Len(x) - 1
  <1>1. Len(x) \in Nat /\ x \in Seq(InputRunes)
    BY DEF Texts
  <1>2. SubSeq(x, 1, i-1) \in Seq(InputRunes) /\ Len(SubSeq(x, 1, i-1)) = i - 1
    BY <1>1
  <1>3. SubSeq(x, i+1, Len(x)) \in Seq(InputRunes) /\ Len(SubSeq(x, i+1, Len(x))) = Len(x) - i
    BY <1>1
  <1>4. PICK a, b : a = SubSeq(x, 1, i-1) /\ b = SubSeq(x, i+1, Len(x))
    OBVIOUS
  <1>5. a \o b \in Seq(InputRunes) /\ Len(a \o b) = Len(a) + Len(b)
    BY <1>2, <1>3, <1>4, ConcatProperties
  <1>6. Len(a) + Len(b) = Len(x) - 1
    <2>1. Len(a) = i - 1 /\ Len(b) = Len(x) - i
      BY <1>2, <1>3, <1>4, Zenon
    <2>2. PICK n : n = Len(x)
      OBVIOUS
    <2>3. n \in Nat /\ i \in Int
      BY <1>1, <2>2
    <2>4. (i - 1) + (n - i) = n - 1
      BY <2>3
    <2> QED BY <2>1, <2>2, <2>4, Zenon
  <1> QED BY <1>4, <1>5, <1>6 DEF RemoveAt, Texts

LEMMA InsertText ==
    ASSUME NEW x \in Texts, NEW i \in 1..(Len(x) + 1), NEW e \in InputRunes
    PROVE  InsertAt(x, i, e) \in Texts /\ Len(InsertAt(x, i, e)) = Len(x) + 1
  <1>1. Len(x) \in Nat /\ x \in Seq(InputRunes)
    BY DEF Texts
  <1>2. SubSeq(x, 1, i-1) \in Seq(InputRunes) /\ Len(SubSeq(x, 1, i-1)) = i - 1
    BY <1>1
  <1>3. SubSeq(x, i, Len(x)) \in Seq(InputRunes) /\ Len(SubSeq(x, i, Len(x))) = Len(x) - i + 1
    BY <1>1
  <1>4. <<e>> \in Seq(InputRunes) /\ Len(<<e>>) = 1
    OBVIOUS
  <1>5. PICK a, b : a = SubSeq(x, 1, i-1) /\ b = SubSeq(x, i, Len(x))
    OBVIOUS
  <1>6. a \o <<e>> \in Seq(InputRunes) /\ Len(a \o <<e>>) = Len(a) + 1
    BY <1>2, <1>4, <1>5, ConcatProperties
  <1>7. a \o <<e>> \o b \in Seq(InputRunes) /\ Len(a \o <<e>> \o b) = Len(a) + 1 + Len(b)
    BY <1>3, <1>5, <1>6, ConcatProperties
  <1>8. Len(a) + 1 + Len(b) = Len(x) + 1
    <2>1. Len(a) = i - 1 /\ Len(b) = Len(x) - i + 1
      BY <1>2, <1>3, <1>5, Zenon
    <2>2. PICK n : n = Len(x)
      OBVIOUS
    <2>3. n \in Nat /\ i \in Int
      BY <1>1, <2>2
    <2>4. (i - 1) + 1 + (n - i + 1) = n + 1
      BY <2>3
    <2> QED BY <2>1, <2>2, <2>4, Zenon
  <1> QED BY <1>5, <1>7, <1>8 DEF InsertAt, Texts

LEMMA RuneStep == ASSUME IlInv, NEW r \in InputRunes, KeyRune(r) PROVE IlInv'
  <1>0. line \in Texts /\ cursor \in 0..Len(line) /\ Len(line) \in Nat
    BY DEF IlInv, LineInv, CursorInLine, Texts
  <1>1. PICK x : x = InsertAt(line, cursor + 1, r)
    OBVIOUS
  <1>2. x \in Texts /\ Len(x) = Len(line) + 1
    BY <1>0, <1>1, InsertText
  <1>3. InsertRune(r) = <<x, cursor + 1>> /\ cursor + 1 \in 0..Len(x)
    BY <1>0, <1>1, <1>2 DEF InsertRune
  <1> QED BY <1>2, <1>3, Edited DEF KeyRune

LEMMA DeleteStep == ASSUME IlInv, KeyDelete PROVE IlInv'
  <1>0. line \in Texts /\ cursor \in 0..Len(line) /\ Len(line) \in Nat
    BY DEF IlInv, LineInv, CursorInLine, Texts
  <1>1. ASSUME NEW to, to = <<line, cursor>>, Edit(to) PROVE IlInv'
    BY <1>0, <1>1, Edited
  <1>2. CASE Edit(DeleteBackward)
    <2>1. CASE cursor = 0
      BY <1>1, <1>2, <2>1 DEF DeleteBackward
    <2>2. CASE cursor # 0
      <3>1. PICK x : x = RemoveAt(line, cursor)
        OBVIOUS
      <3>2. x \in Texts /\ Len(x) = Len(line) - 1
        BY <1>0, <2>2, <3>1, RemoveText
      <3>3. DeleteBackward = <<x, cursor - 1>> /\ cursor - 1 \in 0..Len(x)
        BY <1>0, <2>2, <3>1, <3>2 DEF DeleteBackward, deleteAt
      <3> QED BY <1>2, <3>2, <3>3, Edited
    <2> QED BY <2>1, <2>2
  <1>3. CASE Edit(DeleteForward)
    <2>1. CASE cursor = Len(line)
      BY <1>1, <1>3, <2>1 DEF DeleteForward
    <2>2. CASE cursor # Len(line)
      <3>1. PICK x : x = RemoveAt(line, cursor + 1)
        OBVIOUS
      <3>2. x \in Texts /\ Len(x) = Len(line) - 1
        BY <1>0, <2>2, <3>1, RemoveText
      <3>3. DeleteForward = <<x, cursor>> /\ cursor \in 0..Len(x)
        BY <1>0, <2>2, <3>1, <3>2 DEF DeleteForward, deleteAt
      <3> QED BY <1>3, <3>2, <3>3, Edited
    <2> QED BY <2>1, <2>2
  <1> QED BY <1>2, <1>3 DEF KeyDelete

LEMMA MoveStep ==
    ASSUME IlInv, NEW k \in {"left", "right", "home", "end"}, KeyMove(k) PROVE IlInv'
  <1>0. line \in Texts /\ cursor \in 0..Len(line) /\ Len(line) \in Nat
    BY DEF IlInv, LineInv, CursorInLine, Texts
  <1>1. cursor' = MoveCursor(k) /\ UNCHANGED <<line, ring, nav, submitted, draft>>
    BY DEF KeyMove
  <1>2. cursor' \in 0..Len(line)
    <2>1. CASE k = "left"
      BY <1>0, <1>1, <2>1 DEF MoveCursor
    <2>2. CASE k = "right"
      BY <1>0, <1>1, <2>2 DEF MoveCursor
    <2>3. CASE k = "home"
      BY <1>0, <1>1, <2>3 DEF MoveCursor
    <2>4. CASE k = "end"
      BY <1>0, <1>1, <2>4 DEF MoveCursor
    <2> QED BY <2>1, <2>2, <2>3, <2>4
  <1>3. LineInv'
    BY <1>1, <1>2 DEF LineInv, CursorInLine, IlInv
  <1>4. RingInv'
    BY <1>1 DEF RingInv, Distinct, IlInv
  <1> QED BY <1>3, <1>4 DEF IlInv

LEMMA EmptyLine == <<>> \in Texts /\ Len(<<>>) = 0 /\ 0 \in 0..Len(<<>>)
  BY DEF Texts

LEMMA CancelStep == ASSUME IlInv, Cancel PROVE IlInv'
  BY EmptyLine, Edited DEF Cancel

LEMMA SubmitStep == ASSUME IlInv, Submit PROVE IlInv'
  <1>1. /\ line' = <<>> /\ cursor' = 0 /\ nav' = NoNav /\ ring' = RingPush(ring, line)
        /\ submitted' = IF line = <<>> THEN submitted ELSE Append(submitted, line)
    BY DEF Submit
  <1>2. LineInv'
    BY <1>1, EmptyLine, NoNavType DEF LineInv, CursorInLine
  <1>3. line \in Texts /\ submitted \in Seq(Texts) /\ ring \in Rings /\ Holds(ring, Distinct)
    BY DEF IlInv, LineInv, RingInv
  <1>4. RingInv'
    <2>1. CASE line = <<>>
      <3>1. ring' = ring /\ submitted' = submitted
        BY <1>1, <2>1 DEF RingPush
      <3> QED BY <1>3, <3>1 DEF RingInv, Distinct
    <2>2. CASE line # <<>>
      <3>1. PICK d : d = DistinctOf(submitted)
        OBVIOUS
      <3>2. d \in Seq(Texts) /\ DistinctOf(Append(submitted, line)) = AddLine(d, line)
        BY <1>3, <3>1, DistinctAppend
      <3>3. RingPush(ring, line) \in Rings /\ Holds(RingPush(ring, line), AddLine(d, line))
        BY <1>3, <2>2, <3>1, <3>2, PushHolds DEF Distinct
      <3>4. submitted' = Append(submitted, line) /\ submitted' \in Seq(Texts)
        BY <1>1, <1>3, <2>2
      <3>5. DistinctOf(submitted') = AddLine(d, line)
        BY <3>2, <3>4
      <3> QED BY <1>1, <3>3, <3>4, <3>5 DEF RingInv, Distinct
    <2> QED BY <2>1, <2>2
  <1> QED BY <1>2, <1>4 DEF IlInv

(* Up: the first one saves the line, every one shows an entry.             *)
LEMMA PrevStep == ASSUME IlInv, applyHistoryPrev PROVE IlInv'
  <1>0. line \in Texts /\ cursor \in 0..Len(line) /\ Len(line) \in Nat /\ nav \in Navs /\ ring \in Rings
    BY DEF IlInv, LineInv, RingInv, CursorInLine, Texts
  <1>a. ring.size \in Nat
    BY <1>0, InputAssumption DEF Rings
  <1>1. PICK n : n = IF nav.active THEN nav
                     ELSE [active |-> TRUE, index |-> ring.size, buffer |-> line, cursor |-> cursor]
    OBVIOUS
  <1>2. /\ draft' = IF nav.active THEN draft ELSE line
        /\ nav' = [n EXCEPT !.index = IF @ > 0 THEN @ - 1 ELSE 0]
        /\ line' = IF n.index > 0 THEN At(ring, n.index - 1) ELSE line
        /\ cursor' = IF n.index > 0 THEN Len(line') ELSE cursor
        /\ UNCHANGED <<ring, submitted>>
    BY <1>1 DEF applyHistoryPrev
  <1>3. /\ n \in Navs /\ n.active = TRUE /\ n.buffer = draft'
        /\ n.cursor \in 0..Len(n.buffer)
    <2>1. CASE nav.active
      <3>1. n = nav /\ draft' = draft
        BY <1>1, <1>2, <2>1
      <3>2. nav.buffer = draft /\ nav.cursor \in 0..Len(nav.buffer)
        BY <2>1 DEF IlInv, LineInv
      <3>3. nav.active \in BOOLEAN
        BY <1>0 DEF Navs
      <3> QED BY <1>0, <2>1, <3>1, <3>2, <3>3
    <2>2. CASE ~nav.active
      <3>1. n = [active |-> TRUE, index |-> ring.size, buffer |-> line, cursor |-> cursor]
            /\ draft' = line
        BY <1>1, <1>2, <2>2
      <3>2. cursor \in Nat /\ TRUE \in BOOLEAN
        BY <1>0
      <3>3. n \in Navs
        BY <1>0, <1>a, <3>1, <3>2 DEF Navs
      <3> QED BY <1>0, <3>1, <3>3
    <2> QED BY <2>1, <2>2
  <1>4. PICK k : k = IF n.index > 0 THEN n.index - 1 ELSE 0
    OBVIOUS
  <1>5. n.index \in Nat /\ k \in Nat
    BY <1>3, <1>4 DEF Navs
  <1>6. nav' = [n EXCEPT !.index = k]
    BY <1>2, <1>4
  <1>7. nav' \in Navs /\ nav'.buffer = draft' /\ nav'.cursor \in 0..Len(nav'.buffer)
    BY <1>3, <1>5, <1>6 DEF Navs
  <1>8. line' \in Texts /\ cursor' \in 0..Len(line')
    <2>1. CASE n.index > 0
      <3>1. n.index - 1 \in Nat
        BY <1>5, <2>1
      <3>2. line' \in Texts /\ cursor' = Len(line')
        BY <1>0, <1>2, <2>1, <3>1, AtText
      <3>3. Len(line') \in Nat
        BY <3>2 DEF Texts
      <3> QED BY <3>2, <3>3
    <2>2. CASE ~(n.index > 0)
      BY <1>0, <1>2, <2>2
    <2> QED BY <2>1, <2>2
  <1>9. LineInv'
    BY <1>7, <1>8 DEF LineInv, CursorInLine
  <1>10. RingInv'
    BY <1>2 DEF RingInv, Distinct, IlInv
  <1> QED BY <1>9, <1>10 DEF IlInv

(* Down: an entry, or the saved line with its cursor.                      *)
LEMMA DownStep == ASSUME IlInv, applyHistoryNext PROVE IlInv' /\ (~nav'.active => line' = draft)
  <1>0. /\ nav \in Navs /\ ring \in Rings /\ nav.active /\ nav.buffer = draft
        /\ nav.cursor \in 0..Len(nav.buffer)
    BY DEF IlInv, LineInv, RingInv, applyHistoryNext
  <1>1. nav.index \in Nat /\ nav.buffer \in Texts /\ nav.active = TRUE
    BY <1>0 DEF Navs
  <1>2. UNCHANGED <<ring, submitted, draft>>
    BY DEF applyHistoryNext
  <1>3. RingInv'
    BY <1>2 DEF RingInv, Distinct, IlInv
  <1>4. CASE nav.index + 1 >= ring.size
    <2>1. line' = nav.buffer /\ cursor' = nav.cursor /\ nav' = NoNav
      BY <1>4 DEF applyHistoryNext
    <2>2. LineInv'
      BY <1>0, <1>1, <2>1, NoNavType DEF LineInv, CursorInLine
    <2> QED BY <1>0, <1>3, <2>1, <2>2 DEF IlInv
  <1>5. CASE ~(nav.index + 1 >= ring.size)
    <2>1. /\ line' = At(ring, nav.index + 1) /\ cursor' = Len(line')
          /\ nav' = [nav EXCEPT !.index = @ + 1]
      BY <1>5 DEF applyHistoryNext
    <2>2. nav.index + 1 \in Nat
      BY <1>1
    <2>3. line' \in Texts
      BY <1>0, <2>1, <2>2, AtText
    <2>4. cursor' \in 0..Len(line')
      BY <2>1, <2>3 DEF Texts
    <2>5. /\ nav' \in Navs /\ nav'.active = TRUE /\ nav'.buffer = nav.buffer
          /\ nav'.cursor = nav.cursor
      BY <1>0, <1>1, <2>1, <2>2 DEF Navs
    <2>6. LineInv'
      BY <1>0, <1>2, <2>3, <2>4, <2>5 DEF LineInv, CursorInLine
    <2> QED BY <1>3, <2>5, <2>6 DEF IlInv
  <1> QED BY <1>4, <1>5

LEMMA IlInvariant == IlSpec => []IlInv
  <1>1. IlInit => IlInv
    <2> SUFFICES ASSUME IlInit PROVE IlInv
      OBVIOUS
    <2>1. LineInv
      BY EmptyLine, NoNavType DEF IlInit, LineInv, CursorInLine
    <2>2. RingCapacity \in Nat /\ RingCapacity > 0 /\ 0 \in 0..RingCapacity-1 /\ 0 \in 0..RingCapacity
      BY InputAssumption
    <2>3. PICK e : e = [i \in 0..RingCapacity-1 |-> <<>>]
      OBVIOUS
    <2>4. e \in [0..RingCapacity-1 -> Texts]
      BY <2>3, EmptyLine
    <2>5. ring = [entries |-> e, head |-> 0, size |-> 0] /\ submitted = <<>>
      BY <2>3 DEF IlInit
    <2>6. ring \in Rings /\ ring.size = 0 /\ ring.head = 0
      BY <2>2, <2>4, <2>5 DEF Rings
    <2>7. <<>> \in Seq(Texts) /\ Len(<<>>) = 0
      OBVIOUS
    <2>8. Distinct = <<>>
      <3>1. PICK g \in [0..Len(submitted) -> Seq(Texts)] :
               Walks(submitted, Len(submitted), g) /\ DistinctOf(submitted) = g[Len(submitted)]
        BY <2>5, <2>7, DistinctWalk
      <3> QED BY <2>5, <2>7, <3>1 DEF Walks, Distinct
    <2>9. Holds(ring, Distinct)
      BY <2>2, <2>6, <2>7, <2>8 DEF Holds
    <2> QED BY <2>1, <2>5, <2>6, <2>7, <2>9 DEF IlInv, RingInv
  <1>2. IlInv /\ [IlNext]_ilVars => IlInv'
    <2> SUFFICES ASSUME IlInv, [IlNext]_ilVars PROVE IlInv'
      OBVIOUS
    <2>1. CASE UNCHANGED ilVars
      <3>1. LineInv' /\ RingInv'
        BY <2>1 DEF ilVars, IlInv, LineInv, RingInv, CursorInLine, Distinct
      <3> QED BY <3>1 DEF IlInv
    <2> QED BY <2>1, RuneStep, DeleteStep, SubmitStep, CancelStep, PrevStep, DownStep, MoveStep DEF IlNext
  <1> QED BY <1>1, <1>2, PTL DEF IlSpec

(* The input line: after any sequence of keys the cursor is a position of  *)
(* the line, Up finds the newest lines in order also when the ring has     *)
(* wrapped around, and Down past the newest brings the draft back, for     *)
(* every capacity of the ring and every length of the session.             *)
THEOREM InputTheorem == IlSpec => InputContract
  <1>1. IlInv => CursorInLine /\ RingIsNewest
    <2> SUFFICES ASSUME IlInv PROVE CursorInLine /\ RingIsNewest
      OBVIOUS
    <2>1. CursorInLine
      BY DEF IlInv, LineInv
    <2>2. RingIsNewest
      BY DEF IlInv, RingInv, Holds, RingIsNewest
    <2> QED BY <2>1, <2>2
  <1>2. IlInv /\ [IlNext]_ilVars =>
          [(applyHistoryNext /\ ~nav'.active) => line' = draft]_ilVars
    BY DownStep
  <1> QED BY <1>1, <1>2, IlInvariant, PTL DEF InputContract, DraftComesBack, IlSpec

-----------------------------------------------------------------------------
(* Frames.                                                                 *)

(* The cell of a column and a row, and back.                               *)
LEMMA CellIndex ==
    ASSUME NEW c \in Nat, NEW r \in Nat, NEW x \in 0..c-1, NEW y \in 0..r-1
    PROVE  y * c + x \in 0..(c * r - 1) /\ (y * c + x) % c = x /\ (y * c + x) \div c = y
  <1>1. c > 0 /\ x \in Int /\ y \in Int /\ 0 <= x /\ x < c /\ 0 <= y /\ y <= r - 1
    OBVIOUS
  <1>2. y * c \in Int /\ y * c >= 0 /\ c * r \in Int /\ c * (r - 1) = c * r - c
    BY <1>1
  <1>3. y * c <= c * (r - 1)
    BY <1>1
  <1>4. y * c + x \in 0..(c * r - 1)
    BY <1>1, <1>2, <1>3
  <1>5. (y * c + x) % c = x /\ (y * c + x) \div c = y
    BY <1>1, <1>2
  <1> QED BY <1>4, <1>5

LEMMA IndexCell ==
    ASSUME NEW c \in Nat, NEW r \in Nat, NEW i \in 0..(c * r - 1)
    PROVE  c > 0 /\ i % c \in 0..c-1 /\ i \div c \in 0..r-1
  <1>1. c * r \in Int /\ i \in Int /\ 0 <= i /\ i < c * r
    OBVIOUS
  <1>2. c > 0
    <2>1. c # 0
      BY <1>1
    <2> QED BY <2>1
  <1>3. i % c \in 0..c-1 /\ i \div c \in Int /\ i = c * (i \div c) + (i % c)
    BY <1>1, <1>2
  <1>4. PICK q, m : q = i \div c /\ m = i % c
    OBVIOUS
  <1>5. q >= 0
    <2>1. SUFFICES ASSUME q <= -1 PROVE FALSE
      BY <1>3, <1>4
    <2>2. c * q <= -c
      BY <1>2, <1>3, <1>4, <2>1
    <2> QED BY <1>1, <1>2, <1>3, <1>4, <2>2
  <1>6. q < r
    <2>1. SUFFICES ASSUME q >= r PROVE FALSE
      BY <1>3, <1>4
    <2>2. c * q >= c * r
      BY <1>2, <1>3, <1>4, <2>1
    <2> QED BY <1>1, <1>2, <1>3, <1>4, <2>2
  <1> QED BY <1>2, <1>3, <1>4, <1>5, <1>6

-----------------------------------------------------------------------------
(* The walk over the cells of a Grid.                                      *)

Collects(S, m, g) ==
    /\ g[0] = <<>>
    /\ \A k \in 1..m : g[k] = IF k-1 \in S THEN Append(g[k-1], k-1) ELSE g[k-1]

LEMMA CollectExists ==
    ASSUME NEW S, NEW N \in Nat
    PROVE  \E g \in [0..N -> Seq(Nat)] : Collects(S, N, g)
  <1> DEFINE T == {m \in Nat : ~\E g \in [0..m -> Seq(Nat)] : Collects(S, m, g)}
  <1>1. SUFFICES T = {}
    OBVIOUS
  <1>2. SUFFICES ASSUME T # {} PROVE FALSE
    OBVIOUS
  <1>3. T \subseteq Nat
    OBVIOUS
  <1>4. PICK m \in T : \A k \in T : m <= k
    BY <1>2, <1>3, LeastNat
  <1>5. m \in Nat
    BY <1>3, <1>4
  <1>6. CASE m = 0
    <2>1. PICK g : g = [k \in 0..0 |-> <<>>]
      OBVIOUS
    <2>2. <<>> \in Seq(Nat)
      OBVIOUS
    <2>3. g \in [0..0 -> Seq(Nat)] /\ g[0] = <<>>
      BY <2>1, <2>2
    <2>4. Collects(S, 0, g)
      BY <2>3 DEF Collects
    <2> QED BY <1>4, <1>6, <2>3, <2>4
  <1>7. CASE m # 0
    <2>1. m - 1 \in Nat /\ m - 1 \notin T
      BY <1>4, <1>5, <1>7
    <2>2. PICK g \in [0..(m - 1) -> Seq(Nat)] : Collects(S, m - 1, g)
      BY <2>1
    <2>3. PICK x : x = IF m-1 \in S THEN Append(g[m-1], m-1) ELSE g[m-1]
      OBVIOUS
    <2>4. g[m-1] \in Seq(Nat)
      BY <2>1, <2>2
    <2>5. x \in Seq(Nat)
      BY <2>1, <2>3, <2>4
    <2>6. PICK h : h = [k \in 0..m |-> IF k = m THEN x ELSE g[k]]
      OBVIOUS
    <2>7. /\ h \in [0..m -> Seq(Nat)] /\ h[m] = x
          /\ \A k \in 0..(m - 1) : h[k] = g[k]
      BY <1>5, <1>7, <2>2, <2>5, <2>6
    <2>8. Collects(S, m, h)
      <3>1. h[0] = <<>>
        BY <1>5, <1>7, <2>1, <2>2, <2>7 DEF Collects
      <3>2. ASSUME NEW k \in 1..m PROVE h[k] = IF k-1 \in S THEN Append(h[k-1], k-1) ELSE h[k-1]
        <4>1. CASE k = m
          <5>1. h[k-1] = g[m-1]
            BY <2>1, <2>7, <4>1
          <5> QED BY <2>3, <2>7, <4>1, <5>1
        <4>2. CASE k # m
          <5>1. k \in 1..(m-1) /\ k \in 0..(m-1) /\ k-1 \in 0..(m-1)
            BY <1>5, <3>2, <4>2
          <5>2. h[k] = g[k] /\ h[k-1] = g[k-1]
            BY <2>7, <5>1
          <5> QED BY <2>2, <5>1, <5>2 DEF Collects
        <4> QED BY <4>1, <4>2
      <3> QED BY <3>1, <3>2 DEF Collects
    <2> QED BY <1>4, <2>7, <2>8
  <1> QED BY <1>6, <1>7

(* What has been collected after m cells.                                  *)
Collected(S, q, m) ==
    /\ \A j \in 1..Len(q) : q[j] \in S /\ q[j] \in 0..m-1
    /\ \A i \in 0..m-1 : i \in S => \E j \in 1..Len(q) : q[j] = i

LEMMA CollectedCells ==
    ASSUME NEW S, NEW N \in Nat, NEW g \in [0..N -> Seq(Nat)], Collects(S, N, g)
    PROVE  Collected(S, g[N], N)
  <1> DEFINE T == {m \in 0..N : ~Collected(S, g[m], m)}
  <1>1. SUFFICES T = {}
    BY N \in 0..N
  <1>2. SUFFICES ASSUME T # {} PROVE FALSE
    OBVIOUS
  <1>3. T \subseteq Nat
    OBVIOUS
  <1>4. PICK m \in T : \A k \in T : m <= k
    BY <1>2, <1>3, LeastNat
  <1>5. m \in 0..N /\ ~Collected(S, g[m], m)
    BY <1>4
  <1>6. CASE m = 0
    <2>1. g[0] = <<>> /\ Len(<<>>) = 0
      BY DEF Collects
    <2> QED BY <1>5, <1>6, <2>1 DEF Collected
  <1>7. CASE m # 0
    <2>1. m - 1 \in 0..N /\ m - 1 \notin T /\ m \in 1..N /\ m \in Int
      BY <1>4, <1>5, <1>7
    <2>2. PICK q, p : q = g[m-1] /\ p = g[m]
      OBVIOUS
    <2>3. q \in Seq(Nat) /\ Collected(S, q, m - 1) /\ Len(q) \in Nat
      BY <2>1, <2>2
    <2>4. p = IF m-1 \in S THEN Append(q, m-1) ELSE q
      BY <2>1, <2>2 DEF Collects
    <2>5. CASE m-1 \in S
      <3>1. /\ Len(p) = Len(q) + 1 /\ p[Len(q) + 1] = m-1
            /\ \A j \in 1..Len(q) : p[j] = q[j]
        BY <2>3, <2>4, <2>5
      <3>2. ASSUME NEW j \in 1..Len(p) PROVE p[j] \in S /\ p[j] \in 0..m-1
        <4>1. CASE j \in 1..Len(q)
          <5>1. q[j] \in S /\ q[j] \in 0..(m-1)-1
            BY <2>3, <4>1 DEF Collected
          <5>2. p[j] = q[j]
            BY <3>1, <4>1
          <5>3. \A z \in 0..(m-1)-1 : z \in 0..m-1
            BY <2>1
          <5> QED BY <5>1, <5>2, <5>3
        <4>2. CASE j = Len(q) + 1
          BY <2>1, <2>5, <3>1, <4>2
        <4> QED BY <2>3, <3>1, <3>2, <4>1, <4>2
      <3>3. ASSUME NEW i \in 0..m-1, i \in S PROVE \E j \in 1..Len(p) : p[j] = i
        <4>1. CASE i = m-1
          <5>1. Len(q) + 1 \in 1..Len(p)
            BY <2>3, <3>1
          <5> QED BY <3>1, <4>1, <5>1
        <4>2. CASE i # m-1
          <5>1. i \in 0..(m-1)-1
            BY <2>1, <3>3, <4>2
          <5>2. PICK j \in 1..Len(q) : q[j] = i
            BY <2>3, <3>3, <5>1 DEF Collected
          <5>3. j \in 1..Len(p)
            BY <2>3, <3>1, <5>2
          <5> QED BY <3>1, <5>2, <5>3
        <4> QED BY <4>1, <4>2
      <3>4. Collected(S, p, m)
        BY <3>2, <3>3 DEF Collected
      <3> QED BY <1>5, <2>2, <3>4
    <2>6. CASE m-1 \notin S
      <3>1. p = q
        BY <2>4, <2>6
      <3>2. \A z \in 0..(m-1)-1 : z \in 0..m-1
        BY <2>1
      <3>3. \A z \in 0..m-1 : z \in S => z \in 0..(m-1)-1
        BY <2>1, <2>6
      <3>4. Collected(S, q, m)
        BY <2>3, <3>2, <3>3 DEF Collected
      <3> QED BY <1>5, <2>2, <3>1, <3>4
    <2> QED BY <2>5, <2>6
  <1> QED BY <1>6, <1>7

(* Two walks over the same cells agree.                                    *)
LEMMA CollectUnique ==
    ASSUME NEW S, NEW N \in Nat, NEW g, NEW h, Collects(S, N, g), Collects(S, N, h)
    PROVE  g[N] = h[N]
  <1> DEFINE T == {m \in 0..N : g[m] # h[m]}
  <1>1. T = {}
    <2> SUFFICES ASSUME T # {} PROVE FALSE
      OBVIOUS
    <2>1. T \subseteq Nat
      OBVIOUS
    <2>2. PICK m \in T : \A k \in T : m <= k
      BY <2>1, LeastNat
    <2>3. m \in 0..N /\ m # 0
      BY DEF Collects
    <2>4. m \in 1..N /\ m - 1 \in 0..N /\ m - 1 \notin T
      BY <2>2, <2>3
    <2>5. g[m - 1] = h[m - 1]
      BY <2>4
    <2> QED BY <2>4, <2>5 DEF Collects
  <1>2. N \in 0..N
    OBVIOUS
  <1> QED BY <1>1, <1>2

LEMMA AscendingContents ==
    ASSUME NEW S, NEW N \in Nat
    PROVE  Ascending(S, N) \in Seq(Nat) /\ Collected(S, Ascending(S, N), N)
  <1>1. PICK g \in [0..N -> Seq(Nat)] : Collects(S, N, g)
    BY CollectExists
  <1> DEFINE f == CHOOSE f : f = [k \in 0..N |-> IF k = 0 THEN <<>>
                            ELSE IF k-1 \in S THEN Append(f[k-1], k-1) ELSE f[k-1]]
  <1>2. g = [k \in 0..N |-> IF k = 0 THEN <<>>
                            ELSE IF k-1 \in S THEN Append(g[k-1], k-1) ELSE g[k-1]]
    <2>1. ASSUME NEW k \in 0..N
          PROVE  g[k] = IF k = 0 THEN <<>>
                            ELSE IF k-1 \in S THEN Append(g[k-1], k-1) ELSE g[k-1]
      <3>1. k = 0 \/ k \in 1..N
        OBVIOUS
      <3> QED BY <1>1, <3>1 DEF Collects
    <2> QED BY <2>1
  <1>3. f = [k \in 0..N |-> IF k = 0 THEN <<>>
                            ELSE IF k-1 \in S THEN Append(f[k-1], k-1) ELSE f[k-1]]
    BY <1>2
  <1>4. Ascending(S, N) = f[N]
    BY DEF Ascending
  <1> HIDE DEF f
  <1>5. Collects(S, N, f)
    <2>1. f[0] = <<>>
      BY <1>3
    <2>2. ASSUME NEW k \in 1..N
          PROVE  f[k] = IF k-1 \in S THEN Append(f[k-1], k-1) ELSE f[k-1]
      <3>1. k \in 0..N /\ k # 0
        OBVIOUS
      <3> QED BY <1>3, <3>1
    <2> QED BY <2>1, <2>2 DEF Collects
  <1>6. f[N] = g[N]
    BY <1>1, <1>5, CollectUnique
  <1>7. N \in 0..N
    OBVIOUS
  <1>8. g[N] \in Seq(Nat)
    BY <1>1, <1>7
  <1>9. Collected(S, g[N], N)
    BY <1>1, CollectedCells
  <1> QED BY <1>4, <1>6, <1>8, <1>9

-----------------------------------------------------------------------------
(* The inductive invariant of a frame.                                     *)

Sizes == Nat \X Nat
CellValues == Chars \cup {"zero", "cont"}
GridOk(g) ==
    /\ g = [size |-> g.size, cells |-> g.cells, stamp |-> g.stamp, gen |-> g.gen, cap |-> g.cap]
    /\ g.size \in Sizes /\ g.gen \in 1..GenLimit-1
    /\ g.cells \in [Cells(g.size) -> CellValues] /\ g.stamp \in [Cells(g.size) -> 0..g.gen]

FbPhases == {"init", "idle", "size", "render", "apply", "stopped"}

(* Which Grids are where: a Grid of a frame to come is nowhere.            *)
OwnInv ==
    /\ fbPc \in FbPhases
    /\ spent \in [frames : 0..MaxFrames, draws : Nat, resizes : Nat]
    /\ pool \in [Buckets -> SUBSET (1..spent.frames)]
    /\ lastFrame \in 0..spent.frames /\ next \in 0..spent.frames
    /\ fbPc = "init" => spent.frames = 0
    /\ fbPc = "size" => /\ spent.frames # 0 /\ lastFrame # spent.frames
                        /\ \A b \in Buckets : spent.frames \notin pool[b]
    /\ fbPc \notin {"render", "apply"} => next = None
    /\ GridOwnership

(* A stamp is never ahead of the generation of its Grid.                   *)
GridInv ==
    /\ grids = [i \in 1..MaxFrames |-> grids[i]]
    /\ \A i \in 1..MaxFrames : GridOk(grids[i])
    /\ fbPc \in {"render", "apply"} => grids[next].size = frameSize

SizeInv ==
    /\ dim \in Sizes /\ termSize \in Sizes /\ frameSize \in Sizes
    /\ resizes \in Seq(Sizes) /\ (storing = <<>> \/ storing \in Sizes)

(* As long as nothing happened, everyone knows the size of the terminal.   *)
QuietInv ==
    /\ fbPc = "init" => dirt = {} /\ resizes = <<>> /\ storing = <<>>
    /\ dirt = {} /\ fbPc # "init" =>
        /\ resizes = <<>> /\ storing = <<>> /\ dim = termSize
        /\ fbPc \in {"size", "render", "apply"} => frameSize = termSize

CellAt(id, p) == Cell(grids[id], p[1], p[2])

(* The terminal shows a frame.                                             *)
Shows(id) ==
    /\ grids[id].size = termSize
    /\ \A p \in Surface : /\ CellAt(id, p) \in Chars => screen[p] = CellAt(id, p)
                          /\ CellAt(id, p) = "zero" /\ dirt = {} => screen[p] = " "

Clean == dirt \subseteq {"redraw"}

ShownInv ==
    /\ screen = [p \in Surface |-> screen[p]]
    /\ fbPc \in {"idle", "size", "render"} /\ lastFrame # None /\ Clean => Shows(lastFrame)
    /\ fbPc # "stopped" /\ lastFrame = None => "redraw" \notin dirt
    /\ fbPc \in {"init", "idle", "size", "render"} /\ lastFrame = None /\ dirt = {} =>
        \A p \in Surface : screen[p] = " "

PatchOk(c, k) ==
    \/ /\ k = 1 /\ c.kind = "resize" /\ c.at = grids[next].size /\ lastFrame # None
    \/ /\ c.kind = "set" /\ c.at \in Sizes /\ InGrid(grids[next], c.at[1], c.at[2])
       /\ c.cell = CellAt(next, c.at)
ToSend(ps, p) == \E k \in 1..Len(ps) : ps[k].kind = "set" /\ ps[k].at = p
ResizeFirst(ps) == ps # <<>> /\ ps[1].kind = "resize"

(* What applyPatches has not sent yet, and what the terminal shows already. *)
SendInv ==
    /\ patches \in Seq([kind : {"resize", "set"}, at : Sizes, cell : CellValues])
    /\ fbPc # "apply" => patches = <<>>
    /\ fbPc = "apply" =>
        /\ \A k \in 1..Len(patches) : PatchOk(patches[k], k)
        /\ ResizeFirst(patches) => \A p \in Surface : CellAt(next, p) \in Chars => ToSend(patches, p)
        /\ Clean /\ ~ResizeFirst(patches) =>
            /\ grids[next].size = termSize
            /\ \A p \in Surface :
                /\ CellAt(next, p) \in Chars => ToSend(patches, p) \/ screen[p] = CellAt(next, p)
                /\ CellAt(next, p) = "zero" /\ dirt = {} => ToSend(patches, p) \/ screen[p] = " "

FbInv == OwnInv /\ GridInv /\ SizeInv /\ QuietInv /\ ShownInv /\ SendInv

LEMMA Limit == GenLimit \in Nat /\ GenLimit >= 2 /\ MaxFrames \in Nat
  BY FbAssumption

LEMMA CellsOf == ASSUME NEW z \in Sizes PROVE Cells(z) = 0..(z[1] * z[2] - 1) /\ z[1] \in Nat /\ z[2] \in Nat
  BY DEF Cells, Sizes

LEMMA NewGridOk ==
    ASSUME NEW z \in Sizes
    PROVE  GridOk(NewGrid(z)) /\ NewGrid(z).size = z
  <1>1. PICK ce, st : ce = [i \in Cells(z) |-> "zero"] /\ st = [i \in Cells(z) |-> 0]
    OBVIOUS
  <1>2. ce \in [Cells(z) -> CellValues] /\ st \in [Cells(z) -> 0..1]
    BY <1>1 DEF CellValues
  <1>3. NewGrid(z) = [size |-> z, cells |-> ce, stamp |-> st, gen |-> 1, cap |-> z[1] * z[2]]
    BY <1>1 DEF NewGrid
  <1>4. 1 \in 1..GenLimit-1
    BY Limit
  <1> QED BY <1>2, <1>3, <1>4 DEF GridOk

LEMMA RawOk ==
    ASSUME NEW g, GridOk(g), NEW x, NEW y, NEW c \in CellValues
    PROVE  GridOk(setCellRaw(g, x, y, c)) /\ setCellRaw(g, x, y, c).size = g.size
  <1>1. PICK z, ce, st, n, k : g = [size |-> z, cells |-> ce, stamp |-> st, gen |-> n, cap |-> k]
    BY DEF GridOk
  <1>2. /\ g.size = z /\ g.gen = n /\ g.stamp = st /\ g.cells = ce
        /\ z \in Sizes /\ n \in 1..GenLimit-1
        /\ ce \in [Cells(z) -> CellValues] /\ st \in [Cells(z) -> 0..n]
    BY <1>1 DEF GridOk
  <1>3. PICK i : i = idx(g, x, y)
    OBVIOUS
  <1>4. PICK cf, sf : cf = [ce EXCEPT ![i] = c] /\ sf = [st EXCEPT ![i] = n]
    OBVIOUS
  <1>5. n \in 0..n
    BY <1>2, Limit
  <1>6. cf \in [Cells(z) -> CellValues] /\ sf \in [Cells(z) -> 0..n]
    BY <1>2, <1>4, <1>5
  <1>7. setCellRaw(g, x, y, c) = [size |-> z, cells |-> cf, stamp |-> sf, gen |-> n, cap |-> k]
    <2>1. setCellRaw(g, x, y, c) = [g EXCEPT !.cells[i] = c, !.stamp[i] = n]
      BY <1>2, <1>3 DEF setCellRaw
    <2>2. [g EXCEPT !.cells[i] = c, !.stamp[i] = n] = [g EXCEPT !.cells = cf, !.stamp = sf]
      BY <1>1, <1>2, <1>4
    <2> QED BY <1>1, <2>1, <2>2
  <1> QED BY <1>2, <1>6, <1>7 DEF GridOk

LEMMA SetCellOk ==
    ASSUME NEW g, GridOk(g), NEW x, NEW y, NEW c \in Chars
    PROVE  GridOk(SetCell(g, x, y, c)) /\ SetCell(g, x, y, c).size = g.size
  <1>1. c \in CellValues /\ "zero" \in CellValues /\ "cont" \in CellValues
    BY DEF CellValues
  <1>2. PICK w : w = clearWideOverlap(g, x, y)
    OBVIOUS
  <1>3. GridOk(w) /\ w.size = g.size
    BY <1>1, <1>2, RawOk DEF clearWideOverlap
  <1>4. PICK h : h = setCellRaw(w, x, y, c)
    OBVIOUS
  <1>5. GridOk(h) /\ h.size = g.size
    BY <1>1, <1>3, <1>4, RawOk
  <1>6. GridOk(setCellRaw(h, x + 1, y, "cont")) /\ setCellRaw(h, x + 1, y, "cont").size = g.size
    BY <1>1, <1>5, RawOk
  <1>7. SetCell(g, x, y, c) \in {h, setCellRaw(h, x + 1, y, "cont")}
    BY <1>2, <1>4 DEF SetCell
  <1> QED BY <1>5, <1>6, <1>7

LEMMA ResizeOk ==
    ASSUME NEW g, GridOk(g), NEW z \in Sizes
    PROVE  GridOk(Resize(g, z)) /\ Resize(g, z).size = z
  <1>1. /\ g.size \in Sizes /\ g.gen \in 1..GenLimit-1
        /\ g.cells \in [Cells(g.size) -> CellValues] /\ g.stamp \in [Cells(g.size) -> 0..g.gen]
    BY DEF GridOk
  <1>2. PICK c, r, cc, rr : c = z[1] /\ r = z[2] /\ cc = g.size[1] /\ rr = g.size[2]
    OBVIOUS
  <1>3. c \in Nat /\ r \in Nat /\ cc \in Nat /\ rr \in Nat
    BY <1>1, <1>2, CellsOf
  <1>4. ASSUME NEW i \in Cells(z), i % z[1] < g.size[1], i \div z[1] < g.size[2]
        PROVE  (i \div z[1]) * g.size[1] + (i % z[1]) \in Cells(g.size)
    <2>1. i \in 0..(c * r - 1)
      BY <1>2, <1>4, CellsOf
    <2>2. i % c \in 0..c-1 /\ i \div c \in 0..r-1 /\ i % c < cc /\ i \div c < rr
      BY <1>2, <1>3, <1>4, <2>1, IndexCell
    <2>3. PICK x, y : x = i % c /\ y = i \div c
      OBVIOUS
    <2>4. x \in 0..cc-1 /\ y \in 0..rr-1
      BY <1>3, <2>2, <2>3
    <2>5. y * cc + x \in 0..(cc * rr - 1)
      BY <1>3, <2>4, CellIndex
    <2> QED BY <1>1, <1>2, <2>3, <2>5, CellsOf
  <1> DEFINE kept(i) == i % z[1] < g.size[1] /\ i \div z[1] < g.size[2]
             from(i) == (i \div z[1]) * g.size[1] + (i % z[1])
  <1>5. PICK ce, st, k :
          /\ ce = [i \in Cells(z) |-> IF kept(i) THEN g.cells[from(i)] ELSE "zero"]
          /\ st = [i \in Cells(z) |-> IF kept(i) THEN g.stamp[from(i)] ELSE 0]
          /\ k = IF z[1] = g.size[1] /\ z[2] <= g.size[2] THEN g.cap ELSE z[1] * z[2]
    OBVIOUS
  <1>6. ce \in [Cells(z) -> CellValues]
    <2>1. \A i \in Cells(z) : kept(i) => from(i) \in Cells(g.size)
      BY <1>4
    <2>2. "zero" \in CellValues
      BY DEF CellValues
    <2> HIDE DEF kept, from
    <2> QED BY <1>1, <1>5, <2>1, <2>2
  <1>7. st \in [Cells(z) -> 0..g.gen]
    <2>1. \A i \in Cells(z) : kept(i) => from(i) \in Cells(g.size)
      BY <1>4
    <2>2. 0 \in 0..g.gen
      BY <1>1, Limit
    <2> HIDE DEF kept, from
    <2> QED BY <1>1, <1>5, <2>1, <2>2
  <1>8. Resize(g, z) = [size |-> z, gen |-> g.gen, cells |-> ce, stamp |-> st, cap |-> k]
    BY <1>5 DEF Resize
  <1> QED BY <1>1, <1>6, <1>7, <1>8 DEF GridOk

LEMMA ResetOk ==
    ASSUME NEW g, GridOk(g)
    PROVE  /\ GridOk(Reset(g)) /\ Reset(g).size = g.size
           /\ \A i \in Cells(g.size) : Reset(g).stamp[i] # Reset(g).gen
  <1>1. PICK z, ce, st, n, k : g = [size |-> z, cells |-> ce, stamp |-> st, gen |-> n, cap |-> k]
    BY DEF GridOk
  <1>2. /\ g.size = z /\ g.gen = n /\ g.stamp = st /\ g.cells = ce
        /\ z \in Sizes /\ n \in 1..GenLimit-1
        /\ ce \in [Cells(z) -> CellValues] /\ st \in [Cells(z) -> 0..n]
    BY <1>1 DEF GridOk
  <1>3. CASE (n + 1) % GenLimit # 0
    <2>1. n + 1 \in 1..GenLimit-1
      <3>1. n + 1 # GenLimit
        BY <1>3, Limit
      <3> QED BY <1>2, <3>1, Limit
    <2>2. Reset(g) = [size |-> z, cells |-> ce, stamp |-> st, gen |-> n + 1, cap |-> k]
      BY <1>1, <1>2, <1>3 DEF Reset
    <2>3. st \in [Cells(z) -> 0..(n+1)] /\ \A i \in Cells(z) : st[i] # n + 1
      BY <1>2, Limit
    <2>4. GridOk(Reset(g))
      BY <1>2, <2>1, <2>2, <2>3 DEF GridOk
    <2> QED BY <1>2, <2>2, <2>3, <2>4
  <1>4. CASE (n + 1) % GenLimit = 0
    <2>1. PICK cf, sf : cf = [i \in DOMAIN ce |-> "zero"] /\ sf = [i \in DOMAIN st |-> 0]
      OBVIOUS
    <2>2. cf \in [Cells(z) -> CellValues] /\ sf \in [Cells(z) -> 0..1] /\ \A i \in Cells(z) : sf[i] = 0
      BY <1>2, <2>1 DEF CellValues
    <2>3. Reset(g) = [size |-> z, cells |-> cf, stamp |-> sf, gen |-> 1, cap |-> k]
      BY <1>1, <1>2, <1>4, <2>1 DEF Reset
    <2>4. 1 \in 1..GenLimit-1
      BY Limit
    <2>5. GridOk(Reset(g))
      BY <1>2, <2>2, <2>3, <2>4 DEF GridOk
    <2> QED BY <1>2, <2>2, <2>3, <2>5
  <1> QED BY <1>3, <1>4

LEMMA InGridIdx ==
    ASSUME NEW g, g.size \in Sizes, NEW x, NEW y, InGrid(g, x, y)
    PROVE  idx(g, x, y) \in Cells(g.size)
  <1>1. PICK c, r : c = g.size[1] /\ r = g.size[2]
    OBVIOUS
  <1>2. c \in Nat /\ r \in Nat /\ x \in 0..c-1 /\ y \in 0..r-1
    BY <1>1, CellsOf DEF InGrid
  <1>3. y * c + x \in 0..(c * r - 1)
    BY <1>2, CellIndex
  <1> QED BY <1>1, <1>3, CellsOf DEF idx

LEMMA CellValue ==
    ASSUME NEW g, GridOk(g), NEW x, NEW y
    PROVE  Cell(g, x, y) \in CellValues
  <1>1. CASE live(g, x, y)
    <2>1. idx(g, x, y) \in Cells(g.size)
      BY <1>1, InGridIdx DEF live, GridOk
    <2>2. g.cells[idx(g, x, y)] \in CellValues
      BY <2>1 DEF GridOk
    <2> QED BY <1>1, <2>2 DEF Cell
  <1>2. CASE ~live(g, x, y)
    BY <1>2 DEF Cell, CellValues
  <1> QED BY <1>1, <1>2

(* A Grid none of whose stamps is its generation reads as blank.           *)
LEMMA Blank ==
    ASSUME NEW g, g.size \in Sizes, \A i \in Cells(g.size) : g.stamp[i] # g.gen, NEW x, NEW y
    PROVE  Cell(g, x, y) = "zero"
  BY InGridIdx DEF Cell, live

-----------------------------------------------------------------------------
(* What a step that leaves the frame alone keeps.                          *)

LEMMA OwnStays ==
    ASSUME FbInv, UNCHANGED <<pool, lastFrame, next, fbPc>>, spent'.frames = spent.frames,
           spent' \in [frames : 0..MaxFrames, draws : Nat, resizes : Nat]
    PROVE  OwnInv'
  <1>1. GridOwnership'
    BY DEF FbInv, OwnInv, GridOwnership
  <1> QED BY <1>1 DEF FbInv, OwnInv

LEMMA GridStays ==
    ASSUME FbInv, UNCHANGED <<grids, next, frameSize, fbPc>>
    PROVE  GridInv'
  BY DEF FbInv, GridInv

LEMMA ShownStays ==
    ASSUME FbInv, UNCHANGED <<lastFrame, fbPc>>, screen' = [p \in Surface |-> screen'[p]],
           lastFrame # None => grids'[lastFrame] = grids[lastFrame],
           "redraw" \in dirt' => "redraw" \in dirt,
           UNCHANGED <<screen, termSize, dirt>> \/ "window" \in dirt'
    PROVE  ShownInv'
  <1>1. ShownInv
    BY DEF FbInv
  <1>2. CASE "window" \in dirt'
    <2>1. ~Clean' /\ dirt' # {}
      BY <1>2 DEF Clean
    <2> QED BY <1>1, <2>1 DEF ShownInv
  <1>3. CASE UNCHANGED <<screen, termSize, dirt>>
    <2>1. ASSUME lastFrame # None, Shows(lastFrame) PROVE Shows(lastFrame)'
      <3>1. \A p : CellAt(lastFrame, p)' = CellAt(lastFrame, p)
        BY <2>1 DEF CellAt
      <3> QED BY <1>3, <2>1, <3>1 DEF Shows
    <2>2. Clean' = Clean
      BY <1>3 DEF Clean
    <2> QED BY <1>1, <1>3, <2>1, <2>2 DEF ShownInv
  <1> QED BY <1>2, <1>3

LEMMA SendStays ==
    ASSUME FbInv, UNCHANGED <<grids, next, lastFrame, patches, fbPc>>,
           UNCHANGED <<screen, termSize, dirt>> \/ "window" \in dirt'
    PROVE  SendInv'
  <1>1. SendInv
    BY DEF FbInv
  <1>2. \A p : CellAt(next, p)' = CellAt(next, p)
    BY DEF CellAt
  <1>3. \A k \in 1..Len(patches) : PatchOk(patches[k], k) => PatchOk(patches[k], k)'
    BY <1>2 DEF PatchOk
  <1>4. \A p : ToSend(patches, p)' = ToSend(patches, p)
    BY DEF ToSend
  <1>5. ResizeFirst(patches)' = ResizeFirst(patches)
    BY DEF ResizeFirst
  <1>6. CASE "window" \in dirt'
    <2>1. ~Clean'
      BY <1>6 DEF Clean
    <2> QED BY <1>1, <1>2, <1>3, <1>4, <1>5, <2>1 DEF SendInv
  <1>7. CASE UNCHANGED <<screen, termSize, dirt>>
    <2>1. Clean' = Clean
      BY <1>7 DEF Clean
    <2> QED BY <1>1, <1>2, <1>3, <1>4, <1>5, <1>7, <2>1 DEF SendInv
  <1> QED BY <1>6, <1>7

-----------------------------------------------------------------------------
(* The steps.                                                              *)

LEMMA DriverInitStep == ASSUME FbInv, DriverInit PROVE FbInv'
  <1>1. PICK z \in FbSizes : dim' = z /\ termSize' = z
    BY DEF DriverInit
  <1>2. /\ fbPc = "init" /\ fbPc' = "idle"
        /\ UNCHANGED <<grids, pool, lastFrame, next, frameSize, patches, screen, resizes, storing, spent, dirt>>
    BY DEF DriverInit
  <1>3. z \in Sizes
    BY FbAssumption DEF Sizes
  <1>4. spent.frames = 0 /\ lastFrame = None
    BY <1>2, Limit DEF FbInv, OwnInv, None
  <1>5. OwnInv'
    <2>1. GridOwnership'
      BY <1>2 DEF FbInv, OwnInv, GridOwnership
    <2> QED BY <1>2, <2>1 DEF FbInv, OwnInv, FbPhases
  <1>6. GridInv'
    BY <1>2 DEF FbInv, GridInv
  <1>7. SizeInv'
    BY <1>1, <1>2, <1>3 DEF FbInv, SizeInv
  <1>8. QuietInv'
    BY <1>1, <1>2 DEF FbInv, QuietInv
  <1>9. ShownInv'
    BY <1>2, <1>4 DEF FbInv, ShownInv, Clean
  <1>10. SendInv'
    BY <1>2 DEF FbInv, SendInv
  <1> QED BY <1>5, <1>6, <1>7, <1>8, <1>9, <1>10 DEF FbInv

LEMMA TermResizeStep == ASSUME FbInv, TermResize PROVE FbInv'
  <1>1. PICK z \in FbSizes \ {termSize} :
          /\ termSize' = z /\ resizes' = Append(resizes, z)
          /\ screen' = [p \in Surface |-> IF p[1] < z[1] /\ p[2] < z[2] THEN screen[p] ELSE " "]
    BY DEF TermResize
  <1>2. /\ fbPc # "init" /\ spent' = [spent EXCEPT !.resizes = @ + 1] /\ dirt' = dirt \cup {"window"}
        /\ UNCHANGED <<grids, pool, lastFrame, next, fbPc, frameSize, patches, dim, storing>>
    BY DEF TermResize
  <1>3. z \in Sizes
    BY FbAssumption DEF Sizes
  <1>4. OwnInv'
    <2>1. spent' \in [frames : 0..MaxFrames, draws : Nat, resizes : Nat] /\ spent'.frames = spent.frames
      BY <1>2 DEF FbInv, OwnInv
    <2> QED BY <1>2, <2>1, OwnStays
  <1>5. GridInv'
    BY <1>2, GridStays
  <1>6. SizeInv'
    <2>0. resizes \in Seq(Sizes)
      BY DEF FbInv, SizeInv
    <2>1. resizes' \in Seq(Sizes)
      BY <1>1, <1>3, <2>0, AppendProperties
    <2> QED BY <1>1, <1>2, <1>3, <2>1 DEF FbInv, SizeInv
  <1>7. QuietInv'
    <2>1. dirt' # {}
      BY <1>2
    <2> QED BY <1>2, <2>1 DEF QuietInv
  <1>8. ShownInv'
    <2>1. screen' = [p \in Surface |-> screen'[p]]
      BY <1>1
    <2> QED BY <1>2, <2>1, ShownStays
  <1>9. SendInv'
    BY <1>2, SendStays
  <1> QED BY <1>4, <1>5, <1>6, <1>7, <1>8, <1>9 DEF FbInv

LEMMA PollStep == ASSUME FbInv, PollResizeCols \/ PollResizeRows PROVE FbInv'
  <1>1. UNCHANGED <<grids, pool, lastFrame, next, fbPc, frameSize, patches, screen, termSize, spent, dirt>>
    BY DEF PollResizeCols, PollResizeRows
  <1>2. resizes # <<>> \/ storing # <<>>
    BY DEF PollResizeCols, PollResizeRows
  <1>3. OwnInv'
    <2>1. spent' \in [frames : 0..MaxFrames, draws : Nat, resizes : Nat] /\ spent'.frames = spent.frames
      BY <1>1 DEF FbInv, OwnInv
    <2> QED BY <1>1, <2>1, OwnStays
  <1>4. GridInv'
    BY <1>1, GridStays
  <1>5. SizeInv'
    <2>1. CASE PollResizeCols
      <3>1. Head(resizes) \in Sizes /\ Tail(resizes) \in Seq(Sizes)
        BY <2>1 DEF FbInv, SizeInv, PollResizeCols
      <3>2. <<Head(resizes)[1], dim[2]>> \in Sizes
        BY <3>1 DEF FbInv, SizeInv, Sizes
      <3> QED BY <1>1, <2>1, <3>1, <3>2 DEF FbInv, SizeInv, PollResizeCols
    <2>2. CASE PollResizeRows
      <3>1. storing \in Sizes /\ resizes' = resizes /\ storing' = <<>>
        BY <2>2 DEF FbInv, SizeInv, PollResizeRows
      <3>2. <<dim[1], storing[2]>> \in Sizes
        BY <3>1 DEF FbInv, SizeInv, Sizes
      <3> QED BY <1>1, <2>2, <3>1, <3>2 DEF FbInv, SizeInv, PollResizeRows
    <2> QED BY <2>1, <2>2
  <1>6. QuietInv'
    <2>1. fbPc # "init" /\ dirt # {}
      BY <1>2 DEF FbInv, QuietInv
    <2> QED BY <1>1, <2>1 DEF QuietInv
  <1>7. ShownInv'
    <2>1. screen' = [p \in Surface |-> screen'[p]]
      BY <1>1 DEF FbInv, ShownInv
    <2> QED BY <1>1, <2>1, ShownStays
  <1>8. SendInv'
    BY <1>1, SendStays
  <1> QED BY <1>3, <1>4, <1>5, <1>6, <1>7, <1>8 DEF FbInv

LEMMA BeginStep == ASSUME FbInv, FrameBegin PROVE FbInv'
  <1>1. /\ fbPc = "idle" /\ fbPc' = "size" /\ frameSize' = dim /\ spent.frames < MaxFrames
        /\ spent' = [spent EXCEPT !.frames = @ + 1]
        /\ UNCHANGED <<grids, pool, lastFrame, next, patches, screen, dim, termSize, resizes, storing, dirt>>
    BY DEF FrameBegin
  <1>2. /\ spent \in [frames : 0..MaxFrames, draws : Nat, resizes : Nat]
        /\ pool \in [Buckets -> SUBSET (1..spent.frames)]
        /\ lastFrame \in 0..spent.frames /\ next = None
    BY <1>1 DEF FbInv, OwnInv
  <1>3. PICK n : n = spent.frames
    OBVIOUS
  <1>4. n \in Nat /\ n < MaxFrames /\ spent'.frames = n + 1
        /\ spent' \in [frames : 0..MaxFrames, draws : Nat, resizes : Nat]
    BY <1>1, <1>2, <1>3, Limit
  <1>5. OwnInv'
    <2>1. GridOwnership'
      BY <1>1 DEF FbInv, OwnInv, GridOwnership
    <2>2. \A b \in Buckets : pool[b] \subseteq 1..(n + 1) /\ n + 1 \notin pool[b]
      <3>1. n + 1 \notin 1..n /\ 1..n \subseteq 1..(n + 1)
        BY <1>4
      <3> QED BY <1>2, <1>3, <3>1
    <2>3. pool' \in [Buckets -> SUBSET (1..spent'.frames)]
      BY <1>1, <1>2, <1>4, <2>2
    <2>4. lastFrame' \in 0..spent'.frames /\ lastFrame' # spent'.frames /\ next' \in 0..spent'.frames /\ spent'.frames # 0
      BY <1>1, <1>2, <1>3, <1>4 DEF None
    <2> QED BY <1>1, <1>2, <1>4, <2>1, <2>2, <2>3, <2>4 DEF OwnInv, FbPhases
  <1>6. GridInv'
    BY <1>1 DEF FbInv, GridInv
  <1>7. SizeInv'
    BY <1>1 DEF FbInv, SizeInv
  <1>8. QuietInv'
    BY <1>1 DEF FbInv, QuietInv
  <1>9. ShownInv'
    <2>1. \A p : CellAt(lastFrame, p)' = CellAt(lastFrame, p)
      BY <1>1 DEF CellAt
    <2>2. Shows(lastFrame) => Shows(lastFrame)'
      BY <1>1, <2>1 DEF Shows
    <2>3. Clean' = Clean
      BY <1>1 DEF Clean
    <2> QED BY <1>1, <2>2, <2>3 DEF FbInv, ShownInv
  <1>10. SendInv'
    BY <1>1 DEF FbInv, SendInv
  <1> QED BY <1>5, <1>6, <1>7, <1>8, <1>9, <1>10 DEF FbInv

(* The Grid that Acquire hands out is nobody else's.                       *)
LEMMA AcquireFacts ==
    ASSUME FbInv, Acquire
    PROVE  /\ frameSize' \in Sizes /\ (dirt = {} => frameSize' = termSize)
           /\ next' \in 1..spent.frames /\ next' # lastFrame /\ spent.frames \in 1..MaxFrames
           /\ pool' \in [Buckets -> SUBSET (1..spent.frames)]
           /\ \A b \in Buckets : pool'[b] \subseteq pool[b] /\ next' \notin pool'[b]
           /\ grids' = [grids EXCEPT ![next'] = grids'[next']]
           /\ GridOk(grids'[next']) /\ grids'[next'].size = frameSize'
           /\ \A i \in Cells(frameSize') : grids'[next'].stamp[i] # grids'[next'].gen
  <1>1. PICK z : z = <<frameSize[1], dim[2]>>
    OBVIOUS
  <1>2. fbPc = "size" /\ frameSize' = z /\ UNCHANGED <<lastFrame, dirt, spent, termSize>>
    BY <1>1 DEF Acquire
  <1>3. z \in Sizes
    BY <1>1 DEF FbInv, SizeInv, Sizes
  <1>4. dirt = {} => z = termSize
    <2>1. dirt = {} => frameSize = termSize /\ dim = termSize
      BY <1>2 DEF FbInv, QuietInv
    <2>2. termSize \in Sizes => termSize = <<termSize[1], termSize[2]>>
      BY DEF Sizes
    <2> QED BY <1>1, <2>1, <2>2 DEF FbInv, SizeInv
  <1>5. /\ spent.frames \in 1..MaxFrames /\ lastFrame # spent.frames
        /\ \A b \in Buckets : spent.frames \notin pool[b]
        /\ pool \in [Buckets -> SUBSET (1..spent.frames)]
    BY <1>2, Limit DEF FbInv, OwnInv
  <1>6. grids = [i \in 1..MaxFrames |-> grids[i]] /\ \A i \in 1..MaxFrames : GridOk(grids[i])
    BY DEF FbInv, GridInv
  <1>7. CASE /\ next' = Fresh /\ grids' = [grids EXCEPT ![Fresh] = NewGrid(z)] /\ pool' = pool
    <2>1. PICK g : g = NewGrid(z)
      OBVIOUS
    <2>2. next' = spent.frames /\ grids' = [grids EXCEPT ![next'] = g] /\ grids'[next'] = g
      BY <1>5, <1>6, <1>7, <2>1 DEF Fresh
    <2>3. GridOk(g) /\ g.size = z
      BY <1>3, <2>1, NewGridOk
    <2>4. \A i \in Cells(z) : g.stamp[i] # g.gen
      BY <2>1 DEF NewGrid
    <2>5. next' \in 1..spent.frames /\ next' # lastFrame
      BY <1>5, <2>2, Limit
    <2> QED BY <1>2, <1>3, <1>4, <1>5, <1>7, <2>2, <2>3, <2>4, <2>5
  <1>8. CASE \E b \in Buckets : \E id \in pool[b] :
               /\ next' = id
               /\ grids' = [grids EXCEPT ![id] = Reset(Resize(@, z))]
               /\ pool' = [pool EXCEPT ![b] = @ \ {id}]
    <2>1. PICK b \in Buckets : \E id \in pool[b] :
               /\ next' = id
               /\ grids' = [grids EXCEPT ![id] = Reset(Resize(@, z))]
               /\ pool' = [pool EXCEPT ![b] = @ \ {id}]
      BY <1>8
    <2>2. PICK id \in pool[b] :
               /\ next' = id
               /\ grids' = [grids EXCEPT ![id] = Reset(Resize(@, z))]
               /\ pool' = [pool EXCEPT ![b] = @ \ {id}]
      BY <2>1
    <2>3. id \in 1..spent.frames /\ id \in 1..MaxFrames
      BY <1>5, <2>2, Limit
    <2>4. PICK w, g : w = Resize(grids[id], z) /\ g = Reset(w)
      OBVIOUS
    <2>5. GridOk(w) /\ w.size = z
      BY <1>3, <1>6, <2>3, <2>4, ResizeOk
    <2>6. GridOk(g) /\ g.size = z /\ \A i \in Cells(z) : g.stamp[i] # g.gen
      BY <2>4, <2>5, ResetOk
    <2>7. grids' = [grids EXCEPT ![next'] = g] /\ grids'[next'] = g
      BY <1>6, <2>2, <2>3, <2>4
    <2>8. id # lastFrame /\ \A c \in Buckets : c # b => id \notin pool[c]
      BY <2>2 DEF FbInv, OwnInv, GridOwnership
    <2>9. pool' \in [Buckets -> SUBSET (1..spent.frames)]
          /\ pool'[b] = pool[b] \ {id} /\ \A c \in Buckets : c # b => pool'[c] = pool[c]
      BY <1>5, <2>2
    <2>10. \A c \in Buckets : pool'[c] \subseteq pool[c] /\ next' \notin pool'[c]
      BY <2>2, <2>8, <2>9
    <2> QED BY <1>2, <1>3, <1>4, <1>5, <2>2, <2>3, <2>6, <2>7, <2>8, <2>9, <2>10
  <1>9. \/ /\ next' = Fresh /\ grids' = [grids EXCEPT ![Fresh] = NewGrid(z)] /\ pool' = pool
        \/ \E b \in Buckets : \E id \in pool[b] :
               /\ next' = id
               /\ grids' = [grids EXCEPT ![id] = Reset(Resize(@, z))]
               /\ pool' = [pool EXCEPT ![b] = @ \ {id}]
    BY <1>1 DEF Acquire
  <1> QED BY <1>7, <1>8, <1>9

LEMMA AcquireStep == ASSUME FbInv, Acquire PROVE FbInv'
  <1>1. /\ fbPc = "size" /\ fbPc' = "render"
        /\ UNCHANGED <<lastFrame, patches, screen, dim, termSize, resizes, storing, spent, dirt>>
    BY DEF Acquire
  <1>2. /\ frameSize' \in Sizes /\ (dirt = {} => frameSize' = termSize)
        /\ next' \in 1..spent.frames /\ next' # lastFrame /\ spent.frames \in 1..MaxFrames
        /\ pool' \in [Buckets -> SUBSET (1..spent.frames)]
        /\ \A b \in Buckets : pool'[b] \subseteq pool[b] /\ next' \notin pool'[b]
        /\ grids' = [grids EXCEPT ![next'] = grids'[next']]
        /\ GridOk(grids'[next']) /\ grids'[next'].size = frameSize'
    BY AcquireFacts
  <1>3. OwnInv'
    <2>1. GridOwnership'
      <3>1. next' # None
        BY <1>2, Limit DEF None
      <3>2. \A b \in Buckets : lastFrame \notin pool[b]
        BY DEF FbInv, OwnInv, GridOwnership
      <3>3. \A b, c \in Buckets : b # c => pool[b] \cap pool[c] = {}
        BY DEF FbInv, OwnInv, GridOwnership
      <3>4. \A b \in Buckets : pool'[b] \cap {lastFrame', next'} = {}
        BY <1>1, <1>2, <3>2
      <3>5. \A b, c \in Buckets : b # c => pool'[b] \cap pool'[c] = {}
        BY <1>2, <3>3
      <3> QED BY <1>1, <1>2, <3>1, <3>4, <3>5 DEF GridOwnership
    <2>2. lastFrame' \in 0..spent'.frames /\ next' \in 0..spent'.frames
          /\ spent' \in [frames : 0..MaxFrames, draws : Nat, resizes : Nat]
      BY <1>1, <1>2, Limit DEF FbInv, OwnInv
    <2> QED BY <1>1, <1>2, <2>1, <2>2 DEF OwnInv, FbPhases
  <1>4. GridInv'
    <2>1. PICK n, g : n = next' /\ g = grids'[next']
      OBVIOUS
    <2>2. grids = [i \in 1..MaxFrames |-> grids[i]] /\ \A i \in 1..MaxFrames : GridOk(grids[i])
      BY DEF FbInv, GridInv
    <2>3. grids' = [i \in 1..MaxFrames |-> IF i = n THEN g ELSE grids[i]]
      BY <1>2, <2>1, <2>2
    <2>4. GridOk(g)
      BY <1>2, <2>1
    <2>5. \A i \in 1..MaxFrames : GridOk(grids'[i])
      BY <2>2, <2>3, <2>4
    <2>6. (\A i \in 1..MaxFrames : GridOk(grids[i]))'
      BY <2>5 DEF GridOk
    <2>7. grids' = [i \in 1..MaxFrames |-> grids'[i]]
      BY <2>3
    <2> QED BY <1>2, <2>6, <2>7 DEF GridInv
  <1>5. SizeInv'
    BY <1>1, <1>2 DEF FbInv, SizeInv
  <1>6. QuietInv'
    BY <1>1, <1>2 DEF FbInv, QuietInv
  <1>7. ShownInv'
    <2>1. lastFrame # None => grids'[lastFrame] = grids[lastFrame]
      <3>1. lastFrame # None => lastFrame \in 1..MaxFrames
        BY Limit DEF FbInv, OwnInv, None
      <3> QED BY <1>2, <3>1 DEF FbInv, GridInv
    <2>2. ASSUME lastFrame # None, Shows(lastFrame) PROVE Shows(lastFrame)'
      <3>1. \A p : CellAt(lastFrame, p)' = CellAt(lastFrame, p)
        BY <1>1, <2>1, <2>2 DEF CellAt
      <3> QED BY <1>1, <2>1, <2>2, <3>1 DEF Shows
    <2>3. Clean' = Clean
      BY <1>1 DEF Clean
    <2> QED BY <1>1, <2>2, <2>3 DEF FbInv, ShownInv
  <1>8. SendInv'
    BY <1>1 DEF FbInv, SendInv
  <1> QED BY <1>3, <1>4, <1>5, <1>6, <1>7, <1>8 DEF FbInv

LEMMA DrawStep == ASSUME FbInv, Draw PROVE FbInv'
  <1>1. /\ fbPc = "render" /\ spent' = [spent EXCEPT !.draws = @ + 1]
        /\ UNCHANGED <<pool, lastFrame, next, fbPc, frameSize, patches, screen, dim, termSize, resizes, storing, dirt>>
    BY DEF Draw
  <1>2. next \in 1..MaxFrames /\ next # lastFrame /\ (lastFrame # None => lastFrame \in 1..MaxFrames)
    BY <1>1, Limit DEF FbInv, OwnInv, GridOwnership, None
  <1>3. PICK x \in 0..frameSize[1]-1, y \in 0..frameSize[2]-1, c \in Chars :
          grids' = [grids EXCEPT ![next] = SetCell(@, x, y, c)]
    BY DEF Draw
  <1>4. PICK g : g = SetCell(grids[next], x, y, c)
    OBVIOUS
  <1>5. grids = [i \in 1..MaxFrames |-> grids[i]] /\ \A i \in 1..MaxFrames : GridOk(grids[i])
    BY DEF FbInv, GridInv
  <1>6. GridOk(g) /\ g.size = grids[next].size
    BY <1>2, <1>3, <1>4, <1>5, SetCellOk
  <1>7. grids' = [i \in 1..MaxFrames |-> IF i = next THEN g ELSE grids[i]]
    BY <1>3, <1>4, <1>5
  <1>8. OwnInv'
    <2>1. spent' \in [frames : 0..MaxFrames, draws : Nat, resizes : Nat] /\ spent'.frames = spent.frames
      BY <1>1 DEF FbInv, OwnInv
    <2> QED BY <1>1, <2>1, OwnStays
  <1>9. GridInv'
    <2>1. \A i \in 1..MaxFrames : GridOk(grids'[i])
      BY <1>5, <1>6, <1>7
    <2>2. (\A i \in 1..MaxFrames : GridOk(grids[i]))'
      BY <2>1 DEF GridOk
    <2>3. grids' = [i \in 1..MaxFrames |-> grids'[i]]
      BY <1>7
    <2>4. grids'[next].size = frameSize
      BY <1>1, <1>2, <1>6, <1>7 DEF FbInv, GridInv
    <2> QED BY <1>1, <2>2, <2>3, <2>4 DEF GridInv
  <1>10. SizeInv'
    BY <1>1 DEF FbInv, SizeInv
  <1>11. QuietInv'
    BY <1>1 DEF FbInv, QuietInv
  <1>12. ShownInv'
    <2>1. lastFrame # None => grids'[lastFrame] = grids[lastFrame]
      BY <1>2, <1>7
    <2>2. screen' = [p \in Surface |-> screen'[p]]
      BY <1>1 DEF FbInv, ShownInv
    <2> QED BY <1>1, <2>1, <2>2, ShownStays
  <1>13. SendInv'
    BY <1>1 DEF FbInv, SendInv
  <1> QED BY <1>8, <1>9, <1>10, <1>11, <1>12, <1>13 DEF FbInv

Patches == [kind : {"resize", "set"}, at : Sizes, cell : CellValues]
Resized(prev, g) == prev # None /\ grids[prev].size # g.size
Differs(prev, g, x, y) ==
    /\ Cell(g, x, y) # "cont"
    /\ IF prev = None \/ Resized(prev, g) THEN Cell(g, x, y) # "zero"
       ELSE Cell(grids[prev], x, y) # Cell(g, x, y)
SetPatch(g, c) ==
    /\ c \in Patches /\ c.kind = "set" /\ InGrid(g, c.at[1], c.at[2])
    /\ c.cell = Cell(g, c.at[1], c.at[2])

(* What Diff sends: a resize first if there is one, then the cells that    *)
(* differ, all of them.                                                    *)
LEMMA DiffFacts ==
    ASSUME NEW prev, NEW g, GridOk(g)
    PROVE  /\ Diff(prev, g) \in Seq(Patches)
           /\ \A k \in 1..Len(Diff(prev, g)) :
                \/ /\ k = 1 /\ Resized(prev, g)
                   /\ Diff(prev, g)[k].kind = "resize" /\ Diff(prev, g)[k].at = g.size
                \/ SetPatch(g, Diff(prev, g)[k])
           /\ Resized(prev, g) => ResizeFirst(Diff(prev, g))
           /\ \A x \in 0..g.size[1]-1, y \in 0..g.size[2]-1 :
                Differs(prev, g, x, y) => ToSend(Diff(prev, g), <<x, y>>)
  <1>1. PICK c, r : c = g.size[1] /\ r = g.size[2]
    OBVIOUS
  <1>2. c \in Nat /\ r \in Nat /\ g.size \in Sizes /\ Cells(g.size) = 0..(c * r - 1) /\ c * r \in Nat
    <2>1. g.size \in Sizes
      BY DEF GridOk
    <2>2. c \in Nat /\ r \in Nat /\ Cells(g.size) = 0..(c * r - 1)
      BY <1>1, <2>1, CellsOf
    <2>3. c * r \in Nat
      BY <2>2
    <2> QED BY <2>1, <2>2, <2>3
  <1> DEFINE pos(i) == <<i % g.size[1], i \div g.size[1]>>
             changed(i) == Differs(prev, g, pos(i)[1], pos(i)[2])
  <1>3. PICK S : S = {i \in Cells(g.size) : changed(i)}
    OBVIOUS
  <1>4. PICK order : order = Ascending(S, c * r)
    OBVIOUS
  <1>5. order \in Seq(Nat) /\ Collected(S, order, c * r)
    BY <1>2, <1>4, AscendingContents
  <1>6. PICK sets : sets = [k \in DOMAIN order |-> [kind |-> "set", at |-> pos(order[k]),
                                    cell |-> Cell(g, pos(order[k])[1], pos(order[k])[2])]]
    OBVIOUS
  <1>7. PICK first : first = IF Resized(prev, g) THEN <<[kind |-> "resize", at |-> g.size, cell |-> "zero"]>> ELSE <<>>
    OBVIOUS
  <1>8. Diff(prev, g) = first \o sets
    BY <1>1, <1>3, <1>4, <1>6, <1>7 DEF Diff, Differs, Resized
  <1>9. \A i \in Cells(g.size) : pos(i)[1] \in 0..c-1 /\ pos(i)[2] \in 0..r-1
    BY <1>1, <1>2, IndexCell
  <1>10. \A i \in Cells(g.size) : pos(i) \in Sizes /\ InGrid(g, pos(i)[1], pos(i)[2])
    <2> SUFFICES ASSUME NEW i \in Cells(g.size) PROVE pos(i) \in Sizes /\ InGrid(g, pos(i)[1], pos(i)[2])
      OBVIOUS
    <2>1. PICK x, y : x = i % g.size[1] /\ y = i \div g.size[1]
      OBVIOUS
    <2>2. pos(i) = <<x, y>> /\ x \in 0..c-1 /\ y \in 0..r-1
      BY <1>9, <2>1
    <2>3. x \in Nat /\ y \in Nat
      BY <1>2, <2>2
    <2> QED BY <1>1, <2>2, <2>3 DEF Sizes, InGrid
  <1> HIDE DEF pos
  <1>11. ASSUME NEW k \in DOMAIN order PROVE order[k] \in S /\ SetPatch(g, sets[k])
    <2>1. DOMAIN order = 1..Len(order)
      BY <1>5
    <2>2. order[k] \in S
      BY <1>5, <1>11, <2>1 DEF Collected
    <2>3. order[k] \in Cells(g.size)
      BY <1>3, <2>2
    <2>4. PICK a : a = pos(order[k])
      OBVIOUS
    <2>5. a \in Sizes /\ InGrid(g, a[1], a[2]) /\ Cell(g, a[1], a[2]) \in CellValues
      BY <1>10, <2>3, <2>4, CellValue
    <2>6. sets[k] = [kind |-> "set", at |-> a, cell |-> Cell(g, a[1], a[2])]
      BY <1>6, <1>11, <2>4
    <2>7. sets[k] \in Patches /\ sets[k].kind = "set" /\ sets[k].at = a /\ sets[k].cell = Cell(g, a[1], a[2])
      BY <2>5, <2>6 DEF Patches
    <2> QED BY <2>2, <2>5, <2>7 DEF SetPatch
  <1>12. sets \in Seq(Patches) /\ Len(sets) = Len(order) /\ DOMAIN sets = 1..Len(order) /\ Len(order) \in Nat
    <2>1. DOMAIN order = 1..Len(order) /\ Len(order) \in Nat
      BY <1>5
    <2>2. DOMAIN sets = 1..Len(order) /\ sets = [k \in 1..Len(order) |-> sets[k]]
      BY <1>6, <2>1
    <2>3. \A k \in 1..Len(order) : sets[k] \in Patches
      BY <1>11, <2>1 DEF SetPatch
    <2>4. sets \in [1..Len(order) -> Patches]
      BY <2>2, <2>3
    <2> QED BY <2>1, <2>2, <2>4
  <1>13. first \in Seq(Patches) /\ Len(first) \in {0, 1} /\ (Len(first) = 1 <=> Resized(prev, g))
         /\ (Len(first) = 1 => first[1].kind = "resize" /\ first[1].at = g.size)
    <2>1. [kind |-> "resize", at |-> g.size, cell |-> "zero"] \in Patches
      BY <1>2 DEF Patches, CellValues
    <2> QED BY <1>7, <2>1
  <1>14. PICK ps : ps = Diff(prev, g)
    OBVIOUS
  <1>15. /\ ps \in Seq(Patches) /\ Len(ps) = Len(first) + Len(sets)
         /\ \A k \in 1..Len(first) : ps[k] = first[k]
         /\ \A k \in 1..Len(sets) : ps[Len(first) + k] = sets[k]
    <2>1. ps = first \o sets
      BY <1>8, <1>14, Zenon
    <2>2. first \in Seq(Patches) /\ sets \in Seq(Patches)
      BY <1>12, <1>13, Zenon
    <2> QED BY <2>1, <2>2, ConcatProperties
  <1>16. ASSUME NEW k \in 1..Len(ps)
         PROVE  \/ /\ k = 1 /\ Resized(prev, g) /\ ps[k].kind = "resize" /\ ps[k].at = g.size
                \/ SetPatch(g, ps[k])
    <2>1. CASE k <= Len(first)
      <3>0. k \in Nat /\ k >= 1 /\ Len(first) \in {0, 1}
        <4>1. Len(ps) \in Nat /\ k \in 1..Len(ps)
          BY <1>15, <1>16, LenProperties
        <4>2. Len(first) \in {0, 1}
          BY <1>13
        <4> QED BY <4>1, <4>2
      <3>1. k = 1 /\ Len(first) = 1
        <4>1. PICK m : m = Len(first)
          OBVIOUS
        <4>2. m \in {0, 1} /\ k \in Nat /\ k >= 1 /\ k <= m
          BY <2>1, <3>0, <4>1
        <4>3. k = 1 /\ m = 1
          BY <4>2
        <4> QED BY <4>1, <4>3
      <3>2. Resized(prev, g) /\ first[1].kind = "resize" /\ first[1].at = g.size
        BY <1>13, <3>1
      <3>3. ps[1] = first[1]
        <4>1. 1 \in 1..Len(first)
          BY <3>1
        <4> QED BY <1>15, <4>1
      <3> QED BY <3>1, <3>2, <3>3
    <2>2. CASE k > Len(first)
      <3>1. PICK j : j = k - Len(first)
        OBVIOUS
      <3>2. j \in 1..Len(sets) /\ Len(first) + j = k
        BY <1>12, <1>13, <1>15, <1>16, <2>2, <3>1
      <3>3. j \in DOMAIN order
        BY <1>5, <1>12, <3>2
      <3> QED BY <1>11, <1>15, <3>2, <3>3
    <2> QED BY <1>13, <1>15, <1>16, <2>1, <2>2
  <1>17. ASSUME Resized(prev, g) PROVE ResizeFirst(ps)
    <2>a. Len(first) = 1
      BY <1>7, <1>17
    <2>b. Len(sets) \in Nat
      BY <1>12
    <2>0. Len(first) = 1 /\ 1 \in 1..Len(first) /\ Len(sets) \in Nat
      BY <2>a, <2>b
    <2>1. Len(ps) >= 1 /\ ps[1] = first[1]
      BY <1>15, <2>0
    <2> QED BY <1>13, <1>15, <1>17, <2>1 DEF ResizeFirst
  <1>18. ASSUME NEW x \in 0..g.size[1]-1, NEW y \in 0..g.size[2]-1, Differs(prev, g, x, y)
         PROVE  ToSend(ps, <<x, y>>)
    <2>1. PICK i : i = y * c + x
      OBVIOUS
    <2>2. i \in 0..(c * r - 1) /\ i % c = x /\ i \div c = y
      <3>1. c \in Nat /\ r \in Nat
        BY <1>2
      <3>2. x \in 0..c-1 /\ y \in 0..r-1
        BY <1>1, <1>18
      <3> QED BY <2>1, <3>1, <3>2, CellIndex
    <2>3. pos(i) = <<x, y>>
      BY <1>1, <2>2 DEF pos
    <2>4. i \in S
      BY <1>2, <1>3, <1>18, <2>2, <2>3
    <2>5. PICK j \in 1..Len(order) : order[j] = i
      BY <1>5, <2>2, <2>4 DEF Collected
    <2>6. sets[j].kind = "set" /\ sets[j].at = <<x, y>>
      BY <1>5, <1>6, <2>3, <2>5
    <2>7. Len(first) + j \in 1..Len(ps) /\ ps[Len(first) + j] = sets[j]
      BY <1>12, <1>13, <1>15, <2>5
    <2> QED BY <2>6, <2>7 DEF ToSend
  <1> QED BY <1>14, <1>15, <1>16, <1>17, <1>18

LEMMA DiffStep == ASSUME FbInv, DiffFrames PROVE FbInv'
  <1>1. /\ fbPc = "render" /\ fbPc' = "apply" /\ patches' = Diff(lastFrame, grids[next])
        /\ UNCHANGED <<grids, pool, lastFrame, next, frameSize, screen, dim, termSize, resizes, storing, spent, dirt>>
    BY DEF DiffFrames
  <1>2. next \in 1..MaxFrames /\ (lastFrame # None => lastFrame \in 1..MaxFrames)
    BY <1>1, Limit DEF FbInv, OwnInv, GridOwnership, None
  <1>3. OwnInv'
    <2>1. GridOwnership'
      BY <1>1 DEF FbInv, OwnInv, GridOwnership
    <2> QED BY <1>1, <2>1 DEF FbInv, OwnInv, FbPhases
  <1>4. GridInv'
    BY <1>1 DEF FbInv, GridInv
  <1>5. SizeInv'
    BY <1>1 DEF FbInv, SizeInv
  <1>6. QuietInv'
    BY <1>1 DEF FbInv, QuietInv
  <1>7. ShownInv'
    BY <1>1 DEF FbInv, ShownInv
  <1>8. SendInv'
    <2>1. PICK g, ps : g = grids[next] /\ ps = Diff(lastFrame, g)
      OBVIOUS
    <2>2. GridOk(g)
      BY <1>2, <2>1 DEF FbInv, GridInv
    <2>3. /\ ps \in Seq(Patches)
          /\ \A k \in 1..Len(ps) :
                \/ /\ k = 1 /\ Resized(lastFrame, g) /\ ps[k].kind = "resize" /\ ps[k].at = g.size
                \/ SetPatch(g, ps[k])
          /\ Resized(lastFrame, g) => ResizeFirst(ps)
          /\ \A x \in 0..g.size[1]-1, y \in 0..g.size[2]-1 :
                Differs(lastFrame, g, x, y) => ToSend(ps, <<x, y>>)
      BY <2>1, <2>2, DiffFacts
    <2>4. patches' = ps /\ grids'[next'] = g
      BY <1>1, <2>1
    <2>5. \A k \in 1..Len(ps) : PatchOk(ps[k], k)'
      <3>1. \A k \in 1..Len(ps) : SetPatch(g, ps[k]) => PatchOk(ps[k], k)'
        BY <2>4 DEF SetPatch, PatchOk, CellAt, Patches
      <3>2. Resized(lastFrame, g) => lastFrame' # None
        BY <1>1 DEF Resized
      <3>3. \A k \in 1..Len(ps) : k = 1 /\ Resized(lastFrame, g) /\ ps[k].kind = "resize" /\ ps[k].at = g.size => PatchOk(ps[k], k)'
        BY <2>4, <3>2 DEF PatchOk
      <3> QED BY <2>3, <3>1, <3>3
    <2>6. ASSUME NEW p \in Surface, ~ToSend(ps, p)
          PROVE  ~Differs(lastFrame, g, p[1], p[2]) \/ ~InGrid(g, p[1], p[2])
      <3>1. p = <<p[1], p[2]>>
        BY <2>6 DEF Surface
      <3>2. InGrid(g, p[1], p[2]) => p[1] \in 0..g.size[1]-1 /\ p[2] \in 0..g.size[2]-1
        BY DEF InGrid
      <3> QED BY <2>3, <2>6, <3>1, <3>2
    <2>7. \A p \in Surface : ~InGrid(g, p[1], p[2]) => Cell(g, p[1], p[2]) = "zero"
      BY DEF Cell, live
    <2>8. ASSUME Resized(lastFrame, g) \/ lastFrame = None
          PROVE  \A p \in Surface : Cell(g, p[1], p[2]) \in Chars => ToSend(ps, p)
      <3> SUFFICES ASSUME NEW p \in Surface, Cell(g, p[1], p[2]) \in Chars, ~ToSend(ps, p) PROVE FALSE
        OBVIOUS
      <3>1. Cell(g, p[1], p[2]) # "zero" /\ Cell(g, p[1], p[2]) # "cont"
        BY DEF Chars
      <3>2. Differs(lastFrame, g, p[1], p[2])
        BY <2>8, <3>1 DEF Differs
      <3> QED BY <2>6, <2>7, <3>1, <3>2
    <2>9. CASE Resized(lastFrame, g)
      <3>1. ResizeFirst(ps)
        BY <2>3, <2>9
      <3>2. \A p \in Surface : CellAt(next, p)' \in Chars => ToSend(ps, p)
        BY <2>4, <2>8, <2>9 DEF CellAt
      <3> QED BY <1>1, <2>3, <2>4, <2>5, <3>1, <3>2 DEF SendInv, Patches
    <2>10. CASE ~Resized(lastFrame, g)
      <3>1. ~ResizeFirst(ps)
        <4> SUFFICES ASSUME ResizeFirst(ps) PROVE FALSE
          OBVIOUS
        <4>1. 1 \in 1..Len(ps) /\ ps[1].kind = "resize"
          BY <2>3 DEF ResizeFirst
        <4>2. SetPatch(g, ps[1])
          BY <2>3, <2>10, <4>1
        <4> QED BY <4>1, <4>2 DEF SetPatch
      <3>2. ASSUME Clean
            PROVE  /\ g.size = termSize
                   /\ \A p \in Surface :
                        /\ Cell(g, p[1], p[2]) \in Chars => ToSend(ps, p) \/ screen[p] = Cell(g, p[1], p[2])
                        /\ Cell(g, p[1], p[2]) = "zero" /\ dirt = {} => ToSend(ps, p) \/ screen[p] = " "
        <4>1. CASE lastFrame = None
          <5>1. dirt = {} /\ \A p \in Surface : screen[p] = " "
            BY <1>1, <3>2, <4>1 DEF FbInv, ShownInv, Clean
          <5>2. g.size = termSize
            BY <1>1, <2>1, <5>1 DEF FbInv, GridInv, QuietInv
          <5> QED BY <2>8, <4>1, <5>1, <5>2
        <4>2. CASE lastFrame # None
          <5>1. Shows(lastFrame)
            BY <1>1, <3>2, <4>2 DEF FbInv, ShownInv
          <5>2. PICK h : h = grids[lastFrame]
            OBVIOUS
          <5>3. g.size = h.size /\ h.size = termSize
            BY <2>10, <4>2, <5>1, <5>2 DEF Resized, Shows
          <5>4. ASSUME NEW p \in Surface, ~ToSend(ps, p), Cell(g, p[1], p[2]) # "cont"
                PROVE  Cell(h, p[1], p[2]) = Cell(g, p[1], p[2])
            <6>1. CASE InGrid(g, p[1], p[2])
              BY <2>6, <2>10, <4>2, <5>2, <5>4, <6>1 DEF Differs
            <6>2. CASE ~InGrid(g, p[1], p[2])
              <7>1. ~InGrid(h, p[1], p[2])
                BY <5>3, <6>2 DEF InGrid
              <7> QED BY <6>2, <7>1 DEF Cell, live
            <6> QED BY <6>1, <6>2
          <5>5. \A p \in Surface : /\ Cell(h, p[1], p[2]) \in Chars => screen[p] = Cell(h, p[1], p[2])
                                   /\ Cell(h, p[1], p[2]) = "zero" /\ dirt = {} => screen[p] = " "
            BY <5>1, <5>2 DEF Shows, CellAt
          <5>6. "cont" \notin Chars /\ "zero" # "cont"
            BY DEF Chars
          <5> QED BY <5>3, <5>4, <5>5, <5>6
        <4> QED BY <4>1, <4>2
      <3>3. Clean' = Clean
        BY <1>1 DEF Clean
      <3>4. \A p : CellAt(next, p)' = Cell(g, p[1], p[2])
        BY <2>4 DEF CellAt
      <3> QED BY <1>1, <2>3, <2>4, <2>5, <3>1, <3>2, <3>3, <3>4 DEF SendInv, Patches
    <2> QED BY <2>9, <2>10
  <1> QED BY <1>3, <1>4, <1>5, <1>6, <1>7, <1>8 DEF FbInv

LEMMA ApplyStep == ASSUME FbInv, ApplyPatch PROVE FbInv'
  <1>1. PICK c : c = Head(patches)
    OBVIOUS
  <1>2. /\ fbPc = "apply" /\ patches # <<>> /\ patches' = Tail(patches)
        /\ UNCHANGED <<grids, pool, lastFrame, next, fbPc, frameSize, termSize, resizes, storing, spent>>
    BY DEF ApplyPatch
  <1>3. /\ c.kind = "resize" => /\ dim' = c.at /\ screen' = screen
                                /\ dirt' = IF c.at = termSize THEN {"redraw"} ELSE dirt \cup {"window"}
        /\ c.kind # "resize" => /\ UNCHANGED <<dim, dirt>>
                                /\ screen' = IF c.at[1] < termSize[1] /\ c.at[2] < termSize[2]
                                             THEN [screen EXCEPT ![c.at] = shown(c.cell)] ELSE screen
    BY <1>1 DEF ApplyPatch
  <1>4. PICK ps, rest, n : ps = patches /\ rest = patches' /\ n = Len(rest)
    OBVIOUS
  <1>5. /\ ps \in Seq(Patches) /\ rest \in Seq(Patches) /\ n \in Nat /\ Len(ps) = n + 1
        /\ ps[1] = c /\ c \in Patches
        /\ \A k \in 1..n : rest[k] = ps[k + 1]
    <2>1. ps \in Seq(Patches) /\ ps # <<>>
      BY <1>2, <1>4 DEF FbInv, SendInv, Patches
    <2>2. rest = Tail(ps) /\ c = Head(ps)
      BY <1>1, <1>2, <1>4
    <2>3. Len(ps) \in Nat /\ Len(ps) >= 1 /\ rest \in Seq(Patches) /\ Len(rest) = Len(ps) - 1
      BY <2>1, <2>2
    <2>4. ps[1] = c /\ c \in Patches
      BY <2>1, <2>2
    <2>5. \A k \in 1..Len(rest) : rest[k] = ps[k + 1]
      BY <2>1, <2>2
    <2> QED BY <1>4, <2>1, <2>3, <2>4, <2>5
  <1>6. \A k \in 1..(n + 1) : PatchOk(ps[k], k)
    BY <1>2, <1>4, <1>5 DEF FbInv, SendInv
  <1>7. \A k \in 1..n : PatchOk(rest[k], k)' /\ rest[k].kind = "set"
    <2> SUFFICES ASSUME NEW k \in 1..n PROVE PatchOk(rest[k], k)' /\ rest[k].kind = "set"
      OBVIOUS
    <2>1. k + 1 \in 1..(n + 1) /\ k + 1 # 1
      BY <1>5
    <2>2. rest[k] = ps[k + 1] /\ PatchOk(ps[k + 1], k + 1)
      BY <1>5, <1>6, <2>1
    <2>3. \A p : CellAt(next, p)' = CellAt(next, p)
      BY <1>2 DEF CellAt
    <2> QED BY <1>2, <2>1, <2>2, <2>3 DEF PatchOk
  <1>8. ~ResizeFirst(rest)
    <2> SUFFICES ASSUME ResizeFirst(rest) PROVE FALSE
      OBVIOUS
    <2>1. 1 \in 1..n
      BY <1>4, <1>5 DEF ResizeFirst
    <2> QED BY <1>7, <2>1 DEF ResizeFirst
  <1>9. PatchOk(c, 1)
    <2>1. 1 \in 1..(n + 1)
      BY <1>5
    <2> QED BY <1>5, <1>6, <2>1
  <1>10. \A p : ToSend(ps, p) => ToSend(rest, p) \/ (c.kind = "set" /\ c.at = p)
    <2> SUFFICES ASSUME NEW p, NEW k \in 1..(n + 1), ps[k].kind = "set", ps[k].at = p
                 PROVE  ToSend(rest, p) \/ (c.kind = "set" /\ c.at = p)
      BY <1>5 DEF ToSend
    <2>1. CASE k = 1
      BY <1>5, <2>1
    <2>2. CASE k # 1
      <3>1. k - 1 \in 1..n /\ (k - 1) + 1 = k
        BY <1>5, <2>2
      <3>2. rest[k - 1] = ps[k]
        BY <1>5, <3>1
      <3> QED BY <1>4, <3>1, <3>2 DEF ToSend
    <2> QED BY <2>1, <2>2
  <1>11. next \in 1..MaxFrames /\ c.kind \in {"resize", "set"} /\ c.at \in Sizes
    BY <1>2, <1>5, Limit DEF FbInv, OwnInv, GridOwnership, None, Patches
  <1>12. OwnInv'
    <2>1. spent' \in [frames : 0..MaxFrames, draws : Nat, resizes : Nat] /\ spent'.frames = spent.frames
      BY <1>2 DEF FbInv, OwnInv
    <2> QED BY <1>2, <2>1, OwnStays
  <1>13. GridInv'
    BY <1>2, GridStays
  <1>14. SizeInv'
    BY <1>2, <1>3, <1>11 DEF FbInv, SizeInv
  <1>15. QuietInv'
    <2>1. CASE c.kind = "resize"
      <3>1. dirt' # {}
        BY <1>3, <2>1
      <3> QED BY <1>2, <3>1 DEF QuietInv
    <2>2. CASE c.kind # "resize"
      BY <1>2, <1>3, <2>2 DEF FbInv, QuietInv
    <2> QED BY <2>1, <2>2
  <1>16. ShownInv'
    <2>1. screen' = [p \in Surface |-> screen'[p]]
      BY <1>3 DEF FbInv, ShownInv
    <2>2. lastFrame = None => "redraw" \notin dirt'
      <3>1. CASE c.kind = "resize"
        BY <1>9, <3>1 DEF PatchOk
      <3>2. CASE c.kind # "resize"
        BY <1>2, <1>3, <3>2 DEF FbInv, ShownInv
      <3> QED BY <3>1, <3>2
    <2> QED BY <1>2, <2>1, <2>2 DEF ShownInv
  <1>17. SendInv'
    <2>1. PICK g : g = grids[next]
      OBVIOUS
    <2>2. \A p : CellAt(next, p)' = Cell(g, p[1], p[2]) /\ CellAt(next, p) = Cell(g, p[1], p[2])
      BY <1>2, <2>1 DEF CellAt
    <2>3. ASSUME Clean'
          PROVE  /\ g.size = termSize
                 /\ \A p \in Surface :
                      /\ Cell(g, p[1], p[2]) \in Chars => ToSend(rest, p) \/ screen'[p] = Cell(g, p[1], p[2])
                      /\ Cell(g, p[1], p[2]) = "zero" /\ dirt' = {} => ToSend(rest, p) \/ screen'[p] = " "
      <3>1. CASE c.kind = "resize"
        <4>1. c.at = termSize /\ dirt' = {"redraw"}
          BY <1>3, <2>3, <3>1 DEF Clean
        <4>2. c.at = g.size
          BY <1>9, <2>1, <3>1 DEF PatchOk
        <4>3. ResizeFirst(patches)
          BY <1>2, <1>4, <1>5, <3>1 DEF ResizeFirst
        <4>4. \A p \in Surface : Cell(g, p[1], p[2]) \in Chars => ToSend(ps, p)
          BY <1>2, <1>4, <2>2, <4>3 DEF FbInv, SendInv
        <4> QED BY <1>10, <3>1, <4>1, <4>2, <4>4
      <3>2. CASE c.kind = "set"
        <4>1. dirt' = dirt /\ Clean /\ ~ResizeFirst(patches)
          BY <1>3, <1>4, <1>5, <2>3, <3>2 DEF Clean, ResizeFirst
        <4>2. /\ g.size = termSize
              /\ \A p \in Surface :
                   /\ Cell(g, p[1], p[2]) \in Chars => ToSend(ps, p) \/ screen[p] = Cell(g, p[1], p[2])
                   /\ Cell(g, p[1], p[2]) = "zero" /\ dirt = {} => ToSend(ps, p) \/ screen[p] = " "
          BY <1>2, <1>4, <2>1, <2>2, <4>1 DEF FbInv, SendInv
        <4>3. InGrid(g, c.at[1], c.at[2]) /\ c.cell = Cell(g, c.at[1], c.at[2])
          BY <1>9, <2>1, <2>2, <3>2 DEF PatchOk
        <4>4. c.at[1] < termSize[1] /\ c.at[2] < termSize[2]
          <5>1. g.size \in Sizes
            BY <1>11, <2>1 DEF FbInv, GridInv, GridOk
          <5>2. g.size[1] \in Nat /\ g.size[2] \in Nat
            BY <5>1, CellsOf
          <5>3. c.at[1] \in 0..g.size[1]-1 /\ c.at[2] \in 0..g.size[2]-1
            BY <4>3 DEF InGrid
          <5>4. c.at[1] < g.size[1] /\ c.at[2] < g.size[2]
            BY <5>2, <5>3
          <5>5. g.size = termSize
            BY <4>2
          <5> QED BY <5>4, <5>5
        <4>5. screen' = [screen EXCEPT ![c.at] = shown(c.cell)]
          BY <1>3, <3>2, <4>4
        <4>6. \A p \in Surface : screen'[p] = IF p = c.at THEN shown(c.cell) ELSE screen[p]
          BY <4>5 DEF FbInv, ShownInv
        <4>7. \A p \in Surface : p = c.at => screen'[p] = shown(Cell(g, p[1], p[2]))
          BY <4>3, <4>6
        <4>8. \A p \in Surface : p # c.at => screen'[p] = screen[p] /\ (ToSend(ps, p) => ToSend(rest, p))
          BY <1>10, <4>6
        <4>9. shown("zero") = " " /\ \A z \in Chars : shown(z) = z
          BY DEF shown, Chars
        <4> QED BY <4>1, <4>2, <4>7, <4>8, <4>9
      <3> QED BY <1>11, <3>1, <3>2
    <2>4. patches' \in Seq([kind : {"resize", "set"}, at : Sizes, cell : CellValues])
      BY <1>4, <1>5 DEF Patches
    <2>5. grids'[next'] = g /\ termSize' = termSize /\ fbPc' = "apply" /\ patches' = rest
      BY <1>2, <1>4, <2>1
    <2> QED BY <1>4, <1>7, <1>8, <2>2, <2>3, <2>4, <2>5 DEF SendInv
  <1> QED BY <1>12, <1>13, <1>14, <1>15, <1>16, <1>17 DEF FbInv

(* A Grid that is given back is in at most one sub-pool.                   *)
LEMMA ReleaseOk ==
    ASSUME NEW N \in Nat, NEW P \in [Buckets -> SUBSET (1..N)], NEW id \in 0..N,
           \A b \in Buckets : id \notin P[b],
           \A b, c \in Buckets : b # c => P[b] \cap P[c] = {}
    PROVE  /\ Release(P, grids, id) \in [Buckets -> SUBSET (1..N)]
           /\ \A b \in Buckets : Release(P, grids, id)[b] \subseteq P[b] \cup ({id} \ {0})
           /\ \A b, c \in Buckets : b # c => Release(P, grids, id)[b] \cap Release(P, grids, id)[c] = {}
  <1>1. CASE id = None \/ subPoolFor(grids[id].cap) = "none"
    <2>1. Release(P, grids, id) = P
      BY <1>1 DEF Release
    <2> QED BY <2>1
  <1>2. CASE ~(id = None \/ subPoolFor(grids[id].cap) = "none")
    <2>1. PICK a : a = subPoolFor(grids[id].cap)
      OBVIOUS
    <2>2. a \in Buckets
      BY <1>2, <2>1 DEF subPoolFor, Buckets
    <2>3. Release(P, grids, id) = [P EXCEPT ![a] = @ \cup {id}]
      BY <1>2, <2>1 DEF Release
    <2>4. id \in 1..N /\ id # 0
      BY <1>2 DEF None
    <2>5. PICK R : R = [P EXCEPT ![a] = @ \cup {id}]
      OBVIOUS
    <2>6. R[a] = P[a] \cup {id} /\ \A b \in Buckets : b # a => R[b] = P[b]
      BY <2>2, <2>5
    <2>7. R \in [Buckets -> SUBSET (1..N)]
      BY <2>2, <2>4, <2>5
    <2>8. \A b \in Buckets : R[b] \subseteq P[b] \cup ({id} \ {0})
      BY <2>4, <2>6
    <2>9. \A b, c \in Buckets : b # c => R[b] \cap R[c] = {}
      BY <2>2, <2>6
    <2> QED BY <2>3, <2>5, <2>7, <2>8, <2>9
  <1> QED BY <1>1, <1>2

(* The frame ends and a Grid that was in use is given back.                *)
LEMMA GivenBack ==
    ASSUME FbInv, NEW id \in {lastFrame, next}, pool' = Release(pool, grids, id),
           next' = None, lastFrame' \in {None, lastFrame, next}, id # None => lastFrame' # id,
           fbPc' \in {"idle", "stopped"}, UNCHANGED spent
    PROVE  OwnInv'
  <1>1. PICK N, P : N = spent.frames /\ P = pool
    OBVIOUS
  <1>2. /\ N \in Nat /\ P \in [Buckets -> SUBSET (1..N)] /\ id \in 0..N
        /\ \A b \in Buckets : P[b] \cap {lastFrame, next} = {}
        /\ \A b, c \in Buckets : b # c => P[b] \cap P[c] = {}
        /\ 0 \in 0..N /\ lastFrame \in 0..N /\ next \in 0..N
    BY <1>1, Limit DEF FbInv, OwnInv, GridOwnership
  <1>3. PICK R : R = Release(P, grids, id)
    OBVIOUS
  <1>4. /\ R \in [Buckets -> SUBSET (1..N)]
        /\ \A b \in Buckets : R[b] \subseteq P[b] \cup ({id} \ {0})
        /\ \A b, c \in Buckets : b # c => R[b] \cap R[c] = {}
    BY <1>2, <1>3, ReleaseOk
  <1>5. pool' = R
    BY <1>1, <1>3
  <1>6. \A b \in Buckets : None \notin R[b] /\ lastFrame' \notin R[b]
    <2> SUFFICES ASSUME NEW b \in Buckets PROVE None \notin R[b] /\ lastFrame' \notin R[b]
      OBVIOUS
    <2>1. None \notin R[b]
      BY <1>4 DEF None
    <2>2. CASE lastFrame' = None
      BY <2>1, <2>2
    <2>3. CASE lastFrame' # None
      <3>1. lastFrame' \notin P[b]
        BY <1>2, <2>3
      <3>2. lastFrame' \notin ({id} \ {0})
        BY <2>3 DEF None
      <3>3. R[b] \subseteq P[b] \cup ({id} \ {0})
        BY <1>4
      <3>4. lastFrame' \notin R[b]
        BY <3>1, <3>2, <3>3
      <3> QED BY <2>1, <3>4
    <2> QED BY <2>1, <2>2, <2>3
  <1>7. GridOwnership'
    BY <1>4, <1>5, <1>6 DEF GridOwnership
  <1>8. lastFrame' \in 0..N /\ next' \in 0..N
    BY <1>2 DEF None
  <1>9. spent' \in [frames : 0..MaxFrames, draws : Nat, resizes : Nat]
    BY DEF FbInv, OwnInv
  <1> QED BY <1>1, <1>4, <1>5, <1>7, <1>8, <1>9 DEF OwnInv, FbPhases

LEMMA AdoptStep == ASSUME FbInv, Adopt PROVE FbInv'
  <1>1. /\ fbPc = "apply" /\ patches = <<>> /\ pool' = Release(pool, grids, lastFrame)
        /\ lastFrame' = next /\ next' = None /\ fbPc' = "idle"
        /\ UNCHANGED <<grids, frameSize, patches, screen, dim, termSize, resizes, storing, spent, dirt>>
    BY DEF Adopt
  <1>2. next # None /\ (lastFrame # None => next # lastFrame)
    BY <1>1 DEF FbInv, OwnInv, GridOwnership
  <1>3. OwnInv'
    BY <1>1, <1>2, GivenBack
  <1>4. GridInv'
    BY <1>1 DEF FbInv, GridInv
  <1>5. SizeInv'
    BY <1>1 DEF FbInv, SizeInv
  <1>6. QuietInv'
    BY <1>1 DEF FbInv, QuietInv
  <1>7. ShownInv'
    <2>1. ASSUME Clean' PROVE Shows(lastFrame)'
      <3>1. Clean /\ ~ResizeFirst(patches) /\ \A p : ~ToSend(patches, p)
        BY <1>1, <2>1 DEF Clean, ResizeFirst, ToSend
      <3>2. /\ grids[next].size = termSize
            /\ \A p \in Surface :
                /\ CellAt(next, p) \in Chars => screen[p] = CellAt(next, p)
                /\ CellAt(next, p) = "zero" /\ dirt = {} => screen[p] = " "
        BY <1>1, <3>1 DEF FbInv, SendInv
      <3>3. \A p : CellAt(lastFrame, p)' = CellAt(next, p)
        BY <1>1 DEF CellAt
      <3> QED BY <1>1, <3>2, <3>3 DEF Shows
    <2>2. screen' = [p \in Surface |-> screen'[p]]
      BY <1>1 DEF FbInv, ShownInv
    <2> QED BY <1>1, <1>2, <2>1, <2>2 DEF ShownInv
  <1>8. SendInv'
    BY <1>1 DEF FbInv, SendInv
  <1> QED BY <1>3, <1>4, <1>5, <1>6, <1>7, <1>8 DEF FbInv

LEMMA PanicStep == ASSUME FbInv, FramePanics PROVE FbInv'
  <1>1. /\ fbPc \in {"render", "apply"} /\ pool' = Release(pool, grids, next)
        /\ next' = None /\ fbPc' = "idle" /\ patches' = <<>>
        /\ dirt' = IF fbPc = "apply" THEN dirt \cup {"panic"} ELSE dirt
        /\ UNCHANGED <<grids, lastFrame, frameSize, screen, dim, termSize, resizes, storing, spent>>
    BY DEF FramePanics
  <1>2. next # None /\ lastFrame # next
    BY <1>1 DEF FbInv, OwnInv, GridOwnership
  <1>3. OwnInv'
    BY <1>1, <1>2, GivenBack
  <1>4. GridInv'
    BY <1>1 DEF FbInv, GridInv
  <1>5. SizeInv'
    BY <1>1 DEF FbInv, SizeInv
  <1>6. QuietInv'
    BY <1>1 DEF FbInv, QuietInv
  <1>7. ShownInv'
    <2>1. screen' = [p \in Surface |-> screen'[p]] /\ (lastFrame = None => "redraw" \notin dirt')
      BY <1>1 DEF FbInv, ShownInv
    <2>2. CASE fbPc = "apply"
      <3>1. ~Clean' /\ dirt' # {}
        BY <1>1, <2>2 DEF Clean
      <3> QED BY <1>1, <2>1, <3>1 DEF ShownInv
    <2>3. CASE fbPc = "render"
      <3>1. dirt' = dirt
        BY <1>1, <2>3
      <3>2. \A p : CellAt(lastFrame, p)' = CellAt(lastFrame, p)
        BY <1>1 DEF CellAt
      <3>3. Shows(lastFrame) => Shows(lastFrame)'
        BY <1>1, <3>1, <3>2 DEF Shows
      <3>4. Clean' = Clean
        BY <3>1 DEF Clean
      <3> QED BY <1>1, <2>1, <2>3, <3>1, <3>3, <3>4 DEF FbInv, ShownInv
    <2> QED BY <1>1, <2>2, <2>3
  <1>8. SendInv'
    BY <1>1 DEF SendInv
  <1> QED BY <1>3, <1>4, <1>5, <1>6, <1>7, <1>8 DEF FbInv

LEMMA ExitStep == ASSUME FbInv, RunExit PROVE FbInv'
  <1>1. /\ fbPc = "idle" /\ pool' = Release(pool, grids, lastFrame)
        /\ lastFrame' = None /\ fbPc' = "stopped"
        /\ UNCHANGED <<grids, next, frameSize, patches, screen, dim, termSize, resizes, storing, spent, dirt>>
    BY DEF RunExit
  <1>2. next' = None
    BY <1>1 DEF FbInv, OwnInv
  <1>3. OwnInv'
    BY <1>1, <1>2, GivenBack
  <1>4. GridInv'
    BY <1>1 DEF FbInv, GridInv
  <1>5. SizeInv'
    BY <1>1 DEF FbInv, SizeInv
  <1>6. QuietInv'
    BY <1>1 DEF FbInv, QuietInv
  <1>7. ShownInv'
    BY <1>1 DEF FbInv, ShownInv
  <1>8. SendInv'
    BY <1>1 DEF FbInv, SendInv
  <1> QED BY <1>3, <1>4, <1>5, <1>6, <1>7, <1>8 DEF FbInv

LEMMA FbInvariant == FbSpec => []FbInv
  <1>1. FbInit => FbInv
    <2> SUFFICES ASSUME FbInit PROVE FbInv
      OBVIOUS
    <2>1. <<0, 0>> \in Sizes /\ <<>> \in Seq(Sizes) /\ <<>> \in Seq(Patches)
      BY DEF Sizes
    <2>2. OwnInv
      <3>1. spent \in [frames : 0..MaxFrames, draws : Nat, resizes : Nat] /\ spent.frames = 0
        <4>1. spent = [frames |-> 0, draws |-> 0, resizes |-> 0]
          BY Zenon DEF FbInit
        <4>2. 0 \in 0..MaxFrames /\ 0 \in Nat
          BY Limit
        <4> QED BY <4>1, <4>2
      <3>2. pool \in [Buckets -> SUBSET (1..spent.frames)] /\ \A b \in Buckets : pool[b] = {}
        BY DEF FbInit
      <3>3. GridOwnership
        BY <3>2 DEF FbInit, GridOwnership
      <3>4. lastFrame = 0 /\ next = 0 /\ fbPc = "init" /\ 0 \in 0..spent.frames
        <4>1. lastFrame = 0 /\ next = 0 /\ fbPc = "init"
          BY Zenon DEF FbInit, None
        <4>2. 0 \in 0..spent.frames
          BY <3>1
        <4> QED BY <4>1, <4>2
      <3> QED BY <3>1, <3>2, <3>3, <3>4 DEF OwnInv, FbPhases, None
    <2>3. GridInv
      <3>1. PICK g : g = NewGrid(<<0, 0>>)
        OBVIOUS
      <3>2. GridOk(g)
        BY <2>1, <3>1, NewGridOk
      <3>3. grids = [i \in 1..MaxFrames |-> g]
        BY <3>1 DEF FbInit
      <3> QED BY <3>2, <3>3 DEF FbInit, GridInv
    <2>4. SizeInv
      BY <2>1 DEF FbInit, SizeInv
    <2>5. QuietInv
      BY DEF FbInit, QuietInv
    <2>6. ShownInv
      BY DEF FbInit, ShownInv, None
    <2>7. SendInv
      BY <2>1 DEF FbInit, SendInv, Patches
    <2> QED BY <2>2, <2>3, <2>4, <2>5, <2>6, <2>7 DEF FbInv
  <1>2. FbInv /\ [FbNext]_fbVars => FbInv'
    <2> SUFFICES ASSUME FbInv, [FbNext]_fbVars PROVE FbInv'
      OBVIOUS
    <2>1. CASE UNCHANGED fbVars
      <3>1. UNCHANGED <<grids, pool, lastFrame, next, fbPc, frameSize, patches, screen,
            dim, termSize, resizes, storing, spent, dirt>>
        BY <2>1 DEF fbVars
      <3>2. OwnInv'
        <4>1. spent' \in [frames : 0..MaxFrames, draws : Nat, resizes : Nat] /\ spent'.frames = spent.frames
          BY <3>1 DEF FbInv, OwnInv
        <4> QED BY <3>1, <4>1, OwnStays
      <3>3. GridInv'
        BY <3>1, GridStays
      <3>4. SizeInv' /\ QuietInv'
        BY <3>1 DEF FbInv, SizeInv, QuietInv
      <3>5. ShownInv'
        <4>1. screen' = [p \in Surface |-> screen'[p]]
          BY <3>1 DEF FbInv, ShownInv
        <4> QED BY <3>1, <4>1, ShownStays
      <3>6. SendInv'
        BY <3>1, SendStays
      <3> QED BY <3>2, <3>3, <3>4, <3>5, <3>6 DEF FbInv
    <2> QED BY <2>1, DriverInitStep, TermResizeStep, PollStep, BeginStep, AcquireStep, DrawStep,
               DiffStep, ApplyStep, AdoptStep, PanicStep, ExitStep DEF FbNext, FbDone
  <1> QED BY <1>1, <1>2, PTL DEF FbSpec

(* Frames: no Grid is in use and in the pool at once, a Grid is blank when *)
(* it is handed out, whatever its array was used for and also when its     *)
(* generation has wrapped around, and between frames the terminal shows    *)
(* the last frame unless a panic or a resize came in between, for every    *)
(* set of sizes, every number of frames and every point of a panic.        *)
THEOREM FrameTheorem == FbSpec => FrameContract
  <1>1. FbInv => GridOwnership /\ ScreenShowsFrame
    <2> SUFFICES ASSUME FbInv PROVE GridOwnership /\ ScreenShowsFrame
      OBVIOUS
    <2>1. GridOwnership
      BY DEF FbInv, OwnInv
    <2>2. ScreenShowsFrame
      <3> SUFFICES ASSUME fbPc = "idle", lastFrame # None, NEW p \in Surface
                   PROVE  LET c == Cell(grids[lastFrame], p[1], p[2]) IN
                          /\ c \in Chars /\ dirt \subseteq {"redraw"} => screen[p] = c
                          /\ c = "zero" /\ dirt = {} => screen[p] = " "
        BY DEF ScreenShowsFrame
      <3>1. Clean => Shows(lastFrame)
        BY DEF FbInv, ShownInv
      <3>2. dirt = {} => Clean
        BY DEF Clean
      <3> QED BY <3>1, <3>2 DEF Shows, CellAt, Clean
    <2> QED BY <2>1, <2>2
  <1>2. FbInv /\ [FbNext]_fbVars =>
          [Acquire => \A p \in Surface : Cell(grids'[next'], p[1], p[2]) = "zero"]_fbVars
    <2> SUFFICES ASSUME FbInv, Acquire, NEW p \in Surface PROVE Cell(grids'[next'], p[1], p[2]) = "zero"
      OBVIOUS
    <2>1. PICK g : g = grids'[next']
      OBVIOUS
    <2>2. GridOk(g) /\ \A i \in Cells(g.size) : g.stamp[i] # g.gen
      BY <2>1, AcquireFacts
    <2> QED BY <2>1, <2>2, Blank DEF GridOk
  <1> QED BY <1>1, <1>2, FbInvariant, PTL DEF FrameContract, AcquiredBlank, FbSpec
-----------------------------------------------------------------------------
(* Concatenation of a sequence of sequences.                               *)

Joins(ss, m, g) ==
    /\ g[1] = ss[1]
    /\ \A i \in 2..m : g[i] = g[i-1] \o ss[i]

LEMMA JoinExists ==
    ASSUME NEW E, NEW ss \in Seq(Seq(E)), NEW N \in 1..Len(ss)
    PROVE  \E g \in [1..N -> Seq(E)] : Joins(ss, N, g)
  <1> DEFINE T == {m \in 1..Len(ss) : ~\E g \in [1..m -> Seq(E)] : Joins(ss, m, g)}
  <1>1. SUFFICES T = {}
    OBVIOUS
  <1>2. SUFFICES ASSUME T # {} PROVE FALSE
    OBVIOUS
  <1>3. T \subseteq Nat /\ Len(ss) \in Nat
    OBVIOUS
  <1>4. PICK m \in T : \A k \in T : m <= k
    BY <1>2, <1>3, LeastNat
  <1>5. m \in 1..Len(ss) /\ m \in Nat /\ ss[m] \in Seq(E)
    BY <1>3, <1>4
  <1>6. CASE m = 1
    <2>1. PICK g : g = [k \in 1..1 |-> ss[1]]
      OBVIOUS
    <2>2. g \in [1..1 -> Seq(E)] /\ g[1] = ss[1]
      BY <1>5, <1>6, <2>1
    <2>3. Joins(ss, 1, g)
      BY <2>2 DEF Joins
    <2> QED BY <1>4, <1>6, <2>2, <2>3
  <1>7. CASE m # 1
    <2>0. PICK n : n = Len(ss)
      OBVIOUS
    <2>a. m - 1 \in 1..n /\ m - 1 \in 1..(m - 1) /\ ~(m <= m - 1)
      BY <1>3, <1>5, <1>7, <2>0
    <2>1. m - 1 \in 1..Len(ss) /\ m - 1 \notin T /\ m - 1 \in 1..(m - 1)
      BY <1>4, <2>0, <2>a
    <2>2. PICK g \in [1..(m - 1) -> Seq(E)] : Joins(ss, m - 1, g)
      BY <2>1
    <2>3. PICK x : x = g[m-1] \o ss[m]
      OBVIOUS
    <2>4. x \in Seq(E)
      BY <1>5, <2>1, <2>2, <2>3, ConcatProperties
    <2>5. PICK h : h = [k \in 1..m |-> IF k = m THEN x ELSE g[k]]
      OBVIOUS
    <2>6. /\ h \in [1..m -> Seq(E)] /\ h[m] = x
          /\ \A k \in 1..(m - 1) : h[k] = g[k]
      BY <1>5, <1>7, <2>2, <2>4, <2>5
    <2>7. Joins(ss, m, h)
      <3>1. h[1] = ss[1]
        BY <1>5, <1>7, <2>1, <2>2, <2>6 DEF Joins
      <3>2. ASSUME NEW k \in 2..m PROVE h[k] = h[k-1] \o ss[k]
        <4>1. CASE k = m
          BY <2>1, <2>3, <2>6, <4>1
        <4>2. CASE k # m
          <5>1. k \in 2..(m-1) /\ k \in 1..(m-1) /\ k-1 \in 1..(m-1)
            BY <1>5, <3>2, <4>2
          <5>2. h[k] = g[k] /\ h[k-1] = g[k-1]
            BY <2>6, <5>1
          <5> QED BY <2>2, <5>1, <5>2 DEF Joins
        <4> QED BY <4>1, <4>2
      <3> QED BY <3>1, <3>2 DEF Joins
    <2> QED BY <1>4, <2>6, <2>7
  <1> QED BY <1>6, <1>7

LEMMA JoinUnique ==
    ASSUME NEW a, NEW b, NEW N \in Nat \ {0}, NEW g, NEW h, Joins(a, N, g), Joins(b, N, h), Agree(a, b, N)
    PROVE  g[N] = h[N]
  <1> DEFINE T == {m \in 1..N : g[m] # h[m]}
  <1>1. T = {}
    <2> SUFFICES ASSUME T # {} PROVE FALSE
      OBVIOUS
    <2>1. T \subseteq Nat
      OBVIOUS
    <2>2. PICK m \in T : \A k \in T : m <= k
      BY <2>1, LeastNat
    <2>0. \A i \in 1..N : a[i] = b[i]
      BY DEF Agree
    <2>3. m \in 1..N /\ m # 1
      BY <2>0 DEF Joins
    <2>4. m \in 2..N /\ m - 1 \in 1..N /\ m - 1 \notin T
      BY <2>2, <2>3
    <2>5. g[m - 1] = h[m - 1] /\ a[m] = b[m]
      BY <2>0, <2>4
    <2> QED BY <2>4, <2>5 DEF Joins
  <1>2. N \in 1..N
    OBVIOUS
  <1> QED BY <1>1, <1>2

LEMMA FlattenJoin ==
    ASSUME NEW E, NEW ss \in Seq(Seq(E)), Len(ss) # 0
    PROVE  \E g \in [1..Len(ss) -> Seq(E)] : Joins(ss, Len(ss), g) /\ FlattenSeq(ss) = g[Len(ss)]
  <1> DEFINE N == Len(ss)
             f == CHOOSE f : f = [i \in 1..N |-> IF i = 1 THEN ss[i] ELSE f[i-1] \o ss[i]]
  <1>0. N \in Nat \ {0} /\ N \in 1..Len(ss)
    OBVIOUS
  <1>1. PICK g \in [1..N -> Seq(E)] : Joins(ss, N, g)
    BY <1>0, JoinExists
  <1>2. g = [i \in 1..N |-> IF i = 1 THEN ss[i] ELSE g[i-1] \o ss[i]]
    <2>1. ASSUME NEW i \in 1..N PROVE g[i] = IF i = 1 THEN ss[i] ELSE g[i-1] \o ss[i]
      <3>1. i = 1 \/ i \in 2..N
        BY <1>0
      <3> QED BY <1>1, <3>1 DEF Joins
    <2> QED BY <2>1
  <1>3. f = [i \in 1..N |-> IF i = 1 THEN ss[i] ELSE f[i-1] \o ss[i]]
    BY <1>2
  <1>4. FlattenSeq(ss) = f[N]
    BY DEF FlattenSeq
  <1> HIDE DEF f
  <1>5. Joins(ss, N, f)
    <2>1. f[1] = ss[1]
      BY <1>0, <1>3
    <2>2. ASSUME NEW i \in 2..N PROVE f[i] = f[i-1] \o ss[i]
      <3>1. i \in 1..N /\ i # 1
        BY <1>0
      <3> QED BY <1>3, <3>1
    <2> QED BY <2>1, <2>2 DEF Joins
  <1>6. f[N] = g[N]
    <2>1. Agree(ss, ss, N)
      BY DEF Agree
    <2> QED BY <1>0, <1>1, <1>5, <2>1, JoinUnique
  <1> QED BY <1>1, <1>4, <1>6

LEMMA FlattenEmpty == FlattenSeq(<<>>) = <<>>
  BY DEF FlattenSeq

LEMMA FlattenAppend ==
    ASSUME NEW E, NEW ss \in Seq(Seq(E)), NEW x \in Seq(E)
    PROVE  FlattenSeq(ss) \in Seq(E) /\ FlattenSeq(Append(ss, x)) = FlattenSeq(ss) \o x
  <1>0. PICK N, more : N = Len(ss) /\ more = Append(ss, x)
    OBVIOUS
  <1>1. /\ N \in Nat /\ more \in Seq(Seq(E)) /\ Len(more) = N + 1 /\ more[N + 1] = x
        /\ \A i \in 1..N : more[i] = ss[i]
    BY <1>0
  <1>2. PICK h \in [1..(N + 1) -> Seq(E)] : Joins(more, N + 1, h) /\ FlattenSeq(more) = h[N + 1]
    <2>1. Len(more) = N + 1 /\ Len(more) # 0 /\ more \in Seq(Seq(E))
      BY <1>1
    <2> QED BY <2>1, FlattenJoin
  <1>3. CASE N = 0
    <2>1. ss = <<>>
      BY <1>0, <1>3, EmptySeq
    <2>2. FlattenSeq(ss) = <<>> /\ <<>> \in Seq(E)
      BY <2>1, FlattenEmpty
    <2>3. FlattenSeq(more) = x
      BY <1>1, <1>2, <1>3 DEF Joins
    <2>4. <<>> \o x = x
      BY ConcatEmptySeq
    <2> QED BY <1>0, <2>2, <2>3, <2>4
  <1>4. CASE N # 0
    <2>1. PICK g \in [1..N -> Seq(E)] : Joins(ss, N, g) /\ FlattenSeq(ss) = g[N]
      BY <1>0, <1>4, FlattenJoin
    <2>2. Joins(more, N, h)
      <3>1. \A i \in 2..N : i \in 2..(N + 1)
        BY <1>1
      <3> QED BY <1>2, <3>1 DEF Joins
    <2>3. Agree(ss, more, N) /\ N \in Nat \ {0}
      BY <1>1, <1>4 DEF Agree
    <2>4. g[N] = h[N]
      BY <2>1, <2>2, <2>3, JoinUnique
    <2>5. N + 1 \in 2..(N + 1) /\ (N + 1) - 1 = N /\ N \in 1..N
      BY <1>1, <1>4
    <2>6. h[N + 1] = h[N] \o x
      BY <1>1, <1>2, <2>5 DEF Joins
    <2> QED BY <1>0, <1>2, <2>1, <2>4, <2>5, <2>6
  <1> QED BY <1>3, <1>4

-----------------------------------------------------------------------------
(* The rows of a tool block.                                               *)

Expanded(a) == IF a.says = "lines" THEN <<a, Row("none", "lines")>> ELSE <<a>>

LEMMA PairAppend == ASSUME NEW a, NEW b PROVE Append(<<a>>, b) = <<a, b>>
  <1>1. PICK E, x, y : E = {a, b} /\ x = Append(<<a>>, b) /\ y = <<a, b>>
    OBVIOUS
  <1>2. <<a>> \in Seq(E) /\ b \in E /\ Len(<<a>>) = 1 /\ <<a>>[1] = a
    BY <1>1
  <1>3. x \in Seq(E) /\ Len(x) = 2 /\ x[1] = a /\ x[2] = b
    BY <1>1, <1>2, AppendProperties
  <1>4. y \in Seq(E) /\ Len(y) = 2 /\ y[1] = a /\ y[2] = b
    BY <1>1
  <1>5. \A i \in 1..Len(x) : x[i] = y[i]
    BY <1>3, <1>4
  <1> QED BY <1>1, <1>3, <1>4, <1>5, SeqEqual

LEMMA ExpandedRow ==
    ASSUME NEW a, NEW E, a \in E, Row("none", "lines") \in E
    PROVE  Expanded(a) \in Seq(E) /\ Len(Expanded(a)) \in {1, 2} /\ Expanded(a)[1] = a
  <1>1. PICK l : l = Row("none", "lines")
    OBVIOUS
  <1>2. <<a, l>> \in Seq(E) /\ Len(<<a, l>>) = 2 /\ <<a, l>>[1] = a
    BY <1>1
  <1>3. <<a>> \in Seq(E) /\ Len(<<a>>) = 1 /\ <<a>>[1] = a
    OBVIOUS
  <1>4. Expanded(a) = <<a, l>> \/ Expanded(a) = <<a>>
    BY <1>1 DEF Expanded
  <1> QED BY <1>2, <1>3, <1>4

(* No row is lost when rows are expanded.                                  *)
LEMMA ExpandOne ==
    ASSUME NEW a
    PROVE  \E i \in DOMAIN expandBlockRows(<<a>>) : expandBlockRows(<<a>>)[i] = a
  <1>1. PICK E, X, none, l : /\ l = Row("none", "lines") /\ E = {a, l} /\ X = Expanded(a) /\ none = <<>>
    OBVIOUS
  <1>2. X \in Seq(E) /\ 1 \in DOMAIN X /\ X[1] = a
    <2>1. a \in E /\ Row("none", "lines") \in E
      BY <1>1
    <2>2. X \in Seq(E) /\ Len(X) \in {1, 2} /\ X[1] = a
      BY <1>1, <2>1, ExpandedRow
    <2> QED BY <2>2
  <1>3. expandBlockRows(<<a>>) = FlattenSeq(<<X>>)
    <2>1. [i \in DOMAIN <<a>> |-> IF <<a>>[i].says = "lines" THEN <<<<a>>[i], Row("none", "lines")>> ELSE <<<<a>>[i]>>] = <<X>>
      BY <1>1 DEF Expanded
    <2> QED BY <2>1 DEF expandBlockRows
  <1>4. none \in Seq(Seq(E)) /\ Append(none, X) = <<X>>
    BY <1>1, <1>2
  <1>5. FlattenSeq(<<X>>) = FlattenSeq(none) \o X
    BY <1>2, <1>4, FlattenAppend
  <1>6. FlattenSeq(<<X>>) = X
    BY <1>1, <1>2, <1>5, FlattenEmpty, ConcatEmptySeq
  <1> QED BY <1>2, <1>3, <1>6

LEMMA ExpandTwo ==
    ASSUME NEW a, NEW b
    PROVE  /\ \E i \in DOMAIN expandBlockRows(<<a, b>>) : expandBlockRows(<<a, b>>)[i] = a
           /\ \E i \in DOMAIN expandBlockRows(<<a, b>>) : expandBlockRows(<<a, b>>)[i] = b
  <1>1. PICK E, X, Y, none, l : /\ l = Row("none", "lines") /\ E = {a, b, l}
                                /\ X = Expanded(a) /\ Y = Expanded(b) /\ none = <<>>
    OBVIOUS
  <1>2. /\ X \in Seq(E) /\ Len(X) \in Nat /\ 1 \in 1..Len(X) /\ X[1] = a
        /\ Y \in Seq(E) /\ Len(Y) \in Nat /\ 1 \in 1..Len(Y) /\ Y[1] = b
    <2>1. a \in E /\ b \in E /\ Row("none", "lines") \in E
      BY <1>1
    <2>2. X \in Seq(E) /\ Len(X) \in {1, 2} /\ X[1] = a
      BY <1>1, <2>1, ExpandedRow
    <2>3. Y \in Seq(E) /\ Len(Y) \in {1, 2} /\ Y[1] = b
      BY <1>1, <2>1, ExpandedRow
    <2> QED BY <2>2, <2>3
  <1>3. expandBlockRows(<<a, b>>) = FlattenSeq(<<X, Y>>)
    <2>1. [i \in DOMAIN <<a, b>> |-> IF <<a, b>>[i].says = "lines" THEN <<<<a, b>>[i], Row("none", "lines")>> ELSE <<<<a, b>>[i]>>] = <<X, Y>>
      BY <1>1 DEF Expanded
    <2> QED BY <2>1 DEF expandBlockRows
  <1>4. none \in Seq(Seq(E)) /\ Append(none, X) = <<X>>
    BY <1>1, <1>2
  <1>5. <<X>> \in Seq(Seq(E)) /\ Append(<<X>>, Y) = <<X, Y>>
    <2>1. <<X>> \in Seq(Seq(E))
      BY <1>2
    <2> QED BY <2>1, PairAppend
  <1>6. FlattenSeq(<<X>>) = X
    <2>1. FlattenSeq(<<X>>) = FlattenSeq(none) \o X
      BY <1>2, <1>4, FlattenAppend
    <2> QED BY <1>1, <1>2, <2>1, FlattenEmpty, ConcatEmptySeq
  <1>7. FlattenSeq(<<X, Y>>) = X \o Y
    BY <1>2, <1>5, <1>6, FlattenAppend
  <1>8. PICK Z, n : Z = X \o Y /\ n = Len(X)
    OBVIOUS
  <1>9. /\ DOMAIN Z = 1..(n + Len(Y)) /\ Z[1] = a /\ Z[n + 1] = b
    BY <1>2, <1>8, ConcatProperties
  <1>10. 1 \in DOMAIN Z /\ n + 1 \in DOMAIN Z
    BY <1>2, <1>8, <1>9
  <1> QED BY <1>3, <1>7, <1>8, <1>9, <1>10

UseNodes == [kind : {"use"}, id : ToolIds, name : Tools, state : {"queued", "running", "resolved", "error"}]
ResultNodes == [kind : {"result"}, id : ToolIds, name : Tools, content : Contents, isError : BOOLEAN,
                cached : BOOLEAN, state : {"success", "error", "rejected", "canceled"}]

(* What a result shows, whatever adapter renders it.                       *)
Shown(t, v) ==
    LET seen == {NodeRows(t, v)[i].ind : i \in DOMAIN NodeRows(t, v)} IN
    /\ t.content = "cancel" => "stop" \in seen
    /\ t.content \in {"reject", "interrupt"} => "barred" \in seen
    /\ (t.isError /\ t.content \notin {"cancel", "reject", "interrupt"}) => "cross" \in seen
    /\ t.cached => \E i \in DOMAIN NodeRows(t, v) : NodeRows(t, v)[i].says = "(cached)"

LEMMA ResultShown ==
    ASSUME NEW t, t.kind = "result", t.cached \in BOOLEAN,
           t.state = deriveResultState(t.content, t.isError), t.isError \in BOOLEAN, NEW v
    PROVE  Shown(t, v)
  <1>1. PICK st, rows, c : /\ st = t.state /\ rows = collectStateRows(t, v) /\ c = Row("none", "(cached)")
    OBVIOUS
  <1>2. c.says = "(cached)"
    BY <1>1 DEF Row
  <1>3. st \in {"success", "error", "rejected", "canceled"}
    BY <1>1 DEF deriveResultState
  <1>4. /\ t.content = "cancel" => st = "canceled"
        /\ t.content \in {"reject", "interrupt"} => st = "rejected"
        /\ (t.isError /\ t.content \notin {"cancel", "reject", "interrupt"}) => st = "error"
    <2>1. CASE t.isError = TRUE
      BY <1>1, <2>1 DEF deriveResultState
    <2>2. CASE t.isError = FALSE
      BY <1>1, <2>2 DEF deriveResultState
    <2> QED BY <2>1, <2>2
  <1>5. PICK row : rows = <<>> \/ rows = <<row>>
    BY <1>1, <1>3 DEF collectStateRows
  <1>6. rows # <<>> => row.ind = resultIndicator(st)
    BY <1>1, <1>3, <1>5 DEF collectStateRows, Row
  <1>7. st # "success" => rows # <<>>
    BY <1>1, <1>3 DEF collectStateRows
  <1>8. PICK all : all = NodeRows(t, v)
    OBVIOUS
  <1>9. all = expandBlockRows(IF t.cached THEN Append(rows, c) ELSE rows)
    BY <1>1, <1>8 DEF NodeRows, collectRows
  <1>10. rows # <<>> => \E i \in DOMAIN all : all[i] = row
    <2>1. CASE rows = <<row>> /\ t.cached
      <3>1. Append(rows, c) = <<row, c>>
        BY <2>1, PairAppend
      <3>2. all = expandBlockRows(<<row, c>>)
        BY <1>9, <2>1, <3>1
      <3> QED BY <3>2, ExpandTwo
    <2>2. CASE rows = <<row>> /\ ~t.cached
      BY <1>9, <2>2, ExpandOne
    <2> QED BY <1>5, <2>1, <2>2
  <1>11. t.cached => \E i \in DOMAIN all : all[i] = c
    <2>1. CASE rows = <<row>> /\ t.cached
      <3>1. Append(rows, c) = <<row, c>>
        BY <2>1, PairAppend
      <3>2. all = expandBlockRows(<<row, c>>)
        BY <1>9, <2>1, <3>1
      <3> QED BY <3>2, ExpandTwo
    <2>2. CASE rows = <<>> /\ t.cached
      <3>1. Append(rows, c) = <<c>>
        BY <2>2
      <3> QED BY <1>9, <2>2, <3>1, ExpandOne
    <2> QED BY <1>5, <2>1, <2>2
  <1>12. st # "success" => \E i \in DOMAIN all : all[i].ind = resultIndicator(st)
    BY <1>6, <1>7, <1>10
  <1>13. resultIndicator("canceled") = "stop" /\ resultIndicator("rejected") = "barred" /\ resultIndicator("error") = "cross"
    BY DEF resultIndicator
  <1>14. PICK seen : seen = {all[i].ind : i \in DOMAIN all}
    OBVIOUS
  <1>15. st # "success" => resultIndicator(st) \in seen
    BY <1>12, <1>14
  <1> QED BY <1>2, <1>4, <1>8, <1>11, <1>13, <1>14, <1>15 DEF Shown

-----------------------------------------------------------------------------
(* The nodes of the transcript, for every history of calls and results.    *)
Nodes == UseNodes \cup ResultNodes
TbTyped == toolNodes \in Seq(Nodes) /\ names \in [ToolIds -> Tools \cup {"unknown"}]

(* A result keeps the state derived from what it was made of.              *)
StatesDerived ==
    \A j \in DOMAIN toolNodes : toolNodes[j].kind = "result" =>
        toolNodes[j].state = deriveResultState(toolNodes[j].content, toolNodes[j].isError)

(* An open call is the last one with its id.                               *)
OpenIsLast ==
    \A i, k \in DOMAIN toolNodes :
        (/\ toolNodes[i].kind = "use" /\ toolNodes[i].state = "running"
         /\ toolNodes[k].kind = "use" /\ toolNodes[k].id = toolNodes[i].id) => k <= i

(* The last call with an id is the one whose name the id stands for.       *)
LastIsNamed ==
    \A i \in DOMAIN toolNodes :
        (/\ toolNodes[i].kind = "use"
         /\ \A k \in DOMAIN toolNodes :
                toolNodes[k].kind = "use" /\ toolNodes[k].id = toolNodes[i].id => k <= i)
        => toolNodes[i].name = names[toolNodes[i].id]

TbInv == TbTyped /\ StatesDerived /\ OpenIsLast /\ LastIsNamed /\ HeaderAgreesWithResult

LEMMA TbInitial == TbInit => TbInv
  <1> SUFFICES ASSUME TbInit PROVE TbInv
    OBVIOUS
  <1>1. toolNodes = <<>> /\ DOMAIN toolNodes = {} /\ toolNodes \in Seq(Nodes)
    BY DEF TbInit
  <1>2. names \in [ToolIds -> Tools \cup {"unknown"}]
    BY DEF TbInit
  <1> QED BY <1>1, <1>2 DEF TbInv, TbTyped, StatesDerived, OpenIsLast, LastIsNamed, HeaderAgreesWithResult

LEMMA ToolUseStep ==
    ASSUME TbInv, NEW id \in ToolIds, NEW name \in Tools, ToolUseMsg(id, name)
    PROVE  TbInv'
  <1>1. PICK n, e : n = Len(toolNodes) /\ e = [kind |-> "use", id |-> id, name |-> name, state |-> "running"]
    OBVIOUS
  <1>2. e \in Nodes /\ e.kind = "use" /\ e.id = id /\ e.name = name /\ e.state = "running"
    BY <1>1 DEF Nodes, UseNodes
  <1>3. toolNodes' = Append(toolNodes, e) /\ names' = [names EXCEPT ![id] = name]
    BY <1>1 DEF ToolUseMsg, NewToolUse
  <1>4. toolNodes \in Seq(Nodes) /\ names \in [ToolIds -> Tools \cup {"unknown"}]
    BY DEF TbInv, TbTyped
  <1>5. /\ n \in Nat /\ toolNodes' \in Seq(Nodes)
        /\ DOMAIN toolNodes = 1..n /\ DOMAIN toolNodes' = 1..(n + 1)
        /\ \A i \in 1..n : toolNodes'[i] = toolNodes[i]
        /\ toolNodes'[n + 1] = e
    BY <1>1, <1>2, <1>3, <1>4, AppendProperties
  <1>6. /\ \A i \in 1..(n + 1) : i \in 1..n \/ i = n + 1
        /\ \A i \in 1..n : i \in 1..(n + 1) /\ i \in Nat /\ i <= n + 1 /\ ~(n + 1 <= i)
        /\ n + 1 \in 1..(n + 1) /\ n + 1 <= n + 1
    BY <1>5
  <1>7. \A i \in 1..n : toolNodes[i] \in Nodes /\ toolNodes[i].id \in ToolIds
    BY <1>4, <1>5 DEF Nodes, UseNodes, ResultNodes
  <1>8. TbTyped'
    BY <1>3, <1>4, <1>5 DEF TbTyped
  <1>9. StatesDerived'
    BY <1>2, <1>5, <1>6, Zenon DEF TbInv, StatesDerived
  <1>10. OpenIsLast'
    <2>1. \A i \in 1..n : toolNodes[i].kind = "use" /\ toolNodes[i].id = id => toolNodes[i].state # "running"
      BY <1>5 DEF ToolUseMsg, Open, Uses
    <2>2. SUFFICES ASSUME NEW i \in 1..(n + 1), NEW k \in 1..(n + 1),
                          toolNodes'[i].kind = "use", toolNodes'[i].state = "running",
                          toolNodes'[k].kind = "use", toolNodes'[k].id = toolNodes'[i].id
                   PROVE  k <= i
      BY <1>5, Zenon DEF OpenIsLast
    <2>3. CASE i = n + 1
      BY <1>6, <2>3
    <2>4. CASE i \in 1..n /\ k \in 1..n
      BY <1>5, <2>2, <2>4 DEF TbInv, OpenIsLast
    <2>5. CASE i \in 1..n /\ k = n + 1
      BY <1>2, <1>5, <2>1, <2>2, <2>5
    <2> QED BY <1>6, <2>3, <2>4, <2>5
  <1>11. LastIsNamed'
    <2>2. SUFFICES ASSUME NEW i \in 1..(n + 1), toolNodes'[i].kind = "use",
                          \A k \in 1..(n + 1) :
                             toolNodes'[k].kind = "use" /\ toolNodes'[k].id = toolNodes'[i].id => k <= i
                   PROVE  toolNodes'[i].name = names'[toolNodes'[i].id]
      BY <1>5, Zenon DEF LastIsNamed
    <2>3. CASE i = n + 1
      BY <1>2, <1>3, <1>4, <1>5, <2>3
    <2>4. CASE i \in 1..n
      <3>1. toolNodes[i].id # id
        BY <1>2, <1>5, <1>6, <2>2, <2>4
      <3>2. \A k \in 1..n : toolNodes[k].kind = "use" /\ toolNodes[k].id = toolNodes[i].id => k <= i
        BY <1>5, <1>6, <2>2, <2>4
      <3>3. toolNodes[i].name = names[toolNodes[i].id]
        BY <1>5, <2>2, <2>4, <3>2 DEF TbInv, LastIsNamed
      <3> QED BY <1>3, <1>4, <1>5, <1>7, <2>4, <3>1, <3>3
    <2> QED BY <1>6, <2>3, <2>4
  <1>12. HeaderAgreesWithResult'
    <2>1. SUFFICES ASSUME NEW i \in 1..(n + 1), NEW j \in 1..(n + 1), i < j,
                          toolNodes'[i].kind = "use", toolNodes'[j].kind = "result",
                          toolNodes'[i].id = toolNodes'[j].id,
                          ~\E k \in (i+1)..(j-1) : toolNodes'[k].kind = "use" /\ toolNodes'[k].id = toolNodes'[i].id
                   PROVE  /\ toolNodes'[i].state = IF toolNodes'[j].isError THEN "error" ELSE "resolved"
                          /\ toolNodes'[i].name = toolNodes'[j].name
      BY <1>5, Zenon DEF HeaderAgreesWithResult
    <2>2. j \in 1..n /\ i \in 1..n
      <3>1. j # n + 1
        BY <1>2, <1>5, <2>1
      <3> QED BY <1>5, <2>1, <3>1
    <2>3. \A k \in (i+1)..(j-1) : k \in 1..n
      BY <1>5, <2>2
    <2>4. ~\E k \in (i+1)..(j-1) : toolNodes[k].kind = "use" /\ toolNodes[k].id = toolNodes[i].id
      BY <1>5, <2>1, <2>2, <2>3, Zenon
    <2>5. toolNodes'[i] = toolNodes[i] /\ toolNodes'[j] = toolNodes[j]
      BY <1>5, <2>2
    <2>6. toolNodes[i].kind = "use" /\ toolNodes[j].kind = "result" /\ toolNodes[i].id = toolNodes[j].id
      BY <2>1, <2>5, Zenon
    <2>7. /\ toolNodes[i].state = IF toolNodes[j].isError THEN "error" ELSE "resolved"
          /\ toolNodes[i].name = toolNodes[j].name
      <3>1. HeaderAgreesWithResult
        BY DEF TbInv
      <3>2. i \in DOMAIN toolNodes /\ j \in DOMAIN toolNodes /\ i < j
        BY <1>5, <2>1, <2>2
      <3> QED BY <2>4, <2>6, <3>1, <3>2, Zenon DEF HeaderAgreesWithResult
    <2> QED BY <2>5, <2>7
  <1> QED BY <1>8, <1>9, <1>10, <1>11, <1>12 DEF TbInv

(* A result settles the open call with its id, and no other node changes.  *)
LEMMA ResultSettles ==
    ASSUME TbInv, NEW id \in ToolIds, NEW content \in Contents, NEW isError \in BOOLEAN, NEW cached \in BOOLEAN,
           ToolResultMsg(id, content, isError, cached), names[id] # "unknown",
           NEW n, n = Len(toolNodes), NEW e, e = NewToolResult(id, names[id], content, isError, cached)
    PROVE  \E m \in 1..n :
             /\ toolNodes[m].kind = "use" /\ toolNodes[m].id = id /\ toolNodes[m].state = "running"
             /\ toolNodes' \in Seq(Nodes) /\ DOMAIN toolNodes' = 1..(n + 1) /\ toolNodes'[n + 1] = e
             /\ \A i \in 1..n : i # m => toolNodes'[i] = toolNodes[i]
             /\ toolNodes'[m] = [toolNodes[m] EXCEPT !.state = IF isError THEN "error" ELSE "resolved"]
  <1>1. toolNodes \in Seq(Nodes) /\ names \in [ToolIds -> Tools \cup {"unknown"}] /\ n \in Nat /\ DOMAIN toolNodes = 1..n
    BY DEF TbInv, TbTyped
  <1>2. PICK m \in 1..n : toolNodes[m].kind = "use" /\ toolNodes[m].id = id /\ toolNodes[m].state = "running"
    BY <1>1 DEF ToolResultMsg, Open, Uses
  <1>3. m \in Uses(id) /\ Uses(id) \subseteq 1..n
    BY <1>1, <1>2 DEF Uses
  <1>4. \A k \in Uses(id) : k <= m
    BY <1>1, <1>2 DEF TbInv, OpenIsLast, Uses
  <1>5. (CHOOSE i \in Uses(id) : \A j \in Uses(id) : i >= j) = m
    <2>1. PICK c : c = CHOOSE i \in Uses(id) : \A j \in Uses(id) : i >= j
      OBVIOUS
    <2>2. \E i \in Uses(id) : \A j \in Uses(id) : i >= j
      BY <1>3, <1>4
    <2>3. c \in Uses(id) /\ \A j \in Uses(id) : c >= j
      BY <2>1, <2>2
    <2>4. c >= m /\ c <= m /\ c \in Nat /\ m \in Nat
      BY <1>3, <1>4, <2>3
    <2> QED BY <2>1, <2>4
  <1>6. PICK st, u, mid : /\ st = (IF isError THEN "error" ELSE "resolved")
                          /\ u = [toolNodes[m] EXCEPT !.state = st]
                          /\ mid = [toolNodes EXCEPT ![m] = u]
    OBVIOUS
  <1>7. transitionToolUseState(id, st) = mid
    <2>1. Uses(id) # {}
      BY <1>3
    <2> QED BY <1>5, <1>6, <2>1 DEF transitionToolUseState
  <1>8. u \in Nodes
    <2>1. toolNodes[m] \in Nodes
      BY <1>1, <1>2
    <2>2. toolNodes[m] \in UseNodes
      BY <1>2, <2>1 DEF Nodes, ResultNodes
    <2>3. st \in {"error", "resolved"}
      BY <1>6
    <2> QED BY <1>6, <2>2, <2>3 DEF Nodes, UseNodes
  <1>9. mid \in Seq(Nodes) /\ Len(mid) = n /\ mid[m] = u /\ \A i \in 1..n : i # m => mid[i] = toolNodes[i]
    BY <1>1, <1>2, <1>6, <1>8
  <1>10. e \in Nodes
    <2>1. names[id] \in Tools
      BY <1>1
    <2>2. deriveResultState(content, isError) \in {"success", "error", "rejected", "canceled"}
      BY DEF deriveResultState
    <2> QED BY <2>1, <2>2 DEF NewToolResult, Nodes, ResultNodes
  <1>11. toolNodes' = Append(mid, e)
    BY <1>6, <1>7, Zenon DEF ToolResultMsg
  <1>12. /\ toolNodes' \in Seq(Nodes) /\ DOMAIN toolNodes' = 1..(n + 1) /\ toolNodes'[n + 1] = e
         /\ \A i \in 1..n : toolNodes'[i] = mid[i]
    BY <1>1, <1>9, <1>10, <1>11, AppendProperties
  <1>13. m \in 1..(n + 1) /\ toolNodes'[m] = u /\ \A i \in 1..n : i # m => toolNodes'[i] = toolNodes[i]
    BY <1>1, <1>9, <1>12
  <1>14. toolNodes'[m] = [toolNodes[m] EXCEPT !.state = IF isError THEN "error" ELSE "resolved"]
    BY <1>6, <1>13, Zenon
  <1> QED BY <1>2, <1>12, <1>13, <1>14, Zenon

LEMMA ToolResultStep ==
    ASSUME TbInv, NEW id \in ToolIds, NEW content \in Contents, NEW isError \in BOOLEAN, NEW cached \in BOOLEAN,
           ToolResultMsg(id, content, isError, cached)
    PROVE  TbInv'
  <1>1. CASE names[id] = "unknown"
    <2>1. toolNodes' = toolNodes /\ names' = names
      BY <1>1 DEF ToolResultMsg
    <2> QED BY <2>1 DEF TbInv, TbTyped, StatesDerived, OpenIsLast, LastIsNamed, HeaderAgreesWithResult
  <1>2. CASE names[id] # "unknown"
    <2>1. PICK n, e, st : /\ n = Len(toolNodes) /\ e = NewToolResult(id, names[id], content, isError, cached)
                          /\ st = (IF isError THEN "error" ELSE "resolved")
      OBVIOUS
    <2>2. PICK m \in 1..n :
             /\ toolNodes[m].kind = "use" /\ toolNodes[m].id = id /\ toolNodes[m].state = "running"
             /\ toolNodes' \in Seq(Nodes) /\ DOMAIN toolNodes' = 1..(n + 1) /\ toolNodes'[n + 1] = e
             /\ \A i \in 1..n : i # m => toolNodes'[i] = toolNodes[i]
             /\ toolNodes'[m] = [toolNodes[m] EXCEPT !.state = st]
      BY <1>2, <2>1, ResultSettles
    <2>3. /\ e.kind = "result" /\ e.id = id /\ e.name = names[id] /\ e.isError = isError /\ e.content = content
          /\ e.state = deriveResultState(content, isError)
      BY <2>1 DEF NewToolResult
    <2>4. toolNodes \in Seq(Nodes) /\ n \in Nat /\ DOMAIN toolNodes = 1..n /\ names' = names
      BY <2>1 DEF TbInv, TbTyped, ToolResultMsg
    <2>5. /\ \A i \in 1..(n + 1) : i \in 1..n \/ i = n + 1
          /\ \A i \in 1..n : i \in 1..(n + 1) /\ i \in Nat
      BY <2>4
    <2>6. toolNodes[m] \in UseNodes
      <3>1. toolNodes[m] \in Nodes
        BY <2>2, <2>4
      <3> QED BY <2>2, <3>1 DEF Nodes, ResultNodes
    <2>7. /\ toolNodes'[m].kind = "use" /\ toolNodes'[m].id = id /\ toolNodes'[m].name = toolNodes[m].name
          /\ toolNodes'[m].state = st
      BY <2>2, <2>6 DEF UseNodes
    <2>8. st # "running"
      BY <2>1
    <2>9. \A i \in 1..n : /\ toolNodes'[i].kind = toolNodes[i].kind /\ toolNodes'[i].id = toolNodes[i].id
                          /\ toolNodes'[i].name = toolNodes[i].name
      BY <2>2, <2>7, Zenon
    <2>10. TbTyped'
      BY <2>2, <2>4 DEF TbInv, TbTyped
    <2>11. StatesDerived'
      <3>1. SUFFICES ASSUME NEW j \in 1..(n + 1), toolNodes'[j].kind = "result"
                     PROVE  toolNodes'[j].state = deriveResultState(toolNodes'[j].content, toolNodes'[j].isError)
        BY <2>2, Zenon DEF StatesDerived
      <3>2. CASE j = n + 1
        <4>1. toolNodes'[j] = e
          BY <2>2, <3>2, Zenon
        <4> QED BY <2>3, <4>1, Zenon
      <3>3. CASE j \in 1..n
        <4>1. j # m
          BY <2>7, <3>1
        <4>2. toolNodes'[j] = toolNodes[j]
          BY <2>2, <3>3, <4>1, Zenon
        <4>3. StatesDerived /\ j \in DOMAIN toolNodes /\ toolNodes[j].kind = "result"
          BY <2>4, <3>1, <3>3, <4>2 DEF TbInv
        <4> QED BY <4>2, <4>3, Zenon DEF StatesDerived
      <3> QED BY <2>5, <3>2, <3>3, Zenon
    <2>12. OpenIsLast'
      <3>1. SUFFICES ASSUME NEW i \in 1..(n + 1), NEW k \in 1..(n + 1),
                            toolNodes'[i].kind = "use", toolNodes'[i].state = "running",
                            toolNodes'[k].kind = "use", toolNodes'[k].id = toolNodes'[i].id
                     PROVE  k <= i
        BY <2>2, Zenon DEF OpenIsLast
      <3>2. i # n + 1 /\ k # n + 1 /\ i # m
        BY <2>2, <2>3, <2>7, <2>8, <3>1
      <3>3. i \in 1..n /\ k \in 1..n
        BY <2>5, <3>2
      <3>4. toolNodes[i].kind = "use" /\ toolNodes[i].state = "running" /\ toolNodes[k].kind = "use" /\ toolNodes[k].id = toolNodes[i].id
        BY <2>2, <2>9, <3>1, <3>2, <3>3
      <3> QED BY <2>4, <3>3, <3>4 DEF TbInv, OpenIsLast
    <2>13. LastIsNamed'
      <3>1. SUFFICES ASSUME NEW i \in 1..(n + 1), toolNodes'[i].kind = "use",
                            \A k \in 1..(n + 1) :
                               toolNodes'[k].kind = "use" /\ toolNodes'[k].id = toolNodes'[i].id => k <= i
                     PROVE  toolNodes'[i].name = names'[toolNodes'[i].id]
        BY <2>2, Zenon DEF LastIsNamed
      <3>2. i \in 1..n
        BY <2>2, <2>3, <2>5, <3>1
      <3>3. \A k \in 1..n : toolNodes[k].kind = "use" /\ toolNodes[k].id = toolNodes[i].id => k <= i
        BY <2>5, <2>9, <3>1, <3>2
      <3>4. toolNodes[i].name = names[toolNodes[i].id]
        BY <2>4, <2>9, <3>1, <3>2, <3>3 DEF TbInv, LastIsNamed
      <3> QED BY <2>4, <2>9, <3>2, <3>4
    <2>14. HeaderAgreesWithResult'
      <3>1. SUFFICES ASSUME NEW i \in 1..(n + 1), NEW j \in 1..(n + 1), i < j,
                            toolNodes'[i].kind = "use", toolNodes'[j].kind = "result",
                            toolNodes'[i].id = toolNodes'[j].id,
                            ~\E k \in (i+1)..(j-1) : toolNodes'[k].kind = "use" /\ toolNodes'[k].id = toolNodes'[i].id
                     PROVE  /\ toolNodes'[i].state = IF toolNodes'[j].isError THEN "error" ELSE "resolved"
                            /\ toolNodes'[i].name = toolNodes'[j].name
        <4>1. DOMAIN toolNodes' = 1..(n + 1)
          BY <2>2
        <4> QED BY <4>1, Zenon DEF HeaderAgreesWithResult
      <3>2. i \in 1..n /\ i \in Nat /\ m \in Nat /\ j \in Nat
        BY <2>2, <2>4, <3>1
      <3>3. toolNodes[i].kind = "use"
        BY <2>9, <3>1, <3>2
      <3>4. CASE j = n + 1
        <4>1. toolNodes'[j] = e
          BY <2>2, <3>4
        <4>2. toolNodes[i].id = id
          BY <2>3, <2>9, <3>1, <3>2, <4>1
        <4>3. i <= m
          BY <2>2, <2>4, <3>2, <3>3, <4>2 DEF TbInv, OpenIsLast
        <4>4. ~(i < m)
          <5>1. SUFFICES ASSUME i < m PROVE FALSE
            OBVIOUS
          <5>2. m \in (i+1)..(j-1)
            BY <2>2, <2>4, <3>2, <3>4, <5>1
          <5> QED BY <2>7, <2>9, <3>1, <3>2, <4>2, <5>2
        <4>5. i = m
          BY <3>2, <4>3, <4>4
        <4>6. \A k \in 1..n : toolNodes[k].kind = "use" /\ toolNodes[k].id = toolNodes[m].id => k <= m
          BY <2>2, <2>4 DEF TbInv, OpenIsLast
        <4>7. toolNodes[m].name = names[id]
          BY <2>2, <2>4, <4>6 DEF TbInv, LastIsNamed
        <4> QED BY <2>1, <2>3, <2>7, <4>1, <4>5, <4>7
      <3>5. CASE j # n + 1
        <4>1. j \in 1..n
          BY <2>5, <3>1, <3>5
        <4>2. \A k \in (i+1)..(j-1) : k \in 1..n
          BY <2>4, <3>2, <4>1
        <4>3. ~\E k \in (i+1)..(j-1) : toolNodes[k].kind = "use" /\ toolNodes[k].id = toolNodes[i].id
          BY <2>9, <3>1, <3>2, <4>2, Zenon
        <4>4. toolNodes[j].kind = "result" /\ toolNodes[i].id = toolNodes[j].id
          BY <2>9, <3>1, <3>2, <4>1
        <4>5. /\ toolNodes[i].state = IF toolNodes[j].isError THEN "error" ELSE "resolved"
              /\ toolNodes[i].name = toolNodes[j].name
          BY <2>4, <3>1, <3>2, <3>3, <4>1, <4>3, <4>4, Zenon DEF TbInv, HeaderAgreesWithResult
        <4>6. i # m
          BY <2>2, <4>5
        <4>7. j # m
          BY <2>2, <4>4
        <4> QED BY <2>2, <3>2, <4>1, <4>5, <4>6, <4>7
      <3> QED BY <3>4, <3>5
    <2> QED BY <2>10, <2>11, <2>12, <2>13, <2>14 DEF TbInv
  <1> QED BY <1>1, <1>2

(* Whatever the calls and the results, and in whatever order their ids     *)
(* come back (transitionToolUseState, deriveResultState, the renderers):   *)
(* a header agrees with the result of its call, what failed, was refused   *)
(* or was interrupted is seen as such, and a cached result says so.        *)
THEOREM ToolTheorem == TbSpec => []ToolOutcomeShown
  <1>1. TbInit => TbInv
    BY TbInitial
  <1>2. TbInv /\ [TbNext]_tbVars => TbInv'
    <2> SUFFICES ASSUME TbInv, [TbNext]_tbVars PROVE TbInv'
      OBVIOUS
    <2>1. ASSUME NEW id \in ToolIds, NEW n \in Tools, ToolUseMsg(id, n) PROVE TbInv'
      BY <2>1, ToolUseStep
    <2>2. ASSUME NEW id \in ToolIds, NEW c \in Contents, NEW e \in BOOLEAN, NEW k \in BOOLEAN,
                 ToolResultMsg(id, c, e, k)
          PROVE  TbInv'
      BY <2>2, ToolResultStep
    <2>3. CASE TbDone \/ UNCHANGED tbVars
      <3>1. toolNodes' = toolNodes /\ names' = names
        BY <2>3 DEF TbDone, tbVars
      <3> QED BY <3>1 DEF TbInv, TbTyped, StatesDerived, OpenIsLast, LastIsNamed, HeaderAgreesWithResult
    <2> QED BY <2>1, <2>2, <2>3, Zenon DEF TbNext
  <1>3. TbInv => ToolOutcomeShown
    <2> SUFFICES ASSUME TbInv PROVE ToolOutcomeShown
      OBVIOUS
    <2>1. ASSUME NEW j \in DOMAIN toolNodes, toolNodes[j].kind = "result", NEW v \in BOOLEAN
          PROVE  Shown(toolNodes[j], v)
      <3>1. toolNodes[j] \in Nodes
        BY DEF TbInv, TbTyped
      <3>2. toolNodes[j].cached \in BOOLEAN /\ toolNodes[j].isError \in BOOLEAN
        BY <2>1, <3>1 DEF Nodes, UseNodes, ResultNodes
      <3>3. toolNodes[j].state = deriveResultState(toolNodes[j].content, toolNodes[j].isError)
        BY <2>1 DEF TbInv, StatesDerived
      <3> QED BY <2>1, <3>2, <3>3, ResultShown
    <2>2. FailureShown
      BY <2>1, Zenon DEF FailureShown, Shown
    <2>3. CachedShown
      BY <2>1, Zenon DEF CachedShown, Shown
    <2> QED BY <2>2, <2>3 DEF TbInv, ToolOutcomeShown
  <1> QED BY <1>1, <1>2, <1>3, PTL DEF TbSpec
-----------------------------------------------------------------------------
(* The first n members of a sequence of sequences, joined.                 *)
First(q, n) == [i \in 1..n |-> q[i]]

LEMMA FlattenPrefix ==
    ASSUME NEW E, NEW q \in Seq(Seq(E)), NEW n \in Nat, n < Len(q)
    PROVE  /\ FlattenSeq(First(q, n)) \in Seq(E)
           /\ FlattenSeq(First(q, n + 1)) = FlattenSeq(First(q, n)) \o q[n + 1]
  <1>1. PICK a, b, x : a = First(q, n) /\ b = First(q, n + 1) /\ x = q[n + 1]
    OBVIOUS
  <1>2. x \in Seq(E) /\ \A i \in 1..(n + 1) : q[i] \in Seq(E)
    BY <1>1
  <1>3. a \in Seq(Seq(E)) /\ Len(a) = n /\ \A i \in 1..n : a[i] = q[i]
    BY <1>1, <1>2 DEF First
  <1>4. b \in Seq(Seq(E)) /\ Len(b) = n + 1 /\ \A i \in 1..(n + 1) : b[i] = q[i]
    BY <1>1, <1>2 DEF First
  <1>5. PICK c : c = Append(a, x)
    OBVIOUS
  <1>6. /\ c \in Seq(Seq(E)) /\ Len(c) = n + 1 /\ c[n + 1] = x /\ \A i \in 1..n : c[i] = a[i]
    BY <1>2, <1>3, <1>5, AppendProperties
  <1>7. \A i \in 1..(n + 1) : i \in 1..n \/ i = n + 1
    OBVIOUS
  <1>8. \A i \in 1..Len(b) : b[i] = c[i]
    BY <1>1, <1>3, <1>4, <1>6, <1>7
  <1>9. b = c
    BY <1>4, <1>6, <1>8, SeqEqual
  <1> QED BY <1>1, <1>2, <1>3, <1>5, <1>9, FlattenAppend

LEMMA FlattenTyped ==
    ASSUME NEW E, NEW q \in Seq(Seq(E))
    PROVE  FlattenSeq(q) \in Seq(E)
  <1>1. <<>> \in Seq(E)
    OBVIOUS
  <1> QED BY <1>1, FlattenAppend

LEMMA FlattenFirst ==
    ASSUME NEW E, NEW q \in Seq(Seq(E))
    PROVE  First(q, Len(q)) = q /\ First(q, 0) = <<>>
  BY DEF First

-----------------------------------------------------------------------------
(* The text of blocks and of chunks.                                       *)
Streams == [tokens : Seq(Chunks), lineBuf : Seq(Tokens), emitted : Seq(Blocks),
            openFence : BOOLEAN, finish : ChunkFinishes \cup {"Cancelled"},
            sawContent : BOOLEAN, closed : BOOLEAN]

(* What the stream holds of the text that left the channel.                *)
Body(st) == Text(st.emitted) \o st.lineBuf

LEMMA TextAppend ==
    ASSUME NEW bs \in Seq(Blocks), NEW b \in Blocks
    PROVE  Text(bs) \in Seq(Tokens) /\ Text(Append(bs, b)) = Text(bs) \o b.text
  <1>1. PICK n, q, more, x : /\ n = Len(bs) /\ x = b.text
                             /\ q = [i \in DOMAIN bs |-> bs[i].text]
                             /\ more = [i \in DOMAIN Append(bs, b) |-> Append(bs, b)[i].text]
    OBVIOUS
  <1>2. x \in Seq(Tokens) /\ \A i \in DOMAIN bs : bs[i].text \in Seq(Tokens)
    <2>1. \A c \in Blocks : c.text \in Seq(Tokens)
      BY DEF Blocks
    <2>2. \A i \in DOMAIN bs : bs[i] \in Blocks
      OBVIOUS
    <2> QED BY <1>1, <2>1, <2>2
  <1>3. n \in Nat /\ DOMAIN bs = 1..n
    BY <1>1
  <1>4. q \in Seq(Seq(Tokens)) /\ Len(q) = n /\ \A i \in 1..n : q[i] = bs[i].text
    BY <1>1, <1>2, <1>3
  <1>5. /\ DOMAIN Append(bs, b) = 1..(n + 1) /\ Append(bs, b)[n + 1] = b
        /\ \A i \in 1..n : Append(bs, b)[i] = bs[i]
    BY <1>1, <1>3, AppendProperties
  <1>6. \A i \in 1..(n + 1) : i \in 1..n \/ i = n + 1
    BY <1>3
  <1>7. \A i \in 1..(n + 1) : Append(bs, b)[i].text \in Seq(Tokens)
    BY <1>1, <1>2, <1>3, <1>5, <1>6
  <1>8. more \in Seq(Seq(Tokens)) /\ Len(more) = n + 1 /\ more[n + 1] = x
        /\ \A i \in 1..n : more[i] = bs[i].text
    BY <1>1, <1>3, <1>5, <1>7
  <1>9. PICK c : c = Append(q, x)
    OBVIOUS
  <1>10. /\ c \in Seq(Seq(Tokens)) /\ Len(c) = n + 1 /\ c[n + 1] = x /\ \A i \in 1..n : c[i] = q[i]
    BY <1>2, <1>4, <1>9, AppendProperties
  <1>11. \A i \in 1..Len(more) : more[i] = c[i]
    BY <1>4, <1>6, <1>8, <1>10
  <1>12. more = c
    BY <1>8, <1>10, <1>11, SeqEqual
  <1>13. Text(bs) = FlattenSeq(q) /\ Text(Append(bs, b)) = FlattenSeq(more)
    BY <1>1 DEF Text
  <1> QED BY <1>1, <1>2, <1>4, <1>9, <1>12, <1>13, FlattenAppend

LEMMA TextEmpty == Text(<<>>) = <<>>
  <1>1. [i \in DOMAIN <<>> |-> <<>>[i].text] = <<>>
    OBVIOUS
  <1> QED BY <1>1, FlattenEmpty DEF Text

LEMMA BodyTyped == ASSUME NEW st \in Streams PROVE Body(st) \in Seq(Tokens) /\ Text(st.emitted) \in Seq(Tokens)
  <1>1. st.emitted \in Seq(Blocks) /\ st.lineBuf \in Seq(Tokens)
    BY DEF Streams
  <1>2. PICK b : b = [text |-> <<>>, truncated |-> FALSE, continued |-> FALSE, empty |-> FALSE]
    OBVIOUS
  <1>3. <<>> \in Seq(Tokens)
    OBVIOUS
  <1>4. b \in Blocks
    BY <1>2, <1>3 DEF Blocks
  <1>5. Text(st.emitted) \in Seq(Tokens)
    BY <1>1, <1>4, TextAppend
  <1> QED BY <1>1, <1>5, ConcatProperties DEF Body

-----------------------------------------------------------------------------
(* Fences: a text holds an odd number of them or an even one.              *)
Odd(text) == Cardinality({i \in DOMAIN text : text[i].kind = "fence"}) % 2 = 1

LEMMA OddEmpty == Odd(<<>>) = FALSE
  <1>1. {i \in DOMAIN <<>> : <<>>[i].kind = "fence"} = {}
    OBVIOUS
  <1> QED BY <1>1, FS_EmptySet DEF Odd

LEMMA OddAppend ==
    ASSUME NEW q \in Seq(Tokens), NEW t \in Tokens
    PROVE  Odd(Append(q, t)) = (Odd(q) # (t.kind = "fence"))
  <1>1. PICK n, F, G : /\ n = Len(q) /\ F = {i \in DOMAIN q : q[i].kind = "fence"}
                       /\ G = {i \in DOMAIN Append(q, t) : Append(q, t)[i].kind = "fence"}
    OBVIOUS
  <1>2. n \in Nat /\ DOMAIN q = 1..n
    BY <1>1
  <1>3. /\ DOMAIN Append(q, t) = 1..(n + 1) /\ Append(q, t)[n + 1] = t
        /\ \A i \in 1..n : Append(q, t)[i] = q[i]
    BY <1>1, <1>2, AppendProperties
  <1>4. /\ \A i \in 1..(n + 1) : i \in 1..n \/ i = n + 1
        /\ \A i \in 1..n : i \in 1..(n + 1)
        /\ n + 1 \notin 1..n /\ n + 1 \in 1..(n + 1)
    BY <1>2
  <1>5. IsFiniteSet(F) /\ Cardinality(F) \in Nat
    <2>1. IsFiniteSet(1..n)
      BY <1>2, FS_Interval
    <2>2. F \in SUBSET (1..n)
      BY <1>1, <1>2
    <2> QED BY <2>1, <2>2, FS_Subset, FS_CardinalityType
  <1>6. n + 1 \notin F
    BY <1>1, <1>2, <1>4
  <1>7. CASE t.kind = "fence"
    <2>1. G = F \cup {n + 1}
      BY <1>1, <1>2, <1>3, <1>4, <1>7
    <2>2. Cardinality(G) = Cardinality(F) + 1
      BY <1>5, <1>6, <2>1, FS_AddElement
    <2>3. (Cardinality(G) % 2 = 1) <=> ~(Cardinality(F) % 2 = 1)
      BY <1>5, <2>2
    <2> QED BY <1>1, <1>7, <2>3 DEF Odd
  <1>8. CASE t.kind # "fence"
    <2>1. G = F
      BY <1>1, <1>2, <1>3, <1>4, <1>8
    <2> QED BY <1>1, <1>8, <2>1 DEF Odd
  <1> QED BY <1>7, <1>8
-----------------------------------------------------------------------------
(* Until the stream ends, a block with an odd number of fences is one the  *)
(* cap forced out or comes behind one, and so is a line buffer whose       *)
(* fences do not tell whether a fence is open.  prior: such a block has    *)
(* left the stream already.                                                *)
Whole(st, prior) == st.finish = "Unset" =>
    /\ \A i \in DOMAIN st.emitted : Odd(st.emitted[i].text) => prior \/ \E j \in 1..i : st.emitted[j].continued
    /\ st.openFence # Odd(st.lineBuf) => prior \/ \E j \in DOMAIN st.emitted : st.emitted[j].continued

(* The emitted blocks and one more.                                        *)
Extends(bs, more, b, n) ==
    /\ n \in Nat /\ DOMAIN bs = 1..n /\ DOMAIN more = 1..(n + 1)
    /\ more[n + 1] = b
    /\ \A i \in 1..n : more[i] = bs[i]
    /\ \A i \in 1..(n + 1) : i \in 1..n \/ i = n + 1
    /\ \A i \in 1..n : i \in 1..(n + 1) /\ i \in 1..i
    /\ \A i \in 1..n : \A j \in 1..i : j \in 1..n
    /\ Text(more) = Text(bs) \o b.text

LEMMA OneMore ==
    ASSUME NEW bs \in Seq(Blocks), NEW b \in Blocks
    PROVE  Extends(bs, Append(bs, b), b, Len(bs))
  <1>1. PICK n : n = Len(bs)
    OBVIOUS
  <1>2. n \in Nat /\ DOMAIN bs = 1..n
    BY <1>1
  <1>3. /\ DOMAIN Append(bs, b) = 1..(n + 1) /\ Append(bs, b)[n + 1] = b
        /\ \A i \in 1..n : Append(bs, b)[i] = bs[i]
    BY <1>1, AppendProperties
  <1>4. Text(Append(bs, b)) = Text(bs) \o b.text
    BY TextAppend
  <1>5. /\ \A i \in 1..(n + 1) : i \in 1..n \/ i = n + 1
        /\ \A i \in 1..n : i \in 1..(n + 1) /\ i \in 1..i
        /\ \A i \in 1..n : \A j \in 1..i : j \in 1..n
    BY <1>2
  <1> QED BY <1>1, <1>2, <1>3, <1>4, <1>5, Zenon DEF Extends

Emits(st, e, cont, prior) ==
    /\ e \in Streams /\ Body(e) = Body(st) /\ e.lineBuf = <<>> /\ e.tokens = st.tokens
    /\ e.finish = st.finish /\ e.closed = st.closed /\ e.openFence = st.openFence
    /\ e.sawContent = st.sawContent
    /\ (Whole(st, prior) /\ (cont \/ ~st.openFence)) => Whole(e, prior)

LEMMA EmitFacts ==
    ASSUME NEW st \in Streams, NEW trunc \in BOOLEAN, NEW cont \in BOOLEAN, NEW prior \in BOOLEAN,
           NEW e, e = emitWholeBuffer(st, trunc, cont)
    PROVE  Emits(st, e, cont, prior)
  <1> USE DEF Emits
  <1>1. CASE st.lineBuf = <<>>
    <2>1. e = st
      BY <1>1 DEF emitWholeBuffer
    <2> QED BY <1>1, <2>1
  <1>2. CASE st.lineBuf # <<>>
    <2>1. PICK b, n : /\ b = [text |-> st.lineBuf, truncated |-> trunc, continued |-> cont, empty |-> FALSE]
                      /\ n = Len(st.emitted)
      OBVIOUS
    <2>2. b \in Blocks /\ b.text = st.lineBuf /\ b.continued = cont
      BY <2>1 DEF Streams, Blocks
    <2>3. st.emitted \in Seq(Blocks) /\ st.lineBuf \in Seq(Tokens) /\ <<>> \in Seq(Tokens)
      BY DEF Streams
    <2>4. Append(st.emitted, b) \in Seq(Blocks)
      BY <2>2, <2>3
    <2>5. e = [st EXCEPT !.lineBuf = <<>>, !.emitted = Append(st.emitted, b)]
      BY <1>2, <2>1 DEF emitWholeBuffer
    <2>6. e = [tokens |-> st.tokens, lineBuf |-> <<>>, emitted |-> Append(st.emitted, b), openFence |-> st.openFence,
               finish |-> st.finish, sawContent |-> st.sawContent, closed |-> st.closed]
      BY <2>5 DEF Streams
    <2>7. /\ e \in Streams /\ e.lineBuf = <<>> /\ e.emitted = Append(st.emitted, b) /\ e.tokens = st.tokens
          /\ e.finish = st.finish /\ e.closed = st.closed /\ e.openFence = st.openFence /\ e.sawContent = st.sawContent
      BY <2>3, <2>4, <2>6 DEF Streams
    <2>8. /\ n \in Nat /\ DOMAIN st.emitted = 1..n /\ DOMAIN e.emitted = 1..(n + 1)
          /\ e.emitted[n + 1] = b
          /\ \A i \in 1..n : e.emitted[i] = st.emitted[i]
          /\ \A i \in 1..(n + 1) : i \in 1..n \/ i = n + 1
          /\ \A i \in 1..n : i \in 1..(n + 1) /\ i \in 1..i
          /\ \A i \in 1..n : \A j \in 1..i : j \in 1..n
          /\ Text(e.emitted) = Text(st.emitted) \o b.text
      <3>1. Extends(st.emitted, Append(st.emitted, b), b, Len(st.emitted))
        BY <2>2, <2>3, OneMore
      <3>2. Extends(st.emitted, e.emitted, b, n)
        BY <2>1, <2>7, <3>1
      <3> QED BY <3>2, Zenon DEF Extends
    <2>9. Body(e) = Body(st)
      <3>1. Text(e.emitted) \in Seq(Tokens) /\ Text(e.emitted) \o <<>> = Text(e.emitted)
        BY <2>7, BodyTyped, ConcatEmptySeq
      <3> QED BY <2>2, <2>7, <2>8, <3>1 DEF Body
    <2>10. ASSUME Whole(st, prior), cont \/ ~st.openFence PROVE Whole(e, prior)
      <3>1. SUFFICES ASSUME e.finish = "Unset"
                     PROVE  /\ \A i \in 1..(n + 1) : Odd(e.emitted[i].text) => prior \/ \E j \in 1..i : e.emitted[j].continued
                            /\ e.openFence # Odd(e.lineBuf) => prior \/ \E j \in 1..(n + 1) : e.emitted[j].continued
        BY <2>8, Zenon DEF Whole
      <3>2. /\ \A i \in 1..n : Odd(st.emitted[i].text) => prior \/ \E j \in 1..i : st.emitted[j].continued
            /\ st.openFence # Odd(st.lineBuf) => prior \/ \E j \in 1..n : st.emitted[j].continued
        BY <2>7, <2>8, <2>10, <3>1, Zenon DEF Whole
      <3>3. ASSUME NEW i \in 1..(n + 1), Odd(e.emitted[i].text)
            PROVE  prior \/ \E j \in 1..i : e.emitted[j].continued
        <4>1. CASE i \in 1..n
          <5>1. prior \/ \E j \in 1..i : st.emitted[j].continued
            BY <2>8, <3>2, <3>3, <4>1, Zenon
          <5> QED BY <2>8, <4>1, <5>1, Zenon
        <4>2. CASE i = n + 1 /\ cont
          <5>1. i \in 1..i
            BY <2>8, <4>2
          <5> QED BY <2>2, <2>8, <4>2, <5>1
        <4>3. CASE i = n + 1 /\ ~cont
          <5>1. st.openFence = FALSE
            BY <2>10, <4>3 DEF Streams
          <5>2. Odd(st.lineBuf)
            BY <2>2, <2>8, <3>3, <4>3
          <5>3. prior \/ \E j \in 1..n : st.emitted[j].continued
            BY <3>2, <5>1, <5>2, Zenon
          <5>4. \A j \in 1..n : j \in 1..i
            BY <2>8, <4>3
          <5> QED BY <2>8, <5>3, <5>4, Zenon
        <4> QED BY <2>8, <4>1, <4>2, <4>3
      <3>4. ASSUME e.openFence # Odd(e.lineBuf)
            PROVE  prior \/ \E j \in 1..(n + 1) : e.emitted[j].continued
        <4>1. st.openFence = TRUE
          BY <2>7, <3>4, OddEmpty DEF Streams
        <4>2. cont
          BY <2>10, <4>1
        <4>3. n + 1 \in 1..(n + 1)
          BY <2>8
        <4> QED BY <2>2, <2>8, <4>2, <4>3
      <3> QED BY <3>3, <3>4
    <2> QED BY <2>7, <2>9, <2>10
  <1> QED BY <1>1, <1>2

(* A token behind the text the stream holds.                               *)
LEMMA TokenFacts ==
    ASSUME NEW st \in Streams, NEW t \in Tokens, NEW prior \in BOOLEAN, NEW e, e = appendToken(st, t)
    PROVE  /\ e \in Streams /\ Body(e) = Body(st) \o <<t>> /\ e.tokens = st.tokens
           /\ e.finish = st.finish /\ e.closed = st.closed
           /\ \A L : st.lineBuf \in Seq(L) /\ t \in L => e.lineBuf \in Seq(L)
           /\ Whole(st, prior) => Whole(e, prior)
  <1>1. PICK fence, inFence, w : /\ fence = (t.kind = "fence") /\ inFence = (st.openFence # fence)
                                 /\ w = [st EXCEPT !.sawContent = TRUE, !.lineBuf = Append(st.lineBuf, t), !.openFence = inFence]
    OBVIOUS
  <1>2. fence \in BOOLEAN /\ inFence \in BOOLEAN /\ st.openFence \in BOOLEAN
    BY <1>1 DEF Streams
  <1>3. st.lineBuf \in Seq(Tokens) /\ Append(st.lineBuf, t) \in Seq(Tokens)
    BY DEF Streams
  <1>4. w = [tokens |-> st.tokens, lineBuf |-> Append(st.lineBuf, t), emitted |-> st.emitted, openFence |-> inFence,
             finish |-> st.finish, sawContent |-> TRUE, closed |-> st.closed]
    BY <1>1 DEF Streams
  <1>5. /\ w \in Streams /\ w.lineBuf = Append(st.lineBuf, t) /\ w.emitted = st.emitted /\ w.tokens = st.tokens
        /\ w.finish = st.finish /\ w.closed = st.closed /\ w.openFence = inFence
    BY <1>2, <1>3, <1>4 DEF Streams
  <1>6. Body(w) = Body(st) \o <<t>>
    <2>1. PICK q, u : q = Text(st.emitted) /\ u = st.lineBuf
      OBVIOUS
    <2>2. q \in Seq(Tokens) /\ u \in Seq(Tokens) /\ <<t>> \in Seq(Tokens)
      BY <1>3, <2>1, BodyTyped
    <2>3. Append(u, t) = u \o <<t>>
      BY <2>2, AppendIsConcat
    <2>4. q \o (u \o <<t>>) = (q \o u) \o <<t>>
      BY <2>2, ConcatAssociative
    <2> QED BY <1>5, <2>1, <2>3, <2>4 DEF Body
  <1>7. Odd(w.lineBuf) = (Odd(st.lineBuf) # fence)
    BY <1>1, <1>3, <1>5, OddAppend
  <1>8. Whole(st, prior) => Whole(w, prior)
    <2>1. Odd(w.lineBuf) \in BOOLEAN /\ Odd(st.lineBuf) \in BOOLEAN
      BY DEF Odd
    <2>2. (w.openFence # Odd(w.lineBuf)) => (st.openFence # Odd(st.lineBuf))
      BY <1>1, <1>2, <1>5, <1>7, <2>1
    <2> QED BY <1>5, <2>2, Zenon DEF Whole
  <1>9. \A L : st.lineBuf \in Seq(L) /\ t \in L => w.lineBuf \in Seq(L) /\ <<>> \in Seq(L)
    BY <1>5
  <1>10. \/ e = w
         \/ e = emitWholeBuffer(w, FALSE, TRUE)
         \/ ~w.openFence /\ e = emitWholeBuffer(w, FALSE, FALSE)
    <2>1. e = CASE inFence /\ Len(w.lineBuf) > LineBufCap -> emitWholeBuffer(w, FALSE, TRUE)
                [] inFence /\ Len(w.lineBuf) <= LineBufCap -> w
                [] ~inFence /\ t.kind = "fence" -> emitWholeBuffer(w, FALSE, FALSE)
                [] OTHER -> tryEmitLines(w)
      BY <1>1, Zenon DEF appendToken
    <2>2. tryEmitLines(w) \in {w, emitWholeBuffer(w, FALSE, TRUE), emitWholeBuffer(w, FALSE, FALSE)}
      BY DEF tryEmitLines
    <2>3. Len(w.lineBuf) \in Nat /\ LineBufCap \in Nat
      BY <1>3, <1>5, LineBufCapAssumption
    <2>4. CASE inFence
      <3>1. e = emitWholeBuffer(w, FALSE, TRUE) \/ e = w
        <4>1. PICK k : k = Len(w.lineBuf)
          OBVIOUS
        <4>2. (k > LineBufCap /\ ~(k <= LineBufCap)) \/ (k <= LineBufCap /\ ~(k > LineBufCap))
          BY <2>3, <4>1
        <4> QED BY <2>1, <2>4, <4>1, <4>2
      <3> QED BY <3>1
    <2>5. CASE ~inFence
      <3>1. e = emitWholeBuffer(w, FALSE, FALSE) \/ e = tryEmitLines(w)
        BY <2>1, <2>5
      <3> QED BY <1>5, <2>2, <2>5, <3>1
    <2> QED BY <1>2, <2>4, <2>5
  <1>11. CASE e = w
    BY <1>5, <1>6, <1>8, <1>9, <1>11
  <1>12. CASE e = emitWholeBuffer(w, FALSE, TRUE)
    <2>1. Emits(w, e, TRUE, prior)
      BY <1>5, <1>12, EmitFacts
    <2> QED BY <1>5, <1>6, <1>8, <1>9, <2>1 DEF Emits
  <1>13. CASE ~w.openFence /\ e = emitWholeBuffer(w, FALSE, FALSE)
    <2>1. Emits(w, e, FALSE, prior)
      BY <1>5, <1>13, EmitFacts
    <2> QED BY <1>5, <1>6, <1>8, <1>9, <1>13, <2>1 DEF Emits
  <1> QED BY <1>10, <1>11, <1>12, <1>13
LEMMA FlushFacts ==
    ASSUME NEW st \in Streams, NEW trunc \in BOOLEAN, NEW e, e = flushPartial(st, trunc)
    PROVE  /\ e \in Streams /\ Body(e) = Body(st) /\ e.lineBuf = <<>> /\ e.tokens = st.tokens
           /\ e.finish = st.finish /\ e.closed = st.closed
  <1>1. PICK f, b : /\ f = emitWholeBuffer(st, trunc, FALSE)
                    /\ b = [text |-> <<>>, truncated |-> FALSE, continued |-> FALSE, empty |-> TRUE]
    OBVIOUS
  <1>2. /\ f \in Streams /\ Body(f) = Body(st) /\ f.lineBuf = <<>> /\ f.tokens = st.tokens
        /\ f.finish = st.finish /\ f.closed = st.closed
    <2>1. Emits(st, f, FALSE, TRUE)
      BY <1>1, EmitFacts
    <2> QED BY <2>1 DEF Emits
  <1>3. <<>> \in Seq(Tokens)
    OBVIOUS
  <1>4. b \in Blocks /\ b.text = <<>>
    BY <1>1, <1>3 DEF Blocks
  <1>5. e = f \/ e = [f EXCEPT !.emitted = Append(f.emitted, b)]
    BY <1>1 DEF flushPartial
  <1>6. CASE e = [f EXCEPT !.emitted = Append(f.emitted, b)]
    <2>1. f.emitted \in Seq(Blocks) /\ Append(f.emitted, b) \in Seq(Blocks)
      BY <1>2, <1>4 DEF Streams
    <2>2. e = [tokens |-> f.tokens, lineBuf |-> f.lineBuf, emitted |-> Append(f.emitted, b), openFence |-> f.openFence,
               finish |-> f.finish, sawContent |-> f.sawContent, closed |-> f.closed]
      BY <1>2, <1>6 DEF Streams
    <2>3. /\ e \in Streams /\ e.lineBuf = f.lineBuf /\ e.emitted = Append(f.emitted, b) /\ e.tokens = f.tokens
          /\ e.finish = f.finish /\ e.closed = f.closed
      BY <1>2, <2>1, <2>2 DEF Streams
    <2>4. Text(e.emitted) = Text(f.emitted) \o <<>> /\ Text(f.emitted) \in Seq(Tokens)
      BY <1>4, <2>1, <2>3, TextAppend
    <2>5. Text(e.emitted) = Text(f.emitted)
      BY <2>4, ConcatEmptySeq
    <2> QED BY <1>2, <2>3, <2>5 DEF Body
  <1> QED BY <1>2, <1>5, <1>6

(* One chunk: its token goes behind the text, its finish reason is taken.  *)
LEMMA ChunkFacts ==
    ASSUME NEW st \in Streams, NEW c \in Chunks, NEW prior \in BOOLEAN, NEW e, e = processChunk(st, c)
    PROVE  /\ e \in Streams /\ Body(e) = Body(st) \o TextOf(c) /\ e.tokens = st.tokens /\ e.closed = st.closed
           /\ e.finish = IF c.finish = "Unset" THEN st.finish ELSE c.finish
           /\ \A L : st.lineBuf \in Seq(L) /\ (c.token = NoToken \/ c.token \in L) => e.lineBuf \in Seq(L)
           /\ Whole(st, prior) => Whole(e, prior)
  <1>1. PICK w, trunc : /\ w = (IF c.token = NoToken THEN st ELSE appendToken(st, c.token))
                        /\ trunc = (c.finish \in {"Length", "Error"})
    OBVIOUS
  <1>2. c.token \in Tokens \cup {NoToken} /\ c.finish \in ChunkFinishes /\ trunc \in BOOLEAN
    BY <1>1 DEF Chunks
  <1>3. /\ w \in Streams /\ Body(w) = Body(st) \o TextOf(c) /\ w.tokens = st.tokens
        /\ w.finish = st.finish /\ w.closed = st.closed
        /\ \A L : st.lineBuf \in Seq(L) /\ (c.token = NoToken \/ c.token \in L) => w.lineBuf \in Seq(L)
        /\ Whole(st, prior) => Whole(w, prior)
    <2>1. CASE c.token = NoToken
      <3>1. w = st /\ TextOf(c) = <<>>
        BY <1>1, <2>1 DEF TextOf
      <3>2. Body(st) \o <<>> = Body(st)
        BY BodyTyped, ConcatEmptySeq
      <3> QED BY <3>1, <3>2
    <2>2. CASE c.token # NoToken
      <3>1. w = appendToken(st, c.token) /\ TextOf(c) = <<c.token>> /\ c.token \in Tokens
        BY <1>1, <1>2, <2>2 DEF TextOf
      <3> QED BY <2>2, <3>1, TokenFacts
    <2> QED BY <2>1, <2>2
  <1>4. CASE c.finish = "Unset"
    <2>1. e = w
      BY <1>1, <1>4, Zenon DEF processChunk
    <2> QED BY <1>3, <1>4, <2>1
  <1>5. CASE c.finish # "Unset"
    <2>1. PICK r : r = [w EXCEPT !.finish = c.finish]
      OBVIOUS
    <2>2. e = flushPartial(r, trunc)
      BY <1>1, <1>5, <2>1, Zenon DEF processChunk
    <2>3. r = [tokens |-> w.tokens, lineBuf |-> w.lineBuf, emitted |-> w.emitted, openFence |-> w.openFence,
               finish |-> c.finish, sawContent |-> w.sawContent, closed |-> w.closed]
      BY <1>3, <2>1 DEF Streams
    <2>4. /\ r \in Streams /\ r.lineBuf = w.lineBuf /\ r.emitted = w.emitted /\ r.tokens = w.tokens
          /\ r.finish = c.finish /\ r.closed = w.closed
      BY <1>2, <1>3, <2>3 DEF Streams
    <2>5. Body(r) = Body(w)
      BY <2>4 DEF Body
    <2>6. /\ e \in Streams /\ Body(e) = Body(r) /\ e.lineBuf = <<>> /\ e.tokens = r.tokens
          /\ e.finish = r.finish /\ e.closed = r.closed
      BY <1>2, <2>2, <2>4, FlushFacts
    <2>7. \A L : <<>> \in Seq(L)
      OBVIOUS
    <2>8. Whole(e, prior)
      BY <1>5, <2>4, <2>6 DEF Whole
    <2> QED BY <1>3, <1>5, <2>4, <2>5, <2>6, <2>7, <2>8
  <1> QED BY <1>4, <1>5

-----------------------------------------------------------------------------
(* All the chunks of the channel, one after another.                       *)
ChunkTexts(q) == [i \in DOMAIN q |-> TextOf(q[i])]
LateOnly(st, L) ==
    /\ st.lineBuf \in Seq(L)
    /\ \A i \in DOMAIN st.tokens : st.tokens[i].token = NoToken \/ st.tokens[i].token \in L
Drains(st, g, m) == g[0] = st /\ \A n \in 1..m : g[n] = processChunk(g[n - 1], st.tokens[n])

(* What holds after n chunks.                                              *)
Drained(st, e, n, prior, L) ==
    /\ e \in Streams /\ e.tokens = st.tokens /\ e.closed = st.closed
    /\ Body(e) = Body(st) \o FlattenSeq(First(ChunkTexts(st.tokens), n))
    /\ e.finish = st.finish \/ \E i \in DOMAIN st.tokens : st.tokens[i].finish = e.finish
    /\ st.finish # "Unset" => e.finish # "Unset"
    /\ Whole(st, prior) => Whole(e, prior)
    /\ LateOnly(st, L) => e.lineBuf \in Seq(L)

LEMMA ChunkTextsTyped ==
    ASSUME NEW q \in Seq(Chunks)
    PROVE  ChunkTexts(q) \in Seq(Seq(Tokens)) /\ Len(ChunkTexts(q)) = Len(q) /\ \A i \in 1..Len(q) : ChunkTexts(q)[i] = TextOf(q[i])
  <1>1. ASSUME NEW c \in Chunks PROVE TextOf(c) \in Seq(Tokens)
    <2>1. c.token \in Tokens \cup {NoToken}
      BY DEF Chunks
    <2>2. CASE c.token = NoToken
      BY <2>2 DEF TextOf
    <2>3. CASE c.token # NoToken
      <3>1. c.token \in Tokens
        BY <2>1, <2>3
      <3> QED BY <2>3, <3>1 DEF TextOf
    <2> QED BY <2>2, <2>3
  <1>2. PICK n : n = Len(q)
    OBVIOUS
  <1>3. n \in Nat /\ DOMAIN q = 1..n /\ \A i \in 1..n : q[i] \in Chunks
    BY <1>2
  <1>4. PICK x : x = ChunkTexts(q)
    OBVIOUS
  <1>5. x = [i \in 1..n |-> TextOf(q[i])]
    BY <1>3, <1>4 DEF ChunkTexts
  <1>6. \A i \in 1..n : x[i] = TextOf(q[i]) /\ x[i] \in Seq(Tokens)
    BY <1>1, <1>3, <1>5
  <1>7. x \in Seq(Seq(Tokens)) /\ Len(x) = n
    BY <1>3, <1>5, <1>6
  <1> QED BY <1>2, <1>4, <1>6, <1>7

LEMMA DrainProgress ==
    ASSUME NEW st \in Streams, NEW prior \in BOOLEAN, NEW L, NEW N \in 0..Len(st.tokens), NEW g, Drains(st, g, N)
    PROVE  Drained(st, g[N], N, prior, L)
  <1> DEFINE T == {m \in 0..N : ~Drained(st, g[m], m, prior, L)}
  <1>0. PICK q, x, K : q = st.tokens /\ x = ChunkTexts(q) /\ K = Len(q)
    OBVIOUS
  <1>1. /\ q \in Seq(Chunks) /\ x \in Seq(Seq(Tokens)) /\ Len(x) = K /\ K \in Nat /\ N \in 0..K /\ N \in Nat /\ DOMAIN q = 1..K
        /\ \A i \in 1..K : x[i] = TextOf(q[i])
    <2>1. q \in Seq(Chunks)
      BY <1>0 DEF Streams
    <2>2. x \in Seq(Seq(Tokens)) /\ Len(x) = K /\ \A i \in 1..K : x[i] = TextOf(q[i])
      BY <1>0, <2>1, ChunkTextsTyped
    <2>3. K \in Nat /\ DOMAIN q = 1..K /\ N \in 0..K
      BY <1>0, <2>1
    <2> QED BY <2>1, <2>2, <2>3
  <1>2. SUFFICES ASSUME T # {} PROVE FALSE
    BY <1>1
  <1>3. T \subseteq Nat
    BY <1>1
  <1>4. PICK m \in T : \A k \in T : m <= k
    BY <1>2, <1>3, LeastNat
  <1>5. m \in 0..N /\ ~Drained(st, g[m], m, prior, L)
    BY <1>4
  <1>6. CASE m = 0
    <2>1. g[0] = st
      BY DEF Drains
    <2>2. FlattenSeq(First(x, 0)) = <<>>
      BY <1>1, FlattenFirst, FlattenEmpty
    <2>3. Body(st) \o <<>> = Body(st)
      BY BodyTyped, ConcatEmptySeq
    <2>4. Drained(st, st, 0, prior, L)
      BY <1>0, <2>2, <2>3 DEF Drained, LateOnly
    <2> QED BY <1>5, <1>6, <2>1, <2>4
  <1>7. CASE m # 0
    <2>1. PICK n : n = m - 1
      OBVIOUS
    <2>2. n \in Nat /\ n \in 0..N /\ m = n + 1 /\ m \in 1..N /\ n < K /\ m \in 1..K /\ ~(m <= n)
      BY <1>1, <1>5, <1>7, <2>1
    <2>3. Drained(st, g[n], n, prior, L)
      BY <1>4, <2>2
    <2>4. PICK e, c, d : e = g[n] /\ c = q[m] /\ d = g[m]
      OBVIOUS
    <2>5. d = processChunk(e, c) /\ c \in Chunks
      <3>1. g[m] = processChunk(g[m - 1], st.tokens[m])
        BY <2>2, Zenon DEF Drains
      <3>2. c \in Chunks
        BY <1>1, <2>2, <2>4
      <3> QED BY <1>0, <2>1, <2>4, <3>1, <3>2
    <2>6. /\ d \in Streams /\ Body(d) = Body(e) \o TextOf(c) /\ d.tokens = e.tokens /\ d.closed = e.closed
          /\ d.finish = IF c.finish = "Unset" THEN e.finish ELSE c.finish
          /\ e.lineBuf \in Seq(L) /\ (c.token = NoToken \/ c.token \in L) => d.lineBuf \in Seq(L)
          /\ Whole(e, prior) => Whole(d, prior)
      <3>1. e \in Streams
        BY <2>3, <2>4 DEF Drained
      <3>a. processChunk(e, c) \in Streams /\ Body(processChunk(e, c)) = Body(e) \o TextOf(c)
        BY <2>5, <3>1, ChunkFacts
      <3>b. /\ processChunk(e, c).tokens = e.tokens /\ processChunk(e, c).closed = e.closed
            /\ processChunk(e, c).finish = IF c.finish = "Unset" THEN e.finish ELSE c.finish
        BY <2>5, <3>1, ChunkFacts
      <3>2. /\ d \in Streams /\ Body(d) = Body(e) \o TextOf(c) /\ d.tokens = e.tokens /\ d.closed = e.closed
            /\ d.finish = IF c.finish = "Unset" THEN e.finish ELSE c.finish
        BY <2>5, <3>a, <3>b
      <3>3. e.lineBuf \in Seq(L) /\ (c.token = NoToken \/ c.token \in L) => d.lineBuf \in Seq(L)
        <4>1. \A M : e.lineBuf \in Seq(M) /\ (c.token = NoToken \/ c.token \in M) => d.lineBuf \in Seq(M)
          BY <2>5, <3>1, ChunkFacts
        <4> QED BY <4>1
      <3>4. Whole(e, prior) => Whole(d, prior)
        BY <2>5, <3>1, ChunkFacts
      <3> QED BY <3>2, <3>3, <3>4
    <2>7. PICK u, v : u = FlattenSeq(First(x, n)) /\ v = FlattenSeq(First(x, m))
      OBVIOUS
    <2>8. u \in Seq(Tokens) /\ v = u \o TextOf(c) /\ TextOf(c) \in Seq(Tokens)
      <3>1. u \in Seq(Tokens) /\ FlattenSeq(First(x, n + 1)) = u \o x[n + 1]
        BY <1>1, <2>2, <2>7, FlattenPrefix
      <3>2. x[m] = TextOf(c) /\ x[m] \in Seq(Tokens)
        BY <1>1, <2>2, <2>4
      <3> QED BY <2>2, <2>7, <3>1, <3>2
    <2>9. Body(d) = Body(st) \o v
      <3>1. Body(e) = Body(st) \o u
        BY <1>0, <2>3, <2>4, <2>7 DEF Drained
      <3>2. Body(st) \in Seq(Tokens)
        BY BodyTyped
      <3>3. (Body(st) \o u) \o TextOf(c) = Body(st) \o (u \o TextOf(c))
        BY <2>8, <3>2, ConcatAssociative
      <3> QED BY <2>6, <2>8, <3>1, <3>3
    <2>10. d.finish = st.finish \/ \E i \in DOMAIN st.tokens : st.tokens[i].finish = d.finish
      <3>1. e.finish = st.finish \/ \E i \in DOMAIN st.tokens : st.tokens[i].finish = e.finish
        BY <2>3, <2>4 DEF Drained
      <3>2. m \in DOMAIN st.tokens /\ st.tokens[m] = c
        BY <1>0, <1>1, <2>2, <2>4
      <3> QED BY <2>6, <3>1, <3>2
    <2>11. st.finish # "Unset" => d.finish # "Unset"
      BY <2>3, <2>4, <2>6 DEF Drained
    <2>12. LateOnly(st, L) => d.lineBuf \in Seq(L)
      <3>1. LateOnly(st, L) => e.lineBuf \in Seq(L)
        BY <2>3, <2>4 DEF Drained
      <3>2. LateOnly(st, L) => c.token = NoToken \/ c.token \in L
        BY <1>0, <1>1, <2>2, <2>4 DEF LateOnly
      <3> QED BY <2>6, <3>1, <3>2
    <2>13. d.tokens = st.tokens /\ d.closed = st.closed /\ (Whole(st, prior) => Whole(d, prior))
      BY <2>3, <2>4, <2>6 DEF Drained
    <2>14. Drained(st, d, m, prior, L)
      BY <1>0, <2>6, <2>7, <2>9, <2>10, <2>11, <2>12, <2>13, Zenon DEF Drained
    <2> QED BY <1>5, <2>4, <2>14
  <1> QED BY <1>6, <1>7

LEMMA DrainExists ==
    ASSUME NEW st \in Streams, NEW N, N = Len(st.tokens)
    PROVE  \E g : g = [n \in 0..N |-> IF n = 0 THEN st ELSE processChunk(g[n - 1], st.tokens[n])]
  <1> DEFINE T == {m \in 0..N : ~\E g : DOMAIN g = 0..m /\ g = [n \in 0..m |-> g[n]] /\ Drains(st, g, m)}
  <1>1. N \in Nat
    BY DEF Streams
  <1>2. T = {}
    <2> SUFFICES ASSUME T # {} PROVE FALSE
      OBVIOUS
    <2>1. T \subseteq Nat
      BY <1>1
    <2>2. PICK m \in T : \A k \in T : m <= k
      BY <2>1, LeastNat
    <2>3. m \in 0..N /\ m \in Nat
      BY <1>1, <2>2
    <2>4. CASE m = 0
      <3>1. PICK g : g = [n \in 0..m |-> st]
        OBVIOUS
      <3>2. DOMAIN g = 0..m /\ g = [n \in 0..m |-> g[n]] /\ g[0] = st /\ 1..m = {}
        BY <2>4, <3>1
      <3>3. Drains(st, g, m)
        BY <3>2 DEF Drains
      <3> QED BY <2>2, <3>2, <3>3
    <2>5. CASE m # 0
      <3>1. PICK k : k = m - 1
        OBVIOUS
      <3>2. k \in 0..N /\ k \in Nat /\ ~(m <= k) /\ m = k + 1
        BY <1>1, <2>3, <2>5, <3>1
      <3>3. k \notin T
        BY <2>2, <3>2
      <3>4. PICK g : DOMAIN g = 0..k /\ g = [n \in 0..k |-> g[n]] /\ Drains(st, g, k)
        BY <3>2, <3>3
      <3>5. PICK x, h : x = processChunk(g[k], st.tokens[m]) /\ h = [n \in 0..m |-> IF n = m THEN x ELSE g[n]]
        OBVIOUS
      <3>6. DOMAIN h = 0..m /\ h = [n \in 0..m |-> h[n]] /\ h[m] = x /\ \A n \in 0..k : h[n] = g[n]
        BY <2>3, <3>2, <3>5
      <3>7. h[0] = st
        <4>1. 0 \in 0..k /\ g[0] = st
          BY <3>2, <3>4 DEF Drains
        <4> QED BY <3>6, <4>1
      <3>8. ASSUME NEW n \in 1..m PROVE h[n] = processChunk(h[n - 1], st.tokens[n])
        <4>1. CASE n = m
          <5>1. n - 1 = k /\ k \in 0..k
            BY <3>2, <4>1
          <5> QED BY <3>5, <3>6, <4>1, <5>1
        <4>2. CASE n # m
          <5>1. n \in 1..k /\ n \in 0..k /\ n - 1 \in 0..k
            BY <3>2, <4>2
          <5> QED BY <3>4, <3>6, <5>1 DEF Drains
        <4> QED BY <4>1, <4>2
      <3>9. Drains(st, h, m)
        BY <3>7, <3>8 DEF Drains
      <3> QED BY <2>2, <3>6, <3>9
    <2> QED BY <2>4, <2>5
  <1>3. N \in 0..N
    BY <1>1
  <1>4. PICK g : DOMAIN g = 0..N /\ g = [n \in 0..N |-> g[n]] /\ Drains(st, g, N)
    BY <1>2, <1>3
  <1>5. ASSUME NEW n \in 0..N PROVE g[n] = IF n = 0 THEN st ELSE processChunk(g[n - 1], st.tokens[n])
    <2>1. n = 0 \/ n \in 1..N
      BY <1>1
    <2> QED BY <1>4, <2>1 DEF Drains
  <1> QED BY <1>4, <1>5, Zenon

LEMMA DrainFacts ==
    ASSUME NEW st \in Streams, NEW prior \in BOOLEAN, NEW L, NEW d, d = drainChunks(st)
    PROVE  /\ d \in Streams /\ d.tokens = <<>> /\ d.closed = st.closed
           /\ Body(d) = Body(st) \o FlattenSeq(ChunkTexts(st.tokens))
           /\ d.finish = st.finish \/ \E i \in DOMAIN st.tokens : st.tokens[i].finish = d.finish
           /\ st.finish # "Unset" => d.finish # "Unset"
           /\ Whole(st, prior) => Whole(d, prior)
           /\ LateOnly(st, L) => d.lineBuf \in Seq(L)
  <1> DEFINE N == Len(st.tokens)
             after == CHOOSE f : f = [n \in 0..N |-> IF n = 0 THEN st ELSE processChunk(f[n - 1], st.tokens[n])]
  <1>1. after = [n \in 0..N |-> IF n = 0 THEN st ELSE processChunk(after[n - 1], st.tokens[n])]
    BY DrainExists, Zenon
  <1>2. d = [after[N] EXCEPT !.tokens = <<>>]
    BY DEF drainChunks
  <1> HIDE DEF after
  <1>3. N \in Nat /\ N \in 0..N /\ st.tokens \in Seq(Chunks)
    BY DEF Streams
  <1>4. Drains(st, after, N)
    <2>1. 0 \in 0..N /\ \A n \in 1..N : n \in 0..N /\ n # 0
      BY <1>3
    <2> HIDE DEF N
    <2>2. \A n \in 0..N : after[n] = IF n = 0 THEN st ELSE processChunk(after[n - 1], st.tokens[n])
      BY <1>1, Zenon
    <2> QED BY <2>1, <2>2, Zenon DEF Drains
  <1>5. PICK e : e = after[N]
    OBVIOUS
  <1>6. Drained(st, e, N, prior, L)
    BY <1>3, <1>4, <1>5, DrainProgress
  <1>7. First(ChunkTexts(st.tokens), N) = ChunkTexts(st.tokens)
    BY <1>3, ChunkTextsTyped, FlattenFirst
  <1>8. e \in Streams /\ <<>> \in Seq(Chunks)
    BY <1>6 DEF Drained
  <1>9. d = [tokens |-> <<>>, lineBuf |-> e.lineBuf, emitted |-> e.emitted, openFence |-> e.openFence,
             finish |-> e.finish, sawContent |-> e.sawContent, closed |-> e.closed]
    BY <1>2, <1>5, <1>8 DEF Streams
  <1>10. /\ d \in Streams /\ d.tokens = <<>> /\ d.lineBuf = e.lineBuf /\ d.emitted = e.emitted /\ d.openFence = e.openFence
         /\ d.finish = e.finish /\ d.closed = e.closed
    BY <1>8, <1>9 DEF Streams
  <1>11. Body(d) = Body(e) /\ (Whole(e, prior) => Whole(d, prior))
    BY <1>10, Zenon DEF Body, Whole
  <1> QED BY <1>6, <1>7, <1>10, <1>11, Zenon DEF Drained
LEMMA RestFacts ==
    ASSUME NEW st \in Streams, NEW e, e = flushRest(st)
    PROVE  /\ e \in Streams /\ Body(e) = Body(st) /\ e.lineBuf = <<>> /\ e.tokens = st.tokens
           /\ e.finish = st.finish /\ e.closed = st.closed
  <1>1. CASE st.lineBuf = <<>>
    <2>1. e = st
      BY <1>1 DEF flushRest
    <2> QED BY <1>1, <2>1
  <1>2. CASE st.lineBuf # <<>>
    <2>1. PICK trunc : trunc = truncatedFinish(st)
      OBVIOUS
    <2>2. trunc \in BOOLEAN
      BY <2>1 DEF truncatedFinish
    <2>3. e = flushPartial(st, trunc)
      BY <1>2, <2>1 DEF flushRest
    <2> QED BY <2>2, <2>3, FlushFacts
  <1> QED BY <1>1, <1>2

(* All the text that was accepted: what left the stream, what it holds and *)
(* what waits in the channel.                                              *)
Flow(st, left) == left \o (Body(st) \o FlattenSeq(ChunkTexts(st.tokens)))

LEMMA TokensAssociative ==
    ASSUME NEW a \in Seq(Tokens), NEW b \in Seq(Tokens), NEW z \in Seq(Tokens)
    PROVE  a \o (b \o z) = (a \o b) \o z
  BY ConcatAssociative

LEMMA FlowTyped ==
    ASSUME NEW st \in Streams, NEW left \in Seq(Tokens)
    PROVE  /\ FlattenSeq(ChunkTexts(st.tokens)) \in Seq(Tokens) /\ Flow(st, left) \in Seq(Tokens)
           /\ Flow(st, left) = left \o Text(st.emitted) \o st.lineBuf \o FlattenSeq(ChunkTexts(st.tokens))
  <1>1. PICK t, l, p : t = Text(st.emitted) /\ l = st.lineBuf /\ p = FlattenSeq(ChunkTexts(st.tokens))
    OBVIOUS
  <1>2. t \in Seq(Tokens) /\ l \in Seq(Tokens)
    BY <1>1, BodyTyped DEF Streams
  <1>3. p \in Seq(Tokens)
    <2>1. st.tokens \in Seq(Chunks)
      BY DEF Streams
    <2> QED BY <1>1, <2>1, ChunkTextsTyped, FlattenTyped
  <1>4. t \o l \in Seq(Tokens) /\ (t \o l) \o p \in Seq(Tokens) /\ left \o ((t \o l) \o p) \in Seq(Tokens)
    <2>1. t \o l \in Seq(Tokens)
      BY <1>2, ConcatProperties
    <2>2. PICK u : u = t \o l
      OBVIOUS
    <2>3. u \o p \in Seq(Tokens)
      BY <1>3, <2>1, <2>2, ConcatProperties
    <2>4. PICK v : v = u \o p
      OBVIOUS
    <2>5. left \o v \in Seq(Tokens)
      BY <2>3, <2>4, ConcatProperties
    <2> QED BY <2>1, <2>2, <2>3, <2>4, <2>5, Zenon
  <1>5. left \o ((t \o l) \o p) = (left \o (t \o l)) \o p
    BY <1>3, <1>4, TokensAssociative, Zenon
  <1>6. left \o (t \o l) = (left \o t) \o l
    BY <1>2, TokensAssociative, Zenon
  <1> QED BY <1>1, <1>3, <1>4, <1>5, <1>6 DEF Flow, Body

LEMMA FlowEmpty ==
    ASSUME NEW st \in Streams, NEW left \in Seq(Tokens), st.tokens = <<>>
    PROVE  Flow(st, left) = left \o Body(st)
  <1>1. ChunkTexts(st.tokens) = <<>>
    BY DEF ChunkTexts
  <1>2. FlattenSeq(ChunkTexts(st.tokens)) = <<>>
    BY <1>1, FlattenEmpty
  <1>3. Body(st) \o <<>> = Body(st)
    BY BodyTyped, ConcatEmptySeq
  <1> QED BY <1>2, <1>3 DEF Flow

(* Blocks that are handed out.                                             *)
Emptied(d) == [d EXCEPT !.emitted = <<>>]
HandsOut(d, e, left, now) ==
    /\ e \in Streams /\ e.emitted = <<>> /\ e.lineBuf = d.lineBuf /\ e.tokens = d.tokens
    /\ e.finish = d.finish /\ e.closed = d.closed /\ e.openFence = d.openFence
    /\ now \in Seq(Tokens) /\ Flow(e, now) = left \o Body(d)

LEMMA HandOut ==
    ASSUME NEW d \in Streams, d.tokens = <<>>, NEW left \in Seq(Tokens), NEW e, e = Emptied(d)
    PROVE  HandsOut(d, e, left, left \o Text(d.emitted))
  <1>1. <<>> \in Seq(Blocks)
    OBVIOUS
  <1>2. e = [tokens |-> d.tokens, lineBuf |-> d.lineBuf, emitted |-> <<>>, openFence |-> d.openFence,
             finish |-> d.finish, sawContent |-> d.sawContent, closed |-> d.closed]
    BY DEF Streams, Emptied
  <1>3. /\ e \in Streams /\ e.emitted = <<>> /\ e.lineBuf = d.lineBuf /\ e.tokens = d.tokens
        /\ e.finish = d.finish /\ e.closed = d.closed /\ e.openFence = d.openFence
    BY <1>1, <1>2 DEF Streams
  <1>4. PICK t, l : t = Text(d.emitted) /\ l = d.lineBuf
    OBVIOUS
  <1>5. t \in Seq(Tokens) /\ l \in Seq(Tokens) /\ left \o t \in Seq(Tokens)
    BY <1>4, BodyTyped, ConcatProperties DEF Streams
  <1>6. Flow(e, left \o t) = (left \o t) \o Body(e)
    BY <1>3, <1>5, FlowEmpty
  <1>7. Body(e) = l
    BY <1>3, <1>4, <1>5, TextEmpty, ConcatEmptySeq DEF Body
  <1>8. (left \o t) \o l = left \o (t \o l)
    BY <1>5, ConcatAssociative
  <1> QED BY <1>3, <1>4, <1>5, <1>6, <1>7, <1>8 DEF Body, HandsOut

(* A chunk that is sent.                                                   *)
WithChunk(st, c) == [st EXCEPT !.tokens = Append(st.tokens, c)]

Sends(st, e, c, left) ==
    /\ e \in Streams /\ e.tokens = Append(st.tokens, c) /\ e.emitted = st.emitted /\ e.lineBuf = st.lineBuf
    /\ e.finish = st.finish /\ e.closed = st.closed /\ e.openFence = st.openFence
    /\ Flow(e, left) = Flow(st, left) \o TextOf(c)

LEMMA SendFlow ==
    ASSUME NEW st \in Streams, NEW left \in Seq(Tokens), NEW c \in Chunks, NEW e, e = WithChunk(st, c)
    PROVE  Sends(st, e, c, left)
  <1>1. st.tokens \in Seq(Chunks) /\ Append(st.tokens, c) \in Seq(Chunks)
    BY DEF Streams
  <1>2. e = [tokens |-> Append(st.tokens, c), lineBuf |-> st.lineBuf, emitted |-> st.emitted, openFence |-> st.openFence,
             finish |-> st.finish, sawContent |-> st.sawContent, closed |-> st.closed]
    BY DEF Streams, WithChunk
  <1>3. /\ e \in Streams /\ e.tokens = Append(st.tokens, c) /\ e.emitted = st.emitted /\ e.lineBuf = st.lineBuf
        /\ e.finish = st.finish /\ e.closed = st.closed /\ e.openFence = st.openFence
    BY <1>1, <1>2 DEF Streams
  <1>4. PICK n, q, more, x, y : /\ n = Len(st.tokens) /\ q = st.tokens /\ more = Append(q, c)
                                /\ x = ChunkTexts(q) /\ y = ChunkTexts(more)
    OBVIOUS
  <1>5. n \in Nat /\ Len(q) = n /\ Len(more) = n + 1 /\ more[n + 1] = c /\ (\A i \in 1..n : more[i] = q[i]) /\ more \in Seq(Chunks)
    BY <1>1, <1>4, AppendProperties
  <1>6. /\ x \in Seq(Seq(Tokens)) /\ Len(x) = n /\ \A i \in 1..n : x[i] = TextOf(q[i])
        /\ y \in Seq(Seq(Tokens)) /\ Len(y) = n + 1 /\ \A i \in 1..(n + 1) : y[i] = TextOf(more[i])
    BY <1>1, <1>4, <1>5, ChunkTextsTyped
  <1>7. /\ n < Len(y) /\ n + 1 \in 1..(n + 1) /\ \A i \in 1..n : i \in 1..(n + 1)
    BY <1>5, <1>6
  <1>8. First(y, n) = x
    <2>1. PICK f : f = First(y, n)
      OBVIOUS
    <2>2. \A i \in 1..n : y[i] = x[i] /\ x[i] \in Seq(Tokens)
      BY <1>5, <1>6, <1>7
    <2>3. f \in Seq(Seq(Tokens)) /\ Len(f) = n /\ \A i \in 1..n : f[i] = x[i]
      <3>1. f = [i \in 1..n |-> y[i]]
        BY <2>1 DEF First
      <3>2. f \in [1..n -> Seq(Tokens)] /\ \A i \in 1..n : f[i] = x[i]
        BY <2>2, <3>1
      <3> QED BY <1>5, <3>2
    <2> QED BY <1>6, <2>1, <2>3, SeqEqual
  <1>9. First(y, n + 1) = y
    BY <1>6, FlattenFirst
  <1>10. FlattenSeq(y) = FlattenSeq(x) \o TextOf(c)
    <2>1. FlattenSeq(First(y, n + 1)) = FlattenSeq(First(y, n)) \o y[n + 1]
      BY <1>5, <1>6, <1>7, FlattenPrefix
    <2>2. y[n + 1] = TextOf(c)
      BY <1>5, <1>6, <1>7
    <2> QED BY <1>8, <1>9, <2>1, <2>2
  <1>11. PICK u, p, t : u = Body(st) /\ p = FlattenSeq(x) /\ t = TextOf(c)
    OBVIOUS
  <1>12. u \in Seq(Tokens) /\ p \in Seq(Tokens) /\ t \in Seq(Tokens)
    <2>1. t \in Seq(Tokens)
      <3>1. y[n + 1] = t /\ y[n + 1] \in Seq(Tokens)
        BY <1>5, <1>6, <1>7, <1>11
      <3> QED BY <3>1
    <2> QED BY <1>4, <1>11, <2>1, BodyTyped, FlowTyped
  <1>13. left \o (u \o (p \o t)) = (left \o (u \o p)) \o t
    <2>1. u \o (p \o t) = (u \o p) \o t
      BY <1>12, TokensAssociative, Zenon
    <2>3. u \o p \in Seq(Tokens)
      BY <1>12, ConcatProperties
    <2>2. left \o ((u \o p) \o t) = (left \o (u \o p)) \o t
      <3>1. PICK v : v = u \o p
        OBVIOUS
      <3>2. v \in Seq(Tokens)
        BY <2>3, <3>1
      <3>3. left \o (v \o t) = (left \o v) \o t
        BY <1>12, <3>2, TokensAssociative, Zenon
      <3> QED BY <3>1, <3>3
    <2> QED BY <2>1, <2>2
  <1>14. Body(e) = u
    BY <1>3, <1>11 DEF Body
  <1>15. Flow(e, left) = Flow(st, left) \o TextOf(c)
    BY <1>3, <1>4, <1>10, <1>11, <1>13, <1>14 DEF Flow
  <1> QED BY <1>3, <1>15, Zenon DEF Sends
-----------------------------------------------------------------------------
(* The invariant of the stream.                                            *)
Late == {t \in Tokens : t.id \in late}
Prior == \E j \in DOMAIN blocks : blocks[j].continued
StTyped ==
    /\ stream \in Streams /\ Len(stream.tokens) <= ChanCap
    /\ tsCtxDone \in BOOLEAN /\ pc \in [Producers -> {"idle", "send"}] /\ chunk \in [Producers -> Chunks]
    /\ made \in 0..MaxChunks /\ gone \in Seq(Tokens) /\ blocks \in Seq(Blocks) /\ flushed \in BOOLEAN
StFlow == sent = Flow(stream, gone)
StLate == stream.closed => LateOnly(stream, Late)
StFences == ~flushed /\ stream.finish = "Unset" =>
    /\ \A i \in DOMAIN blocks : Odd(blocks[i].text) => \E j \in 1..i : blocks[j].continued
    /\ Whole(stream, Prior)
StInv == StTyped /\ StFlow /\ StLate /\ StFences

(* A finish reason comes from a chunk, or from Close.                      *)
FinishTaken == stream'.finish # stream.finish =>
    IF stream'.finish = "Cancelled" THEN stream.finish = "Unset" /\ ~stream.closed /\ stream'.closed
    ELSE \E i \in DOMAIN stream.tokens : stream.tokens[i].finish = stream'.finish

LEMMA StInitial == TsInit => StInv
  <1> SUFFICES ASSUME TsInit PROVE StInv
    OBVIOUS
  <1>1. stream = NewTokenStream
    BY Zenon DEF TsInit
  <1>2. tsCtxDone = FALSE /\ made = 0 /\ sent = <<>> /\ gone = <<>> /\ blocks = <<>> /\ flushed = FALSE
    BY Zenon DEF TsInit
  <1>3. pc = [p \in Producers |-> "idle"] /\ chunk = [p \in Producers |-> NoChunk]
    BY Zenon DEF TsInit
  <1>4. <<>> \in Seq(Chunks) /\ <<>> \in Seq(Tokens) /\ <<>> \in Seq(Blocks) /\ Len(<<>>) = 0
    OBVIOUS
  <1>5. /\ stream \in Streams /\ stream.tokens = <<>> /\ stream.emitted = <<>> /\ stream.lineBuf = <<>>
        /\ stream.closed = FALSE /\ stream.openFence = FALSE
    BY <1>1, <1>4 DEF NewTokenStream, Streams, ChunkFinishes
  <1>6. NoChunk \in Chunks
    BY DEF NoChunk, Chunks, ChunkFinishes
  <1>7. StTyped
    <2>1. pc \in [Producers -> {"idle", "send"}] /\ chunk \in [Producers -> Chunks]
      BY <1>3, <1>6
    <2>2. Len(stream.tokens) <= ChanCap /\ made \in 0..MaxChunks
      BY <1>2, <1>4, <1>5, StreamAssumption
    <2> QED BY <1>2, <1>4, <1>5, <2>1, <2>2 DEF StTyped
  <1>8. StFlow
    <2>1. Body(stream) = <<>>
      BY <1>4, <1>5, TextEmpty, ConcatEmptySeq DEF Body
    <2>2. Flow(stream, gone) = gone \o Body(stream)
      BY <1>2, <1>4, <1>5, FlowEmpty
    <2> QED BY <1>2, <1>4, <2>1, <2>2, ConcatEmptySeq DEF StFlow
  <1>9. StLate
    BY <1>5 DEF StLate
  <1>10. StFences
    <2>1. DOMAIN blocks = {} /\ DOMAIN stream.emitted = {}
      BY <1>2, <1>5
    <2>2. stream.openFence = Odd(stream.lineBuf)
      BY <1>5, OddEmpty
    <2> QED BY <2>1, <2>2 DEF StFences, Whole
  <1> QED BY <1>7, <1>8, <1>9, <1>10 DEF StInv

(* Steps that leave the stream alone.                                      *)
LEMMA QuietStep ==
    ASSUME StInv, stream' = stream, sent' = sent, gone' = gone, late' = late, blocks' = blocks, flushed' = flushed, StTyped'
    PROVE  StInv' /\ FinishTaken
  <1>1. StFlow'
    BY DEF StInv, StFlow
  <1>2. StLate'
    BY DEF StInv, StLate, LateOnly, Late
  <1>3. StFences'
    BY DEF StInv, StFences, Prior
  <1> QED BY <1>1, <1>2, <1>3 DEF StInv, FinishTaken

LEMMA CheckStep ==
    ASSUME StInv, NEW p \in Producers, AppendCheck(p) \/ AppendFinishOnly(p) \/ AppendCancelled(p)
    PROVE  StInv' /\ FinishTaken
  <1>1. /\ stream' = stream /\ tsCtxDone' = tsCtxDone /\ sent' = sent /\ gone' = gone /\ late' = late
        /\ blocks' = blocks /\ flushed' = flushed
    BY DEF AppendCheck, AppendFinishOnly, AppendCancelled
  <1>2. /\ pc \in [Producers -> {"idle", "send"}] /\ chunk \in [Producers -> Chunks] /\ made \in 0..MaxChunks
        /\ MaxChunks \in Nat
    BY StreamAssumption DEF StInv, StTyped
  <1>3. NoChunk \in Chunks /\ [token |-> NoToken, finish |-> "Stop"] \in Chunks
    BY DEF NoChunk, Chunks, ChunkFinishes
  <1>4. /\ pc' \in [Producers -> {"idle", "send"}] /\ chunk' \in [Producers -> Chunks] /\ made' \in 0..MaxChunks
    <2>1. CASE AppendCheck(p)
      <3>1. made' \in 0..MaxChunks /\ made + 1 \in 1..MaxChunks
        BY <1>2, <2>1 DEF AppendCheck
      <3>2. ASSUME NEW k \in Kinds, NEW f \in ChunkFinishes
            PROVE  [token |-> [id |-> made + 1, kind |-> k], finish |-> f] \in Chunks
        BY <3>1 DEF Chunks, Tokens
      <3>3. \/ pc' = pc /\ chunk' = chunk
            \/ \E k \in Kinds, f \in ChunkFinishes :
                  /\ chunk' = [chunk EXCEPT ![p] = [token |-> [id |-> made + 1, kind |-> k], finish |-> f]]
                  /\ pc' = [pc EXCEPT ![p] = "send"]
        BY <2>1, Zenon DEF AppendCheck
      <3> QED BY <1>2, <3>1, <3>2, <3>3
    <2>2. CASE AppendFinishOnly(p)
      BY <1>2, <1>3, <2>2 DEF AppendFinishOnly
    <2>3. CASE AppendCancelled(p)
      BY <1>2, <1>3, <2>3 DEF AppendCancelled
    <2> QED BY <2>1, <2>2, <2>3
  <1>5. StTyped'
    BY <1>1, <1>4 DEF StInv, StTyped
  <1> QED BY <1>1, <1>5, QuietStep

LEMMA SendStep ==
    ASSUME StInv, NEW p \in Producers, AppendSend(p)
    PROVE  StInv' /\ FinishTaken
  <1>1. PICK st, c : st = stream /\ c = chunk[p]
    OBVIOUS
  <1>2. st \in Streams /\ gone \in Seq(Tokens) /\ c \in Chunks
    BY <1>1 DEF StInv, StTyped
  <1>3. stream' = WithChunk(st, c)
    BY <1>1 DEF AppendSend, WithChunk
  <1>4. PICK e : e = stream'
    OBVIOUS
  <1>5. /\ e \in Streams /\ e.tokens = Append(st.tokens, c) /\ e.emitted = st.emitted /\ e.lineBuf = st.lineBuf
        /\ e.finish = st.finish /\ e.closed = st.closed /\ e.openFence = st.openFence
        /\ Flow(e, gone) = Flow(st, gone) \o TextOf(c)
    <2>1. Sends(st, e, c, gone)
      BY <1>2, <1>3, <1>4, SendFlow
    <2> QED BY <2>1, Zenon DEF Sends
  <1>6. gone' = gone /\ blocks' = blocks /\ flushed' = flushed /\ made' = made /\ tsCtxDone' = tsCtxDone
    BY DEF AppendSend
  <1>7. StTyped'
    <2>1. pc' \in [Producers -> {"idle", "send"}]
      BY DEF AppendSend, StInv, StTyped
    <2>2. chunk' \in [Producers -> Chunks]
      <3>1. NoChunk \in Chunks
        BY DEF NoChunk, Chunks, ChunkFinishes
      <3> QED BY <3>1 DEF AppendSend, StInv, StTyped
    <2>3. Len(e.tokens) <= ChanCap
      <3>1. st.tokens \in Seq(Chunks) /\ Len(st.tokens) < ChanCap
        BY <1>1, <1>2 DEF Streams, AppendSend
      <3>2. Len(e.tokens) = Len(st.tokens) + 1 /\ Len(st.tokens) \in Nat
        BY <1>2, <1>5, <3>1
      <3> QED BY <3>1, <3>2, StreamAssumption
    <2> QED BY <1>4, <1>5, <1>6, <2>1, <2>2, <2>3 DEF StInv, StTyped
  <1>8. StFlow'
    <2>1. sent = Flow(st, gone) /\ sent \in Seq(Tokens)
      BY <1>1, <1>2, FlowTyped DEF StInv, StFlow
    <2>2. sent' = sent \o TextOf(c)
      <3>1. CASE c.token = NoToken
        <4>1. sent' = sent
          BY <1>1, <3>1 DEF AppendSend
        <4> QED BY <2>1, <3>1, <4>1, ConcatEmptySeq DEF TextOf
      <3>2. CASE c.token # NoToken
        <4>1. sent' = Append(sent, c.token)
          BY <1>1, <3>2 DEF AppendSend
        <4>2. c.token \in Tokens
          BY <1>2, <3>2 DEF Chunks
        <4> QED BY <2>1, <3>2, <4>1, <4>2, AppendIsConcat DEF TextOf
      <3> QED BY <3>1, <3>2
    <2> QED BY <1>4, <1>5, <1>6, <2>1, <2>2 DEF StFlow
  <1>9. StLate'
    <2>1. late \subseteq late' /\ (st.closed /\ c.token # NoToken => c.token.id \in late')
      BY <1>1 DEF AppendSend
    <2>2. PICK L, M : L = Late /\ M = Late'
      OBVIOUS
    <2>3. L \subseteq M
      BY <2>1, <2>2 DEF Late
    <2>4. SUFFICES ASSUME st.closed PROVE LateOnly(e, M)
      BY <1>4, <1>5, <2>2 DEF StLate
    <2>5. LateOnly(st, L)
      BY <1>1, <2>2, <2>4 DEF StInv, StLate
    <2>6. e.lineBuf \in Seq(M)
      <3>1. st.lineBuf \in Seq(L)
        BY <2>5 DEF LateOnly
      <3> QED BY <1>5, <2>3, <3>1
    <2>7. c.token = NoToken \/ c.token \in M
      <3>1. c.token # NoToken => c.token \in Tokens
        BY <1>2 DEF Chunks
      <3> QED BY <2>1, <2>2, <2>4, <3>1 DEF Late
    <2>8. ASSUME NEW i \in DOMAIN e.tokens PROVE e.tokens[i].token = NoToken \/ e.tokens[i].token \in M
      <3>1. PICK n : n = Len(st.tokens)
        OBVIOUS
      <3>2. st.tokens \in Seq(Chunks) /\ n \in Nat /\ DOMAIN st.tokens = 1..n
        BY <1>2, <3>1 DEF Streams
      <3>3. DOMAIN e.tokens = 1..(n + 1) /\ e.tokens[n + 1] = c /\ \A k \in 1..n : e.tokens[k] = st.tokens[k]
        BY <1>2, <1>5, <3>1, <3>2, AppendProperties
      <3>4. i \in 1..n \/ i = n + 1
        BY <3>2, <3>3
      <3>5. \A k \in 1..n : st.tokens[k].token = NoToken \/ st.tokens[k].token \in L
        BY <2>5, <3>2 DEF LateOnly
      <3> QED BY <2>3, <2>7, <3>3, <3>4, <3>5
    <2> QED BY <2>6, <2>8 DEF LateOnly
  <1>10. StFences'
    <2>1. PICK prior : prior = Prior
      OBVIOUS
    <2>2. Whole(st, prior) => Whole(e, prior)
      BY <1>5, Zenon DEF Whole
    <2>3. Prior' = prior
      BY <1>6, <2>1 DEF Prior
    <2> QED BY <1>1, <1>4, <1>5, <1>6, <2>1, <2>2, <2>3 DEF StInv, StFences
  <1>11. FinishTaken
    BY <1>1, <1>4, <1>5 DEF FinishTaken
  <1> QED BY <1>7, <1>8, <1>9, <1>10, <1>11 DEF StInv
(* Blocks that left the stream and blocks it hands out.                    *)
LEMMA JoinBlocks ==
    ASSUME NEW bs \in Seq(Blocks), NEW d \in Streams, d.finish = "Unset", NEW prior \in BOOLEAN, NEW all,
           prior = (\E j \in DOMAIN bs : bs[j].continued), Whole(d, prior), all = bs \o d.emitted,
           \A i \in DOMAIN bs : Odd(bs[i].text) => \E j \in 1..i : bs[j].continued
    PROVE  /\ all \in Seq(Blocks)
           /\ \A i \in DOMAIN all : Odd(all[i].text) => \E j \in 1..i : all[j].continued
           /\ (prior \/ \E j \in DOMAIN d.emitted : d.emitted[j].continued) => \E j \in DOMAIN all : all[j].continued
  <1>1. PICK em, n, k : em = d.emitted /\ n = Len(bs) /\ k = Len(em)
    OBVIOUS
  <1>2. em \in Seq(Blocks)
    BY <1>1 DEF Streams
  <1>3. n \in Nat /\ k \in Nat /\ DOMAIN bs = 1..n /\ DOMAIN em = 1..k
    BY <1>1, <1>2
  <1>4. /\ all \in Seq(Blocks) /\ DOMAIN all = 1..(n + k) /\ (\A i \in 1..n : all[i] = bs[i])
        /\ \A i \in 1..k : all[n + i] = em[i]
    BY <1>1, <1>2, <1>3, ConcatProperties
  <1>5. ASSUME NEW j \in 1..n, bs[j].continued PROVE j \in 1..(n + k) /\ all[j].continued
    BY <1>3, <1>4, <1>5
  <1>6. ASSUME NEW j \in 1..k, em[j].continued PROVE n + j \in 1..(n + k) /\ all[n + j].continued
    BY <1>3, <1>4, <1>6
  <1>7. ASSUME NEW i \in 1..(n + k), Odd(all[i].text) PROVE \E j \in 1..i : all[j].continued
    <2>1. CASE i \in 1..n
      <3>1. PICK j \in 1..i : bs[j].continued
        BY <1>3, <1>4, <1>7, <2>1
      <3>2. j \in 1..n
        BY <1>3, <2>1
      <3> QED BY <1>5, <3>1, <3>2
    <2>2. CASE i \notin 1..n
      <3>1. PICK m : m = i - n
        OBVIOUS
      <3>2. m \in 1..k /\ i = n + m
        BY <1>3, <2>2, <3>1
      <3>3. Odd(em[m].text)
        BY <1>4, <1>7, <3>2
      <3>4. prior \/ \E j \in 1..m : em[j].continued
        BY <1>1, <1>3, <3>2, <3>3, Zenon DEF Whole
      <3>5. CASE prior
        <4>1. PICK j \in 1..n : bs[j].continued
          BY <1>3, <3>5
        <4>2. j \in 1..i
          BY <1>3, <3>2
        <4> QED BY <1>5, <4>1, <4>2
      <3>6. CASE \E j \in 1..m : em[j].continued
        <4>1. PICK j \in 1..m : em[j].continued
          BY <3>6
        <4>2. j \in 1..k /\ n + j \in 1..i
          BY <1>3, <3>2
        <4> QED BY <1>6, <4>1, <4>2
      <3> QED BY <3>4, <3>5, <3>6
    <2> QED BY <2>1, <2>2
  <1>8. (prior \/ \E j \in DOMAIN em : em[j].continued) => \E j \in 1..(n + k) : all[j].continued
    BY <1>3, <1>5, <1>6
  <1> QED BY <1>1, <1>4, <1>7, <1>8

LEMMA DrainStep == ASSUME StInv, Drain PROVE StInv' /\ FinishTaken
  <1>1. PICK st, d, prior, L, e, left : /\ st = stream /\ d = drainChunks(st) /\ prior = Prior /\ L = Late
                                        /\ e = Emptied(d) /\ left = gone
    OBVIOUS
  <1>2. st \in Streams /\ left \in Seq(Tokens) /\ prior \in BOOLEAN /\ blocks \in Seq(Blocks)
    BY <1>1 DEF StInv, StTyped, Prior
  <1>3. /\ stream' = e /\ gone' = left \o Text(d.emitted) /\ blocks' = blocks \o d.emitted
        /\ tsCtxDone' = tsCtxDone /\ pc' = pc /\ chunk' = chunk /\ made' = made /\ sent' = sent /\ late' = late
        /\ flushed' = flushed
    BY <1>1 DEF Drain, afterDrain, Emptied
  <1>4. /\ d \in Streams /\ d.tokens = <<>> /\ d.closed = st.closed
        /\ Body(d) = Body(st) \o FlattenSeq(ChunkTexts(st.tokens))
        /\ d.finish = st.finish \/ \E i \in DOMAIN st.tokens : st.tokens[i].finish = d.finish
        /\ st.finish # "Unset" => d.finish # "Unset"
        /\ Whole(st, prior) => Whole(d, prior)
        /\ LateOnly(st, L) => d.lineBuf \in Seq(L)
    BY <1>1, <1>2, DrainFacts
  <1>5. /\ e \in Streams /\ e.emitted = <<>> /\ e.lineBuf = d.lineBuf /\ e.tokens = d.tokens
        /\ e.finish = d.finish /\ e.closed = d.closed /\ e.openFence = d.openFence
        /\ left \o Text(d.emitted) \in Seq(Tokens)
        /\ Flow(e, left \o Text(d.emitted)) = left \o Body(d)
    <2>1. HandsOut(d, e, left, left \o Text(d.emitted))
      BY <1>1, <1>2, <1>4, HandOut
    <2> QED BY <2>1 DEF HandsOut
  <1>6. StTyped'
    <2>1. Len(<<>>) = 0 /\ Len(e.tokens) <= ChanCap
      BY <1>4, <1>5, StreamAssumption
    <2>2. blocks' \in Seq(Blocks)
      <3>1. d.emitted \in Seq(Blocks)
        BY <1>4 DEF Streams
      <3> QED BY <1>2, <1>3, <3>1, ConcatProperties
    <2> QED BY <1>3, <1>5, <2>1, <2>2 DEF StInv, StTyped
  <1>7. StFlow'
    <2>1. sent = Flow(st, left)
      BY <1>1 DEF StInv, StFlow
    <2> QED BY <1>3, <1>4, <1>5, <2>1 DEF StFlow, Flow
  <1>8. StLate'
    <2>1. Late' = L
      BY <1>1, <1>3 DEF Late
    <2>2. SUFFICES ASSUME st.closed PROVE LateOnly(e, L)
      BY <1>3, <1>4, <1>5, <2>1 DEF StLate
    <2>3. LateOnly(st, L)
      BY <1>1, <2>2 DEF StInv, StLate
    <2> QED BY <1>4, <1>5, <2>3 DEF LateOnly
  <1>9. StFences'
    <2>1. SUFFICES ASSUME ~flushed, d.finish = "Unset"
                   PROVE  /\ \A i \in DOMAIN blocks' : Odd(blocks'[i].text) => \E j \in 1..i : blocks'[j].continued
                          /\ Whole(e, Prior')
      BY <1>3, <1>5 DEF StFences
    <2>2. st.finish = "Unset"
      BY <1>4, <2>1
    <2>3. /\ \A i \in DOMAIN blocks : Odd(blocks[i].text) => \E j \in 1..i : blocks[j].continued
          /\ Whole(st, prior)
      BY <1>1, <2>1, <2>2 DEF StInv, StFences
    <2>4. Whole(d, prior)
      BY <1>4, <2>3
    <2>5. PICK bs, all : bs = blocks /\ all = blocks'
      OBVIOUS
    <2>6. /\ \A i \in DOMAIN all : Odd(all[i].text) => \E j \in 1..i : all[j].continued
          /\ (prior \/ \E j \in DOMAIN d.emitted : d.emitted[j].continued) => \E j \in DOMAIN all : all[j].continued
      <3>1. bs \in Seq(Blocks) /\ all = bs \o d.emitted
        BY <1>2, <1>3, <2>5
      <3>2. prior = (\E j \in DOMAIN bs : bs[j].continued)
        BY <1>1, <2>5 DEF Prior
      <3>3. \A i \in DOMAIN bs : Odd(bs[i].text) => \E j \in 1..i : bs[j].continued
        BY <2>3, <2>5
      <3> QED BY <1>2, <1>4, <2>1, <2>4, <3>1, <3>2, <3>3, JoinBlocks
    <2>7. d.openFence # Odd(d.lineBuf) => prior \/ \E j \in DOMAIN d.emitted : d.emitted[j].continued
      BY <2>1, <2>4, Zenon DEF Whole
    <2>8. Prior' = \E j \in DOMAIN all : all[j].continued
      BY <2>5 DEF Prior
    <2>9. DOMAIN e.emitted = {}
      BY <1>5
    <2>10. Whole(e, Prior')
      BY <1>5, <2>6, <2>7, <2>8, <2>9, Zenon DEF Whole
    <2> QED BY <2>5, <2>6, <2>10
  <1>10. FinishTaken
    <2>1. ASSUME d.finish # st.finish, d.finish = "Cancelled" PROVE FALSE
      <3>1. PICK i \in DOMAIN st.tokens : st.tokens[i].finish = "Cancelled"
        BY <1>4, <2>1
      <3>2. st.tokens[i] \in Chunks
        BY <1>2 DEF Streams
      <3> QED BY <3>1, <3>2 DEF Chunks, ChunkFinishes
    <2> QED BY <1>1, <1>3, <1>4, <1>5, <2>1 DEF FinishTaken
  <1> QED BY <1>6, <1>7, <1>8, <1>9, <1>10 DEF StInv

LEMMA FlushStep == ASSUME StInv, Flush PROVE StInv' /\ FinishTaken
  <1>1. PICK st, d, f, L, e, left : /\ st = stream /\ d = drainChunks(st) /\ f = flushRest(d) /\ L = Late
                                    /\ e = Emptied(f) /\ left = gone
    OBVIOUS
  <1>2. st \in Streams /\ left \in Seq(Tokens)
    BY <1>1 DEF StInv, StTyped
  <1>3. /\ stream' = e /\ gone' = left \o Text(f.emitted) /\ blocks' = blocks
        /\ tsCtxDone' = tsCtxDone /\ pc' = pc /\ chunk' = chunk /\ made' = made /\ sent' = sent /\ late' = late
        /\ flushed' = TRUE
    BY <1>1 DEF Flush, afterFlush, Flushed, Emptied
  <1>4. /\ d \in Streams /\ d.tokens = <<>> /\ d.closed = st.closed
        /\ Body(d) = Body(st) \o FlattenSeq(ChunkTexts(st.tokens))
        /\ d.finish = st.finish \/ \E i \in DOMAIN st.tokens : st.tokens[i].finish = d.finish
    BY <1>1, <1>2, DrainFacts
  <1>5. /\ f \in Streams /\ Body(f) = Body(d) /\ f.lineBuf = <<>> /\ f.tokens = <<>>
        /\ f.finish = d.finish /\ f.closed = d.closed
    BY <1>1, <1>4, RestFacts
  <1>6. /\ e \in Streams /\ e.emitted = <<>> /\ e.lineBuf = <<>> /\ e.tokens = <<>>
        /\ e.finish = f.finish /\ e.closed = f.closed
        /\ left \o Text(f.emitted) \in Seq(Tokens)
        /\ Flow(e, left \o Text(f.emitted)) = left \o Body(f)
    <2>1. HandsOut(f, e, left, left \o Text(f.emitted))
      BY <1>1, <1>2, <1>5, HandOut
    <2> QED BY <1>5, <2>1 DEF HandsOut
  <1>7. StTyped'
    <2>1. Len(<<>>) = 0 /\ Len(e.tokens) <= ChanCap
      BY <1>6, StreamAssumption
    <2> QED BY <1>3, <1>6, <2>1 DEF StInv, StTyped
  <1>8. StFlow'
    <2>1. sent = Flow(st, left)
      BY <1>1 DEF StInv, StFlow
    <2> QED BY <1>3, <1>4, <1>5, <1>6, <2>1 DEF StFlow, Flow
  <1>9. StLate'
    <2>1. LateOnly(e, Late')
      BY <1>6 DEF LateOnly
    <2> QED BY <1>3, <2>1 DEF StLate
  <1>10. StFences'
    BY <1>3 DEF StFences
  <1>11. FinishTaken
    <2>1. ASSUME d.finish # st.finish, d.finish = "Cancelled" PROVE FALSE
      <3>1. PICK i \in DOMAIN st.tokens : st.tokens[i].finish = "Cancelled"
        BY <1>4, <2>1
      <3>2. st.tokens[i] \in Chunks
        BY <1>2 DEF Streams
      <3> QED BY <3>1, <3>2 DEF Chunks, ChunkFinishes
    <2> QED BY <1>1, <1>3, <1>4, <1>5, <1>6, <2>1 DEF FinishTaken
  <1> QED BY <1>7, <1>8, <1>9, <1>10, <1>11 DEF StInv

LEMMA CloseStep == ASSUME StInv, Close PROVE StInv' /\ FinishTaken
  <1>1. PICK st, r, d, x, e, left : /\ st = stream /\ r = [st EXCEPT !.closed = TRUE] /\ d = drainChunks(r)
                                    /\ x = (IF d.finish = "Unset" THEN [d EXCEPT !.finish = "Cancelled"] ELSE d)
                                    /\ e = flushRest(x) /\ left = gone
    OBVIOUS
  <1>2. st \in Streams /\ left \in Seq(Tokens) /\ ~st.closed
    BY <1>1 DEF StInv, StTyped, Close
  <1>3. /\ stream' = e /\ gone' = left /\ blocks' = blocks
        /\ tsCtxDone' = TRUE /\ pc' = pc /\ chunk' = chunk /\ made' = made /\ sent' = sent /\ late' = late
        /\ flushed' = flushed
    BY <1>1, <1>2 DEF Close, afterClose
  <1>4. r = [tokens |-> st.tokens, lineBuf |-> st.lineBuf, emitted |-> st.emitted, openFence |-> st.openFence,
             finish |-> st.finish, sawContent |-> st.sawContent, closed |-> TRUE]
    BY <1>1, <1>2 DEF Streams
  <1>5. /\ r \in Streams /\ r.tokens = st.tokens /\ r.lineBuf = st.lineBuf /\ r.emitted = st.emitted
        /\ r.finish = st.finish /\ r.closed = TRUE
    BY <1>2, <1>4 DEF Streams
  <1>6. /\ d \in Streams /\ d.tokens = <<>> /\ d.closed = TRUE
        /\ Body(d) = Body(r) \o FlattenSeq(ChunkTexts(r.tokens))
        /\ d.finish = r.finish \/ \E i \in DOMAIN r.tokens : r.tokens[i].finish = d.finish
        /\ r.finish # "Unset" => d.finish # "Unset"
    <2>1. d = drainChunks(r) /\ r \in Streams /\ TRUE \in BOOLEAN
      BY <1>1, <1>5
    <2>2. /\ d \in Streams /\ d.tokens = <<>> /\ d.closed = r.closed
          /\ Body(d) = Body(r) \o FlattenSeq(ChunkTexts(r.tokens))
          /\ d.finish = r.finish \/ \E i \in DOMAIN r.tokens : r.tokens[i].finish = d.finish
          /\ r.finish # "Unset" => d.finish # "Unset"
      BY <2>1, DrainFacts
    <2> QED BY <1>5, <2>2
  <1>7. /\ x \in Streams /\ Body(x) = Body(d) /\ x.tokens = <<>> /\ x.closed = TRUE
        /\ x.finish = IF d.finish = "Unset" THEN "Cancelled" ELSE d.finish
    <2>1. CASE d.finish = "Unset"
      <3>1. x = [tokens |-> d.tokens, lineBuf |-> d.lineBuf, emitted |-> d.emitted, openFence |-> d.openFence,
                 finish |-> "Cancelled", sawContent |-> d.sawContent, closed |-> d.closed]
        BY <1>1, <1>6, <2>1 DEF Streams
      <3>2. /\ x \in Streams /\ x.emitted = d.emitted /\ x.lineBuf = d.lineBuf /\ x.tokens = <<>> /\ x.closed = TRUE
            /\ x.finish = "Cancelled"
        BY <1>6, <3>1 DEF Streams
      <3> QED BY <2>1, <3>2 DEF Body
    <2>2. CASE d.finish # "Unset"
      BY <1>1, <1>6, <2>2
    <2> QED BY <2>1, <2>2
  <1>8. /\ e \in Streams /\ Body(e) = Body(x) /\ e.lineBuf = <<>> /\ e.tokens = <<>>
        /\ e.finish = x.finish /\ e.closed = TRUE
    BY <1>1, <1>7, RestFacts
  <1>9. StTyped'
    <2>1. Len(<<>>) = 0 /\ Len(e.tokens) <= ChanCap
      BY <1>8, StreamAssumption
    <2> QED BY <1>3, <1>8, <2>1, <1>2, <1>1 DEF StInv, StTyped
  <1>10. StFlow'
    <2>1. sent = Flow(st, left)
      BY <1>1 DEF StInv, StFlow
    <2>2. Body(r) = Body(st)
      BY <1>5 DEF Body
    <2>3. Flow(e, left) = left \o Body(e)
      BY <1>2, <1>8, FlowEmpty
    <2> QED BY <1>3, <1>5, <1>6, <1>7, <1>8, <2>1, <2>2, <2>3 DEF StFlow, Flow
  <1>11. StLate'
    <2>1. LateOnly(e, Late')
      BY <1>8 DEF LateOnly
    <2> QED BY <1>3, <2>1 DEF StLate
  <1>12. StFences'
    <2>1. e.finish # "Unset"
      BY <1>7, <1>8
    <2> QED BY <1>3, <2>1 DEF StFences
  <1>13. FinishTaken
    <2>1. ASSUME d.finish # st.finish, d.finish = "Cancelled" PROVE FALSE
      <3>1. PICK i \in DOMAIN st.tokens : st.tokens[i].finish = "Cancelled"
        BY <1>5, <1>6, <2>1
      <3>2. st.tokens[i] \in Chunks
        BY <1>2 DEF Streams
      <3> QED BY <3>1, <3>2 DEF Chunks, ChunkFinishes
    <2>2. d.finish = st.finish \/ \E i \in DOMAIN st.tokens : st.tokens[i].finish = d.finish
      BY <1>5, <1>6
    <2>3. stream.finish = st.finish /\ stream.closed = FALSE /\ stream'.closed = TRUE /\ stream.tokens = st.tokens
      BY <1>1, <1>2, <1>3, <1>8 DEF Streams
    <2>4. CASE d.finish = "Unset"
      <3>1. stream'.finish = "Cancelled" /\ st.finish = "Unset"
        BY <1>3, <1>5, <1>6, <1>7, <1>8, <2>4
      <3> QED BY <2>3, <3>1 DEF FinishTaken
    <2>5. CASE d.finish # "Unset"
      <3>1. stream'.finish = d.finish
        BY <1>3, <1>7, <1>8, <2>5
      <3> QED BY <2>1, <2>2, <2>3, <3>1 DEF FinishTaken
    <2> QED BY <2>4, <2>5
  <1> QED BY <1>9, <1>10, <1>11, <1>12, <1>13 DEF StInv

(* However sends, drains, flushes and Close interleave, and whatever the   *)
(* capacities of the channel and of the line buffer (AppendChunk, Drain,   *)
(* Flush, Close, processChunkUnsafe): every token that was accepted is     *)
(* once and in order among what left the stream, what it holds and what    *)
(* waits; nothing stays behind Close but what was sent too late; a fence   *)
(* is torn apart only by the cap or the end; and a finish reason comes     *)
(* from a chunk, or from Close where there was none.                       *)
THEOREM StreamTheorem == TsSpec => StreamContract
  <1>1. TsInit => StInv
    BY StInitial
  <1>2. ASSUME StInv, [TsNext]_tsVars PROVE StInv' /\ FinishTaken
    <2>1. ASSUME NEW p \in Producers, AppendCheck(p) \/ AppendFinishOnly(p) \/ AppendSend(p) \/ AppendCancelled(p)
          PROVE  StInv' /\ FinishTaken
      BY <1>2, <2>1, CheckStep, SendStep
    <2>2. CASE Drain
      BY <1>2, <2>2, DrainStep
    <2>3. CASE Flush
      BY <1>2, <2>3, FlushStep
    <2>4. CASE Close
      BY <1>2, <2>4, CloseStep
    <2>5. CASE CancelCtx
      <3>1. StTyped'
        BY <1>2, <2>5 DEF CancelCtx, StInv, StTyped
      <3> QED BY <1>2, <2>5, <3>1, QuietStep DEF CancelCtx
    <2>6. CASE Done \/ UNCHANGED tsVars
      <3>1. /\ stream' = stream /\ tsCtxDone' = tsCtxDone /\ pc' = pc /\ chunk' = chunk /\ made' = made /\ sent' = sent
            /\ gone' = gone /\ late' = late /\ blocks' = blocks /\ flushed' = flushed
        BY <2>6 DEF Done, tsVars
      <3>2. StTyped'
        BY <1>2, <3>1 DEF StInv, StTyped
      <3> QED BY <1>2, <3>1, <3>2, QuietStep
    <2> QED BY <1>2, <2>1, <2>2, <2>3, <2>4, <2>5, <2>6, Zenon DEF TsNext
  <1>3. StInv => TsTypeOK /\ Conservation /\ CloseFlushes /\ FenceIntegrity
    <2> SUFFICES ASSUME StInv PROVE TsTypeOK /\ Conservation /\ CloseFlushes /\ FenceIntegrity
      OBVIOUS
    <2>1. stream \in Streams /\ gone \in Seq(Tokens) /\ stream.tokens \in Seq(Chunks) /\ stream.lineBuf \in Seq(Tokens)
      BY DEF StInv, StTyped, Streams
    <2>2. TsTypeOK
      BY DEF StInv, StTyped, Streams, TsTypeOK
    <2>3. Pending = FlattenSeq(ChunkTexts(stream.tokens))
      BY DEF Pending, ChunkTexts
    <2>4. Conservation
      BY <2>1, <2>3, FlowTyped DEF StInv, StFlow, Conservation
    <2>5. CloseFlushes
      <3>1. SUFFICES ASSUME stream.closed, NEW t \in ToSet(stream.lineBuf) \cup ToSet(Pending) PROVE t.id \in late
        BY DEF CloseFlushes
      <3>2. LateOnly(stream, Late)
        BY <3>1 DEF StInv, StLate
      <3>3. PICK q, x, L : q = stream.tokens /\ x = ChunkTexts(q) /\ L = Late
        OBVIOUS
      <3>4. /\ x \in Seq(Seq(Tokens)) /\ Len(x) = Len(q) /\ \A i \in 1..Len(q) : x[i] = TextOf(q[i])
        BY <2>1, <3>3, ChunkTextsTyped
      <3>5. \A i \in 1..Len(q) : x[i] \in Seq(L)
        <4>1. SUFFICES ASSUME NEW i \in 1..Len(q) PROVE x[i] \in Seq(L)
          OBVIOUS
        <4>2. q[i].token = NoToken \/ q[i].token \in L
          BY <2>1, <3>2, <3>3 DEF LateOnly
        <4>3. <<>> \in Seq(L) /\ (q[i].token \in L => <<q[i].token>> \in Seq(L))
          OBVIOUS
        <4> QED BY <3>4, <4>2, <4>3 DEF TextOf
      <3>6. x \in Seq(Seq(L))
        <4>1. PICK n : n = Len(q)
          OBVIOUS
        <4>2. x \in [1..n -> Seq(Tokens)] /\ n \in Nat
          BY <2>1, <3>3, <3>4, <4>1
        <4>3. x \in [1..n -> Seq(L)]
          BY <3>5, <4>1, <4>2
        <4> QED BY <4>2, <4>3
      <3>7. Pending \in Seq(L)
        BY <2>3, <3>3, <3>6, FlattenTyped
      <3>8. stream.lineBuf \in Seq(L)
        BY <3>2, <3>3 DEF LateOnly
      <3>9. t \in L
        BY <3>1, <3>7, <3>8 DEF ToSet
      <3> QED BY <3>3, <3>9 DEF Late
    <2>6. FenceIntegrity
      <3>1. SUFFICES ASSUME NEW i \in DOMAIN blocks, FencesIn(blocks[i]) % 2 = 1, stream.finish = "Unset", ~flushed
                     PROVE  blocks[i].continued \/ \E j \in 1..(i - 1) : blocks[j].continued
        BY Zenon DEF FenceIntegrity
      <3>2. Odd(blocks[i].text)
        BY <3>1 DEF Odd, FencesIn
      <3>3. PICK j \in 1..i : blocks[j].continued
        BY <3>1, <3>2, Zenon DEF StInv, StFences
      <3>4. i \in Nat
        BY DEF StInv, StTyped
      <3>5. j = i \/ j \in 1..(i - 1)
        BY <3>4
      <3> QED BY <3>3, <3>5
    <2> QED BY <2>2, <2>4, <2>5, <2>6
  <1>4. TsSpec => []StInv
    BY <1>1, <1>2, PTL DEF TsSpec
  <1>5. StInv /\ [TsNext]_tsVars => [FinishTaken]_tsVars
    BY <1>2
  <1>6. TsSpec => [][FinishTaken]_tsVars
    BY <1>4, <1>5, PTL DEF TsSpec
  <1>7. TsSpec => FinishFromChunk
    BY <1>6 DEF FinishFromChunk, FinishTaken
  <1> QED BY <1>3, <1>4, <1>7, PTL DEF StreamContract
-----------------------------------------------------------------------------
(* The scrollback.                                                         *)

(* The table of prefix sums.                                               *)
Sums(h, o) ==
    /\ o \in [1..(Len(h) + 1) -> Nat] /\ o[1] = 0
    /\ \A i \in 1..Len(h) : o[i + 1] = o[i] + h[i]

HeightTable(h, o, N) ==
    /\ o \in [1..(N + 1) -> Nat] /\ o[1] = 0 /\ Len(o) = N + 1 /\ o[N + 1] \in Nat
    /\ \A k \in 1..(N + 1) : o[k] \in Nat
    /\ \A k \in 1..N : h[k] \in Nat /\ o[k + 1] = o[k] + h[k]

LEMMA SumsFacts == ASSUME NEW h \in Seq(Nat), NEW o, Sums(h, o) PROVE HeightTable(h, o, Len(h))
  <1>0. PICK N : N = Len(h) /\ N \in Nat
    OBVIOUS
  <1>1. o \in [1..(N + 1) -> Nat] /\ o[1] = 0
    BY <1>0 DEF Sums
  <1>2. \A k \in 1..N : o[k + 1] = o[k] + h[k]
    BY <1>0 DEF Sums
  <1>3. N + 1 \in Nat /\ N + 1 \in 1..(N + 1)
    BY <1>0
  <1>4. Len(o) = N + 1
    BY <1>1, <1>3
  <1>5. \A k \in 1..(N + 1) : o[k] \in Nat
    BY <1>0, <1>1
  <1>6. \A k \in 1..N : h[k] \in Nat
    BY <1>0
  <1> QED BY <1>0, <1>1, <1>2, <1>3, <1>4, <1>5, <1>6 DEF HeightTable

LEMMA SumsExist ==
    ASSUME NEW h \in Seq(Nat), NEW N \in Nat, N = Len(h)
    PROVE  \E o : Sums(h, o)
  <1> DEFINE Upto(m, g) == g[1] = 0 /\ \A i \in 1..m : g[i + 1] = g[i] + h[i]
             T == {m \in 0..N : ~\E g \in [1..(m + 1) -> Nat] : Upto(m, g)}
  <1>1. T = {}
    <2> SUFFICES ASSUME T # {} PROVE FALSE
      OBVIOUS
    <2>1. T \subseteq Nat
      OBVIOUS
    <2> HIDE DEF T
    <2>2. PICK m \in T : \A k \in T : m <= k
      BY <2>1, LeastNat
    <2>3. m \in 0..N /\ m \in Nat
      BY DEF T
    <2>4. CASE m = 0
      <3>1. PICK g : g = [i \in 1..1 |-> 0]
        OBVIOUS
      <3>2. g \in [1..(m + 1) -> Nat] /\ Upto(m, g)
        BY <2>4, <3>1
      <3> QED BY <2>3, <3>2 DEF T
    <2>5. CASE m # 0
      <3>1. m - 1 \in 0..N /\ m - 1 \notin T /\ m \in 1..N /\ (m - 1) + 1 = m
        BY <2>2, <2>3, <2>5
      <3>2. PICK g \in [1..m -> Nat] : Upto(m - 1, g)
        BY <3>1 DEF T
      <3>3. PICK x : x = g[m] + h[m]
        OBVIOUS
      <3>4. x \in Nat
        BY <3>1, <3>2, <3>3
      <3>5. PICK f : f = [i \in 1..(m + 1) |-> IF i = m + 1 THEN x ELSE g[i]]
        OBVIOUS
      <3>6. f \in [1..(m + 1) -> Nat] /\ f[m + 1] = x /\ \A i \in 1..m : f[i] = g[i]
        BY <2>3, <3>2, <3>4, <3>5
      <3>7. f[1] = 0
        <4>1. 1 \in 1..m
          BY <3>1
        <4> QED BY <3>2, <3>6, <4>1
      <3>8. ASSUME NEW i \in 1..m PROVE f[i + 1] = f[i] + h[i]
        <4>1. CASE i = m
          BY <3>3, <3>6, <4>1
        <4>2. CASE i # m
          <5>1. i \in 1..(m - 1) /\ i + 1 \in 1..m
            BY <2>3, <4>2
          <5> QED BY <3>2, <3>6, <5>1
        <4> QED BY <4>1, <4>2
      <3>9. Upto(m, f)
        BY <3>7, <3>8
      <3> QED BY <2>3, <3>6, <3>9 DEF T
    <2> QED BY <2>4, <2>5
  <1>2. PICK g \in [1..(N + 1) -> Nat] : Upto(N, g)
    <2>1. N \in 0..N
      OBVIOUS
    <2> QED BY <1>1, <2>1
  <1> QED BY <1>2 DEF Sums

LEMMA RebuildSums == ASSUME NEW h \in Seq(Nat) PROVE Sums(h, rebuildOffsets(h))
  <1> DEFINE off == CHOOSE f : f = [i \in 1..(Len(h)+1) |-> IF i = 1 THEN 0 ELSE f[i-1] + h[i-1]]
  <1>1. PICK o : Sums(h, o)
    BY SumsExist
  <1>2. PICK N : N = Len(h) /\ N \in Nat
    OBVIOUS
  <1>3. ASSUME NEW i \in 1..(N + 1) PROVE o[i] = IF i = 1 THEN 0 ELSE o[i-1] + h[i-1]
    <2>1. CASE i = 1
      BY <1>1, <2>1 DEF Sums
    <2>2. CASE i # 1
      <3>1. i - 1 \in 1..N /\ (i - 1) + 1 = i
        BY <1>2, <2>2
      <3> QED BY <1>1, <1>2, <2>2, <3>1 DEF Sums
    <2> QED BY <2>1, <2>2
  <1>4. o = [i \in 1..(N + 1) |-> o[i]]
    BY <1>1, <1>2 DEF Sums
  <1>5. [i \in 1..(N + 1) |-> o[i]] = [i \in 1..(N + 1) |-> IF i = 1 THEN 0 ELSE o[i-1] + h[i-1]]
    BY <1>3
  <1>6. \E f : f = [i \in 1..(Len(h)+1) |-> IF i = 1 THEN 0 ELSE f[i-1] + h[i-1]]
    BY <1>2, <1>4, <1>5
  <1>7. off = [i \in 1..(Len(h)+1) |-> IF i = 1 THEN 0 ELSE off[i-1] + h[i-1]]
    BY <1>6
  <1>8. rebuildOffsets(h) = off
    BY Zenon DEF rebuildOffsets
  <1> HIDE DEF off
  <1>9. DOMAIN off = 1..(N + 1) /\ \A i \in 1..(N + 1) : off[i] = IF i = 1 THEN 0 ELSE off[i-1] + h[i-1]
    BY <1>2, <1>7
  <1>10. 1 \in 1..(N + 1) /\ off[1] = 0
    BY <1>2, <1>9
  <1>11. \A i \in 1..N : off[i + 1] = off[i] + h[i]
    <2> TAKE i \in 1..N
    <2>1. i + 1 \in 1..(N + 1) /\ i + 1 # 1 /\ (i + 1) - 1 = i
      BY <1>2
    <2> QED BY <1>9, <2>1
  <1>12. \A i \in 1..(N + 1) : off[i] \in Nat
    <2> DEFINE T == {i \in 1..(N + 1) : off[i] \notin Nat}
    <2> SUFFICES ASSUME T # {} PROVE FALSE
      OBVIOUS
    <2>1. T \subseteq Nat
      BY <1>2
    <2> HIDE DEF T
    <2>2. PICK m \in T : \A k \in T : m <= k
      BY <2>1, LeastNat
    <2>3. m \in 1..(N + 1) /\ off[m] \notin Nat
      BY DEF T
    <2>4. m # 1
      BY <1>10, <2>3
    <2>5. m - 1 \in 1..N /\ m - 1 \in 1..(N + 1) /\ m - 1 \notin T /\ (m - 1) + 1 = m
      BY <1>2, <2>2, <2>3, <2>4
    <2>6. off[m - 1] \in Nat
      BY <2>5 DEF T
    <2>7. h[m - 1] \in Nat
      BY <1>2, <2>5
    <2>8. off[m] = off[m - 1] + h[m - 1]
      BY <1>11, <2>5
    <2> QED BY <2>3, <2>6, <2>7, <2>8
  <1>13. off \in [1..(N + 1) -> Nat]
    BY <1>7, <1>9, <1>12, <1>2
  <1> QED BY <1>2, <1>8, <1>10, <1>11, <1>13 DEF Sums

(* The table grows by at least the height of a block from it to a later    *)
(* one.                                                                    *)
LEMMA SumsGrow ==
    ASSUME NEW h \in Seq(Nat), NEW o, Sums(h, o), NEW i \in 1..Len(h), NEW j \in (i + 1)..(Len(h) + 1)
    PROVE  o[i] + h[i] <= o[j]
  <1>1. PICK N : N = Len(h) /\ N \in Nat
    OBVIOUS
  <1>2. /\ o[i + 1] = o[i] + h[i] /\ i \in Nat /\ i + 1 \in 1..(N + 1)
        /\ \A k \in 1..N : h[k] \in Nat /\ o[k + 1] = o[k] + h[k]
        /\ \A k \in 1..(N + 1) : o[k] \in Nat
    <2>1. /\ \A k \in 1..(N + 1) : o[k] \in Nat
          /\ \A k \in 1..N : h[k] \in Nat /\ o[k + 1] = o[k] + h[k]
      BY <1>1, SumsFacts DEF HeightTable
    <2>2. i \in 1..N /\ i \in Nat /\ i + 1 \in 1..(N + 1)
      BY <1>1
    <2> QED BY <2>1, <2>2
  <1> DEFINE T == {k \in (i + 1)..(N + 1) : ~(o[i + 1] <= o[k])}
  <1>3. T = {}
    <2> SUFFICES ASSUME T # {} PROVE FALSE
      OBVIOUS
    <2>1. T \subseteq Nat
      BY <1>2
    <2> HIDE DEF T
    <2>2. PICK m \in T : \A k \in T : m <= k
      BY <2>1, LeastNat
    <2>3. m \in (i + 1)..(N + 1) /\ ~(o[i + 1] <= o[m])
      BY DEF T
    <2>4. m # i + 1
      BY <1>2, <2>3
    <2>5. m - 1 \in (i + 1)..(N + 1) /\ m - 1 \notin T /\ m - 1 \in 1..N /\ (m - 1) + 1 = m
      BY <1>1, <1>2, <2>2, <2>3, <2>4
    <2>6. o[i + 1] <= o[m - 1]
      BY <2>5 DEF T
    <2>7. o[m] = o[m - 1] + h[m - 1] /\ h[m - 1] \in Nat /\ o[m - 1] \in Nat /\ o[i + 1] \in Nat
      <3>1. m - 1 \in 1..(N + 1)
        BY <1>1, <2>5
      <3> QED BY <1>2, <2>5, <3>1
    <2>8. PICK a, b, c, x : a = o[i + 1] /\ b = o[m - 1] /\ c = o[m] /\ x = h[m - 1]
      OBVIOUS
    <2>9. a <= b /\ c = b + x /\ ~(a <= c) /\ a \in Nat /\ b \in Nat /\ x \in Nat
      BY <2>3, <2>6, <2>7, <2>8
    <2> QED BY <2>9
  <1> QED BY <1>1, <1>2, <1>3

LEMMA SumsAppend ==
    ASSUME NEW h \in Seq(Nat), NEW o, Sums(h, o), NEW x \in Nat
    PROVE  Sums(Append(h, x), Append(o, o[Len(o)] + x))
  <1>1. PICK N, hs, os, y : N = Len(h) /\ hs = Append(h, x) /\ y = o[Len(o)] + x /\ os = Append(o, y)
    OBVIOUS
  <1>2. o \in [1..(N + 1) -> Nat] /\ N \in Nat /\ N + 1 \in Nat
    BY <1>1 DEF Sums
  <1>3. o \in Seq(Nat) /\ Len(o) = N + 1
    BY <1>2
  <1>4. y = o[N + 1] + x /\ y \in Nat
    BY <1>1, <1>2, <1>3
  <1>5. /\ Len(hs) = N + 1 /\ hs[N + 1] = x /\ \A i \in 1..N : hs[i] = h[i]
    BY <1>1
  <1>6. /\ os \in Seq(Nat) /\ Len(os) = N + 2 /\ os[N + 2] = y /\ \A i \in 1..(N + 1) : os[i] = o[i]
    BY <1>1, <1>2, <1>3, <1>4
  <1>7. os \in [1..((N + 1) + 1) -> Nat]
    BY <1>2, <1>6
  <1>8. os[1] = 0
    BY <1>2, <1>6 DEF Sums
  <1>9. ASSUME NEW i \in 1..(N + 1) PROVE os[i + 1] = os[i] + hs[i]
    <2>1. CASE i = N + 1
      BY <1>2, <1>4, <1>5, <1>6, <2>1
    <2>2. CASE i # N + 1
      <3>1. i \in 1..N /\ i + 1 \in 1..(N + 1) /\ i \in 1..(N + 1)
        BY <1>2, <2>2
      <3> QED BY <1>1, <1>5, <1>6, <3>1 DEF Sums
    <2> QED BY <2>1, <2>2
  <1> QED BY <1>1, <1>5, <1>7, <1>8, <1>9 DEF Sums

(* Dropping the first d blocks shifts the table.                           *)
Dropped(h, d, g) == d \in 0..Len(h) /\ Len(g) = Len(h) - d /\ \A i \in 1..Len(g) : g[i] = h[i + d]
Shifted(g, o, p, d) == \A i \in 1..(Len(g) + 1) : o[i + d] = o[d + 1] + p[i]

LEMMA SumsDrop ==
    ASSUME NEW h \in Seq(Nat), NEW o, Sums(h, o), NEW d, NEW g \in Seq(Nat), Dropped(h, d, g), NEW p, Sums(g, p)
    PROVE  Shifted(g, o, p, d)
  <1>0. PICK N, M : N = Len(h) /\ M = Len(g)
    OBVIOUS
  <1>1. N = Len(h) /\ M = Len(g) /\ N \in Nat /\ M \in Nat /\ M = N - d /\ d \in Nat /\ d <= N
    BY <1>0 DEF Dropped
  <1>2. /\ \A k \in 1..N : o[k + 1] = o[k] + h[k] /\ h[k] \in Nat
        /\ \A k \in 1..(N + 1) : o[k] \in Nat
        /\ \A k \in 1..M : p[k + 1] = p[k] + g[k] /\ g[k] = h[k + d]
        /\ \A k \in 1..(M + 1) : p[k] \in Nat
        /\ p[1] = 0
    <2>1. /\ \A k \in 1..(N + 1) : o[k] \in Nat
          /\ \A k \in 1..N : h[k] \in Nat /\ o[k + 1] = o[k] + h[k]
      BY <1>1, SumsFacts DEF HeightTable
    <2>2. /\ p[1] = 0
          /\ \A k \in 1..(M + 1) : p[k] \in Nat
          /\ \A k \in 1..M : g[k] \in Nat /\ p[k + 1] = p[k] + g[k]
      BY <1>1, SumsFacts DEF HeightTable
    <2>3. \A k \in 1..M : g[k] = h[k + d]
      BY <1>1 DEF Dropped
    <2> QED BY <2>1, <2>2, <2>3
  <1> DEFINE T == {k \in 1..(M + 1) : ~(o[k + d] = o[d + 1] + p[k])}
  <1>3. T = {}
    <2> SUFFICES ASSUME T # {} PROVE FALSE
      OBVIOUS
    <2>1. T \subseteq Nat
      BY <1>1
    <2> HIDE DEF T
    <2>2. PICK m \in T : \A k \in T : m <= k
      BY <2>1, LeastNat
    <2>3. m \in 1..(M + 1) /\ ~(o[m + d] = o[d + 1] + p[m])
      BY DEF T
    <2>4. d + 1 \in 1..(N + 1) /\ o[d + 1] \in Nat
      BY <1>1, <1>2
    <2>5. m # 1
      <3>1. ASSUME m = 1 PROVE FALSE
        <4>1. m + d = d + 1 /\ p[m] = 0
          BY <1>1, <1>2, <3>1
        <4> QED BY <2>3, <2>4, <4>1
      <3> QED BY <3>1
    <2>6. /\ m - 1 \in 1..M /\ m - 1 \in 1..(M + 1) /\ m - 1 \notin T /\ (m - 1) + 1 = m
          /\ (m - 1) + d \in 1..N /\ (m - 1) + d \in 1..(N + 1) /\ ((m - 1) + d) + 1 = m + d
      BY <1>1, <2>2, <2>3, <2>5
    <2>7. o[(m - 1) + d] = o[d + 1] + p[m - 1]
      BY <2>6 DEF T
    <2>8. o[m + d] = o[(m - 1) + d] + h[(m - 1) + d] /\ h[(m - 1) + d] \in Nat
      BY <1>2, <2>6
    <2>9. p[m] = p[m - 1] + h[(m - 1) + d] /\ p[m - 1] \in Nat
      BY <1>2, <2>6
    <2>10. PICK om, o1, od, pm, p1, x :
               /\ om = o[m + d] /\ o1 = o[(m - 1) + d] /\ od = o[d + 1] /\ pm = p[m] /\ p1 = p[m - 1]
               /\ x = h[(m - 1) + d]
      OBVIOUS
    <2>11. om = o1 + x /\ pm = p1 + x /\ o1 = od + p1 /\ ~(om = od + pm)
      BY <2>3, <2>7, <2>8, <2>9, <2>10
    <2>12. od \in Nat /\ p1 \in Nat /\ x \in Nat
      BY <2>4, <2>8, <2>9, <2>10
    <2> QED BY <2>11, <2>12
  <1> QED BY <1>1, <1>3 DEF Shifted

(* Which block covers a line.                                              *)
Covers(h, o, b, y) == o[b] <= y /\ y < o[b] + h[b]

LEMMA CoversOnce ==
    ASSUME NEW h \in Seq(Nat), NEW o, Sums(h, o), NEW y \in Nat, NEW b \in 1..Len(h), NEW c \in 1..Len(h),
           Covers(h, o, b, y), Covers(h, o, c, y)
    PROVE  b = c
  <1>1. PICK N : N = Len(h) /\ N \in Nat
    OBVIOUS
  <1>2. o[b] \in Nat /\ o[c] \in Nat /\ h[b] \in Nat /\ h[c] \in Nat
    <2>1. \A k \in 1..(N + 1) : o[k] \in Nat
      BY <1>1, SumsFacts DEF HeightTable
    <2>2. b \in 1..(N + 1) /\ c \in 1..(N + 1)
      BY <1>1
    <2> QED BY <2>1, <2>2
  <1>3. ASSUME b < c PROVE FALSE
    <2>1. c \in (b + 1)..(Len(h) + 1)
      BY <1>1, <1>3
    <2>2. o[b] + h[b] <= o[c]
      BY <2>1, SumsGrow
    <2> QED BY <1>2, <2>2 DEF Covers
  <1>4. ASSUME c < b PROVE FALSE
    <2>1. b \in (c + 1)..(Len(h) + 1)
      BY <1>1, <1>4
    <2>2. o[c] + h[c] <= o[b]
      BY <2>1, SumsGrow
    <2> QED BY <1>2, <2>2 DEF Covers
  <1>5. b \in Nat /\ c \in Nat
    BY <1>1
  <1> QED BY <1>3, <1>4, <1>5

LEMMA MaxNat ==
    ASSUME NEW S, NEW n \in Nat, S \subseteq 1..n, S # {}
    PROVE  Max(S) \in S /\ \A k \in S : k <= Max(S)
  <1>1. PICK R : R = {n - i : i \in S}
    OBVIOUS
  <1>2. \A i \in S : n - i \in Nat /\ i \in Nat
    OBVIOUS
  <1>3. R \subseteq Nat /\ R # {}
    <2>1. PICK i : i \in S
      OBVIOUS
    <2>2. n - i \in R
      BY <1>1, <2>1
    <2> QED BY <1>1, <1>2, <2>2
  <1>4. PICK m \in R : \A k \in R : m <= k
    BY <1>3, LeastNat
  <1>5. PICK v \in S : m = n - v
    BY <1>1
  <1>6. ASSUME NEW k \in S PROVE v >= k
    <2>1. n - k \in R
      BY <1>1
    <2> QED BY <1>2, <1>4, <1>5, <2>1
  <1>7. PICK x : x = CHOOSE t \in S : \A y \in S : t >= y
    OBVIOUS
  <1>8. x \in S /\ \A y \in S : x >= y
    BY <1>6, <1>7
  <1>9. Max(S) = x
    BY <1>7 DEF Max
  <1>10. \A k \in S : k <= x
    BY <1>2, <1>8
  <1> QED BY <1>8, <1>9, <1>10

LEMMA FindBlock ==
    ASSUME NEW h \in Seq(Nat), NEW o, Sums(h, o), NEW N \in Nat, N = Len(h), N # 0, NEW y \in Nat
    PROVE  /\ findBlockAt(o, y) \in 1..N /\ o[findBlockAt(o, y)] <= y
           /\ \A i \in 1..N : o[i] <= y => i <= findBlockAt(o, y)
  <1>1. PICK S, f : S = {i \in 1..(N + 1) : o[i] <= y} /\ f = findBlockAt(o, y)
    OBVIOUS
  <1>2. o \in [1..(N + 1) -> Nat] /\ o[1] = 0 /\ Len(o) = N + 1
    <2>1. o \in [1..(N + 1) -> Nat] /\ o[1] = 0
      BY DEF Sums
    <2>2. N + 1 \in Nat
      OBVIOUS
    <2> QED BY <2>1, <2>2
  <1>3. 1 \in S /\ S \subseteq 1..(N + 1)
    BY <1>1, <1>2
  <1>4. PICK m : m = Max(S)
    OBVIOUS
  <1>5. m \in S /\ \A k \in S : k <= m
    <2>1. N + 1 \in Nat
      OBVIOUS
    <2> QED BY <1>3, <1>4, <2>1, MaxNat
  <1>6. f = IF m < N THEN m ELSE N
    <2>1. f = Min2(Max({i \in 1..(N + 1) : o[i] <= y}), (N + 1) - 1)
      BY <1>1, <1>2 DEF findBlockAt
    <2>2. f = Min2(m, N)
      BY <1>1, <1>4, <2>1
    <2> QED BY <2>2 DEF Min2
  <1>7. m \in 1..(N + 1) /\ o[m] <= y
    BY <1>1, <1>5
  <1>8. f \in 1..N
    BY <1>6, <1>7
  <1>9. o[f] <= y
    <2>1. CASE f = m
      BY <1>7, <2>1
    <2>2. CASE f # m
      <3>1. f = N /\ m = N + 1
        BY <1>6, <1>7, <2>2
      <3>2. o[N + 1] = o[N] + h[N] /\ h[N] \in Nat /\ o[N] \in Nat
        BY <1>2 DEF Sums
      <3> QED BY <1>7, <3>1, <3>2
    <2> QED BY <2>1, <2>2
  <1>10. ASSUME NEW i \in 1..N, o[i] <= y PROVE i <= f
    <2>1. i \in S
      BY <1>1, <1>10
    <2> QED BY <1>5, <1>6, <1>7, <2>1
  <1> QED BY <1>1, <1>8, <1>9, <1>10

LEMMA SomeCovers ==
    ASSUME NEW h \in Seq(Nat), NEW o, Sums(h, o), NEW N \in Nat, N = Len(h), NEW y \in Nat, y < o[N + 1]
    PROVE  \E b \in 1..N : Covers(h, o, b, y)
  <1>1. N # 0
    BY DEF Sums
  <1>2. PICK f : f = findBlockAt(o, y)
    OBVIOUS
  <1>3. f \in 1..N /\ o[f] <= y /\ \A i \in 1..N : o[i] <= y => i <= f
    BY <1>1, <1>2, FindBlock
  <1>4. o[f + 1] = o[f] + h[f] /\ o[f] \in Nat /\ h[f] \in Nat
    BY <1>3 DEF Sums
  <1>5. y < o[f + 1]
    <2>1. CASE f = N
      BY <2>1
    <2>2. CASE f # N
      <3>1. f + 1 \in 1..N /\ ~(f + 1 <= f)
        BY <1>3, <2>2
      <3> QED BY <1>3, <1>4, <3>1
    <2> QED BY <2>1, <2>2
  <1> QED BY <1>3, <1>4, <1>5 DEF Covers

-----------------------------------------------------------------------------
(* A concatenation by the table of the lengths of its members.             *)
Lengths(q, o) == o[1] = 0 /\ \A i \in 1..Len(q) : o[i] \in Nat /\ o[i + 1] = o[i] + Len(q[i])
LaidOut(q, o, n, d) ==
    /\ Len(d) = o[n + 1]
    /\ \A i \in 1..n : \A r \in 1..Len(q[i]) : d[o[i] + r] = q[i][r]

LEMMA LayOne ==
    ASSUME NEW E, NEW q \in Seq(Seq(E)), NEW o, Lengths(q, o), NEW n \in Nat, n < Len(q),
           NEW d \in Seq(E), LaidOut(q, o, n, d)
    PROVE  LaidOut(q, o, n + 1, d \o q[n + 1])
  <1>0. PICK N : N = Len(q) /\ N \in Nat
    OBVIOUS
  <1>1. PICK x, e : x = q[n + 1] /\ e = d \o x /\ N = Len(q) /\ N \in Nat
    BY <1>0
  <1>2. n + 1 \in 1..N /\ x \in Seq(E)
    BY <1>1
  <1>a. \A k \in 1..n : k \in 1..N
    BY <1>0
  <1>3. o[n + 1] \in Nat /\ o[(n + 1) + 1] = o[n + 1] + Len(x)
    BY <1>1, <1>2 DEF Lengths
  <1>4. Len(d) = o[n + 1] /\ \A i \in 1..n : \A r \in 1..Len(q[i]) : d[o[i] + r] = q[i][r]
    BY DEF LaidOut
  <1>5. /\ Len(e) = Len(d) + Len(x)
        /\ \A k \in 1..Len(d) : e[k] = d[k]
        /\ \A k \in 1..Len(x) : e[Len(d) + k] = x[k]
    BY <1>1, <1>2
  <1>6. Len(e) = o[(n + 1) + 1]
    BY <1>3, <1>4, <1>5
  <1>7. ASSUME NEW i \in 1..(n + 1), NEW r \in 1..Len(q[i]) PROVE e[o[i] + r] = q[i][r]
    <2>1. CASE i = n + 1
      BY <1>1, <1>4, <1>5, <2>1
    <2>2. CASE i # n + 1
      <3>1. i \in 1..n /\ i \in 1..N
        BY <1>1, <1>2, <2>2
      <3>2. o[i] \in Nat /\ q[i] \in Seq(E) /\ Len(q[i]) \in Nat /\ r \in Nat /\ r >= 1 /\ r <= Len(q[i])
        BY <1>1, <3>1 DEF Lengths
      <3>3. d[o[i] + r] = q[i][r]
        BY <1>4, <3>1
      <3>4. o[i] + Len(q[i]) <= o[n + 1]
        <4>1. \A k \in 1..N : Len(q[k]) \in Nat
          BY <1>1
        <4> DEFINE T == {k \in (i + 1)..(n + 1) : ~(o[i] + Len(q[i]) <= o[k])}
        <4>2. T = {}
          <5> SUFFICES ASSUME T # {} PROVE FALSE
            OBVIOUS
          <5>1. T \subseteq Nat
            BY <3>1
          <5> HIDE DEF T
          <5>2. PICK m \in T : \A k \in T : m <= k
            BY <5>1, LeastNat
          <5>3. m \in (i + 1)..(n + 1) /\ ~(o[i] + Len(q[i]) <= o[m])
            BY DEF T
          <5>4. o[i + 1] = o[i] + Len(q[i])
            BY <1>1, <3>1 DEF Lengths
          <5>5. m # i + 1
            BY <3>2, <5>3, <5>4
          <5>a. m - 1 \in (i + 1)..(n + 1) /\ m - 1 \in 1..n /\ (m - 1) + 1 = m /\ ~(m <= m - 1)
            BY <3>1, <5>3, <5>5
          <5>b. m - 1 \in 1..N
            BY <1>a, <5>a
          <5>6. m - 1 \in (i + 1)..(n + 1) /\ m - 1 \notin T /\ m - 1 \in 1..N /\ (m - 1) + 1 = m
            BY <5>2, <5>a, <5>b
          <5>7. o[i] + Len(q[i]) <= o[m - 1]
            BY <5>6 DEF T
          <5>8. o[m] = o[m - 1] + Len(q[m - 1]) /\ o[m - 1] \in Nat
            BY <1>1, <5>6 DEF Lengths
          <5>9. Len(q[m - 1]) \in Nat
            BY <4>1, <5>6
          <5>10. PICK a, b, c, v, y : a = o[i] /\ b = o[m - 1] /\ c = o[m] /\ v = Len(q[m - 1]) /\ y = Len(q[i])
            OBVIOUS
          <5>11. a + y <= b /\ c = b + v /\ ~(a + y <= c)
            BY <5>3, <5>7, <5>8, <5>10
          <5>12. a \in Nat /\ b \in Nat /\ v \in Nat /\ y \in Nat
            BY <3>2, <5>8, <5>9, <5>10
          <5> QED BY <5>11, <5>12
        <4>3. n + 1 \in (i + 1)..(n + 1)
          BY <3>1
        <4> QED BY <4>2, <4>3
      <3>5. o[i] + r \in 1..Len(d)
        <4>1. PICK a, c, l : a = o[i] /\ c = o[n + 1] /\ l = Len(q[i])
          OBVIOUS
        <4>2. a \in Nat /\ c \in Nat /\ l \in Nat /\ r \in Nat /\ r >= 1 /\ r <= l /\ a + l <= c
          BY <1>3, <3>2, <3>4, <4>1
        <4>3. a + r \in 1..c
          BY <4>2
        <4> QED BY <1>4, <4>1, <4>3
      <3> QED BY <1>5, <3>3, <3>5
    <2> QED BY <2>1, <2>2
  <1> QED BY <1>1, <1>6, <1>7 DEF LaidOut

LEMMA FlattenLookup ==
    ASSUME NEW E, NEW q \in Seq(Seq(E)), NEW o, Lengths(q, o)
    PROVE  LaidOut(q, o, Len(q), FlattenSeq(q))
  <1>1. PICK N : N = Len(q) /\ N \in Nat
    OBVIOUS
  <1> DEFINE T == {n \in 0..N : ~LaidOut(q, o, n, FlattenSeq(First(q, n)))}
  <1>2. T = {}
    <2> SUFFICES ASSUME T # {} PROVE FALSE
      OBVIOUS
    <2>1. T \subseteq Nat
      BY <1>1
    <2> HIDE DEF T
    <2>2. PICK m \in T : \A k \in T : m <= k
      BY <2>1, LeastNat
    <2>3. m \in 0..N /\ ~LaidOut(q, o, m, FlattenSeq(First(q, m)))
      BY DEF T
    <2>4. CASE m = 0
      <3>1. FlattenSeq(First(q, 0)) = <<>>
        BY FlattenFirst, FlattenEmpty
      <3>2. Len(<<>>) = 0 /\ o[0 + 1] = 0
        BY DEF Lengths
      <3>3. LaidOut(q, o, 0, <<>>)
        BY <3>2 DEF LaidOut
      <3> QED BY <2>3, <2>4, <3>1, <3>3
    <2>5. CASE m # 0
      <3>1. PICK n : n = m - 1
        OBVIOUS
      <3>2. n \in Nat /\ n \in 0..N /\ n < N /\ n + 1 = m /\ n \notin T
        BY <1>1, <2>2, <2>3, <2>5, <3>1
      <3>3. PICK d : d = FlattenSeq(First(q, n))
        OBVIOUS
      <3>4. LaidOut(q, o, n, d)
        BY <3>2, <3>3 DEF T
      <3>5. d \in Seq(E) /\ FlattenSeq(First(q, n + 1)) = d \o q[n + 1]
        BY <1>1, <3>2, <3>3, FlattenPrefix
      <3>6. LaidOut(q, o, n + 1, d \o q[n + 1])
        BY <1>1, <3>2, <3>4, <3>5, LayOne
      <3> QED BY <2>3, <3>2, <3>5, <3>6
    <2> QED BY <2>4, <2>5
  <1>3. N \in 0..N
    BY <1>1
  <1>4. LaidOut(q, o, N, FlattenSeq(First(q, N)))
    BY <1>2, <1>3
  <1> QED BY <1>1, <1>4, FlattenFirst

-----------------------------------------------------------------------------
(* The document, by the table of heights.                                  *)
NodeRecords == [id : Nat, kind : DOMAIN SbHeight]
Widths == {vp[1] : vp \in SbViewports}
DocRows == {<<>>} \cup (Nat \X Nat)

HeightsAt(ns, cols) == [i \in 1..Len(ns) |-> measureHeight(ns[i].kind, cols)]
DocCell(n, cols, k) == IF SbHeight[n.kind][cols] = 0 THEN <<>> ELSE <<n.id, k>>
RowsOf(n, cols) == [r \in 1..measureHeight(n.kind, cols) |-> DocCell(n, cols, r - 1)]
DocOf(ns, cols) == FlattenSeq([i \in DOMAIN ns |-> RowsOf(ns[i], cols)])

LEMMA Measured ==
    ASSUME NEW kind \in DOMAIN SbHeight, NEW cols \in Widths \cup {0}
    PROVE  /\ measureHeight(kind, cols) \in Nat \ {0} /\ cols \in Nat
           /\ cols \in Widths => cols # 0 /\ SbHeight[kind][cols] \in Nat
           /\ cols \in Widths /\ SbHeight[kind][cols] # 0 => measureHeight(kind, cols) = SbHeight[kind][cols]
  <1>1. ASSUME cols \in Widths PROVE cols \in Nat \ {0} /\ SbHeight[kind][cols] \in Nat
    <2>1. PICK vp \in SbViewports : cols = vp[1]
      BY <1>1 DEF Widths
    <2> QED BY <2>1, SbAssumption
  <1> QED BY <1>1 DEF measureHeight

LEMMA HeightsTyped ==
    ASSUME NEW ns \in Seq(NodeRecords), NEW cols \in Widths \cup {0}
    PROVE  /\ HeightsAt(ns, cols) \in Seq(Nat) /\ Len(HeightsAt(ns, cols)) = Len(ns)
           /\ \A i \in 1..Len(ns) : /\ HeightsAt(ns, cols)[i] = measureHeight(ns[i].kind, cols)
                                    /\ HeightsAt(ns, cols)[i] \in Nat \ {0}
  <1>1. PICK N : N = Len(ns) /\ N \in Nat
    OBVIOUS
  <1>2. \A i \in 1..N : ns[i] \in NodeRecords
    BY <1>1
  <1>3. \A i \in 1..N : ns[i].kind \in DOMAIN SbHeight
    BY <1>2 DEF NodeRecords
  <1>4. \A i \in 1..N : measureHeight(ns[i].kind, cols) \in Nat \ {0}
    BY <1>3, Measured
  <1>5. PICK H : H = [i \in 1..N |-> measureHeight(ns[i].kind, cols)]
    OBVIOUS
  <1>6. H \in [1..N -> Nat] /\ \A i \in 1..N : H[i] = measureHeight(ns[i].kind, cols) /\ H[i] \in Nat \ {0}
    BY <1>4, <1>5
  <1>7. H \in Seq(Nat) /\ Len(H) = N
    BY <1>1, <1>6
  <1> QED BY <1>1, <1>5, <1>6, <1>7 DEF HeightsAt

MeasuredBy(h, ns, cols) ==
    h \in Seq(Nat) /\ Len(h) = Len(ns) /\ \A i \in 1..Len(ns) : h[i] = measureHeight(ns[i].kind, cols)

LEMMA HeightsMeasured ==
    ASSUME NEW ns \in Seq(NodeRecords), NEW cols \in Widths \cup {0}
    PROVE  MeasuredBy(HeightsAt(ns, cols), ns, cols)
  <1>1. PICK h : h = HeightsAt(ns, cols)
    OBVIOUS
  <1>2. h \in Seq(Nat) /\ Len(h) = Len(ns)
    BY <1>1, HeightsTyped
  <1>3. \A i \in 1..Len(ns) : h[i] = measureHeight(ns[i].kind, cols)
    BY <1>1, HeightsTyped
  <1> QED BY <1>1, <1>2, <1>3 DEF MeasuredBy

LEMMA RowsTyped ==
    ASSUME NEW n \in NodeRecords, NEW cols \in Widths
    PROVE  /\ RowsOf(n, cols) \in Seq(DocRows) /\ Len(RowsOf(n, cols)) = measureHeight(n.kind, cols)
           /\ \A r \in 1..measureHeight(n.kind, cols) : RowsOf(n, cols)[r] = DocCell(n, cols, r - 1)
  <1>1. n.kind \in DOMAIN SbHeight /\ n.id \in Nat
    BY DEF NodeRecords
  <1>2. PICK m : m = measureHeight(n.kind, cols) /\ m \in Nat
    BY <1>1, Measured
  <1>3. \A r \in 1..m : DocCell(n, cols, r - 1) \in DocRows
    <2> TAKE r \in 1..m
    <2>1. r - 1 \in Nat
      BY <1>2
    <2> QED BY <1>1, <2>1 DEF DocCell, DocRows
  <1>4. PICK f : f = [r \in 1..m |-> DocCell(n, cols, r - 1)]
    OBVIOUS
  <1>5. f \in [1..m -> DocRows] /\ \A r \in 1..m : f[r] = DocCell(n, cols, r - 1)
    BY <1>3, <1>4
  <1>6. f \in Seq(DocRows) /\ Len(f) = m
    BY <1>2, <1>5
  <1> QED BY <1>2, <1>4, <1>5, <1>6 DEF RowsOf

DocTable(ns, cols, o) ==
    /\ Len(DocOf(ns, cols)) = o[Len(ns) + 1]
    /\ \A i \in 1..Len(ns) : \A y \in Nat :
          Covers(HeightsAt(ns, cols), o, i, y) => DocOf(ns, cols)[y + 1] = DocCell(ns[i], cols, y - o[i])

LEMMA DocLookup ==
    ASSUME NEW ns \in Seq(NodeRecords), NEW cols \in Widths, NEW o, Sums(HeightsAt(ns, cols), o)
    PROVE  DocTable(ns, cols, o)
  <1>1. PICK N, H, q : N = Len(ns) /\ H = HeightsAt(ns, cols) /\ q = [i \in DOMAIN ns |-> RowsOf(ns[i], cols)]
    OBVIOUS
  <1>2. N \in Nat /\ DOMAIN ns = 1..N /\ \A i \in 1..N : ns[i] \in NodeRecords
    BY <1>1
  <1>3. H \in Seq(Nat) /\ Len(H) = N /\ \A i \in 1..N : H[i] = measureHeight(ns[i].kind, cols) /\ H[i] \in Nat
    BY <1>1, HeightsTyped
  <1>4. \A i \in 1..N : q[i] = RowsOf(ns[i], cols) /\ q[i] \in Seq(DocRows) /\ Len(q[i]) = H[i]
    <2> TAKE i \in 1..N
    <2>1. q[i] = RowsOf(ns[i], cols)
      BY <1>1, <1>2
    <2> QED BY <1>2, <1>3, <2>1, RowsTyped
  <1>5. q \in Seq(Seq(DocRows)) /\ Len(q) = N
    <2>1. q = [i \in 1..N |-> q[i]]
      BY <1>1, <1>2
    <2>2. q \in [1..N -> Seq(DocRows)]
      BY <1>4, <2>1
    <2> QED BY <1>2, <2>2
  <1>6. HeightTable(H, o, N)
    BY <1>1, <1>3, SumsFacts
  <1>7. Lengths(q, o)
    <2>1. \A i \in 1..N : i \in 1..(N + 1)
      BY <1>2
    <2> QED BY <1>4, <1>5, <1>6, <2>1 DEF Lengths, HeightTable
  <1>8. PICK d : d = DocOf(ns, cols)
    OBVIOUS
  <1>9. LaidOut(q, o, N, d)
    BY <1>1, <1>5, <1>7, <1>8, FlattenLookup DEF DocOf
  <1>10. ASSUME NEW i \in 1..N, NEW y \in Nat, Covers(H, o, i, y) PROVE d[y + 1] = DocCell(ns[i], cols, y - o[i])
    <2>1. o[i] \in Nat /\ H[i] \in Nat
      BY <1>2, <1>3, <1>6 DEF HeightTable
    <2>2. PICK r : r = (y - o[i]) + 1
      OBVIOUS
    <2>3. r \in 1..H[i] /\ o[i] + r = y + 1 /\ r - 1 = y - o[i]
      BY <1>10, <2>1, <2>2 DEF Covers
    <2>4. d[o[i] + r] = q[i][r]
      BY <1>4, <1>9, <2>3 DEF LaidOut
    <2>5. q[i][r] = DocCell(ns[i], cols, r - 1)
      BY <1>2, <1>3, <1>4, <2>3, RowsTyped
    <2> QED BY <2>3, <2>4, <2>5
  <1> QED BY <1>1, <1>8, <1>9, <1>10 DEF LaidOut, DocTable

DocRow(ns, cols, o, i, y) == DocOf(ns, cols)[y + 1] = DocCell(ns[i], cols, y - o[i])

LEMMA DocAt ==
    ASSUME NEW ns \in Seq(NodeRecords), NEW cols \in Widths, NEW o, Sums(HeightsAt(ns, cols), o),
           NEW i \in 1..Len(ns), NEW y \in Nat, Covers(HeightsAt(ns, cols), o, i, y)
    PROVE  DocRow(ns, cols, o, i, y)
  <1>1. \A k \in 1..Len(ns) : \A v \in Nat :
           Covers(HeightsAt(ns, cols), o, k, v) => DocOf(ns, cols)[v + 1] = DocCell(ns[k], cols, v - o[k])
    BY DocLookup DEF DocTable
  <1>2. DocOf(ns, cols)[y + 1] = DocCell(ns[i], cols, y - o[i])
    BY <1>1, Zenon
  <1> QED BY <1>2 DEF DocRow

-----------------------------------------------------------------------------
(* The row cache.                                                          *)

(* An entry of the cache holds the block that stands at its index.         *)
Entries(ns) ==
    {e \in [idx : 1..Len(ns), cols : Nat, rows : Nat, node : Nat] :
        e.node = ns[e.idx].id /\ SbHeight[ns[e.idx].kind][e.cols] # 0}

LEMMA GetKeeps ==
    ASSUME NEW G, NEW c \in Seq(G), NEW i, \E k \in DOMAIN c : c[k].idx = i
    PROVE  cacheGet(c, i) \in Seq(G) /\ cacheGet(c, i)[1] \in G /\ cacheGet(c, i)[1].idx = i
  <1>1. PICK k, N : k = entryOf(c, i) /\ N = Len(c)
    OBVIOUS
  <1>2. k \in 1..N /\ c[k].idx = i /\ c[k] \in G /\ N \in Nat
    BY <1>1 DEF entryOf
  <1>3. PICK p, q, t, r : p = <<c[k]>> /\ q = SubSeq(c, 1, k - 1) /\ t = SubSeq(c, k + 1, N) /\ r = q \o t
    OBVIOUS
  <1>4. p \in Seq(G) /\ Len(p) = 1 /\ p[1] = c[k]
    BY <1>2, <1>3
  <1>5. q \in Seq(G) /\ t \in Seq(G)
    <2>1. \A m \in 1..(k - 1) : m \in 1..N
      BY <1>2
    <2>2. \A m \in (k + 1)..N : m \in 1..N
      BY <1>2
    <2>3. k - 1 \in Int /\ k + 1 \in Int /\ N \in Int
      BY <1>2
    <2>4. \A m \in 1..N : c[m] \in G
      BY <1>1
    <2>5. q \in Seq(G)
      BY <1>3, <2>1, <2>3, <2>4, SubSeqProperties
    <2>6. t \in Seq(G)
      BY <1>3, <2>2, <2>3, <2>4, SubSeqProperties
    <2> QED BY <2>5, <2>6
  <1>6. r \in Seq(G)
    BY <1>3, <1>5, ConcatProperties
  <1>7. p \o r \in Seq(G) /\ (p \o r)[1] = c[k]
    <2>1. p \o r \in Seq(G)
      BY <1>4, <1>6, ConcatProperties
    <2>2. \A j \in 1..Len(p) : (p \o r)[j] = p[j]
      BY <1>4, <1>6, ConcatProperties
    <2>3. 1 \in 1..Len(p)
      BY <1>4
    <2> QED BY <1>4, <2>1, <2>2, <2>3
  <1>8. cacheGet(c, i) = p \o r
    BY <1>1, <1>3 DEF cacheGet, RemoveAt
  <1> QED BY <1>2, <1>7, <1>8

LEMMA PutKeeps ==
    ASSUME NEW G, NEW c \in Seq(G), NEW i, NEW C, NEW R, NEW n,
           [idx |-> i, cols |-> C, rows |-> R, node |-> n] \in G
    PROVE  /\ putFromBuffer(c, i, C, R, n) \in Seq(G)
           /\ putFromBuffer(c, i, C, R, n)[1] = [idx |-> i, cols |-> C, rows |-> R, node |-> n]
  <1>1. PICK e, rest, room :
          /\ e = [idx |-> i, cols |-> C, rows |-> R, node |-> n]
          /\ rest = (IF \E k \in DOMAIN c : c[k].idx = i THEN RemoveAt(c, entryOf(c, i)) ELSE c)
          /\ room = (IF Len(rest) >= CacheSize THEN Front(rest) ELSE rest)
    OBVIOUS
  <1>2. putFromBuffer(c, i, C, R, n) = <<e>> \o room
    BY <1>1 DEF putFromBuffer
  <1>3. rest \in Seq(G)
    <2>1. CASE ~\E k \in DOMAIN c : c[k].idx = i
      BY <1>1, <2>1
    <2>2. CASE \E k \in DOMAIN c : c[k].idx = i
      <3>1. PICK k, N : k = entryOf(c, i) /\ N = Len(c)
        OBVIOUS
      <3>2. k \in 1..N /\ N \in Nat
        BY <2>2, <3>1 DEF entryOf
      <3>3. PICK q, t : q = SubSeq(c, 1, k - 1) /\ t = SubSeq(c, k + 1, N)
        OBVIOUS
      <3>4. q \in Seq(G) /\ t \in Seq(G)
        <4>1. \A m \in 1..(k - 1) : m \in 1..N
          BY <3>2
        <4>2. \A m \in (k + 1)..N : m \in 1..N
          BY <3>2
        <4>3. k - 1 \in Int /\ k + 1 \in Int /\ N \in Int
          BY <3>2
        <4>4. \A m \in 1..N : c[m] \in G
          BY <3>1
        <4>5. q \in Seq(G)
          BY <3>3, <4>1, <4>3, <4>4, SubSeqProperties
        <4>6. t \in Seq(G)
          BY <3>3, <4>2, <4>3, <4>4, SubSeqProperties
        <4> QED BY <4>5, <4>6
      <3>5. rest = q \o t
        BY <1>1, <2>2, <3>1, <3>3 DEF RemoveAt
      <3> QED BY <3>4, <3>5, ConcatProperties
    <2> QED BY <2>1, <2>2
  <1>4. room \in Seq(G)
    <2>1. CASE ~(Len(rest) >= CacheSize)
      BY <1>1, <1>3, <2>1
    <2>2. CASE Len(rest) >= CacheSize
      <3>1. PICK N : N = Len(rest) /\ N \in Nat
        BY <1>3
      <3>2. \A m \in 1..(N - 1) : m \in 1..N
        BY <3>1
      <3>3. SubSeq(rest, 1, N - 1) \in Seq(G)
        BY <1>3, <3>1, <3>2, SubSeqProperties
      <3> QED BY <1>1, <2>2, <3>1, <3>3 DEF Front
    <2> QED BY <2>1, <2>2
  <1>5. <<e>> \in Seq(G) /\ Len(<<e>>) = 1 /\ <<e>>[1] = e
    BY <1>1
  <1>6. <<e>> \o room \in Seq(G) /\ (<<e>> \o room)[1] = e
    BY <1>4, <1>5, ConcatProperties
  <1> QED BY <1>1, <1>2, <1>6

-----------------------------------------------------------------------------
(* Painting.                                                               *)

Canvas(C, R, h, o, Y, k, u) ==
    [cols |-> C, rows |-> R, hs |-> h, os |-> o, sy |-> Y, cache |-> k, out |-> u]

(* The rows painted once block i has been rendered over u.                 *)
PaintedOver(u, i, C, R, h, o, Y) ==
    IF SbHeight[nodes[i].kind][C] = 0 THEN u
    ELSE [r \in 0..(R - 1) |-> IF r >= o[i] - Y /\ r < (o[i] - Y) + h[i]
                              THEN <<nodes[i].id, r - (o[i] - Y)>> ELSE u[r]]

LEMMA RenderOne ==
    ASSUME NEW C \in Nat, NEW R \in Nat, NEW h, NEW o, NEW Y, NEW k \in Seq(Entries(nodes)), NEW u,
           NEW i \in 1..Len(nodes), nodes \in Seq(NodeRecords), h[i] \in Nat
    PROVE  \E k2 \in Seq(Entries(nodes)) :
              RenderBlock(Canvas(C, R, h, o, Y, k, u), i) = Canvas(C, R, h, o, Y, k2, PaintedOver(u, i, C, R, h, o, Y))
  <1>0. PICK acc, n, G : acc = Canvas(C, R, h, o, Y, k, u) /\ n = nodes[i] /\ G = Entries(nodes)
    OBVIOUS
  <1>1. /\ acc.cols = C /\ acc.rows = R /\ acc.hs = h /\ acc.os = o /\ acc.sy = Y /\ acc.cache = k /\ acc.out = u
    BY <1>0 DEF Canvas
  <1>2. n.id \in Nat /\ n.kind \in DOMAIN SbHeight
    <2>1. nodes[i] \in NodeRecords
      OBVIOUS
    <2> QED BY <1>0, <2>1 DEF NodeRecords
  <1>3. PICK hit, c : /\ hit = cacheHas(k, i, C, h[i])
                      /\ c = IF hit THEN cacheGet(k, i) ELSE putFromBuffer(k, i, C, h[i], n.id)
    OBVIOUS
  <1>4. ASSUME hit PROVE SbHeight[n.kind][C] # 0 /\ c \in Seq(G) /\ c[1].node = n.id
    <2>1. PICK j \in DOMAIN k : k[j].idx = i /\ k[j].cols = C
      BY <1>3, <1>4 DEF cacheHas
    <2>2. k[j] \in G
      BY <1>0, <2>1
    <2>3. SbHeight[n.kind][C] # 0
      BY <1>0, <2>1, <2>2 DEF Entries
    <2>4. c \in Seq(G) /\ c[1] \in G /\ c[1].idx = i
      BY <1>0, <1>3, <1>4, <2>1, GetKeeps
    <2>5. c[1].node = n.id
      BY <1>0, <2>4 DEF Entries
    <2> QED BY <2>3, <2>4, <2>5
  <1>5. ASSUME ~hit, SbHeight[n.kind][C] # 0 PROVE c \in Seq(G) /\ c[1].node = n.id
    <2>1. PICK e : e = [idx |-> i, cols |-> C, rows |-> h[i], node |-> n.id]
      OBVIOUS
    <2>2. e.idx = i /\ e.cols = C /\ e.rows = h[i] /\ e.node = n.id
      BY <2>1
    <2>3. e \in [idx : 1..Len(nodes), cols : Nat, rows : Nat, node : Nat]
      BY <1>2, <2>1
    <2>4. e \in G
      BY <1>0, <1>5, <2>2, <2>3 DEF Entries
    <2>5. c = putFromBuffer(k, i, C, h[i], n.id)
      BY <1>3, <1>5
    <2>6. c \in Seq(G) /\ c[1] = e
      BY <1>0, <2>1, <2>4, <2>5, PutKeeps
    <2> QED BY <2>2, <2>6
  <1>6. CASE ~hit /\ SbHeight[n.kind][C] = 0
    <2>1. RenderBlock(acc, i) = acc
      BY <1>0, <1>1, <1>3, <1>6 DEF RenderBlock
    <2>2. PaintedOver(u, i, C, R, h, o, Y) = u
      BY <1>0, <1>6 DEF PaintedOver
    <2> QED BY <1>0, <2>1, <2>2
  <1>7. CASE ~(~hit /\ SbHeight[n.kind][C] = 0)
    <2>1. SbHeight[n.kind][C] # 0 /\ c \in Seq(G) /\ c[1].node = n.id
      BY <1>4, <1>5, <1>7
    <2>2. PICK top, rs : top = o[i] - Y /\ rs = {r \in 0..(R - 1) : r >= top /\ r < top + h[i]}
      OBVIOUS
    <2>3. PICK w : w = [r \in 0..(R - 1) |-> IF r \in rs THEN <<c[1].node, r - top>> ELSE u[r]]
      OBVIOUS
    <2>4. RenderBlock(acc, i) = [acc EXCEPT !.cache = c, !.out = w]
      BY <1>0, <1>1, <1>3, <1>7, <2>2, <2>3 DEF RenderBlock
    <2>5. [acc EXCEPT !.cache = c, !.out = w] = Canvas(C, R, h, o, Y, c, w)
      <3>1. acc = [cols |-> C, rows |-> R, hs |-> h, os |-> o, sy |-> Y, cache |-> k, out |-> u]
        BY <1>0 DEF Canvas
      <3>2. PICK x : x = [acc EXCEPT !.cache = c, !.out = w]
        OBVIOUS
      <3>3. x = [cols |-> C, rows |-> R, hs |-> h, os |-> o, sy |-> Y, cache |-> c, out |-> w]
        BY <3>1, <3>2
      <3> QED BY <3>2, <3>3 DEF Canvas
    <2>6. w = PaintedOver(u, i, C, R, h, o, Y)
      <3>1. \A r \in 0..(R - 1) : r \in rs <=> r >= o[i] - Y /\ r < (o[i] - Y) + h[i]
        BY <2>2
      <3> QED BY <1>0, <2>1, <2>2, <2>3, <3>1 DEF PaintedOver
    <2> QED BY <1>0, <2>1, <2>4, <2>5, <2>6
  <1> QED BY <1>6, <1>7

(* The blocks from a to i have been painted into u.                        *)
PaintedTo(u, a, i, C, R, h, o, Y) ==
    \A r \in 0..(R - 1) :
        \/ \E b \in a..i : /\ Covers(h, o, b, Y + r) /\ SbHeight[nodes[b].kind][C] # 0
                          /\ u[r] = <<nodes[b].id, (Y + r) - o[b]>>
        \/ u[r] = <<>> /\ \A b \in a..i : Covers(h, o, b, Y + r) => SbHeight[nodes[b].kind][C] = 0

LEMMA PaintOne ==
    ASSUME NEW C \in Nat, NEW R \in Nat, NEW h, NEW o, NEW Y \in Nat, NEW u, NEW a \in Nat, NEW i \in Nat,
           i >= a, o[i] \in Nat, h[i] \in Nat, PaintedTo(u, a, i - 1, C, R, h, o, Y)
    PROVE  PaintedTo(PaintedOver(u, i, C, R, h, o, Y), a, i, C, R, h, o, Y)
  <1> DEFINE Fails(b) == SbHeight[nodes[b].kind][C] = 0
  <1>1. PICK w : w = PaintedOver(u, i, C, R, h, o, Y)
    OBVIOUS
  <1>2. \A b \in a..(i - 1) : b \in a..i
    OBVIOUS
  <1>3. \A b \in a..i : b \in a..(i - 1) \/ b = i
    OBVIOUS
  <1>i. i \in a..i
    OBVIOUS
  <1>4. ASSUME NEW r \in 0..(R - 1)
        PROVE  \/ \E b \in a..i : Covers(h, o, b, Y + r) /\ ~Fails(b) /\ w[r] = <<nodes[b].id, (Y + r) - o[b]>>
               \/ w[r] = <<>> /\ \A b \in a..i : Covers(h, o, b, Y + r) => Fails(b)
    <2>1. Covers(h, o, i, Y + r) <=> r >= o[i] - Y /\ r < (o[i] - Y) + h[i]
      BY DEF Covers
    <2>2. \/ \E b \in a..(i - 1) : Covers(h, o, b, Y + r) /\ ~Fails(b) /\ u[r] = <<nodes[b].id, (Y + r) - o[b]>>
          \/ u[r] = <<>> /\ \A b \in a..(i - 1) : Covers(h, o, b, Y + r) => Fails(b)
      BY DEF PaintedTo
    <2>3. CASE Fails(i) \/ ~Covers(h, o, i, Y + r)
      <3>1. w[r] = u[r]
        BY <1>1, <2>1, <2>3 DEF PaintedOver
      <3>2. CASE \E b \in a..(i - 1) : Covers(h, o, b, Y + r) /\ ~Fails(b) /\ u[r] = <<nodes[b].id, (Y + r) - o[b]>>
        BY <1>2, <3>1, <3>2
      <3>3. CASE u[r] = <<>> /\ \A b \in a..(i - 1) : Covers(h, o, b, Y + r) => Fails(b)
        BY <1>3, <2>3, <3>1, <3>3
      <3> QED BY <2>2, <3>2, <3>3
    <2>4. CASE ~Fails(i) /\ Covers(h, o, i, Y + r)
      <3>1. w[r] = <<nodes[i].id, r - (o[i] - Y)>>
        BY <1>1, <2>1, <2>4 DEF PaintedOver
      <3>2. r - (o[i] - Y) = (Y + r) - o[i]
        OBVIOUS
      <3>3. w[r] = <<nodes[i].id, (Y + r) - o[i]>>
        BY <3>1, <3>2
      <3> QED BY <1>i, <2>4, <3>3
    <2> QED BY <2>3, <2>4
  <1> QED BY <1>1, <1>4 DEF PaintedTo

(* The renders of the blocks from a to z, one after another.               *)
After(f, blank, a, z) ==
    /\ f[a - 1] = blank
    /\ \A i \in a..z : f[i] = RenderBlock(f[i - 1], i)

LEMMA AfterExists ==
    ASSUME NEW blank, NEW a \in Nat \ {0}, NEW z \in Nat, z >= a
    PROVE  \E f : f = [i \in (a - 1)..z |-> f[i]] /\ After(f, blank, a, z)
  <1> DEFINE Good(m) == \E f : f = [i \in (a - 1)..m |-> f[i]] /\ After(f, blank, a, m)
             T == {m \in (a - 1)..z : ~Good(m)}
  <1>1. T = {}
    <2> SUFFICES ASSUME T # {} PROVE FALSE
      OBVIOUS
    <2>1. T \subseteq Nat
      OBVIOUS
    <2> HIDE DEF T
    <2>2. PICK m \in T : \A k \in T : m <= k
      BY <2>1, LeastNat
    <2>3. m \in (a - 1)..z /\ m \in Nat /\ ~Good(m)
      BY DEF T
    <2>4. CASE m = a - 1
      <3>1. PICK f : f = [i \in (a - 1)..m |-> blank]
        OBVIOUS
      <3>2. a - 1 \in (a - 1)..m
        BY <2>4
      <3>3. f[a - 1] = blank /\ f = [i \in (a - 1)..m |-> f[i]]
        BY <3>1, <3>2
      <3>4. a..m = {}
        BY <2>4
      <3>5. After(f, blank, a, m)
        BY <3>3, <3>4 DEF After
      <3> QED BY <2>3, <3>3, <3>5
    <2>5. CASE m # a - 1
      <3>1. m - 1 \in (a - 1)..z /\ m - 1 \notin T /\ m \in a..m
        BY <2>2, <2>3, <2>5
      <3>2. PICK g : g = [i \in (a - 1)..(m - 1) |-> g[i]] /\ After(g, blank, a, m - 1)
        BY <3>1 DEF T
      <3>3. PICK x : x = RenderBlock(g[m - 1], m)
        OBVIOUS
      <3>4. PICK f : f = [i \in (a - 1)..m |-> IF i = m THEN x ELSE g[i]]
        OBVIOUS
      <3>5. f[m] = x /\ \A i \in (a - 1)..(m - 1) : f[i] = g[i]
        <4>1. m \in (a - 1)..m /\ \A i \in (a - 1)..(m - 1) : i \in (a - 1)..m /\ i # m
          BY <2>3
        <4> QED BY <3>4, <4>1
      <3>6. f = [i \in (a - 1)..m |-> f[i]]
        BY <3>4
      <3>7. f[a - 1] = blank
        <4>1. a - 1 \in (a - 1)..(m - 1)
          BY <3>1
        <4> QED BY <3>2, <3>5, <4>1 DEF After
      <3>8. ASSUME NEW i \in a..m PROVE f[i] = RenderBlock(f[i - 1], i)
        <4>1. CASE i = m
          <5>1. m - 1 \in (a - 1)..(m - 1)
            BY <3>1
          <5> QED BY <3>3, <3>5, <4>1, <5>1
        <4>2. CASE i # m
          <5>1. i \in a..(m - 1) /\ i \in (a - 1)..(m - 1) /\ i - 1 \in (a - 1)..(m - 1)
            BY <2>3, <4>2
          <5> QED BY <3>2, <3>5, <5>1 DEF After
        <4> QED BY <4>1, <4>2
      <3>9. After(f, blank, a, m)
        BY <3>7, <3>8 DEF After
      <3> QED BY <2>3, <3>6, <3>9
    <2> QED BY <2>4, <2>5
  <1>2. z \in (a - 1)..z
    OBVIOUS
  <1> QED BY <1>1, <1>2

Clear(u, R) == \A r \in 0..(R - 1) : u[r] = <<>>

PaintsInto(b, C, R, h, o, Y, a, z) ==
    \E k, w : /\ k \in Seq(Entries(nodes)) /\ paintBlocks(b, a, z) = Canvas(C, R, h, o, Y, k, w)
              /\ PaintedTo(w, a, z, C, R, h, o, Y)

LEMMA PaintAll ==
    ASSUME NEW C \in Nat, NEW R \in Nat, NEW h \in Seq(Nat), NEW o, NEW Y \in Nat,
           NEW k \in Seq(Entries(nodes)), NEW u, Clear(u, R),
           nodes \in Seq(NodeRecords), Len(h) = Len(nodes), Sums(h, o),
           NEW a \in 1..Len(nodes), NEW z \in 1..Len(nodes), z >= a
    PROVE  PaintsInto(Canvas(C, R, h, o, Y, k, u), C, R, h, o, Y, a, z)
  <1>0. PICK N, G, blank : N = Len(nodes) /\ G = Seq(Entries(nodes)) /\ blank = Canvas(C, R, h, o, Y, k, u)
    OBVIOUS
  <1>1. N \in Nat /\ N = Len(h) /\ a \in Nat \ {0} /\ z \in Nat /\ k \in G
    BY <1>0
  <1>2. \A i \in 1..N : o[i] \in Nat /\ h[i] \in Nat
    <2>1. HeightTable(h, o, N)
      BY <1>1, SumsFacts
    <2>2. \A i \in 1..N : i \in 1..(N + 1)
      BY <1>1
    <2> QED BY <2>1, <2>2 DEF HeightTable
  <1> DEFINE f == CHOOSE f : f = [i \in a-1..z |-> IF i < a THEN blank ELSE RenderBlock(f[i-1], i)]
  <1>3. PICK g : g = [i \in (a - 1)..z |-> g[i]] /\ After(g, blank, a, z)
    BY <1>1, AfterExists
  <1>4. g = [i \in a-1..z |-> IF i < a THEN blank ELSE RenderBlock(g[i-1], i)]
    <2>1. ASSUME NEW i \in a-1..z PROVE g[i] = IF i < a THEN blank ELSE RenderBlock(g[i-1], i)
      <3>1. \/ i < a /\ i = a - 1
            \/ ~(i < a) /\ i \in a..z
        BY <1>1
      <3> QED BY <1>3, <3>1 DEF After
    <2> QED BY <1>3, <2>1
  <1>5. f = [i \in a-1..z |-> IF i < a THEN blank ELSE RenderBlock(f[i-1], i)]
    BY <1>4
  <1>6. paintBlocks(blank, a, z) = f[z]
    BY Zenon DEF paintBlocks
  <1> HIDE DEF f
  <1>7. f[a - 1] = blank /\ \A i \in a..z : f[i] = RenderBlock(f[i - 1], i)
    <2>1. a - 1 \in a-1..z /\ a - 1 < a
      BY <1>1
    <2>2. f[a - 1] = blank
      BY <1>5, <2>1
    <2>3. ASSUME NEW i \in a..z PROVE f[i] = RenderBlock(f[i - 1], i)
      <3>1. i \in a-1..z /\ ~(i < a)
        BY <1>1
      <3> QED BY <1>5, <3>1
    <2> QED BY <2>2, <2>3
  <1> DEFINE Reached(i) == \E k2, w : k2 \in G /\ f[i] = Canvas(C, R, h, o, Y, k2, w) /\ PaintedTo(w, a, i, C, R, h, o, Y)
             T == {i \in a-1..z : ~Reached(i)}
  <1>8. T = {}
    <2> SUFFICES ASSUME T # {} PROVE FALSE
      OBVIOUS
    <2>1. T \subseteq Nat
      BY <1>1
    <2> HIDE DEF T
    <2>2. PICK m \in T : \A i \in T : m <= i
      BY <2>1, LeastNat
    <2>3. m \in a-1..z /\ m \in Nat /\ ~Reached(m)
      BY <1>1 DEF T
    <2>4. CASE m = a - 1
      <3>1. a..m = {}
        BY <1>1, <2>4
      <3>2. PaintedTo(u, a, m, C, R, h, o, Y)
        BY <3>1 DEF PaintedTo, Clear
      <3> QED BY <1>0, <1>1, <1>7, <2>3, <2>4, <3>2
    <2>5. CASE m # a - 1
      <3>1. PICK p : p = m - 1
        OBVIOUS
      <3>2. p \in a-1..z /\ p \notin T /\ m \in a..z /\ m >= a
        <4>a. a \in Int /\ z \in Int /\ m \in Int /\ m >= a - 1 /\ m <= z /\ m # a - 1
          BY <1>1, <2>3, <2>5
        <4>b. m >= a
          BY <4>a
        <4>1. p \in a-1..z /\ m \in a..z /\ m >= a /\ ~(m <= p)
          BY <3>1, <4>a, <4>b
        <4> QED BY <2>2, <4>1
      <3>3. PICK k2, w : k2 \in G /\ f[p] = Canvas(C, R, h, o, Y, k2, w) /\ PaintedTo(w, a, p, C, R, h, o, Y)
        BY <3>2 DEF T
      <3>4. m \in 1..N
        BY <1>0, <1>1, <3>2
      <3>5. PICK v : v = PaintedOver(w, m, C, R, h, o, Y)
        OBVIOUS
      <3>6. PICK k3 \in G : RenderBlock(Canvas(C, R, h, o, Y, k2, w), m) = Canvas(C, R, h, o, Y, k3, v)
        BY <1>0, <1>2, <3>3, <3>4, <3>5, RenderOne
      <3>7. PaintedTo(v, a, m, C, R, h, o, Y)
        BY <1>1, <1>2, <2>3, <3>1, <3>2, <3>3, <3>4, <3>5, PaintOne
      <3>8. f[m] = Canvas(C, R, h, o, Y, k3, v)
        BY <1>7, <3>1, <3>2, <3>3, <3>6
      <3> QED BY <2>3, <3>6, <3>7, <3>8
    <2> QED BY <2>4, <2>5
  <1>9. Reached(z)
    <2>1. z \in a-1..z
      BY <1>1
    <2> QED BY <1>8, <2>1
  <1> QED BY <1>0, <1>6, <1>9 DEF PaintsInto

(* The blocks that Render goes through include those of the viewport.      *)
Framed(h, o, N, Y, R, a, z) ==
    /\ a \in 1..N /\ z \in 1..N /\ z >= a
    /\ \A b \in 1..N : \A r \in 0..(R - 1) : Covers(h, o, b, Y + r) => b \in a..z

LEMMA Window ==
    ASSUME NEW h \in Seq(Nat), NEW o, Sums(h, o), NEW N \in Nat, N = Len(h), NEW Y \in Nat, Y < o[N + 1],
           NEW R \in Nat \ {0}, NEW a, a = findBlockAt(o, Floor0(Y - Overscan)),
           NEW z, z = Min2(findBlockAt(o, Min2((Y + R) + Overscan, o[N + 1]) - 1), N)
    PROVE  Framed(h, o, N, Y, R, a, z)
  <1>1. PICK t, x, y : t = o[N + 1] /\ x = Floor0(Y - Overscan) /\ y = Min2((Y + R) + Overscan, t) - 1
    OBVIOUS
  <1>2. Overscan \in Nat
    BY SbAssumption
  <1>3. HeightTable(h, o, N)
    BY SumsFacts
  <1>4. t \in Nat /\ t > Y /\ N # 0
    <2>1. t \in Nat
      BY <1>1, <1>3 DEF HeightTable
    <2>2. o[1] = 0
      BY <1>3 DEF HeightTable
    <2> QED BY <1>1, <2>1, <2>2
  <1>5. x \in Nat /\ x <= Y
    BY <1>1, <1>2 DEF Floor0
  <1>6. y \in Nat /\ y >= Y /\ \A r \in 0..(R - 1) : Y + r < t => Y + r <= y
    BY <1>1, <1>2, <1>4 DEF Min2
  <1>7. a \in 1..N /\ o[a] <= x /\ \A i \in 1..N : o[i] <= x => i <= a
    BY <1>1, <1>4, <1>5, FindBlock
  <1>8. PICK f : f = findBlockAt(o, y)
    OBVIOUS
  <1>9. f \in 1..N /\ \A i \in 1..N : o[i] <= y => i <= f
    BY <1>4, <1>6, <1>8, FindBlock
  <1>10. z = f
    BY <1>1, <1>8, <1>9 DEF Min2
  <1>11. \A i \in 1..N : o[i] \in Nat /\ h[i] \in Nat /\ i \in Nat
    <2>1. \A i \in 1..N : i \in 1..(N + 1)
      OBVIOUS
    <2> QED BY <1>3, <2>1 DEF HeightTable
  <1>12. z >= a
    <2>1. o[a] <= y
      BY <1>5, <1>6, <1>7, <1>11
    <2> QED BY <1>7, <1>9, <1>10, <2>1
  <1>13. ASSUME NEW b \in 1..N, NEW r \in 0..(R - 1), Covers(h, o, b, Y + r) PROVE b \in a..z
    <2>1. o[b] <= Y + r /\ Y + r < o[b] + h[b] /\ r \in Nat
      BY <1>13 DEF Covers
    <2>2. o[b] + h[b] <= t
      <3>1. N + 1 \in (b + 1)..(Len(h) + 1)
        OBVIOUS
      <3> QED BY <1>1, <3>1, SumsGrow
    <2>3. Y + r < t
      BY <1>4, <1>11, <2>1, <2>2
    <2>4. b <= z
      <3>1. Y + r <= y
        BY <1>6, <2>3
      <3>2. o[b] <= y
        BY <1>6, <1>11, <2>1, <3>1
      <3> QED BY <1>9, <1>10, <3>2
    <2>5. b >= a
      <3>1. ASSUME b < a PROVE FALSE
        <4>1. a \in (b + 1)..(Len(h) + 1)
          BY <1>7, <3>1
        <4>2. o[b] + h[b] <= o[a]
          BY <4>1, SumsGrow
        <4>3. PICK oa, s : oa = o[a] /\ s = o[b] + h[b]
          OBVIOUS
        <4>4. oa <= x /\ s <= oa /\ Y + r < s /\ oa \in Nat /\ s \in Nat /\ r \in Nat
          BY <1>7, <1>11, <2>1, <4>2, <4>3
        <4> QED BY <1>5, <4>4
      <3> QED BY <1>7, <1>11, <3>1
    <2> QED BY <1>7, <1>9, <1>10, <2>4, <2>5
  <1> QED BY <1>7, <1>9, <1>10, <1>12, <1>13 DEF Framed

(* Row r of the screen is row Y + r of the document.                       *)
ShowsFrom(w, R, Y, d) == \A r \in 0..(R - 1) : w[r] = IF Y + r < Len(d) THEN d[Y + r + 1] ELSE <<>>

LEMMA PaintShows ==
    ASSUME nodes \in Seq(NodeRecords), NEW C \in Widths, NEW R \in Nat \ {0}, NEW h, h = HeightsAt(nodes, C),
           NEW o, Sums(h, o), NEW N \in Nat, N = Len(nodes), NEW Y \in Nat, NEW a \in 1..N, NEW z \in 1..N,
           Framed(h, o, N, Y, R, a, z), NEW w, PaintedTo(w, a, z, C, R, h, o, Y)
    PROVE  ShowsFrom(w, R, Y, DocOf(nodes, C))
  <1>1. PICK d : d = DocOf(nodes, C)
    OBVIOUS
  <1>2. h \in Seq(Nat) /\ Len(h) = N /\ C \in Nat
    <2>1. h \in Seq(Nat) /\ Len(h) = N
      BY HeightsTyped
    <2>2. C \in Nat
      BY SbAssumption DEF Widths
    <2> QED BY <2>1, <2>2
  <1>3. Len(d) = o[N + 1] /\ \A i \in 1..N : \A y \in Nat : Covers(h, o, i, y) => d[y + 1] = DocCell(nodes[i], C, y - o[i])
    BY <1>1, DocLookup DEF DocTable
  <1>4. \A i \in a..z : i \in 1..N
    OBVIOUS
  <1>5. ASSUME NEW r \in 0..(R - 1) PROVE w[r] = IF Y + r < Len(d) THEN d[Y + r + 1] ELSE <<>>
    <2>1. PICK y : y = Y + r /\ y \in Nat
      OBVIOUS
    <2>2. \/ \E b \in a..z : /\ Covers(h, o, b, y) /\ SbHeight[nodes[b].kind][C] # 0
                            /\ w[r] = <<nodes[b].id, y - o[b]>>
          \/ w[r] = <<>> /\ \A b \in a..z : Covers(h, o, b, y) => SbHeight[nodes[b].kind][C] = 0
      BY <2>1 DEF PaintedTo
    <2>3. CASE y < o[N + 1]
      <3>1. PICK b \in 1..N : Covers(h, o, b, y)
        BY <1>2, <2>1, <2>3, SomeCovers
      <3>2. b \in a..z
        BY <2>1, <3>1 DEF Framed
      <3>3. d[y + 1] = DocCell(nodes[b], C, y - o[b])
        BY <1>3, <2>1, <3>1
      <3>4. w[r] = DocCell(nodes[b], C, y - o[b])
        <4>1. CASE SbHeight[nodes[b].kind][C] = 0
          <5>1. \A c \in a..z : Covers(h, o, c, y) => c = b
            BY <1>2, <1>4, <2>1, <3>1, CoversOnce
          <5> QED BY <2>2, <4>1, <5>1 DEF DocCell
        <4>2. CASE SbHeight[nodes[b].kind][C] # 0
          <5>1. \A c \in a..z : Covers(h, o, c, y) => c = b
            BY <1>2, <1>4, <2>1, <3>1, CoversOnce
          <5>2. w[r] = <<nodes[b].id, y - o[b]>>
            BY <2>2, <3>1, <3>2, <4>2, <5>1
          <5> QED BY <4>2, <5>2 DEF DocCell
        <4> QED BY <4>1, <4>2
      <3> QED BY <1>3, <2>1, <2>3, <3>3, <3>4
    <2>4. CASE ~(y < o[N + 1])
      <3>1. ASSUME NEW b \in a..z, Covers(h, o, b, y) PROVE FALSE
        <4>1. b \in 1..N /\ HeightTable(h, o, N)
          BY <1>2, <1>4, SumsFacts
        <4>2. N + 1 \in (b + 1)..(Len(h) + 1) /\ b \in 1..(N + 1)
          BY <1>2, <4>1
        <4>3. o[b] + h[b] <= o[N + 1]
          BY <1>2, <4>1, <4>2, SumsGrow
        <4>4. o[b] \in Nat /\ h[b] \in Nat /\ o[N + 1] \in Nat
          BY <4>1, <4>2 DEF HeightTable
        <4> QED BY <2>1, <2>4, <3>1, <4>3, <4>4 DEF Covers
      <3>2. w[r] = <<>>
        BY <2>2, <3>1
      <3> QED BY <1>3, <2>1, <2>4, <3>2
    <2> QED BY <2>3, <2>4
  <1> QED BY <1>1, <1>5 DEF ShowsFrom

-----------------------------------------------------------------------------
(* A push and a drop.                                                      *)

StartsWith(h, g) == Len(h) <= Len(g) /\ \A i \in 1..Len(h) : g[i] = h[i]
Continues(h, o, p) == \A i \in 1..(Len(h) + 1) : p[i] = o[i]

LEMMA SumsPrefix ==
    ASSUME NEW h \in Seq(Nat), NEW o, Sums(h, o), NEW g \in Seq(Nat), NEW p, Sums(g, p), StartsWith(h, g)
    PROVE  Continues(h, o, p)
  <1>0. PICK N, M : N = Len(h) /\ M = Len(g)
    OBVIOUS
  <1>1. N = Len(h) /\ M = Len(g) /\ N \in Nat /\ M \in Nat /\ N <= M /\ \A i \in 1..N : g[i] = h[i]
    BY <1>0 DEF StartsWith
  <1>2. HeightTable(h, o, N) /\ HeightTable(g, p, M)
    BY <1>1, SumsFacts
  <1>3. \A i \in 1..N : i \in 1..M /\ i \in 1..(N + 1)
    BY <1>1
  <1> DEFINE T == {i \in 1..(N + 1) : p[i] # o[i]}
  <1>4. T = {}
    <2> SUFFICES ASSUME T # {} PROVE FALSE
      OBVIOUS
    <2>1. T \subseteq Nat
      BY <1>1
    <2> HIDE DEF T
    <2>2. PICK m \in T : \A i \in T : m <= i
      BY <2>1, LeastNat
    <2>3. m \in 1..(N + 1) /\ p[m] # o[m]
      BY DEF T
    <2>4. m # 1
      BY <1>2, <2>3 DEF HeightTable
    <2>5. PICK n : n = m - 1
      OBVIOUS
    <2>6. n \in 1..N /\ n + 1 = m /\ n \in 1..(N + 1) /\ ~(m <= n)
      BY <1>1, <2>3, <2>4, <2>5
    <2>7. p[n] = o[n]
      BY <2>2, <2>6 DEF T
    <2>8. p[m] = p[n] + g[n] /\ o[m] = o[n] + h[n] /\ g[n] = h[n]
      BY <1>1, <1>2, <1>3, <2>6 DEF HeightTable
    <2> QED BY <2>3, <2>7, <2>8
  <1> QED BY <1>1, <1>4 DEF Continues

(* The row of the document that the reader sees stays, d blocks dropped.   *)
CutAt(ms, ns, d) == ms \in Seq(NodeRecords) /\ Len(ms) = Len(ns) - d /\ \A i \in 1..Len(ms) : ms[i] = ns[i + d]

KeptRows(doc, later, total, D, e) ==
    /\ Len(doc) = total /\ total \in Nat /\ D \in Nat /\ Len(later) = (total + e) - D
    /\ \A Y \in Nat : Y < total /\ Y >= D => later[(Y - D) + 1] = doc[Y + 1]

LEMMA RowKept ==
    ASSUME NEW ns \in Seq(NodeRecords), NEW x \in NodeRecords, NEW C \in Widths, NEW N \in Nat, N = Len(ns),
           NEW o, Sums(HeightsAt(ns, C), o), NEW more, more = Append(ns, x), NEW os, Sums(HeightsAt(more, C), os),
           NEW d \in 0..N, NEW ms, CutAt(ms, more, d)
    PROVE  KeptRows(DocOf(ns, C), DocOf(ms, C), o[N + 1], os[d + 1], measureHeight(x.kind, C))
  <1>0. ms \in Seq(NodeRecords) /\ Len(ms) = (N + 1) - d /\ \A i \in 1..Len(ms) : ms[i] = more[i + d]
    <2>1. Len(more) = N + 1
      OBVIOUS
    <2> QED BY <2>1 DEF CutAt
  <1>1. more \in Seq(NodeRecords) /\ Len(more) = N + 1 /\ more[N + 1] = x /\ \A i \in 1..N : more[i] = ns[i]
    OBVIOUS
  <1>2. PICK h, hs, hm, M : h = HeightsAt(ns, C) /\ hs = HeightsAt(more, C) /\ hm = HeightsAt(ms, C) /\ M = Len(ms)
    OBVIOUS
  <1>3. /\ h \in Seq(Nat) /\ Len(h) = N
        /\ \A i \in 1..N : h[i] = measureHeight(ns[i].kind, C)
    BY <1>2, HeightsTyped
  <1>4. /\ hs \in Seq(Nat) /\ Len(hs) = N + 1
        /\ \A i \in 1..(N + 1) : hs[i] = measureHeight(more[i].kind, C)
    <2>1. /\ hs \in Seq(Nat) /\ Len(hs) = Len(more)
          /\ \A i \in 1..Len(more) : hs[i] = measureHeight(more[i].kind, C)
      BY <1>1, <1>2, HeightsTyped
    <2> QED BY <1>1, <2>1
  <1>5. /\ hm \in Seq(Nat) /\ Len(hm) = M
        /\ \A i \in 1..M : hm[i] = measureHeight(ms[i].kind, C)
    BY <1>0, <1>2, HeightsTyped
  <1>6. M \in Nat /\ M = (N + 1) - d /\ d \in Nat /\ d + 1 \in 1..(N + 1)
    BY <1>0, <1>2
  <1>7. PICK p : Sums(hm, p)
    BY <1>5, RebuildSums
  <1>8. HeightTable(h, o, N) /\ HeightTable(hs, os, N + 1) /\ HeightTable(hm, p, M)
    BY <1>2, <1>3, <1>4, <1>5, <1>7, SumsFacts
  <1>9. \A i \in 1..(N + 1) : os[i] = o[i]
    <2>1. \A i \in 1..N : hs[i] = h[i]
      <3>1. \A i \in 1..N : i \in 1..(N + 1)
        OBVIOUS
      <3> QED BY <1>1, <1>3, <1>4, <3>1
    <2>2. Len(h) <= Len(hs)
      BY <1>3, <1>4
    <2>3. StartsWith(h, hs)
      BY <1>3, <2>1, <2>2 DEF StartsWith
    <2>4. Continues(h, o, os)
      BY <1>2, <1>3, <1>4, <2>3, SumsPrefix
    <2> QED BY <1>3, <2>4 DEF Continues
  <1>10. \A i \in 1..(M + 1) : os[i + d] = os[d + 1] + p[i]
    <2>1. \A i \in 1..M : hm[i] = hs[i + d]
      <3>1. \A i \in 1..M : i + d \in 1..(N + 1)
        BY <1>6
      <3> QED BY <1>0, <1>2, <1>4, <1>5, <3>1
    <2>2. Len(hm) = Len(hs) - d /\ d \in 0..Len(hs)
      BY <1>4, <1>5, <1>6
    <2>3. Dropped(hs, d, hm)
      BY <1>4, <1>5, <2>1, <2>2 DEF Dropped
    <2>4. Shifted(hm, os, p, d)
      BY <1>2, <1>4, <1>5, <1>7, <2>3, SumsDrop
    <2> QED BY <1>5, <2>4 DEF Shifted
  <1>11. PICK D, total, e : D = os[d + 1] /\ total = o[N + 1] /\ e = measureHeight(x.kind, C)
    OBVIOUS
  <1>12. D \in Nat /\ total \in Nat /\ e \in Nat
    <2>1. d + 1 \in 1..((N + 1) + 1)
      BY <1>6
    <2>2. D \in Nat /\ total \in Nat
      BY <1>8, <1>11, <2>1 DEF HeightTable
    <2>3. hs[N + 1] = e /\ N + 1 \in 1..(N + 1)
      BY <1>1, <1>4, <1>11
    <2> QED BY <1>8, <2>2, <2>3 DEF HeightTable
  <1>13. Len(DocOf(ns, C)) = total
    BY <1>11, DocLookup DEF DocTable
  <1>14. Len(DocOf(ms, C)) = (total + e) - D
    <2>1. Len(DocOf(ms, C)) = p[M + 1]
      BY <1>0, <1>2, <1>7, DocLookup DEF DocTable
    <2>2. N + 1 \in 1..(N + 1) /\ M + 1 \in 1..(M + 1) /\ (M + 1) + d = (N + 1) + 1
      BY <1>6
    <2>3. os[(N + 1) + 1] = os[N + 1] + hs[N + 1]
      BY <1>8, <2>2 DEF HeightTable
    <2>4. os[N + 1] = total /\ hs[N + 1] = e
      BY <1>1, <1>4, <1>9, <1>11, <2>2
    <2>5. os[(N + 1) + 1] = D + p[M + 1]
      BY <1>10, <1>11, <2>2
    <2>6. p[M + 1] \in Nat
      BY <1>8 DEF HeightTable
    <2>7. PICK t : t = p[M + 1]
      OBVIOUS
    <2>8. t \in Nat /\ total + e = D + t /\ Len(DocOf(ms, C)) = t
      BY <2>1, <2>3, <2>4, <2>5, <2>6, <2>7
    <2> QED BY <1>12, <2>8
  <1>15. ASSUME NEW Y \in Nat, Y < total, Y >= D PROVE DocOf(ms, C)[(Y - D) + 1] = DocOf(ns, C)[Y + 1]
    <2>1. PICK b \in 1..N : Covers(h, o, b, Y)
      BY <1>2, <1>3, <1>11, <1>15, SomeCovers
    <2>2. b \in 1..(N + 1) /\ o[b] <= Y /\ Y < o[b] + h[b] /\ o[b] \in Nat /\ h[b] \in Nat /\ os[b] = o[b]
      <3>1. b \in 1..(N + 1)
        BY <2>1
      <3> QED BY <1>8, <1>9, <2>1, <3>1 DEF Covers, HeightTable
    <2>3. hs[b] = h[b] /\ more[b] = ns[b]
      BY <1>1, <1>3, <1>4, <2>1, <2>2
    <2>4. b > d
      <3>1. ASSUME b <= d PROVE FALSE
        <4>1. b \in 1..Len(hs) /\ d + 1 \in (b + 1)..(Len(hs) + 1)
          BY <1>4, <1>6, <2>2, <3>1
        <4>2. os[b] + hs[b] <= os[d + 1]
          BY <1>2, <1>4, <4>1, SumsGrow
        <4> QED BY <1>11, <1>12, <1>15, <2>2, <2>3, <4>2
      <3> QED BY <1>6, <2>2, <3>1
    <2>5. PICK c : c = b - d
      OBVIOUS
    <2>6. c \in 1..M /\ c \in 1..(M + 1) /\ c + d = b
      BY <1>6, <2>2, <2>4, <2>5
    <2>7. p[c] \in Nat /\ os[b] = D + p[c] /\ hm[c] = hs[b] /\ ms[c] = ns[b]
      <3>1. ms[c] = more[b]
        BY <1>0, <1>2, <2>6
      <3>2. hm[c] = hs[b]
        BY <1>4, <1>5, <2>2, <2>6, <3>1
      <3>3. p[c] \in Nat /\ os[b] = D + p[c]
        BY <1>8, <1>10, <1>11, <2>6 DEF HeightTable
      <3> QED BY <2>3, <3>1, <3>2, <3>3
    <2>8. PICK y : y = Y - D /\ y \in Nat
      BY <1>12, <1>15
    <2>9. Covers(hm, p, c, y) /\ y - p[c] = Y - o[b]
      <3>1. PICK u, v, w : u = p[c] /\ v = o[b] /\ w = h[b]
        OBVIOUS
      <3>2. u \in Nat /\ v \in Nat /\ w \in Nat /\ v = D + u /\ v <= Y /\ Y < v + w /\ hm[c] = w
        BY <2>2, <2>3, <2>7, <3>1
      <3>3. u <= y /\ y < u + w /\ y - u = Y - v
        BY <1>12, <2>8, <3>2
      <3> QED BY <3>1, <3>2, <3>3 DEF Covers
    <2>10. DocOf(ms, C)[y + 1] = DocCell(ms[c], C, y - p[c])
      <3>1. c \in 1..Len(ms) /\ Sums(HeightsAt(ms, C), p) /\ Covers(HeightsAt(ms, C), p, c, y)
        BY <1>2, <1>7, <2>6, <2>9
      <3>2. ms \in Seq(NodeRecords) /\ y \in Nat
        BY <1>0, <2>8
      <3>3. DocRow(ms, C, p, c, y)
        BY <3>1, <3>2, DocAt
      <3> QED BY <3>3 DEF DocRow
    <2>11. DocOf(ns, C)[Y + 1] = DocCell(ns[b], C, Y - o[b])
      BY <1>2, <2>1, DocLookup DEF DocTable
    <2> QED BY <2>7, <2>8, <2>9, <2>10, <2>11
  <1> QED BY <1>11, <1>12, <1>13, <1>14, <1>15 DEF KeptRows

-----------------------------------------------------------------------------
(* The inductive invariant of the scrollback.                              *)
SbShape ==
    /\ nodes \in Seq(NodeRecords) /\ Len(nodes) <= MaxNodes
    /\ view \in {<<0, 0>>} \cup SbViewports
    /\ heights = HeightsAt(nodes, view[1]) /\ Sums(heights, offsets)
    /\ sticky \in BOOLEAN
    /\ sbSpent \in [pushes : Nat, moves : Nat]

SbScroll ==
    /\ scrollY \in Nat /\ scrollY <= bottom(offsets, view[2])
    /\ nodes = <<>> => sticky
    /\ StickyAtBottom

SbInv == SbShape /\ SbScroll /\ cache \in Seq(Entries(nodes)) /\ RenderShowsDocument

LEMMA SbFacts ==
    ASSUME SbInv
    PROVE  /\ nodes \in Seq(NodeRecords) /\ Len(nodes) \in Nat /\ Len(nodes) <= MaxNodes
           /\ heights = HeightsAt(nodes, view[1]) /\ heights \in Seq(Nat) /\ Len(heights) = Len(nodes)
           /\ HeightTable(heights, offsets, Len(nodes)) /\ Sums(heights, offsets)
           /\ view[1] \in Widths \cup {0} /\ view[2] \in Nat /\ view[1] \in Nat
           /\ view[1] # 0 => view[1] \in Widths /\ view[2] # 0
  <1>1. /\ nodes \in Seq(NodeRecords) /\ heights = HeightsAt(nodes, view[1]) /\ Sums(heights, offsets)
        /\ view \in {<<0, 0>>} \cup SbViewports /\ Len(nodes) <= MaxNodes
    BY DEF SbInv, SbShape
  <1>2. /\ view[1] \in Widths \cup {0} /\ view[2] \in Nat /\ view[1] \in Nat
        /\ view[1] # 0 => view[1] \in Widths /\ view[2] # 0
    <2>1. CASE view = <<0, 0>>
      <3>1. view[1] = 0 /\ view[2] = 0
        BY <2>1
      <3> QED BY <3>1
    <2>2. CASE view \in SbViewports
      <3>1. view[1] \in Nat \ {0} /\ view[2] \in Nat \ {0}
        BY <2>2, SbAssumption
      <3> QED BY <2>2, <3>1 DEF Widths
    <2> QED BY <1>1, <2>1, <2>2
  <1>3. heights \in Seq(Nat) /\ Len(heights) = Len(nodes)
    BY <1>1, <1>2, HeightsTyped
  <1>4. HeightTable(heights, offsets, Len(nodes))
    BY <1>1, <1>3, SumsFacts
  <1>5. Len(nodes) \in Nat
    BY <1>1
  <1> QED BY <1>1, <1>2, <1>3, <1>4, <1>5

Bottoms(o, N, R) ==
    /\ totalHeight(o) = o[N + 1] /\ o[N + 1] \in Nat /\ bottom(o, R) \in Nat
    /\ bottom(o, R) = IF o[N + 1] - R < 0 THEN 0 ELSE o[N + 1] - R
    /\ o[N + 1] = 0 => bottom(o, R) = 0
    /\ o[N + 1] # 0 /\ R # 0 => bottom(o, R) < o[N + 1]
    /\ N = 0 => o[N + 1] = 0 /\ bottom(o, R) = 0

LEMMA BottomFacts == ASSUME NEW h, NEW o, NEW N \in Nat, HeightTable(h, o, N), NEW R \in Nat PROVE Bottoms(o, N, R)
  <1>1. PICK t : t = o[N + 1]
    OBVIOUS
  <1>2. t \in Nat /\ Len(o) = N + 1 /\ o[1] = 0
    BY <1>1 DEF HeightTable
  <1>3. totalHeight(o) = t
    BY <1>1, <1>2 DEF totalHeight
  <1>4. bottom(o, R) = IF t - R < 0 THEN 0 ELSE t - R
    BY <1>3 DEF bottom, Floor0
  <1> QED BY <1>1, <1>2, <1>3, <1>4 DEF Bottoms

(* Nodes have rows.                                                        *)
LEMMA TallEnough ==
    ASSUME NEW ns \in Seq(NodeRecords), NEW C \in Widths \cup {0}, NEW o, Sums(HeightsAt(ns, C), o), Len(ns) # 0
    PROVE  o[Len(ns) + 1] # 0
  <1>1. PICK N, h : N = Len(ns) /\ h = HeightsAt(ns, C)
    OBVIOUS
  <1>2. N \in Nat /\ N # 0 /\ N \in 1..N
    BY <1>1
  <1>3. h \in Seq(Nat) /\ Len(h) = N /\ h[N] \in Nat \ {0}
    BY <1>1, <1>2, HeightsTyped
  <1>4. HeightTable(h, o, N)
    BY <1>1, <1>3, SumsFacts
  <1>5. N \in 1..(N + 1) /\ o[N] \in Nat /\ o[N + 1] = o[N] + h[N]
    BY <1>2, <1>4 DEF HeightTable
  <1> QED BY <1>1, <1>3, <1>5

LEMMA SbInitial == SbInit => SbInv
  <1> SUFFICES ASSUME SbInit PROVE SbInv
    OBVIOUS
  <1>1. nodes = <<>> /\ heights = <<>> /\ offsets = <<0>> /\ cache = <<>> /\ sticky = TRUE /\ scrollY = 0
    BY DEF SbInit
  <1>2. view = <<0, 0>> /\ painted = <<>> /\ sbSpent = [pushes |-> 0, moves |-> 0]
    BY DEF SbInit
  <1>3. nodes \in Seq(NodeRecords) /\ Len(nodes) <= MaxNodes
    BY <1>1, SbAssumption
  <1>4. heights = HeightsAt(nodes, view[1])
    BY <1>1 DEF HeightsAt
  <1>5. Sums(heights, offsets)
    <2>1. Len(heights) = 0 /\ offsets \in [1..1 -> Nat] /\ offsets[1] = 0
      BY <1>1
    <2> QED BY <2>1 DEF Sums
  <1>6. SbShape
    BY <1>1, <1>2, <1>3, <1>4, <1>5 DEF SbShape
  <1>7. bottom(offsets, view[2]) = 0
    BY <1>1, <1>2 DEF bottom, totalHeight, Floor0
  <1>8. SbScroll
    BY <1>1, <1>7 DEF SbScroll, StickyAtBottom
  <1> QED BY <1>1, <1>2, <1>6, <1>8 DEF SbInv, RenderShowsDocument

(* A scroll leaves the document alone.                                     *)
LEMMA ScrollOk ==
    ASSUME SbInv, Moves, UNCHANGED <<nodes, heights, offsets, cache, view>>, painted' = <<>>,
           sticky' \in BOOLEAN, scrollY' \in Nat, scrollY' <= bottom(offsets, view[2]),
           nodes = <<>> => sticky', sticky' => scrollY' = bottom(offsets, view[2])
    PROVE  SbInv'
  <1>1. sbSpent' \in [pushes : Nat, moves : Nat]
    BY DEF SbInv, SbShape, Moves
  <1>2. SbShape'
    BY <1>1 DEF SbInv, SbShape
  <1>3. bottom(offsets, view[2])' = bottom(offsets, view[2])
    BY DEF bottom, totalHeight
  <1>4. SbScroll'
    BY <1>3 DEF SbInv, SbScroll, StickyAtBottom
  <1>5. (cache \in Seq(Entries(nodes)))'
    BY DEF SbInv, Entries
  <1> QED BY <1>2, <1>4, <1>5 DEF SbInv, RenderShowsDocument

LEMMA ScrollByStep == ASSUME SbInv, NEW delta \in {-2, -1, 1}, ScrollBy(delta) PROVE SbInv'
  <1>1. PICK sy, maxY : sy = Floor0(scrollY + delta) /\ maxY = bottom(offsets, view[2])
    OBVIOUS
  <1>2. maxY \in Nat /\ scrollY \in Nat /\ delta \in Int /\ sticky \in BOOLEAN
    <2>1. maxY \in Nat
      BY <1>1, SbFacts, BottomFacts DEF Bottoms
    <2> QED BY <2>1 DEF SbInv, SbScroll, SbShape
  <1>3. sy \in Nat
    BY <1>1, <1>2 DEF Floor0
  <1>4. /\ Moves /\ UNCHANGED <<nodes, heights, offsets, cache, view>> /\ painted' = <<>>
        /\ scrollY' = Min2(sy, maxY)
        /\ sticky' = IF sy >= maxY THEN TRUE ELSE IF delta < 0 THEN FALSE ELSE sticky
    BY <1>1 DEF ScrollBy
  <1>5. scrollY' \in Nat /\ scrollY' <= maxY /\ (sy >= maxY => scrollY' = maxY)
    BY <1>2, <1>3, <1>4 DEF Min2
  <1>6. sticky' \in BOOLEAN
    BY <1>2, <1>4
  <1>7. sticky' => scrollY' = maxY
    <2>1. CASE sy >= maxY
      BY <1>5, <2>1
    <2>2. CASE ~(sy >= maxY)
      <3>1. ASSUME sticky' PROVE FALSE
        <4>1. ~(delta < 0) /\ sticky
          BY <1>4, <2>2, <3>1
        <4>2. scrollY = maxY
          BY <1>1, <4>1 DEF SbInv, SbScroll, StickyAtBottom
        <4> QED BY <1>1, <1>2, <2>2, <4>1, <4>2 DEF Floor0
      <3> QED BY <3>1
    <2> QED BY <2>1, <2>2
  <1>8. nodes = <<>> => sticky'
    <2> SUFFICES ASSUME nodes = <<>> PROVE sticky'
      OBVIOUS
    <2>1. Len(nodes) = 0
      OBVIOUS
    <2>2. maxY = 0
      BY <1>1, <2>1, SbFacts, BottomFacts DEF Bottoms
    <2> QED BY <1>3, <1>4, <2>2
  <1> QED BY <1>1, <1>4, <1>5, <1>6, <1>7, <1>8, ScrollOk

LEMMA ToBottomStep == ASSUME SbInv, ScrollToBottom PROVE SbInv'
  <1>1. PICK maxY : maxY = bottom(offsets, view[2])
    OBVIOUS
  <1>2. maxY \in Nat
    BY <1>1, SbFacts, BottomFacts DEF Bottoms
  <1>3. /\ Moves /\ UNCHANGED <<nodes, heights, offsets, cache, view>> /\ painted' = <<>>
        /\ scrollY' = maxY /\ sticky' = TRUE
    BY <1>1 DEF ScrollToBottom
  <1> QED BY <1>1, <1>2, <1>3, ScrollOk

LEMMA DocumentIs ==
    /\ \A cols : Document(cols) = DocOf(nodes, cols)
    /\ Document(view[1])' = DocOf(nodes', view'[1])
  BY DEF Document, DocOf, RowsOf, DocCell

LEMMA RenderStep == ASSUME SbInv, NEW vp \in SbViewports, Render(vp) PROVE SbInv'
  <1>1. PICK C, R, N : C = vp[1] /\ R = vp[2] /\ N = Len(nodes)
    OBVIOUS
  <1>2. PICK resized, hs, os :
          /\ resized = (vp # view)
          /\ hs = IF resized THEN [i \in DOMAIN nodes |-> measureHeight(nodes[i].kind, C)] ELSE heights
          /\ os = IF resized THEN rebuildOffsets(hs) ELSE offsets
    OBVIOUS
  <1>3. PICK total, s0, sy :
          /\ total = totalHeight(os)
          /\ s0 = IF resized /\ sticky THEN bottom(os, R) ELSE scrollY
          /\ sy = IF total = 0 THEN s0 ELSE Min2(s0, bottom(os, R))
    OBVIOUS
  <1>4. PICK k, u, blank : /\ k = IF resized THEN InvalidateAll(cache) ELSE cache
                           /\ u = [r \in 0..R-1 |-> <<>>]
                           /\ blank = Canvas(C, R, hs, os, sy, k, u)
    OBVIOUS
  <1>5. PICK a, z, done :
          /\ a = findBlockAt(os, Floor0(sy - Overscan))
          /\ z = Min2(findBlockAt(os, Min2(sy + R + Overscan, total) - 1), N)
          /\ done = IF total = 0 THEN blank ELSE paintBlocks(blank, a, z)
    OBVIOUS
  <1>6. /\ Moves
        /\ heights' = hs /\ offsets' = os /\ scrollY' = sy /\ view' = vp
        /\ cache' = done.cache /\ painted' = done.out
        /\ nodes' = nodes /\ sticky' = sticky
    <2>1. blank = [cols |-> C, rows |-> R, hs |-> hs, os |-> os, sy |-> sy, cache |-> k, out |-> u]
      BY <1>4 DEF Canvas
    <2>2. done = IF total = 0 THEN blank ELSE paintBlocks(blank, a, z)
      BY <1>5
    <2>3. Moves /\ heights' = hs /\ offsets' = os /\ scrollY' = sy /\ view' = vp /\ nodes' = nodes /\ sticky' = sticky
      BY <1>1, <1>2, <1>3 DEF Render
    <2>4. cache' = done.cache /\ painted' = done.out
      BY <1>1, <1>2, <1>3, <1>4, <1>5, <2>1, <2>2 DEF Render
    <2> QED BY <2>3, <2>4
  <1>7. /\ C \in Widths /\ R \in Nat \ {0} /\ C \in Nat
    BY <1>1, SbAssumption DEF Widths
  <1>8. nodes \in Seq(NodeRecords) /\ N \in Nat
    BY <1>1, SbFacts
  <1>9. hs = HeightsAt(nodes, C)
    <2>1. CASE resized
      <3>1. DOMAIN nodes = 1..Len(nodes)
        BY <1>8
      <3> QED BY <1>2, <2>1, <3>1 DEF HeightsAt
    <2>2. CASE ~resized
      BY <1>1, <1>2, <2>2, SbFacts
    <2> QED BY <2>1, <2>2
  <1>10. hs \in Seq(Nat) /\ Len(hs) = N
    BY <1>1, <1>7, <1>8, <1>9, HeightsTyped
  <1>11. Sums(hs, os)
    <2>1. CASE resized
      BY <1>2, <1>10, <2>1, RebuildSums
    <2>2. CASE ~resized
      BY <1>2, <2>2, SbFacts
    <2> QED BY <2>1, <2>2
  <1>12. HeightTable(hs, os, N)
    BY <1>10, <1>11, SumsFacts
  <1>13. PICK b : b = bottom(os, R)
    OBVIOUS
  <1>14. /\ total = os[N + 1] /\ total \in Nat /\ b \in Nat
         /\ total = 0 => b = 0
         /\ total # 0 => b < total
    <2>1. Bottoms(os, N, R)
      BY <1>7, <1>8, <1>12, BottomFacts
    <2> QED BY <1>3, <1>7, <1>13, <2>1 DEF Bottoms
  <1>15. total = 0 => N = 0
    BY <1>1, <1>7, <1>8, <1>9, <1>11, <1>14, TallEnough
  <1>16. scrollY \in Nat /\ sticky \in BOOLEAN
    BY DEF SbInv, SbShape, SbScroll
  <1>17. N = 0 => scrollY = 0
    <2>1. scrollY <= bottom(offsets, view[2])
      BY DEF SbInv, SbScroll
    <2>2. N = 0 => bottom(offsets, view[2]) = 0
      BY <1>1, SbFacts, BottomFacts DEF Bottoms
    <2> QED BY <1>16, <2>1, <2>2
  <1>18. sy \in Nat /\ sy <= b /\ (sticky => sy = b)
    <2>1. s0 \in Nat
      BY <1>3, <1>13, <1>14, <1>16
    <2>2. ~resized /\ sticky => s0 = b
      <3> SUFFICES ASSUME ~resized, sticky PROVE s0 = b
        OBVIOUS
      <3>1. view = vp /\ os = offsets /\ s0 = scrollY
        BY <1>2, <1>3
      <3> QED BY <1>1, <1>13, <3>1 DEF SbInv, SbScroll, StickyAtBottom
    <2>3. sticky => s0 = b
      BY <1>3, <1>13, <2>2
    <2>4. CASE total = 0
      <3>1. sy = s0 /\ b = 0 /\ scrollY = 0
        BY <1>3, <1>14, <1>15, <1>17, <2>4
      <3>2. s0 = 0
        BY <1>3, <1>13, <3>1
      <3> QED BY <3>1, <3>2
    <2>5. CASE total # 0
      <3>1. sy = IF s0 < b THEN s0 ELSE b
        BY <1>3, <1>13, <2>5 DEF Min2
      <3> QED BY <1>14, <2>1, <2>3, <3>1
    <2> QED BY <2>4, <2>5
  <1>19. k \in Seq(Entries(nodes))
    BY <1>4 DEF InvalidateAll, SbInv
  <1>20. done.cache \in Seq(Entries(nodes)) /\ ShowsFrom(done.out, R, sy, DocOf(nodes, C))
    <2>1. Clear(u, R)
      BY <1>4 DEF Clear
    <2>2. CASE total = 0
      <3>1. done = Canvas(C, R, hs, os, sy, k, u)
        BY <1>4, <1>5, <2>2
      <3>2. done.cache = k /\ done.out = u
        BY <3>1 DEF Canvas
      <3>3. Len(DocOf(nodes, C)) = 0
        BY <1>1, <1>7, <1>8, <1>9, <1>11, <1>14, <2>2, DocLookup DEF DocTable
      <3>4. ShowsFrom(u, R, sy, DocOf(nodes, C))
        BY <1>7, <1>18, <2>1, <3>3 DEF ShowsFrom, Clear
      <3> QED BY <1>19, <3>2, <3>4
    <2>3. CASE total # 0
      <3>1. sy < os[N + 1]
        BY <1>14, <1>18, <2>3
      <3>2. z = Min2(findBlockAt(os, Min2((sy + R) + Overscan, os[N + 1]) - 1), N)
        BY <1>5, <1>14
      <3>3. Framed(hs, os, N, sy, R, a, z)
        BY <1>5, <1>7, <1>8, <1>10, <1>11, <1>18, <3>1, <3>2, Window
      <3>4. PICK k2, w :
              /\ k2 \in Seq(Entries(nodes)) /\ paintBlocks(blank, a, z) = Canvas(C, R, hs, os, sy, k2, w)
              /\ PaintedTo(w, a, z, C, R, hs, os, sy)
        <4>1. a \in 1..Len(nodes) /\ z \in 1..Len(nodes) /\ z >= a /\ Len(hs) = Len(nodes)
          BY <1>1, <1>10, <3>3 DEF Framed
        <4>2. R \in Nat
          BY <1>7
        <4>3. PaintsInto(Canvas(C, R, hs, os, sy, k, u), C, R, hs, os, sy, a, z)
          BY <1>7, <1>8, <1>10, <1>11, <1>18, <1>19, <2>1, <4>1, <4>2, PaintAll
        <4> QED BY <1>4, <4>3 DEF PaintsInto
      <3>5. done.cache = k2 /\ done.out = w
        BY <1>5, <2>3, <3>4 DEF Canvas
      <3>7. a \in 1..N /\ z \in 1..N
        BY <3>3 DEF Framed
      <3>6. ShowsFrom(w, R, sy, DocOf(nodes, C))
        BY <1>1, <1>7, <1>8, <1>9, <1>11, <1>18, <3>3, <3>4, <3>7, PaintShows
      <3> QED BY <3>4, <3>5, <3>6
    <2> QED BY <2>2, <2>3
  <1>21. SbShape'
    <2>1. sbSpent' \in [pushes : Nat, moves : Nat]
      BY <1>6 DEF SbInv, SbShape, Moves
    <2>2. (heights = HeightsAt(nodes, view[1]))'
      BY <1>1, <1>6, <1>9 DEF HeightsAt
    <2>3. Sums(heights, offsets)'
      BY <1>6, <1>11 DEF Sums
    <2>4. view' \in {<<0, 0>>} \cup SbViewports
      BY <1>6
    <2> QED BY <1>6, <2>1, <2>2, <2>3, <2>4 DEF SbInv, SbShape
  <1>22. SbScroll'
    <2>1. bottom(offsets, view[2])' = b
      BY <1>1, <1>6, <1>13 DEF bottom, totalHeight
    <2>2. nodes' = <<>> => sticky'
      BY <1>6 DEF SbInv, SbScroll
    <2> QED BY <1>6, <1>18, <2>1, <2>2 DEF SbScroll, StickyAtBottom
  <1>23. (cache \in Seq(Entries(nodes)))'
    BY <1>6, <1>20 DEF Entries
  <1>24. RenderShowsDocument'
    <2>1. Document(view[1])' = DocOf(nodes, C)
      BY <1>1, <1>6, DocumentIs
    <2>2. view'[2] = R
      BY <1>1, <1>6
    <2>3. \A r \in 0..R-1 : painted'[r] = IF sy + r < Len(DocOf(nodes, C)) THEN DocOf(nodes, C)[sy + r + 1] ELSE <<>>
      BY <1>6, <1>20 DEF ShowsFrom
    <2> QED BY <1>6, <2>1, <2>2, <2>3 DEF RenderShowsDocument
  <1> QED BY <1>21, <1>22, <1>23, <1>24 DEF SbInv

-----------------------------------------------------------------------------
(* A push.                                                                 *)

LEMMA DropCount ==
    ASSUME NEW m \in Nat \ {0}
    PROVE  Max({1, m \div 10}) \in 1..m
  <1>1. m \div 10 \in Nat /\ m \div 10 <= m
    OBVIOUS
  <1>2. PICK k : k = m \div 10
    OBVIOUS
  <1>3. PICK x : x = CHOOSE t \in {1, k} : \A y \in {1, k} : t >= y
    OBVIOUS
  <1>4. \E t \in {1, k} : \A y \in {1, k} : t >= y
    <2>1. CASE k <= 1
      BY <1>1, <1>2, <2>1
    <2>2. CASE ~(k <= 1)
      BY <1>1, <1>2, <2>2
    <2> QED BY <2>1, <2>2
  <1>5. x \in {1, k} /\ \A y \in {1, k} : x >= y
    BY <1>3, <1>4
  <1>6. x \in 1..m
    BY <1>1, <1>2, <1>5
  <1>7. Max({1, k}) = x
    BY <1>3 DEF Max
  <1> QED BY <1>2, <1>6, <1>7

(* The heights of what is left once d nodes have lost, measured as they    *)
(* were.                                                                   *)
LEMMA HeightsAppend ==
    ASSUME NEW ns \in Seq(NodeRecords), NEW x \in NodeRecords, NEW C \in Widths \cup {0}
    PROVE  HeightsAt(Append(ns, x), C) = Append(HeightsAt(ns, C), measureHeight(x.kind, C))
  <1>1. PICK N, h, e, more : N = Len(ns) /\ h = HeightsAt(ns, C) /\ e = measureHeight(x.kind, C) /\ more = Append(ns, x)
    OBVIOUS
  <1>2. N \in Nat /\ more \in Seq(NodeRecords) /\ Len(more) = N + 1 /\ more[N + 1] = x /\ \A i \in 1..N : more[i] = ns[i]
    BY <1>1
  <1>3. h \in Seq(Nat) /\ Len(h) = N /\ \A i \in 1..N : h[i] = measureHeight(ns[i].kind, C)
    BY <1>1, HeightsTyped
  <1>4. e \in Nat
    <2>1. x.kind \in DOMAIN SbHeight
      BY DEF NodeRecords
    <2> QED BY <1>1, <2>1, Measured
  <1>5. PICK p, q : p = HeightsAt(more, C) /\ q = Append(h, e)
    OBVIOUS
  <1>6. p \in Seq(Nat) /\ Len(p) = N + 1 /\ \A i \in 1..(N + 1) : p[i] = measureHeight(more[i].kind, C)
    <2>1. p \in Seq(Nat) /\ Len(p) = Len(more) /\ \A i \in 1..Len(more) : p[i] = measureHeight(more[i].kind, C)
      BY <1>2, <1>5, HeightsTyped
    <2> QED BY <1>2, <2>1
  <1>7. q \in Seq(Nat) /\ Len(q) = N + 1 /\ q[N + 1] = e /\ \A i \in 1..N : q[i] = h[i]
    BY <1>3, <1>4, <1>5
  <1>8. \A i \in 1..(N + 1) : p[i] = q[i]
    <2> TAKE i \in 1..(N + 1)
    <2>1. CASE i = N + 1
      BY <1>1, <1>2, <1>6, <1>7, <2>1
    <2>2. CASE i # N + 1
      <3>1. i \in 1..N
        BY <1>2, <2>2
      <3> QED BY <1>2, <1>3, <1>6, <1>7, <3>1
    <2> QED BY <2>1, <2>2
  <1>9. p = q
    <2>1. Len(p) = Len(q) /\ \A i \in 1..Len(p) : p[i] = q[i]
      BY <1>6, <1>7, <1>8
    <2> QED BY <1>6, <1>7, <2>1, SeqEqual
  <1> QED BY <1>1, <1>5, <1>9

LEMMA HeightsCut ==
    ASSUME NEW ns \in Seq(NodeRecords), NEW C \in Widths \cup {0}, NEW d \in 0..Len(ns), NEW ms,
           ms = SubSeq(ns, d + 1, Len(ns))
    PROVE  /\ CutAt(ms, ns, d)
           /\ HeightsAt(ms, C) = SubSeq(HeightsAt(ns, C), d + 1, Len(HeightsAt(ns, C)))
  <1>1. PICK N, h, n : N = Len(ns) /\ h = HeightsAt(ns, C) /\ n = N - d
    OBVIOUS
  <1>2. N \in Nat /\ d \in Nat /\ d <= N /\ n \in Nat /\ d + 1 \in Int
    BY <1>1
  <1>3. /\ h \in Seq(Nat) /\ Len(h) = N
        /\ \A i \in 1..N : h[i] = measureHeight(ns[i].kind, C) /\ h[i] \in Nat
    BY <1>1, HeightsTyped
  <1>4. \A i \in (d + 1)..N : ns[i] \in NodeRecords /\ h[i] \in Nat
    <2>1. \A i \in (d + 1)..N : i \in 1..N
      BY <1>2
    <2> QED BY <1>1, <1>3, <2>1
  <1>5. /\ ms \in Seq(NodeRecords) /\ Len(ms) = n
        /\ \A i \in 1..n : ms[i] = ns[i + d]
    <2>1. /\ ms \in Seq(NodeRecords)
          /\ Len(ms) = IF d + 1 <= N THEN (N - (d + 1)) + 1 ELSE 0
          /\ \A i \in 1..((N - (d + 1)) + 1) : ms[i] = ns[((d + 1) + i) - 1]
      BY <1>1, <1>2, <1>4, SubSeqProperties
    <2>2. (N - (d + 1)) + 1 = n /\ (~(d + 1 <= N) => n = 0) /\ \A i \in 1..n : ((d + 1) + i) - 1 = i + d
      BY <1>1, <1>2
    <2> QED BY <2>1, <2>2
  <1>6. PICK g : g = SubSeq(h, d + 1, N)
    OBVIOUS
  <1>7. /\ g \in Seq(Nat) /\ Len(g) = n
        /\ \A i \in 1..n : g[i] = h[i + d]
    <2>1. /\ g \in Seq(Nat)
          /\ Len(g) = IF d + 1 <= N THEN (N - (d + 1)) + 1 ELSE 0
          /\ \A i \in 1..((N - (d + 1)) + 1) : g[i] = h[((d + 1) + i) - 1]
      BY <1>2, <1>4, <1>6, SubSeqProperties
    <2>2. (N - (d + 1)) + 1 = n /\ (~(d + 1 <= N) => n = 0) /\ \A i \in 1..n : ((d + 1) + i) - 1 = i + d
      BY <1>1, <1>2
    <2> QED BY <2>1, <2>2
  <1>8. PICK p : p = HeightsAt(ms, C)
    OBVIOUS
  <1>9. p \in Seq(Nat) /\ Len(p) = n /\ \A i \in 1..n : p[i] = measureHeight(ms[i].kind, C)
    <2>1. MeasuredBy(p, ms, C)
      BY <1>5, <1>8, HeightsMeasured
    <2> QED BY <1>5, <2>1 DEF MeasuredBy
  <1>10. \A i \in 1..n : p[i] = g[i]
    <2>1. \A i \in 1..n : i + d \in 1..N
      BY <1>1, <1>2
    <2> QED BY <1>3, <1>5, <1>7, <1>9, <2>1
  <1>11. p = g
    <2>1. Len(p) = Len(g) /\ \A i \in 1..Len(p) : p[i] = g[i]
      BY <1>7, <1>9, <1>10
    <2> QED BY <1>7, <1>9, <2>1, SeqEqual
  <1>12. CutAt(ms, ns, d)
    BY <1>1, <1>5 DEF CutAt
  <1> QED BY <1>1, <1>3, <1>6, <1>8, <1>11, <1>12

(* A push of node x that drops the d oldest.                               *)
Pushed(d, x) ==
    /\ d \in 0..Len(nodes) /\ x \in NodeRecords /\ (Len(nodes) + 1) - d <= MaxNodes
    /\ nodes' = SubSeq(Append(nodes, x), d + 1, Len(nodes) + 1)
    /\ heights' = HeightsAt(nodes', view[1]) /\ Sums(heights', offsets')
    /\ LET t == rebuildOffsets(HeightsAt(Append(nodes, x), view[1])) IN
       scrollY' = Floor0((IF sticky THEN Floor0(t[Len(nodes) + 2] - view[2]) ELSE scrollY) - t[d + 1])
    /\ cache' = IF d = 0 THEN cache ELSE <<>>
    /\ painted' = <<>> /\ view' = view /\ sticky' = sticky
    /\ sbSpent' \in [pushes : Nat, moves : Nat]

LEMMA PushIs == ASSUME SbInv, Push PROVE \E d, x : Pushed(d, x)
  <1>1. PICK kind, x, ns, hs, os, sy, dropN :
          /\ kind \in DOMAIN SbHeight /\ x = [id |-> sbSpent.pushes, kind |-> kind]
          /\ ns = Append(nodes, x)
          /\ hs = Append(heights, measureHeight(kind, view[1]))
          /\ os = Append(offsets, totalHeight(offsets) + Last(hs))
          /\ sy = IF sticky THEN bottom(os, view[2]) ELSE scrollY
          /\ dropN = Max({1, MaxNodes \div 10})
          /\ IF Len(ns) <= MaxNodes
             THEN /\ nodes' = ns /\ heights' = hs /\ offsets' = os /\ scrollY' = sy
                  /\ cache' = cache
             ELSE /\ nodes' = SubSeq(ns, dropN + 1, Len(ns)) /\ heights' = SubSeq(hs, dropN + 1, Len(hs))
                  /\ cache' = InvalidateAll(cache)
                  /\ scrollY' = afterDrop(sy, rebuildOffsets(hs)[dropN + 1])
                  /\ offsets' = rebuildOffsets(SubSeq(hs, dropN + 1, Len(hs)))
    BY DEF Push
  <1>2. PICK N, C, R, e : N = Len(nodes) /\ C = view[1] /\ R = view[2] /\ e = measureHeight(kind, C)
    OBVIOUS
  <1>3. /\ nodes \in Seq(NodeRecords) /\ N \in Nat /\ N <= MaxNodes
        /\ heights = HeightsAt(nodes, C) /\ heights \in Seq(Nat) /\ Len(heights) = N
        /\ HeightTable(heights, offsets, N) /\ Sums(heights, offsets) /\ C \in Widths \cup {0} /\ R \in Nat
    BY <1>2, SbFacts
  <1>4. MaxNodes \in Nat \ {0}
    BY SbAssumption
  <1>5. sbSpent \in [pushes : Nat, moves : Nat] /\ sbSpent' = [sbSpent EXCEPT !.pushes = @ + 1]
    BY DEF SbInv, SbShape, Push
  <1>6. x \in NodeRecords /\ x.kind = kind
    BY <1>1, <1>5 DEF NodeRecords
  <1>7. /\ ns \in Seq(NodeRecords) /\ Len(ns) = N + 1
    BY <1>1, <1>2, <1>3, <1>6
  <1>8. e \in Nat
    BY <1>1, <1>2, <1>3, Measured
  <1>9. hs = HeightsAt(ns, C) /\ hs \in Seq(Nat) /\ Len(hs) = N + 1 /\ Last(hs) = e
    <2>1. hs = Append(heights, e)
      BY <1>1, <1>2
    <2>2. hs = HeightsAt(ns, C)
      BY <1>1, <1>2, <1>3, <1>6, <2>1, HeightsAppend
    <2>3. hs \in Seq(Nat) /\ Len(hs) = N + 1 /\ hs[N + 1] = e
      BY <1>3, <1>8, <2>1
    <2> QED BY <2>2, <2>3 DEF Last
  <1>10. Sums(hs, os)
    <2>1. os = Append(offsets, offsets[Len(offsets)] + e) /\ hs = Append(heights, e)
      BY <1>1, <1>2, <1>9 DEF totalHeight
    <2> QED BY <1>3, <1>8, <2>1, SumsAppend
  <1>11. PICK t : t = rebuildOffsets(hs)
    OBVIOUS
  <1>12. Sums(hs, t) /\ HeightTable(hs, t, N + 1) /\ HeightTable(hs, os, N + 1)
    BY <1>9, <1>10, <1>11, RebuildSums, SumsFacts
  <1>13. t[N + 2] = totalHeight(os) /\ t[1] = 0
    <2>1. StartsWith(hs, hs)
      BY <1>9 DEF StartsWith
    <2>2. Continues(hs, os, t)
      BY <1>9, <1>10, <1>12, <2>1, SumsPrefix
    <2>3. N + 2 \in 1..(Len(hs) + 1)
      BY <1>3, <1>9
    <2>4. t[N + 2] = os[N + 2]
      BY <2>2, <2>3 DEF Continues
    <2>5. Len(os) = N + 2
      <3>1. Len(os) = (N + 1) + 1 /\ (N + 1) + 1 = N + 2
        BY <1>3, <1>12 DEF HeightTable
      <3> QED BY <3>1
    <2>6. t[1] = 0
      BY <1>12 DEF HeightTable
    <2> QED BY <2>4, <2>5, <2>6 DEF totalHeight
  <1>14. sy = IF sticky THEN Floor0(t[N + 2] - R) ELSE scrollY
    BY <1>1, <1>2, <1>13 DEF bottom
  <1>15. sy \in Nat
    <2>1. scrollY \in Nat
      BY DEF SbInv, SbScroll
    <2>2. Bottoms(os, N + 1, R)
      BY <1>3, <1>12, BottomFacts
    <2> QED BY <1>1, <1>2, <2>1, <2>2 DEF Bottoms
  <1>16. painted' = <<>> /\ view' = view /\ sticky' = sticky /\ sbSpent' \in [pushes : Nat, moves : Nat]
    BY <1>5 DEF Push
  <1>17. CASE N + 1 <= MaxNodes
    <2>1. nodes' = ns /\ heights' = hs /\ offsets' = os /\ scrollY' = sy /\ cache' = cache
      BY <1>1, <1>7, <1>17
    <2>2. ns = SubSeq(ns, 0 + 1, N + 1)
      <3>1. 0 \in 0..Len(ns)
        BY <1>7
      <3>2. PICK ms : ms = SubSeq(ns, 0 + 1, Len(ns))
        OBVIOUS
      <3>3. ms \in Seq(NodeRecords) /\ Len(ms) = Len(ns) - 0 /\ \A i \in 1..Len(ms) : ms[i] = ns[i + 0]
        BY <1>3, <1>7, <3>1, <3>2, HeightsCut DEF CutAt
      <3>4. Len(ms) = Len(ns) /\ \A i \in 1..Len(ms) : ms[i] = ns[i]
        BY <1>7, <3>3
      <3>5. ms = ns
        BY <1>7, <3>3, <3>4, SeqEqual
      <3> QED BY <1>7, <3>2, <3>5
    <2>3. scrollY' = Floor0(sy - t[0 + 1])
      BY <1>13, <1>15, <2>1 DEF Floor0
    <2>4. Sums(heights', offsets') /\ heights' = HeightsAt(nodes', C)
      BY <1>9, <1>10, <2>1
    <2>5. 0 \in 0..N /\ (N + 1) - 0 <= MaxNodes
      BY <1>3, <1>17
    <2>6. Pushed(0, x)
      BY <1>1, <1>2, <1>6, <1>9, <1>11, <1>14, <1>16, <2>1, <2>2, <2>3, <2>4, <2>5 DEF Pushed
    <2> QED BY <2>6
  <1>18. CASE ~(N + 1 <= MaxNodes)
    <2>a. dropN \in 1..MaxNodes
      BY <1>1, <1>4, DropCount
    <2>b. PICK cap : cap = MaxNodes /\ cap \in Nat
      BY <1>4
    <2>1. N = cap /\ N = MaxNodes /\ dropN \in 1..N
      BY <1>3, <1>18, <2>a, <2>b
    <2>2. /\ nodes' = SubSeq(ns, dropN + 1, N + 1) /\ heights' = SubSeq(hs, dropN + 1, N + 1)
          /\ cache' = <<>> /\ scrollY' = Floor0(sy - t[dropN + 1])
          /\ offsets' = rebuildOffsets(heights')
      BY <1>1, <1>7, <1>9, <1>11, <1>18 DEF InvalidateAll, afterDrop
    <2>3. dropN \in 0..Len(ns) /\ dropN # 0 /\ dropN \in 0..N /\ (N + 1) - dropN <= MaxNodes
      <3>1. dropN \in 0..(N + 1) /\ dropN # 0 /\ dropN \in 0..N /\ (N + 1) - dropN <= N
        BY <1>3, <2>1
      <3> QED BY <1>7, <2>1, <3>1
    <2>4. heights' = HeightsAt(nodes', C)
      <3>1. PICK ms : ms = SubSeq(ns, dropN + 1, Len(ns))
        OBVIOUS
      <3>2. HeightsAt(ms, C) = SubSeq(HeightsAt(ns, C), dropN + 1, Len(HeightsAt(ns, C)))
        BY <1>3, <1>7, <2>3, <3>1, HeightsCut
      <3>3. HeightsAt(ms, C) = SubSeq(hs, dropN + 1, N + 1) /\ nodes' = ms
        BY <1>7, <1>9, <2>2, <3>1, <3>2
      <3> QED BY <2>2, <3>3
    <2>5. Sums(heights', offsets')
      <3>1. PICK ms, hm : ms = nodes' /\ hm = heights'
        OBVIOUS
      <3>2. ms \in Seq(NodeRecords)
        <4>1. CutAt(ms, ns, dropN)
          BY <1>3, <1>7, <2>2, <2>3, <3>1, HeightsCut
        <4> QED BY <4>1 DEF CutAt
      <3>3. hm \in Seq(Nat)
        BY <1>3, <2>4, <3>1, <3>2, HeightsTyped
      <3> QED BY <2>2, <3>1, <3>3, RebuildSums
    <2>6. Pushed(dropN, x)
      BY <1>1, <1>2, <1>6, <1>9, <1>11, <1>14, <1>16, <2>2, <2>3, <2>4, <2>5 DEF Pushed
    <2> QED BY <2>6
  <1> QED BY <1>3, <1>4, <1>17, <1>18

(* What a push does to the table: T the rows with the new node, D those    *)
(* that went.                                                              *)
PushedTable(d, x, N, C, more, t, ms, p) ==
    /\ more \in Seq(NodeRecords) /\ Len(more) = N + 1 /\ more[N + 1] = x
    /\ Sums(HeightsAt(more, C), t) /\ d \in 0..N /\ d \in Nat
    /\ ms \in Seq(NodeRecords) /\ Len(ms) = (N + 1) - d /\ Len(ms) \in Nat /\ Len(ms) # 0 /\ Len(ms) <= MaxNodes
    /\ \A i \in 1..Len(ms) : ms[i] = more[i + d]
    /\ HeightTable(HeightsAt(ms, C), p, Len(ms))
    /\ t[d + 1] \in Nat /\ offsets[N + 1] \in Nat /\ t[N + 2] \in Nat
    /\ p[Len(ms) + 1] = t[N + 2] - t[d + 1] /\ t[N + 2] >= offsets[N + 1]

LEMMA PushTable ==
    ASSUME SbInv, NEW d, NEW x, Pushed(d, x), NEW N, N = Len(nodes), NEW C, C = view[1],
           NEW more, more = Append(nodes, x), NEW t, t = rebuildOffsets(HeightsAt(more, C)),
           NEW ms, ms = nodes', NEW p, p = offsets'
    PROVE  PushedTable(d, x, N, C, more, t, ms, p)
  <1>1. /\ nodes \in Seq(NodeRecords) /\ N \in Nat /\ C \in Widths \cup {0}
        /\ heights = HeightsAt(nodes, C) /\ heights \in Seq(Nat) /\ Len(heights) = N
        /\ HeightTable(heights, offsets, N) /\ Sums(heights, offsets)
    BY SbFacts
  <1>2. PICK hs : more = Append(nodes, x) /\ hs = HeightsAt(more, C)
    OBVIOUS
  <1>3. d \in 0..N /\ x \in NodeRecords /\ (N + 1) - d <= MaxNodes /\ ms = SubSeq(more, d + 1, N + 1)
    BY <1>2 DEF Pushed
  <1>4. /\ more \in Seq(NodeRecords) /\ Len(more) = N + 1 /\ more[N + 1] = x
        /\ \A i \in 1..N : more[i] = nodes[i]
    BY <1>1, <1>2, <1>3
  <1>5. hs \in Seq(Nat) /\ Len(hs) = N + 1
    <2>1. hs \in Seq(Nat) /\ Len(hs) = Len(more)
      BY <1>1, <1>2, <1>4, HeightsTyped
    <2> QED BY <1>4, <2>1
  <1>6. Sums(hs, t) /\ HeightTable(hs, t, N + 1)
    <2>1. Sums(hs, t)
      BY <1>2, <1>5, RebuildSums
    <2>2. HeightTable(hs, t, Len(hs))
      BY <1>5, <2>1, SumsFacts
    <2> QED BY <1>5, <2>1, <2>2
  <1>7. ms \in Seq(NodeRecords) /\ Len(ms) = Len(more) - d /\ \A i \in 1..Len(ms) : ms[i] = more[i + d]
    <2>1. d \in 0..Len(more) /\ ms = SubSeq(more, d + 1, Len(more))
      BY <1>1, <1>3, <1>4
    <2>2. CutAt(ms, more, d)
      BY <1>1, <1>4, <2>1, HeightsCut
    <2> QED BY <2>2 DEF CutAt
  <1>8. PICK M, hm : M = Len(ms) /\ hm = HeightsAt(ms, C)
    OBVIOUS
  <1>9. M = (N + 1) - d /\ M \in Nat /\ M # 0 /\ d \in Nat /\ d <= N
    BY <1>1, <1>3, <1>4, <1>7, <1>8
  <1>10. hm \in Seq(Nat) /\ Len(hm) = M
    BY <1>1, <1>7, <1>8, HeightsTyped
  <1>11. Sums(hm, p) /\ HeightTable(hm, p, M)
    <2>1. Sums(hm, p)
      BY <1>8 DEF Pushed
    <2> QED BY <1>10, <2>1, SumsFacts
  <1>12. Dropped(hs, d, hm)
    <2>1. \A i \in 1..M : hm[i] = hs[i + d]
      <3>1. \A i \in 1..M : hm[i] = measureHeight(ms[i].kind, C) /\ ms[i] = more[i + d]
        <4>1. MeasuredBy(hm, ms, C)
          BY <1>1, <1>7, <1>8, HeightsMeasured
        <4> QED BY <1>7, <1>8, <4>1 DEF MeasuredBy
      <3>2. \A i \in 1..(N + 1) : hs[i] = measureHeight(more[i].kind, C)
        <4>1. MeasuredBy(hs, more, C)
          BY <1>1, <1>2, <1>4, HeightsMeasured
        <4> QED BY <1>4, <4>1 DEF MeasuredBy
      <3>3. \A i \in 1..M : i + d \in 1..(N + 1)
        BY <1>1, <1>9
      <3> QED BY <3>1, <3>2, <3>3
    <2>2. d \in 0..Len(hs) /\ Len(hm) = Len(hs) - d
      BY <1>1, <1>5, <1>9, <1>10
    <2> QED BY <1>10, <2>1, <2>2 DEF Dropped
  <1>13. t[(M + 1) + d] = t[d + 1] + p[M + 1]
    <2>1. Shifted(hm, t, p, d)
      BY <1>5, <1>6, <1>10, <1>11, <1>12, SumsDrop
    <2>2. M + 1 \in 1..(Len(hm) + 1)
      BY <1>9, <1>10
    <2> QED BY <2>1, <2>2 DEF Shifted
  <1>14. t[N + 1] = offsets[N + 1]
    <2>1. \A i \in 1..N : hs[i] = heights[i]
      <3>1. hs = Append(heights, measureHeight(x.kind, C))
        BY <1>1, <1>2, <1>3, HeightsAppend
      <3>2. x.kind \in DOMAIN SbHeight
        BY <1>3 DEF NodeRecords
      <3>3. measureHeight(x.kind, C) \in Nat
        BY <1>1, <3>2, Measured
      <3> QED BY <1>1, <3>1, <3>3
    <2>2. StartsWith(heights, hs)
      BY <1>1, <1>5, <2>1 DEF StartsWith
    <2>3. Continues(heights, offsets, t)
      BY <1>1, <1>5, <1>6, <2>2, SumsPrefix
    <2>4. N + 1 \in 1..(Len(heights) + 1)
      BY <1>1
    <2> QED BY <2>3, <2>4 DEF Continues
  <1>15. PICK T, D, total, q : T = t[N + 2] /\ D = t[d + 1] /\ total = offsets[N + 1] /\ q = p[M + 1]
    OBVIOUS
  <1>16. T \in Nat /\ D \in Nat /\ total \in Nat /\ q \in Nat
    <2>1. N + 2 \in 1..((N + 1) + 1) /\ d + 1 \in 1..((N + 1) + 1)
      BY <1>1, <1>9
    <2>2. T \in Nat /\ D \in Nat
      BY <1>6, <1>15, <2>1 DEF HeightTable
    <2>3. total \in Nat
      BY <1>1, <1>15 DEF HeightTable
    <2>4. q \in Nat
      BY <1>11, <1>15 DEF HeightTable
    <2> QED BY <2>2, <2>3, <2>4
  <1>17. T >= total
    <2>1. N + 1 \in 1..(N + 1) /\ (N + 1) + 1 = N + 2
      BY <1>1
    <2>2. t[N + 2] = t[N + 1] + hs[N + 1] /\ hs[N + 1] \in Nat
      BY <1>6, <2>1 DEF HeightTable
    <2>3. T = total + hs[N + 1]
      BY <1>14, <1>15, <2>2
    <2> QED BY <1>16, <2>2, <2>3
  <1>18. q = T - D
    <2>1. (M + 1) + d = N + 2
      BY <1>1, <1>9
    <2>2. T = D + q
      BY <1>13, <1>15, <2>1
    <2> QED BY <1>16, <2>2
  <1>19. \A i \in 1..Len(ms) : ms[i] = more[i + d]
    BY <1>2, <1>7
  <1>20. Len(ms) <= MaxNodes
    BY <1>3, <1>8, <1>9
  <1> QED BY <1>2, <1>3, <1>4, <1>6, <1>7, <1>8, <1>9, <1>11, <1>15, <1>16, <1>17, <1>18, <1>19, <1>20
      DEF PushedTable

LEMMA PushStep == ASSUME SbInv, Push PROVE SbInv'
  <1>1. PICK d, x : Pushed(d, x)
    BY PushIs
  <1>2. PICK N, C, R, more, ms, p, t :
          /\ N = Len(nodes) /\ C = view[1] /\ R = view[2] /\ more = Append(nodes, x) /\ ms = nodes' /\ p = offsets'
          /\ t = rebuildOffsets(HeightsAt(more, C))
    OBVIOUS
  <1>3. PICK M, T, D, total, q : /\ M = Len(ms) /\ T = t[N + 2] /\ D = t[d + 1] /\ total = offsets[N + 1]
                                 /\ q = p[M + 1]
    OBVIOUS
  <1>4. /\ d \in Nat /\ ms \in Seq(NodeRecords) /\ M \in Nat /\ M # 0 /\ M <= MaxNodes
        /\ M = (N + 1) - d /\ D \in Nat /\ total \in Nat /\ T \in Nat /\ q = T - D /\ T >= total
        /\ HeightTable(HeightsAt(ms, C), p, M) /\ Len(more) = N + 1 /\ \A i \in 1..M : ms[i] = more[i + d]
    <2>1. PushedTable(d, x, N, C, more, t, ms, p)
      BY <1>1, <1>2, PushTable
    <2> QED BY <1>3, <2>1 DEF PushedTable
  <1>5. /\ heights' = HeightsAt(ms, C) /\ Sums(heights', offsets')
        /\ scrollY' = Floor0((IF sticky THEN Floor0(T - R) ELSE scrollY) - D)
        /\ cache' = IF d = 0 THEN cache ELSE <<>>
        /\ painted' = <<>> /\ view' = view /\ sticky' = sticky
        /\ sbSpent' \in [pushes : Nat, moves : Nat]
    BY <1>1, <1>2, <1>3 DEF Pushed
  <1>6. SbShape'
    <2>1. (heights = HeightsAt(nodes, view[1]))'
      BY <1>2, <1>5 DEF HeightsAt
    <2>2. Sums(heights, offsets)'
      BY <1>5 DEF Sums
    <2>3. nodes' \in Seq(NodeRecords) /\ Len(nodes') <= MaxNodes
      BY <1>2, <1>3, <1>4
    <2>4. view' \in {<<0, 0>>} \cup SbViewports /\ sticky' \in BOOLEAN
      BY <1>5 DEF SbInv, SbShape
    <2> QED BY <1>5, <2>1, <2>2, <2>3, <2>4 DEF SbShape
  <1>7. R \in Nat /\ nodes \in Seq(NodeRecords) /\ N \in Nat
    BY <1>2, SbFacts
  <1>8. PICK b : b = bottom(offsets', R)
    OBVIOUS
  <1>9. b = Floor0((T - D) - R)
    <2>1. Bottoms(p, M, R)
      BY <1>4, <1>7, BottomFacts
    <2> QED BY <1>2, <1>3, <1>4, <1>8, <2>1 DEF Bottoms, Floor0
  <1>10. scrollY \in Nat /\ scrollY <= Floor0(total - R) /\ sticky \in BOOLEAN
    <2>1. Bottoms(offsets, N, R)
      BY <1>2, <1>7, SbFacts, BottomFacts
    <2>2. scrollY \in Nat /\ scrollY <= bottom(offsets, R) /\ sticky \in BOOLEAN
      BY <1>2 DEF SbInv, SbScroll, SbShape
    <2> QED BY <1>3, <2>1, <2>2 DEF Bottoms, Floor0
  <1>11. scrollY' \in Nat /\ scrollY' <= b /\ (sticky => scrollY' = b)
    <2>1. CASE sticky
      <3>1. scrollY' = Floor0(Floor0(T - R) - D)
        BY <1>5, <2>1
      <3>2. Floor0(Floor0(T - R) - D) = Floor0((T - D) - R) /\ Floor0((T - D) - R) \in Nat
        BY <1>4, <1>7 DEF Floor0
      <3> QED BY <1>9, <3>1, <3>2
    <2>2. CASE ~sticky
      <3>1. scrollY' = Floor0(scrollY - D)
        BY <1>5, <2>2
      <3>2. Floor0(scrollY - D) <= Floor0((T - D) - R) /\ Floor0(scrollY - D) \in Nat
        BY <1>4, <1>7, <1>10 DEF Floor0
      <3> QED BY <1>9, <2>2, <3>1, <3>2
    <2> QED BY <2>1, <2>2
  <1>12. SbScroll'
    <2>1. bottom(offsets, view[2])' = b
      BY <1>2, <1>5, <1>8 DEF bottom, totalHeight
    <2>2. nodes' # <<>>
      <3>1. Len(<<>>) = 0
        OBVIOUS
      <3> QED BY <1>2, <1>3, <1>4, <3>1
    <2> QED BY <1>5, <1>11, <2>1, <2>2 DEF SbScroll, StickyAtBottom
  <1>13. cache' \in Seq(Entries(ms))
    <2>1. CASE d = 0
      <3>1. \A i \in 1..N : i \in 1..M /\ ms[i] = nodes[i]
        <4>1. M = N + 1 /\ \A i \in 1..M : ms[i] = more[i]
          <5>1. \A i \in 1..M : i + d = i
            BY <1>4, <2>1
          <5> QED BY <1>4, <1>7, <2>1, <5>1
        <4>2. \A i \in 1..N : more[i] = nodes[i]
          BY <1>2, <1>7
        <4> QED BY <1>7, <4>1, <4>2
      <3>2. Entries(nodes) \subseteq Entries(ms)
        <4> SUFFICES ASSUME NEW e \in Entries(nodes) PROVE e \in Entries(ms)
          OBVIOUS
        <4>1. /\ e \in [idx : 1..N, cols : Nat, rows : Nat, node : Nat] /\ e.node = nodes[e.idx].id
              /\ SbHeight[nodes[e.idx].kind][e.cols] # 0
          BY <1>2 DEF Entries
        <4>2. e.idx \in 1..N /\ e \in [idx : 1..M, cols : Nat, rows : Nat, node : Nat]
          BY <3>1, <4>1
        <4> QED BY <1>3, <3>1, <4>1, <4>2 DEF Entries
      <3>3. cache \in Seq(Entries(nodes)) /\ cache' = cache
        BY <1>5, <2>1 DEF SbInv
      <3> QED BY <3>2, <3>3
    <2>2. CASE d # 0
      BY <1>5, <2>2
    <2> QED BY <2>1, <2>2
  <1>14. (cache \in Seq(Entries(nodes)))'
    BY <1>2, <1>13 DEF Entries
  <1> QED BY <1>5, <1>6, <1>12, <1>14 DEF SbInv, RenderShowsDocument

(* The row at the top stays where the reader sees it.                      *)
LEMMA ReadingStep ==
    ASSUME SbInv, Push
    PROVE  nodes' # nodes /\ ~sticky /\ view[1] # 0 =>
             LET doc == Document(view[1])
                 lost == Len(doc) - (Len(Document(view[1])') - SbHeight[Last(nodes')["kind"]][view[1]])
             IN  scrollY >= lost /\ SbHeight[Last(nodes')["kind"]][view[1]] > 0
                    => Document(view[1])'[scrollY' + 1] = doc[scrollY + 1]
  <1>1. PICK d, x : Pushed(d, x)
    BY PushIs
  <1>2. PICK N, C, R, more, ms, p, t :
          /\ N = Len(nodes) /\ C = view[1] /\ R = view[2] /\ more = Append(nodes, x) /\ ms = nodes' /\ p = offsets'
          /\ t = rebuildOffsets(HeightsAt(more, C))
    OBVIOUS
  <1>3. PICK doc, later, kind, e : /\ doc = DocOf(nodes, C) /\ later = DocOf(ms, C) /\ kind = Last(ms)["kind"]
                                   /\ e = SbHeight[kind][C]
    OBVIOUS
  <1>4. Document(view[1]) = doc /\ Document(view[1])' = later
    <2>1. view'[1] = C
      BY <1>1, <1>2 DEF Pushed
    <2> QED BY <1>2, <1>3, <2>1, DocumentIs
  <1>5. SUFFICES ASSUME ~sticky, C # 0, scrollY >= Len(doc) - (Len(later) - e), e > 0
                 PROVE  later[scrollY' + 1] = doc[scrollY + 1]
    BY <1>2, <1>3, <1>4
  <1>6. /\ C \in Widths /\ R \in Nat /\ R # 0 /\ nodes \in Seq(NodeRecords) /\ N \in Nat
        /\ Sums(HeightsAt(nodes, C), offsets) /\ HeightTable(heights, offsets, N)
    BY <1>2, <1>5, SbFacts
  <1>7. /\ d \in 0..N /\ ms \in Seq(NodeRecords) /\ Len(ms) = (N + 1) - d /\ \A i \in 1..Len(ms) : ms[i] = more[i + d]
        /\ Sums(HeightsAt(more, C), t) /\ more[N + 1] = x /\ Len(ms) # 0 /\ Len(ms) \in Nat /\ d \in Nat
    <2>1. PushedTable(d, x, N, C, more, t, ms, p)
      BY <1>1, <1>2, PushTable
    <2> QED BY <2>1 DEF PushedTable
  <1>8. x \in NodeRecords /\ x.kind \in DOMAIN SbHeight
    BY <1>1 DEF Pushed, NodeRecords
  <1>9. kind = x.kind
    <2>1. Len(ms) \in 1..Len(ms) /\ Len(ms) + d = N + 1
      BY <1>6, <1>7
    <2>2. Last(ms) = x
      BY <1>7, <2>1 DEF Last
    <2> QED BY <1>3, <2>2
  <1>10. PICK D, total : D = t[d + 1] /\ total = offsets[N + 1]
    OBVIOUS
  <1>11. measureHeight(x.kind, C) = e /\ e \in Nat
    <2>1. e \in Nat /\ (e # 0 => measureHeight(x.kind, C) = e)
      BY <1>3, <1>6, <1>8, <1>9, Measured
    <2> QED BY <1>5, <2>1
  <1>12. /\ Len(doc) = total /\ total \in Nat /\ D \in Nat /\ Len(later) = (total + e) - D
         /\ \A Y \in Nat : Y < total /\ Y >= D => later[(Y - D) + 1] = doc[Y + 1]
    <2>1. Len(more) = N + 1
      BY <1>2, <1>6, <1>8
    <2>2. CutAt(ms, more, d)
      BY <1>7, <2>1 DEF CutAt
    <2>3. KeptRows(DocOf(nodes, C), DocOf(ms, C), offsets[N + 1], t[d + 1], measureHeight(x.kind, C))
      BY <1>2, <1>6, <1>7, <1>8, <2>2, RowKept
    <2> QED BY <1>3, <1>10, <1>11, <2>3 DEF KeptRows
  <1>13. scrollY >= D
    <2>1. PICK ld, ll : ld = Len(doc) /\ ll = Len(later)
      OBVIOUS
    <2>2. ld - (ll - e) = D
      BY <1>11, <1>12, <2>1
    <2> QED BY <1>5, <2>1, <2>2
  <1>14. scrollY \in Nat /\ scrollY < total
    <2>1. scrollY \in Nat /\ scrollY <= bottom(offsets, R)
      BY <1>2 DEF SbInv, SbScroll
    <2>2. nodes # <<>>
      BY <1>5 DEF SbInv, SbScroll
    <2>3. N # 0
      BY <1>2, <1>6, <2>2, EmptySeq
    <2>4. total # 0
      BY <1>2, <1>6, <1>10, <2>3, TallEnough
    <2>5. bottom(offsets, R) < total /\ bottom(offsets, R) \in Nat
      BY <1>6, <1>10, <2>4, BottomFacts DEF Bottoms
    <2> QED BY <1>12, <2>1, <2>5
  <1>15. scrollY' = scrollY - D
    <2>1. scrollY' = Floor0(scrollY - D)
      BY <1>1, <1>2, <1>5, <1>10 DEF Pushed
    <2> QED BY <1>12, <1>13, <1>14, <2>1 DEF Floor0
  <1> QED BY <1>12, <1>13, <1>14, <1>15

LEMMA SbInvariant == SbSpec => []SbInv
  <1>1. SbInit => SbInv
    BY SbInitial
  <1>2. SbInv /\ [SbNext]_sbVars => SbInv'
    <2> SUFFICES ASSUME SbInv, [SbNext]_sbVars PROVE SbInv'
      OBVIOUS
    <2>1. CASE Push
      BY <2>1, PushStep
    <2>2. CASE ScrollToBottom
      BY <2>2, ToBottomStep
    <2>3. ASSUME NEW d \in {-2, -1, 1}, ScrollBy(d) PROVE SbInv'
      BY <2>3, ScrollByStep
    <2>4. ASSUME NEW vp \in SbViewports, Render(vp) PROVE SbInv'
      BY <2>4, RenderStep
    <2>5. CASE SbDone \/ UNCHANGED sbVars
      <3>1. UNCHANGED <<nodes, heights, offsets, cache, sticky, scrollY, view, painted, sbSpent>>
        BY <2>5 DEF SbDone, sbVars
      <3>2. SbShape'
        BY <3>1 DEF SbInv, SbShape
      <3>3. SbScroll'
        BY <3>1 DEF SbInv, SbScroll, StickyAtBottom
      <3>4. (cache \in Seq(Entries(nodes)))'
        BY <3>1 DEF SbInv, Entries
      <3>5. RenderShowsDocument'
        BY <3>1 DEF SbInv, RenderShowsDocument, Document
      <3> QED BY <3>2, <3>3, <3>4, <3>5 DEF SbInv
    <2> QED BY <2>1, <2>2, <2>3, <2>4, <2>5 DEF SbNext
  <1> QED BY <1>1, <1>2, PTL DEF SbSpec

(* The viewport shows the document, whatever was cached, dropped, resized  *)
(* or scrolled: every row that Render paints is the row of the document    *)
(* at the scroll position, the last row of the document is the last row of *)
(* the screen while sticky, and a reader who scrolled up keeps the row at  *)
(* the top of the screen when a push drops the oldest nodes.               *)
THEOREM ViewportTheorem == SbSpec => ViewportContract
  <1>1. SbInv => RenderShowsDocument /\ StickyAtBottom
    BY DEF SbInv, SbScroll
  <1>2. SbInv /\ [SbNext]_sbVars =>
          [nodes' # nodes /\ ~sticky /\ view[1] # 0 =>
             LET doc == Document(view[1])
                 lost == Len(doc) - (Len(Document(view[1])') - SbHeight[Last(nodes')["kind"]][view[1]])
             IN  scrollY >= lost /\ SbHeight[Last(nodes')["kind"]][view[1]] > 0
                    => Document(view[1])'[scrollY' + 1] = doc[scrollY + 1]]_sbVars
    <2> SUFFICES ASSUME SbInv, [SbNext]_sbVars, nodes' # nodes
                 PROVE  ~sticky /\ view[1] # 0 =>
             LET doc == Document(view[1])
                 lost == Len(doc) - (Len(Document(view[1])') - SbHeight[Last(nodes')["kind"]][view[1]])
             IN  scrollY >= lost /\ SbHeight[Last(nodes')["kind"]][view[1]] > 0
                    => Document(view[1])'[scrollY' + 1] = doc[scrollY + 1]
      OBVIOUS
    <2>1. Push
      BY DEF SbNext, ScrollToBottom, SbDone, ScrollBy, Render, sbVars
    <2> QED BY <2>1, ReadingStep
  <1> QED BY <1>1, <1>2, SbInvariant, PTL DEF SbSpec, ViewportContract, ReadingPositionKept
-----------------------------------------------------------------------------
(* Folds over sequences. *)
LEMMA GreatestIn ==
    ASSUME NEW n \in Nat, NEW s \in SUBSET (1..n), s # {}
    PROVE  Max(s) \in s /\ Max(s) \in 1..n /\ \A x \in s : x <= Max(s)
  <1>1. s \subseteq 1..n
    OBVIOUS
  <1> QED BY <1>1, MaxNat

LEMMA MaxOfInterval ==
    ASSUME NEW n \in Nat, n # 0
    PROVE  Max(1..n) = n /\ (1..n) \ {n} = 1..(n-1)
  <1>1. 1..n \in SUBSET (1..n) /\ 1..n # {} /\ n \in 1..n
    OBVIOUS
  <1>2. Max(1..n) \in 1..n /\ n <= Max(1..n)
    BY <1>1, GreatestIn
  <1> QED BY <1>2

(* What FoldLeft computes: every set of indexes without its greatest,      *)
(* then that one.                                                          *)
Folds(S, b, F, n, g) ==
    /\ g \in [SUBSET (1..n) -> S]
    /\ \A s \in SUBSET (1..n) : g[s] = IF s = {} THEN b ELSE F[<<g[s \ {Max(s)}], Max(s)>>]

LEMMA FoldStepExists ==
    ASSUME NEW S, NEW b \in S, NEW m \in Nat \ {0}, NEW N \in Nat, m <= N, NEW F \in [S \X (1..N) -> S],
           NEW g, Folds(S, b, F, m - 1, g)
    PROVE  \E h : Folds(S, b, F, m, h)
  <1>1. m - 1 \in Nat /\ m \in 1..m /\ m \in 1..N
    OBVIOUS
  <1>2. PICK h : h = [s \in SUBSET (1..m) |->
                        IF m \in s THEN F[<<g[s \ {m}], m>>] ELSE g[s]]
    OBVIOUS
  <1>3. ASSUME NEW s \in SUBSET (1..m)
        PROVE  /\ s \ {m} \in SUBSET (1..(m-1)) /\ (m \notin s => s \in SUBSET (1..(m-1)))
               /\ (m \in s => Max(s) = m /\ s # {})
    <2>1. ASSUME m \in s PROVE Max(s) = m
      <3>1. Max(s) \in 1..m /\ m <= Max(s)
        BY <2>1, GreatestIn
      <3> QED BY <3>1
    <2> QED BY <2>1
  <1>4. ASSUME NEW s \in SUBSET (1..m) PROVE h[s] \in S
    <2>1. CASE m \in s
      <3>1. g[s \ {m}] \in S
        BY <1>3 DEF Folds
      <3>2. h[s] = F[<<g[s \ {m}], m>>]
        BY <1>2, <2>1
      <3> QED BY <3>1, <3>2, <1>1
    <2>2. CASE m \notin s
      <3>1. h[s] = g[s] /\ s \in SUBSET (1..(m-1))
        BY <1>2, <1>3, <2>2
      <3> QED BY <3>1 DEF Folds
    <2> QED BY <2>1, <2>2
  <1>5. ASSUME NEW s \in SUBSET (1..m)
        PROVE  h[s] = IF s = {} THEN b ELSE F[<<h[s \ {Max(s)}], Max(s)>>]
    <2>1. CASE m \in s
      <3>1. h[s \ {m}] = g[s \ {m}]
        <4>1. s \ {m} \in SUBSET (1..m) /\ m \notin s \ {m}
          OBVIOUS
        <4> QED BY <4>1, <1>2
      <3>2. h[s] = F[<<h[s \ {m}], m>>]
        BY <1>2, <2>1, <3>1
      <3> QED BY <3>2, <2>1, <1>3
    <2>2. CASE m \notin s
      <3>1. s \in SUBSET (1..(m-1)) /\ h[s] = g[s]
        BY <1>2, <1>3, <2>2
      <3>2. CASE s = {}
        BY <3>1, <3>2 DEF Folds
      <3>3. CASE s # {}
        <4>1. Max(s) \in s /\ s \ {Max(s)} \in SUBSET (1..m) /\ m \notin s \ {Max(s)}
          <5>1. Max(s) \in s
            BY <3>3, GreatestIn
          <5> QED BY <5>1, <2>2
        <4>2. h[s \ {Max(s)}] = g[s \ {Max(s)}]
          BY <4>1, <1>2
        <4>3. g[s] = F[<<g[s \ {Max(s)}], Max(s)>>]
          BY <3>1, <3>3 DEF Folds
        <4> QED BY <3>1, <3>3, <4>2, <4>3
      <3> QED BY <3>2, <3>3
    <2> QED BY <2>1, <2>2
  <1>6. h \in [SUBSET (1..m) -> S]
    <2>1. h = [s \in SUBSET (1..m) |-> h[s]]
      BY <1>2
    <2> QED BY <2>1, <1>4
  <1> QED BY <1>5, <1>6 DEF Folds

LEMMA FoldExists ==
    ASSUME NEW S, NEW b \in S, NEW N \in Nat, NEW F \in [S \X (1..N) -> S]
    PROVE  \E g : Folds(S, b, F, N, g)
  <1> DEFINE T == {m \in 0..N : ~\E g : Folds(S, b, F, m, g)}
  <1>1. T = {}
    <2> SUFFICES ASSUME T # {} PROVE FALSE
      OBVIOUS
    <2>1. T \subseteq Nat
      OBVIOUS
    <2>2. PICK m \in T : \A k \in T : m <= k
      BY <2>1, LeastNat
    <2>3. m \in 0..N /\ m \in Nat
      OBVIOUS
    <2>4. CASE m = 0
      <3>1. PICK g : g = [s \in SUBSET (1..0) |-> b]
        OBVIOUS
      <3>2. \A s \in SUBSET (1..0) : s = {}
        OBVIOUS
      <3>3. Folds(S, b, F, 0, g)
        BY <3>1, <3>2 DEF Folds
      <3> QED BY <2>4, <3>3
    <2>5. CASE m # 0
      <3>1. m - 1 \in 0..N /\ m - 1 \notin T /\ m \in Nat \ {0} /\ m <= N
        BY <2>2, <2>3, <2>5
      <3>2. PICK g : Folds(S, b, F, m - 1, g)
        BY <3>1
      <3> QED BY <3>1, <3>2, FoldStepExists
    <2> QED BY <2>4, <2>5
  <1>2. N \in 0..N
    OBVIOUS
  <1> QED BY <1>1, <1>2

-----------------------------------------------------------------------------
(* A diff block. *)
LineKinds == {"extra", "---", "+++", "---x", "+++x", "hunk", "@@bad", "noeol", "+", "-", " ", "blank"}
LineSet == [kind : LineKinds, old : Nat, new : Nat, no : Nat]
EntrySet == [marker : {"+", "-", " ", "?"}, of : LineSet]
HunkSet == [old : Nat, new : Nat, bare : BOOLEAN, lines : Seq(EntrySet)]
RowSet == [gutter : Nat, marker : {"+", "-", " ", "?", "@@"}, of : LineSet]
DocSet == [err : BOOLEAN, path : {"none", "path", "text"}, hunks : Seq(HunkSet)]
Places == [old : Nat, new : Nat]
RowStates == [at : Places, rows : Seq(RowSet)]

RowStep(bare, st, e) ==
    [at |-> advance(e.marker, st.at),
     rows |-> Append(st.rows,
        [gutter |-> singleColumnGutter(e.marker, st.at.old, st.at.new, bare),
         marker |-> e.marker, of |-> e.of])]
RowBase(h) == [at |-> [old |-> h.old, new |-> h.new], rows |-> IF h.bare THEN <<>> ELSE <<Header(h)>>]

LEMMA RowStepTyped ==
    ASSUME NEW bare \in BOOLEAN, NEW st \in RowStates, NEW e \in EntrySet
    PROVE  RowStep(bare, st, e) \in RowStates
  <1>1. st.at \in Places /\ st.at.old \in Nat /\ st.at.new \in Nat /\ st.rows \in Seq(RowSet)
    BY DEF RowStates, Places
  <1>2. e.marker \in {"+", "-", " ", "?"} /\ e.of \in LineSet
    BY DEF EntrySet
  <1>3. advance(e.marker, st.at) \in Places
    <2>1. st.at.old + 1 \in Nat /\ st.at.new + 1 \in Nat
      BY <1>1
    <2> QED BY <1>1, <2>1 DEF advance, Places
  <1>4. singleColumnGutter(e.marker, st.at.old, st.at.new, bare) \in Nat
    BY <1>1 DEF singleColumnGutter
  <1>5. PICK row : row = [gutter |-> singleColumnGutter(e.marker, st.at.old, st.at.new, bare),
                          marker |-> e.marker, of |-> e.of]
    OBVIOUS
  <1>6. row \in RowSet
    BY <1>2, <1>4, <1>5 DEF RowSet
  <1>7. Append(st.rows, row) \in Seq(RowSet)
    BY <1>1, <1>6
  <1> QED BY <1>3, <1>5, <1>7 DEF RowStep, RowStates

LEMMA RowBaseTyped ==
    ASSUME NEW h \in HunkSet
    PROVE  RowBase(h) \in RowStates
  <1>1. h.old \in Nat /\ h.new \in Nat
    BY DEF HunkSet
  <1>2. Header(h) \in RowSet
    BY <1>1 DEF Header, RowSet, Raw, LineSet, LineKinds
  <1>3. <<Header(h)>> \in Seq(RowSet)
    BY <1>2
  <1> QED BY <1>1, <1>3 DEF RowBase, RowStates, Places

(* g is the walk over the first n lines of the hunk.                       *)
RowWalk(h, n, g) ==
    /\ g[0] = RowBase(h)
    /\ \A i \in 1..n : g[i] = RowStep(h.bare, g[i-1], h.lines[i])

LEMMA RowWalkTyped ==
    ASSUME NEW h \in HunkSet, NEW n \in Nat, n <= Len(h.lines), NEW g, RowWalk(h, n, g)
    PROVE  \A k \in 0..n : g[k] \in RowStates
  <1> DEFINE T == {k \in 0..n : g[k] \notin RowStates}
  <1> SUFFICES ASSUME T # {} PROVE FALSE
    OBVIOUS
  <1>1. PICK k \in T : \A j \in T : k <= j
    <2>1. T \subseteq Nat
      OBVIOUS
    <2> HIDE DEF T
    <2> QED BY <2>1, LeastNat
  <1>2. k # 0
    BY <1>1, RowBaseTyped DEF RowWalk
  <1>3. k \in 1..n /\ g[k-1] \in RowStates
    BY <1>1, <1>2
  <1>4. h.lines[k] \in EntrySet /\ h.bare \in BOOLEAN
    <2>1. h.lines \in Seq(EntrySet) /\ h.bare \in BOOLEAN /\ Len(h.lines) \in Nat
      BY LenProperties DEF HunkSet
    <2>2. k \in 1..Len(h.lines)
      BY <2>1, <1>3
    <2> QED BY <2>1, <2>2, ElementOfSeq
  <1>5. g[k] \in RowStates
    BY <1>3, <1>4, RowStepTyped DEF RowWalk
  <1> QED BY <1>5, <1>1

LEMMA RowWalkUnique ==
    ASSUME NEW h, NEW i, NEW n \in Nat, NEW f, NEW g, RowWalk(h, n, f), RowWalk(i, n, g),
           RowBase(h) = RowBase(i), h.bare = i.bare, \A k \in 1..n : h.lines[k] = i.lines[k]
    PROVE  \A k \in 0..n : f[k] = g[k]
  <1> DEFINE T == {k \in 0..n : f[k] # g[k]}
  <1> SUFFICES ASSUME T # {} PROVE FALSE
    OBVIOUS
  <1>1. PICK k \in T : \A j \in T : k <= j
    <2>1. T \subseteq Nat
      OBVIOUS
    <2> HIDE DEF T
    <2> QED BY <2>1, LeastNat
  <1>2. k # 0
    BY <1>1 DEF RowWalk
  <1>3. k \in 1..n /\ f[k-1] = g[k-1]
    BY <1>1, <1>2
  <1>4. f[k] = g[k]
    BY <1>3 DEF RowWalk
  <1> QED BY <1>4, <1>1

LEMMA HunkFold ==
    ASSUME NEW h \in HunkSet
    PROVE  \E g \in [0..Len(h.lines) -> RowStates] :
             RowWalk(h, Len(h.lines), g) /\ hunkRows(h) = g[Len(h.lines)].rows
  <1> DEFINE it == CHOOSE f : f = [s \in SUBSET DOMAIN h.lines |->
                     IF s = {} THEN RowBase(h) ELSE RowStep(h.bare, f[s \ {Max(s)}], h.lines[Max(s)])]
  <1>1. hunkRows(h) = it[DOMAIN h.lines].rows
    BY DEF hunkRows, FoldLeft, MapThenFoldSet, RowStep, RowBase
  <1>2. PICK n : n = Len(h.lines)
    OBVIOUS
  <1>3. /\ h.lines \in Seq(EntrySet) /\ n \in Nat /\ DOMAIN h.lines = 1..n
        /\ h.bare \in BOOLEAN /\ \A i \in 1..n : h.lines[i] \in EntrySet
    <2>1. h.lines \in Seq(EntrySet) /\ h.bare \in BOOLEAN
      BY DEF HunkSet
    <2> QED BY <1>2, <2>1, LenProperties, ElementOfSeq
  <1> DEFINE F == [p \in RowStates \X (1..n) |-> RowStep(h.bare, p[1], h.lines[p[2]])]
             eq(f, s) == IF s = {} THEN RowBase(h) ELSE RowStep(h.bare, f[s \ {Max(s)}], h.lines[Max(s)])
  <1>4. F \in [RowStates \X (1..n) -> RowStates]
    BY <1>3, RowStepTyped
  <1>5. PICK f : Folds(RowStates, RowBase(h), F, n, f)
    <2> HIDE DEF F
    <2> QED BY <1>3, <1>4, RowBaseTyped, FoldExists
  <1>6. f = [s \in SUBSET (1..n) |-> eq(f, s)]
    <2>1. ASSUME NEW s \in SUBSET (1..n) PROVE f[s] = eq(f, s)
      <3>1. CASE s = {}
        BY <3>1, <1>5 DEF Folds
      <3>2. CASE s # {}
        <4>1. Max(s) \in 1..n /\ s \ {Max(s)} \in SUBSET (1..n)
          BY <3>2, <1>3, GreatestIn
        <4>2. f[s \ {Max(s)}] \in RowStates /\ f[s] = F[<<f[s \ {Max(s)}], Max(s)>>]
          BY <3>2, <4>1, <1>5 DEF Folds
        <4> QED BY <3>2, <4>1, <4>2
      <3> QED BY <3>1, <3>2
    <2>2. f \in [SUBSET (1..n) -> RowStates]
      BY <1>5 DEF Folds
    <2> HIDE DEF eq
    <2> QED BY <2>1, <2>2
  <1>7. it = [s \in SUBSET (1..n) |-> eq(it, s)]
    <2>1. it = CHOOSE k : k = [s \in SUBSET (1..n) |-> eq(k, s)]
      BY <1>3
    <2> HIDE DEF it, eq
    <2> QED BY <1>6, <2>1
  <1> HIDE DEF it, F
  <1>8. PICK g : g = [k \in 0..n |-> it[1..k]]
    OBVIOUS
  <1>9. RowWalk(h, n, g)
    <2>1. g[0] = RowBase(h)
      <3>1. 1..0 = {} /\ {} \in SUBSET (1..n) /\ 0 \in 0..n
        BY <1>3
      <3>2. it[{}] = RowBase(h)
        BY <1>7, <3>1
      <3> QED BY <1>8, <3>1, <3>2
    <2>2. ASSUME NEW k \in 1..n PROVE g[k] = RowStep(h.bare, g[k-1], h.lines[k])
      <3>1. k \in Nat /\ k # 0 /\ 1..k \in SUBSET (1..n) /\ 1..k # {} /\ k \in 0..n /\ k - 1 \in 0..n
        BY <1>3
      <3>2. Max(1..k) = k /\ (1..k) \ {k} = 1..(k-1)
        BY <3>1, MaxOfInterval
      <3>3. it[1..k] = eq(it, 1..k)
        BY <1>7, <3>1
      <3>4. it[1..k] = RowStep(h.bare, it[1..(k-1)], h.lines[k])
        BY <3>1, <3>2, <3>3
      <3> QED BY <1>8, <3>1, <3>4
    <2> QED BY <2>1, <2>2 DEF RowWalk
  <1>10. g \in [0..n -> RowStates]
    <2>1. \A k \in 0..n : g[k] \in RowStates
      BY <1>3, <1>9, RowWalkTyped
    <2> QED BY <1>8, <2>1
  <1>11. hunkRows(h) = g[n].rows
    <2>1. g[n] = it[1..n]
      BY <1>3, <1>8
    <2> QED BY <1>1, <1>3, <2>1
  <1> QED BY <1>2, <1>9, <1>10, <1>11

(* The rows of a hunk are counted up to this place of the two files.       *)
HunkEnd(h, at) ==
    \E g \in [0..Len(h.lines) -> RowStates] :
       RowWalk(h, Len(h.lines), g) /\ hunkRows(h) = g[Len(h.lines)].rows /\ g[Len(h.lines)].at = at

LEMMA HunkRowsTyped ==
    ASSUME NEW h \in HunkSet
    PROVE  hunkRows(h) \in Seq(RowSet) /\ \E at \in Places : HunkEnd(h, at)
  <1>1. PICK g \in [0..Len(h.lines) -> RowStates] :
          RowWalk(h, Len(h.lines), g) /\ hunkRows(h) = g[Len(h.lines)].rows
    BY HunkFold
  <1>2. Len(h.lines) \in 0..Len(h.lines)
    <2>1. h.lines \in Seq(EntrySet)
      BY DEF HunkSet
    <2> QED BY <2>1, LenProperties
  <1>3. g[Len(h.lines)] \in RowStates
    BY <1>2
  <1>4. g[Len(h.lines)].rows \in Seq(RowSet) /\ g[Len(h.lines)].at \in Places
    BY <1>3 DEF RowStates
  <1> QED BY <1>1, <1>4 DEF HunkEnd

LEMMA HunkBegins ==
    ASSUME NEW h \in HunkSet, h.lines = <<>>
    PROVE  hunkRows(h) = RowBase(h).rows /\ HunkEnd(h, [old |-> h.old, new |-> h.new])
  <1>1. PICK g \in [0..Len(h.lines) -> RowStates] :
          RowWalk(h, Len(h.lines), g) /\ hunkRows(h) = g[Len(h.lines)].rows
    BY HunkFold
  <1>2. Len(h.lines) = 0
    OBVIOUS
  <1>3. g[0] = RowBase(h)
    BY <1>1 DEF RowWalk
  <1>4. RowBase(h).at = [old |-> h.old, new |-> h.new]
    BY DEF RowBase
  <1> QED BY <1>1, <1>2, <1>3, <1>4 DEF HunkEnd

WithLine(h, e) == [h EXCEPT !.lines = Append(@, e)]
RowFor(bare, at, e) ==
    [gutter |-> singleColumnGutter(e.marker, at.old, at.new, bare), marker |-> e.marker, of |-> e.of]

LEMMA HunkGrows ==
    ASSUME NEW h \in HunkSet, NEW e \in EntrySet, NEW at, HunkEnd(h, at)
    PROVE  /\ WithLine(h, e) \in HunkSet
           /\ hunkRows(WithLine(h, e)) = Append(hunkRows(h), RowFor(h.bare, at, e))
           /\ HunkEnd(WithLine(h, e), advance(e.marker, at))
  <1>1. PICK n, big : n = Len(h.lines) /\ big = WithLine(h, e)
    OBVIOUS
  <1>2. PICK f \in [0..n -> RowStates] :
          RowWalk(h, n, f) /\ hunkRows(h) = f[n].rows /\ f[n].at = at
    BY <1>1 DEF HunkEnd
  <1>3. h.lines \in Seq(EntrySet) /\ n \in Nat
    <2>1. h.lines \in Seq(EntrySet)
      BY DEF HunkSet
    <2> QED BY <2>1, <1>1, LenProperties
  <1>4. /\ big.lines = Append(h.lines, e) /\ big.old = h.old /\ big.new = h.new /\ big.bare = h.bare
        /\ big \in HunkSet
    <2>1. Append(h.lines, e) \in Seq(EntrySet)
      BY <1>3
    <2> QED BY <1>1, <2>1 DEF WithLine, HunkSet
  <1>5. Len(big.lines) = n + 1 /\ big.lines[n + 1] = e /\ \A k \in 1..n : h.lines[k] = big.lines[k]
    BY <1>1, <1>3, <1>4
  <1>6. PICK g \in [0..(n + 1) -> RowStates] : RowWalk(big, n + 1, g) /\ hunkRows(big) = g[n + 1].rows
    BY <1>4, <1>5, HunkFold
  <1>7. f[n] = g[n]
    <2>1. RowWalk(big, n, g)
      <3>1. \A i \in 1..n : i \in 1..(n + 1)
        BY <1>3
      <3> QED BY <1>6, <3>1 DEF RowWalk
    <2>2. RowBase(h) = RowBase(big)
      BY <1>4 DEF RowBase, Header
    <2>3. \A k \in 0..n : f[k] = g[k]
      <3>1. RowWalk(h, n, f)
        BY <1>2
      <3>2. h.bare = big.bare
        BY <1>4
      <3>3. \A k \in 1..n : h.lines[k] = big.lines[k]
        BY <1>5
      <3>4. n \in Nat
        BY <1>3
      <3> HIDE DEF RowWalk, RowBase
      <3> QED BY <2>1, <2>2, <3>1, <3>2, <3>3, <3>4, RowWalkUnique
    <2> QED BY <1>3, <2>3
  <1>8. g[n + 1] = RowStep(h.bare, g[n], e)
    <2>1. n + 1 \in 1..(n + 1) /\ (n + 1) - 1 = n
      BY <1>3
    <2>2. g[n + 1] = RowStep(big.bare, g[(n + 1) - 1], big.lines[n + 1])
      BY <1>6, <2>1 DEF RowWalk
    <2> QED BY <1>4, <1>5, <2>1, <2>2
  <1>9. g[n + 1].rows = Append(hunkRows(h), RowFor(h.bare, at, e)) /\ g[n + 1].at = advance(e.marker, at)
    BY <1>2, <1>7, <1>8 DEF RowStep, RowFor
  <1>10. HunkEnd(big, advance(e.marker, at))
    BY <1>5, <1>6, <1>9 DEF HunkEnd
  <1> QED BY <1>1, <1>4, <1>6, <1>9, <1>10

LEMMA RenderNone ==
    ASSUME NEW d, d.hunks = <<>>
    PROVE  renderDiffRows(d) = <<>>
  <1>1. PICK q : q = [i \in DOMAIN d.hunks |-> hunkRows(d.hunks[i])]
    OBVIOUS
  <1>2. DOMAIN d.hunks = 1..0 /\ 0 \in Nat
    OBVIOUS
  <1>3. q = <<>>
    <2>1. q \in [1..0 -> {}]
      BY <1>1, <1>2
    <2>2. q \in Seq({}) /\ Len(q) = 0
      BY <2>1, SeqDef
    <2> QED BY <2>2, EmptySeq
  <1> QED BY <1>1, <1>3, FlattenEmpty DEF renderDiffRows

(* Flattening what a function makes of each element, when one is added.     *)
Mapped(F, q) == FlattenSeq([i \in DOMAIN q |-> F[q[i]]])

MapAdds(S, E, F, q, x) == Mapped(F, q) \in Seq(E) /\ Mapped(F, Append(q, x)) = Mapped(F, q) \o F[x]

LEMMA MapAppend ==
    ASSUME NEW S, NEW E, NEW F \in [S -> Seq(E)], NEW q \in Seq(S), NEW x \in S
    PROVE  MapAdds(S, E, F, q, x)
  <1>1. PICK n, r, a, b : /\ n = Len(q) /\ r = Append(q, x)
                          /\ a = [i \in DOMAIN q |-> F[q[i]]]
                          /\ b = [i \in DOMAIN r |-> F[r[i]]]
    OBVIOUS
  <1>2. n \in Nat /\ DOMAIN q = 1..n /\ \A i \in 1..n : q[i] \in S
    BY <1>1, LenProperties, ElementOfSeq
  <1>3. DOMAIN r = 1..(n + 1) /\ r[n + 1] = x /\ \A i \in 1..n : r[i] = q[i]
    <2>1. Len(r) = n + 1 /\ r[n + 1] = x /\ r \in Seq(S) /\ \A i \in 1..n : r[i] = q[i]
      BY <1>1, <1>2, AppendProperties
    <2> QED BY <2>1, LenProperties
  <1>4. a \in [1..n -> Seq(E)] /\ F[x] \in Seq(E)
    BY <1>1, <1>2
  <1>5. a \in Seq(Seq(E)) /\ Len(a) = n
    BY <1>2, <1>4, SeqDef, LenProperties
  <1>6. b = Append(a, F[x])
    <2>1. PICK c : c = Append(a, F[x])
      OBVIOUS
    <2>2. /\ c \in Seq(Seq(E)) /\ Len(c) = n + 1 /\ c[n + 1] = F[x]
          /\ \A i \in 1..n : c[i] = a[i]
      BY <1>4, <1>5, <2>1, AppendProperties
    <2>3. b = [i \in 1..(n + 1) |-> F[r[i]]]
      BY <1>1, <1>3
    <2>4. ASSUME NEW i \in 1..(n + 1) PROVE b[i] = c[i]
      <3>1. CASE i = n + 1
        BY <3>1, <1>2, <1>3, <2>2, <2>3
      <3>2. CASE i # n + 1
        <4>1. i \in 1..n
          BY <1>2, <3>2
        <4>2. b[i] = F[q[i]] /\ a[i] = F[q[i]]
          BY <4>1, <1>1, <1>2, <1>3, <2>3
        <4> QED BY <4>1, <4>2, <2>2
      <3> QED BY <3>1, <3>2
    <2>5. c = [i \in 1..(n + 1) |-> c[i]]
      <3>1. DOMAIN c = 1..(n + 1)
        BY <2>2, LenProperties
      <3> QED BY <3>1, <2>2, LenProperties
    <2>6. b = [i \in 1..(n + 1) |-> b[i]]
      BY <2>3
    <2> QED BY <2>1, <2>4, <2>5, <2>6
  <1>7. FlattenSeq(a) \in Seq(E) /\ FlattenSeq(Append(a, F[x])) = FlattenSeq(a) \o F[x]
    BY <1>4, <1>5, FlattenAppend
  <1> QED BY <1>1, <1>6, <1>7 DEF Mapped, MapAdds

MoreRows(d, e, h) ==
    renderDiffRows(d) \in Seq(RowSet) /\ renderDiffRows(e) = renderDiffRows(d) \o hunkRows(h)

LEMMA RenderMore ==
    ASSUME NEW d, d.hunks \in Seq(HunkSet), NEW h \in HunkSet, NEW e, e.hunks = Append(d.hunks, h)
    PROVE  MoreRows(d, e, h)
  <1>0. PICK q : q = d.hunks /\ q \in Seq(HunkSet) /\ e.hunks = Append(q, h)
    OBVIOUS
  <1>1. PICK F : F = [k \in HunkSet |-> hunkRows(k)]
    OBVIOUS
  <1>2. F \in [HunkSet -> Seq(RowSet)] /\ F[h] = hunkRows(h)
    BY <1>1, HunkRowsTyped
  <1>3. PICK r : r = Append(q, h)
    OBVIOUS
  <1>4. r \in Seq(HunkSet)
    BY <1>0, <1>3, AppendProperties
  <1>5. ASSUME NEW z \in Seq(HunkSet)
        PROVE  [i \in DOMAIN z |-> F[z[i]]] = [i \in DOMAIN z |-> hunkRows(z[i])]
    <2>1. \A i \in DOMAIN z : z[i] \in HunkSet
      BY LenProperties, ElementOfSeq
    <2> QED BY <2>1, <1>1
  <1>6. Mapped(F, q) \in Seq(RowSet) /\ Mapped(F, r) = Mapped(F, q) \o F[h]
    <2>1. MapAdds(HunkSet, RowSet, F, q, h)
      BY <1>0, <1>2, MapAppend
    <2> QED BY <1>3, <2>1 DEF MapAdds
  <1>7. /\ FlattenSeq([i \in DOMAIN q |-> hunkRows(q[i])]) = renderDiffRows(d)
        /\ FlattenSeq([i \in DOMAIN r |-> hunkRows(r[i])]) = renderDiffRows(e)
    BY <1>0, <1>3 DEF renderDiffRows
  <1> QED BY <1>0, <1>2, <1>4, <1>5, <1>6, <1>7 DEF Mapped, MoreRows

LEMMA RenderTyped == ASSUME NEW d, d.hunks \in Seq(HunkSet) PROVE renderDiffRows(d) \in Seq(RowSet)
  <1>1. CASE d.hunks = <<>>
    <2>1. renderDiffRows(d) = <<>>
      BY <1>1, RenderNone
    <2>2. <<>> \in Seq(RowSet)
      OBVIOUS
    <2> QED BY <2>1, <2>2
  <1>2. CASE d.hunks # <<>>
    <2>1. PICK q : q = d.hunks
      OBVIOUS
    <2>2. d.hunks \in Seq(HunkSet) /\ q[1] \in HunkSet
      <3>1. Len(q) \in Nat \ {0} /\ 1 \in 1..Len(q)
        BY <1>2, <2>1, EmptySeq
      <3> QED BY <2>1, <3>1, ElementOfSeq
    <2>3. PICK e : e = [hunks |-> Append(q, q[1])]
      OBVIOUS
    <2>4. e.hunks = Append(d.hunks, q[1])
      BY <2>1, <2>3
    <2>5. MoreRows(d, e, q[1])
      BY <2>2, <2>4, RenderMore
    <2> QED BY <2>5 DEF MoreRows
  <1> QED BY <1>1, <1>2

Grown(q, l) == [q EXCEPT ![Len(q)].lines = Append(@, l)]

GrownRows(d, e, n, h, at, l) ==
    /\ e.hunks \in Seq(HunkSet) /\ Len(e.hunks) = n /\ e.hunks[n] = WithLine(h, l)
    /\ renderDiffRows(e) = Append(renderDiffRows(d), RowFor(h.bare, at, l))

LEMMA RenderGrown ==
    ASSUME NEW q \in Seq(HunkSet), q # <<>>, NEW n, n = Len(q), NEW h, h = q[n],
           NEW l \in EntrySet, NEW at, HunkEnd(h, at),
           NEW d, d.hunks = q, NEW e, e.hunks = Grown(q, l)
    PROVE  GrownRows(d, e, n, h, at, l)
  <1>1. PICK g : n = Len(q) /\ h = q[n] /\ g = WithLine(h, l)
    OBVIOUS
  <1>2. n \in Nat /\ n # 0 /\ DOMAIN q = 1..n /\ \A i \in 1..n : q[i] \in HunkSet
    BY <1>1, LenProperties, ElementOfSeq, EmptySeq
  <1>3. h \in HunkSet /\ n - 1 \in Nat /\ n \in 1..n
    BY <1>1, <1>2
  <1>4. /\ g \in HunkSet
        /\ hunkRows(g) = Append(hunkRows(h), RowFor(h.bare, at, l))
    BY <1>1, <1>3, HunkGrows
  <1>5. PICK p : p = [i \in 1..(n - 1) |-> q[i]]
    OBVIOUS
  <1>6. p \in Seq(HunkSet) /\ Len(p) = n - 1
    <2>1. p \in [1..(n - 1) -> HunkSet]
      BY <1>2, <1>3, <1>5
    <2> QED BY <2>1, <1>3, SeqDef, LenProperties
  <1>7. ASSUME NEW x \in HunkSet, NEW r \in Seq(HunkSet), Len(r) = n, r[n] = x, \A i \in 1..(n - 1) : r[i] = q[i]
        PROVE  r = Append(p, x)
    <2>1. PICK c : c = Append(p, x)
      OBVIOUS
    <2>2. c \in Seq(HunkSet) /\ Len(c) = n /\ c[n] = x /\ \A i \in 1..(n - 1) : c[i] = p[i]
      BY <1>2, <1>3, <1>6, <2>1, AppendProperties
    <2>3. \A i \in 1..n : c[i] = r[i]
      <3>1. ASSUME NEW i \in 1..n PROVE c[i] = r[i]
        <4>1. i = n \/ i \in 1..(n - 1)
          BY <1>2
        <4> QED BY <4>1, <1>5, <1>7, <2>2
      <3> QED BY <3>1
    <2> QED BY <1>7, <2>1, <2>2, <2>3, SeqEqual
  <1>8. q = Append(p, h)
    BY <1>1, <1>3, <1>7
  <1>9. /\ e.hunks \in Seq(HunkSet) /\ Len(e.hunks) = n /\ e.hunks[n] = g
        /\ \A i \in 1..(n - 1) : e.hunks[i] = q[i]
    <2>1. e.hunks = [q EXCEPT ![n] = g]
      BY <1>1 DEF WithLine, Grown
    <2> HIDE DEF WithLine
    <2>2. e.hunks \in Seq(HunkSet) /\ Len(e.hunks) = n
      <3>1. n \in 1..Len(q) /\ g \in HunkSet
        BY <1>1, <1>3, <1>4
      <3>2. [q EXCEPT ![n] = g] \in Seq(HunkSet) /\ Len([q EXCEPT ![n] = g]) = Len(q)
        BY <3>1, ExceptSeq
      <3> QED BY <1>1, <2>1, <3>2
    <2> QED BY <2>1, <2>2, <1>2, <1>3
  <1>10. e.hunks = Append(p, g)
    BY <1>4, <1>7, <1>9
  <1>11. PICK z : z = [hunks |-> p]
    OBVIOUS
  <1>12. /\ renderDiffRows(z) \in Seq(RowSet)
         /\ renderDiffRows(d) = renderDiffRows(z) \o hunkRows(h)
         /\ renderDiffRows(e) = renderDiffRows(z) \o hunkRows(g)
    <2>1. z.hunks \in Seq(HunkSet) /\ d.hunks = Append(z.hunks, h) /\ e.hunks = Append(z.hunks, g)
      BY <1>6, <1>8, <1>10, <1>11
    <2>2. MoreRows(z, d, h)
      BY <1>3, <2>1, RenderMore
    <2>3. MoreRows(z, e, g)
      BY <1>4, <2>1, RenderMore
    <2> QED BY <2>2, <2>3 DEF MoreRows
  <1>13. ASSUME NEW a \in Seq(RowSet), NEW b \in Seq(RowSet), NEW x \in RowSet
         PROVE  a \o Append(b, x) = Append(a \o b, x)
    OBVIOUS
  <1>14. RowFor(h.bare, at, l) \in RowSet
    <2>1. PICK m, w : m = Len(g.lines) /\ w = hunkRows(g)
      OBVIOUS
    <2>2. hunkRows(g) \in Seq(RowSet) /\ hunkRows(h) \in Seq(RowSet)
      BY <1>3, <1>4, HunkRowsTyped
    <2>3. PICK k : k = Len(hunkRows(h)) + 1
      OBVIOUS
    <2>4. k \in 1..Len(hunkRows(g)) /\ hunkRows(g)[k] = RowFor(h.bare, at, l)
      <3>1. PICK u, v : u = hunkRows(h) /\ v = RowFor(h.bare, at, l)
        OBVIOUS
      <3>2. Append(u, v)[Len(u) + 1] = v /\ Len(Append(u, v)) = Len(u) + 1 /\ Len(u) \in Nat
        BY <2>2, <3>1, AppendProperties, LenProperties
      <3> QED BY <1>4, <2>3, <3>1, <3>2
    <2> QED BY <2>2, <2>4, ElementOfSeq
  <1>15. hunkRows(h) \in Seq(RowSet)
    BY <1>3, HunkRowsTyped
  <1>16. renderDiffRows(e) = Append(renderDiffRows(d), RowFor(h.bare, at, l))
    <2>1. PICK a, b, x : a = renderDiffRows(z) /\ b = hunkRows(h) /\ x = RowFor(h.bare, at, l)
      OBVIOUS
    <2>2. a \in Seq(RowSet) /\ b \in Seq(RowSet) /\ x \in RowSet
      BY <1>12, <1>14, <1>15, <2>1
    <2>3. a \o Append(b, x) = Append(a \o b, x)
      BY <1>13, <2>2
    <2>4. renderDiffRows(e) = a \o Append(b, x) /\ renderDiffRows(d) = a \o b
      BY <1>4, <1>12, <2>1
    <2> QED BY <2>1, <2>3, <2>4
  <1> QED BY <1>1, <1>9, <1>16 DEF GrownRows

NoDoc == [err |-> FALSE, path |-> "none", hunks |-> <<>>]

LEMMA NoDocTyped == NoDoc \in DocSet
  <1>1. <<>> \in Seq(HunkSet)
    OBVIOUS
  <1> QED BY <1>1 DEF NoDoc, DocSet

LEMMA EntryTyped == ASSUME NEW l \in LineSet PROVE entry(l) \in EntrySet
  <1>1. classifyMarker(l) \in {"+", "-", " ", "?"}
    BY DEF classifyMarker
  <1> QED BY <1>1 DEF entry, EntrySet

LEMMA ParseTyped ==
    ASSUME NEW d \in DocSet, NEW l \in LineSet
    PROVE  parseLine(d, l) \in DocSet
  <1>1. d.hunks \in Seq(HunkSet) /\ d.err \in BOOLEAN /\ d.path \in {"none", "path", "text"}
    BY DEF DocSet
  <1>2. CASE d.err \/ l.kind = "extra"
    BY <1>2 DEF parseLine
  <1>3. CASE ~(d.err \/ l.kind = "extra") /\ l.kind \in {"---", "+++", "---x", "+++x"}
    <2>1. parseLine(d, l) = [d EXCEPT !.path = IF l.kind \in {"+++", "+++x"} \/ @ = "none" THEN pathOf(l) ELSE @]
      BY <1>3 DEF parseLine, HeaderLike
    <2>2. pathOf(l) \in {"none", "path", "text"}
      BY DEF pathOf
    <2> QED BY <1>1, <2>1, <2>2 DEF DocSet
  <1>4. CASE ~(d.err \/ l.kind = "extra") /\ l.kind = "hunk"
    <2>1. parseLine(d, l) = [d EXCEPT !.hunks = Append(@, parseHunkHeader(l))]
      BY <1>4 DEF parseLine, HeaderLike
    <2>2. parseHunkHeader(l) \in HunkSet
      <3>1. l.old \in Nat /\ l.new \in Nat
        BY DEF LineSet
      <3>2. <<>> \in Seq(EntrySet)
        OBVIOUS
      <3> QED BY <3>1, <3>2 DEF parseHunkHeader, HunkSet
    <2>3. Append(d.hunks, parseHunkHeader(l)) \in Seq(HunkSet)
      BY <1>1, <2>2, AppendProperties
    <2> HIDE DEF HunkSet
    <2> QED BY <2>1, <2>3 DEF DocSet
  <1>5. CASE ~(d.err \/ l.kind = "extra") /\ l.kind = "@@bad"
    <2>1. parseLine(d, l) = [err |-> TRUE, path |-> "none", hunks |-> <<>>]
      BY <1>5 DEF parseLine, HeaderLike
    <2>2. <<>> \in Seq(HunkSet)
      OBVIOUS
    <2> QED BY <2>1, <2>2 DEF DocSet
  <1>6. CASE /\ ~(d.err \/ l.kind = "extra") /\ l.kind \notin {"---", "+++", "---x", "+++x", "hunk", "@@bad"}
             /\ (d.hunks = <<>> \/ l.kind = "noeol")
    BY <1>6 DEF parseLine, HeaderLike
  <1>7. CASE /\ ~(d.err \/ l.kind = "extra") /\ l.kind \notin {"---", "+++", "---x", "+++x", "hunk", "@@bad"}
             /\ ~(d.hunks = <<>> \/ l.kind = "noeol")
    <2>1. PICK n, g : n = Len(d.hunks) /\ g = WithLine(d.hunks[n], entry(l))
      OBVIOUS
    <2>2. n \in 1..n /\ d.hunks[n] \in HunkSet
      <3>1. n \in Nat \ {0}
        BY <1>1, <1>7, <2>1, EmptySeq
      <3>2. n \in 1..Len(d.hunks)
        BY <2>1, <3>1
      <3> QED BY <1>1, <2>1, <3>2, ElementOfSeq
    <2>3. g \in HunkSet
      <3>1. PICK at \in Places : HunkEnd(d.hunks[n], at)
        BY <2>2, HunkRowsTyped
      <3> QED BY <2>1, <2>2, <3>1, EntryTyped, HunkGrows
    <2>4. parseLine(d, l) = [d EXCEPT !.hunks[n].lines = Append(@, entry(l))]
      BY <1>7, <2>1 DEF parseLine, HeaderLike
    <2>5. parseLine(d, l) = [d EXCEPT !.hunks = [@ EXCEPT ![n] = g]]
      BY <2>1, <2>4 DEF WithLine
    <2>6. [d.hunks EXCEPT ![n] = g] \in Seq(HunkSet)
      BY <1>1, <2>1, <2>2, <2>3, ExceptSeq
    <2> QED BY <1>1, <2>5, <2>6 DEF DocSet
  <1> QED BY <1>2, <1>3, <1>4, <1>5, <1>6, <1>7

(* p is the walk of the parser over the first n lines.                     *)
ParseWalk(src, n, p) ==
    p[0] = NoDoc /\ \A i \in 1..n : p[i] = parseLine(p[i-1], src[i])

LEMMA ParseFold ==
    ASSUME NEW src \in Seq(LineSet)
    PROVE  \E p \in [0..Len(src) -> DocSet] : ParseWalk(src, Len(src), p) /\ ParseUnified(src) = p[Len(src)]
  <1> DEFINE it == CHOOSE f : f = [s \in SUBSET DOMAIN src |->
                     IF s = {} THEN NoDoc ELSE parseLine(f[s \ {Max(s)}], src[Max(s)])]
  <1>1. ParseUnified(src) = it[DOMAIN src]
    BY DEF ParseUnified, FoldLeft, MapThenFoldSet, NoDoc
  <1>2. PICK n : n = Len(src)
    OBVIOUS
  <1>3. n \in Nat /\ DOMAIN src = 1..n /\ \A i \in 1..n : src[i] \in LineSet
    BY <1>2, LenProperties, ElementOfSeq
  <1> DEFINE F == [p \in DocSet \X (1..n) |-> parseLine(p[1], src[p[2]])]
             eq(f, s) == IF s = {} THEN NoDoc ELSE parseLine(f[s \ {Max(s)}], src[Max(s)])
  <1>4. F \in [DocSet \X (1..n) -> DocSet]
    BY <1>3, ParseTyped
  <1>5. PICK f : Folds(DocSet, NoDoc, F, n, f)
    <2> HIDE DEF F
    <2> QED BY <1>3, <1>4, NoDocTyped, FoldExists
  <1>6. f = [s \in SUBSET (1..n) |-> eq(f, s)]
    <2>1. ASSUME NEW s \in SUBSET (1..n) PROVE f[s] = eq(f, s)
      <3>1. CASE s = {}
        BY <3>1, <1>5 DEF Folds
      <3>2. CASE s # {}
        <4>1. Max(s) \in 1..n /\ s \ {Max(s)} \in SUBSET (1..n)
          BY <3>2, <1>3, GreatestIn
        <4>2. f[s \ {Max(s)}] \in DocSet /\ f[s] = F[<<f[s \ {Max(s)}], Max(s)>>]
          BY <3>2, <4>1, <1>5 DEF Folds
        <4> QED BY <3>2, <4>1, <4>2
      <3> QED BY <3>1, <3>2
    <2>2. f \in [SUBSET (1..n) -> DocSet]
      BY <1>5 DEF Folds
    <2> HIDE DEF eq
    <2> QED BY <2>1, <2>2
  <1>7. it = [s \in SUBSET (1..n) |-> eq(it, s)]
    <2>1. it = CHOOSE k : k = [s \in SUBSET (1..n) |-> eq(k, s)]
      BY <1>3
    <2> HIDE DEF it, eq
    <2> QED BY <1>6, <2>1
  <1> HIDE DEF it, F
  <1>8. PICK g : g = [k \in 0..n |-> it[1..k]]
    OBVIOUS
  <1>9. ParseWalk(src, n, g)
    <2>1. g[0] = NoDoc
      <3>1. 1..0 = {} /\ {} \in SUBSET (1..n) /\ 0 \in 0..n
        BY <1>3
      <3>2. it[{}] = NoDoc
        BY <1>7, <3>1
      <3> QED BY <1>8, <3>1, <3>2
    <2>2. ASSUME NEW k \in 1..n PROVE g[k] = parseLine(g[k-1], src[k])
      <3>1. k \in Nat /\ k # 0 /\ 1..k \in SUBSET (1..n) /\ 1..k # {} /\ k \in 0..n /\ k - 1 \in 0..n
        BY <1>3
      <3>2. Max(1..k) = k /\ (1..k) \ {k} = 1..(k-1)
        BY <3>1, MaxOfInterval
      <3>3. it[1..k] = eq(it, 1..k)
        BY <1>7, <3>1
      <3>4. it[1..k] = parseLine(it[1..(k-1)], src[k])
        BY <3>1, <3>2, <3>3
      <3> QED BY <1>8, <3>1, <3>4
    <2> QED BY <2>1, <2>2 DEF ParseWalk
  <1>10. g \in [0..n -> DocSet]
    <2>1. \A k \in 0..n : g[k] \in DocSet
      <3> DEFINE T == {k \in 0..n : g[k] \notin DocSet}
      <3> SUFFICES ASSUME T # {} PROVE FALSE
        OBVIOUS
      <3>1. PICK k \in T : \A j \in T : k <= j
        <4>1. T \subseteq Nat
          OBVIOUS
        <4> HIDE DEF T
        <4> QED BY <4>1, LeastNat
      <3>2. k # 0
        BY <3>1, <1>9, NoDocTyped DEF ParseWalk
      <3>3. k \in 1..n /\ g[k-1] \in DocSet /\ src[k] \in LineSet
        BY <3>1, <3>2, <1>3
      <3>4. g[k] = parseLine(g[k-1], src[k])
        BY <3>3, <1>9 DEF ParseWalk
      <3>5. g[k] \in DocSet
        BY <3>3, <3>4, ParseTyped
      <3> QED BY <3>1, <3>5
    <2> QED BY <1>8, <2>1
  <1>11. ParseUnified(src) = g[n]
    BY <1>1, <1>3, <1>8
  <1> QED BY <1>2, <1>9, <1>10, <1>11

LEMMA ParseStart == ParseUnified(<<>>) = NoDoc
  <1>1. <<>> \in Seq(LineSet) /\ Len(<<>>) = 0
    OBVIOUS
  <1>2. PICK p : ParseWalk(<<>>, Len(<<>>), p) /\ ParseUnified(<<>>) = p[Len(<<>>)]
    BY <1>1, ParseFold
  <1> QED BY <1>1, <1>2 DEF ParseWalk

LEMMA ParseNext ==
    ASSUME NEW src \in Seq(LineSet), NEW l \in LineSet
    PROVE  /\ ParseUnified(src) \in DocSet
           /\ ParseUnified(Append(src, l)) = parseLine(ParseUnified(src), l)
  <1>1. PICK n, big : n = Len(src) /\ big = Append(src, l)
    OBVIOUS
  <1>2. /\ n \in Nat /\ big \in Seq(LineSet) /\ Len(big) = n + 1 /\ big[n + 1] = l
        /\ \A i \in 1..n : big[i] = src[i]
    BY <1>1, AppendProperties, LenProperties
  <1>3. PICK f \in [0..n -> DocSet] : ParseWalk(src, n, f) /\ ParseUnified(src) = f[n]
    BY <1>1, ParseFold
  <1>4. PICK g : ParseWalk(big, n + 1, g) /\ ParseUnified(big) = g[n + 1]
    <2>1. \E g \in [0..Len(big) -> DocSet] : ParseWalk(big, Len(big), g) /\ ParseUnified(big) = g[Len(big)]
      BY <1>2, ParseFold
    <2> QED BY <1>2, <2>1
  <1>5. f[n] = g[n]
    <2> DEFINE T == {k \in 0..n : f[k] # g[k]}
    <2> SUFFICES ASSUME T # {} PROVE FALSE
      BY <1>2
    <2>1. PICK k \in T : \A j \in T : k <= j
      <3>1. T \subseteq Nat
        OBVIOUS
      <3> HIDE DEF T
      <3> QED BY <3>1, LeastNat
    <2>2. k # 0
      BY <1>3, <1>4, <2>1 DEF ParseWalk
    <2>3. k \in 1..n /\ k \in 1..(n + 1) /\ f[k-1] = g[k-1]
      BY <1>2, <2>1, <2>2
    <2>4. f[k] = g[k]
      BY <1>2, <1>3, <1>4, <2>3 DEF ParseWalk
    <2> QED BY <2>1, <2>4
  <1>6. g[n + 1] = parseLine(g[n], l)
    <2>1. n + 1 \in 1..(n + 1) /\ (n + 1) - 1 = n
      BY <1>2
    <2> QED BY <1>2, <1>4, <2>1 DEF ParseWalk
  <1> QED BY <1>1, <1>2, <1>3, <1>4, <1>5, <1>6

ButOf(hidden, l) == IF l.kind \in hidden THEN <<>> ELSE <<l>>

LEMMA NothingOf == ASSUME NEW hidden PROVE LinesBut(<<>>, hidden) = <<>> /\ LinesOf(<<>>) = <<>>
  <1>1. ASSUME NEW q, q \in [1..0 -> {}] PROVE q = <<>>
    <2>1. q \in Seq({}) /\ Len(q) = 0
      BY <1>1, SeqDef
    <2> QED BY <2>1, EmptySeq
  <1>2. [i \in DOMAIN <<>> |-> ButOf(hidden, <<>>[i])] = <<>> /\ LinesOf(<<>>) = <<>>
    <2>1. DOMAIN <<>> = 1..0
      OBVIOUS
    <2>2. /\ [i \in DOMAIN <<>> |-> ButOf(hidden, <<>>[i])] \in [1..0 -> {}]
          /\ LinesOf(<<>>) \in [1..0 -> {}]
      BY <2>1 DEF LinesOf
    <2> QED BY <2>2, <1>1
  <1> QED BY <1>2, FlattenEmpty DEF LinesBut, ButOf

LEMMA ButAppend ==
    ASSUME NEW hidden, NEW src \in Seq(LineSet), NEW l \in LineSet
    PROVE  /\ LinesBut(src, hidden) \in Seq(LineSet)
           /\ LinesBut(Append(src, l), hidden) = LinesBut(src, hidden) \o ButOf(hidden, l)
  <1>1. PICK F : F = [k \in LineSet |-> ButOf(hidden, k)]
    OBVIOUS
  <1>2. F \in [LineSet -> Seq(LineSet)] /\ F[l] = ButOf(hidden, l)
    BY <1>1 DEF ButOf
  <1>3. PICK r : r = Append(src, l)
    OBVIOUS
  <1>4. r \in Seq(LineSet)
    BY <1>3, AppendProperties
  <1>5. ASSUME NEW z \in Seq(LineSet)
        PROVE  [i \in DOMAIN z |-> F[z[i]]] = [i \in DOMAIN z |-> ButOf(hidden, z[i])]
    <2>1. \A i \in DOMAIN z : z[i] \in LineSet
      BY LenProperties, ElementOfSeq
    <2> QED BY <2>1, <1>1
  <1>6. Mapped(F, src) \in Seq(LineSet) /\ Mapped(F, r) = Mapped(F, src) \o F[l]
    <2>1. MapAdds(LineSet, LineSet, F, src, l)
      BY <1>2, MapAppend
    <2> QED BY <1>3, <2>1 DEF MapAdds
  <1>7. /\ FlattenSeq([i \in DOMAIN src |-> ButOf(hidden, src[i])]) = LinesBut(src, hidden)
        /\ FlattenSeq([i \in DOMAIN r |-> ButOf(hidden, r[i])]) = LinesBut(r, hidden)
    BY DEF LinesBut, ButOf
  <1> QED BY <1>2, <1>3, <1>4, <1>5, <1>6, <1>7 DEF Mapped

LEMMA OfAppend ==
    ASSUME NEW rows \in Seq(RowSet), NEW row \in RowSet
    PROVE  LinesOf(rows) \in Seq(LineSet) /\ LinesOf(Append(rows, row)) = Append(LinesOf(rows), row.of)
  <1>1. PICK n, r, a, b, x : /\ n = Len(rows) /\ r = Append(rows, row) /\ x = row.of
                             /\ a = LinesOf(rows) /\ b = LinesOf(r)
    OBVIOUS
  <1>2. n \in Nat /\ DOMAIN rows = 1..n /\ \A i \in 1..n : rows[i] \in RowSet
    BY <1>1, LenProperties, ElementOfSeq
  <1>3. /\ r \in Seq(RowSet) /\ Len(r) = n + 1 /\ DOMAIN r = 1..(n + 1) /\ r[n + 1] = row
        /\ \A i \in 1..n : r[i] = rows[i]
    <2>1. Len(r) = n + 1 /\ r[n + 1] = row /\ r \in Seq(RowSet) /\ \A i \in 1..n : r[i] = rows[i]
      BY <1>1, <1>2, AppendProperties
    <2> QED BY <2>1, LenProperties
  <1>4. \A k \in RowSet : k.of \in LineSet
    BY DEF RowSet
  <1>5. a \in Seq(LineSet) /\ Len(a) = n /\ \A i \in 1..n : a[i] = rows[i].of
    <2>1. a \in [1..n -> LineSet] /\ \A i \in 1..n : a[i] = rows[i].of
      BY <1>1, <1>2, <1>4 DEF LinesOf
    <2> QED BY <1>2, <2>1, SeqDef, LenProperties
  <1>6. b \in Seq(LineSet) /\ Len(b) = n + 1 /\ \A i \in 1..(n + 1) : b[i] = r[i].of
    <2>1. \A i \in 1..(n + 1) : r[i] \in RowSet
      BY <1>3, ElementOfSeq
    <2>2. b \in [1..(n + 1) -> LineSet] /\ \A i \in 1..(n + 1) : b[i] = r[i].of
      BY <1>1, <1>3, <1>4, <2>1 DEF LinesOf
    <2>3. n + 1 \in Nat
      BY <1>2
    <2> QED BY <2>2, <2>3, SeqDef, LenProperties
  <1>7. PICK c : c = Append(a, x)
    OBVIOUS
  <1>8. x \in LineSet
    BY <1>1, <1>4
  <1>9. c \in Seq(LineSet) /\ Len(c) = n + 1 /\ c[n + 1] = x /\ \A i \in 1..n : c[i] = a[i]
    BY <1>5, <1>7, <1>8, AppendProperties
  <1>10. ASSUME NEW i \in 1..(n + 1) PROVE b[i] = c[i]
    <2>1. CASE i = n + 1
      BY <2>1, <1>1, <1>3, <1>6, <1>9
    <2>2. CASE i # n + 1
      <3>1. i \in 1..n
        BY <1>2, <2>2
      <3> QED BY <3>1, <1>3, <1>5, <1>6, <1>9
    <2> QED BY <2>1, <2>2
  <1>11. b = c
    BY <1>6, <1>9, <1>10, SeqEqual
  <1> QED BY <1>1, <1>5, <1>7, <1>11

(* Rows that show these lines; rows that carry their numbers.              *)
Truthful(hidden, rows, src) == rows \in Seq(RowSet) /\ LinesOf(rows) = LinesBut(src, hidden)
TrueGutter(row) == row.gutter # 0 => row.gutter = row.of.no
Numbered(rows) == \A k \in DOMAIN rows : TrueGutter(rows[k])

LEMMA TruthfulNone == ASSUME NEW hidden PROVE Truthful(hidden, <<>>, <<>>) /\ Numbered(<<>>)
  <1>1. <<>> \in Seq(RowSet) /\ DOMAIN <<>> = {}
    OBVIOUS
  <1> QED BY <1>1, NothingOf DEF Truthful, Numbered

(* A line that is not shown.                                               *)
LEMMA TruthfulSkip ==
    ASSUME NEW hidden, NEW src \in Seq(LineSet), NEW l \in LineSet, l.kind \in hidden,
           NEW rows, Truthful(hidden, rows, src)
    PROVE  Truthful(hidden, rows, Append(src, l))
  <1>1. LinesBut(Append(src, l), hidden) = LinesBut(src, hidden) \o <<>> /\ LinesBut(src, hidden) \in Seq(LineSet)
    BY ButAppend DEF ButOf
  <1>2. LinesBut(Append(src, l), hidden) = LinesBut(src, hidden)
    BY <1>1, ConcatEmptySeq
  <1> QED BY <1>2 DEF Truthful

(* A line and its row.                                                     *)
LEMMA TruthfulRow ==
    ASSUME NEW hidden, NEW src \in Seq(LineSet), NEW l \in LineSet, l.kind \notin hidden,
           NEW rows, Truthful(hidden, rows, src), NEW row \in RowSet, row.of = l
    PROVE  Truthful(hidden, Append(rows, row), Append(src, l))
  <1>1. rows \in Seq(RowSet) /\ LinesOf(rows) = LinesBut(src, hidden)
    BY DEF Truthful
  <1>2. LinesOf(Append(rows, row)) = Append(LinesOf(rows), l) /\ LinesOf(rows) \in Seq(LineSet)
    BY <1>1, OfAppend
  <1>3. LinesBut(Append(src, l), hidden) = LinesBut(src, hidden) \o <<l>>
    BY ButAppend DEF ButOf
  <1>4. Append(LinesOf(rows), l) = LinesOf(rows) \o <<l>>
    <2>1. PICK q : q = LinesOf(rows)
      OBVIOUS
    <2> QED BY <1>2, <2>1, AppendIsConcat
  <1>5. Append(rows, row) \in Seq(RowSet)
    BY <1>1, AppendProperties
  <1> QED BY <1>1, <1>2, <1>3, <1>4, <1>5 DEF Truthful

LEMMA NumberedRow ==
    ASSUME NEW rows \in Seq(RowSet), Numbered(rows), NEW row \in RowSet, TrueGutter(row)
    PROVE  Numbered(Append(rows, row))
  <1>1. PICK n, more : n = Len(rows) /\ more = Append(rows, row)
    OBVIOUS
  <1>2. /\ n \in Nat /\ DOMAIN rows = 1..n /\ more \in Seq(RowSet) /\ DOMAIN more = 1..(n + 1)
        /\ more[n + 1] = row /\ \A k \in 1..n : more[k] = rows[k]
    <2>1. n \in Nat /\ DOMAIN rows = 1..n
      BY <1>1, LenProperties
    <2>2. more \in Seq(RowSet) /\ Len(more) = n + 1 /\ more[n + 1] = row /\ \A k \in 1..n : more[k] = rows[k]
      BY <1>1, AppendProperties
    <2> QED BY <2>1, <2>2, LenProperties
  <1>3. ASSUME NEW k \in 1..(n + 1) PROVE TrueGutter(more[k])
    <2>1. CASE k = n + 1
      BY <1>2, <2>1
    <2>2. CASE k # n + 1
      <3>1. k \in 1..n
        BY <1>2, <2>2
      <3> QED BY <1>2, <3>1 DEF Numbered
    <2> QED BY <2>1, <2>2
  <1> QED BY <1>1, <1>2, <1>3 DEF Numbered

LEMMA RowForTyped ==
    ASSUME NEW bare \in BOOLEAN, NEW at \in Places, NEW e \in EntrySet
    PROVE  RowFor(bare, at, e) \in RowSet
  <1>1. PICK g : g = singleColumnGutter(e.marker, at.old, at.new, bare)
    OBVIOUS
  <1>2. g \in Nat
    BY <1>1 DEF singleColumnGutter, Places
  <1>3. e.marker \in {"+", "-", " ", "?", "@@"} /\ e.of \in LineSet
    BY DEF EntrySet
  <1>4. PICK m, o : m = e.marker /\ o = e.of
    OBVIOUS
  <1>5. RowFor(bare, at, e) = [gutter |-> g, marker |-> m, of |-> o]
    BY <1>1, <1>4 DEF RowFor
  <1>6. m \in {"+", "-", " ", "?", "@@"} /\ o \in LineSet
    BY <1>3, <1>4
  <1>7. PICK row : row = [gutter |-> g, marker |-> m, of |-> o]
    OBVIOUS
  <1> HIDE DEF LineSet
  <1>8. row \in RowSet
    BY <1>2, <1>6, <1>7 DEF RowSet
  <1> QED BY <1>5, <1>7, <1>8

Bare(src) == [old |-> 0, new |-> 0, bare |-> TRUE, lines |-> bareLines(src)]
Fence == {"blank"}
Plain == SrcKinds \cap (HeaderLike \cup {"blank"}) = {}
Counted == [old |-> oldAt, new |-> newAt]

(* The lines written, and what the blocks are made of.                     *)
WrittenInv ==
    /\ diffSrc \in Seq(LineSet) /\ oldAt \in Nat /\ newAt \in Nat
    /\ docs \in {<<>>, <<NewDiff(diffSrc), NewDiffFromBareLines(diffSrc)>>}

(* The parser counts the lines of both files as the writer of the diff.    *)
ParsedInv ==
    LET d == ParseUnified(diffSrc)
    IN  /\ d.err <=> "@@bad" \in SrcKinds
        /\ ~d.err =>
             /\ Truthful(Hidden(FALSE), renderDiffRows(d), diffSrc)
             /\ Plain => Numbered(renderDiffRows(d))
             /\ InHunk => /\ d.hunks # <<>> /\ ~d.hunks[Len(d.hunks)].bare
                          /\ Plain => HunkEnd(d.hunks[Len(d.hunks)], Counted)

BareInv == Truthful(Fence, hunkRows(Bare(diffSrc)), diffSrc) /\ Numbered(hunkRows(Bare(diffSrc)))

(* A renderer that is done has what it would render now; so has the cache. *)
JobSet(ds) ==
    {Idle} \cup {[pc |-> "miss", d |-> p[1], cols |-> p[2]] : p \in (DOMAIN ds) \X DiffCols}
           \cup {[pc |-> "done", d |-> p[1], cols |-> p[2], buf |-> Painted(ds[p[1]], p[2])] :
                   p \in (DOMAIN ds) \X DiffCols}
CacheSet(ds) == {[key |-> makeBlockCacheKey(ds[p[1]], p[2]), buf |-> Painted(ds[p[1]], p[2])] :
                   p \in (DOMAIN ds) \X DiffCols}
OneKey(s) == \A i, j \in DOMAIN s : s[i].key = s[j].key => i = j

JobsInv == job \in [Renderers -> JobSet(docs)]
CachedInv == lru \in Seq(CacheSet(docs)) /\ OneKey(lru)

DiffInv == WrittenInv /\ ParsedInv /\ BareInv /\ JobsInv /\ CachedInv

FenceOf(l) == IF l.kind = "blank" THEN <<>> ELSE <<entry(l)>>

LEMMA FenceAppend ==
    ASSUME NEW src \in Seq(LineSet), NEW l \in LineSet
    PROVE  bareLines(src) \in Seq(EntrySet) /\ bareLines(Append(src, l)) = bareLines(src) \o FenceOf(l)
  <1>1. PICK F : F = [k \in LineSet |-> FenceOf(k)]
    OBVIOUS
  <1>2. F \in [LineSet -> Seq(EntrySet)] /\ F[l] = FenceOf(l)
    <2>1. ASSUME NEW k \in LineSet PROVE FenceOf(k) \in Seq(EntrySet)
      <3>1. entry(k) \in EntrySet
        BY EntryTyped
      <3> HIDE DEF EntrySet
      <3> QED BY <3>1 DEF FenceOf
    <2> HIDE DEF LineSet, EntrySet
    <2> QED BY <1>1, <2>1
  <1>3. PICK r : r = Append(src, l)
    OBVIOUS
  <1>4. r \in Seq(LineSet)
    BY <1>3, AppendProperties
  <1>5. ASSUME NEW z \in Seq(LineSet)
        PROVE  [i \in DOMAIN z |-> F[z[i]]] = [i \in DOMAIN z |-> FenceOf(z[i])]
    <2>1. \A i \in DOMAIN z : z[i] \in LineSet
      BY LenProperties, ElementOfSeq
    <2> QED BY <2>1, <1>1
  <1>6. Mapped(F, src) \in Seq(EntrySet) /\ Mapped(F, r) = Mapped(F, src) \o F[l]
    <2>1. MapAdds(LineSet, EntrySet, F, src, l)
      BY <1>2, MapAppend
    <2> QED BY <1>3, <2>1 DEF MapAdds
  <1>7. /\ FlattenSeq([i \in DOMAIN src |-> FenceOf(src[i])]) = bareLines(src)
        /\ FlattenSeq([i \in DOMAIN r |-> FenceOf(r[i])]) = bareLines(r)
    BY DEF bareLines, FenceOf
  <1> QED BY <1>2, <1>3, <1>4, <1>5, <1>6, <1>7 DEF Mapped

LEMMA RawTyped ==
    ASSUME NEW k \in LineKinds, NEW o \in Nat, NEW n \in Nat, NEW no \in Nat
    PROVE  Raw(k, o, n, no) \in LineSet /\ Raw(k, o, n, no).kind = k /\ Raw(k, o, n, no).no = no
           /\ Raw(k, o, n, no).old = o /\ Raw(k, o, n, no).new = n
  BY DEF Raw, LineSet

LEMMA BareTyped == ASSUME NEW src \in Seq(LineSet) PROVE Bare(src) \in HunkSet
  <1>1. Raw("extra", 0, 0, 0) \in LineSet
    BY RawTyped DEF LineKinds
  <1>2. bareLines(src) \in Seq(EntrySet)
    BY <1>1, FenceAppend
  <1> HIDE DEF EntrySet
  <1> QED BY <1>2 DEF Bare, HunkSet

LEMMA BareNext ==
    ASSUME NEW src \in Seq(LineSet), NEW l \in LineSet
    PROVE  Bare(Append(src, l)) = IF l.kind = "blank" THEN Bare(src) ELSE WithLine(Bare(src), entry(l))
  <1>1. PICK a, b, x : a = bareLines(src) /\ b = bareLines(Append(src, l)) /\ x = entry(l)
    OBVIOUS
  <1>2. a \in Seq(EntrySet) /\ b = a \o FenceOf(l) /\ x \in EntrySet
    BY <1>1, FenceAppend, EntryTyped
  <1>3. CASE l.kind = "blank"
    <2>1. b = a
      BY <1>2, <1>3, ConcatEmptySeq DEF FenceOf
    <2> QED BY <1>1, <1>3, <2>1 DEF Bare
  <1>4. CASE l.kind # "blank"
    <2>1. b = Append(a, x)
      <3>1. b = a \o <<x>>
        BY <1>1, <1>2, <1>4 DEF FenceOf
      <3> QED BY <1>2, <3>1, AppendIsConcat
    <2>2. PICK h, k : h = Bare(src) /\ k = WithLine(h, x)
      OBVIOUS
    <2>3. h = [old |-> 0, new |-> 0, bare |-> TRUE, lines |-> a]
      BY <1>1, <2>2 DEF Bare
    <2>4. k = [old |-> 0, new |-> 0, bare |-> TRUE, lines |-> b]
      <3>1. k = [h EXCEPT !.lines = Append(a, x)]
        BY <2>2, <2>3 DEF WithLine
      <3>2. k = [h EXCEPT !.lines = b]
        BY <2>1, <3>1
      <3> QED BY <2>3, <3>2
    <2> QED BY <1>1, <1>4, <2>2, <2>4 DEF Bare
  <1> QED BY <1>3, <1>4

LEMMA BareTruthful ==
    ASSUME NEW src \in Seq(LineSet), NEW l \in LineSet,
           Truthful(Fence, hunkRows(Bare(src)), src), Numbered(hunkRows(Bare(src)))
    PROVE  /\ Truthful(Fence, hunkRows(Bare(Append(src, l))), Append(src, l))
           /\ Numbered(hunkRows(Bare(Append(src, l))))
  <1>1. PICK h, e : h = Bare(src) /\ e = entry(l)
    OBVIOUS
  <1>2. h \in HunkSet /\ e \in EntrySet /\ h.bare = TRUE
    BY <1>1, BareTyped, EntryTyped DEF Bare
  <1>3. CASE l.kind = "blank"
    <2>1. Bare(Append(src, l)) = h
      BY <1>1, <1>3, BareNext
    <2>2. Truthful(Fence, hunkRows(h), Append(src, l))
      <3>1. l.kind \in Fence
        BY <1>3 DEF Fence
      <3> QED BY <1>1, <3>1, TruthfulSkip
    <2> QED BY <1>1, <2>1, <2>2
  <1>4. CASE l.kind # "blank"
    <2>1. PICK at \in Places : HunkEnd(h, at)
      BY <1>2, HunkRowsTyped
    <2>2. PICK row : row = RowFor(h.bare, at, e)
      OBVIOUS
    <2>3. hunkRows(Bare(Append(src, l))) = Append(hunkRows(h), row)
      BY <1>1, <1>2, <1>4, <2>1, <2>2, BareNext, HunkGrows
    <2>4. row \in RowSet
      BY <1>2, <2>2, RowForTyped
    <2>5. row.gutter = 0 /\ row.of = l
      BY <1>1, <1>2, <2>2 DEF RowFor, singleColumnGutter, entry
    <2>6. l.kind \notin Fence /\ TrueGutter(row)
      BY <1>4, <2>5 DEF Fence, TrueGutter
    <2>7. Truthful(Fence, Append(hunkRows(h), row), Append(src, l))
      BY <1>1, <2>4, <2>5, <2>6, TruthfulRow
    <2>8. hunkRows(h) \in Seq(RowSet)
      BY <1>1 DEF Truthful
    <2>9. Numbered(Append(hunkRows(h), row))
      BY <1>1, <2>4, <2>6, <2>8, NumberedRow
    <2> QED BY <2>3, <2>7, <2>9
  <1> QED BY <1>3, <1>4

LEMMA BareShown ==
    ASSUME NEW src \in Seq(LineSet)
    PROVE  renderDiffRows(NewDiffFromBareLines(src)) = hunkRows(Bare(src))
  <1>1. PICK d, h : d = NewDiffFromBareLines(src) /\ h = Bare(src)
    OBVIOUS
  <1>2. h \in HunkSet /\ h.lines = bareLines(src) /\ h.bare = TRUE
    BY <1>1, BareTyped DEF Bare
  <1>3. CASE bareLines(src) = <<>>
    <2>1. d.hunks = <<>>
      BY <1>1, <1>3 DEF NewDiffFromBareLines
    <2>2. renderDiffRows(d) = <<>>
      BY <2>1, RenderNone
    <2>3. hunkRows(h) = <<>>
      BY <1>2, <1>3, HunkBegins DEF RowBase
    <2> QED BY <1>1, <2>2, <2>3
  <1>4. CASE bareLines(src) # <<>>
    <2>1. d.hunks = <<h>>
      BY <1>1, <1>4 DEF NewDiffFromBareLines, Bare
    <2>2. PICK z : z = [hunks |-> <<>>]
      OBVIOUS
    <2>3. z.hunks = <<>> /\ <<>> \in Seq(HunkSet) /\ d.hunks = Append(z.hunks, h)
      BY <2>1, <2>2
    <2>4. renderDiffRows(d) = renderDiffRows(z) \o hunkRows(h) /\ renderDiffRows(z) = <<>>
      <3>1. MoreRows(z, d, h)
        BY <1>2, <2>3, RenderMore
      <3> QED BY <2>3, <3>1, RenderNone DEF MoreRows
    <2>5. hunkRows(h) \in Seq(RowSet)
      BY <1>2, HunkRowsTyped
    <2>6. renderDiffRows(d) = hunkRows(h)
      BY <2>4, <2>5, ConcatEmptySeq
    <2> QED BY <1>1, <2>6
  <1> QED BY <1>3, <1>4

LEMMA DiffInitial == DbInit => DiffInv
  <1> SUFFICES ASSUME DbInit PROVE DiffInv
    OBVIOUS
  <1>1. diffSrc = <<>> /\ docs = <<>> /\ lru = <<>> /\ oldAt = 1 /\ newAt = 1 /\ job = [r \in Renderers |-> Idle]
    BY DEF DbInit
  <1>2. WrittenInv
    BY <1>1 DEF WrittenInv
  <1>3. ParsedInv
    <2>1. renderDiffRows(NoDoc) = <<>> /\ NoDoc.err = FALSE
      BY RenderNone DEF NoDoc
    <2>2. DOMAIN diffSrc = {} /\ ParseUnified(diffSrc) = NoDoc
      BY <1>1, ParseStart
    <2>3. SrcKinds = {} /\ ~InHunk
      BY <2>2 DEF SrcKinds, InHunk
    <2> QED BY <1>1, <2>1, <2>2, <2>3, TruthfulNone DEF ParsedInv
  <1>4. BareInv
    <2>1. PICK h : h = Bare(diffSrc)
      OBVIOUS
    <2>2. bareLines(<<>>) = <<>>
      <3>1. PICK q : q = [i \in DOMAIN <<>> |-> FenceOf(<<>>[i])]
        OBVIOUS
      <3>2. q = <<>>
        <4>1. q \in [1..0 -> {}]
          <5>1. DOMAIN <<>> = 1..0
            OBVIOUS
          <5> QED BY <3>1, <5>1
        <4>2. q \in Seq({}) /\ Len(q) = 0
          BY <4>1, SeqDef
        <4> QED BY <4>2, EmptySeq
      <3> QED BY <3>1, <3>2, FlattenEmpty DEF bareLines, FenceOf
    <2>3. h \in HunkSet /\ h.lines = <<>> /\ h.bare = TRUE
      <3>1. h \in HunkSet
        BY <1>2, <2>1, BareTyped DEF WrittenInv
      <3> QED BY <1>1, <2>1, <2>2, <3>1 DEF Bare
    <2>4. hunkRows(h) = <<>>
      BY <2>3, HunkBegins DEF RowBase
    <2> QED BY <1>1, <2>1, <2>4, TruthfulNone DEF BareInv
  <1>5. JobsInv
    BY <1>1 DEF JobsInv, JobSet
  <1>6. CachedInv
    BY <1>1 DEF CachedInv, OneKey
  <1> QED BY <1>2, <1>3, <1>4, <1>5, <1>6 DEF DiffInv

(* What the writer of the diff leaves alone, and what a line adds.         *)
LEMMA Written ==
    ASSUME DiffInv, docs = <<>>, NEW l \in LineSet, Write(l), oldAt' \in Nat, newAt' \in Nat
    PROVE  /\ WrittenInv' /\ BareInv' /\ JobsInv' /\ CachedInv'
           /\ diffSrc \in Seq(LineSet) /\ diffSrc' = Append(diffSrc, l)
           /\ SrcKinds' = SrcKinds \cup {l.kind} /\ (InHunk' <=> InHunk \/ l.kind = "hunk")
           /\ ParseUnified(diffSrc) \in DocSet
           /\ ParseUnified(diffSrc') = parseLine(ParseUnified(diffSrc), l)
  <1>1. /\ diffSrc \in Seq(LineSet) /\ diffSrc' = Append(diffSrc, l)
        /\ docs' = docs /\ lru' = lru /\ job' = job
    BY DEF DiffInv, WrittenInv, Write
  <1>2. PICK n, src, big : n = Len(src) /\ src = diffSrc /\ big = diffSrc'
    OBVIOUS
  <1>3. /\ n \in Nat /\ DOMAIN src = 1..n /\ big \in Seq(LineSet) /\ DOMAIN big = 1..(n + 1)
        /\ big[n + 1] = l /\ \A i \in 1..n : big[i] = src[i]
    <2>1. n \in Nat /\ DOMAIN src = 1..n
      BY <1>1, <1>2, LenProperties
    <2>2. big \in Seq(LineSet) /\ Len(big) = n + 1 /\ big[n + 1] = l /\ \A i \in 1..n : big[i] = src[i]
      BY <1>1, <1>2, AppendProperties
    <2> QED BY <2>1, <2>2, LenProperties
  <1>4. \A i \in 1..(n + 1) : i \in 1..n \/ i = n + 1
    BY <1>3
  <1>5. \A i \in 1..n : i \in 1..(n + 1)
    BY <1>3
  <1>6. n + 1 \in 1..(n + 1)
    BY <1>3
  <1>7. SrcKinds' = SrcKinds \cup {l.kind}
    <2>1. SrcKinds' = {big[i].kind : i \in 1..(n + 1)} /\ SrcKinds = {src[i].kind : i \in 1..n}
      BY <1>2, <1>3 DEF SrcKinds
    <2> QED BY <1>3, <1>4, <1>5, <1>6, <2>1
  <1>8. InHunk' <=> InHunk \/ l.kind = "hunk"
    <2>1. /\ InHunk' <=> \E i \in 1..(n + 1) : big[i].kind = "hunk"
          /\ InHunk <=> \E i \in 1..n : src[i].kind = "hunk"
      BY <1>2, <1>3 DEF InHunk
    <2> QED BY <1>3, <1>4, <1>5, <1>6, <2>1
  <1>9. WrittenInv'
    BY <1>1, <1>2, <1>3 DEF WrittenInv
  <1>10. BareInv'
    BY <1>1, BareTruthful DEF DiffInv, BareInv
  <1>11. JobsInv' /\ CachedInv'
    BY <1>1 DEF DiffInv, JobsInv, CachedInv, JobSet, CacheSet, OneKey, Painted
  <1>12. /\ ParseUnified(diffSrc) \in DocSet
         /\ ParseUnified(diffSrc') = parseLine(ParseUnified(diffSrc), l)
    BY <1>1, ParseNext
  <1> QED BY <1>1, <1>7, <1>8, <1>9, <1>10, <1>11, <1>12

(* A line that changes no hunk, and no count unless it looks like a header. *)
LEMMA QuietLine ==
    ASSUME DiffInv, docs = <<>>, NEW l \in LineSet, Write(l), oldAt' \in Nat, newAt' \in Nat,
           l.kind \in {"extra", "---", "+++", "noeol", "@@bad"} \cup HeaderLike,
           UNCHANGED <<oldAt, newAt>> \/ l.kind \in HeaderLike
    PROVE  DiffInv'
  <1>1. PICK d, e : d = ParseUnified(diffSrc) /\ e = ParseUnified(diffSrc')
    OBVIOUS
  <1>2. l.kind # "hunk"
    BY DEF HeaderLike
  <1>3. /\ WrittenInv' /\ BareInv' /\ JobsInv' /\ CachedInv'
        /\ diffSrc \in Seq(LineSet) /\ diffSrc' = Append(diffSrc, l)
        /\ SrcKinds' = SrcKinds \cup {l.kind} /\ (InHunk' <=> InHunk)
        /\ e = parseLine(d, l) /\ d \in DocSet
    BY <1>1, <1>2, Written
  <1>4. (e.err <=> d.err \/ l.kind = "@@bad") /\ (~e.err => e.hunks = d.hunks)
    <2>1. d.err \in BOOLEAN /\ d = [err |-> d.err, path |-> d.path, hunks |-> d.hunks]
      BY <1>3 DEF DocSet
    <2> QED BY <1>3, <2>1 DEF parseLine, HeaderLike
  <1>5. ~e.err => renderDiffRows(e) = renderDiffRows(d)
    BY <1>4 DEF renderDiffRows
  <1>6. d.err <=> "@@bad" \in SrcKinds
    BY <1>1 DEF DiffInv, ParsedInv
  <1>7. e.err <=> "@@bad" \in SrcKinds'
    BY <1>3, <1>4, <1>6
  <1>8. ASSUME ~e.err
        PROVE  /\ Truthful(Hidden(FALSE), renderDiffRows(e), diffSrc')
               /\ Plain' => Numbered(renderDiffRows(e))
               /\ InHunk' => /\ e.hunks # <<>> /\ ~e.hunks[Len(e.hunks)].bare
                             /\ Plain' => HunkEnd(e.hunks[Len(e.hunks)], Counted')
    <2>1. /\ Truthful(Hidden(FALSE), renderDiffRows(d), diffSrc)
          /\ Plain => Numbered(renderDiffRows(d))
          /\ InHunk => /\ d.hunks # <<>> /\ ~d.hunks[Len(d.hunks)].bare
                       /\ Plain => HunkEnd(d.hunks[Len(d.hunks)], Counted)
      BY <1>1, <1>4, <1>8 DEF DiffInv, ParsedInv
    <2>2. Plain' => Plain /\ l.kind \notin HeaderLike
      BY <1>3 DEF Plain
    <2>3. Plain' => Counted' = Counted
      BY <2>2 DEF Counted
    <2>4. l.kind \in Hidden(FALSE)
      BY <1>4, <1>8 DEF Hidden
    <2>5. Truthful(Hidden(FALSE), renderDiffRows(d), Append(diffSrc, l))
      BY <1>3, <2>1, <2>4, TruthfulSkip
    <2> QED BY <1>3, <1>4, <1>5, <1>8, <2>1, <2>2, <2>3, <2>5
  <1>9. ParsedInv'
    BY <1>1, <1>7, <1>8 DEF ParsedInv
  <1> QED BY <1>3, <1>9 DEF DiffInv

LEMMA HeaderStep == ASSUME DiffInv, NEW k \in {"extra", "---", "+++"}, WriteHeader(k) PROVE DiffInv'
  <1>1. PICK l : l = Raw(k, 0, 0, 0)
    OBVIOUS
  <1>2. l \in LineSet /\ l.kind = k
    <2>1. k \in LineKinds /\ 0 \in Nat
      BY DEF LineKinds
    <2> QED BY <1>1, <2>1, RawTyped
  <1>3. docs = <<>> /\ Write(l) /\ UNCHANGED <<oldAt, newAt>> /\ oldAt' \in Nat /\ newAt' \in Nat
    BY <1>1 DEF WriteHeader, Writing, DiffInv, WrittenInv
  <1> QED BY <1>2, <1>3, QuietLine

LEMMA NoteStep == ASSUME DiffInv, NEW k \in {"noeol", "@@bad"}, WriteNote(k) PROVE DiffInv'
  <1>1. PICK l : l = Raw(k, 0, 0, 0)
    OBVIOUS
  <1>2. l \in LineSet /\ l.kind = k
    <2>1. k \in LineKinds /\ 0 \in Nat
      BY DEF LineKinds
    <2> QED BY <1>1, <2>1, RawTyped
  <1>3. docs = <<>> /\ Write(l) /\ UNCHANGED <<oldAt, newAt>> /\ oldAt' \in Nat /\ newAt' \in Nat
    BY <1>1 DEF WriteNote, Writing, DiffInv, WrittenInv
  <1> QED BY <1>2, <1>3, QuietLine

LEMMA HunkStep == ASSUME DiffInv, NEW gap \in {0, 2}, WriteHunk(gap) PROVE DiffInv'
  <1>1. oldAt' \in Nat /\ newAt' \in Nat
    <2>1. oldAt \in Nat /\ newAt \in Nat /\ gap \in Nat
      BY DEF DiffInv, WrittenInv
    <2> QED BY <2>1 DEF WriteHunk
  <1>2. PICK l : l = Raw("hunk", oldAt', newAt', 0)
    OBVIOUS
  <1>3. l \in LineSet /\ l.kind = "hunk" /\ l.old = oldAt' /\ l.new = newAt'
    <2>1. "hunk" \in LineKinds /\ 0 \in Nat
      BY DEF LineKinds
    <2> QED BY <1>1, <1>2, <2>1, RawTyped
  <1>4. docs = <<>> /\ Write(l)
    BY <1>2 DEF WriteHunk, Writing
  <1>5. PICK d, e, h : d = ParseUnified(diffSrc) /\ e = ParseUnified(diffSrc') /\ h = parseHunkHeader(l)
    OBVIOUS
  <1>6. /\ WrittenInv' /\ BareInv' /\ JobsInv' /\ CachedInv'
        /\ diffSrc \in Seq(LineSet) /\ diffSrc' = Append(diffSrc, l)
        /\ SrcKinds' = SrcKinds \cup {l.kind}
        /\ e = parseLine(d, l) /\ d \in DocSet
    BY <1>1, <1>3, <1>4, <1>5, Written
  <1>7. (e.err <=> d.err) /\ (~e.err => e.hunks = Append(d.hunks, h))
    <2>1. d.err \in BOOLEAN /\ d = [err |-> d.err, path |-> d.path, hunks |-> d.hunks]
      BY <1>6 DEF DocSet
    <2> QED BY <1>3, <1>5, <1>6, <2>1 DEF parseLine, HeaderLike
  <1>8. h \in HunkSet /\ h.lines = <<>> /\ h.bare = FALSE /\ h.old = oldAt' /\ h.new = newAt'
    <2>1. h = [old |-> oldAt', new |-> newAt', bare |-> FALSE, lines |-> <<>>]
      BY <1>3, <1>5 DEF parseHunkHeader
    <2>2. <<>> \in Seq(EntrySet)
      OBVIOUS
    <2> QED BY <1>1, <2>1, <2>2 DEF HunkSet
  <1>9. hunkRows(h) = <<Header(h)>> /\ HunkEnd(h, Counted')
    <2>1. hunkRows(h) = RowBase(h).rows /\ HunkEnd(h, [old |-> h.old, new |-> h.new])
      BY <1>8, HunkBegins
    <2> QED BY <1>8, <2>1 DEF RowBase, Counted
  <1>10. Header(h) \in RowSet /\ Header(h).of = l /\ TrueGutter(Header(h))
    <2>1. Raw("hunk", h.old, h.new, 0) \in LineSet
      BY <1>1, <1>8, RawTyped DEF LineKinds
    <2>2. Header(h) \in RowSet
      BY <2>1 DEF Header, RowSet
    <2>3. Header(h).of = l
      BY <1>2, <1>8 DEF Header
    <2> QED BY <2>2, <2>3 DEF Header, TrueGutter
  <1>11. ParsedInv'
    <2>1. (d.err <=> "@@bad" \in SrcKinds) /\ (e.err <=> "@@bad" \in SrcKinds')
      <3>1. d.err <=> "@@bad" \in SrcKinds
        BY <1>5 DEF DiffInv, ParsedInv
      <3> QED BY <1>3, <1>6, <1>7, <3>1
    <2> SUFFICES ASSUME ~e.err
                 PROVE  /\ Truthful(Hidden(FALSE), renderDiffRows(e), diffSrc')
                        /\ Plain' => Numbered(renderDiffRows(e))
                        /\ e.hunks # <<>> /\ ~e.hunks[Len(e.hunks)].bare
                        /\ HunkEnd(e.hunks[Len(e.hunks)], Counted')
      BY <1>5, <2>1 DEF ParsedInv
    <2>2. /\ Truthful(Hidden(FALSE), renderDiffRows(d), diffSrc)
          /\ Plain => Numbered(renderDiffRows(d))
      BY <1>5, <1>7 DEF DiffInv, ParsedInv
    <2>3. d.hunks \in Seq(HunkSet)
      BY <1>6 DEF DocSet
    <2>4. renderDiffRows(d) \in Seq(RowSet) /\ renderDiffRows(e) = renderDiffRows(d) \o hunkRows(h)
      <3>1. MoreRows(d, e, h)
        <4>1. e.hunks = Append(d.hunks, h)
          BY <1>7
        <4> QED BY <1>8, <2>3, <4>1, RenderMore
      <3> QED BY <3>1 DEF MoreRows
    <2>5. renderDiffRows(e) = Append(renderDiffRows(d), Header(h))
      BY <1>9, <1>10, <2>4, AppendIsConcat
    <2>6. Truthful(Hidden(FALSE), Append(renderDiffRows(d), Header(h)), Append(diffSrc, l))
      <3>1. l.kind \notin Hidden(FALSE)
        BY <1>3 DEF Hidden, HeaderLike
      <3> QED BY <1>3, <1>6, <1>10, <2>2, <3>1, TruthfulRow
    <2>7. Plain' => Numbered(Append(renderDiffRows(d), Header(h)))
      <3>1. Plain' => Plain
        BY <1>6 DEF Plain
      <3> QED BY <1>10, <2>2, <2>4, <3>1, NumberedRow
    <2>8. PICK n : n = Len(d.hunks)
      OBVIOUS
    <2>9. e.hunks # <<>> /\ Len(e.hunks) = n + 1 /\ e.hunks[n + 1] = h
      BY <1>7, <1>8, <2>3, <2>8, AppendProperties
    <2>10. e.hunks[Len(e.hunks)] = h
      BY <2>9
    <2> QED BY <1>6, <1>8, <1>9, <2>5, <2>6, <2>7, <2>9, <2>10
  <1> QED BY <1>6, <1>11 DEF DiffInv

(* A line that becomes a row of the last hunk.                             *)
LEMMA ShownBody ==
    ASSUME DiffInv, NEW k \in Markers \cup {"blank"}, WriteBody(k), oldAt' \in Nat, newAt' \in Nat,
           NEW no \in Nat, no = IF k \in Removed THEN oldAt ELSE newAt
    PROVE  DiffInv'
  <1>1. oldAt \in Nat /\ newAt \in Nat
    BY DEF DiffInv, WrittenInv
  <1>2. PICK l, x : l = Raw(k, 0, 0, no) /\ x = entry(l)
    OBVIOUS
  <1>3. l \in LineSet /\ l.kind = k /\ l.no = no /\ x \in EntrySet
    <2>1. k \in LineKinds /\ 0 \in Nat
      BY DEF LineKinds, Markers
    <2>2. l \in LineSet /\ l.kind = k /\ l.no = no
      BY <1>2, <2>1, RawTyped
    <2> QED BY <1>2, <2>2, EntryTyped
  <1>4. docs = <<>> /\ Write(l) /\ InHunk
    BY <1>2 DEF WriteBody, Writing
  <1>5. PICK d, e : d = ParseUnified(diffSrc) /\ e = ParseUnified(diffSrc')
    OBVIOUS
  <1>6. /\ WrittenInv' /\ BareInv' /\ JobsInv' /\ CachedInv'
        /\ diffSrc \in Seq(LineSet) /\ diffSrc' = Append(diffSrc, l)
        /\ SrcKinds' = SrcKinds \cup {l.kind} /\ (InHunk' <=> InHunk)
        /\ e = parseLine(d, l) /\ d \in DocSet
    BY <1>3, <1>4, <1>5, Written DEF Markers
  <1>7. PICK q, n, h : q = d.hunks /\ n = Len(q) /\ h = q[n]
    OBVIOUS
  <1>8. /\ d.err <=> "@@bad" \in SrcKinds
        /\ ~d.err => /\ Truthful(Hidden(FALSE), renderDiffRows(d), diffSrc)
                     /\ Plain => Numbered(renderDiffRows(d)) /\ HunkEnd(h, Counted)
                     /\ q # <<>> /\ ~h.bare
    BY <1>4, <1>5, <1>7 DEF DiffInv, ParsedInv
  <1>9. (e.err <=> d.err) /\ (~d.err => e.hunks = Grown(q, x))
    <2>1. d.err \in BOOLEAN /\ d = [err |-> d.err, path |-> d.path, hunks |-> q]
      BY <1>6, <1>7 DEF DocSet
    <2>2. k \notin {"extra", "---", "+++", "---x", "+++x", "hunk", "@@bad", "noeol"}
      BY DEF Markers
    <2>3. CASE d.err
      BY <1>6, <2>1, <2>3 DEF parseLine
    <2>4. CASE ~d.err
      <3>1. e = [d EXCEPT !.hunks[Len(d.hunks)].lines = Append(@, x)]
        BY <1>2, <1>3, <1>6, <1>7, <1>8, <2>2, <2>4 DEF parseLine, HeaderLike
      <3> QED BY <1>7, <2>1, <2>4, <3>1 DEF Grown
    <2> QED BY <2>3, <2>4
  <1>10. e.err <=> "@@bad" \in SrcKinds'
    <2>1. k # "@@bad"
      BY DEF Markers
    <2> QED BY <1>3, <1>6, <1>8, <1>9, <2>1
  <1>11. ASSUME ~e.err
         PROVE  /\ Truthful(Hidden(FALSE), renderDiffRows(e), diffSrc')
                /\ Plain' => Numbered(renderDiffRows(e)) /\ HunkEnd(e.hunks[Len(e.hunks)], Counted')
                /\ e.hunks # <<>> /\ ~e.hunks[Len(e.hunks)].bare
    <2>1. /\ Truthful(Hidden(FALSE), renderDiffRows(d), diffSrc)
          /\ Plain => Numbered(renderDiffRows(d)) /\ HunkEnd(h, Counted)
          /\ q # <<>> /\ ~h.bare
      BY <1>8, <1>9, <1>11
    <2>2. q \in Seq(HunkSet)
      BY <1>6, <1>7 DEF DocSet
    <2>3. n \in Nat \ {0} /\ h \in HunkSet
      <3>1. n \in Nat \ {0} /\ n \in 1..n
        BY <1>7, <2>1, <2>2, EmptySeq
      <3> QED BY <1>7, <2>2, <3>1, ElementOfSeq
    <2>4. PICK at \in Places : HunkEnd(h, at) /\ (Plain => at = Counted)
      <3>1. CASE Plain
        <4>1. Counted \in Places
          BY <1>1 DEF Counted, Places
        <4> QED BY <2>1, <3>1, <4>1
      <3>2. CASE ~Plain
        BY <2>3, <3>2, HunkRowsTyped
      <3> QED BY <3>1, <3>2
    <2>5. PICK row : row = RowFor(h.bare, at, x)
      OBVIOUS
    <2>6. /\ e.hunks \in Seq(HunkSet) /\ Len(e.hunks) = n /\ e.hunks[n] = WithLine(h, x)
          /\ renderDiffRows(e) = Append(renderDiffRows(d), row)
      <3>1. d.hunks = q /\ e.hunks = Grown(q, x)
        BY <1>7, <1>9, <1>11
      <3>2. x \in EntrySet /\ q \in Seq(HunkSet) /\ q # <<>> /\ n = Len(q) /\ h = q[n]
        BY <1>3, <1>7, <2>1, <2>2
      <3>3. GrownRows(d, e, n, h, at, x)
        BY <2>4, <3>1, <3>2, RenderGrown
      <3> QED BY <2>5, <3>3 DEF GrownRows
    <2>7. h.bare = FALSE
      BY <2>1, <2>3 DEF HunkSet
    <2>8. row \in RowSet /\ row.of = l
      <3>1. row \in RowSet
        BY <1>3, <2>4, <2>5, <2>7, RowForTyped
      <3> QED BY <1>2, <2>5, <3>1 DEF RowFor, entry
    <2>9. Truthful(Hidden(FALSE), Append(renderDiffRows(d), row), Append(diffSrc, l))
      <3>1. l.kind \notin Hidden(FALSE)
        BY <1>3 DEF Hidden, HeaderLike, Markers
      <3> QED BY <1>3, <1>6, <2>1, <2>8, <3>1, TruthfulRow
    <2>10. ~e.hunks[n].bare /\ e.hunks # <<>>
      <3>1. WithLine(h, x).bare = h.bare
        BY <2>3 DEF WithLine, HunkSet
      <3>2. Len(<<>>) = 0
        OBVIOUS
      <3> QED BY <2>1, <2>3, <2>6, <3>1, <3>2
    <2>11. ASSUME Plain' PROVE Numbered(Append(renderDiffRows(d), row)) /\ HunkEnd(e.hunks[n], Counted')
      <3>1. Plain /\ k \in Markers
        BY <1>3, <1>6, <2>11 DEF Plain
      <3>2. x.marker = k
        BY <1>2, <1>3, <3>1 DEF entry, classifyMarker, Markers, Removed, Added
      <3>3. HunkEnd(WithLine(h, x), advance(k, Counted))
        BY <1>3, <2>3, <2>4, <3>1, <3>2, HunkGrows
      <3>4. advance(k, Counted) = Counted'
        BY <3>1 DEF advance, Counted, WriteBody, Markers, Removed, Added, Kept
      <3>5. row.gutter = no
        <4>1. row.gutter = singleColumnGutter(k, at.old, at.new, FALSE)
          BY <2>5, <2>7, <3>2 DEF RowFor
        <4>2. at.old = oldAt /\ at.new = newAt
          BY <2>4, <3>1 DEF Counted
        <4> QED BY <3>1, <4>1, <4>2 DEF singleColumnGutter, Markers, Removed
      <3>6. TrueGutter(row)
        BY <1>3, <2>8, <3>5 DEF TrueGutter
      <3>7. renderDiffRows(d) \in Seq(RowSet)
        BY <2>1 DEF Truthful
      <3> QED BY <2>1, <2>6, <2>8, <3>1, <3>3, <3>4, <3>6, <3>7, NumberedRow
    <2> QED BY <1>6, <2>6, <2>9, <2>10, <2>11
  <1>12. ParsedInv'
    BY <1>5, <1>10, <1>11 DEF ParsedInv
  <1> QED BY <1>6, <1>12 DEF DiffInv

LEMMA BodyStep == ASSUME DiffInv, NEW k \in Removed \cup Added \cup Kept, WriteBody(k) PROVE DiffInv'
  <1>1. oldAt \in Nat /\ newAt \in Nat /\ oldAt' \in Nat /\ newAt' \in Nat
    <2>1. oldAt \in Nat /\ newAt \in Nat
      BY DEF DiffInv, WrittenInv
    <2>2. oldAt + 1 \in Nat /\ newAt + 1 \in Nat
      BY <2>1
    <2>3. oldAt' \in {oldAt, oldAt + 1} /\ newAt' \in {newAt, newAt + 1}
      BY DEF WriteBody
    <2> QED BY <2>1, <2>2, <2>3
  <1>2. PICK no : no = IF k \in Removed THEN oldAt ELSE newAt
    OBVIOUS
  <1>3. no \in Nat
    BY <1>1, <1>2
  <1>4. CASE k \in HeaderLike
    <2>1. PICK l : l = Raw(k, 0, 0, no)
      OBVIOUS
    <2>2. k \in LineKinds /\ 0 \in Nat
      BY <1>4 DEF LineKinds, HeaderLike
    <2>3. l \in LineSet /\ l.kind = k
      BY <1>3, <2>1, <2>2, RawTyped
    <2>4. docs = <<>> /\ Write(l)
      BY <1>2, <2>1 DEF WriteBody, Writing
    <2> QED BY <1>1, <1>4, <2>3, <2>4, QuietLine
  <1>5. CASE k \notin HeaderLike
    <2>1. k \in Markers \cup {"blank"}
      BY <1>5 DEF HeaderLike, Removed, Added, Kept, Markers
    <2> QED BY <1>1, <1>2, <1>3, <2>1, ShownBody
  <1> QED BY <1>4, <1>5

(* The diff as a fence, and as what NewDiff makes of it.                    *)
LEMMA FenceShown ==
    ASSUME DiffInv
    PROVE  /\ Truthful(Hidden(TRUE), renderDiffRows(NewDiffFromBareLines(diffSrc)), diffSrc)
           /\ Numbered(renderDiffRows(NewDiffFromBareLines(diffSrc)))
  <1>1. diffSrc \in Seq(LineSet)
    BY DEF DiffInv, WrittenInv
  <1>2. Hidden(TRUE) = Fence
    BY DEF Hidden, Fence
  <1> QED BY <1>1, <1>2, BareShown DEF DiffInv, BareInv

LEMMA ParsedShown ==
    ASSUME DiffInv
    PROVE  /\ Truthful(Hidden("@@bad" \in SrcKinds), renderDiffRows(NewDiff(diffSrc)), diffSrc)
           /\ Plain => Numbered(renderDiffRows(NewDiff(diffSrc)))
  <1>1. PICK d : d = ParseUnified(diffSrc)
    OBVIOUS
  <1>2. /\ d.err <=> "@@bad" \in SrcKinds
        /\ ~d.err => /\ Truthful(Hidden(FALSE), renderDiffRows(d), diffSrc)
                     /\ Plain => Numbered(renderDiffRows(d))
    BY <1>1 DEF DiffInv, ParsedInv
  <1>3. NewDiff(diffSrc) = IF d.err THEN NewDiffFromBareLines(diffSrc) ELSE d
    BY <1>1 DEF NewDiff
  <1>4. CASE "@@bad" \in SrcKinds
    <2>1. NewDiff(diffSrc) = NewDiffFromBareLines(diffSrc) /\ Hidden("@@bad" \in SrcKinds) = Hidden(TRUE)
      BY <1>2, <1>3, <1>4 DEF Hidden
    <2> QED BY <2>1, FenceShown
  <1>5. CASE "@@bad" \notin SrcKinds
    <2>1. NewDiff(diffSrc) = d /\ Hidden("@@bad" \in SrcKinds) = Hidden(FALSE)
      BY <1>2, <1>3, <1>5 DEF Hidden
    <2> QED BY <1>2, <1>5, <2>1
  <1> QED BY <1>4, <1>5

LEMMA ShowStep == ASSUME DiffInv, ShowDiff PROVE DiffInv'
  <1>1. /\ docs = <<>> /\ docs' = <<NewDiff(diffSrc), NewDiffFromBareLines(diffSrc)>>
        /\ UNCHANGED <<diffSrc, oldAt, newAt, lru, job>>
    BY DEF ShowDiff
  <1>2. WrittenInv' /\ ParsedInv' /\ BareInv'
    BY <1>1 DEF DiffInv, WrittenInv, ParsedInv, BareInv, Plain, SrcKinds, InHunk, Counted
  <1>3. JobsInv'
    <2>1. JobSet(docs) = {Idle}
      BY <1>1 DEF JobSet
    <2>2. Idle \in JobSet(docs')
      BY DEF JobSet
    <2> QED BY <1>1, <2>1, <2>2 DEF DiffInv, JobsInv
  <1>4. CachedInv'
    <2>1. CacheSet(docs) = {}
      BY <1>1 DEF CacheSet
    <2>2. lru = <<>>
      <3>1. lru \in Seq({})
        BY <2>1 DEF DiffInv, CachedInv
      <3>2. PICK n : n = Len(lru)
        OBVIOUS
      <3>3. n \in Nat /\ \A i \in 1..n : lru[i] \in {}
        BY <3>1, <3>2, LenProperties, ElementOfSeq
      <3>4. n # 0 => 1 \in 1..n
        BY <3>3
      <3>5. n = 0
        BY <3>3, <3>4
      <3> QED BY <3>1, <3>2, <3>5, EmptySeq
    <2>3. <<>> \in Seq(CacheSet(docs'))
      OBVIOUS
    <2>4. OneKey(<<>>)
      BY DEF OneKey
    <2> QED BY <1>1, <2>2, <2>3, <2>4 DEF CachedInv
  <1> QED BY <1>2, <1>3, <1>4 DEF DiffInv

LEMMA ConsSeq ==
    ASSUME NEW E, NEW s \in Seq(E), NEW x \in E
    PROVE  /\ <<x>> \o s \in Seq(E) /\ Len(<<x>> \o s) = Len(s) + 1 /\ (<<x>> \o s)[1] = x
           /\ \A k \in 2..(Len(s) + 1) : (<<x>> \o s)[k] = s[k-1]
  <1>1. PICK n, t : n = Len(s) /\ t = <<x>> \o s
    OBVIOUS
  <1>2. n \in Nat
    BY <1>1, LenProperties
  <1>3. <<x>> \in Seq(E) /\ Len(<<x>>) = 1 /\ <<x>>[1] = x
    OBVIOUS
  <1>4. t \in Seq(E) /\ Len(t) = 1 + n
    BY <1>1, <1>3, ConcatProperties
  <1>5. ASSUME NEW k \in 1..(n+1) PROVE t[k] = IF k <= 1 THEN x ELSE s[k-1]
    <2>1. k \in 1..(Len(<<x>>) + Len(s))
      BY <1>1, <1>2, <1>3
    <2>2. t[k] = IF k <= Len(<<x>>) THEN <<x>>[k] ELSE s[k - Len(<<x>>)]
      BY <1>1, <1>3, <2>1, ConcatProperties
    <2>3. k <= 1 => k = 1
      OBVIOUS
    <2> QED BY <1>3, <2>2, <2>3
  <1> QED BY <1>1, <1>2, <1>4, <1>5

(* An entry moved or put to the front leaves every key in one place.       *)
LEMMA FrontOf ==
    ASSUME NEW E, NEW s \in Seq(E), OneKey(s), NEW i \in 1..Len(s), NEW x \in E, x.key = s[i].key
    PROVE  <<x>> \o RemoveAt(s, i) \in Seq(E) /\ OneKey(<<x>> \o RemoveAt(s, i))
  <1>1. PICK n, a, b, r, t : /\ n = Len(s) /\ a = SubSeq(s, 1, i - 1) /\ b = SubSeq(s, i + 1, n)
                             /\ r = a \o b /\ t = <<x>> \o r
    OBVIOUS
  <1>2. n \in Nat /\ i \in 1..n /\ DOMAIN s = 1..n /\ i \in Nat
    BY <1>1, LenProperties
  <1>3. a \in Seq(E) /\ Len(a) = i - 1 /\ \A k \in 1..(i-1) : a[k] = s[k]
    BY <1>1, <1>2
  <1>4. b \in Seq(E) /\ Len(b) = n - i /\ \A k \in 1..(n-i) : b[k] = s[k+i]
    BY <1>1, <1>2
  <1>5. r \in Seq(E) /\ Len(r) = n - 1 /\ \A k \in 1..(n-1) : r[k] = s[IF k < i THEN k ELSE k + 1]
    <2>0. r = a \o b /\ a \in Seq(E) /\ b \in Seq(E)
      BY <1>1, <1>3, <1>4
    <2>a. /\ r \in Seq(E) /\ Len(r) = Len(a) + Len(b)
          /\ \A k \in 1..(Len(a) + Len(b)) : r[k] = IF k <= Len(a) THEN a[k] ELSE b[k - Len(a)]
      BY <2>0, ConcatProperties
    <2>1. r \in Seq(E) /\ Len(r) = (i - 1) + (n - i)
      BY <1>3, <1>4, <2>a
    <2>2. ASSUME NEW k \in 1..(n-1) PROVE r[k] = s[IF k < i THEN k ELSE k + 1]
      <3>1. k \in 1..(Len(a) + Len(b)) /\ r[k] = IF k <= Len(a) THEN a[k] ELSE b[k - Len(a)]
        BY <1>2, <1>3, <1>4, <2>a
      <3>2. CASE k < i
        <4>1. k \in 1..(i-1) /\ k <= Len(a)
          BY <1>2, <1>3, <3>2
        <4> QED BY <1>3, <3>1, <3>2, <4>1
      <3>3. CASE ~(k < i)
        <4>1. ~(k <= Len(a)) /\ k - Len(a) = k - i + 1 /\ k - i + 1 \in 1..(n-i) /\ (k - i + 1) + i = k + 1
          BY <1>2, <1>3, <3>3
        <4>2. b[k - i + 1] = s[(k - i + 1) + i]
          BY <1>4, <4>1
        <4> QED BY <3>1, <3>3, <4>1, <4>2
      <3> QED BY <3>2, <3>3
    <2> QED BY <1>2, <2>1, <2>2
  <1>6. t \in Seq(E) /\ Len(t) = n /\ t[1] = x /\ \A k \in 2..n : t[k] = r[k-1]
    <2>1. /\ t \in Seq(E) /\ Len(t) = Len(r) + 1 /\ t[1] = x
          /\ \A k \in 2..(Len(r) + 1) : t[k] = r[k-1]
      <3>1. r \in Seq(E) /\ t = <<x>> \o r
        BY <1>1, <1>5
      <3> QED BY <3>1, ConsSeq
    <2> QED BY <1>2, <1>5, <2>1
  <1> DEFINE at(k) == IF k = 1 THEN i ELSE IF k - 1 < i THEN k - 1 ELSE k
  <1>7. ASSUME NEW k \in 1..n PROVE at(k) \in 1..n /\ t[k].key = s[at(k)].key
    <2>1. CASE k = 1
      BY <1>2, <1>6, <2>1
    <2>2. CASE k # 1
      <3>1. k \in 2..n /\ k - 1 \in 1..(n-1) /\ (k - 1) + 1 = k
        BY <1>2, <2>2
      <3>2. t[k] = s[IF k - 1 < i THEN k - 1 ELSE k]
        BY <1>5, <1>6, <3>1
      <3> QED BY <1>2, <2>2, <3>1, <3>2
    <2> QED BY <2>1, <2>2
  <1>8. \A k, l \in 1..n : at(k) = at(l) => k = l
    BY <1>2
  <1>9. \A k, l \in 1..n : s[k].key = s[l].key => k = l
    BY <1>2 DEF OneKey
  <1> HIDE DEF at
  <1>10. \A k, l \in 1..n : t[k].key = t[l].key => k = l
    BY <1>7, <1>8, <1>9
  <1>11. DOMAIN t = 1..n
    BY <1>6, LenProperties
  <1>12. OneKey(t)
    BY <1>10, <1>11 DEF OneKey
  <1>13. RemoveAt(s, i) = r
    BY <1>1 DEF RemoveAt
  <1> QED BY <1>1, <1>6, <1>12, <1>13

(* A new entry in front, and the last one evicted.                         *)
LEMMA FrontNew ==
    ASSUME NEW E, NEW s \in Seq(E), OneKey(s), NEW x \in E, \A i \in DOMAIN s : s[i].key # x.key
    PROVE  /\ <<x>> \o s \in Seq(E) /\ OneKey(<<x>> \o s)
           /\ Front(<<x>> \o s) \in Seq(E) /\ OneKey(Front(<<x>> \o s))
  <1>1. PICK n, t, f : n = Len(s) /\ t = <<x>> \o s /\ f = SubSeq(t, 1, Len(t) - 1)
    OBVIOUS
  <1>2. n \in Nat /\ DOMAIN s = 1..n
    BY <1>1, LenProperties
  <1>3. t \in Seq(E) /\ Len(t) = n + 1 /\ t[1] = x /\ \A k \in 2..(n+1) : t[k] = s[k-1]
    <2>1. /\ t \in Seq(E) /\ Len(t) = Len(s) + 1 /\ t[1] = x
          /\ \A k \in 2..(Len(s) + 1) : t[k] = s[k-1]
      BY <1>1, ConsSeq
    <2> QED BY <1>1, <1>2, <2>1
  <1>4. \A k, l \in 1..(n+1) : t[k].key = t[l].key => k = l
    <2>1. \A k \in 2..(n+1) : k - 1 \in 1..n
      BY <1>2
    <2>2. \A k \in 1..(n+1) : k = 1 \/ k \in 2..(n+1)
      BY <1>2
    <2>3. \A k, l \in 2..(n+1) : t[k].key = t[l].key => k = l
      <3>1. \A k, l \in 1..n : s[k].key = s[l].key => k = l
        BY <1>2 DEF OneKey
      <3>2. \A k, l \in 2..(n+1) : k - 1 = l - 1 => k = l
        OBVIOUS
      <3> QED BY <1>3, <2>1, <3>1, <3>2
    <2>4. \A k \in 2..(n+1) : t[k].key # x.key
      BY <1>2, <1>3, <2>1
    <2> QED BY <1>3, <2>2, <2>3, <2>4
  <1>5. DOMAIN t = 1..(n+1)
    BY <1>3, LenProperties
  <1>6. f \in Seq(E) /\ Len(f) = n /\ \A k \in 1..n : f[k] = t[k]
    BY <1>1, <1>2, <1>3
  <1>7. DOMAIN f = 1..n /\ \A k \in 1..n : k \in 1..(n+1)
    BY <1>2, <1>6, LenProperties
  <1>8. OneKey(t)
    BY <1>4, <1>5 DEF OneKey
  <1>9. OneKey(f)
    BY <1>4, <1>6, <1>7 DEF OneKey
  <1>10. Front(t) = f
    BY <1>1 DEF Front
  <1> QED BY <1>1, <1>3, <1>6, <1>8, <1>9, <1>10

(* The key of a block decides its rows.                                    *)
LEMMA KeyDecides ==
    ASSUME NEW d, NEW e, NEW b, NEW c, makeBlockCacheKey(d, b) = makeBlockCacheKey(e, c)
    PROVE  Painted(d, b) = Painted(e, c)
  <1>1. serializeDiff(d) = serializeDiff(e) /\ b = c
    BY DEF makeBlockCacheKey
  <1>2. d.hunks = e.hunks
    BY <1>1 DEF serializeDiff
  <1> QED BY <1>1, <1>2 DEF Painted, renderDiffRows

LEMMA LookupStep ==
    ASSUME DiffInv, NEW r \in Renderers, NEW d \in 1..2, NEW c \in DiffCols, RenderLookup(r, d, c)
    PROVE  DiffInv'
  <1>1. d \in DOMAIN docs /\ UNCHANGED <<diffSrc, oldAt, newAt, docs>>
    BY DEF RenderLookup
  <1>2. WrittenInv' /\ ParsedInv' /\ BareInv'
    BY <1>1 DEF DiffInv, WrittenInv, ParsedInv, BareInv, Plain, SrcKinds, InHunk, Counted
  <1>3. /\ job \in [Renderers -> JobSet(docs)] /\ lru \in Seq(CacheSet(docs)) /\ OneKey(lru)
    BY DEF DiffInv, JobsInv, CachedInv
  <1>4. PICK key, hit, at : /\ key = makeBlockCacheKey(docs[d], c) /\ hit = Hit(key)
                            /\ at = CHOOSE i \in hit : TRUE
    OBVIOUS
  <1>5. PICK buf : buf = Painted(docs[d], c)
    OBVIOUS
  <1>6. /\ [pc |-> "miss", d |-> d, cols |-> c] \in JobSet(docs)
        /\ [pc |-> "done", d |-> d, cols |-> c, buf |-> buf] \in JobSet(docs)
    <2>1. PICK p : p = <<d, c>>
      OBVIOUS
    <2>2. p \in (DOMAIN docs) \X DiffCols /\ p[1] = d /\ p[2] = c
      BY <1>1, <2>1
    <2>3. /\ [pc |-> "miss", d |-> d, cols |-> c] = [pc |-> "miss", d |-> p[1], cols |-> p[2]]
          /\ [pc |-> "done", d |-> d, cols |-> c, buf |-> buf]
               = [pc |-> "done", d |-> p[1], cols |-> p[2], buf |-> Painted(docs[p[1]], p[2])]
      BY <1>5, <2>2
    <2> QED BY <2>2, <2>3 DEF JobSet
  <1>7. CASE hit = {}
    <2>1. lru' = lru /\ job' = [job EXCEPT ![r] = [pc |-> "miss", d |-> d, cols |-> c]]
      BY <1>4, <1>7 DEF RenderLookup
    <2>2. job' \in [Renderers -> JobSet(docs)]
      BY <1>3, <1>6, <2>1
    <2>3. JobsInv' /\ CachedInv'
      BY <1>1, <1>3, <2>1, <2>2 DEF JobsInv, CachedInv
    <2> QED BY <1>2, <2>3 DEF DiffInv
  <1>8. CASE hit # {}
    <2>1. /\ lru' = ToFront(at)
          /\ job' = [job EXCEPT ![r] = [pc |-> "done", d |-> d, cols |-> c, buf |-> lru[at].buf]]
      BY <1>4, <1>8 DEF RenderLookup
    <2>2. at \in 1..Len(lru) /\ lru[at].key = key /\ lru[at] \in CacheSet(docs)
      <3>1. at \in hit
        BY <1>4, <1>8
      <3>2. at \in DOMAIN lru /\ lru[at].key = key
        BY <1>4, <3>1 DEF Hit
      <3>3. DOMAIN lru = 1..Len(lru)
        BY <1>3, LenProperties
      <3> QED BY <1>3, <3>2, <3>3, ElementOfSeq
    <2>3. lru[at].buf = buf
      <3>1. PICK p \in (DOMAIN docs) \X DiffCols :
              lru[at] = [key |-> makeBlockCacheKey(docs[p[1]], p[2]), buf |-> Painted(docs[p[1]], p[2])]
        BY <2>2 DEF CacheSet
      <3>2. makeBlockCacheKey(docs[p[1]], p[2]) = makeBlockCacheKey(docs[d], c)
        BY <1>4, <2>2, <3>1
      <3>3. Painted(docs[p[1]], p[2]) = Painted(docs[d], c)
        BY <3>2, KeyDecides
      <3> QED BY <1>5, <3>1, <3>3
    <2>4. job' \in [Renderers -> JobSet(docs)]
      BY <1>3, <1>6, <2>1, <2>3
    <2>5. ToFront(at) \in Seq(CacheSet(docs)) /\ OneKey(ToFront(at))
      BY <1>3, <2>2, FrontOf DEF ToFront
    <2>6. JobsInv' /\ CachedInv'
      BY <1>1, <2>1, <2>4, <2>5 DEF JobsInv, CachedInv
    <2> QED BY <1>2, <2>6 DEF DiffInv
  <1> QED BY <1>7, <1>8

LEMMA PutStep == ASSUME DiffInv, NEW r \in Renderers, RenderPut(r) PROVE DiffInv'
  <1>1. job[r].pc = "miss" /\ UNCHANGED <<diffSrc, oldAt, newAt, docs>>
    BY DEF RenderPut
  <1>2. WrittenInv' /\ ParsedInv' /\ BareInv'
    BY <1>1 DEF DiffInv, WrittenInv, ParsedInv, BareInv, Plain, SrcKinds, InHunk, Counted
  <1>3. job \in [Renderers -> JobSet(docs)] /\ lru \in Seq(CacheSet(docs)) /\ OneKey(lru)
    BY DEF DiffInv, JobsInv, CachedInv
  <1>4. PICK p \in (DOMAIN docs) \X DiffCols : job[r] = [pc |-> "miss", d |-> p[1], cols |-> p[2]]
    BY <1>1, <1>3 DEF JobSet, Idle
  <1>5. PICK key, buf, x : /\ key = makeBlockCacheKey(docs[p[1]], p[2]) /\ buf = Painted(docs[p[1]], p[2])
                           /\ x = [key |-> key, buf |-> buf]
    OBVIOUS
  <1>6. x \in CacheSet(docs) /\ x.key = key
    BY <1>4, <1>5 DEF CacheSet
  <1>7. /\ job' = [job EXCEPT ![r] = [pc |-> "done", d |-> p[1], cols |-> p[2], buf |-> buf]]
        /\ lru' = lru \/ lru' = Put(key, buf)
    BY <1>3, <1>4, <1>5 DEF RenderPut
  <1>8. job' \in [Renderers -> JobSet(docs)]
    <2>1. [pc |-> "done", d |-> p[1], cols |-> p[2], buf |-> buf] \in JobSet(docs)
      BY <1>4, <1>5 DEF JobSet
    <2> QED BY <1>3, <1>7, <2>1
  <1>9. Put(key, buf) \in Seq(CacheSet(docs)) /\ OneKey(Put(key, buf))
    <2>1. CASE Hit(key) # {}
      <3>1. PICK i : i = CHOOSE j \in Hit(key) : TRUE
        OBVIOUS
      <3>2. i \in 1..Len(lru) /\ lru[i].key = key
        <4>1. i \in Hit(key)
          BY <2>1, <3>1
        <4>2. DOMAIN lru = 1..Len(lru)
          BY <1>3, LenProperties
        <4> QED BY <4>1, <4>2 DEF Hit
      <3>3. Put(key, buf) = <<x>> \o RemoveAt(lru, i)
        BY <1>5, <2>1, <3>1 DEF Put
      <3> QED BY <1>3, <1>6, <3>2, <3>3, FrontOf
    <2>2. CASE Hit(key) = {}
      <3>1. \A i \in DOMAIN lru : lru[i].key # x.key
        BY <1>6, <2>2 DEF Hit
      <3>2. Put(key, buf) \in {<<x>> \o lru, Front(<<x>> \o lru)}
        BY <1>5, <2>2 DEF Put
      <3>3. /\ <<x>> \o lru \in Seq(CacheSet(docs)) /\ OneKey(<<x>> \o lru)
            /\ Front(<<x>> \o lru) \in Seq(CacheSet(docs)) /\ OneKey(Front(<<x>> \o lru))
        BY <1>3, <1>6, <3>1, FrontNew
      <3> QED BY <3>2, <3>3
    <2> QED BY <2>1, <2>2
  <1>10. JobsInv' /\ CachedInv'
    BY <1>1, <1>3, <1>7, <1>8, <1>9 DEF JobsInv, CachedInv
  <1> QED BY <1>2, <1>10 DEF DiffInv

LEMMA DiffHolds == ASSUME DiffInv PROVE DiffFaithful
  <1>1. docs = <<>> \/ docs = <<NewDiff(diffSrc), NewDiffFromBareLines(diffSrc)>>
    BY DEF DiffInv, WrittenInv
  <1>2. ASSUME NEW i \in DOMAIN docs
        PROVE  /\ Truthful(Hidden(i = 2 \/ "@@bad" \in SrcKinds), renderDiffRows(docs[i]), diffSrc)
               /\ Plain => Numbered(renderDiffRows(docs[i]))
    <2>1. docs = <<NewDiff(diffSrc), NewDiffFromBareLines(diffSrc)>>
      BY <1>1, <1>2
    <2>2. (i = 1 /\ docs[i] = NewDiff(diffSrc)) \/ (i = 2 /\ docs[i] = NewDiffFromBareLines(diffSrc))
      BY <1>2, <2>1
    <2>3. CASE i = 1
      <3>1. Hidden(i = 2 \/ "@@bad" \in SrcKinds) = Hidden("@@bad" \in SrcKinds)
        BY <2>3 DEF Hidden
      <3>2. docs[i] = NewDiff(diffSrc)
        BY <2>2, <2>3
      <3> QED BY <3>1, <3>2, ParsedShown
    <2>4. CASE i = 2
      <3>1. Hidden(i = 2 \/ "@@bad" \in SrcKinds) = Hidden(TRUE)
        BY <2>4 DEF Hidden
      <3>2. docs[i] = NewDiffFromBareLines(diffSrc)
        BY <2>2, <2>4
      <3> QED BY <3>1, <3>2, FenceShown
    <2> QED BY <2>2, <2>3, <2>4
  <1>3. GutterIsFileLine
    BY <1>2 DEF GutterIsFileLine, Plain, Numbered, TrueGutter
  <1>4. EveryLineShown
    BY <1>2 DEF EveryLineShown, Truthful
  <1>5. CachedRowsFresh
    <2>1. ASSUME NEW r \in Renderers, job[r].pc = "done"
          PROVE  job[r].buf = Painted(docs[job[r].d], job[r].cols)
      <3>1. PICK p \in (DOMAIN docs) \X DiffCols :
              job[r] = [pc |-> "done", d |-> p[1], cols |-> p[2], buf |-> Painted(docs[p[1]], p[2])]
        BY <2>1 DEF DiffInv, JobsInv, JobSet, Idle
      <3> QED BY <3>1
    <2> QED BY <2>1 DEF CachedRowsFresh
  <1>6. OneEntryPerKey
    BY DEF DiffInv, CachedInv, OneKey, OneEntryPerKey
  <1> QED BY <1>3, <1>4, <1>5, <1>6 DEF DiffFaithful

(* Every diff within the bounds or beyond them, every number of renderers  *)
(* and every capacity of the cache.                                        *)
THEOREM DiffTheorem == DbSpec => []DiffFaithful
  <1>1. DbInit => DiffInv
    BY DiffInitial
  <1>2. DiffInv /\ [DbNext]_dbVars => DiffInv'
    <2> SUFFICES ASSUME DiffInv, [DbNext]_dbVars PROVE DiffInv'
      OBVIOUS
    <2>1. ASSUME UNCHANGED dbVars PROVE DiffInv'
      BY <2>1 DEF dbVars, DiffInv, WrittenInv, ParsedInv, BareInv, JobsInv, CachedInv, Plain, SrcKinds, InHunk, Counted
    <2>2. CASE DbNext
      <3>1. ASSUME NEW k \in {"extra", "---", "+++"}, WriteHeader(k) PROVE DiffInv'
        BY <3>1, HeaderStep
      <3>2. ASSUME NEW g \in {0, 2}, WriteHunk(g) PROVE DiffInv'
        BY <3>2, HunkStep
      <3>3. ASSUME NEW k \in Removed \cup Added \cup Kept, WriteBody(k) PROVE DiffInv'
        BY <3>3, BodyStep
      <3>4. ASSUME NEW k \in {"noeol", "@@bad"}, WriteNote(k) PROVE DiffInv'
        BY <3>4, NoteStep
      <3>5. CASE ShowDiff
        BY <3>5, ShowStep
      <3>6. ASSUME NEW r \in Renderers, NEW d \in 1..2, NEW c \in DiffCols, RenderLookup(r, d, c) PROVE DiffInv'
        BY <3>6, LookupStep
      <3>7. ASSUME NEW r \in Renderers, RenderPut(r) PROVE DiffInv'
        BY <3>7, PutStep
      <3>8. CASE DbDone
        BY <3>8, <2>1 DEF DbDone
      <3> QED BY <2>2, <3>1, <3>2, <3>3, <3>4, <3>5, <3>6, <3>7, <3>8 DEF DbNext
    <2> QED BY <2>1, <2>2
  <1>3. DiffInv => DiffFaithful
    BY DiffHolds
  <1> QED BY <1>1, <1>2, <1>3, PTL DEF DbSpec
=============================================================================
