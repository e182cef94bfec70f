--------------------------- MODULE PlatformProofs ---------------------------
(***************************************************************************)
(* Theorems about what a session stands on: configuration and start-up,    *)
(* the database connection, skills, the logger, trace spans and reports,   *)
(* for every configuration, every number of goroutines and every limit.    *)
(***************************************************************************)
EXTENDS Startup, DbConn, Skills, Logger, TraceSpans, Report, SequenceTheorems, FiniteSetTheorems, TLAPS

(* A set of naturals that is not empty has a least element.                *)
LEMMA LeastNat ==
    ASSUME NEW T, T \subseteq Nat, T # {}
    PROVE  \E m \in T : \A k \in T : m <= k
  <1>1. PICK m \in T : \A k \in T : ~(<<k, m>> \in OpToRel(<, Nat))
    BY NatLessThanWellFounded, WFMin
  <1>2. \A k \in T : ~(k < m)
    BY <1>1 DEF OpToRel
  <1> QED BY <1>2

-----------------------------------------------------------------------------
(* The configuration.                                                      *)

(* The layers are applied one after another: the equation of the loader's  *)
(* loop has a solution, and n steps of it are                              *)
Applies(w, o, n, g) ==
    /\ g[0] = Default
    /\ \A i \in 1..n : g[i] = applyLayer(g[i-1], layerOf(w, o, Chain[i]), Chain[i])

LEMMA ChainLength == Len(Chain) = 7 /\ DOMAIN Chain = 1..7 /\ Rank = Chain
  BY DEF Chain, Rank

LEMMA ApplyExists ==
    ASSUME NEW w, NEW o, NEW N \in Nat
    PROVE  \E g : g = [i \in 0..N |-> g[i]] /\ Applies(w, o, N, g)
  <1> DEFINE T == {m \in 0..N : ~\E g : g = [i \in 0..m |-> g[i]] /\ Applies(w, o, m, g)}
  <1>1. T = {}
    <2> SUFFICES ASSUME T # {} PROVE FALSE
      OBVIOUS
    <2>1. T \subseteq Nat
      OBVIOUS
    <2>2. PICK m \in T : \A k \in T : m <= k
      BY <2>1, LeastNat
    <2>3. m \in 0..N /\ m \in Nat
      OBVIOUS
    <2>4. CASE m = 0
      <3>1. PICK g : g = [i \in 0..0 |-> Default]
        OBVIOUS
      <3>2. g = [i \in 0..0 |-> g[i]] /\ g[0] = Default
        BY <3>1
      <3>3. Applies(w, o, 0, g)
        BY <3>2 DEF Applies
      <3> QED BY <2>4, <3>2, <3>3
    <2>5. CASE m # 0
      <3>1. m - 1 \in 0..N /\ m - 1 \notin T /\ m - 1 \in Nat
        BY <2>2, <2>3, <2>5
      <3>2. PICK g : g = [i \in 0..(m - 1) |-> g[i]] /\ Applies(w, o, m - 1, g)
        BY <3>1
      <3>3. PICK x : x = applyLayer(g[m-1], layerOf(w, o, Chain[m]), Chain[m])
        OBVIOUS
      <3>4. PICK h : h = [i \in 0..m |-> IF i = m THEN x ELSE g[i]]
        OBVIOUS
      <3>5. h[m] = x /\ (\A i \in 0..(m - 1) : h[i] = g[i]) /\ h = [i \in 0..m |-> h[i]]
        BY <2>3, <2>5, <3>1, <3>4
      <3>6. Applies(w, o, m, h)
        <4>1. h[0] = Default
          <5>1. 0 \in 0..(m - 1)
            BY <3>1
          <5> QED BY <3>2, <3>5, <5>1 DEF Applies
        <4>2. ASSUME NEW i \in 1..m
              PROVE  h[i] = applyLayer(h[i-1], layerOf(w, o, Chain[i]), Chain[i])
          <5>1. i - 1 \in 0..(m - 1)
            BY <2>3
          <5>2. CASE i = m
            BY <3>3, <3>5, <5>1, <5>2
          <5>3. CASE i # m
            <6>1. i \in 1..(m - 1) /\ i \in 0..(m - 1)
              BY <2>3, <5>3
            <6> QED BY <3>2, <3>5, <5>1, <6>1 DEF Applies
          <5> QED BY <5>2, <5>3
        <4> QED BY <4>1, <4>2, Zenon DEF Applies
      <3> QED BY <2>3, <3>5, <3>6
    <2> QED BY <2>4, <2>5
  <1>2. N \in 0..N
    OBVIOUS
  <1> QED BY <1>1, <1>2

(* What the strongest of the first n layers that set a field leaves.       *)
Setters(w, o, n, f) ==
    {i \in 1..n : LET content == layerOf(w, o, Chain[i])
                  IN  content.kind = "sets" /\ f \in DOMAIN content.fields}
Chosen(c, w, o, n, f) ==
    /\ Setters(w, o, n, f) = {} => c.val[f] = CfDefault[f] /\ c.src[f] = "default"
    /\ \A t \in Setters(w, o, n, f) : (\A j \in Setters(w, o, n, f) : j <= t) =>
           /\ c.src[f] = Chain[t]
           /\ c.val[f] = layerOf(w, o, Chain[t]).fields[f]
Shape(c) ==
    \/ \E v, u, s : c = [state |-> "ok", val |-> v, src |-> [f \in Fields |-> u[f]], sec |-> s, errs |-> {}]
    \/ \E why : c = Failed(why)
Readable(w, o, n) == \A i \in 1..n : layerOf(w, o, Chain[i]) # Malformed
Traced(c, w, o, n) ==
    /\ Shape(c)
    /\ c.state = "ok" <=> Readable(w, o, n)
    /\ c.state = "ok" => \A f \in Fields : Chosen(c, w, o, n, f)

LEMMA ShapeFacts ==
    ASSUME NEW c, Shape(c)
    PROVE  c.state \in {"ok", "error"} /\ c.errs = {}
  BY DEF Shape, Failed

LEMMA LayersTyped ==
    ASSUME NEW w, NEW o, NEW i \in 1..7,
           \A l \in {"policy", "user", "project", "local", "env"} : IsLayer(w[l]),
           IsLayer(o.settings), IsLayer(o.overrides)
    PROVE  IsLayer(layerOf(w, o, Chain[i]))
  <1>1. Chain[i] \in {"policy", "user", "project", "local", "env", "flag-settings", "cli"}
    BY DEF Chain
  <1>2. IsLayer(Absent)
    BY DEF IsLayer
  <1> QED BY <1>1, <1>2 DEF layerOf, reads

LEMMA LayerStep ==
    ASSUME NEW c, NEW w, NEW o, NEW n \in 1..7, Traced(c, w, o, n - 1),
           IsLayer(layerOf(w, o, Chain[n]))
    PROVE  Traced(applyLayer(c, layerOf(w, o, Chain[n]), Chain[n]), w, o, n)
  <1>1. PICK b, l, e : b = layerOf(w, o, Chain[n]) /\ l = Chain[n] /\ e = applyLayer(c, b, l)
    OBVIOUS
  <1>6. Readable(w, o, n) <=> Readable(w, o, n - 1) /\ b # Malformed
    BY <1>1 DEF Readable
  <1>2. CASE c.state = "error"
    <2>1. e = c
      BY <1>1, <1>2 DEF applyLayer
    <2>2. Shape(e) /\ e.state = "error" /\ "error" # "ok"
      BY <1>2, <2>1 DEF Traced
    <2>5. ~Readable(w, o, n - 1)
      BY <1>2, <2>2, Zenon DEF Traced
    <2>3. Traced(e, w, o, n)
      BY <1>6, <2>2, <2>5, Zenon DEF Traced
    <2>4. e = applyLayer(c, layerOf(w, o, Chain[n]), Chain[n])
      BY <1>1, Zenon
    <2> QED BY <2>3, <2>4, Zenon
  <1>3. CASE c.state # "error" /\ b = Malformed
    <2>1. e = Failed(l)
      BY <1>1, <1>3 DEF applyLayer
    <2>2. e.state = "error" /\ "error" # "ok"
      BY <2>1 DEF Failed
    <2>3. Traced(e, w, o, n)
      BY <1>3, <1>6, <2>1, <2>2, Zenon DEF Traced, Shape
    <2> QED BY <1>1, <2>3, Zenon
  <1>4. CASE c.state # "error" /\ b = Absent
    <2>1. e = c /\ b # Malformed /\ b.kind # "sets"
      BY <1>1, <1>4 DEF applyLayer, Absent, Malformed
    <2>2. \A f : Setters(w, o, n, f) = Setters(w, o, n - 1, f)
      BY <1>1, <2>1 DEF Setters
    <2> QED BY <1>1, <1>6, <2>1, <2>2 DEF Traced, Chosen
  <1>5. CASE c.state # "error" /\ b # Malformed /\ b # Absent
    <2>1. e = mergeBytes(c, b, l) /\ b.kind = "sets"
      BY <1>1, <1>5 DEF applyLayer, IsLayer
    <2>2. c.state = "ok"
      BY <1>5, ShapeFacts DEF Traced
    <2>3. PICK v, u, s : c = [state |-> "ok", val |-> v, src |-> [f \in Fields |-> u[f]], sec |-> s, errs |-> {}]
      BY <2>2 DEF Traced, Shape, Failed
    <2>4. PICK x, y, z : /\ x = [f \in Fields |-> IF f \in DOMAIN b.fields THEN b.fields[f] ELSE v[f]]
                         /\ y = [f \in Fields |-> IF f \in DOMAIN b.fields THEN l ELSE u[f]]
                         /\ z = [q \in Sections |-> IF q \in {CfSection[f] : f \in DOMAIN b.fields} THEN l ELSE s[q]]
      OBVIOUS
    <2>5. e = [state |-> "ok", val |-> x, src |-> y, sec |-> z, errs |-> {}]
      BY <2>1, <2>3, <2>4 DEF mergeBytes
    <2>6. \A f \in Fields : /\ e.val[f] = IF f \in DOMAIN b.fields THEN b.fields[f] ELSE c.val[f]
                            /\ e.src[f] = IF f \in DOMAIN b.fields THEN l ELSE c.src[f]
      BY <2>3, <2>4, <2>5
    <2>7. y = [f \in Fields |-> y[f]]
      BY <2>4
    <2>8. Shape(e)
      BY <2>5, <2>7 DEF Shape
    <2>9. ASSUME NEW f \in Fields PROVE Chosen(e, w, o, n, f)
      <3>1. CASE f \in DOMAIN b.fields
        <4>1. n \in Setters(w, o, n, f)
          BY <1>1, <2>1, <3>1 DEF Setters
        <4>2. ASSUME NEW t \in Setters(w, o, n, f), \A j \in Setters(w, o, n, f) : j <= t PROVE t = n
          BY <4>1, <4>2 DEF Setters
        <4>3. e.src[f] = l /\ e.val[f] = b.fields[f]
          BY <2>6, <3>1
        <4> QED BY <1>1, <4>1, <4>2, <4>3 DEF Chosen
      <3>2. CASE f \notin DOMAIN b.fields
        <4>1. Setters(w, o, n, f) = Setters(w, o, n - 1, f)
          BY <1>1, <3>2 DEF Setters
        <4>2. e.src[f] = c.src[f] /\ e.val[f] = c.val[f]
          BY <2>6, <3>2
        <4>3. Chosen(c, w, o, n - 1, f)
          BY <2>2 DEF Traced
        <4> QED BY <4>1, <4>2, <4>3 DEF Chosen
      <3> QED BY <3>1, <3>2
    <2>10. e.state = "ok" /\ Readable(w, o, n)
      BY <1>5, <1>6, <2>2, <2>5 DEF Traced
    <2> QED BY <1>1, <2>8, <2>9, <2>10 DEF Traced
  <1> QED BY <1>2, <1>3, <1>4, <1>5

(* What LoadWith returns: the traced configuration if it is valid, or an   *)
(* error that carries the complaints about it.                             *)
Complaint(r, c) ==
    \/ \E why : r = Failed(why)
    \/ r = c /\ c.state = "ok"
    \/ r = [Failed("validation") EXCEPT !.errs = Validate(c)] /\ c.state = "ok"

LEMMA LoadFacts ==
    ASSUME NEW w, NEW o,
           \A l \in {"policy", "user", "project", "local", "env"} : IsLayer(w[l]),
           IsLayer(o.settings), IsLayer(o.overrides)
    PROVE  \E c : /\ Traced(c, w, o, 7) /\ Complaint(LoadWith(w, o), c)
                  /\ "invalid" \notin o.sources =>
                        (LoadWith(w, o).state = "ok" <=> c.state = "ok" /\ Validate(c) = {})
                  /\ LoadWith(w, o).state = "ok" => LoadWith(w, o) = c
  <1> DEFINE g == CHOOSE g : g = [i \in 0..Len(Chain) |-> IF i = 0 THEN Default ELSE applyLayer(g[i-1], layerOf(w, o, Chain[i]), Chain[i])]
             c == g[Len(Chain)]
  <1>1. \E h : h = [i \in 0..7 |-> IF i = 0 THEN Default ELSE applyLayer(h[i-1], layerOf(w, o, Chain[i]), Chain[i])]
    <2>1. PICK h : h = [i \in 0..7 |-> h[i]] /\ Applies(w, o, 7, h)
      BY ApplyExists
    <2>2. \A i \in 0..7 : h[i] = IF i = 0 THEN Default ELSE applyLayer(h[i-1], layerOf(w, o, Chain[i]), Chain[i])
      BY <2>1 DEF Applies
    <2>3. [i \in 0..7 |-> h[i]]
            = [i \in 0..7 |-> IF i = 0 THEN Default ELSE applyLayer(h[i-1], layerOf(w, o, Chain[i]), Chain[i])]
      BY <2>2
    <2> QED BY <2>1, <2>3
  <1>2. g = [i \in 0..Len(Chain) |-> IF i = 0 THEN Default ELSE applyLayer(g[i-1], layerOf(w, o, Chain[i]), Chain[i])]
    BY <1>1, ChainLength
  <1>3. LoadWith(w, o) = IF "invalid" \in o.sources THEN Failed("setting-sources")
                         ELSE IF c.state = "error" THEN c
                         ELSE IF Validate(c) = {} THEN c
                         ELSE [Failed("validation") EXCEPT !.errs = Validate(c)]
    BY Zenon DEF LoadWith
  <1> HIDE DEF g
  <1>4. g[0] = Default /\ \A i \in 1..7 : g[i] = applyLayer(g[i-1], layerOf(w, o, Chain[i]), Chain[i])
    BY <1>2, ChainLength
  <1>5. Traced(Default, w, o, 0)
    <2>1. \A f : Setters(w, o, 0, f) = {}
      BY DEF Setters
    <2>2. Shape(Default)
      <3>1. PICK u : u = [f \in Fields |-> "default"]
        OBVIOUS
      <3>2. u = [f \in Fields |-> u[f]]
        BY <3>1
      <3> QED BY <3>1, <3>2 DEF Default, Shape
    <2>3. \A f \in Fields : Default.val[f] = CfDefault[f] /\ Default.src[f] = "default"
      BY DEF Default
    <2>4. Default.state = "ok" /\ Readable(w, o, 0)
      BY DEF Default, Readable
    <2> QED BY <2>1, <2>2, <2>3, <2>4 DEF Traced, Chosen
  <1>6. \A i \in 1..7 : Traced(g[i-1], w, o, i - 1) => Traced(g[i], w, o, i)
    BY <1>4, LayersTyped, LayerStep
  <1>7. Traced(g[7], w, o, 7)
    <2>1. Traced(g[0], w, o, 0)
      BY <1>4, <1>5
    <2>2. Traced(g[1], w, o, 1)
      BY <1>6, <2>1
    <2>3. Traced(g[2], w, o, 2)
      BY <1>6, <2>2
    <2>4. Traced(g[3], w, o, 3)
      BY <1>6, <2>3
    <2>5. Traced(g[4], w, o, 4)
      BY <1>6, <2>4
    <2>6. Traced(g[5], w, o, 5)
      BY <1>6, <2>5
    <2>7. Traced(g[6], w, o, 6)
      BY <1>6, <2>6
    <2> QED BY <1>6, <2>7
  <1>10. Traced(c, w, o, 7)
    BY <1>7, ChainLength
  <1> HIDE DEF c
  <1>8. c.state \in {"ok", "error"}
    BY <1>10, ShapeFacts DEF Traced
  <1>9. c.state = "error" => \E why : c = Failed(why)
    <2>1. Shape(c) /\ "ok" # "error"
      BY <1>10 DEF Traced
    <2>2. ASSUME NEW v, NEW u, NEW s, c = [state |-> "ok", val |-> v, src |-> [f \in Fields |-> u[f]], sec |-> s, errs |-> {}]
          PROVE  c.state = "ok"
      BY <2>2
    <2> QED BY <2>1, <2>2, Zenon DEF Shape
  <1>11. Complaint(LoadWith(w, o), c)
    BY <1>3, <1>8, <1>9 DEF Complaint
  <1>12. \A why, x : Failed(why).state # "ok" /\ [Failed(why) EXCEPT !.errs = x].state # "ok"
    BY DEF Failed
  <1>13. PICK r : r = LoadWith(w, o)
    OBVIOUS
  <1>14. "invalid" \notin o.sources => (r.state = "ok" <=> c.state = "ok" /\ Validate(c) = {})
    BY <1>3, <1>8, <1>12, <1>13
  <1>15. r.state = "ok" => r = c
    BY <1>3, <1>8, <1>12, <1>13
  <1> QED BY <1>10, <1>11, <1>13, <1>14, <1>15

(* The index of the strongest layer that sets a field.                     *)
LEMMA StrongestSetter ==
    ASSUME NEW w, NEW o, NEW f, Setters(w, o, 7, f) # {}
    PROVE  /\ Max(Setters(w, o, 7, f)) \in Setters(w, o, 7, f)
           /\ \A j \in Setters(w, o, 7, f) : j <= Max(Setters(w, o, 7, f))
  <1>1. PICK S : S = Setters(w, o, 7, f)
    OBVIOUS
  <1>2. S \subseteq 1..7 /\ S # {}
    BY <1>1 DEF Setters
  <1>3. PICK R : R = {8 - i : i \in S}
    OBVIOUS
  <1>4. R \subseteq Nat /\ R # {}
    <2>1. \A i \in S : 8 - i \in Nat
      BY <1>2
    <2>2. PICK i : i \in S
      BY <1>2
    <2>3. 8 - i \in R
      BY <1>3, <2>2
    <2> QED BY <1>3, <2>1, <2>3
  <1>5. PICK m \in R : \A k \in R : m <= k
    BY <1>4, LeastNat
  <1>6. PICK t \in S : m = 8 - t
    BY <1>3
  <1>7. \A j \in S : j <= t
    <2> TAKE j \in S
    <2>1. 8 - j \in R
      BY <1>3
    <2>2. 8 - t <= 8 - j /\ t \in 1..7 /\ j \in 1..7
      BY <1>2, <1>5, <1>6, <2>1
    <2> QED BY <2>2
  <1>8. \E i \in S : \A j \in S : i >= j
    BY <1>2, <1>6, <1>7
  <1>9. Max(S) \in S /\ \A j \in S : Max(S) >= j
    BY <1>8 DEF Max
  <1> QED BY <1>1, <1>2, <1>9

(* The settings of a load are traceable, whatever the layers hold.         *)
CfInv ==
    \/ loaded = NotLoaded
    \/ world \in CfWorlds /\ options \in CfOptions /\ loaded = LoadWith(world, options)

LEMMA Strongest ==
    ASSUME NEW c, NEW w, NEW o, NEW f \in Fields, Chosen(c, w, o, 7, f)
    PROVE  c.src[f] = Setter(w, o, f) /\ c.val[f] = Setting(w, o, f)
  <1>1. Writers(w, o, f) = Setters(w, o, 7, f)
    BY ChainLength DEF Writers, Setters
  <1>2. CASE Setters(w, o, 7, f) = {}
    BY <1>1, <1>2 DEF Chosen, Setter, Setting
  <1>3. CASE Setters(w, o, 7, f) # {}
    <2>1. PICK top : top = Max(Setters(w, o, 7, f))
      OBVIOUS
    <2>2. top \in Setters(w, o, 7, f) /\ \A j \in Setters(w, o, 7, f) : j <= top
      BY <1>3, <2>1, StrongestSetter
    <2>3. c.src[f] = Chain[top] /\ c.val[f] = layerOf(w, o, Chain[top]).fields[f]
      BY <2>2, Zenon DEF Chosen
    <2>4. Setter(w, o, f) = Chain[top]
      BY <1>1, <1>3, <2>1, ChainLength DEF Setter
    <2> QED BY <1>1, <1>3, <2>3, <2>4 DEF Setting
  <1> QED BY <1>2, <1>3

(* A field that some layer sets does not name the defaults as its source. *)
LEMMA SetterNamed ==
    ASSUME NEW w, NEW o, NEW f, Writers(w, o, f) # {}
    PROVE  Setter(w, o, f) # "default"
  <1>1. Writers(w, o, f) = Setters(w, o, 7, f)
    BY ChainLength DEF Writers, Setters
  <1>2. PICK top : top = Max(Setters(w, o, 7, f))
    OBVIOUS
  <1>3. top \in 1..7
    BY <1>1, <1>2, StrongestSetter DEF Setters
  <1>4. Setter(w, o, f) = Chain[top]
    BY <1>1, <1>2, ChainLength DEF Setter
  <1> QED BY <1>3, <1>4 DEF Chain

LEMMA LoadTraceable == CfInv => SettingsTraceable
  <1> SUFFICES ASSUME CfInv PROVE SettingsTraceable
    OBVIOUS
  <1>1. CASE loaded = NotLoaded
    <2>1. loaded.state = "none"
      BY <1>1 DEF NotLoaded
    <2> QED BY <2>1 DEF SettingsTraceable, Precedence, ErrorsNameTheirSource
  <1>2. CASE world \in CfWorlds /\ options \in CfOptions /\ loaded = LoadWith(world, options)
    <2>1. PICK c : /\ Traced(c, world, options, 7) /\ Complaint(loaded, c)
                   /\ loaded.state = "ok" => loaded = c
      BY <1>2, ConfigAssumption, LoadFacts
    <2>2. ASSUME NEW f \in Fields, c.state = "ok"
          PROVE  c.src[f] = Setter(world, options, f) /\ c.val[f] = Setting(world, options, f)
      BY <2>1, <2>2, Strongest DEF Traced
    <2>3. Precedence
      BY <2>1, <2>2 DEF Precedence
    <2>4. ErrorsNameTheirSource
      <3>1. SUFFICES ASSUME loaded.state = "error", NEW x \in loaded.errs
                     PROVE  x[3] = Setter(world, options, IF x[1] = "connections" THEN "Connections" ELSE x[2])
        BY Zenon DEF ErrorsNameTheirSource
      <3>2. c.state = "ok" /\ x \in Validate(c)
        <4>1. ASSUME NEW why, loaded = Failed(why) PROVE FALSE
          BY <3>1, <4>1 DEF Failed
        <4>2. ASSUME c.state = "ok", loaded = c PROVE FALSE
          BY <3>1, <4>2
        <4>3. ASSUME loaded = [Failed("validation") EXCEPT !.errs = Validate(c)] PROVE x \in Validate(c)
          BY <3>1, <4>3 DEF Failed
        <4> QED BY <2>1, <4>1, <4>2, <4>3, Zenon DEF Complaint
      <3>3. CASE \E f \in {"ToolTimeout", "TotalTimeout"} : x = <<"min", f, blame(c, f)>> /\ c.val[f] < 1
        <4>1. PICK f \in {"ToolTimeout", "TotalTimeout"} : x = <<"min", f, blame(c, f)>> /\ c.val[f] < 1
          BY <3>3
        <4>2. f \in Fields /\ CfDefault[f] \in Nat \ {0}
          BY ConfigAssumption
        <4>3. Writers(world, options, f) # {}
          BY <2>2, <3>2, <4>1, <4>2 DEF Setting
        <4>4. c.src[f] = Setter(world, options, f)
          BY <2>2, <3>2, <4>2
        <4>5. c.src[f] # "default"
          BY <4>3, <4>4, SetterNamed
        <4> QED BY <4>1, <4>4, <4>5 DEF blame
      <3>4. CASE x = <<"ltefield", "ToolTimeout", c.src["ToolTimeout"]>>
        BY <2>2, <3>2, <3>4, ConfigAssumption
      <3>5. CASE \E e : x = <<"connections", e, c.src["Connections"]>>
        BY <2>2, <3>2, <3>5, ConfigAssumption
      <3> QED BY <3>2, <3>3, <3>4, <3>5 DEF Validate
    <2> QED BY <2>3, <2>4 DEF SettingsTraceable
  <1> QED BY <1>1, <1>2 DEF CfInv

-----------------------------------------------------------------------------
(* The start of a session.                                                 *)

Asked == command.cmd = "root" => command.version = "no"
StInv ==
    /\ CfInv
    /\ \A l \in {"policy", "user", "project", "local", "env"} : IsLayer(world[l])
    /\ stPc # "main" => command \in StCommands
    /\ stPc \in {"main", "load", "run"} => session = NoSession
    /\ stPc = "load" => ~shouldSkipConfigLoad(command)
    /\ stPc = "run" /\ ~shouldSkipConfigLoad(command) => loaded.state = "ok"
    /\ stPc = "session" => Interactive /\ Asked
    /\ DiagnosticsSurviveConfig
    /\ SessionFollowsConfig

(* What a load makes of a readable configuration.                          *)
LEMMA LoadOutcome ==
    ASSUME NEW w, NEW o,
           \A l \in {"policy", "user", "project", "local", "env"} : IsLayer(w[l]),
           IsLayer(o.settings), IsLayer(o.overrides), "invalid" \notin o.sources
    PROVE  \E c : /\ LoadWith(w, o).state = "ok"
                        <=> Readable(w, o, 7) /\ Validate(c) = {}
                  /\ LoadWith(w, o).state \in {"ok", "error"}
                  /\ LoadWith(w, o).state = "ok" => LoadWith(w, o) = c
                  /\ Readable(w, o, 7) => \A f \in Fields : c.val[f] = Setting(w, o, f)
  <1>1. PICK c : /\ Traced(c, w, o, 7) /\ Complaint(LoadWith(w, o), c)
                 /\ LoadWith(w, o).state = "ok" <=> c.state = "ok" /\ Validate(c) = {}
                 /\ LoadWith(w, o).state = "ok" => LoadWith(w, o) = c
    BY LoadFacts
  <1>2. \A why, x : Failed(why).state = "error" /\ [Failed(why) EXCEPT !.errs = x].state = "error"
    BY DEF Failed
  <1>3. PICK r : r = LoadWith(w, o)
    OBVIOUS
  <1>4. r.state \in {"ok", "error"}
    BY <1>1, <1>2, <1>3 DEF Complaint
  <1>5. Readable(w, o, 7) => \A f \in Fields : c.val[f] = Setting(w, o, f)
    BY <1>1, Strongest DEF Traced
  <1> QED BY <1>1, <1>3, <1>4, <1>5, Zenon DEF Traced

(* Validation looks at the values of three fields.                         *)
LEMMA ValidateValues ==
    ASSUME NEW c, NEW d, \A f \in Fields : c.val[f] = d.val[f]
    PROVE  Validate(c) = {} <=> Validate(d) = {}
  <1>1. /\ c.val["ToolTimeout"] = d.val["ToolTimeout"] /\ c.val["TotalTimeout"] = d.val["TotalTimeout"]
        /\ c.val["Connections"] = d.val["Connections"]
    BY ConfigAssumption
  <1>2. ASSUME NEW e
        PROVE  Validate(e) = {} <=>
                  /\ \A f \in {"ToolTimeout", "TotalTimeout"} : ~(e.val[f] < 1)
                  /\ ~(e.val["ToolTimeout"] > 0 /\ e.val["TotalTimeout"] > 0
                        /\ e.val["ToolTimeout"] > e.val["TotalTimeout"])
                  /\ validateConnections(e.val["Connections"]) = {}
    <2>1. PICK A, B, C :
             /\ A = {<<"min", f, blame(e, f)>> : f \in {f \in {"ToolTimeout", "TotalTimeout"} : e.val[f] < 1}}
             /\ B = IF e.val["ToolTimeout"] > 0 /\ e.val["TotalTimeout"] > 0
                        /\ e.val["ToolTimeout"] > e.val["TotalTimeout"]
                    THEN {<<"ltefield", "ToolTimeout", e.src["ToolTimeout"]>>} ELSE {}
             /\ C = {<<"connections", x, e.src["Connections"]>> : x \in validateConnections(e.val["Connections"])}
      OBVIOUS
    <2>2. Validate(e) = A \cup B \cup C
      BY <2>1 DEF Validate
    <2>3. A = {} <=> \A f \in {"ToolTimeout", "TotalTimeout"} : ~(e.val[f] < 1)
      BY <2>1
    <2>4. B = {} <=> ~(e.val["ToolTimeout"] > 0 /\ e.val["TotalTimeout"] > 0
                       /\ e.val["ToolTimeout"] > e.val["TotalTimeout"])
      BY <2>1
    <2>5. C = {} <=> validateConnections(e.val["Connections"]) = {}
      BY <2>1
    <2> QED BY <2>2, <2>3, <2>4, <2>5
  <1> QED BY <1>1, <1>2

LEMMA NoOptionsTyped ==
    IsLayer(NoOptions.settings) /\ IsLayer(NoOptions.overrides) /\ "invalid" \notin NoOptions.sources
  BY DEF NoOptions, IsLayer

(* A file is accepted exactly when a session could start from it alone.    *)
LEMMA FileVerdict ==
    ASSUME NEW file, IsLayer(file), file # Absent
    PROVE  ValidateFile(file) <=> reload(OnlyUser(file)).state = "ok"
  <1>1. PICK w : w = OnlyUser(file)
    OBVIOUS
  <1>2. \A l \in {"policy", "user", "project", "local", "env"} :
            w[l] = IF l = "user" THEN file ELSE Absent
    BY <1>1 DEF OnlyUser
  <1>3. \A l \in {"policy", "user", "project", "local", "env"} : IsLayer(w[l])
    BY <1>2 DEF IsLayer
  <1>4. PICK c : /\ LoadWith(w, NoOptions).state = "ok"
                       <=> Readable(w, NoOptions, 7) /\ Validate(c) = {}
                 /\ Readable(w, NoOptions, 7) =>
                       \A f \in Fields : c.val[f] = Setting(w, NoOptions, f)
    BY <1>3, NoOptionsTyped, LoadOutcome
  <1>5. ASSUME NEW i \in 1..7
        PROVE  layerOf(w, NoOptions, Chain[i]) = IF i = 2 THEN file ELSE Absent
    <2>1. /\ NoOptions.settings = Absent /\ NoOptions.overrides = Absent
          /\ NoOptions.sources = {} /\ NoOptions.cwd = FALSE
      BY DEF NoOptions
    <2>2. /\ Chain[1] = "policy" /\ Chain[2] = "user" /\ Chain[3] = "project" /\ Chain[4] = "local"
          /\ Chain[5] = "env" /\ Chain[6] = "flag-settings" /\ Chain[7] = "cli"
      BY DEF Chain
    <2>3. i \in {1, 2, 3, 4, 5, 6, 7}
      OBVIOUS
    <2> QED BY <1>2, <2>1, <2>2, <2>3 DEF layerOf, reads
  <1>6. Readable(w, NoOptions, 7) <=> file # Malformed
    <2>1. Absent # Malformed
      BY DEF Absent, Malformed
    <2> QED BY <1>5, <2>1 DEF Readable
  <1>7. PICK e : e = applyLayer(Default, file, "file")
    OBVIOUS
  <1>8. CASE file = Malformed
    <2>1. e.state # "ok"
      BY <1>7, <1>8 DEF applyLayer, Default, Failed
    <2> QED BY <1>1, <1>4, <1>6, <1>7, <1>8, <2>1 DEF ValidateFile, reload
  <1>9. CASE file # Malformed
    <2>1. e = mergeBytes(Default, file, "file") /\ file.kind = "sets"
      BY <1>7, <1>9 DEF applyLayer, IsLayer, Default
    <2>2. e.state = "ok" /\ \A f \in Fields :
             e.val[f] = IF f \in DOMAIN file.fields THEN file.fields[f] ELSE CfDefault[f]
      BY <2>1 DEF mergeBytes, Default
    <2>3. ASSUME NEW f \in Fields PROVE c.val[f] = e.val[f]
      <3>1. Absent.kind # "sets"
        BY DEF Absent
      <3>2. Writers(w, NoOptions, f) = IF f \in DOMAIN file.fields THEN {2} ELSE {}
        BY <1>5, <2>1, <3>1, ChainLength DEF Writers
      <3>3. CASE f \notin DOMAIN file.fields
        BY <1>4, <1>6, <1>9, <2>2, <3>2, <3>3 DEF Setting
      <3>4. CASE f \in DOMAIN file.fields
        <4>1. PICK i : i = Max({2})
          OBVIOUS
        <4>2. i = 2
          BY <4>1 DEF Max
        <4>3. Setter(w, NoOptions, f) = Chain[2]
          BY <3>2, <3>4, <4>1, <4>2, ChainLength DEF Setter
        <4>4. Setting(w, NoOptions, f) = file.fields[f]
          BY <1>5, <3>2, <3>4, <4>3 DEF Setting
        <4> QED BY <1>4, <1>6, <1>9, <2>2, <3>4, <4>4
      <3> QED BY <3>3, <3>4
    <2>4. Validate(c) = {} <=> Validate(e) = {}
      BY <2>3, ValidateValues
    <2> QED BY <1>1, <1>4, <1>6, <1>7, <1>9, <2>2, <2>4 DEF ValidateFile, reload
  <1> QED BY <1>8, <1>9

(* The session's configuration against the one the command loaded.         *)
LEMMA SessionBuilt ==
    ASSUME StInv, world \in CfWorlds, options \in CfOptions,
           loaded = LoadWith(world, options), loaded.state = "ok",
           NEW s, s = newChatModel(reload(world))
    PROVE  /\ s.provider = "unavailable" => ~SameLayers
           /\ s.provider # "unavailable" =>
                 /\ \A i \in DOMAIN Rank : layerOf(world, NoOptions, Rank[i]) # Malformed
                 /\ s.model = Setting(world, NoOptions, "Model")
                 /\ SameLayers => s.model = loaded.val["Model"]
  <1>1. PICK d : /\ reload(world).state = "ok"
                       <=> Readable(world, NoOptions, 7) /\ Validate(d) = {}
                 /\ reload(world).state \in {"ok", "error"}
                 /\ reload(world).state = "ok" => reload(world) = d
                 /\ Readable(world, NoOptions, 7) =>
                       \A f \in Fields : d.val[f] = Setting(world, NoOptions, f)
    BY NoOptionsTyped, LoadOutcome DEF StInv, reload
  <1>2. "invalid" \notin options.sources
    <2>1. ASSUME "invalid" \in options.sources PROVE loaded.state = "error"
      BY <2>1 DEF LoadWith, Failed
    <2> QED BY <2>1
  <1>3. PICK c : /\ loaded.state = "ok" <=> Readable(world, options, 7) /\ Validate(c) = {}
                 /\ loaded = c
                 /\ Readable(world, options, 7) =>
                       \A f \in Fields : c.val[f] = Setting(world, options, f)
    BY <1>2, ConfigAssumption, LoadOutcome
  <1>4. ASSUME SameLayers PROVE reload(world).state = "ok" /\ d.val["Model"] = c.val["Model"]
    <2>1. Readable(world, NoOptions, 7)
      BY <1>3, <1>4, ChainLength DEF SameLayers, Readable
    <2>2. ASSUME NEW f \in Fields PROVE d.val[f] = c.val[f]
      <3>1. Writers(world, NoOptions, f) = Writers(world, options, f)
        BY <1>4, ChainLength DEF Writers, SameLayers
      <3>2. Setter(world, NoOptions, f) = Setter(world, options, f)
        BY <3>1, Zenon DEF Setter
      <3>3. CASE Writers(world, options, f) = {}
        BY <1>1, <1>3, <2>1, <3>1, <3>3 DEF Setting
      <3>4. CASE Writers(world, options, f) # {}
        <4>1. PICK i : i = Max(Setters(world, options, 7, f))
          OBVIOUS
        <4>2. Writers(world, options, f) = Setters(world, options, 7, f)
          BY ChainLength DEF Writers, Setters
        <4>3. i \in DOMAIN Rank /\ Setter(world, options, f) = Rank[i]
          <5>1. i \in Setters(world, options, 7, f)
            BY <3>4, <4>1, <4>2, StrongestSetter
          <5>2. Setter(world, options, f) = Rank[i]
            BY <3>4, <4>1, <4>2, Zenon DEF Setter
          <5> QED BY <5>1, <5>2, ChainLength DEF Setters
        <4>4. layerOf(world, NoOptions, Rank[i]) = layerOf(world, options, Rank[i])
          BY <1>4, <4>3 DEF SameLayers
        <4> QED BY <1>1, <1>3, <2>1, <3>1, <3>2, <3>4, <4>3, <4>4 DEF Setting
      <3> QED BY <3>3, <3>4
    <2>3. Validate(d) = {}
      BY <1>3, <2>2, ValidateValues
    <2> QED BY <1>1, <2>1, <2>2, <2>3, StartupAssumption
  <1>5. CASE reload(world).state = "error"
    <2>1. s.provider = "unavailable"
      BY <1>5 DEF newChatModel, NoSession
    <2> QED BY <1>4, <1>5, <2>1
  <1>6. CASE reload(world).state = "ok"
    <2>1. s.provider # "unavailable" /\ s.model = d.val["Model"]
      BY <1>1, <1>6 DEF newChatModel
    <2>2. \A i \in DOMAIN Rank : layerOf(world, NoOptions, Rank[i]) # Malformed
      BY <1>1, <1>6, ChainLength DEF Readable
    <2> QED BY <1>1, <1>3, <1>4, <1>6, <2>1, <2>2, StartupAssumption
  <1> QED BY <1>1, <1>5, <1>6

LEMMA StInitial == StInit => StInv
  <1> SUFFICES ASSUME StInit PROVE StInv
    OBVIOUS
  <1>1. \A l \in {"policy", "user", "project", "local", "env"} : IsLayer(world[l])
    BY DEF StInit, CfInit, IsLayer
  <1>2. stPc = "main" /\ session = NoSession /\ loaded = NotLoaded
    BY DEF StInit, CfInit
  <1>3. session.provider = "none"
    BY <1>2 DEF NoSession
  <1> QED BY <1>1, <1>2, <1>3 DEF StInv, CfInv, DiagnosticsSurviveConfig, SessionFollowsConfig

LEMMA StStep == ASSUME StInv, [StNext]_stVars PROVE StInv'
  <1> USE DEF StInv
  <1>1. CASE validateChoiceFlags
    <2>1. /\ stPc = "main" /\ stPc' \in {"exited", "run", "load"} /\ session' = session /\ world' = world
          /\ loaded' = loaded /\ options' = options /\ command' \in StCommands
          /\ stPc' = "load" => ~shouldSkipConfigLoad(command')
          /\ stPc' = "run" => shouldSkipConfigLoad(command')
          /\ stPc' = "exited" => command'.choices = "bad"
      BY <1>1 DEF validateChoiceFlags, StExit
    <2>2. session = NoSession /\ session.provider = "none"
      BY <2>1 DEF NoSession
    <2>3. CfInv'
      BY <2>1 DEF CfInv
    <2>4. (shouldSkipConfigLoad(command))' <=> shouldSkipConfigLoad(command')
      BY DEF shouldSkipConfigLoad, Reads
    <2>5. DiagnosticsSurviveConfig' /\ SessionFollowsConfig'
      BY <2>1, <2>2 DEF DiagnosticsSurviveConfig, SessionFollowsConfig
    <2> QED BY <2>1, <2>2, <2>3, <2>4, <2>5
  <1>2. CASE PersistentPreRunE
    <2>1. /\ stPc = "load" /\ stPc' \in {"exited", "run"} /\ session' = session /\ command' = command
          /\ stPc' = "run" => loaded'.state = "ok"
      BY <1>2 DEF PersistentPreRunE, StExit
    <2>2. world' \in CfWorlds /\ options' \in CfOptions /\ loaded' = LoadWith(world', options')
      BY <1>2 DEF PersistentPreRunE, Load
    <2>3. CfInv'
      BY <2>2 DEF CfInv
    <2>4. \A l \in {"policy", "user", "project", "local", "env"} : IsLayer(world'[l])
      BY <2>2, ConfigAssumption
    <2>5. session = NoSession /\ session.provider = "none"
      BY <2>1 DEF NoSession
    <2>6. DiagnosticsSurviveConfig'
      BY <2>1 DEF DiagnosticsSurviveConfig, shouldSkipConfigLoad, Reads
    <2>7. SessionFollowsConfig'
      BY <2>1, <2>5 DEF SessionFollowsConfig
    <2>8. (\A l \in {"policy", "user", "project", "local", "env"} : IsLayer(world[l]))'
      BY <2>4 DEF IsLayer
    <2> QED BY <2>1, <2>3, <2>5, <2>6, <2>7, <2>8
  <1>3. CASE RunOther \/ RunInteractRefused \/ SessionEnds
    <2>1. /\ stPc \in {"run", "session"} /\ stPc' = "exited" /\ world' = world /\ options' = options
          /\ loaded' = loaded /\ command' = command /\ session' = session
      BY <1>3 DEF RunOther, RunInteractRefused, SessionEnds, StExit
    <2>2. CfInv' /\ SessionFollowsConfig'
      BY <2>1 DEF CfInv, SessionFollowsConfig, SameLayers
    <2>3. command \in StCommands /\ IsLayer(command.file)
      BY <2>1, StartupAssumption
    <2>4. \/ Interactive /\ Asked
          \/ exitCode' = IF command.cmd = "validate" /\ ~ValidateFile(command.file) THEN 1 ELSE 0
      BY <1>3 DEF RunOther, RunInteractRefused, SessionEnds, StExit, Asked
    <2>5. command.cmd = "validate" /\ exitCode' = (IF ~ValidateFile(command.file) THEN 1 ELSE 0) =>
             (exitCode' = 0 <=> command.file # Absent /\ reload(OnlyUser(command.file)).state = "ok")
      <3>1. CASE command.file = Absent
        BY <3>1 DEF ValidateFile
      <3>2. CASE command.file # Absent
        BY <2>3, <3>2, FileVerdict
      <3> QED BY <3>1, <3>2
    <2>6. DiagnosticsSurviveConfig'
      BY <2>1, <2>4, <2>5 DEF DiagnosticsSurviveConfig, Interactive, Asked
    <2> QED BY <2>1, <2>2, <2>6
  <1>4. CASE LaunchInteractiveTUI
    <2>1. /\ stPc = "run" /\ stPc' = "session" /\ world' = world /\ options' = options
          /\ loaded' = loaded /\ command' = command /\ session' = newChatModel(reload(world))
          /\ Interactive /\ Asked
      BY <1>4 DEF LaunchInteractiveTUI, Asked
    <2>2. CfInv' /\ DiagnosticsSurviveConfig' /\ Interactive' /\ Asked'
      BY <2>1 DEF CfInv, DiagnosticsSurviveConfig, Interactive, Asked
    <2>3. loaded.state = "ok"
      BY <2>1 DEF shouldSkipConfigLoad, Reads, Interactive, Asked
    <2>4. world \in CfWorlds /\ options \in CfOptions /\ loaded = LoadWith(world, options)
      BY <2>3 DEF CfInv, NotLoaded
    <2>5. SessionFollowsConfig'
      BY <2>1, <2>3, <2>4, SessionBuilt DEF SessionFollowsConfig, SameLayers
    <2> QED BY <2>1, <2>2, <2>5
  <1>5. CASE UNCHANGED stVars
    BY <1>5 DEF stVars, CfInv, DiagnosticsSurviveConfig, SessionFollowsConfig, SameLayers, shouldSkipConfigLoad, Reads, Interactive, Asked
  <1>6. CASE StDone
    BY <1>5, <1>6 DEF StDone
  <1> QED BY <1>1, <1>2, <1>3, <1>4, <1>5, <1>6 DEF StNext

(* Every value a load arrives at, and every complaint about a value, names *)
(* the layer that set it (Load, mergeBytes, walkValidate), for any fields, *)
(* layers and options.                                                     *)
THEOREM SettingsTheorem == StSpec => []SettingsTraceable
  <1>1. StInit => StInv
    BY StInitial
  <1>2. StInv /\ [StNext]_stVars => StInv'
    BY StStep
  <1>3. StInv => SettingsTraceable
    BY LoadTraceable DEF StInv
  <1> QED BY <1>1, <1>2, <1>3, PTL DEF StSpec

(* For every configuration, command line and machine: asking for the       *)
(* version or a dump does not fail; `validate` (ValidateFile) succeeds     *)
(* exactly on the files a session could load alone; and a session built    *)
(* from the second load (newChatModel) has the model that load arrives at, *)
(* and is without a configuration only when it reads another layer than    *)
(* the first load did.                                                     *)
THEOREM StartupTheorem == StSpec => []StartupSound
  <1>1. StInit => StInv
    BY StInitial
  <1>2. StInv /\ [StNext]_stVars => StInv'
    BY StStep
  <1>3. StInv => StartupSound
    BY DEF StInv, StartupSound
  <1> QED BY <1>1, <1>2, <1>3, PTL DEF StSpec
-----------------------------------------------------------------------------
(* The database connection.                                                *)

(* Validated connections whose aliases fold to one variable have one       *)
(* alias: the first connection with the variable is the only one.          *)
LEMMA OneVariablePerAlias ==
    ASSUME NEW conns, NEW S, conns \in Seq(S), validateConnections(conns) = {},
           NEW i \in DOMAIN conns, NEW j \in DOMAIN conns,
           envKey(conns[i].alias) = envKey(conns[j].alias)
    PROVE  conns[i].alias = conns[j].alias
  <1> DEFINE key == envKey(conns[i].alias)
             T == {k \in DOMAIN conns : envKey(conns[k].alias) = key}
  <1>1. DOMAIN conns \subseteq Nat /\ \A n \in DOMAIN conns : n \in 1..Len(conns)
    OBVIOUS
  <1>2. T \subseteq Nat /\ i \in T /\ j \in T
    BY <1>1
  <1>3. PICK m \in T : \A k \in T : m <= k
    BY <1>2, LeastNat
  <1>4. ASSUME NEW n \in T PROVE conns[n].alias = conns[m].alias
    <2> SUFFICES ASSUME conns[n].alias # conns[m].alias PROVE FALSE
      OBVIOUS
    <2>1. m \in Nat /\ n \in Nat /\ m \in 1..n-1 /\ n \in DOMAIN conns
      BY <1>1, <1>2, <1>3
    <2>2. envKey(conns[m].alias) = envKey(conns[n].alias)
      BY <1>3
    <2>3. \A k \in 1..m-1 : envKey(conns[k].alias) # envKey(conns[n].alias)
      <3> TAKE k \in 1..m-1
      <3>1. k \in DOMAIN conns
        BY <1>1, <1>3
      <3>2. k \notin T
        BY <1>3, <2>1
      <3> QED BY <3>1, <3>2
    <2>4. <<"envkey-unique", n>> \in validateConnections(conns)
      BY <2>1, <2>2, <2>3 DEF validateConnections
    <2> QED BY <2>4
  <1> QED BY <1>2, <1>4

(* The active connection is one of the configuration's.                    *)
LEMMA ActiveIsConfigured ==
    ASSUME NEW c, NEW cli, NEW S, c.conns \in Seq(S),
           ActiveConnection(c, cli).err = NoError
    PROVE  \E i \in DOMAIN c.conns : ActiveConnection(c, cli).conn = c.conns[i]
  <1> DEFINE alias == IF cli = <<>> THEN c.default ELSE cli
             named == {i \in DOMAIN c.conns : c.conns[i].alias = alias}
  <1>1. CASE alias = <<>>
    <2>1. Len(c.conns) = 1
      BY <1>1 DEF ActiveConnection, NoError
    <2>2. ActiveConnection(c, cli) = [err |-> NoError, conn |-> c.conns[1]]
      BY <1>1, <2>1 DEF ActiveConnection
    <2> QED BY <2>1, <2>2
  <1>2. CASE alias # <<>>
    <2>1. named # {}
      BY <1>2 DEF ActiveConnection, NoError
    <2>2. named \subseteq Nat
      OBVIOUS
    <2> DEFINE first == CHOOSE i \in named : \A j \in named : i <= j
    <2>3. first \in named
      BY <2>1, <2>2, LeastNat
    <2>4. ActiveConnection(c, cli) = [err |-> NoError, conn |-> c.conns[first]]
      BY <1>2, <2>1 DEF ActiveConnection
    <2>5. first \in DOMAIN c.conns
      BY <2>3
    <2> HIDE DEF first
    <2> QED BY <2>4, <2>5
  <1> QED BY <1>1, <1>2

(* A resolved DSN carries the password of its own alias.                   *)
LEMMA DsnOwnPassword ==
    ASSUME NEW c \in DbConfigs, validateConnections(c.conns) = {},
           NEW i \in DOMAIN c.conns,
           NEW exported \in SUBSET {c.conns[k].alias : k \in DOMAIN c.conns},
           NEW parses \in BOOLEAN,
           ResolveDSN(c.conns[i], passwordEnv(exported), parses).err = NoError
    PROVE  ResolveDSN(c.conns[i], passwordEnv(exported), parses).password \in {<<>>, c.conns[i].alias}
  <1> DEFINE conn == c.conns[i]
             env == passwordEnv(exported)
             key == envKey(conn.alias)
  <1>1. PICK S : c.conns \in Seq(S)
    BY DbAssumption
  <1>2. conn.password \in {<<>>, conn.alias}
    BY DbAssumption
  <1>3. ResolvePassword(conn, env) \in {<<>>, conn.alias}
    <2>1. CASE key \notin DOMAIN env
      BY <1>2, <2>1 DEF ResolvePassword
    <2>2. CASE key \in DOMAIN env
      <3>1. key \in {envKey(a) : a \in exported}
        BY <2>2 DEF passwordEnv
      <3> DEFINE a == CHOOSE a \in exported : envKey(a) = key
      <3>2. a \in exported /\ envKey(a) = key
        BY <3>1
      <3>3. env[key] = a
        BY <3>1 DEF passwordEnv
      <3> HIDE DEF a
      <3>4. PICK k \in DOMAIN c.conns : a = c.conns[k].alias
        BY <3>2
      <3>5. c.conns[k].alias = conn.alias
        BY <1>1, <3>2, <3>4, OneVariablePerAlias
      <3> QED BY <2>2, <3>3, <3>4, <3>5 DEF ResolvePassword
    <2> QED BY <2>1, <2>2
  <1> HIDE DEF env, key
  <1>4. CASE conn.dsn
    BY <1>2, <1>4 DEF ResolveDSN
  <1>5. CASE ~conn.dsn
    <2>1. conn.driver \in DOMAIN DbDrivers /\ DbDrivers[conn.driver] /\ parses
      BY <1>5 DEF ResolveDSN, ComposeDSN, NoError, env
    <2>2. ResolveDSN(conn, env, parses).password = ResolvePassword(conn, env)
      BY <1>5, <2>1 DEF ResolveDSN, ComposeDSN
    <2> QED BY <1>3, <2>2 DEF env
  <1> QED BY <1>4, <1>5

(* The pool follows the progress of OpenConnection, nobody calls before it *)
(* has returned, and pgxpool.Close has run once when the pool is not open  *)
(* any more.                                                               *)
DbErrorCodes ==
    {"DB.TIMEOUT", "DB.CONNECT_FAILED", "DB.AUTH_FAILED", "DB.UNAVAILABLE", "DB.QUERY_FAILED"}
DbCallStates == {"none", "waiting", "query", "ok", "closing", "returned"} \cup DbErrorCodes

DbInv ==
    /\ dbCall \in [DbCallers -> DbCallStates]
    /\ dbPc \in {"start", "pool", "ping", "open", "failed"}
    /\ dbPc \in {"start", "pool"} => pool = "none"
    /\ dbPc = "ping" => pool = "open"
    /\ dbPc = "open" => pool \in {"open", "closing", "closed"}
    /\ dbPc = "failed" => pool \in {"none", "closed"}
    /\ poolCloses = IF pool \in {"none", "open"} THEN 0 ELSE 1
    /\ dbPc # "open" => \A g \in DbCallers : dbCall[g] = "none"
    /\ \A g \in DbCallers : dbCall[g] = "returned" => pool = "closed"
    /\ pool = "closed" => \A g \in DbCallers : dbCall[g] # "query"
    /\ OwnPassword

LEMMA ClassifyRange == \A e : classify(e) \in DbErrorCodes
  BY DEF classify, DbErrorCodes

LEMMA SelectStep == ASSUME DbInv, SelectConnection PROVE DbInv'
  <1>1. /\ dbPc = "start" /\ UNCHANGED <<pool, poolCloses, dbCall>>
        /\ dbPc' \in {"pool", "failed"}
    BY DEF SelectConnection, Fails
  <1>2. OwnPassword'
    <2>1. CASE UNCHANGED <<dbConn, secret>>
      BY <2>1 DEF DbInv, OwnPassword
    <2>2. CASE ~UNCHANGED <<dbConn, secret>>
      <3>1. PICK c \in DbConfigs, cli \in DbAliases :
               /\ validateConnections(c.conns) = {}
               /\ \E exported \in SUBSET {c.conns[i].alias : i \in DOMAIN c.conns}, parses \in BOOLEAN :
                    /\ ActiveConnection(c, cli).err = NoError
                    /\ ResolveDSN(ActiveConnection(c, cli).conn, passwordEnv(exported), parses).err = NoError
                    /\ dbConn' = ActiveConnection(c, cli).conn
                    /\ secret' = ResolveDSN(ActiveConnection(c, cli).conn, passwordEnv(exported), parses)
        BY <2>2 DEF SelectConnection
      <3>2. PICK exported \in SUBSET {c.conns[i].alias : i \in DOMAIN c.conns}, parses \in BOOLEAN :
               /\ ActiveConnection(c, cli).err = NoError
               /\ ResolveDSN(ActiveConnection(c, cli).conn, passwordEnv(exported), parses).err = NoError
               /\ dbConn' = ActiveConnection(c, cli).conn
               /\ secret' = ResolveDSN(ActiveConnection(c, cli).conn, passwordEnv(exported), parses)
        BY <3>1
      <3>3. PICK S : c.conns \in Seq(S)
        BY DbAssumption
      <3>4. PICK i \in DOMAIN c.conns : ActiveConnection(c, cli).conn = c.conns[i]
        BY <3>2, <3>3, ActiveIsConfigured
      <3>5. ResolveDSN(c.conns[i], passwordEnv(exported), parses).password \in {<<>>, c.conns[i].alias}
        BY <3>1, <3>2, <3>4, DsnOwnPassword
      <3> QED BY <3>2, <3>4, <3>5 DEF OwnPassword
    <2> QED BY <2>1, <2>2
  <1> QED BY <1>1, <1>2 DEF DbInv

LEMMA OpenStep == ASSUME DbInv, newPool \/ Driver_Open PROVE DbInv'
  <1>1. OwnPassword'
    BY DEF DbInv, OwnPassword, newPool, Driver_Open
  <1>2. CASE newPool
    BY <1>1, <1>2 DEF DbInv, newPool, Fails
  <1>3. CASE Driver_Open
    BY <1>1, <1>3 DEF DbInv, Driver_Open, Fails
  <1> QED BY <1>2, <1>3

LEMMA CallStep ==
    ASSUME DbInv, NEW g \in DbCallers,
           Query(g) \/ Acquired(g) \/ QueryReturns(g) \/ pgConnClose(g) \/ ConnCloseReturns(g)
    PROVE  DbInv'
  <1>1. OwnPassword'
    BY DEF DbInv, OwnPassword, Query, Acquired, QueryReturns, pgConnClose, ConnCloseReturns
  <1>2. dbPc = "open"
    BY DEF DbInv, Query, Acquired, QueryReturns, pgConnClose, ConnCloseReturns
  <1>3. CASE Query(g)
    BY <1>1, <1>2, <1>3 DEF DbInv, Query, Busy, DbCallStates
  <1>7. CASE Acquired(g)
    BY <1>1, <1>2, <1>7 DEF DbInv, Acquired, DbCallStates
  <1>4. CASE QueryReturns(g)
    <2>1. PICK answer \in {classify(e) : e \in DbErrors} \cup {"ok"} :
             dbCall' = [dbCall EXCEPT ![g] = answer]
      BY <1>4 DEF QueryReturns
    <2>2. answer \in DbErrorCodes \cup {"ok"}
      BY ClassifyRange
    <2>3. answer \in DbCallStates /\ answer \notin {"returned", "query"}
      BY <2>2 DEF DbCallStates, DbErrorCodes
    <2> QED BY <1>1, <1>2, <1>4, <2>1, <2>3 DEF DbInv, QueryReturns
  <1>5. CASE pgConnClose(g)
    BY <1>1, <1>2, <1>5 DEF DbInv, pgConnClose, Busy, DbCallStates
  <1>6. CASE ConnCloseReturns(g)
    BY <1>1, <1>2, <1>6 DEF DbInv, ConnCloseReturns, DbCallStates
  <1> QED BY <1>3, <1>4, <1>5, <1>6, <1>7

LEMMA DbInvariant == DbSpec => []DbInv
  <1>1. DbInit => DbInv
    BY DEF DbInit, DbInv, DbCallStates, OwnPassword
  <1>2. DbInv /\ [DbNext]_dbVars => DbInv'
    <2> SUFFICES ASSUME DbInv, [DbNext]_dbVars PROVE DbInv'
      OBVIOUS
    <2>1. CASE UNCHANGED dbVars
      BY <2>1 DEF DbInv, OwnPassword, dbVars
    <2>2. CASE SelectConnection
      BY <2>2, SelectStep
    <2>3. CASE newPool \/ Driver_Open
      BY <2>3, OpenStep
    <2>4. CASE PoolClosed
      BY <2>4 DEF DbInv, OwnPassword, PoolClosed
    <2>5. CASE \E g \in DbCallers :
                  Query(g) \/ Acquired(g) \/ QueryReturns(g) \/ pgConnClose(g) \/ ConnCloseReturns(g)
      BY <2>5, CallStep
    <2>6. CASE DbDone
      BY <2>1, <2>6 DEF DbDone
    <2> QED BY <2>1, <2>2, <2>3, <2>4, <2>5, <2>6 DEF DbNext
  <1> QED BY <1>1, <1>2, PTL DEF DbSpec

(* However many goroutines use and close a connection: a failed open       *)
(* leaves no pool, the pool is closed once and closed when Close returns,  *)
(* and the password sent is that of the connection's own alias.            *)
THEOREM ConnectionTheorem == DbSpec => []ConnectionSafe
  <1>1. DbInv => ConnectionSafe
    BY DEF DbInv, ConnectionSafe, FailedOpenLeavesNoPool, CloseOnceAndDone
  <1> QED BY <1>1, DbInvariant, PTL
-----------------------------------------------------------------------------
(* The logger.                                                             *)

LogRecords == [kind : {"log", "panic", "notice", "slog"}, dropped : Nat]

(* Records that come from log calls: no notice, nothing to tell of drops.  *)
Plain(s) == \A i \in 1..Len(s) : s[i].kind \in {"log", "panic"}

LgTypeOK ==
    /\ lgInput.level \in 0..5 /\ droppedBeforeInit \in Nat /\ handler \in Nat
    /\ text \in Seq(LogRecords) /\ textBuf \in Seq(LogRecords) /\ Plain(textBuf)
    /\ main \in {"run", "run_side", "panic", "panic_side", "close"}
    /\ closing \in {"no", "main", "done"} /\ signal \in {"idle", "close"}

(* Who closes, and what Close has emptied.                                 *)
CloseInv ==
    /\ ~initDone => /\ textBuf = <<>> /\ sideBuf = <<>> /\ closing = "no"
                    /\ main \notin {"run_side", "panic_side"}
    /\ closing # "no" => textBuf = <<>> /\ (main \in {"close", "panic"} \/ signal = "close")
    /\ closing = "done" => sideBuf = <<>>
    /\ dead # "no" => textBuf = <<>> /\ sideBuf = <<>>

(* The panic's record is in the file, or in the buffer that Close empties. *)
HasPanic(s) == \E i \in 1..Len(s) : s[i].kind = "panic"

PanicInv ==
    /\ owed => main \in {"panic", "panic_side"}
    /\ owed /\ signal = "idle" => HasPanic(text) \/ HasPanic(textBuf)
    /\ dead = "panic" => main = "panic"

(* The notice and the records that tell of drops.                          *)
Telling(i) == text[i].kind = "slog" /\ text[i].dropped > 0

NoticeInv ==
    /\ \A i \in 1..Len(text) : text[i].kind = "notice" \/ Telling(i) => warnDroppedOnce
    /\ \A i, j \in 1..Len(text) :
          text[i].kind = "notice" /\ text[j].kind = "notice" => i = j
    /\ \A i \in 1..Len(text) : text[i].kind = "notice" => text[i].dropped > 0
    /\ \A i \in 1..Len(text) : Telling(i) => \E j \in 1..i-1 : text[j].kind = "notice"
    /\ warnDroppedOnce => \E j \in 1..Len(text) : text[j].kind = "notice"

LgInv == LgTypeOK /\ CloseInv /\ PanicInv /\ NoticeInv

(* What appending to the file keeps.                                       *)
LEMMA ConcatIndex ==
    ASSUME NEW S, NEW s \in Seq(S), NEW u \in Seq(S)
    PROVE  /\ s \o u \in Seq(S) /\ Len(s) \in Nat /\ Len(u) \in Nat
           /\ Len(s \o u) = Len(s) + Len(u)
           /\ \A i \in 1..Len(s) : (s \o u)[i] = s[i]
           /\ \A i \in (Len(s) + 1)..(Len(s) + Len(u)) : (s \o u)[i] = u[i - Len(s)]
  OBVIOUS

LEMMA PlainWrite ==
    ASSUME LgTypeOK, NoticeInv, NEW u \in Seq(LogRecords), Plain(u), text' = text \o u,
           warnDroppedOnce' = warnDroppedOnce
    PROVE  /\ text' \in Seq(LogRecords) /\ NoticeInv'
           /\ (\E i \in 1..Len(text) : text[i].kind = "panic")
                => (\E i \in 1..Len(text') : text'[i].kind = "panic")
           /\ (\E i \in 1..Len(u) : u[i].kind = "panic")
                => (\E i \in 1..Len(text') : text'[i].kind = "panic")
  <1> DEFINE n == Len(text)
             m == Len(u)
  <1>1. /\ text' \in Seq(LogRecords) /\ n \in Nat /\ m \in Nat /\ Len(text') = n + m
        /\ \A i \in 1..n : text'[i] = text[i]
        /\ \A i \in (n + 1)..(n + m) : text'[i] = u[i - n]
    BY ConcatIndex DEF LgTypeOK
  <1>2. \A i \in 1..m : i + n \in (n + 1)..(n + m) /\ (i + n) - n = i
    BY <1>1
  <1>3. \A i \in (n + 1)..(n + m) : text'[i].kind \in {"log", "panic"}
    <2> TAKE i \in (n + 1)..(n + m)
    <2>1. i - n \in 1..m
      BY <1>1
    <2> QED BY <1>1, <2>1 DEF Plain
  <1>4. \A i \in 1..(n + m) : i \in 1..n \/ i \in (n + 1)..(n + m)
    BY <1>1
  <1>5. \A i \in 1..(n + m) : text'[i].kind \notin {"log", "panic"} => i \in 1..n
    BY <1>3, <1>4
  <1>6. \A i \in 1..n : i \in 1..(n + m) /\ 1..i-1 \subseteq 1..n
    BY <1>1
  <1> HIDE DEF n, m
  <1>7. NoticeInv'
    <2> SUFFICES
          /\ \A i \in 1..(n + m) :
                text'[i].kind = "notice" \/ (text'[i].kind = "slog" /\ text'[i].dropped > 0)
                  => warnDroppedOnce
          /\ \A i, j \in 1..(n + m) :
                text'[i].kind = "notice" /\ text'[j].kind = "notice" => i = j
          /\ \A i \in 1..(n + m) : text'[i].kind = "notice" => text'[i].dropped > 0
          /\ \A i \in 1..(n + m) : text'[i].kind = "slog" /\ text'[i].dropped > 0
                => \E j \in 1..i-1 : text'[j].kind = "notice"
          /\ warnDroppedOnce => \E j \in 1..(n + m) : text'[j].kind = "notice"
      BY <1>1 DEF NoticeInv, Telling
    <2>1. \A i \in 1..(n + m) :
              text'[i].kind \in {"notice", "slog"} => i \in 1..n /\ text'[i] = text[i]
      BY <1>1, <1>5
    <2>2. /\ \A i \in 1..n :
                text[i].kind = "notice" \/ (text[i].kind = "slog" /\ text[i].dropped > 0)
                  => warnDroppedOnce
          /\ \A i, j \in 1..n : text[i].kind = "notice" /\ text[j].kind = "notice" => i = j
          /\ \A i \in 1..n : text[i].kind = "notice" => text[i].dropped > 0
          /\ \A i \in 1..n : text[i].kind = "slog" /\ text[i].dropped > 0
                => \E j \in 1..i-1 : text[j].kind = "notice"
          /\ warnDroppedOnce => \E j \in 1..n : text[j].kind = "notice"
      BY DEF NoticeInv, Telling, n
    <2>3. \A i \in 1..(n + m) : text'[i].kind = "slog" /\ text'[i].dropped > 0
                => \E j \in 1..i-1 : text'[j].kind = "notice"
      <3> SUFFICES ASSUME NEW i \in 1..(n + m), text'[i].kind = "slog", text'[i].dropped > 0
                   PROVE  \E j \in 1..i-1 : text'[j].kind = "notice"
        OBVIOUS
      <3>1. i \in 1..n /\ text'[i] = text[i]
        BY <2>1
      <3>2. PICK j \in 1..i-1 : text[j].kind = "notice"
        BY <2>2, <3>1
      <3>3. j \in 1..n
        BY <1>6, <3>1
      <3> QED BY <1>1, <3>2, <3>3
    <2>4. warnDroppedOnce => \E j \in 1..(n + m) : text'[j].kind = "notice"
      BY <1>1, <1>6, <2>2
    <2> QED BY <2>1, <2>2, <2>3, <2>4
  <1>8. (\E i \in 1..n : text[i].kind = "panic")
           => (\E i \in 1..(n + m) : text'[i].kind = "panic")
    BY <1>1, <1>6
  <1>9. (\E i \in 1..m : u[i].kind = "panic")
           => (\E i \in 1..(n + m) : text'[i].kind = "panic")
    <2> SUFFICES ASSUME NEW i \in 1..m, u[i].kind = "panic"
                 PROVE  \E k \in 1..(n + m) : text'[k].kind = "panic"
      OBVIOUS
    <2>1. text'[i + n] = u[i]
      BY <1>1, <1>2
    <2>2. i + n \in 1..(n + m)
      BY <1>1
    <2> QED BY <2>1, <2>2
  <1> QED BY <1>1, <1>7, <1>8, <1>9 DEF n, m

(* An append is a concatenation.                                           *)
LEMMA AppendConcat ==
    ASSUME NEW S, NEW s \in Seq(S), NEW e \in S
    PROVE  Append(s, e) = s \o <<e>> /\ <<e>> \in Seq(S)
  OBVIOUS

LEMMA NoticeFrame ==
    ASSUME NoticeInv, UNCHANGED <<text, warnDroppedOnce>> PROVE NoticeInv'
  BY DEF NoticeInv, Telling

(* Steps that write nothing.                                               *)
LEMMA QuietStep ==
    ASSUME LgInv, InitLogger \/ EnableDebugLogging \/ SlogLoadNil \/ SlogDrop
                  \/ SignalArrives \/ MainReturns \/ LgDone
    PROVE  LgInv'
  <1>1. NoticeInv'
    BY NoticeFrame DEF LgInv, InitLogger, EnableDebugLogging, SlogLoadNil, SlogDrop,
                       SignalArrives, MainReturns, LgDone, lgVars
  <1>2. CASE InitLogger
    <2>1. UNCHANGED <<text, textBuf, owed, sideBuf, closing, signal, dead, droppedBeforeInit, handler>>
          /\ ~initDone /\ main = "run" /\ Alive
      BY <1>2 DEF InitLogger
    <2>2. /\ lgInput'.level \in 0..5 /\ main' \in {"run", "close"}
          /\ initDone' => main' = "run"
      BY <1>2, LoggerAssumption DEF InitLogger, LgInv, LgTypeOK
    <2>3. LgTypeOK'
      BY <2>1, <2>2 DEF LgInv, LgTypeOK, Plain
    <2>4. CloseInv'
      BY <2>1, <2>2 DEF LgInv, CloseInv, Alive
    <2>5. PanicInv'
      BY <2>1, <2>2 DEF LgInv, PanicInv, Alive
    <2> QED BY <1>1, <2>3, <2>4, <2>5 DEF LgInv
  <1>3. CASE EnableDebugLogging
    BY <1>1, <1>3 DEF LgInv, EnableDebugLogging, LgTypeOK, CloseInv, PanicInv, Plain
  <1>4. CASE SlogLoadNil
    BY <1>1, <1>4 DEF LgInv, SlogLoadNil, LgTypeOK, CloseInv, PanicInv, Plain
  <1>5. CASE SlogDrop
    BY <1>1, <1>5 DEF LgInv, SlogDrop, LgTypeOK, CloseInv, PanicInv, Plain
  <1>6. CASE SignalArrives
    BY <1>1, <1>6 DEF LgInv, SignalArrives, LgTypeOK, CloseInv, PanicInv, Plain
  <1>7. CASE MainReturns
    BY <1>1, <1>7 DEF LgInv, MainReturns, LgTypeOK, CloseInv, PanicInv, Plain, Alive
  <1>8. CASE LgDone
    BY <1>1, <1>8 DEF LgInv, LgDone, lgVars, LgTypeOK, CloseInv, PanicInv, Plain
  <1> QED BY <1>2, <1>3, <1>4, <1>5, <1>6, <1>7, <1>8

(* A log call: its line goes to the file or to the buffer.                 *)
LEMMA WriteTextStep ==
    ASSUME LgTypeOK, NoticeInv, NEW k \in {"log", "panic"},
           writeText([kind |-> k, dropped |-> 0]), warnDroppedOnce' = warnDroppedOnce
    PROVE  /\ text' \in Seq(LogRecords) /\ textBuf' \in Seq(LogRecords) /\ Plain(textBuf)'
           /\ NoticeInv'
           /\ closing # "no" => textBuf' = textBuf
           /\ closing = "no" /\ k = "panic" => HasPanic(text') \/ HasPanic(textBuf')
  <1> DEFINE rec == [kind |-> k, dropped |-> 0]
  <1>1. rec \in LogRecords /\ rec.kind = k
    BY DEF LogRecords
  <1>2. CASE UNCHANGED <<textBuf, text>>
    <2>1. closing # "no"
      <3>1. closing = "no" => text' = Append(text, rec) \/ textBuf' = Append(textBuf, rec)
        BY DEF writeText
      <3>2. text' # Append(text, rec) /\ textBuf' # Append(textBuf, rec)
        BY <1>1, <1>2 DEF LgTypeOK
      <3> QED BY <3>1, <3>2
    <2> QED BY <1>2, <2>1, NoticeFrame DEF LgTypeOK, Plain
  <1>3. CASE text' = Append(text, rec) /\ UNCHANGED textBuf
    <2> HIDE DEF rec
    <2>1. text' = text \o <<rec>> /\ <<rec>> \in Seq(LogRecords)
      BY <1>1, <1>3, AppendConcat DEF LgTypeOK
    <2>2. Len(<<rec>>) = 1 /\ <<rec>>[1] = rec
      OBVIOUS
    <2>3. Plain(<<rec>>) /\ (k = "panic" => \E i \in 1..Len(<<rec>>) : <<rec>>[i].kind = "panic")
      BY <1>1, <2>2 DEF Plain
    <2> QED BY <1>3, <2>1, <2>3, PlainWrite DEF LgTypeOK, Plain, HasPanic
  <1>4. CASE textBuf' = Append(textBuf, rec) /\ UNCHANGED text /\ closing = "no"
    <2> HIDE DEF rec
    <2>1. /\ textBuf' \in Seq(LogRecords) /\ Len(textBuf') = Len(textBuf) + 1
          /\ \A i \in 1..Len(textBuf) : textBuf'[i] = textBuf[i]
          /\ textBuf'[Len(textBuf) + 1] = rec
          /\ Len(textBuf) \in Nat
      BY <1>1, <1>4 DEF LgTypeOK
    <2>2. Plain(textBuf)'
      BY <1>1, <2>1 DEF LgTypeOK, Plain
    <2>3. k = "panic" => HasPanic(textBuf')
      BY <1>1, <2>1 DEF HasPanic
    <2> QED BY <1>4, <2>1, <2>2, <2>3, NoticeFrame DEF LgTypeOK
  <1> QED BY <1>2, <1>3, <1>4 DEF writeText

LEMMA LogStep ==
    ASSUME LgInv, main = "run", NEW m, NEW k, NEW a, log(m, k, a),
           \/ k = "log" /\ a = "run" /\ UNCHANGED owed
           \/ /\ k = "panic" /\ a = "panic" /\ m = <<4, {}>>
              /\ owed' = (initDone /\ IsDebugMode /\ lgInput.filter = <<>>)
    PROVE  LgInv'
  <1>1. /\ Alive /\ k \in {"log", "panic"} /\ a \in {"run", "panic"}
        /\ UNCHANGED <<lgInput, immediate, initDone, runtimeDebug, sideBuf, side, handler,
                       droppedBeforeInit, warnDroppedOnce, closing, signal, dead>>
    BY DEF log
  <1>2. closing # "no" => signal = "close"
    BY DEF LgInv, CloseInv
  <1>3. CASE passes(m)
    <2>1. /\ writeText([kind |-> k, dropped |-> 0])
          /\ main' = sideOf(a) /\ initDone
      BY <1>3 DEF log, passes
    <2>2. main' = (IF a = "run" THEN "run_side" ELSE "panic_side")
      BY <2>1 DEF sideOf
    <2>3. /\ text' \in Seq(LogRecords) /\ textBuf' \in Seq(LogRecords) /\ Plain(textBuf)'
          /\ NoticeInv'
          /\ closing # "no" => textBuf' = textBuf
          /\ closing = "no" /\ k = "panic" => HasPanic(text') \/ HasPanic(textBuf')
      BY <1>1, <2>1, WriteTextStep DEF LgInv
    <2>4. LgTypeOK'
      BY <1>1, <2>2, <2>3 DEF LgInv, LgTypeOK
    <2>5. CloseInv'
      BY <1>1, <1>2, <2>1, <2>2, <2>3 DEF LgInv, CloseInv, Alive
    <2>6. PanicInv'
      BY <1>1, <1>2, <2>2, <2>3 DEF LgInv, PanicInv, LgTypeOK, Alive
    <2> QED BY <2>3, <2>4, <2>5, <2>6 DEF LgInv
  <1>4. CASE ~passes(m)
    <2>1. UNCHANGED <<textBuf, text>> /\ main' = a
      BY <1>4 DEF log
    <2>2. NoticeInv'
      BY <1>1, <2>1, NoticeFrame DEF LgInv
    <2>3. LgTypeOK' /\ CloseInv'
      BY <1>1, <1>2, <2>1 DEF LgInv, LgTypeOK, CloseInv, Plain, Alive
    <2>4. ~(k = "panic" /\ initDone /\ IsDebugMode /\ lgInput.filter = <<>>)
      <3> SUFFICES ASSUME m = <<4, {}>>, initDone, IsDebugMode, lgInput.filter = <<>>
                   PROVE  FALSE
        OBVIOUS
      <3>1. 4 >= minLevel
        BY LoggerAssumption DEF minLevel, LgInv, LgTypeOK
      <3>2. ToSet(<<>>) = {}
        BY DEF ToSet
      <3>3. {p[1] : p \in ToSet(<<>>)} = {}
        BY <3>2
      <3>4. parseDebugFilter(<<>>).off
        <4> DEFINE neg == {p[1] : p \in ToSet(<<>>)}
        <4>1. neg = {} /\ Cardinality({}) = 0
          BY <3>3, FS_EmptySet
        <4> HIDE DEF neg
        <4>2. Cardinality(neg) = 0
          BY <4>1
        <4>3. (Cardinality(neg) # 1) = TRUE
          BY <4>2
        <4>4. parseDebugFilter(<<>>) = [off |-> Cardinality(neg) # 1, exclusive |-> neg = {TRUE},
                                        cats |-> {p[2] : p \in ToSet(<<>>)}]
          BY DEF parseDebugFilter, neg
        <4>5. parseDebugFilter(<<>>).off = (Cardinality(neg) # 1)
          BY <4>4
        <4> QED BY <4>3, <4>5
      <3> QED BY <1>4, <3>1, <3>4 DEF passes, shouldShowDebugCategories
    <2>5. ~owed'
      <3>1. CASE k = "log"
        BY <3>1 DEF LgInv, PanicInv
      <3>2. CASE k = "panic"
        BY <2>4, <3>2, Zenon
      <3> QED BY <1>1, <3>1, <3>2
    <2>6. PanicInv'
      BY <1>1, <2>1, <2>5 DEF LgInv, PanicInv, Alive
    <2> QED BY <2>2, <2>3, <2>6 DEF LgInv
  <1> QED BY <1>3, <1>4

(* Steps that write buffered lines to the files.                           *)
LEMMA FlushStep ==
    ASSUME LgInv, LogSidecar \/ BackgroundFlush \/ CloseMainWriter \/ CloseSidecarWriter \/ Exit
    PROVE  LgInv'
  <1>1. CASE LogSidecar
    <2>1. NoticeInv'
      BY <1>1, NoticeFrame DEF LgInv, LogSidecar
    <2>2. main' \in {"run", "panic"} /\ (main' = "panic" => main = "panic_side")
      BY <1>1 DEF LogSidecar
    <2> QED BY <1>1, <2>1, <2>2 DEF LgInv, LogSidecar, LgTypeOK, CloseInv, PanicInv, Plain, Alive
  <1>2. CASE BackgroundFlush \/ CloseMainWriter
    <2>1. text' = text \o textBuf /\ textBuf' = <<>>
          /\ UNCHANGED <<lgInput, owed, initDone, main, handler, droppedBeforeInit,
                         warnDroppedOnce, signal, dead>>
      BY <1>2 DEF BackgroundFlush, CloseMainWriter
    <2>2. /\ text' \in Seq(LogRecords) /\ NoticeInv'
          /\ HasPanic(text) \/ HasPanic(textBuf) => HasPanic(text')
      BY <2>1, PlainWrite DEF LgInv, LgTypeOK, HasPanic
    <2>3. LgTypeOK'
      BY <1>2, <2>1, <2>2 DEF LgInv, LgTypeOK, Plain, BackgroundFlush, CloseMainWriter
    <2>4. CloseInv'
      BY <1>2, <2>1 DEF LgInv, CloseInv, BackgroundFlush, CloseMainWriter, WantsClose, Alive
    <2>5. PanicInv'
      BY <2>1, <2>2 DEF LgInv, PanicInv
    <2> QED BY <2>2, <2>3, <2>4, <2>5 DEF LgInv
  <1>3. CASE CloseSidecarWriter
    <2>1. NoticeInv'
      BY <1>3, NoticeFrame DEF LgInv, CloseSidecarWriter
    <2> QED BY <1>3, <2>1 DEF LgInv, CloseSidecarWriter, LgTypeOK, CloseInv, PanicInv, Plain
  <1>4. CASE Exit
    <2>1. NoticeInv'
      BY <1>4, NoticeFrame DEF LgInv, Exit
    <2> QED BY <1>4, <2>1
        DEF LgInv, Exit, CloseReturns, LgTypeOK, CloseInv, PanicInv, Plain, Alive
  <1> QED BY <1>1, <1>2, <1>3, <1>4

(* A record of slog: behind the notice when drops are not announced yet.   *)
LEMMA SlogStep == ASSUME LgInv, SlogHandle PROVE LgInv'
  <1> DEFINE d == droppedBeforeInit
             n == Len(text)
             notice == [kind |-> "notice", dropped |-> d]
             slog == [kind |-> "slog", dropped |-> d]
  <1>1. /\ initDone /\ Alive
        /\ UNCHANGED <<lgInput, owed, initDone, textBuf, sideBuf, main, handler,
                       droppedBeforeInit, closing, signal, dead>>
        /\ warnDroppedOnce' = (warnDroppedOnce \/ warnIfStartupDropped)
    BY DEF SlogHandle
  <1>2. notice \in LogRecords /\ slog \in LogRecords /\ text \in Seq(LogRecords) /\ n \in Nat
        /\ d \in Nat
    BY DEF LgInv, LgTypeOK, LogRecords
  <1>3. /\ notice.kind = "notice" /\ notice.dropped = d
        /\ slog.kind = "slog" /\ slog.dropped = d
    OBVIOUS
  <1>4. CASE warnIfStartupDropped
    <2>1. text' = text \o <<notice>> \o <<slog>>
      BY <1>4 DEF SlogHandle
    <2> HIDE DEF notice, slog
    <2>2. text' = Append(Append(text, notice), slog)
      <3>1. text \o <<notice>> = Append(text, notice) /\ Append(text, notice) \in Seq(LogRecords)
        BY <1>2
      <3>2. Append(text, notice) \o <<slog>> = Append(Append(text, notice), slog)
        BY <1>2, <3>1, AppendConcat
      <3> QED BY <2>1, <3>1, <3>2
    <2>3. /\ text' \in Seq(LogRecords) /\ Len(text') = n + 2
          /\ \A i \in 1..n : text'[i] = text[i]
          /\ text'[n + 1] = notice /\ text'[n + 2] = slog
      BY <1>2, <2>2
    <2>4. ~warnDroppedOnce /\ d > 0 /\ warnDroppedOnce'
      BY <1>1, <1>4 DEF warnIfStartupDropped
    <2>5. \A i \in 1..n : text[i].kind # "notice" /\ ~Telling(i)
      BY <2>4 DEF LgInv, NoticeInv
    <2>6. \A i \in 1..(n + 2) : i \in 1..n \/ i = n + 1 \/ i = n + 2
      BY <1>2
    <2>7. n + 1 \in 1..(n + 2) - 1 /\ n + 1 \in 1..(n + 2)
      BY <1>2
    <2> HIDE DEF n, d
    <2>8. NoticeInv'
      <3>1. \A i \in 1..(n + 2) :
               /\ text'[i].kind = "notice" => i = n + 1
               /\ text'[i].kind = "slog" /\ text'[i].dropped > 0 => i = n + 2
        BY <1>3, <2>3, <2>5, <2>6 DEF Telling
      <3> QED BY <1>2, <1>3, <2>3, <2>4, <2>7, <3>1 DEF NoticeInv, Telling
    <2>9. (\E i \in 1..n : text[i].kind = "panic")
             => (\E i \in 1..(n + 2) : text'[i].kind = "panic")
      BY <1>2, <2>3
    <2> QED BY <1>1, <2>3, <2>8, <2>9 DEF LgInv, LgTypeOK, CloseInv, PanicInv, HasPanic, Plain, Alive, n
  <1>5. CASE ~warnIfStartupDropped
    <2>1. text' = text \o <<>> \o <<slog>>
      BY <1>5 DEF SlogHandle
    <2> HIDE DEF notice, slog
    <2>2. text' = Append(text, slog)
      BY <1>2, <2>1
    <2>3. /\ text' \in Seq(LogRecords) /\ Len(text') = n + 1
          /\ \A i \in 1..n : text'[i] = text[i]
          /\ text'[n + 1] = slog
      BY <1>2, <2>2
    <2>4. (warnDroppedOnce' <=> warnDroppedOnce) /\ (d > 0 => warnDroppedOnce)
      BY <1>1, <1>5 DEF warnIfStartupDropped
    <2>5. \A i \in 1..(n + 1) : i \in 1..n \/ i = n + 1
      BY <1>2
    <2>6. (n + 1) - 1 = n /\ \A i \in 1..n : i \in 1..(n + 1) /\ 1..i-1 \subseteq 1..n
      BY <1>2
    <2>7. /\ \A i \in 1..n :
                text[i].kind = "notice" \/ (text[i].kind = "slog" /\ text[i].dropped > 0)
                  => warnDroppedOnce
          /\ \A i, j \in 1..n : text[i].kind = "notice" /\ text[j].kind = "notice" => i = j
          /\ \A i \in 1..n : text[i].kind = "notice" => text[i].dropped > 0
          /\ \A i \in 1..n : text[i].kind = "slog" /\ text[i].dropped > 0
                => \E j \in 1..i-1 : text[j].kind = "notice"
          /\ warnDroppedOnce => \E j \in 1..n : text[j].kind = "notice"
      BY DEF LgInv, NoticeInv, Telling
    <2> HIDE DEF n, d
    <2>8. NoticeInv'
      <3>1. \A i \in 1..(n + 1) : text'[i].kind = "notice" => i \in 1..n /\ text'[i] = text[i]
        BY <1>3, <2>3, <2>5
      <3>2. \A i \in 1..(n + 1) : text'[i].kind = "slog" /\ text'[i].dropped > 0
               => /\ \E j \in 1..i-1 : text'[j].kind = "notice"
                  /\ warnDroppedOnce
        <4> SUFFICES ASSUME NEW i \in 1..(n + 1), text'[i].kind = "slog", text'[i].dropped > 0
                     PROVE  (\E j \in 1..i-1 : text'[j].kind = "notice") /\ warnDroppedOnce
          OBVIOUS
        <4>1. CASE i \in 1..n
          <5>1. PICK j \in 1..i-1 : text[j].kind = "notice"
            BY <2>3, <2>7, <4>1
          <5>2. j \in 1..n
            BY <2>6, <4>1
          <5> QED BY <2>3, <2>7, <4>1, <5>1, <5>2
        <4>2. CASE i = n + 1
          BY <1>3, <2>3, <2>4, <2>6, <2>7, <4>2
        <4> QED BY <2>5, <4>1, <4>2
      <3>3. warnDroppedOnce => \E j \in 1..(n + 1) : text'[j].kind = "notice"
        BY <2>3, <2>6, <2>7
      <3>4. \A i \in 1..(n + 1) : text'[i].kind = "notice" => text'[i].dropped > 0 /\ warnDroppedOnce
        BY <2>7, <3>1
      <3>5. \A i, j \in 1..(n + 1) : text'[i].kind = "notice" /\ text'[j].kind = "notice" => i = j
        BY <2>7, <3>1
      <3> QED BY <2>3, <2>4, <3>2, <3>3, <3>4, <3>5 DEF NoticeInv, Telling
    <2>9. (\E i \in 1..n : text[i].kind = "panic")
             => (\E i \in 1..(n + 1) : text'[i].kind = "panic")
      BY <2>3, <2>6
    <2> QED BY <1>1, <2>3, <2>8, <2>9 DEF LgInv, LgTypeOK, CloseInv, PanicInv, HasPanic, Plain, Alive, n
  <1> QED BY <1>4, <1>5

LEMMA LgInvariant == LgSpec => []LgInv
  <1>1. LgInit => LgInv
    <2> SUFFICES ASSUME LgInit PROVE LgInv
      OBVIOUS
    <2>1. <<>> \in Seq(LogRecords) /\ Len(<<>>) = 0 /\ 1..0 = {}
      OBVIOUS
    <2> QED BY <2>1 DEF LgInit, LgInv, LgTypeOK, CloseInv, PanicInv, NoticeInv, Plain
  <1>2. LgInv /\ [LgNext]_lgVars => LgInv'
    <2> SUFFICES ASSUME LgInv, [LgNext]_lgVars PROVE LgInv'
      OBVIOUS
    <2>1. CASE UNCHANGED lgVars
      BY <2>1, NoticeFrame DEF LgInv, lgVars, LgTypeOK, CloseInv, PanicInv, Plain
    <2>2. CASE InitLogger \/ EnableDebugLogging \/ SlogLoadNil \/ SlogDrop
               \/ SignalArrives \/ MainReturns \/ LgDone
      BY <2>2, QuietStep
    <2>3. CASE LogCall
      <3>1. main = "run" /\ \E m \in LgMessages : log(m, "log", "run")
        BY <2>3 DEF LogCall
      <3> QED BY <2>3, <3>1, LogStep DEF LogCall
    <2>4. CASE Panic
      <3>1. main = "run" /\ log(<<4, {}>>, "panic", "panic")
            /\ owed' = (initDone /\ IsDebugMode /\ lgInput.filter = <<>>)
        BY <2>4 DEF Panic
      <3> QED BY <3>1, LogStep
    <2>5. CASE LogSidecar \/ BackgroundFlush \/ CloseMainWriter \/ CloseSidecarWriter \/ Exit
      BY <2>5, FlushStep
    <2>6. CASE SlogHandle
      BY <2>6, SlogStep
    <2> QED BY <2>1, <2>2, <2>3, <2>4, <2>5, <2>6 DEF LgNext
  <1> QED BY <1>1, <1>2, PTL DEF LgSpec

(* Whatever the levels, filters and numbers of records, and however        *)
(* return, panic and signal race for Close: nothing accepted is left in a  *)
(* buffer, a panic is recorded, and drops are announced once, in time.     *)
THEOREM LogTheorem == LgSpec => []LogComplete
  <1>1. LgInv => LogComplete
    <2> SUFFICES ASSUME LgInv PROVE LogComplete
      OBVIOUS
    <2>1. text \in Seq(LogRecords) /\ DOMAIN text = 1..Len(text) /\ Len(text) \in Nat
      BY DEF LgInv, LgTypeOK
    <2>2. ExitFlushed
      BY DEF LgInv, CloseInv, ExitFlushed
    <2>3. PanicRecorded
      <3>1. HasPanic(textBuf) => textBuf # <<>>
        BY DEF HasPanic
      <3> QED BY <2>1, <3>1 DEF LgInv, CloseInv, PanicInv, PanicRecorded, HasPanic
    <2>4. Cardinality(Notices) <= 1
      <3>1. CASE Notices = {}
        BY <3>1, FS_EmptySet
      <3>2. CASE Notices # {}
        <4>1. PICK i \in Notices : TRUE
          BY <3>2
        <4>2. Notices = {i}
          BY <2>1, <4>1 DEF LgInv, NoticeInv, Notices
        <4>3. Cardinality({i}) = 1
          BY FS_Singleton
        <4> QED BY <4>2, <4>3
      <3> QED BY <3>1, <3>2
    <2>5. \A i \in DOMAIN text : text[i].kind = "slog" /\ text[i].dropped > 0
             => \E j \in Notices : j < i
      <3> SUFFICES ASSUME NEW i \in 1..Len(text), Telling(i)
                   PROVE  \E j \in Notices : j < i
        BY <2>1 DEF Telling
      <3>1. PICK j \in 1..i-1 : text[j].kind = "notice"
        BY DEF LgInv, NoticeInv
      <3>2. j \in 1..Len(text) /\ j < i
        BY <2>1
      <3> QED BY <2>1, <3>1, <3>2 DEF Notices
    <2> QED BY <2>1, <2>2, <2>3, <2>4, <2>5
        DEF LogComplete, DropsAnnounced, LgInv, NoticeInv, Notices
  <1> QED BY <1>1, LgInvariant, PTL
-----------------------------------------------------------------------------
(* Trace ids and spans.                                                    *)

Ids == Nat \X Nat
AttrKeys == Keys \cup {"none"}
SpanRecords == [id : Ids, parent : Nat, trace : Ids]
StartRecords == [parent : Nat, trace : Ids]
SpanStates == [attrs : SUBSET AttrKeys, err : BOOLEAN, ended : BOOLEAN, version : Nat]
SpanOps == [kind : {"attr", "error", "end"}, span : Nat, key : AttrKeys,
            old : SpanStates]
SpanEvents == [kind : {"span.end", "log"}, span : Nat, id : Ids, attrs : SUBSET AttrKeys,
               err : BOOLEAN, trace : Ids]

TsTypeOK ==
    /\ clock \in Ids /\ issued \in Seq(Ids) /\ span \in Seq(SpanRecords)
    /\ spanState \in Seq(SpanStates) /\ Len(spanState) = Len(span)
    /\ stored \in Seq(SUBSET AttrKeys) /\ Len(stored) = Len(span)
    /\ starting \in [Goroutines -> {NoOp} \cup StartRecords]
    /\ op \in [Goroutines -> {NoOp} \cup SpanOps] /\ events \in Seq(SpanEvents)

(* The clock is the last id drawn.                                         *)
OrderInv == IdsIncrease /\ (issued # <<>> => issued[Len(issued)] = clock)

(* A span is older than its children and gives them its trace id; the      *)
(* trace ids of roots differ, and none is ahead of the clock.              *)
TreeInv ==
    /\ \A s \in 1..Len(span) :
          /\ span[s].parent \in 0..s-1
          /\ span[s].parent # 0 => span[s].trace = span[span[s].parent].trace
          /\ span[s].trace = clock \/ Before(span[s].trace, clock)
    /\ \A s, t \in 1..Len(span) :
          span[s].parent = 0 /\ span[t].parent = 0 /\ span[s].trace = span[t].trace => s = t

(* The same for the spans whose own id is not drawn yet.                   *)
StartInv ==
    /\ \A g \in Goroutines : starting[g] # NoOp =>
          /\ starting[g].parent \in 0..Len(span)
          /\ starting[g].parent # 0 => starting[g].trace = span[starting[g].parent].trace
          /\ starting[g].trace = clock \/ Before(starting[g].trace, clock)
          /\ starting[g].parent = 0 =>
                \A s \in 1..Len(span) : span[s].parent = 0 => span[s].trace # starting[g].trace
    /\ \A g, h \in Goroutines :
          /\ starting[g] # NoOp /\ starting[g].parent = 0
          /\ starting[h] # NoOp /\ starting[h].parent = 0
          /\ starting[g].trace = starting[h].trace
          => g = h

(* What a goroutine loaded was not ended, and the state under the pointer  *)
(* holds every attribute whose SetAttr took effect.                        *)
SwapInv ==
    /\ \A s \in 1..Len(span) : spanState[s].attrs = stored[s]
    /\ \A g \in Goroutines : op[g] # NoOp => op[g].span \in 1..Len(span) /\ ~op[g].old.ended

IsEnd(i, s) == events[i].kind = "span.end" /\ events[i].span = s

EventInv ==
    /\ \A i \in 1..Len(events) :
          events[i].span \in 1..Len(span) /\ events[i].trace = span[events[i].span].trace
    /\ \A i, j \in 1..Len(events) : \A s \in 1..Len(span) : IsEnd(i, s) /\ IsEnd(j, s) => i = j
    /\ \A s \in 1..Len(span) : spanState[s].ended <=> \E i \in 1..Len(events) : IsEnd(i, s)
    /\ \A i \in 1..Len(events) : \A s \in 1..Len(span) :
          IsEnd(i, s) => events[i].attrs = stored[s] \ Reserved

TsInv == TsTypeOK /\ OrderInv /\ TreeInv /\ StartInv /\ SwapInv /\ EventInv

LEMMA BeforeOrder ==
    /\ \A a, b, c \in Ids : Before(a, b) /\ Before(b, c) => Before(a, c)
    /\ \A a \in Ids : ~Before(a, a)
  BY DEF Ids, Before

(* The next id is behind the clock, whatever the wall clock says.          *)
LEMMA NextIdLater ==
    ASSUME clock \in Ids, NEW now \in Nat
    PROVE  nextUUID7TimestampAndSeq(now) \in Ids /\ Before(clock, nextUUID7TimestampAndSeq(now))
  <1>1. clock[1] \in Nat /\ clock[2] \in Nat
    BY DEF Ids
  <1> DEFINE ms == IF now < clock[1] THEN clock[1] ELSE now
  <1>2. ms \in Nat /\ ms >= clock[1]
    BY <1>1
  <1> HIDE DEF ms
  <1>3. nextUUID7TimestampAndSeq(now) =
          IF ms > clock[1] THEN <<ms, 0>>
          ELSE IF clock[2] + 1 >= SeqLimit THEN <<ms + 1, 0>>
          ELSE <<ms, clock[2] + 1>>
    BY DEF nextUUID7TimestampAndSeq, ms
  <1> QED BY <1>1, <1>2, <1>3, TraceSpansAssumption DEF Ids, Before

(* Facts about a sequence and one more element.                            *)
LEMMA AppendIndex ==
    ASSUME NEW S, NEW s \in Seq(S), NEW e \in S
    PROVE  /\ Append(s, e) \in Seq(S) /\ Len(s) \in Nat /\ Len(Append(s, e)) = Len(s) + 1
           /\ \A i \in 1..Len(s) : Append(s, e)[i] = s[i]
           /\ Append(s, e)[Len(s) + 1] = e
           /\ \A i \in 1..Len(s) + 1 : i \in 1..Len(s) \/ i = Len(s) + 1
           /\ \A i \in 1..Len(s) : i \in 1..Len(s) + 1
  OBVIOUS

(* A drawn id is behind every id that is not ahead of the clock.           *)
LEMMA Drawn ==
    ASSUME TsInv, NEW now \in 0..MaxMs,
           clock' = nextUUID7TimestampAndSeq(now), issued' = Append(issued, clock')
    PROVE  /\ clock' \in Ids /\ issued' \in Seq(Ids) /\ OrderInv'
           /\ \A a \in Ids : a = clock \/ Before(a, clock) => Before(a, clock') /\ a # clock'
  <1>1. /\ clock \in Ids /\ issued \in Seq(Ids) /\ clock' \in Ids /\ Before(clock, clock')
    BY TraceSpansAssumption, NextIdLater DEF TsInv, TsTypeOK
  <1>2. \A a \in Ids : a = clock \/ Before(a, clock) => Before(a, clock') /\ a # clock'
    BY <1>1, BeforeOrder
  <1> DEFINE k == Len(issued)
  <1>3. /\ issued' \in Seq(Ids) /\ k \in Nat /\ Len(issued') = k + 1
        /\ \A i \in 1..k : issued'[i] = issued[i]
        /\ issued'[k + 1] = clock'
    BY <1>1, AppendIndex
  <1>4. \A i \in 1..(k + 1) - 1 : Before(issued'[i], issued'[i + 1])
    <2> TAKE i \in 1..(k + 1) - 1
    <2>1. CASE i \in 1..k - 1
      <3>1. i \in 1..k /\ i + 1 \in 1..k
        BY <1>3, <2>1
      <3>2. Before(issued[i], issued[i + 1])
        BY <2>1 DEF TsInv, OrderInv, IdsIncrease
      <3> QED BY <1>3, <3>1, <3>2
    <2>2. CASE i = k
      <3>1. k \in 1..k /\ issued # <<>>
        BY <1>3, <2>2
      <3>2. issued'[k] = clock
        BY <1>3, <3>1 DEF TsInv, OrderInv
      <3> QED BY <1>1, <1>3, <2>2, <3>2
    <2> QED BY <1>3, <2>1, <2>2
  <1> QED BY <1>1, <1>2, <1>3, <1>4 DEF OrderInv, IdsIncrease

(* No span has a trace id that is ahead of the clock.                      *)
LEMMA TracesDrawn ==
    ASSUME TsInv
    PROVE  /\ \A s \in 1..Len(span) :
                 /\ span[s] \in SpanRecords /\ span[s].trace \in Ids
                 /\ span[s].trace = clock \/ Before(span[s].trace, clock)
           /\ \A g \in Goroutines : starting[g] # NoOp =>
                 /\ starting[g].parent \in 0..Len(span) /\ starting[g].trace \in Ids
                 /\ starting[g].trace = clock \/ Before(starting[g].trace, clock)
           /\ Len(span) \in Nat
  <1>1. \A s \in 1..Len(span) : span[s] \in SpanRecords
    BY DEF TsInv, TsTypeOK
  <1>2. \A g \in Goroutines : starting[g] # NoOp => starting[g] \in StartRecords
    BY DEF TsInv, TsTypeOK
  <1>3. Len(span) \in Nat
    BY DEF TsInv, TsTypeOK
  <1> QED BY <1>1, <1>2, <1>3 DEF TsInv, TreeInv, StartInv, SpanRecords, StartRecords

(* A trace id is drawn: it is no span's, and no other goroutine's.         *)
LEMMA StartSpanStep ==
    ASSUME TsInv, NEW g \in Goroutines, NEW parent \in 0..Len(span), NEW now \in 0..MaxMs,
           StartSpan(g, parent, now)
    PROVE  TsInv'
  <1> DEFINE rec == [parent |-> parent, trace |-> IF parent = 0 THEN clock' ELSE span[parent].trace]
  <1>1. /\ clock' = nextUUID7TimestampAndSeq(now) /\ issued' = Append(issued, clock')
        /\ starting' = [starting EXCEPT ![g] = rec]
        /\ UNCHANGED <<span, spanState, op, stored, events>>
    BY DEF StartSpan
  <1>2. /\ clock' \in Ids /\ issued' \in Seq(Ids) /\ OrderInv'
        /\ \A a \in Ids : a = clock \/ Before(a, clock) => Before(a, clock') /\ a # clock'
    BY <1>1, Drawn
  <1>3. parent # 0 => parent \in 1..Len(span)
    BY TracesDrawn
  <1>4. /\ rec \in StartRecords /\ rec.parent = parent
        /\ rec.trace = (IF parent = 0 THEN clock' ELSE span[parent].trace)
    BY <1>2, <1>3, TracesDrawn DEF StartRecords
  <1> HIDE DEF rec
  <1>5. /\ starting' \in [Goroutines -> {NoOp} \cup StartRecords] /\ starting'[g] = rec
        /\ \A h \in Goroutines : h # g => starting'[h] = starting[h]
    BY <1>1, <1>4 DEF TsInv, TsTypeOK
  <1>6. TsTypeOK'
    BY <1>1, <1>2, <1>5 DEF TsInv, TsTypeOK
  <1>7. \A s \in 1..Len(span) : Before(span[s].trace, clock') /\ span[s].trace # clock'
    BY <1>2, TracesDrawn
  <1>8. \A h \in Goroutines : starting[h] # NoOp =>
           Before(starting[h].trace, clock') /\ starting[h].trace # clock'
    BY <1>2, TracesDrawn
  <1>9. TreeInv'
    BY <1>1, <1>7 DEF TsInv, TreeInv
  <1>10. StartInv'
    <2>1. ASSUME NEW h \in Goroutines, starting'[h] # NoOp
          PROVE  /\ starting'[h].parent \in 0..Len(span)
                 /\ starting'[h].parent # 0 => starting'[h].trace = span[starting'[h].parent].trace
                 /\ starting'[h].trace = clock' \/ Before(starting'[h].trace, clock')
                 /\ starting'[h].parent = 0 =>
                       \A s \in 1..Len(span) : span[s].parent = 0 => span[s].trace # starting'[h].trace
      <3>1. CASE h = g
        BY <1>3, <1>4, <1>5, <1>7, <3>1
      <3>2. CASE h # g
        BY <1>5, <1>8, <2>1, <3>2 DEF TsInv, StartInv
      <3> QED BY <3>1, <3>2
    <2>2. ASSUME NEW a \in Goroutines, NEW b \in Goroutines,
                 starting'[a] # NoOp, starting'[a].parent = 0,
                 starting'[b] # NoOp, starting'[b].parent = 0,
                 starting'[a].trace = starting'[b].trace
          PROVE  a = b
      <3>1. CASE a # g /\ b # g
        BY <1>5, <2>2, <3>1 DEF TsInv, StartInv
      <3>2. CASE a = g /\ b # g
        BY <1>4, <1>5, <1>8, <2>2, <3>2
      <3>3. CASE a # g /\ b = g
        BY <1>4, <1>5, <1>8, <2>2, <3>3
      <3> QED BY <3>1, <3>2, <3>3
    <2> QED BY <1>1, <2>1, <2>2 DEF StartInv
  <1>11. SwapInv' /\ EventInv'
    BY <1>1 DEF TsInv, SwapInv, EventInv, IsEnd
  <1> QED BY <1>2, <1>6, <1>9, <1>10, <1>11 DEF TsInv

(* A span is opened with the trace id its goroutine drew: its record is    *)
(* the last.                                                               *)
LEMMA SpanStartedStep ==
    ASSUME TsInv, NEW g \in Goroutines, NEW now \in 0..MaxMs, SpanStarted(g, now)
    PROVE  TsInv'
  <1> DEFINE n == Len(span)
             parent == starting[g].parent
             trace == starting[g].trace
             rec == [id |-> clock', parent |-> parent, trace |-> trace]
             st == [attrs |-> {}, err |-> FALSE, ended |-> FALSE, version |-> 0]
  <1>1. /\ starting[g] # NoOp
        /\ clock' = nextUUID7TimestampAndSeq(now) /\ issued' = Append(issued, clock')
        /\ span' = Append(span, rec) /\ spanState' = Append(spanState, st)
        /\ stored' = Append(stored, {}) /\ starting' = [starting EXCEPT ![g] = NoOp]
        /\ UNCHANGED <<op, events>>
    BY DEF SpanStarted
  <1>2. /\ clock' \in Ids /\ issued' \in Seq(Ids) /\ OrderInv'
        /\ \A a \in Ids : a = clock \/ Before(a, clock) => Before(a, clock') /\ a # clock'
    BY <1>1, Drawn
  <1>3. /\ n \in Nat /\ Len(spanState) = n /\ Len(stored) = n
        /\ \A s \in 1..n : span[s] \in SpanRecords
        /\ parent \in 0..n /\ trace \in Ids /\ (parent # 0 => parent \in 1..n)
    BY <1>1, TracesDrawn DEF TsInv, TsTypeOK
  <1>4. /\ parent # 0 => trace = span[parent].trace
        /\ parent = 0 => \A s \in 1..n : span[s].parent = 0 => span[s].trace # trace
    BY <1>1 DEF TsInv, StartInv
  <1> HIDE DEF parent, trace
  <1>5. rec \in SpanRecords /\ rec.parent = parent /\ rec.trace = trace
    BY <1>2, <1>3 DEF SpanRecords
  <1>6. st \in SpanStates /\ st.attrs = {} /\ ~st.ended
    BY DEF SpanStates
  <1> HIDE DEF rec, st
  <1>7. /\ span' \in Seq(SpanRecords) /\ Len(span') = n + 1
        /\ \A s \in 1..n : span'[s] = span[s]
        /\ span'[n + 1] = rec
    BY <1>1, <1>5, AppendIndex DEF TsInv, TsTypeOK
  <1>8. /\ spanState' \in Seq(SpanStates) /\ Len(spanState') = n + 1
        /\ \A s \in 1..n : spanState'[s] = spanState[s]
        /\ spanState'[n + 1] = st
    BY <1>1, <1>3, <1>6, AppendIndex DEF TsInv, TsTypeOK
  <1>9. /\ stored' \in Seq(SUBSET AttrKeys) /\ Len(stored') = n + 1
        /\ \A s \in 1..n : stored'[s] = stored[s]
        /\ stored'[n + 1] = {}
    <2>1. {} \in SUBSET AttrKeys
      OBVIOUS
    <2> QED BY <1>1, <1>3, <2>1, AppendIndex DEF TsInv, TsTypeOK
  <1>10. /\ starting' \in [Goroutines -> {NoOp} \cup StartRecords] /\ starting'[g] = NoOp
         /\ \A h \in Goroutines : h # g => starting'[h] = starting[h]
    BY <1>1 DEF TsInv, TsTypeOK
  <1>11. /\ \A s \in 1..(n + 1) : s \in 1..n \/ s = n + 1
         /\ \A s \in 1..n : s \in 1..(n + 1)
         /\ \A s \in 0..n : s \in 0..(n + 1)
    BY <1>3
  <1>12. TsTypeOK'
    BY <1>1, <1>2, <1>7, <1>8, <1>9, <1>10 DEF TsInv, TsTypeOK
  <1>13. /\ \A s \in 1..n : Before(span[s].trace, clock')
         /\ Before(trace, clock')
         /\ \A h \in Goroutines : starting[h] # NoOp => Before(starting[h].trace, clock')
    BY <1>1, <1>2, TracesDrawn DEF trace
  <1>14. TreeInv'
    <2>1. ASSUME NEW s \in 1..(n + 1)
          PROVE  /\ span'[s].parent \in 0..s-1
                 /\ span'[s].parent # 0 => span'[s].trace = span'[span'[s].parent].trace
                 /\ Before(span'[s].trace, clock')
      <3>1. CASE s \in 1..n
        <4>1. span'[s] = span[s] /\ span[s].parent \in 0..s-1
          BY <1>7, <3>1 DEF TsInv, TreeInv
        <4>2. span[s].parent # 0 => span[s].parent \in 1..n
          BY <1>3, <3>1, <4>1
        <4>3. span[s].parent # 0 => span[s].trace = span[span[s].parent].trace
          BY <3>1 DEF TsInv, TreeInv
        <4> QED BY <1>7, <1>13, <3>1, <4>1, <4>2, <4>3
      <3>2. CASE s = n + 1
        <4>1. span'[s] = rec /\ rec.parent \in 0..s-1
          BY <1>3, <1>5, <1>7, <3>2
        <4>2. parent # 0 => rec.trace = span'[parent].trace
          BY <1>3, <1>4, <1>5, <1>7
        <4> QED BY <1>5, <1>13, <4>1, <4>2
      <3> QED BY <1>11, <3>1, <3>2
    <2>2. ASSUME NEW s \in 1..(n + 1), NEW t \in 1..(n + 1),
                 span'[s].parent = 0, span'[t].parent = 0, span'[s].trace = span'[t].trace
          PROVE  s = t
      <3>1. CASE s \in 1..n /\ t \in 1..n
        BY <1>7, <2>2, <3>1 DEF TsInv, TreeInv
      <3>2. ASSUME NEW a \in 1..n, span'[a].parent = 0, span'[a].trace = span'[n + 1].trace,
                   span'[n + 1].parent = 0
            PROVE  FALSE
        BY <1>4, <1>5, <1>7, <3>2
      <3> QED BY <1>11, <2>2, <3>1, <3>2
    <2> QED BY <1>7, <2>1, <2>2 DEF TreeInv
  <1>15. StartInv'
    <2>1. ASSUME NEW h \in Goroutines, starting'[h] # NoOp
          PROVE  /\ h # g /\ starting'[h] = starting[h] /\ starting[h] # NoOp
                 /\ starting[h].parent \in 0..n
                 /\ starting[h].parent # 0 => starting[h].trace = span[starting[h].parent].trace
      BY <1>10, <2>1 DEF TsInv, StartInv
    <2>2. ASSUME NEW h \in Goroutines, starting'[h] # NoOp
          PROVE  /\ starting'[h].parent \in 0..(n + 1)
                 /\ starting'[h].parent # 0 => starting'[h].trace = span'[starting'[h].parent].trace
                 /\ Before(starting'[h].trace, clock')
                 /\ starting'[h].parent = 0 =>
                       \A s \in 1..(n + 1) : span'[s].parent = 0 => span'[s].trace # starting'[h].trace
      <3>1. starting[h].parent # 0 => starting[h].parent \in 1..n
        BY <1>3, <2>1, <2>2
      <3>2. /\ starting'[h].parent \in 0..(n + 1)
            /\ starting'[h].parent # 0 => starting'[h].trace = span'[starting'[h].parent].trace
            /\ Before(starting'[h].trace, clock')
        BY <1>7, <1>11, <1>13, <2>1, <2>2, <3>1
      <3>3. ASSUME starting[h].parent = 0, NEW s \in 1..(n + 1), span'[s].parent = 0
            PROVE  span'[s].trace # starting[h].trace
        <4>1. CASE s \in 1..n
          BY <1>7, <2>1, <2>2, <3>3, <4>1 DEF TsInv, StartInv
        <4>2. CASE s = n + 1
          <5>1. parent = 0 /\ span'[s].trace = trace
            BY <1>5, <1>7, <3>3, <4>2
          <5> QED BY <1>1, <2>1, <2>2, <3>3, <5>1 DEF TsInv, StartInv, parent, trace
        <4> QED BY <1>11, <4>1, <4>2
      <3> QED BY <2>1, <2>2, <3>2, <3>3
    <2>3. ASSUME NEW a \in Goroutines, NEW b \in Goroutines,
                 starting'[a] # NoOp, starting'[a].parent = 0,
                 starting'[b] # NoOp, starting'[b].parent = 0,
                 starting'[a].trace = starting'[b].trace
          PROVE  a = b
      BY <2>1, <2>3 DEF TsInv, StartInv
    <2> QED BY <1>7, <2>2, <2>3 DEF StartInv
  <1>16. SwapInv'
    BY <1>1, <1>6, <1>7, <1>8, <1>9, <1>11 DEF TsInv, SwapInv
  <1>17. EventInv'
    <2>1. \A i \in 1..Len(events) : events[i].span \in 1..n
      BY DEF TsInv, EventInv
    <2>2. n + 1 \notin 1..n
      BY <1>3
    <2>3. \A i \in 1..Len(events) : ~IsEnd(i, n + 1)
      BY <2>1, <2>2 DEF IsEnd
    <2>4. \A i, s : IsEnd(i, s)' <=> IsEnd(i, s)
      BY <1>1 DEF IsEnd
    <2>5. \A i \in 1..Len(events) :
             events[i].span \in 1..(n + 1) /\ events[i].trace = span'[events[i].span].trace
      BY <1>7, <1>11, <2>1 DEF TsInv, EventInv
    <2>6. \A i, j \in 1..Len(events) : \A s \in 1..(n + 1) : IsEnd(i, s) /\ IsEnd(j, s) => i = j
      BY <1>11, <2>3 DEF TsInv, EventInv
    <2>7. \A s \in 1..(n + 1) : spanState'[s].ended <=> \E i \in 1..Len(events) : IsEnd(i, s)
      BY <1>6, <1>8, <1>11, <2>3 DEF TsInv, EventInv
    <2>8. \A i \in 1..Len(events) : \A s \in 1..(n + 1) :
             IsEnd(i, s) => events[i].attrs = stored'[s] \ Reserved
      BY <1>9, <1>11, <2>3 DEF TsInv, EventInv
    <2> QED BY <1>1, <1>7, <2>4, <2>5, <2>6, <2>7, <2>8 DEF EventInv
  <1> QED BY <1>2, <1>12, <1>14, <1>15, <1>16, <1>17 DEF TsInv

(* One more event: what it must say to keep the invariant.                 *)
LEMMA EventAppended ==
    ASSUME TsInv, NEW s \in 1..Len(span), NEW e \in SpanEvents,
           events' = Append(events, e), UNCHANGED <<span, stored>>,
           e.span = s, e.trace = span[s].trace,
           Len(spanState') = Len(spanState),
           \/ e.kind = "log" /\ spanState' = spanState
           \/ /\ e.kind = "span.end" /\ e.attrs = stored[s] \ Reserved
              /\ ~spanState[s].ended /\ spanState'[s].ended
              /\ \A t \in 1..Len(span) : t # s => spanState'[t] = spanState[t]
    PROVE  events' \in Seq(SpanEvents) /\ EventInv'
  <1> DEFINE n == Len(span)
             k == Len(events)
             End(i, t) == events'[i].kind = "span.end" /\ events'[i].span = t
  <1>1. /\ events' \in Seq(SpanEvents) /\ k \in Nat /\ Len(events') = k + 1
        /\ \A i \in 1..k : events'[i] = events[i]
        /\ events'[k + 1] = e
        /\ \A i \in 1..(k + 1) : i \in 1..k \/ i = k + 1
        /\ \A i \in 1..k : i \in 1..(k + 1)
    BY AppendIndex DEF TsInv, TsTypeOK
  <1> HIDE DEF k
  <1>2. \A i \in 1..k : \A t : End(i, t) <=> IsEnd(i, t)
    BY <1>1 DEF IsEnd
  <1>3. \A t : End(k + 1, t) <=> e.kind = "span.end" /\ t = s
    BY <1>1
  <1> HIDE DEF End
  <1>4. e.kind = "span.end" => \A i \in 1..k : ~IsEnd(i, s)
    BY DEF TsInv, EventInv, k
  <1>5. \A i \in 1..(k + 1) :
           events'[i].span \in 1..n /\ events'[i].trace = span[events'[i].span].trace
    BY <1>1 DEF TsInv, EventInv, k
  <1>6. \A i, j \in 1..(k + 1) : \A t \in 1..n : End(i, t) /\ End(j, t) => i = j
    <2>1. \A i, j \in 1..k : \A t \in 1..n : IsEnd(i, t) /\ IsEnd(j, t) => i = j
      BY DEF TsInv, EventInv, k
    <2> QED BY <1>1, <1>2, <1>3, <1>4, <2>1
  <1>7. \A t \in 1..n : spanState'[t].ended <=> \E i \in 1..(k + 1) : End(i, t)
    <2>1. \A t \in 1..n : spanState[t].ended <=> \E i \in 1..k : IsEnd(i, t)
      BY DEF TsInv, EventInv, k
    <2>2. \A t \in 1..n : (\E i \in 1..(k + 1) : End(i, t))
             <=> (\E i \in 1..k : IsEnd(i, t)) \/ (e.kind = "span.end" /\ t = s)
      <3>1. k + 1 \in 1..(k + 1)
        BY <1>1
      <3> QED BY <1>1, <1>2, <1>3, <3>1
    <2>3. CASE e.kind = "log"
      BY <2>1, <2>2, <2>3
    <2>4. CASE e.kind = "span.end"
      <3> TAKE t \in 1..n
      <3>1. CASE t = s
        BY <2>2, <2>4, <3>1
      <3>2. CASE t # s
        BY <2>1, <2>2, <2>4, <3>2
      <3> QED BY <3>1, <3>2
    <2> QED BY <2>3, <2>4
  <1>8. \A i \in 1..(k + 1) : \A t \in 1..n : End(i, t) => events'[i].attrs = stored[t] \ Reserved
    <2>1. \A i \in 1..k : \A t \in 1..n : IsEnd(i, t) => events[i].attrs = stored[t] \ Reserved
      BY DEF TsInv, EventInv, k
    <2> QED BY <1>1, <1>2, <1>3, <2>1
  <1>9. \A i, t : IsEnd(i, t)' <=> End(i, t)
    BY DEF IsEnd, End
  <1>10. span' = span /\ stored' = stored /\ Len(span') = n
    OBVIOUS
  <1> HIDE DEF n
  <1>15. Len(events') = k + 1
    BY <1>1
  <1>11. \A i \in 1..Len(events') :
             events'[i].span \in 1..n /\ events'[i].trace = span'[events'[i].span].trace
    BY <1>5, <1>10, <1>15
  <1>12. \A i, j \in 1..Len(events') : \A t \in 1..n : IsEnd(i, t)' /\ IsEnd(j, t)' => i = j
    BY <1>6, <1>9, <1>15
  <1>13. \A t \in 1..n : spanState'[t].ended <=> \E i \in 1..Len(events') : IsEnd(i, t)'
    BY <1>7, <1>9, <1>15
  <1>14. \A i \in 1..Len(events') : \A t \in 1..n :
             IsEnd(i, t)' => events'[i].attrs = stored'[t] \ Reserved
    BY <1>8, <1>9, <1>10, <1>15
  <1> QED BY <1>1, <1>10, <1>11, <1>12, <1>13, <1>14 DEF EventInv

LEMMA LogInContextStep ==
    ASSUME TsInv, NEW s \in 1..Len(span), NEW t, LogInContext(s, t) PROVE TsInv'
  <1> DEFINE e == marshalSidecarEvent("log", s, t, {}, FALSE)
  <1>1. events' = Append(events, e) /\ UNCHANGED <<clock, issued, span, spanState, starting, op, stored>>
    BY DEF LogInContext
  <1>2. span[s] \in SpanRecords
    BY DEF TsInv, TsTypeOK
  <1>3. span[s].trace \in Ids /\ span[s].id \in Ids /\ s \in Nat
    BY <1>2 DEF SpanRecords
  <1>4. span[s].trace # <<>>
    <2>1. PICK a, b \in Nat : span[s].trace = <<a, b>>
      BY <1>3 DEF Ids
    <2>2. Len(<<a, b>>) = 2 /\ Len(<<>>) = 0
      OBVIOUS
    <2> QED BY <2>1, <2>2
  <1>5. e = [kind |-> "log", span |-> s, id |-> span[s].id, attrs |-> {}, err |-> FALSE,
             trace |-> span[s].trace]
    BY <1>4 DEF marshalSidecarEvent
  <1> HIDE DEF e
  <1>8. {} \in SUBSET AttrKeys /\ FALSE \in BOOLEAN
    OBVIOUS
  <1>6. e \in SpanEvents /\ e.kind = "log" /\ e.span = s /\ e.trace = span[s].trace
    BY <1>3, <1>5, <1>8 DEF SpanEvents
  <1>7. events' \in Seq(SpanEvents) /\ EventInv'
    BY <1>1, <1>6, EventAppended
  <1> QED BY <1>1, <1>7 DEF TsInv, TsTypeOK, OrderInv, IdsIncrease, TreeInv, StartInv, SwapInv

(* Load and Retry: what is kept of the state is not ended.                 *)
LEMMA LoadStep ==
    ASSUME TsInv, NEW g \in Goroutines,
           \/ \E s \in Opened : \E k \in Keys : LoadSpan(g, s, "attr", k)
           \/ \E s \in Opened, kind \in {"error", "end"} : LoadSpan(g, s, kind, "none")
           \/ Retry(g)
    PROVE  TsInv'
  <1>1. UNCHANGED <<clock, issued, span, spanState, starting, stored, events>>
    BY DEF LoadSpan, Retry
  <1>2. \E o \in {NoOp} \cup SpanOps :
           /\ op' = [op EXCEPT ![g] = o]
           /\ o # NoOp => o.span \in 1..Len(span) /\ ~o.old.ended
    <2>0. /\ Opened = 1..Len(span) /\ Len(spanState) = Len(span)
          /\ \A s \in 1..Len(span) : spanState[s] \in SpanStates /\ s \in Nat
      BY DEF TsInv, TsTypeOK, Opened
    <2>1. CASE \E s \in Opened : \E k \in Keys : LoadSpan(g, s, "attr", k)
      <3>1. PICK s \in Opened, k \in Keys : LoadSpan(g, s, "attr", k)
        BY <2>1
      <3> DEFINE o == [kind |-> "attr", span |-> s, key |-> k, old |-> spanState[s]]
      <3>2. op' = [op EXCEPT ![g] = o] /\ ~spanState[s].ended
        BY <3>1 DEF LoadSpan
      <3>3. o \in SpanOps /\ o.span = s /\ o.old = spanState[s]
        BY <2>0 DEF SpanOps, AttrKeys
      <3> HIDE DEF o
      <3> QED BY <2>0, <3>2, <3>3
    <2>2. CASE \E s \in Opened, kind \in {"error", "end"} : LoadSpan(g, s, kind, "none")
      <3>1. PICK s \in Opened, kind \in {"error", "end"} : LoadSpan(g, s, kind, "none")
        BY <2>2
      <3> DEFINE o == [kind |-> kind, span |-> s, key |-> "none", old |-> spanState[s]]
      <3>2. op' = [op EXCEPT ![g] = o] /\ ~spanState[s].ended
        BY <3>1 DEF LoadSpan
      <3>3. o \in SpanOps /\ o.span = s /\ o.old = spanState[s]
        BY <2>0 DEF SpanOps, AttrKeys
      <3> HIDE DEF o
      <3> QED BY <2>0, <3>2, <3>3
    <2>3. CASE Retry(g)
      <3> DEFINE now == spanState[op[g].span]
                 o == [op[g] EXCEPT !.old = now]
      <3>1. op[g] # NoOp /\ op' = [op EXCEPT ![g] = IF now.ended THEN NoOp ELSE o]
        BY <2>3 DEF Retry, TsInv, TsTypeOK
      <3>2. op[g] \in SpanOps /\ op[g].span \in 1..Len(span)
        BY <3>1 DEF TsInv, TsTypeOK, SwapInv
      <3>3. now \in SpanStates
        BY <2>0, <3>2
      <3> HIDE DEF now
      <3>4. o \in SpanOps /\ o.span = op[g].span /\ o.old = now
        BY <3>2, <3>3 DEF SpanOps
      <3> HIDE DEF o
      <3>5. CASE now.ended
        BY <3>1, <3>5
      <3>6. CASE ~now.ended
        BY <3>1, <3>2, <3>4, <3>6
      <3> QED BY <3>5, <3>6
    <2> QED BY <2>1, <2>2, <2>3
  <1>3. PICK o \in {NoOp} \cup SpanOps :
           /\ op' = [op EXCEPT ![g] = o]
           /\ o # NoOp => o.span \in 1..Len(span) /\ ~o.old.ended
    BY <1>2
  <1>4. /\ op' \in [Goroutines -> {NoOp} \cup SpanOps] /\ op'[g] = o
        /\ \A h \in Goroutines : h # g => op'[h] = op[h]
    BY <1>3 DEF TsInv, TsTypeOK
  <1>5. TsTypeOK'
    BY <1>1, <1>4 DEF TsInv, TsTypeOK
  <1>6. SwapInv'
    BY <1>1, <1>3, <1>4 DEF TsInv, SwapInv
  <1>7. EventInv'
    BY <1>1 DEF TsInv, EventInv, IsEnd
  <1> QED BY <1>1, <1>5, <1>6, <1>7 DEF TsInv, OrderInv, IdsIncrease, TreeInv, StartInv

(* A compare-and-swap that succeeds: the state is the one that was loaded. *)
LEMMA SwapStep == ASSUME TsInv, NEW g \in Goroutines, CompareAndSwap(g) PROVE TsInv'
  <1> DEFINE o == op[g]
             s == o.span
             old == o.old
             new == Swapped(g)
  <1>1. /\ o # NoOp /\ spanState[s] = old
        /\ spanState' = [spanState EXCEPT ![s] = new]
        /\ stored' = IF o.kind = "attr" THEN [stored EXCEPT ![s] = @ \cup {o.key}] ELSE stored
        /\ events' = IF o.kind = "end" THEN emitSpanEnd(s, old) ELSE events
        /\ op' = [op EXCEPT ![g] = NoOp]
        /\ UNCHANGED <<clock, issued, span, starting>>
    BY DEF CompareAndSwap, casSucceeds
  <1>2. /\ o \in SpanOps /\ s \in 1..Len(span) /\ ~old.ended
    BY <1>1 DEF TsInv, TsTypeOK, SwapInv
  <1>3. old \in SpanStates /\ o.kind \in {"attr", "error", "end"} /\ o.key \in AttrKeys
    BY <1>2 DEF SpanOps
  <1> HIDE DEF o, s, old
  <1>4. /\ new \in SpanStates /\ (new.ended <=> o.kind = "end")
        /\ new.attrs = IF o.kind = "attr" THEN old.attrs \cup {o.key} ELSE old.attrs
    <2> DEFINE next == [old EXCEPT !.version = @ + 1]
    <2>1. next \in SpanStates /\ next.attrs = old.attrs /\ ~next.ended
      BY <1>2, <1>3 DEF SpanStates
    <2> HIDE DEF next
    <2>2. CASE o.kind = "attr"
      <3>1. new = [next EXCEPT !.attrs = @ \cup {o.key}]
        BY <2>2 DEF Swapped, o, old, next
      <3> QED BY <1>3, <2>1, <2>2, <3>1 DEF SpanStates
    <2>3. CASE o.kind = "error"
      <3>1. new = [next EXCEPT !.err = TRUE]
        BY <2>3 DEF Swapped, o, old, next
      <3> QED BY <1>3, <2>1, <2>3, <3>1 DEF SpanStates
    <2>4. CASE o.kind = "end"
      <3>1. new = [next EXCEPT !.ended = TRUE]
        BY <2>4 DEF Swapped, o, old, next
      <3> QED BY <1>3, <2>1, <2>4, <3>1 DEF SpanStates
    <2> QED BY <1>3, <2>2, <2>3, <2>4
  <1> HIDE DEF new
  <1>5. /\ spanState \in Seq(SpanStates) /\ Len(spanState) = Len(span) /\ Len(span) \in Nat
        /\ stored \in Seq(SUBSET AttrKeys) /\ Len(stored) = Len(span)
        /\ stored[s] \in SUBSET AttrKeys
    BY <1>2 DEF TsInv, TsTypeOK
  <1>6. /\ spanState' \in Seq(SpanStates) /\ Len(spanState') = Len(span)
        /\ spanState'[s] = new
        /\ \A t \in 1..Len(span) : t # s => spanState'[t] = spanState[t]
    BY <1>1, <1>2, <1>4, <1>5
  <1>7. /\ stored' \in Seq(SUBSET AttrKeys) /\ Len(stored') = Len(span)
        /\ stored'[s] = IF o.kind = "attr" THEN stored[s] \cup {o.key} ELSE stored[s]
        /\ \A t \in 1..Len(span) : t # s => stored'[t] = stored[t]
    <2> DEFINE v == stored[s] \cup {o.key}
    <2>1. v \in SUBSET AttrKeys
      BY <1>3, <1>5
    <2>2. o.kind = "attr" => stored' = [stored EXCEPT ![s] = v]
      BY <1>1
    <2> HIDE DEF v
    <2>3. CASE o.kind = "attr"
      <3>1. /\ stored' \in Seq(SUBSET AttrKeys) /\ Len(stored') = Len(span) /\ stored'[s] = v
            /\ \A t \in 1..Len(span) : t # s => stored'[t] = stored[t]
        BY <1>2, <1>5, <2>1, <2>2, <2>3
      <3> QED BY <2>3, <3>1 DEF v
    <2>4. CASE o.kind # "attr"
      BY <1>1, <1>5, <2>4
    <2> QED BY <2>3, <2>4
  <1>8. /\ op' \in [Goroutines -> {NoOp} \cup SpanOps] /\ op'[g] = NoOp
        /\ \A h \in Goroutines : h # g => op'[h] = op[h]
    BY <1>1 DEF TsInv, TsTypeOK
  <1>9. SwapInv'
    <2>1. \A t \in 1..Len(span) : spanState'[t].attrs = stored'[t]
      <3>1. \A t \in 1..Len(span) : spanState[t].attrs = stored[t]
        BY DEF TsInv, SwapInv
      <3>2. new.attrs = stored'[s]
        BY <1>1, <1>2, <1>4, <1>7, <3>1
      <3> QED BY <1>6, <1>7, <3>1, <3>2
    <2> QED BY <1>1, <1>8, <2>1 DEF TsInv, SwapInv
  <1>10. events' \in Seq(SpanEvents) /\ EventInv'
    <2>1. CASE o.kind = "end"
      <3> DEFINE e == marshalSidecarEvent("span.end", s, span[s].trace, old.attrs \ Reserved, old.err)
      <3>1. events' = Append(events, e) /\ stored' = stored
        BY <1>1, <2>1 DEF emitSpanEnd
      <3>2. span[s] \in SpanRecords
        BY <1>2 DEF TsInv, TsTypeOK
      <3>3. span[s].trace \in Ids /\ span[s].id \in Ids /\ s \in Nat
        BY <1>2, <3>2 DEF SpanRecords
      <3>4. old.attrs \in SUBSET AttrKeys /\ old.err \in BOOLEAN /\ old.attrs = stored[s]
        BY <1>1, <1>2, <1>3 DEF SpanStates, TsInv, SwapInv
      <3>5. e = [kind |-> "span.end", span |-> s, id |-> span[s].id, attrs |-> old.attrs \ Reserved,
                 err |-> old.err, trace |-> span[s].trace]
        BY DEF marshalSidecarEvent
      <3>6. old.attrs \ Reserved \in SUBSET AttrKeys
        BY <3>4
      <3>7. /\ e \in SpanEvents /\ e.kind = "span.end" /\ e.span = s /\ e.trace = span[s].trace
            /\ e.attrs = old.attrs \ Reserved
        BY <3>3, <3>4, <3>5, <3>6 DEF SpanEvents
      <3> HIDE DEF e
      <3>8. ~spanState[s].ended /\ spanState'[s].ended /\ Len(spanState') = Len(spanState)
        BY <1>1, <1>2, <1>4, <1>5, <1>6, <2>1
      <3> QED BY <1>1, <1>2, <1>6, <3>1, <3>4, <3>7, <3>8, EventAppended
    <2>2. CASE o.kind # "end"
      <3>1. events' = events
        BY <1>1, <2>2
      <3>2. \A t \in 1..Len(span) : spanState'[t].ended <=> spanState[t].ended
        BY <1>1, <1>2, <1>4, <1>6, <2>2
      <3>3. \A i \in 1..Len(events) : ~IsEnd(i, s)
        BY <1>1, <1>2 DEF TsInv, EventInv
      <3>4. \A i, t : IsEnd(i, t)' <=> IsEnd(i, t)
        BY <3>1 DEF IsEnd
      <3>5. \A i \in 1..Len(events) : \A t \in 1..Len(span) :
               IsEnd(i, t) => events[i].attrs = stored'[t] \ Reserved
        BY <1>7, <3>3 DEF TsInv, EventInv
      <3>6. span' = span
        BY <1>1
      <3>7. events' \in Seq(SpanEvents)
        BY <3>1 DEF TsInv, TsTypeOK
      <3>8. /\ \A i \in 1..Len(events') :
                  events'[i].span \in 1..Len(span') /\ events'[i].trace = span'[events'[i].span].trace
            /\ \A i, j \in 1..Len(events') : \A t \in 1..Len(span') :
                  IsEnd(i, t)' /\ IsEnd(j, t)' => i = j
        BY <3>1, <3>4, <3>6 DEF TsInv, EventInv
      <3>9. \A t \in 1..Len(span') : spanState'[t].ended <=> \E i \in 1..Len(events') : IsEnd(i, t)'
        BY <3>1, <3>2, <3>4, <3>6 DEF TsInv, EventInv
      <3>10. \A i \in 1..Len(events') : \A t \in 1..Len(span') :
                IsEnd(i, t)' => events'[i].attrs = stored'[t] \ Reserved
        BY <3>1, <3>4, <3>5, <3>6
      <3> QED BY <3>7, <3>8, <3>9, <3>10 DEF EventInv
    <2> QED BY <2>1, <2>2
  <1>11. TsTypeOK'
    BY <1>1, <1>6, <1>7, <1>8, <1>10 DEF TsInv, TsTypeOK
  <1> QED BY <1>1, <1>9, <1>10, <1>11 DEF TsInv, OrderInv, IdsIncrease, TreeInv, StartInv

LEMMA TsInvariant == TsSpec => []TsInv
  <1>1. TsInit => TsInv
    <2> SUFFICES ASSUME TsInit PROVE TsInv
      OBVIOUS
    <2>1. /\ <<>> \in Seq(Ids) /\ <<>> \in Seq(SpanRecords) /\ <<>> \in Seq(SpanStates)
          /\ <<>> \in Seq(SUBSET AttrKeys) /\ <<>> \in Seq(SpanEvents) /\ Len(<<>>) = 0
          /\ 1..0 = {} /\ 1..(0 - 1) = {} /\ <<0, 0>> \in Ids
      BY DEF Ids
    <2>2. /\ op \in [Goroutines -> {NoOp} \cup SpanOps] /\ \A g \in Goroutines : op[g] = NoOp
          /\ starting \in [Goroutines -> {NoOp} \cup StartRecords]
          /\ \A g \in Goroutines : starting[g] = NoOp
      BY DEF TsInit
    <2>3. TsTypeOK
      BY <2>1, <2>2 DEF TsInit, TsTypeOK
    <2>4. OrderInv
      BY <2>1 DEF TsInit, OrderInv, IdsIncrease
    <2>5. TreeInv /\ StartInv /\ SwapInv /\ EventInv
      BY <2>1, <2>2 DEF TsInit, TreeInv, StartInv, SwapInv, EventInv
    <2> QED BY <2>3, <2>4, <2>5 DEF TsInv
  <1>2. TsInv /\ [TsNext]_tsVars => TsInv'
    <2> SUFFICES ASSUME TsInv, [TsNext]_tsVars PROVE TsInv'
      OBVIOUS
    <2>1. CASE UNCHANGED tsVars
      BY <2>1 DEF TsInv, tsVars, TsTypeOK, OrderInv, IdsIncrease, TreeInv, StartInv, SwapInv, EventInv, IsEnd
    <2>2. CASE \E g \in Goroutines, now \in 0..MaxMs :
                  (\E parent \in 0..Len(span) : StartSpan(g, parent, now)) \/ SpanStarted(g, now)
      BY <2>2, StartSpanStep, SpanStartedStep
    <2>3. ASSUME NEW g \in Goroutines,
                 \/ \E s \in Opened : \E k \in Keys : LoadSpan(g, s, "attr", k)
                 \/ \E s \in Opened, kind \in {"error", "end"} : LoadSpan(g, s, kind, "none")
                 \/ CompareAndSwap(g) \/ Retry(g)
          PROVE  TsInv'
      BY <2>3, LoadStep, SwapStep
    <2>4. CASE \E s \in Opened, t \in {<<>>} \cup {span[p].trace : p \in Opened} : LogInContext(s, t)
      BY <2>4, LogInContextStep DEF Opened
    <2>5. CASE TsDone
      BY <2>1, <2>5 DEF TsDone
    <2> QED BY <2>1, <2>2, <2>3, <2>4, <2>5 DEF TsNext
  <1> QED BY <1>1, <1>2, PTL DEF TsSpec

(* Going up to the parent ends at a root: a function on 1..n that follows  *)
(* a smaller number, or stops at 0, exists.                                *)
LEMMA RootExists ==
    ASSUME NEW n \in Nat, NEW par, \A s \in 1..n : par[s] \in 0..s-1
    PROVE  \E g : g = [s \in 1..n |-> IF par[s] = 0 THEN s ELSE g[par[s]]]
  <1> DEFINE Root(m, g) == \A s \in 1..m : g[s] = IF par[s] = 0 THEN s ELSE g[par[s]]
             T == {m \in 0..n : ~\E g \in [1..m -> 1..n] : Root(m, g)}
  <1>1. T = {}
    <2> SUFFICES ASSUME T # {} PROVE FALSE
      OBVIOUS
    <2>1. T \subseteq Nat
      OBVIOUS
    <2> HIDE DEF T
    <2>2. PICK m \in T : \A k \in T : m <= k
      BY <2>1, LeastNat
    <2>3. m \in 0..n
      BY DEF T
    <2>4. CASE m = 0
      <3> DEFINE g == [s \in 1..0 |-> 1]
      <3>1. g \in [1..m -> 1..n] /\ Root(m, g)
        BY <2>4
      <3> QED BY <2>3, <3>1 DEF T
    <2>5. CASE m # 0
      <3>1. m - 1 \in 0..n /\ m - 1 \notin T /\ m \in 1..n
        BY <2>2, <2>3, <2>5
      <3>2. PICK g \in [1..(m - 1) -> 1..n] : Root(m - 1, g)
        BY <3>1 DEF T
      <3> DEFINE x == IF par[m] = 0 THEN m ELSE g[par[m]]
                 h == [s \in 1..m |-> IF s = m THEN x ELSE g[s]]
      <3>3. par[m] \in 0..m-1 /\ x \in 1..n
        BY <3>1, <3>2
      <3> HIDE DEF x
      <3>4. h \in [1..m -> 1..n] /\ h[m] = x /\ \A s \in 1..(m - 1) : h[s] = g[s]
        BY <2>3, <2>5, <3>2, <3>3
      <3> HIDE DEF h
      <3>5. Root(m, h)
        <4> SUFFICES ASSUME NEW s \in 1..m
                     PROVE  h[s] = IF par[s] = 0 THEN s ELSE h[par[s]]
          OBVIOUS
        <4>1. par[s] \in 0..s-1
          BY <2>3
        <4>5. m \in Nat /\ s \in Nat /\ s <= m
          BY <2>3
        <4>2. par[s] # 0 => par[s] \in 1..(m - 1)
          BY <4>1, <4>5
        <4>3. CASE s = m
          BY <3>4, <4>2, <4>3 DEF x
        <4>4. CASE s # m
          <5>1. s \in 1..(m - 1)
            BY <2>3, <4>4
          <5> QED BY <3>2, <3>4, <4>2, <5>1
        <4> QED BY <4>3, <4>4
      <3> QED BY <2>3, <3>4, <3>5 DEF T
    <2> QED BY <2>4, <2>5
  <1>2. PICK g \in [1..n -> 1..n] : Root(n, g)
    <2>1. n \in 0..n
      OBVIOUS
    <2>2. n \notin T
      <3> HIDE DEF T
      <3> QED BY <1>1
    <2> HIDE DEF Root
    <2> QED BY <2>1, <2>2
  <1> QED BY <1>2

LEMMA TreeTraces == TsInv => TraceShared
  <1> SUFFICES ASSUME TsInv PROVE TraceShared
    OBVIOUS
  <1> DEFINE n == Len(span)
             up == [s \in 1..n |-> span[s].parent]
             root == CHOOSE g : g = [s \in Opened |->
                        IF span[s].parent = 0 THEN s ELSE g[span[s].parent]]
  <1>1. n \in Nat /\ Opened = 1..n /\ DOMAIN events = 1..Len(events)
    BY DEF TsInv, TsTypeOK, Opened
  <1>2. \A s \in 1..n : up[s] = span[s].parent /\ up[s] \in 0..s-1
    BY DEF TsInv, TreeInv
  <1> HIDE DEF n
  <1>3. \E g : g = [s \in 1..n |-> IF up[s] = 0 THEN s ELSE g[up[s]]]
    <2> HIDE DEF up
    <2> QED BY <1>1, <1>2, RootExists
  <1>4. \E g : g = [s \in Opened |-> IF span[s].parent = 0 THEN s ELSE g[span[s].parent]]
    <2>1. PICK g : g = [s \in 1..n |-> IF up[s] = 0 THEN s ELSE g[up[s]]]
      BY <1>3
    <2>2. [s \in 1..n |-> IF up[s] = 0 THEN s ELSE g[up[s]]]
            = [s \in 1..n |-> IF span[s].parent = 0 THEN s ELSE g[span[s].parent]]
      BY <1>2
    <2> QED BY <1>1, <2>1, <2>2
  <1>5. root = [s \in Opened |-> IF span[s].parent = 0 THEN s ELSE root[span[s].parent]]
    BY <1>4
  <1> HIDE DEF root, up
  <1>6. \A s \in 1..n : root[s] = IF span[s].parent = 0 THEN s ELSE root[span[s].parent]
    BY <1>1, <1>5
  <1>7. \A s \in 1..n : /\ root[s] \in 1..n /\ span[root[s]].parent = 0
                        /\ span[root[s]].trace = span[s].trace
    <2> DEFINE T == {s \in 1..n : ~(/\ root[s] \in 1..n /\ span[root[s]].parent = 0
                                    /\ span[root[s]].trace = span[s].trace)}
    <2> SUFFICES ASSUME T # {} PROVE FALSE
      OBVIOUS
    <2>1. T \subseteq Nat
      BY <1>1
    <2> HIDE DEF T
    <2>2. PICK s \in T : \A t \in T : s <= t
      BY <2>1, LeastNat
    <2>3. s \in 1..n
      BY DEF T
    <2>4. CASE span[s].parent = 0
      BY <1>6, <2>3, <2>4 DEF T
    <2>5. CASE span[s].parent # 0
      <3> DEFINE p == span[s].parent
      <3>1. p \in 1..n /\ p < s /\ span[s].trace = span[p].trace /\ root[s] = root[p]
        BY <1>1, <1>6, <2>3, <2>5 DEF TsInv, TreeInv, n
      <3> HIDE DEF p
      <3>2. p \notin T
        BY <2>2, <2>3, <3>1
      <3> QED BY <2>3, <3>1, <3>2 DEF T
    <2> QED BY <2>4, <2>5
  <1>8. \A s, t \in 1..n : root[s] = root[t] <=> span[s].trace = span[t].trace
    <2> TAKE s, t \in 1..n
    <2>1. root[s] = root[t] => span[s].trace = span[t].trace
      BY <1>7
    <2>2. span[s].trace = span[t].trace => root[s] = root[t]
      <3>1. \A a, b \in 1..n :
               span[a].parent = 0 /\ span[b].parent = 0 /\ span[a].trace = span[b].trace => a = b
        BY DEF TsInv, TreeInv, n
      <3>2. /\ root[s] \in 1..n /\ span[root[s]].parent = 0 /\ span[root[s]].trace = span[s].trace
            /\ root[t] \in 1..n /\ span[root[t]].parent = 0 /\ span[root[t]].trace = span[t].trace
        BY <1>7
      <3> QED BY <3>1, <3>2
    <2> QED BY <2>1, <2>2
  <1>9. \A i \in 1..Len(events) :
           events[i].span \in 1..n /\ events[i].trace = span[events[i].span].trace
    BY DEF TsInv, EventInv, n
  <1>10. \A i, j \in DOMAIN events :
            root[events[i].span] = root[events[j].span] <=> events[i].trace = events[j].trace
    BY <1>1, <1>8, <1>9
  <1> QED BY <1>10 DEF TraceShared, root

(* For any number of spans, goroutines and attributes and any wall clock:  *)
(* ids increase, a span ends once and with every attribute that was        *)
(* stored, and a tree of spans, and it alone, shares a trace id.           *)
THEOREM TracesTheorem == TsSpec => []TracesSound
  <1>1. TsInv => SpanEndComplete
    <2> SUFFICES ASSUME TsInv, NEW s \in Opened
                 PROVE  /\ Cardinality(Ends(s)) = IF spanState[s].ended THEN 1 ELSE 0
                        /\ \A i \in Ends(s) : events[i].attrs = stored[s] \ Reserved
      BY DEF SpanEndComplete
    <2>1. s \in 1..Len(span) /\ DOMAIN events = 1..Len(events)
      BY DEF Opened, TsInv, TsTypeOK
    <2>2. \A i : i \in Ends(s) <=> i \in 1..Len(events) /\ IsEnd(i, s)
      BY <2>1 DEF Ends, IsEnd
    <2>3. \A i \in Ends(s) : events[i].attrs = stored[s] \ Reserved
      BY <2>1, <2>2 DEF TsInv, EventInv
    <2>4. CASE spanState[s].ended
      <3>1. PICK i \in 1..Len(events) : IsEnd(i, s)
        BY <2>1, <2>4 DEF TsInv, EventInv
      <3>2. Ends(s) = {i}
        BY <2>1, <2>2, <3>1 DEF TsInv, EventInv
      <3>3. Cardinality({i}) = 1
        BY FS_Singleton
      <3> QED BY <2>3, <2>4, <3>2, <3>3
    <2>5. CASE ~spanState[s].ended
      <3>1. Ends(s) = {}
        BY <2>1, <2>2, <2>5 DEF TsInv, EventInv
      <3>2. Cardinality({}) = 0
        BY FS_EmptySet
      <3> QED BY <2>3, <2>5, <3>1, <3>2
    <2> QED BY <2>4, <2>5
  <1>2. TsInv => TracesSound
    BY <1>1, TreeTraces DEF TracesSound, TsInv, OrderInv
  <1> QED BY <1>2, TsInvariant, PTL
-----------------------------------------------------------------------------
(* Reports.                                                                *)

Entries == [id : CallIds, answered : Nat, result : Seq(Nat)]
Builders == [run : Nat, answer : BOOLEAN, timeline : Seq(Entries), idIndex : [CallIds -> Nat],
             open : SUBSET Nat, taken : SUBSET Nat]
Snapshots == [run : Nat, answer : BOOLEAN, timeline : Seq(Entries), finish : Finishes,
              open : SUBSET Nat, taken : SUBSET Nat]
Bounded(p) == Len(p.shown) <= MaxResultLines /\ Joined(p.shown) <= MaxResultBytes
Summaries == {p \in [shown : Seq(Nat), dropped : Int] : Bounded(p)}
Labels == {"complete", "failed", "answer"}
Reports == [run : Nat, at : Seconds, label : Labels, whole : {TRUE}, process : Seq(Summaries),
            conclusion : Labels]
WriterPcs == {"mkdir", "temp", "write", "close", "rename", "written", "failed", "told"}
Writings == [md : Reports, pc : WriterPcs]
RpNotes == [kind : {"busy", "none"}] \cup [kind : {"written", "failed"}, w : Nat]

(* The builder: the id of a call names that call or a later one with the   *)
(* same id, which took it if the call was open.                            *)
Matched(t, open, taken) ==
    \A i \in 1..Len(t) :
        \/ t[i].answered = i
        \/ t[i].answered = 0 /\ i \in open \cup taken
        \/ t[i].answered \in taken /\ t[i].answered < i /\ t[t[i].answered].id = t[i].id
IdPlaced(t, x, open, taken) ==
    \A i \in 1..Len(t) :
        /\ x[t[i].id] \in i..Len(t) /\ t[x[t[i].id]].id = t[i].id
        /\ i \in open /\ x[t[i].id] # i => i \in taken
GoodBuilder(b) ==
    /\ b \in Builders /\ b.open \subseteq 1..Len(b.timeline) /\ b.taken \subseteq 1..Len(b.timeline)
    /\ Matched(b.timeline, b.open, b.taken)
    /\ IdPlaced(b.timeline, b.idIndex, b.open, b.taken)
JoinInv ==
    /\ runNo \in Nat
    /\ Running => GoodBuilder(builder)
    /\ lastSnapshot # NoRun =>
          /\ lastSnapshot \in Snapshots
          /\ Matched(lastSnapshot.timeline, lastSnapshot.open, lastSnapshot.taken)

(* The writers: a file under its final name is of a writer that got as far *)
(* as the rename, and takes that writer's temp file with it.               *)
Published == {"written", "told"}
DiskInv ==
    /\ second \in Seconds /\ writers \in Seq(Writings) /\ notes \in Seq(RpNotes)
    /\ \A w \in temps : w \in 1..Len(writers) /\ writers[w].pc \in WriterPcs \ {"mkdir", "temp", "written"}
    /\ \A s \in DOMAIN disk :
          /\ disk[s].md.whole /\ disk[s].md.at = s
          /\ disk[s].by \in 1..Len(writers) /\ writers[disk[s].by].pc \in Published
    /\ \A w \in 1..Len(writers) : writers[w].pc = "written" => writers[w].md.at \in DOMAIN disk
    /\ \A n \in 1..Len(notes) : notes[n].kind \in {"written", "failed"} =>
          /\ notes[n].w \in 1..Len(writers) /\ writers[notes[n].w].pc = "told"
          /\ notes[n].kind = "written" =>
                writers[notes[n].w].md.at \in DOMAIN disk /\ notes[n].w \notin temps
          /\ notes[n].kind = "failed" => \A s \in DOMAIN disk : disk[s].by # notes[n].w

RpInv == JoinInv /\ DiskInv

(* The largest element of a set of naturals with a bound.                  *)
LEMMA MaxIn ==
    ASSUME NEW N \in Nat, NEW T, T \subseteq 0..N, T # {}
    PROVE  Max(T) \in T
  <1> DEFINE D == {N - x : x \in T}
  <1>1. D \subseteq Nat /\ D # {}
    <2>1. \A x \in T : N - x \in Nat
      OBVIOUS
    <2>2. PICK x \in T : TRUE
      OBVIOUS
    <2>3. N - x \in D
      BY <2>2
    <2> QED BY <2>1, <2>3
  <1>2. PICK d \in D : \A k \in D : d <= k
    BY <1>1, LeastNat
  <1>3. PICK x \in T : d = N - x
    OBVIOUS
  <1>4. \A y \in T : x >= y
    <2> TAKE y \in T
    <2>1. N - y \in D
      OBVIOUS
    <2>2. d <= N - y
      BY <1>2, <2>1
    <2> QED BY <1>3, <2>2
  <1> QED BY <1>4 DEF Max

LEMMA JoinedShort ==
    /\ Joined(<<>>) = 0
    /\ \A x \in Nat : Joined(<<x>>) = x
  <1>1. Joined(<<>>) = 0
    <2> DEFINE s == <<>>
               f == CHOOSE f : f = [n \in 0..Len(s) |-> IF n = 0 THEN 0 ELSE f[n-1] + s[n]]
    <2>1. Len(s) = 0 /\ 0..0 = {0}
      OBVIOUS
    <2>2. [n \in 0..Len(s) |-> 0] = [n \in 0..Len(s) |->
              IF n = 0 THEN 0 ELSE [k \in 0..Len(s) |-> 0][n-1] + s[n]]
      BY <2>1
    <2>3. f = [n \in 0..Len(s) |-> IF n = 0 THEN 0 ELSE f[n-1] + s[n]]
      BY <2>2
    <2> HIDE DEF f
    <2>4. f[0] = 0
      BY <2>1, <2>3
    <2>5. Joined(s) = f[Len(s)] + (IF s = <<>> THEN 0 ELSE Len(s) - 1)
      BY DEF Joined, f
    <2> QED BY <2>1, <2>4, <2>5
  <1>2. ASSUME NEW x \in Nat PROVE Joined(<<x>>) = x
    <2> DEFINE s == <<x>>
               f == CHOOSE f : f = [n \in 0..Len(s) |-> IF n = 0 THEN 0 ELSE f[n-1] + s[n]]
               g == [n \in 0..1 |-> IF n = 0 THEN 0 ELSE x]
    <2>1. Len(s) = 1 /\ s[1] = x /\ s # <<>> /\ \A n \in 0..1 : n = 0 \/ n = 1
      OBVIOUS
    <2>2. g[0] = 0 /\ g[1] = x /\ 1 - 1 = 0
      OBVIOUS
    <2>3. \A n \in 0..1 : g[n] = IF n = 0 THEN 0 ELSE g[n-1] + s[n]
      BY <2>1, <2>2
    <2>4. g = [n \in 0..1 |-> IF n = 0 THEN 0 ELSE g[n-1] + s[n]]
      BY <2>3
    <2> HIDE DEF g
    <2>5. f = [n \in 0..Len(s) |-> IF n = 0 THEN 0 ELSE f[n-1] + s[n]]
      BY <2>1, <2>4
    <2> HIDE DEF f
    <2>6. f[0] = 0 /\ f[1] = f[0] + x
      BY <2>1, <2>2, <2>5
    <2>7. Joined(s) = f[Len(s)] + (IF s = <<>> THEN 0 ELSE Len(s) - 1)
      BY DEF Joined, f
    <2> QED BY <2>1, <2>6, <2>7
  <1> QED BY <1>1, <1>2

LEMMA InSummaries ==
    ASSUME NEW s \in Seq(Nat), NEW d \in Int, Len(s) <= MaxResultLines, Joined(s) <= MaxResultBytes
    PROVE  [shown |-> s, dropped |-> d] \in Summaries
  BY DEF Summaries, Bounded

(* A summary keeps both limits.                                            *)
LEMMA SummaryBounded == ASSUME NEW lines \in Seq(Nat) PROVE summarize(lines) \in Summaries
  <1> DEFINE m == Min({MaxResultLines, Len(lines)})
             kept == SubSeq(lines, 1, m)
             n == lineFitInBytes(kept, MaxResultBytes)
  <1>0. MaxResultLines \in Nat /\ MaxResultLines >= 1 /\ MaxResultBytes \in Nat /\ Len(lines) \in Nat
    BY ReportAssumption
  <1>1. m \in {MaxResultLines, Len(lines)} /\ m <= MaxResultLines /\ m <= Len(lines) /\ m \in Nat
    <2>1. \E x \in {MaxResultLines, Len(lines)} : \A y \in {MaxResultLines, Len(lines)} : x <= y
      BY <1>0
    <2>2. m \in {MaxResultLines, Len(lines)} /\ \A y \in {MaxResultLines, Len(lines)} : m <= y
      BY <2>1 DEF Min
    <2> QED BY <1>0, <2>2
  <1> HIDE DEF m
  <1>2. kept \in Seq(Nat) /\ Len(kept) = m
    BY <1>1
  <1> HIDE DEF kept
  <1>3. n \in 0..m /\ Joined(SubSeq(kept, 1, n)) <= MaxResultBytes
    <2> DEFINE T == {k \in 0..Len(kept) : Joined(SubSeq(kept, 1, k)) <= MaxResultBytes}
    <2>1. SubSeq(kept, 1, 0) = <<>>
      BY <1>2
    <2>4. 0 \in 0..Len(kept) /\ 0 <= MaxResultBytes
      BY <1>0, <1>1, <1>2
    <2>5. Joined(SubSeq(kept, 1, 0)) = 0
      BY <2>1, JoinedShort
    <2>2. 0 \in T
      BY <2>4, <2>5
    <2>3. Max(T) \in T
      BY <1>1, <1>2, <2>2, MaxIn
    <2> QED BY <1>2, <2>3 DEF lineFitInBytes
  <1> HIDE DEF n
  <1>4. summarize(lines) =
          IF lines = <<>> THEN [shown |-> <<>>, dropped |-> 0]
          ELSE IF n = 0 THEN [shown |-> <<Min({lines[1], MaxResultBytes})>>, dropped |-> 0]
          ELSE [shown |-> SubSeq(kept, 1, n), dropped |-> Len(lines) - n]
    BY DEF summarize, n, kept, m
  <1>6. CASE lines = <<>>
    <2>1. <<>> \in Seq(Nat) /\ Len(<<>>) <= MaxResultLines /\ 0 \in Int
      BY <1>0
    <2>2. Joined(<<>>) <= MaxResultBytes
      BY <1>0, JoinedShort
    <2>3. [shown |-> <<>>, dropped |-> 0] \in Summaries
      BY <2>1, <2>2, InSummaries
    <2> QED BY <1>4, <1>6, <2>3
  <1>7. CASE lines # <<>> /\ n = 0
    <2> DEFINE x == Min({lines[1], MaxResultBytes})
    <2>1. lines[1] \in Nat
      BY <1>7
    <2>2. \E y \in {lines[1], MaxResultBytes} : \A z \in {lines[1], MaxResultBytes} : y <= z
      BY <1>0, <2>1
    <2>3. x \in {lines[1], MaxResultBytes} /\ \A z \in {lines[1], MaxResultBytes} : x <= z
      BY <2>2 DEF Min
    <2>4. x \in Nat /\ x <= MaxResultBytes
      BY <1>0, <2>1, <2>3
    <2> HIDE DEF x
    <2>5. <<x>> \in Seq(Nat) /\ Len(<<x>>) = 1 /\ Joined(<<x>>) = x
      BY <2>4, JoinedShort
    <2>7. Len(<<x>>) <= MaxResultLines /\ Joined(<<x>>) <= MaxResultBytes /\ 0 \in Int
      BY <1>0, <2>4, <2>5
    <2>6. [shown |-> <<x>>, dropped |-> 0] \in Summaries
      BY <2>5, <2>7, InSummaries
    <2> QED BY <1>4, <1>7, <2>6 DEF x
  <1>8. CASE lines # <<>> /\ n # 0
    <2>1. SubSeq(kept, 1, n) \in Seq(Nat) /\ Len(SubSeq(kept, 1, n)) = n
      BY <1>2, <1>3
    <2>2. n <= MaxResultLines /\ Len(lines) - n \in Int
      BY <1>0, <1>1, <1>3
    <2>3. [shown |-> SubSeq(kept, 1, n), dropped |-> Len(lines) - n] \in Summaries
      BY <1>3, <2>1, <2>2, InSummaries
    <2> QED BY <1>4, <1>8, <2>3
  <1> QED BY <1>6, <1>7, <1>8

(* A step of the builder keeps the invariant when its new value is fine.   *)
LEMMA JoinIntro ==
    ASSUME JoinInv, NEW b, GoodBuilder(b), builder' = b, runNo' \in Nat, lastSnapshot' = lastSnapshot
    PROVE  JoinInv'
  BY DEF JoinInv, GoodBuilder, Matched, IdPlaced

LEMMA JoinGood ==
    ASSUME JoinInv, Running
    PROVE  GoodBuilder(builder)
  BY DEF JoinInv

LEMMA SubmitJoin ==
    ASSUME JoinInv, RpSubmit
    PROVE  JoinInv'
  <1> DEFINE b == newSnapshotBuilder(runNo + 1)
  <1>1. runNo + 1 \in Nat
    BY DEF JoinInv
  <1>2. b = [run |-> runNo + 1, answer |-> FALSE, timeline |-> <<>>, idIndex |-> [i \in CallIds |-> 0],
             open |-> {}, taken |-> {}]
    BY DEF newSnapshotBuilder
  <1>3. builder' = b /\ runNo' = runNo + 1 /\ lastSnapshot' = lastSnapshot
    BY DEF RpSubmit
  <1> HIDE DEF b
  <1>4. <<>> \in Seq(Entries) /\ [i \in CallIds |-> 0] \in [CallIds -> Nat]
    OBVIOUS
  <1>5. b \in Builders
    BY <1>1, <1>2, <1>4 DEF Builders
  <1>6. b.timeline = <<>> /\ Len(<<>>) = 0 /\ 1..0 = {} /\ b.open = {} /\ b.taken = {}
    BY <1>2
  <1>7. GoodBuilder(b)
    BY <1>5, <1>6 DEF GoodBuilder, Matched, IdPlaced
  <1> QED BY <1>1, <1>3, <1>7, JoinIntro

LEMMA TextJoin ==
    ASSUME JoinInv, RpText
    PROVE  JoinInv'
  <1>1. PICK b : b = [builder EXCEPT !.answer = TRUE]
    OBVIOUS
  <1>2. builder' = b /\ runNo' = runNo /\ lastSnapshot' = lastSnapshot /\ Running
    BY <1>1 DEF RpText
  <1>3. GoodBuilder(builder)
    BY <1>2, JoinGood
  <1>4. /\ b \in Builders /\ b.timeline = builder.timeline /\ b.idIndex = builder.idIndex
        /\ b.open = builder.open /\ b.taken = builder.taken
    BY <1>1, <1>3 DEF GoodBuilder, Builders
  <1>5. GoodBuilder(b)
    BY <1>3, <1>4 DEF GoodBuilder
  <1>6. runNo' \in Nat
    BY <1>2 DEF JoinInv
  <1> QED BY <1>2, <1>5, <1>6, JoinIntro

(* The new call becomes the one its id names, and takes it from every call *)
(* with the id that is still open.                                         *)
LEMMA CallJoin ==
    ASSUME JoinInv, NEW id \in CallIds, RpToolCall(id)
    PROVE  JoinInv'
  <1>0. PICK t, x, e, p : /\ t = builder.timeline /\ x = builder.idIndex /\ p = Len(builder.timeline) + 1
                          /\ e = [id |-> id, answered |-> 0, result |-> <<>>]
    OBVIOUS
  <1>1. PICK o, k : /\ o = builder.open \cup {p}
                    /\ k = builder.taken \cup {i \in builder.open : t[i].id = id}
    OBVIOUS
  <1>2. PICK b : b = [builder EXCEPT !.timeline = Append(t, e), !.idIndex = [x EXCEPT ![id] = p],
                                     !.open = o, !.taken = k]
    OBVIOUS
  <1>3. /\ runNo' = runNo /\ lastSnapshot' = lastSnapshot /\ Running
        /\ builder' = addToolCall(builder, id)
    BY DEF RpToolCall
  <1>4. GoodBuilder(builder)
    BY <1>3, JoinGood
  <1>5. /\ builder \in Builders /\ t \in Seq(Entries) /\ x \in [CallIds -> Nat] /\ Len(t) \in Nat
        /\ p = Len(t) + 1
    BY <1>0, <1>4 DEF GoodBuilder, Builders
  <1>6. addToolCall(builder, id) = b
    BY <1>0, <1>1, <1>2, <1>5 DEF addToolCall, Builders
  <1>7. <<>> \in Seq(Nat) /\ 0 \in Nat
    OBVIOUS
  <1>8. e \in Entries /\ e.id = id /\ e.answered = 0
    BY <1>0, <1>7 DEF Entries
  <1>9. PICK u : u = Append(t, e)
    OBVIOUS
  <1>10. /\ u \in Seq(Entries) /\ Len(u) = p /\ u[p] = e
         /\ \A i \in 1..Len(t) : u[i] = t[i]
    BY <1>5, <1>8, <1>9
  <1>11. PICK y : y = [x EXCEPT ![id] = p]
    OBVIOUS
  <1>12. y \in [CallIds -> Nat] /\ y[id] = p /\ \A d \in CallIds : d # id => y[d] = x[d]
    BY <1>5, <1>11
  <1>13. builder.open \subseteq 1..Len(t) /\ builder.taken \subseteq 1..Len(t)
    BY <1>0, <1>4 DEF GoodBuilder
  <1>14. o \subseteq 1..p /\ k \subseteq 1..p
    BY <1>1, <1>5, <1>13
  <1>15. /\ b \in Builders /\ b.timeline = u /\ b.idIndex = y /\ b.open = o /\ b.taken = k
    <2>1. o \in SUBSET Nat /\ k \in SUBSET Nat
      BY <1>5, <1>14
    <2>2. b = [builder EXCEPT !.timeline = u, !.idIndex = y, !.open = o, !.taken = k]
      BY <1>2, <1>9, <1>11
    <2> QED BY <1>5, <1>10, <1>12, <2>1, <2>2 DEF Builders
  <1>16. \A i \in 1..p : i = p \/ i \in 1..Len(t)
    BY <1>5
  <1>17. Matched(u, o, k)
    <2> SUFFICES ASSUME NEW i \in 1..p
                 PROVE  \/ u[i].answered = i
                        \/ u[i].answered = 0 /\ i \in o \cup k
                        \/ u[i].answered \in k /\ u[i].answered < i /\ u[u[i].answered].id = u[i].id
      BY <1>10 DEF Matched
    <2>1. CASE i = p
      BY <1>1, <1>8, <1>10, <2>1
    <2>2. CASE i \in 1..Len(t)
      <3>1. \/ t[i].answered = i
            \/ t[i].answered = 0 /\ i \in builder.open \cup builder.taken
            \/ /\ t[i].answered \in builder.taken /\ t[i].answered < i
               /\ t[t[i].answered].id = t[i].id
        BY <1>0, <1>4, <2>2 DEF GoodBuilder, Matched
      <3>2. u[i] = t[i]
        BY <1>10, <2>2
      <3>3. t[i].answered \in builder.taken => u[t[i].answered] = t[t[i].answered]
        BY <1>10, <1>13
      <3> QED BY <1>1, <3>1, <3>2, <3>3
    <2> QED BY <1>16, <2>1, <2>2
  <1>18. IdPlaced(u, y, o, k)
    <2> SUFFICES ASSUME NEW i \in 1..p
                 PROVE  /\ y[u[i].id] \in i..p /\ u[y[u[i].id]].id = u[i].id
                        /\ i \in o /\ y[u[i].id] # i => i \in k
      BY <1>10 DEF IdPlaced
    <2>1. CASE u[i].id = id
      <3>1. y[u[i].id] = p /\ u[p].id = id
        BY <1>8, <1>10, <1>12, <2>1
      <3>2. p \in i..p
        BY <1>5
      <3>3. ASSUME i \in o, p # i PROVE i \in k
        <4>1. i \in builder.open /\ t[i].id = id
          BY <1>1, <1>10, <1>16, <2>1, <3>3
        <4> QED BY <1>1, <4>1
      <3> QED BY <2>1, <3>1, <3>2, <3>3
    <2>2. CASE u[i].id # id
      <3>1. i \in 1..Len(t) /\ u[i] = t[i] /\ t[i] \in Entries
        BY <1>5, <1>8, <1>10, <1>16, <2>2
      <3>2. y[u[i].id] = x[t[i].id]
        BY <1>12, <2>2, <3>1 DEF Entries
      <3>3. /\ x[t[i].id] \in i..Len(t) /\ t[x[t[i].id]].id = t[i].id
            /\ i \in builder.open /\ x[t[i].id] # i => i \in builder.taken
        BY <1>0, <1>4, <3>1 DEF GoodBuilder, IdPlaced
      <3>4. x[t[i].id] \in 1..Len(t) /\ x[t[i].id] \in i..p
        BY <1>5, <3>3
      <3>5. u[x[t[i].id]] = t[x[t[i].id]]
        BY <1>10, <3>4
      <3>6. i \in o => i \in builder.open
        BY <1>1, <1>5, <3>1
      <3> QED BY <1>1, <3>1, <3>2, <3>3, <3>4, <3>5, <3>6
    <2> QED BY <2>1, <2>2
  <1>19. GoodBuilder(b)
    BY <1>10, <1>14, <1>15, <1>17, <1>18 DEF GoodBuilder
  <1>20. runNo' \in Nat /\ builder' = b
    BY <1>3, <1>6 DEF JoinInv
  <1> QED BY <1>3, <1>19, <1>20, JoinIntro

(* A result goes to the call its id names: the one it answers, or the one  *)
(* that took the id.                                                       *)
LEMMA ResultJoin ==
    ASSUME JoinInv, NEW j, NEW res \in Results, RpToolResult(j, res)
    PROVE  JoinInv'
  <1>0. PICK t, x, id, m, o, k : /\ t = builder.timeline /\ x = builder.idIndex /\ id = t[j].id
                                 /\ m = x[id] /\ o = builder.open \ {j} /\ k = builder.taken
    OBVIOUS
  <1>1. PICK e, u, b : /\ e = [id |-> id, answered |-> j, result |-> res]
                       /\ u = [t EXCEPT ![m] = e]
                       /\ b = [builder EXCEPT !.open = o, !.timeline = u]
    OBVIOUS
  <1>2. /\ runNo' = runNo /\ lastSnapshot' = lastSnapshot /\ Running /\ j \in builder.open
        /\ builder' = addToolResult(builder, id, j, res)
    BY <1>0 DEF RpToolResult
  <1>3. GoodBuilder(builder)
    BY <1>2, JoinGood
  <1>4. /\ builder \in Builders /\ t \in Seq(Entries) /\ x \in [CallIds -> Nat] /\ Len(t) \in Nat
        /\ builder.open \subseteq 1..Len(t) /\ k \subseteq 1..Len(t)
    BY <1>0, <1>3 DEF GoodBuilder, Builders
  <1>5. j \in 1..Len(t) /\ t[j] \in Entries /\ id \in CallIds
    <2>1. j \in 1..Len(t)
      BY <1>2, <1>4
    <2>2. t[j] \in Entries
      BY <1>4, <2>1
    <2> QED BY <1>0, <2>1, <2>2 DEF Entries
  <1>6. m \in j..Len(t) /\ t[m].id = id /\ (m # j => j \in k)
    BY <1>0, <1>2, <1>3, <1>5 DEF GoodBuilder, IdPlaced
  <1>7. m \in 1..Len(t)
    BY <1>4, <1>5, <1>6
  <1>8. addToolResult(builder, id, j, res) = b
    <2>1. m # 0
      BY <1>7
    <2>2. addToolResult(builder, id, j, res)
            = [[builder EXCEPT !.open = @ \ {j}] EXCEPT !.timeline[m] = e]
      BY <1>0, <1>1, <2>1 DEF addToolResult
    <2> QED BY <1>0, <1>1, <1>4, <2>2 DEF Builders
  <1>9. res \in Seq(Nat) /\ j \in Nat
    <2>1. <<1, 1, 1>> \in Seq(Nat) /\ <<2, 1>> \in Seq(Nat) /\ <<4>> \in Seq(Nat)
      OBVIOUS
    <2>2. res = <<1, 1, 1>> \/ res = <<2, 1>> \/ res = <<4>>
      BY DEF Results
    <2>3. res \in Seq(Nat)
      BY <2>1, <2>2, Zenon
    <2> QED BY <1>4, <1>5, <2>3
  <1>10. e \in Entries /\ e.id = id /\ e.answered = j
    BY <1>1, <1>5, <1>9 DEF Entries
  <1>11. /\ u \in Seq(Entries) /\ Len(u) = Len(t)
         /\ \A i \in 1..Len(t) : u[i] = IF i = m THEN e ELSE t[i]
    BY <1>1, <1>4, <1>7, <1>10
  <1>12. b \in Builders /\ b.timeline = u /\ b.idIndex = x /\ b.open = o /\ b.taken = k
    BY <1>0, <1>1, <1>4, <1>11 DEF Builders
  <1>13. \A i \in 1..Len(t) : u[i].id = t[i].id
    BY <1>6, <1>10, <1>11
  <1>14. Matched(u, o, k)
    <2> SUFFICES ASSUME NEW i \in 1..Len(t)
                 PROVE  \/ u[i].answered = i
                        \/ u[i].answered = 0 /\ i \in o \cup k
                        \/ u[i].answered \in k /\ u[i].answered < i /\ u[u[i].answered].id = u[i].id
      BY <1>11 DEF Matched
    <2>1. CASE i = m
      <3>1. u[i].answered = j /\ u[i].id = id /\ u[j].id = id
        BY <1>0, <1>5, <1>10, <1>11, <1>13, <2>1
      <3>2. j # m => j < m
        BY <1>4, <1>5, <1>6
      <3> QED BY <1>6, <2>1, <3>1, <3>2
    <2>2. CASE i # m
      <3>1. u[i] = t[i]
        BY <1>11, <2>2
      <3>2. \/ t[i].answered = i
            \/ t[i].answered = 0 /\ i \in builder.open \cup k
            \/ t[i].answered \in k /\ t[i].answered < i /\ t[t[i].answered].id = t[i].id
        BY <1>0, <1>3 DEF GoodBuilder, Matched
      <3>3. t[i].answered \in k => u[t[i].answered].id = t[t[i].answered].id
        BY <1>4, <1>13
      <3>4. i \in builder.open \cup k => i \in o \cup k
        BY <1>0, <1>6, <2>2
      <3> QED BY <3>1, <3>2, <3>3, <3>4
    <2> QED BY <2>1, <2>2
  <1>15. IdPlaced(u, x, o, k)
    <2> SUFFICES ASSUME NEW i \in 1..Len(t)
                 PROVE  /\ x[u[i].id] \in i..Len(t) /\ u[x[u[i].id]].id = u[i].id
                        /\ i \in o /\ x[u[i].id] # i => i \in k
      BY <1>11 DEF IdPlaced
    <2>1. /\ x[t[i].id] \in i..Len(t) /\ t[x[t[i].id]].id = t[i].id
          /\ i \in builder.open /\ x[t[i].id] # i => i \in k
      BY <1>0, <1>3 DEF GoodBuilder, IdPlaced
    <2>2. x[t[i].id] \in 1..Len(t)
      BY <1>4, <2>1
    <2> QED BY <1>0, <1>13, <2>1, <2>2
  <1>16. o \subseteq 1..Len(t)
    BY <1>0, <1>4
  <1>17. GoodBuilder(b)
    BY <1>4, <1>11, <1>12, <1>14, <1>15, <1>16 DEF GoodBuilder
  <1>18. runNo' \in Nat /\ builder' = b
    BY <1>2, <1>8 DEF JoinInv
  <1> QED BY <1>2, <1>17, <1>18, JoinIntro

LEMMA FinishJoin ==
    ASSUME JoinInv, NEW f \in Finishes, RpFinish(f)
    PROVE  JoinInv'
  <1>0. /\ builder' = NoRun /\ runNo' = runNo /\ Running
        /\ lastSnapshot' = IF f = "cancelled" THEN lastSnapshot ELSE seal(builder, f)
    BY DEF RpFinish
  <1>1. GoodBuilder(builder)
    BY <1>0, JoinGood
  <1>2. PICK s : s = seal(builder, f)
    OBVIOUS
  <1>3. /\ s \in Snapshots /\ s.timeline = builder.timeline
        /\ s.open = builder.open /\ s.taken = builder.taken
    BY <1>1, <1>2 DEF seal, Snapshots, GoodBuilder, Builders
  <1>4. Matched(s.timeline, s.open, s.taken)
    BY <1>1, <1>3 DEF GoodBuilder
  <1>5. runNo' \in Nat /\ ~Running'
    BY <1>0 DEF JoinInv, Running
  <1>6. CASE f = "cancelled"
    <2>1. lastSnapshot' = lastSnapshot
      BY <1>0, <1>6
    <2> QED BY <1>5, <2>1 DEF JoinInv, Matched
  <1>7. CASE f # "cancelled"
    <2>1. lastSnapshot' = s
      BY <1>0, <1>2, <1>7
    <2> QED BY <1>3, <1>4, <1>5, <2>1 DEF JoinInv, Matched
  <1> QED BY <1>6, <1>7

(* The report of a snapshot.                                               *)
LEMMA GenerateSound ==
    ASSUME NEW snap \in Snapshots, NEW now \in Seconds
    PROVE  Generate(snap, now) \in Reports
  <1>0. PICK p : p = [i \in DOMAIN snap.timeline |-> summarize(snap.timeline[i].result)]
    OBVIOUS
  <1>1. PICK c : c = IF snap.answer THEN "answer" ELSE finishLabel(snap)
    OBVIOUS
  <1>2. finishLabel(snap) \in Labels /\ c \in Labels
    BY <1>1 DEF finishLabel, Labels
  <1>3. snap.timeline \in Seq(Entries) /\ snap.run \in Nat
    BY DEF Snapshots
  <1>4. DOMAIN snap.timeline = 1..Len(snap.timeline) /\ Len(snap.timeline) \in Nat
    BY <1>3
  <1>5. ASSUME NEW i \in 1..Len(snap.timeline) PROVE p[i] \in Summaries
    <2>1. snap.timeline[i] \in Entries
      BY <1>3
    <2>2. snap.timeline[i].result \in Seq(Nat)
      BY <2>1 DEF Entries
    <2>3. p[i] = summarize(snap.timeline[i].result)
      BY <1>0, <1>4
    <2> QED BY <2>2, <2>3, SummaryBounded
  <1>6. p \in [1..Len(snap.timeline) -> Summaries]
    BY <1>0, <1>4, <1>5
  <1>7. p \in Seq(Summaries)
    BY <1>4, <1>6
  <1>8. Generate(snap, now) = [run |-> snap.run, at |-> now, label |-> finishLabel(snap), whole |-> TRUE,
                               process |-> p, conclusion |-> c]
    BY <1>0, <1>1 DEF Generate
  <1> QED BY <1>2, <1>3, <1>7, <1>8 DEF Reports

LEMMA DispatchDisk ==
    ASSUME JoinInv, DiskInv, dispatchReport
    PROVE  DiskInv'
  <1>0. disk' = disk /\ temps' = temps /\ second' = second
    BY DEF dispatchReport
  <1>1. CASE Running \/ lastSnapshot = NoRun
    <2>1. PICK k \in {"busy", "none"} : notes' = <<[kind |-> k]>> /\ writers' = writers
      BY <1>1 DEF dispatchReport
    <2>2. [kind |-> k] \in RpNotes
      BY DEF RpNotes
    <2>3. /\ notes' \in Seq(RpNotes)
          /\ \A n \in 1..Len(notes') : notes'[n].kind \notin {"written", "failed"}
      BY <2>1, <2>2
    <2> QED BY <1>0, <2>1, <2>3 DEF DiskInv
  <1>2. CASE ~Running /\ lastSnapshot # NoRun
    <2>0. PICK r : r = [md |-> Generate(lastSnapshot, second), pc |-> "mkdir"]
      OBVIOUS
    <2>1. writers' = Append(writers, r) /\ notes' = notes
      BY <1>2, <2>0 DEF dispatchReport
    <2>2. Generate(lastSnapshot, second) \in Reports
      BY <1>2, GenerateSound DEF JoinInv, DiskInv
    <2>3. r \in Writings /\ r.pc = "mkdir"
      BY <2>0, <2>2 DEF Writings, WriterPcs
    <2>4. writers \in Seq(Writings) /\ Len(writers) \in Nat
      BY DEF DiskInv
    <2>5. /\ writers' \in Seq(Writings) /\ Len(writers') = Len(writers) + 1
          /\ \A v \in 1..Len(writers) : v \in 1..Len(writers') /\ writers'[v] = writers[v]
          /\ \A v \in 1..Len(writers') : v \in 1..Len(writers) \/ writers'[v].pc = "mkdir"
      BY <2>1, <2>3, <2>4
    <2>6. \A v \in temps' :
            v \in 1..Len(writers') /\ writers'[v].pc \in WriterPcs \ {"mkdir", "temp", "written"}
      BY <1>0, <2>5 DEF DiskInv
    <2>9. \A s \in DOMAIN disk' :
            /\ disk'[s].md.whole /\ disk'[s].md.at = s
            /\ disk'[s].by \in 1..Len(writers') /\ writers'[disk'[s].by].pc \in Published
      BY <1>0, <2>5 DEF DiskInv
    <2>7. \A v \in 1..Len(writers') : writers'[v].pc = "written" => writers'[v].md.at \in DOMAIN disk'
      BY <1>0, <2>5 DEF DiskInv
    <2>8. \A n \in 1..Len(notes') : notes'[n].kind \in {"written", "failed"} =>
            /\ notes'[n].w \in 1..Len(writers') /\ writers'[notes'[n].w].pc = "told"
            /\ notes'[n].kind = "written" =>
                  writers'[notes'[n].w].md.at \in DOMAIN disk' /\ notes'[n].w \notin temps'
            /\ notes'[n].kind = "failed" => \A s \in DOMAIN disk' : disk'[s].by # notes'[n].w
      BY <1>0, <2>1, <2>5 DEF DiskInv
    <2> QED BY <1>0, <2>1, <2>5, <2>6, <2>7, <2>8, <2>9 DEF DiskInv
  <1> QED BY <1>1, <1>2

(* What a step of one writer changes, and what that keeps.                 *)
LEMMA GoWriter ==
    ASSUME DiskInv, NEW w \in 1..Len(writers), NEW pc \in WriterPcs, Go(w, pc)
    PROVE  /\ writers' \in Seq(Writings) /\ Len(writers') = Len(writers)
           /\ \A v \in 1..Len(writers) :
                writers'[v].md = writers[v].md /\ writers'[v].pc = IF v = w THEN pc ELSE writers[v].pc
  <1>1. writers \in Seq(Writings) /\ Len(writers) \in Nat /\ writers[w] \in Writings
    BY DEF DiskInv
  <1>2. PICK r : r = [writers[w] EXCEPT !.pc = pc]
    OBVIOUS
  <1>3. r \in Writings /\ r.md = writers[w].md /\ r.pc = pc
    BY <1>1, <1>2 DEF Writings
  <1>4. writers' = [writers EXCEPT ![w] = r]
    BY <1>2 DEF Go
  <1>5. /\ writers' \in Seq(Writings) /\ Len(writers') = Len(writers)
        /\ \A v \in 1..Len(writers) : writers'[v] = IF v = w THEN r ELSE writers[v]
    BY <1>1, <1>3, <1>4
  <1> QED BY <1>3, <1>5

(* A writer that is not told yet moves on; the disk only grows.            *)
LEMMA WriterDisk ==
    ASSUME DiskInv, NEW w \in 1..Len(writers), NEW pc \in WriterPcs, Go(w, pc),
           writers[w].pc # "told", pc # "told", second' = second, notes' = notes,
           DOMAIN disk \subseteq DOMAIN disk',
           \A s \in DOMAIN disk' :
              /\ disk'[s].md.whole /\ disk'[s].md.at = s
              /\ (s \in DOMAIN disk /\ disk'[s] = disk[s]) \/ disk'[s].by = w,
           \A s \in DOMAIN disk' : disk'[s].by = w => pc \in Published,
           \A v \in temps' : v \in temps \/ v = w,
           w \in temps' => pc \notin {"mkdir", "temp", "written"},
           pc = "written" => writers[w].md.at \in DOMAIN disk'
    PROVE  DiskInv'
  <1>1. /\ writers' \in Seq(Writings) /\ Len(writers') = Len(writers)
        /\ \A v \in 1..Len(writers) :
             writers'[v].md = writers[v].md /\ writers'[v].pc = IF v = w THEN pc ELSE writers[v].pc
    BY GoWriter
  <1>2. \A v \in temps' :
          v \in 1..Len(writers') /\ writers'[v].pc \in WriterPcs \ {"mkdir", "temp", "written"}
    BY <1>1 DEF DiskInv
  <1>3. \A v \in 1..Len(writers') : writers'[v].pc = "written" => writers'[v].md.at \in DOMAIN disk'
    BY <1>1 DEF DiskInv
  <1>4. ASSUME NEW s \in DOMAIN disk'
        PROVE  disk'[s].by \in 1..Len(writers') /\ writers'[disk'[s].by].pc \in Published
    <2>1. CASE disk'[s].by = w
      BY <1>1, <2>1
    <2>2. CASE disk'[s].by # w
      <3>1. s \in DOMAIN disk /\ disk'[s] = disk[s]
        BY <2>2
      <3>2. disk[s].by \in 1..Len(writers) /\ writers[disk[s].by].pc \in Published
        BY <3>1 DEF DiskInv
      <3> QED BY <1>1, <2>2, <3>1, <3>2
    <2> QED BY <2>1, <2>2
  <1>5. ASSUME NEW n \in 1..Len(notes'), notes'[n].kind \in {"written", "failed"}
        PROVE  /\ notes'[n].w \in 1..Len(writers') /\ writers'[notes'[n].w].pc = "told"
               /\ notes'[n].kind = "written" =>
                     writers'[notes'[n].w].md.at \in DOMAIN disk' /\ notes'[n].w \notin temps'
               /\ notes'[n].kind = "failed" => \A s \in DOMAIN disk' : disk'[s].by # notes'[n].w
    <2>1. PICK v : v = notes[n].w /\ notes'[n] = notes[n] /\ n \in 1..Len(notes)
      BY <1>5
    <2>2. /\ v \in 1..Len(writers) /\ writers[v].pc = "told"
          /\ notes[n].kind = "written" => writers[v].md.at \in DOMAIN disk /\ v \notin temps
          /\ notes[n].kind = "failed" => \A s \in DOMAIN disk : disk[s].by # v
      BY <1>5, <2>1 DEF DiskInv
    <2>3. v # w
      BY <2>2
    <2> QED BY <1>1, <2>1, <2>2, <2>3
  <1> QED BY <1>1, <1>2, <1>3, <1>4, <1>5 DEF DiskInv

(* A step that leaves the named files alone keeps what is said of them.    *)
LEMMA SameDisk ==
    ASSUME DiskInv, NEW w \in 1..Len(writers), writers[w].pc \notin Published, disk' = disk
    PROVE  /\ DOMAIN disk \subseteq DOMAIN disk'
           /\ \A s \in DOMAIN disk' :
                 /\ disk'[s].md.whole /\ disk'[s].md.at = s
                 /\ (s \in DOMAIN disk /\ disk'[s] = disk[s]) \/ disk'[s].by = w
           /\ \A s \in DOMAIN disk' : disk'[s].by # w
  BY DEF DiskInv

LEMMA FailsDisk ==
    ASSUME DiskInv, NEW w \in 1..Len(writers), WriteFails(w)
    PROVE  DiskInv'
  <1>1. /\ Go(w, "failed") /\ temps' \subseteq temps /\ disk' = disk /\ notes' = notes
        /\ second' = second /\ writers[w].pc \notin Published
    BY DEF WriteFails, Rest, Published
  <1>2. "failed" \in WriterPcs /\ "failed" \notin {"told", "mkdir", "temp", "written"}
    BY DEF WriterPcs
  <1>3. writers[w].pc # "told"
    BY <1>1 DEF Published
  <1> QED BY <1>1, <1>2, <1>3, SameDisk, WriterDisk

LEMMA CreateDisk ==
    ASSUME DiskInv, NEW w \in 1..Len(writers), CreateTemp(w)
    PROVE  DiskInv'
  <1>1. disk' = disk /\ notes' = notes /\ second' = second /\ writers[w].pc \notin Published
    BY DEF CreateTemp, Rest, Published
  <1>2. writers[w].pc # "told"
    BY <1>1 DEF Published
  <1>3. CASE writers[w].pc = "mkdir" /\ Go(w, "temp") /\ UNCHANGED temps
    <2>1. w \notin temps /\ "temp" \in WriterPcs
      BY <1>3 DEF DiskInv, WriterPcs
    <2> QED BY <1>1, <1>2, <1>3, <2>1, SameDisk, WriterDisk
  <1>4. CASE writers[w].pc = "temp" /\ Go(w, "write") /\ temps' = temps \cup {w}
    <2>1. "write" \in WriterPcs
      BY DEF WriterPcs
    <2> QED BY <1>1, <1>2, <1>4, <2>1, SameDisk, WriterDisk
  <1> QED BY <1>3, <1>4 DEF CreateTemp

LEMMA WriteDisk ==
    ASSUME DiskInv, NEW w \in 1..Len(writers), WriteTemp(w)
    PROVE  DiskInv'
  <1>1. /\ disk' = disk /\ notes' = notes /\ second' = second /\ temps' = temps
        /\ writers[w].pc \notin Published
    BY DEF WriteTemp, Rest, Published
  <1>2. writers[w].pc # "told" /\ "close" \in WriterPcs /\ "rename" \in WriterPcs
    BY <1>1 DEF Published, WriterPcs
  <1>3. CASE writers[w].pc = "write" /\ Go(w, "close")
    BY <1>1, <1>2, <1>3, SameDisk, WriterDisk
  <1>4. CASE writers[w].pc = "close" /\ Go(w, "rename")
    BY <1>1, <1>2, <1>4, SameDisk, WriterDisk
  <1> QED BY <1>3, <1>4 DEF WriteTemp

(* The file that gets the name is whole and of the second in the name.     *)
LEMMA RenameDisk ==
    ASSUME DiskInv, NEW w \in 1..Len(writers), Rename(w)
    PROVE  DiskInv'
  <1>0. PICK md : md = writers[w].md
    OBVIOUS
  <1>1. /\ notes' = notes /\ second' = second /\ temps' = temps \ {w} /\ Go(w, "written")
        /\ writers[w].pc = "rename"
        /\ disk' = [s \in DOMAIN disk \cup {md.at} |->
                       IF s = md.at THEN [by |-> w, md |-> md] ELSE disk[s]]
    BY <1>0 DEF Rename, Rest, publish
  <1>2. md.whole = TRUE
    <2>1. writers[w] \in Writings
      BY DEF DiskInv
    <2> QED BY <1>0, <2>1 DEF Writings, Reports
  <1>3. /\ DOMAIN disk' = DOMAIN disk \cup {md.at}
        /\ \A s \in DOMAIN disk' :
              \/ s = md.at /\ disk'[s].md = md /\ disk'[s].by = w
              \/ s \in DOMAIN disk /\ disk'[s] = disk[s]
    BY <1>1
  <1>4. ASSUME NEW s \in DOMAIN disk'
        PROVE  /\ disk'[s].md.whole /\ disk'[s].md.at = s
               /\ (s \in DOMAIN disk /\ disk'[s] = disk[s]) \/ disk'[s].by = w
    <2>1. CASE s = md.at /\ disk'[s].md = md /\ disk'[s].by = w
      BY <1>2, <2>1
    <2>2. CASE s \in DOMAIN disk /\ disk'[s] = disk[s]
      BY <2>2 DEF DiskInv
    <2> QED BY <1>3, <2>1, <2>2
  <1>5. DOMAIN disk \subseteq DOMAIN disk' /\ writers[w].md.at \in DOMAIN disk'
    BY <1>0, <1>3
  <1>6. /\ "written" \in WriterPcs /\ "written" \in Published /\ "written" # "told"
        /\ writers[w].pc # "told" /\ w \notin temps' /\ \A v \in temps' : v \in temps \/ v = w
    BY <1>1 DEF WriterPcs, Published
  <1> QED BY <1>1, <1>4, <1>5, <1>6, WriterDisk

(* A writer's note says how the writer ended.                              *)
LEMMA MsgDisk ==
    ASSUME DiskInv, NEW w \in 1..Len(writers), WriteMsg(w)
    PROVE  DiskInv'
  <1>0. PICK e : e = [kind |-> writers[w].pc, w |-> w]
    OBVIOUS
  <1>1. /\ disk' = disk /\ temps' = temps /\ second' = second /\ Go(w, "told")
        /\ notes' = Append(notes, e) /\ writers[w].pc \in {"written", "failed"}
    BY <1>0 DEF WriteMsg, Rest
  <1>2. /\ writers' \in Seq(Writings) /\ Len(writers') = Len(writers)
        /\ \A v \in 1..Len(writers) :
             writers'[v].md = writers[v].md /\ writers'[v].pc = IF v = w THEN "told" ELSE writers[v].pc
    <2>1. "told" \in WriterPcs
      BY DEF WriterPcs
    <2> QED BY <1>1, <2>1, GoWriter
  <1>3. notes \in Seq(RpNotes) /\ Len(notes) \in Nat /\ Len(writers) \in Nat
    BY DEF DiskInv
  <1>4. e \in RpNotes /\ e.w = w /\ e.kind = writers[w].pc
    BY <1>0, <1>1, <1>3 DEF RpNotes
  <1>5. /\ notes' \in Seq(RpNotes) /\ Len(notes') = Len(notes) + 1
        /\ \A n \in 1..Len(notes') :
             (n \in 1..Len(notes) /\ notes'[n] = notes[n]) \/ notes'[n] = e
    BY <1>1, <1>3, <1>4
  <1>6. \A v \in temps' :
          v \in 1..Len(writers') /\ writers'[v].pc \in WriterPcs \ {"mkdir", "temp", "written"}
    BY <1>1, <1>2 DEF DiskInv, WriterPcs
  <1>7. \A s \in DOMAIN disk' :
          /\ disk'[s].md.whole /\ disk'[s].md.at = s
          /\ disk'[s].by \in 1..Len(writers') /\ writers'[disk'[s].by].pc \in Published
    BY <1>1, <1>2 DEF DiskInv, Published
  <1>8. \A v \in 1..Len(writers') : writers'[v].pc = "written" => writers'[v].md.at \in DOMAIN disk'
    BY <1>1, <1>2 DEF DiskInv
  <1>9. ASSUME NEW n \in 1..Len(notes'), notes'[n].kind \in {"written", "failed"}
        PROVE  /\ notes'[n].w \in 1..Len(writers') /\ writers'[notes'[n].w].pc = "told"
               /\ notes'[n].kind = "written" =>
                     writers'[notes'[n].w].md.at \in DOMAIN disk' /\ notes'[n].w \notin temps'
               /\ notes'[n].kind = "failed" => \A s \in DOMAIN disk' : disk'[s].by # notes'[n].w
    <2>1. CASE n \in 1..Len(notes) /\ notes'[n] = notes[n]
      <3>1. PICK v : v = notes[n].w
        OBVIOUS
      <3>2. /\ v \in 1..Len(writers) /\ writers[v].pc = "told"
            /\ notes[n].kind = "written" => writers[v].md.at \in DOMAIN disk /\ v \notin temps
            /\ notes[n].kind = "failed" => \A s \in DOMAIN disk : disk[s].by # v
        BY <1>9, <2>1, <3>1 DEF DiskInv
      <3> QED BY <1>1, <1>2, <2>1, <3>1, <3>2
    <2>2. CASE notes'[n] = e
      <3>1. writers[w].pc = "written" => writers[w].md.at \in DOMAIN disk /\ w \notin temps
        BY DEF DiskInv
      <3>2. writers[w].pc = "failed" => \A s \in DOMAIN disk : disk[s].by # w
        BY DEF DiskInv, Published
      <3>3. notes'[n].w = w /\ notes'[n].kind = writers[w].pc
        BY <1>4, <2>2
      <3> QED BY <1>1, <1>2, <3>1, <3>2, <3>3
    <2> QED BY <1>5, <2>1, <2>2
  <1> QED BY <1>1, <1>2, <1>5, <1>6, <1>7, <1>8, <1>9 DEF DiskInv

(* The invariant: the builder's part on the left of a run's end, the       *)
(* disk's part on the right.                                               *)
LEMMA RpInvariant == RpSpec => []RpInv
  <1>1. RpInit => RpInv
    <2> SUFFICES ASSUME RpInit PROVE RpInv
      OBVIOUS
    <2>1. ~Running /\ lastSnapshot = NoRun /\ runNo \in Nat
      BY DEF RpInit, Running
    <2>2. JoinInv
      BY <2>1 DEF JoinInv
    <2>3. <<>> \in Seq(Writings) /\ <<>> \in Seq(RpNotes) /\ Len(<<>>) = 0 /\ 1..0 = {} /\ DOMAIN <<>> = {}
      OBVIOUS
    <2>4. writers = <<>> /\ notes = <<>> /\ disk = <<>> /\ temps = {} /\ second \in Seconds
      BY DEF RpInit, Seconds
    <2>5. DiskInv
      BY <2>3, <2>4 DEF DiskInv
    <2> QED BY <2>2, <2>5 DEF RpInv
  <1>2. RpInv /\ [RpNext]_rpVars => RpInv'
    <2> SUFFICES ASSUME JoinInv, DiskInv, [RpNext]_rpVars PROVE JoinInv' /\ DiskInv'
      BY DEF RpInv
    <2>1. ASSUME UNCHANGED <<builder, lastSnapshot, runNo>> PROVE JoinInv'
      BY <2>1 DEF JoinInv, Running, GoodBuilder, Matched, IdPlaced
    <2>2. ASSUME UNCHANGED Disk PROVE DiskInv'
      BY <2>2 DEF DiskInv, Disk
    <2>3. ASSUME UNCHANGED rpVars PROVE JoinInv' /\ DiskInv'
      BY <2>1, <2>2, <2>3 DEF rpVars, Disk
    <2>4. CASE RpSubmit
      BY <2>2, <2>4, SubmitJoin DEF RpSubmit
    <2>5. CASE RpText
      BY <2>2, <2>5, TextJoin DEF RpText
    <2>6. CASE dispatchReport
      BY <2>1, <2>6, DispatchDisk DEF dispatchReport
    <2>7. CASE Tick
      <3>1. second' \in Seconds /\ UNCHANGED <<builder, lastSnapshot, runNo, writers, disk, temps, notes>>
        BY <2>7 DEF Tick
      <3>2. DiskInv'
        BY <3>1 DEF DiskInv
      <3> QED BY <2>1, <3>1, <3>2
    <2>8. CASE Die
      <3>1. /\ builder' = NoRun /\ lastSnapshot' = NoRun
            /\ UNCHANGED <<runNo, writers, disk, temps, notes, second>>
        BY <2>8 DEF Die
      <3>2. DiskInv'
        BY <3>1 DEF DiskInv
      <3>3. JoinInv'
        BY <3>1 DEF JoinInv, Running
      <3> QED BY <3>2, <3>3
    <2>9. CASE RpDone
      BY <2>3, <2>9 DEF RpDone
    <2>10. ASSUME NEW id \in CallIds, RpToolCall(id) PROVE JoinInv' /\ DiskInv'
      BY <2>2, <2>10, CallJoin DEF RpToolCall
    <2>11. ASSUME NEW j \in 1..MaxReportSteps, NEW r \in Results, RpToolResult(j, r)
           PROVE  JoinInv' /\ DiskInv'
      BY <2>2, <2>11, ResultJoin DEF RpToolResult
    <2>12. ASSUME NEW f \in Finishes, RpFinish(f) PROVE JoinInv' /\ DiskInv'
      BY <2>2, <2>12, FinishJoin DEF RpFinish
    <2>13. ASSUME NEW w \in DOMAIN writers,
                  WriteFails(w) \/ CreateTemp(w) \/ WriteTemp(w) \/ Rename(w) \/ WriteMsg(w)
           PROVE  JoinInv' /\ DiskInv'
      <3>1. w \in 1..Len(writers)
        BY DEF DiskInv
      <3>2. UNCHANGED Rest
        BY <2>13 DEF WriteFails, CreateTemp, WriteTemp, Rename, WriteMsg
      <3>3. JoinInv'
        BY <2>1, <3>2 DEF Rest
      <3> QED BY <2>13, <3>1, <3>3, FailsDisk, CreateDisk, WriteDisk, RenameDisk, MsgDisk
    <2> QED BY <2>3, <2>4, <2>5, <2>6, <2>7, <2>8, <2>9, <2>10, <2>11, <2>12, <2>13 DEF RpNext
  <1> QED BY <1>1, <1>2, PTL DEF RpSpec

(* Reports: an entry of the process section shows its own call's bounded   *)
(* answer, or that of a call whose id it took; a file under its final name *)
(* is whole whatever step of a WriteReport fails and whenever the process  *)
(* dies; a path that was announced is there, and a report whose writing is *)
(* said to have failed never got a name.                                   *)
THEOREM ReportTheorem == RpSpec => []ReportSound
  <1>1. RpInv => ReportSound
    <2> SUFFICES ASSUME JoinInv, DiskInv PROVE ReportSound
      BY DEF RpInv
    <2>1. ResultsJoinTheirCalls
      <3>1. ASSUME builder # NoRun
            PROVE  /\ Matched(builder.timeline, builder.open, builder.taken)
                   /\ DOMAIN builder.timeline = 1..Len(builder.timeline)
        BY <3>1, JoinGood DEF Running, GoodBuilder, Builders
      <3>2. ASSUME lastSnapshot # NoRun
            PROVE  /\ Matched(lastSnapshot.timeline, lastSnapshot.open, lastSnapshot.taken)
                   /\ DOMAIN lastSnapshot.timeline = 1..Len(lastSnapshot.timeline)
        BY <3>2 DEF JoinInv, Snapshots
      <3> QED BY <3>1, <3>2 DEF ResultsJoinTheirCalls, Matched
    <2>2. SummariesBounded
      <3> SUFFICES ASSUME NEW w \in DOMAIN writers, NEW i \in DOMAIN writers[w].md.process
                   PROVE  Bounded(writers[w].md.process[i])
        BY DEF SummariesBounded, Bounded
      <3>1. writers[w] \in Writings
        BY DEF DiskInv
      <3>2. writers[w].md.process \in Seq(Summaries)
        BY <3>1 DEF Writings, Reports
      <3>3. writers[w].md.process[i] \in Summaries
        BY <3>2
      <3> QED BY <3>3 DEF Summaries
    <2>3. NoPartialReport
      BY DEF NoPartialReport, DiskInv
    <2>4. NotesAreTrue
      <3> SUFFICES ASSUME NEW w \in DOMAIN writers
                   PROVE  /\ Told(w, "written") => writers[w].md.at \in DOMAIN disk /\ w \notin temps
                          /\ Told(w, "failed") => \A s \in DOMAIN disk : disk[s].by # w
        BY DEF NotesAreTrue
      <3>1. \A k : Told(w, k) => \E n \in 1..Len(notes) : notes[n].kind = k /\ notes[n].w = w
        BY DEF DiskInv, Told
      <3> QED BY <3>1 DEF DiskInv
    <2> QED BY <2>1, <2>2, <2>3, <2>4 DEF ReportSound
  <1> QED BY <1>1, RpInvariant, PTL

-----------------------------------------------------------------------------
(* Skills. *)

(* q lists the members of S, each once, in the order of the relation R.    *)
Enumerates(q, S, R) ==
    /\ q \in Seq(S)
    /\ \A x \in S : \E i \in DOMAIN q : q[i] = x
    /\ \A i, j \in DOMAIN q : i < j => <<q[i], q[j]>> \in R

StrictOrder(S, R) ==
    /\ \A x \in S : <<x, x>> \notin R
    /\ \A x, y \in S : x # y => <<x, y>> \in R \/ <<y, x>> \in R
    /\ \A x, y, z \in S : <<x, y>> \in R /\ <<y, z>> \in R => <<x, z>> \in R

(* A finite set with a strict total order is listed by the number of       *)
(* members before each.                                                    *)
LEMMA SortedRel ==
    ASSUME NEW S, IsFiniteSet(S), NEW R, StrictOrder(S, R), NEW q,
           q = [i \in 1..Cardinality(S) |->
                  CHOOSE x \in S : Cardinality({y \in S : <<y, x>> \in R}) = i - 1]
    PROVE  Enumerates(q, S, R)
  <1> DEFINE N == Cardinality(S)
             below(x) == {y \in S : <<y, x>> \in R}
             rank == [x \in S |-> Cardinality(below(x)) + 1]
  <1>1. N \in Nat
    BY FS_CardinalityType
  <1>2. ASSUME NEW x \in S
        PROVE  /\ IsFiniteSet(below(x)) /\ Cardinality(below(x)) \in Nat
               /\ rank[x] = Cardinality(below(x)) + 1 /\ rank[x] \in 1..N
    <2>1. below(x) \in SUBSET (S \ {x})
      BY DEF StrictOrder
    <2>2. IsFiniteSet(S \ {x}) /\ Cardinality(S \ {x}) = N - 1
      BY FS_RemoveElement
    <2>3. IsFiniteSet(below(x)) /\ Cardinality(below(x)) <= N - 1
      <3> HIDE DEF below, N
      <3> QED BY <2>1, <2>2, FS_Subset
    <2>4. Cardinality(below(x)) \in Nat
      <3> HIDE DEF below
      <3> QED BY <2>3, FS_CardinalityType
    <2> QED BY <1>1, <2>3, <2>4
  <1>3. ASSUME NEW x \in S, NEW y \in S, <<x, y>> \in R
        PROVE  rank[x] < rank[y]
    <2>1. below(x) \in SUBSET below(y)
      BY <1>3 DEF StrictOrder
    <2>2. x \in below(y) /\ x \notin below(x)
      BY <1>3 DEF StrictOrder
    <2>3. Cardinality(below(x)) <= Cardinality(below(y))
          /\ (Cardinality(below(x)) = Cardinality(below(y)) => below(x) = below(y))
      <3>1. IsFiniteSet(below(y))
        BY <1>2
      <3> HIDE DEF below
      <3> QED BY <2>1, <3>1, FS_Subset
    <2>4. Cardinality(below(x)) # Cardinality(below(y))
      BY <2>2, <2>3
    <2>5. /\ Cardinality(below(x)) \in Nat /\ rank[x] = Cardinality(below(x)) + 1
          /\ Cardinality(below(y)) \in Nat /\ rank[y] = Cardinality(below(y)) + 1
      BY <1>2
    <2> HIDE DEF below, rank
    <2> QED BY <2>3, <2>4, <2>5
  <1>4. \A x, y \in S : rank[x] = rank[y] => x = y
    <2> SUFFICES ASSUME NEW x \in S, NEW y \in S, rank[x] = rank[y], x # y PROVE FALSE
      OBVIOUS
    <2>1. rank[x] \in Int /\ rank[y] \in Int
      <3>1. rank[x] \in 1..N /\ rank[y] \in 1..N
        BY <1>2
      <3> HIDE DEF rank
      <3> QED BY <3>1, <1>1
    <2>2. <<x, y>> \in R \/ <<y, x>> \in R
      BY DEF StrictOrder
    <2> HIDE DEF rank
    <2> QED BY <1>3, <2>1, <2>2
  <1>5. rank \in Surjection(S, 1..N)
    <2>1. rank \in [S -> 1..N]
      BY <1>2
    <2>2. rank \in Injection(S, 1..N)
      <3> HIDE DEF rank
      <3> QED BY <2>1, <1>4 DEF Injection, IsInjective
    <2>3. IsFiniteSet(1..N) /\ Cardinality(1..N) = N
      BY <1>1, FS_Interval
    <2> HIDE DEF rank
    <2> QED BY <2>2, <2>3, FS_Injection
  <1>6. ASSUME NEW i \in 1..N PROVE q[i] \in S /\ rank[q[i]] = i
    <2>1. PICK x \in S : rank[x] = i
      <3> HIDE DEF rank
      <3> QED BY <1>5 DEF Surjection
    <2>2. Cardinality(below(x)) = i - 1
      <3>1. rank[x] = Cardinality(below(x)) + 1 /\ Cardinality(below(x)) \in Nat
        BY <1>2
      <3> HIDE DEF rank, below
      <3> QED BY <2>1, <3>1
    <2>3. q[i] = CHOOSE z \in S : Cardinality(below(z)) = i - 1
      OBVIOUS
    <2>4. q[i] \in S /\ Cardinality(below(q[i])) = i - 1
      <3> HIDE DEF below
      <3> QED BY <2>2, <2>3
    <2>5. rank[q[i]] = Cardinality(below(q[i])) + 1
      BY <2>4, <1>2
    <2> HIDE DEF rank, below
    <2> QED BY <2>4, <2>5
  <1>7. q \in Seq(S) /\ Len(q) = N /\ DOMAIN q = 1..N
    <2>1. q = [i \in 1..N |-> CHOOSE x \in S : Cardinality(below(x)) = i - 1]
      OBVIOUS
    <2>2. \A i \in 1..N : q[i] \in S
      BY <1>6
    <2>3. q \in [1..N -> S]
      <3> HIDE DEF below, N
      <3> QED BY <2>1, <2>2
    <2>4. q \in Seq(S) /\ DOMAIN q = 1..N
      <3> HIDE DEF N
      <3> QED BY <2>3, <1>1, SeqDef
    <2>5. Len(q) = N
      <3>1. Len(q) \in Nat /\ DOMAIN q = 1..Len(q)
        BY <2>4, LenProperties
      <3>2. \A l, k \in Nat : 1..l = 1..k => l = k
        OBVIOUS
      <3> HIDE DEF N
      <3> QED BY <2>4, <3>1, <3>2, <1>1
    <2> QED BY <2>4, <2>5
  <1>8. \A x \in S : \E i \in DOMAIN q : q[i] = x
    <2> SUFFICES ASSUME NEW x \in S PROVE \E i \in DOMAIN q : q[i] = x
      OBVIOUS
    <2>1. rank[x] \in 1..N
      BY <1>2
    <2>2. q[rank[x]] \in S /\ rank[q[rank[x]]] = rank[x]
      <3> HIDE DEF rank
      <3> QED BY <2>1, <1>6
    <2> HIDE DEF rank
    <2> QED BY <2>1, <2>2, <1>4, <1>7
  <1>9. \A i, j \in DOMAIN q : i < j => <<q[i], q[j]>> \in R
    <2> SUFFICES ASSUME NEW i \in 1..N, NEW j \in 1..N, i < j PROVE <<q[i], q[j]>> \in R
      BY <1>7
    <2>1. q[i] \in S /\ q[j] \in S /\ rank[q[i]] = i /\ rank[q[j]] = j
      BY <1>6
    <2>2. <<q[j], q[i]>> \in R => rank[q[j]] < rank[q[i]]
      BY <2>1, <1>3
    <2>3. <<q[j], q[i]>> \notin R /\ q[i] # q[j]
      <3> HIDE DEF rank, N
      <3> QED BY <2>1, <2>2, <1>1
    <2> HIDE DEF rank
    <2> QED BY <2>1, <2>3 DEF StrictOrder
  <1> QED BY <1>7, <1>8, <1>9 DEF Enumerates

(* The two uses: paths and ranks in the order of integers, specs by band   *)
(* and then by their place in it.                                          *)
LEMMA SortedInts ==
    ASSUME NEW S, IsFiniteSet(S), S \subseteq Int
    PROVE  Enumerates(Sorted(S, <), S, {r \in S \X S : r[1] < r[2]})
  <1> DEFINE R == {r \in S \X S : r[1] < r[2]}
  <1>1. StrictOrder(S, R)
    BY DEF StrictOrder
  <1>2. \A x \in S : {y \in S : y < x} = {y \in S : <<y, x>> \in R}
    OBVIOUS
  <1>3. Sorted(S, <) = [i \in 1..Cardinality(S) |->
                  CHOOSE x \in S : Cardinality({y \in S : <<y, x>> \in R}) = i - 1]
    <2>1. Sorted(S, <) = [i \in 1..Cardinality(S) |->
                  CHOOSE x \in S : Cardinality({y \in S : y < x}) = i - 1]
      BY DEF Sorted
    <2>2. \A i : (CHOOSE x \in S : Cardinality({y \in S : y < x}) = i - 1)
                 = (CHOOSE x \in S : Cardinality({y \in S : <<y, x>> \in R}) = i - 1)
      <3> HIDE DEF R
      <3> QED BY <1>2
    <2> HIDE DEF R
    <2> QED BY <2>1, <2>2
  <1> HIDE DEF R
  <1>4. Enumerates(Sorted(S, <), S, R)
    BY <1>1, <1>3, SortedRel
  <1> QED BY <1>4 DEF R

SpecSet == [dir : DOMAIN SkDirs, band : Int, sub : Int, required : BOOLEAN]

(* The specs of the bands up to b, no two in one place of one band. *)
Banded(given, b) ==
    /\ given \in Seq(SpecSet)
    /\ \A i \in DOMAIN given : given[i].band <= b
    /\ \A i, j \in DOMAIN given :
         given[i].band = given[j].band /\ given[i].sub = given[j].sub => i = j

(* One more band of directories behind the weaker ones.                    *)
LEMMA AddBand ==
    ASSUME NEW given, NEW b \in 0..4, Banded(given, b - 1), NEW dirs \in Seq(DOMAIN SkDirs), NEW more,
           more = [i \in DOMAIN dirs |-> [dir |-> dirs[i], band |-> b, sub |-> i, required |-> b = 4]]
    PROVE  Banded(given \o more, b)
  <1>1. given \in Seq(SpecSet) /\ Len(given) \in Nat /\ DOMAIN given = 1..Len(given)
    BY DEF Banded
  <1>2. Len(dirs) \in Nat /\ DOMAIN dirs = 1..Len(dirs)
    OBVIOUS
  <1>3. \A i \in 1..Len(dirs) : more[i] \in SpecSet /\ more[i].band = b /\ more[i].sub = i
    BY <1>2 DEF SpecSet
  <1>4. more \in [1..Len(dirs) -> SpecSet]
    <2>1. more = [i \in 1..Len(dirs) |-> [dir |-> dirs[i], band |-> b, sub |-> i, required |-> b = 4]]
      BY <1>2
    <2> QED BY <2>1, <1>3
  <1>5. more \in Seq(SpecSet) /\ Len(more) = Len(dirs)
    <2>1. more \in Seq(SpecSet)
      BY <1>4, <1>2, SeqDef
    <2>2. Len(more) \in Nat /\ DOMAIN more = 1..Len(more) /\ DOMAIN more = 1..Len(dirs)
      BY <2>1, <1>4
    <2> QED BY <2>1, <2>2, <1>2
  <1> DEFINE both == given \o more
             n == Len(given)
             m == Len(dirs)
  <1>6. both \in Seq(SpecSet) /\ Len(both) = n + m /\ DOMAIN both = 1..(n + m)
    <2>1. /\ both \in Seq(SpecSet) /\ Len(both) = n + m
          /\ \A i \in 1..(n + m) : both[i] = IF i <= n THEN given[i] ELSE more[i - n]
      <3>1. Len(more) = m
        BY <1>5
      <3> HIDE DEF m
      <3> QED BY <1>1, <1>5, <3>1, ConcatProperties
    <2> HIDE DEF both, n, m
    <2> QED BY <2>1, LenProperties
  <1>7. ASSUME NEW i \in 1..(n + m)
        PROVE  \/ i \in 1..n /\ both[i] = given[i]
               \/ i - n \in 1..m /\ both[i].band = b /\ both[i].sub = i - n
    <2>1. CASE i <= n
      BY <2>1, <1>1, <1>2, <1>5
    <2>2. CASE i > n
      <3>1. i - n \in 1..m
        BY <2>2, <1>1, <1>2
      <3>2. both[i] = more[i - n]
        BY <2>2, <1>1, <1>2, <1>5
      <3> QED BY <3>1, <3>2, <1>3
    <2> QED BY <2>1, <2>2, <1>1, <1>2
  <1>8. \A i \in 1..n : given[i].band <= b - 1 /\ given[i].band \in Int
    <2> SUFFICES ASSUME NEW i \in 1..n PROVE given[i].band <= b - 1 /\ given[i].band \in Int
      OBVIOUS
    <2>1. given[i] \in SpecSet
      BY <1>1, ElementOfSeq
    <2>2. i \in DOMAIN given
      BY <1>1
    <2>3. given[i].band <= b - 1
      BY <2>2 DEF Banded
    <2> QED BY <2>1, <2>3 DEF SpecSet
  <1>9. b \in Int /\ n \in Nat /\ m \in Nat
    BY <1>1, <1>2
  <1> HIDE DEF both, n, m
  <1>10. \A i \in DOMAIN both : both[i].band <= b
    <2> SUFFICES ASSUME NEW i \in 1..(n + m) PROVE both[i].band <= b
      BY <1>6
    <2>1. CASE i \in 1..n /\ both[i] = given[i]
      BY <2>1, <1>8, <1>9
    <2>2. CASE both[i].band = b
      BY <2>2, <1>9
    <2> QED BY <2>1, <2>2, <1>7
  <1>11. ASSUME NEW i \in 1..(n + m), NEW j \in 1..(n + m), both[i].band = both[j].band, both[i].sub = both[j].sub
         PROVE  i = j
    <2>1. CASE i \in 1..n /\ both[i] = given[i]
      <3>1. both[j].band # b
        BY <2>1, <1>8, <1>9, <1>11
      <3>2. j \in 1..n /\ both[j] = given[j]
        BY <3>1, <1>7
      <3> QED BY <2>1, <3>2, <1>11, <1>1 DEF Banded, n
    <2>2. CASE i - n \in 1..m /\ both[i].band = b /\ both[i].sub = i - n
      <3>1. ~(j \in 1..n /\ both[j] = given[j])
        BY <2>2, <1>8, <1>9, <1>11
      <3>2. both[j].sub = j - n
        BY <3>1, <1>7
      <3> QED BY <2>2, <3>2, <1>9, <1>11
    <2> QED BY <2>1, <2>2, <1>7
  <1> QED BY <1>6, <1>10, <1>11 DEF Banded, both

(* So the specs of all bands are ordered by band and place.                *)
LEMMA SpecsBanded ==
    ASSUME NEW in \in SkInputs
    PROVE  Banded(RootSpecs(in), 4)
  <1> DEFINE band(dirs, b) ==
               [i \in DOMAIN dirs |-> [dir |-> dirs[i], band |-> b, sub |-> i, required |-> b = 4]]
  <1>1. /\ in.builtin \in Seq(DOMAIN SkDirs) /\ in.plugins \in Seq(DOMAIN SkDirs)
        /\ in.home \in Seq(DOMAIN SkDirs) /\ in.cwd \in Seq(DOMAIN SkDirs)
        /\ in.paths \in Seq(DOMAIN SkDirs)
    BY SkillsAssumption
  <1>2. Banded(<< >>, 0 - 1)
    BY DEF Banded
  <1>3. Banded(<< >> \o band(in.builtin, 0), 0)
    <2>1. 0 \in 0..4 /\ in.builtin \in Seq(DOMAIN SkDirs)
      BY <1>1
    <2> QED BY <2>1, <1>2, AddBand
  <1>4. << >> \o band(in.builtin, 0) = band(in.builtin, 0)
    <2>1. \A i \in 1..Len(in.builtin) : band(in.builtin, 0)[i] \in SpecSet
      BY <1>1 DEF SpecSet
    <2>2. band(in.builtin, 0) \in [1..Len(in.builtin) -> SpecSet]
      <3>1. DOMAIN in.builtin = 1..Len(in.builtin)
        BY <1>1
      <3> QED BY <2>1, <3>1
    <2>3. band(in.builtin, 0) \in Seq(SpecSet)
      <3>1. Len(in.builtin) \in Nat
        BY <1>1
      <3> HIDE DEF band
      <3> QED BY <2>2, <3>1, SeqDef
    <2> HIDE DEF band
    <2> QED BY <2>3
  <1>5. Banded(band(in.builtin, 0), 1 - 1)
    BY <1>3, <1>4
  <1>6. Banded(band(in.builtin, 0) \o band(in.plugins, 1), 2 - 1)
    BY <1>1, <1>5, AddBand
  <1>7. Banded(band(in.builtin, 0) \o band(in.plugins, 1) \o band(in.home, 2), 3 - 1)
    BY <1>1, <1>6, AddBand
  <1>8. Banded(band(in.builtin, 0) \o band(in.plugins, 1) \o band(in.home, 2) \o band(in.cwd, 3), 4 - 1)
    BY <1>1, <1>7, AddBand
  <1>9. Banded(band(in.builtin, 0) \o band(in.plugins, 1) \o band(in.home, 2) \o band(in.cwd, 3)
                 \o band(in.paths, 4), 4)
    BY <1>1, <1>8, AddBand
  <1> QED BY <1>9 DEF RootSpecs

(* The strongest band a directory is listed in. *)
BandOf(given, d) == Max({given[i].band : i \in {i \in DOMAIN given : given[i].dir = d}})

RootSet == [dir : DOMAIN SkDirs, required : BOOLEAN, prec : Nat]

(* The roots: one of each directory, each with its place as precedence,    *)
(* the stronger bands later.                                               *)
RankInv(rs, given) ==
    /\ rs \in Seq(RootSet)
    /\ \A i \in DOMAIN rs : rs[i].prec = i
    /\ \A i, j \in DOMAIN rs : rs[i].dir = rs[j].dir => i = j
    /\ \A i, j \in DOMAIN rs : i <= j => BandOf(given, rs[i].dir) <= BandOf(given, rs[j].dir)

(* The maximum of a set of integers.                                       *)
LEMMA MaxIs ==
    ASSUME NEW T, NEW m \in T, T \subseteq Int, \A x \in T : x <= m
    PROVE  Max(T) = m
  <1>1. \A x \in T : m >= x
    OBVIOUS
  <1>2. Max(T) \in T /\ \A y \in T : Max(T) >= y
    BY <1>1 DEF Max
  <1>3. Max(T) \in Int /\ m \in Int /\ Max(T) <= m /\ Max(T) >= m
    BY <1>2
  <1> QED BY <1>3

(* A sequence has finitely many elements.                                  *)
LEMMA RangeFinite ==
    ASSUME NEW S, NEW s \in Seq(S)
    PROVE  IsFiniteSet(ToSet(s))
  <1>1. Len(s) \in Nat /\ DOMAIN s = 1..Len(s) /\ s \in [1..Len(s) -> S]
    BY LenProperties
  <1>2. s \in Surjection(1..Len(s), ToSet(s))
    BY <1>1 DEF Surjection, ToSet
  <1>3. IsFiniteSet(1..Len(s))
    BY <1>1, FS_Interval
  <1> QED BY <1>2, <1>3, FS_Surjection

(* AssignPrecedence sorts the specs and keeps the strongest of each        *)
(* directory.                                                              *)
LEMMA PrecedenceRanks ==
    ASSUME NEW given, Banded(given, 4)
    PROVE  RankInv(AssignPrecedence(given), given)
  <1> DEFINE S == ToSet(given)
             before(a, b) == a.band < b.band \/ (a.band = b.band /\ a.sub < b.sub)
             R == {r \in S \X S : before(r[1], r[2])}
             sorted == Sorted(S, before)
             keep == {i \in DOMAIN sorted : \A j \in i+1..Len(sorted) : sorted[j].dir # sorted[i].dir}
             index == Sorted(keep, <)
             rs == [i \in DOMAIN index |-> [dir |-> sorted[index[i]].dir, required |-> sorted[index[i]].required, prec |-> i]]
  <1>1. AssignPrecedence(given) = rs
    BY DEF AssignPrecedence
  <1>2. given \in Seq(SpecSet) /\ DOMAIN given = 1..Len(given) /\ S \subseteq SpecSet
    <2>1. given \in Seq(SpecSet)
      BY DEF Banded
    <2>2. DOMAIN given = 1..Len(given) /\ \A i \in 1..Len(given) : given[i] \in SpecSet
      BY <2>1, LenProperties, ElementOfSeq
    <2> QED BY <2>1, <2>2 DEF ToSet
  <1>3. Enumerates(sorted, S, R)
    <2>1. IsFiniteSet(S)
      BY <1>2, RangeFinite
    <2>2. \A x \in S : x.band \in Int /\ x.sub \in Int
      BY <1>2 DEF SpecSet
    <2>3. \A x, y \in S : x.band = y.band /\ x.sub = y.sub => x = y
      BY <1>2 DEF Banded, ToSet
    <2>4. StrictOrder(S, R)
      <3> HIDE DEF S
      <3>1. \A x \in S : <<x, x>> \notin R
        BY <2>2
      <3>2. \A x, y \in S : x # y => <<x, y>> \in R \/ <<y, x>> \in R
        BY <2>2, <2>3
      <3>3. \A x, y, z \in S : <<x, y>> \in R /\ <<y, z>> \in R => <<x, z>> \in R
        BY <2>2
      <3> QED BY <3>1, <3>2, <3>3 DEF StrictOrder
    <2>5. \A x \in S : {y \in S : before(y, x)} = {y \in S : <<y, x>> \in R}
      OBVIOUS
    <2>6. sorted = [i \in 1..Cardinality(S) |->
                      CHOOSE x \in S : Cardinality({y \in S : before(y, x)}) = i - 1]
      BY DEF Sorted
    <2> DEFINE one(i) == CHOOSE x \in S : Cardinality({y \in S : before(y, x)}) = i - 1
               two(i) == CHOOSE x \in S : Cardinality({y \in S : <<y, x>> \in R}) = i - 1
    <2>7. \A i : one(i) = two(i)
      <3> HIDE DEF R, before, S
      <3> QED BY <2>5
    <2>8. sorted = [i \in 1..Cardinality(S) |-> two(i)]
      <3>1. sorted = [i \in 1..Cardinality(S) |-> one(i)]
        BY <2>6
      <3> HIDE DEF one, two, sorted, S
      <3> QED BY <3>1, <2>7
    <2> HIDE DEF sorted, R, S
    <2> QED BY <2>1, <2>4, <2>8, SortedRel
  <1>4. /\ sorted \in Seq(S) /\ Len(sorted) \in Nat /\ DOMAIN sorted = 1..Len(sorted)
        /\ \A i \in 1..Len(sorted) : sorted[i] \in S
    <2> HIDE DEF sorted, R, S
    <2> QED BY <1>3, LenProperties, ElementOfSeq DEF Enumerates
  <1>5. keep \in SUBSET (1..Len(sorted)) /\ keep \subseteq Int /\ IsFiniteSet(keep)
    <2>1. keep \in SUBSET (1..Len(sorted))
      BY <1>4
    <2> HIDE DEF sorted
    <2>2. IsFiniteSet(1..Len(sorted))
      BY <1>4, FS_Interval
    <2> HIDE DEF keep
    <2>3. IsFiniteSet(keep)
      BY <2>1, <2>2, FS_Subset
    <2> QED BY <2>1, <2>3
  <1>6. Enumerates(index, keep, {r \in keep \X keep : r[1] < r[2]})
    <2> HIDE DEF keep
    <2> QED BY <1>5, SortedInts
  <1> HIDE DEF index
  <1>7. /\ index \in Seq(keep) /\ Len(index) \in Nat /\ DOMAIN index = 1..Len(index)
        /\ \A i \in 1..Len(index) : index[i] \in keep
        /\ \A i, j \in 1..Len(index) : i < j => index[i] < index[j]
    <2> HIDE DEF keep
    <2>1. index \in Seq(keep)
      BY <1>6 DEF Enumerates
    <2>2. Len(index) \in Nat /\ DOMAIN index = 1..Len(index) /\ \A i \in 1..Len(index) : index[i] \in keep
      BY <2>1, LenProperties, ElementOfSeq
    <2> QED BY <2>1, <2>2, <1>6 DEF Enumerates
  <1> HIDE DEF sorted
  <1>8. ASSUME NEW i \in 1..Len(index)
        PROVE  /\ index[i] \in 1..Len(sorted) /\ sorted[index[i]] \in SpecSet
               /\ rs[i] = [dir |-> sorted[index[i]].dir, required |-> sorted[index[i]].required, prec |-> i]
               /\ BandOf(given, rs[i].dir) = sorted[index[i]].band
    <2>1. index[i] \in keep
      BY <1>7
    <2>2. index[i] \in 1..Len(sorted) /\ sorted[index[i]] \in S /\ sorted[index[i]] \in SpecSet
      <3>1. index[i] \in 1..Len(sorted)
        BY <2>1, <1>5
      <3> HIDE DEF S
      <3> QED BY <3>1, <1>4, <1>2
    <2>3. rs[i] = [dir |-> sorted[index[i]].dir, required |-> sorted[index[i]].required, prec |-> i]
      BY <1>7
    <2> DEFINE d == sorted[index[i]].dir
               T == {given[k].band : k \in {k \in DOMAIN given : given[k].dir = d}}
    <2>4. sorted[index[i]].band \in T
      <3>1. PICK k \in DOMAIN given : given[k] = sorted[index[i]]
        BY <2>2 DEF ToSet
      <3> QED BY <3>1
    <2>5. T \subseteq Int
      <3>1. \A k \in DOMAIN given : given[k] \in SpecSet
        BY <1>2 DEF ToSet
      <3> QED BY <3>1 DEF SpecSet
    <2>6. ASSUME NEW k \in DOMAIN given, given[k].dir = d
          PROVE  given[k].band <= sorted[index[i]].band
      <3>1. given[k] \in S
        BY DEF ToSet
      <3>2. PICK l \in 1..Len(sorted) : sorted[l] = given[k]
        <4> HIDE DEF S, R
        <4> QED BY <3>1, <1>3, <1>4 DEF Enumerates
      <3>3. ~(l > index[i])
        <4>1. ASSUME l > index[i] PROVE FALSE
          <5>1. l \in index[i] + 1..Len(sorted)
            BY <4>1, <2>2, <1>4
          <5> QED BY <5>1, <2>1, <3>2, <2>6
        <4> QED BY <4>1
      <3>4. CASE l = index[i]
        BY <3>4, <3>2, <2>2 DEF SpecSet
      <3>5. CASE l < index[i]
        <4>1. <<sorted[l], sorted[index[i]]>> \in R
          <5> HIDE DEF S, R
          <5> QED BY <3>5, <2>2, <1>3, <1>4 DEF Enumerates
        <4>2. before(sorted[l], sorted[index[i]])
          BY <4>1
        <4>3. sorted[l].band \in Int /\ sorted[index[i]].band \in Int
          <5>1. sorted[l] \in SpecSet
            <6> HIDE DEF S
            <6> QED BY <1>2, <1>4
          <5> QED BY <5>1, <2>2 DEF SpecSet
        <4> QED BY <4>2, <4>3, <3>2
      <3> QED BY <3>3, <3>4, <3>5, <2>2, <1>4
    <2>7. Max(T) = sorted[index[i]].band
      <3>1. \A x \in T : x <= sorted[index[i]].band
        BY <2>6
      <3> HIDE DEF T
      <3> QED BY <2>4, <2>5, <3>1, MaxIs
    <2>8. BandOf(given, rs[i].dir) = Max(T)
      <3>1. rs[i].dir = d
        BY <2>3
      <3> HIDE DEF rs, d
      <3> QED BY <3>1 DEF BandOf
    <2> QED BY <2>2, <2>3, <2>7, <2>8
  <1>9. DOMAIN rs = 1..Len(index) /\ rs \in Seq(RootSet)
    <2>1. DOMAIN rs = 1..Len(index)
      BY <1>7
    <2>2. \A i \in 1..Len(index) : rs[i] \in RootSet
      <3> SUFFICES ASSUME NEW i \in 1..Len(index) PROVE rs[i] \in RootSet
        OBVIOUS
      <3>1. /\ sorted[index[i]] \in SpecSet /\ i \in Nat
            /\ rs[i] = [dir |-> sorted[index[i]].dir, required |-> sorted[index[i]].required, prec |-> i]
        BY <1>8
      <3> HIDE DEF rs
      <3> QED BY <3>1 DEF SpecSet, RootSet
    <2>3. rs = [i \in 1..Len(index) |-> rs[i]]
      BY <1>7
    <2>4. rs \in [1..Len(index) -> RootSet]
      <3> HIDE DEF rs
      <3> QED BY <2>2, <2>3
    <2> HIDE DEF rs
    <2> QED BY <2>1, <2>4, <1>7, SeqDef
  <1>10. \A i \in DOMAIN rs : rs[i].prec = i
    <2> HIDE DEF rs
    <2> QED BY <1>8, <1>9
  <1>11. ASSUME NEW i \in 1..Len(index), NEW j \in 1..Len(index), i < j
         PROVE  rs[i].dir # rs[j].dir /\ BandOf(given, rs[i].dir) <= BandOf(given, rs[j].dir)
    <2>1. /\ index[i] \in 1..Len(sorted) /\ index[j] \in 1..Len(sorted) /\ index[i] < index[j]
          /\ index[i] \in keep /\ rs[i].dir = sorted[index[i]].dir /\ rs[j].dir = sorted[index[j]].dir
          /\ BandOf(given, rs[i].dir) = sorted[index[i]].band /\ BandOf(given, rs[j].dir) = sorted[index[j]].band
          /\ sorted[index[i]] \in SpecSet /\ sorted[index[j]] \in SpecSet
      <3> DEFINE dirOf(k) == sorted[index[k]]
      <3>1. ASSUME NEW k \in 1..Len(index)
            PROVE  /\ index[k] \in 1..Len(sorted) /\ dirOf(k) \in SpecSet /\ rs[k].dir = dirOf(k).dir
                   /\ BandOf(given, rs[k].dir) = dirOf(k).band
        <4>1. rs[k] = [dir |-> dirOf(k).dir, required |-> dirOf(k).required, prec |-> k]
              /\ index[k] \in 1..Len(sorted) /\ dirOf(k) \in SpecSet
          BY <1>8
        <4>2. BandOf(given, rs[k].dir) = dirOf(k).band
          BY <1>8
        <4> HIDE DEF rs, dirOf
        <4> QED BY <4>1, <4>2
      <3> HIDE DEF rs, keep
      <3>2. index[i] < index[j] /\ index[i] \in keep
        BY <1>7, <1>11
      <3> HIDE DEF dirOf
      <3>3. /\ index[i] \in 1..Len(sorted) /\ dirOf(i) \in SpecSet /\ rs[i].dir = dirOf(i).dir
            /\ BandOf(given, rs[i].dir) = dirOf(i).band
        BY <3>1
      <3>4. /\ index[j] \in 1..Len(sorted) /\ dirOf(j) \in SpecSet /\ rs[j].dir = dirOf(j).dir
            /\ BandOf(given, rs[j].dir) = dirOf(j).band
        BY <3>1
      <3> QED BY <3>2, <3>3, <3>4 DEF dirOf
    <2>2. index[j] \in index[i] + 1..Len(sorted)
      BY <2>1, <1>4
    <2>3. sorted[index[j]].dir # sorted[index[i]].dir
      BY <2>1, <2>2
    <2>4. <<sorted[index[i]], sorted[index[j]]>> \in R
      <3> HIDE DEF S, R
      <3> QED BY <2>1, <1>3, <1>4 DEF Enumerates
    <2>5. sorted[index[i]].band <= sorted[index[j]].band
      <3>1. before(sorted[index[i]], sorted[index[j]])
        BY <2>4
      <3>2. sorted[index[i]].band \in Int /\ sorted[index[j]].band \in Int
        BY <2>1 DEF SpecSet
      <3> QED BY <3>1, <3>2
    <2> HIDE DEF rs
    <2> QED BY <2>1, <2>3, <2>5
  <1>12. \A i \in 1..Len(index) : BandOf(given, rs[i].dir) \in Int
    <2> SUFFICES ASSUME NEW i \in 1..Len(index) PROVE BandOf(given, rs[i].dir) \in Int
      OBVIOUS
    <2> HIDE DEF rs
    <2> QED BY <1>8 DEF SpecSet
  <1> HIDE DEF rs
  <1>13. \A i, j \in DOMAIN rs : rs[i].dir = rs[j].dir => i = j
    <2> SUFFICES ASSUME NEW i \in 1..Len(index), NEW j \in 1..Len(index), rs[i].dir = rs[j].dir PROVE i = j
      BY <1>9
    <2>1. i \in Int /\ j \in Int
      OBVIOUS
    <2> QED BY <2>1, <1>11
  <1>14. \A i, j \in DOMAIN rs : i <= j => BandOf(given, rs[i].dir) <= BandOf(given, rs[j].dir)
    <2> SUFFICES ASSUME NEW i \in 1..Len(index), NEW j \in 1..Len(index), i <= j
                 PROVE  BandOf(given, rs[i].dir) <= BandOf(given, rs[j].dir)
      BY <1>9
    <2>1. CASE i = j
      BY <2>1, <1>12
    <2>2. CASE i < j
      BY <2>2, <1>11
    <2> QED BY <2>1, <2>2
  <1> QED BY <1>1, <1>9, <1>10, <1>13, <1>14 DEF RankInv

(* What a found file becomes, whichever root it is found in. *)
SkillSet ==
    {[name |-> SkDocs[SkEntries[p].doc].name, prec |-> k, path |-> p] : p \in DOMAIN SkEntries, k \in Nat}
FileSet == [path : DOMAIN SkEntries, prec : Nat]

Settled == ToSet(valid) \cup found.ignored

(* The roots before the rest in todo have been scanned. *)
Scanned == Len(roots) - Len(todo)
OfScanned(path, prec) ==
    prec \in 1..Scanned /\ roots[prec].dir = SkEntries[path].dir

TodoInv ==
    /\ todo \in Seq(RootSet) /\ Len(todo) <= Len(roots)
    /\ \A i \in 1..Len(todo) : todo[i] = roots[Scanned + i]

EntriesInv ==
    /\ DOMAIN entries = DOMAIN SkEntries
    /\ \A p \in DOMAIN SkEntries :
         entries[p] = [dir |-> SkEntries[p].dir, is |-> entries[p].is, doc |-> SkEntries[p].doc]

FilesInv ==
    /\ files \in Seq(FileSet)
    /\ \A i \in DOMAIN files : OfScanned(files[i].path, files[i].prec)
    /\ \A i, j \in DOMAIN files : files[i].path = files[j].path => i = j
    /\ \A i \in DOMAIN files, j \in DOMAIN valid : files[i].path # valid[j].path

SettledInv ==
    /\ valid \in Seq(SkillSet)
    /\ found.ignored \subseteq SkillSet
    /\ found = [roots |-> found.roots, errors |-> found.errors, warnings |-> found.warnings,
                ignored |-> found.ignored]
    /\ \A s \in Settled : OfScanned(s.path, s.prec)
    /\ \A i, j \in DOMAIN valid : valid[i].path = valid[j].path => i = j

(* Where a file of a scanned root may be, as long as it is still there. *)
Accounted(p) ==
    \/ \E i \in DOMAIN files : files[i].path = p
    \/ \E s \in Settled : s.path = p
    \/ p \in Files(found.errors)
    \/ \E why \in {"TOO_MANY_FILES", "ROOT_UNREADABLE"} : <<SkEntries[p].dir, why>> \in found.roots
    \/ SkDirs[SkEntries[p].dir] = "absent"

ScanInv ==
    \A p \in DOMAIN SkEntries, k \in 1..Scanned :
        entries[p].is = "file" /\ roots[k].dir = SkEntries[p].dir => Accounted(p)

SkPhaseInv ==
    /\ skPc = "roots" => roots = << >> /\ todo = << >>
    /\ skPc # "load" => files = << >>
    /\ skPc \in {"resolve", "ready"} => todo = << >>
    /\ IF skPc = "ready" THEN resolution = Resolve(valid)
       ELSE resolution = [active |-> {}, shadowed |-> {}, ambiguous |-> {}]

SkInv ==
    /\ RankInv(roots, specs)
    /\ TodoInv
    /\ EntriesInv
    /\ FilesInv
    /\ SettledInv
    /\ ScanInv
    /\ SkPhaseInv

(* The steps.                                                              *)
LEMMA SkInitInv == SkInit => SkInv
  <1> SUFFICES ASSUME SkInit PROVE SkInv
    OBVIOUS
  <1> USE DEF SkInit
  <1>1. RankInv(roots, specs)
    BY DEF RankInv
  <1>2. TodoInv /\ Scanned = 0
    BY DEF TodoInv, Scanned
  <1>3. EntriesInv
    BY SkillsAssumption DEF EntriesInv
  <1>4. FilesInv
    BY DEF FilesInv
  <1>5. SettledInv
    BY DEF SettledInv, NoFind, Settled, ToSet
  <1>6. ScanInv
    BY <1>2 DEF ScanInv
  <1>7. SkPhaseInv
    BY DEF SkPhaseInv
  <1> QED BY <1>1, <1>2, <1>3, <1>4, <1>5, <1>6, <1>7 DEF SkInv

(* The lengths of the sequences.                                           *)
LEMMA SkLengths ==
    ASSUME SkInv
    PROVE  /\ roots \in Seq(RootSet) /\ Len(roots) \in Nat /\ DOMAIN roots = 1..Len(roots)
           /\ todo \in Seq(RootSet) /\ Len(todo) \in Nat /\ DOMAIN todo = 1..Len(todo)
           /\ files \in Seq(FileSet) /\ Len(files) \in Nat /\ DOMAIN files = 1..Len(files)
           /\ valid \in Seq(SkillSet) /\ Len(valid) \in Nat /\ DOMAIN valid = 1..Len(valid)
           /\ Scanned \in Nat /\ Len(roots) = Scanned + Len(todo)
  <1>1. /\ roots \in Seq(RootSet) /\ todo \in Seq(RootSet) /\ files \in Seq(FileSet) /\ valid \in Seq(SkillSet)
        /\ Len(todo) <= Len(roots)
    BY DEF SkInv, RankInv, TodoInv, FilesInv, SettledInv
  <1>2. Len(roots) \in Nat /\ Len(todo) \in Nat /\ Len(files) \in Nat /\ Len(valid) \in Nat
    BY <1>1, LenProperties
  <1>3. /\ DOMAIN roots = 1..Len(roots) /\ DOMAIN todo = 1..Len(todo)
        /\ DOMAIN files = 1..Len(files) /\ DOMAIN valid = 1..Len(valid)
    BY <1>1, LenProperties
  <1>4. Scanned \in Nat /\ Len(roots) = Scanned + Len(todo)
    BY <1>1, <1>2 DEF Scanned
  <1> QED BY <1>1, <1>2, <1>3, <1>4

(* Nothing is found before there are roots.                                *)
LEMMA BuildInv ==
    ASSUME SkInv, BuildSkillRoots
    PROVE  SkInv'
  <1> USE DEF BuildSkillRoots
  <1>1. roots = << >> /\ todo = << >> /\ Scanned = 0
    BY DEF SkInv, SkPhaseInv, Scanned
  <1>2. files = << >> /\ valid = << >> /\ found.ignored = {}
    <2>1. \A i \in DOMAIN files : FALSE
      BY <1>1 DEF SkInv, FilesInv, OfScanned
    <2>2. Settled = {}
      BY <1>1 DEF SkInv, SettledInv, OfScanned
    <2>3. DOMAIN valid = {} /\ found.ignored = {}
      BY <2>2 DEF Settled, ToSet
    <2>4. Len(files) = 0 /\ Len(valid) = 0
      <3>1. \A n \in Nat : n # 0 => 1 \in 1..n
        OBVIOUS
      <3>2. 1 \notin 1..Len(files) /\ 1 \notin 1..Len(valid)
        BY <2>1, <2>3, SkLengths
      <3> QED BY <3>1, <3>2, SkLengths
    <2> QED BY <2>3, <2>4, SkLengths
  <1>3. PICK in \in SkInputs : specs' = RootSpecs(in)
    OBVIOUS
  <1>4. RankInv(roots', specs')
    BY <1>3, SpecsBanded, PrecedenceRanks
  <1>5. roots' \in Seq(RootSet) /\ Len(roots') \in Nat /\ todo' = roots'
    <2>1. roots' \in Seq(RootSet)
      BY <1>4 DEF RankInv
    <2> QED BY <2>1, LenProperties
  <1>6. Scanned' = 0
    BY <1>5 DEF Scanned
  <1>7. TodoInv'
    <2>1. \A i \in 1..Len(todo') : todo'[i] = roots'[Scanned' + i]
      BY <1>5, <1>6
    <2> QED BY <1>5, <2>1 DEF TodoInv
  <1>8. EntriesInv'
    BY DEF SkInv, EntriesInv
  <1>9. FilesInv'
    BY <1>2 DEF FilesInv
  <1>10. SettledInv'
    <2>1. Settled' = {}
      BY <1>2 DEF Settled, ToSet
    <2>2. found' = found /\ valid' = << >>
      BY <1>2
    <2> QED BY <1>2, <2>1, <2>2 DEF SkInv, SettledInv
  <1>11. ScanInv'
    BY <1>6 DEF ScanInv
  <1>12. SkPhaseInv'
    BY <1>2 DEF SkInv, SkPhaseInv
  <1> QED BY <1>4, <1>7, <1>8, <1>9, <1>10, <1>11, <1>12 DEF SkInv

(* The steps that leave the scan as it is.                                 *)
LEMMA ScanKept ==
    ASSUME SkInv, UNCHANGED <<specs, roots, files, todo, entries, valid, found>>, SkPhaseInv'
    PROVE  SkInv'
  <1>1. RankInv(roots, specs)'
    BY DEF SkInv
  <1>2. Scanned' = Scanned /\ Settled' = Settled
    BY DEF Scanned, Settled
  <1>3. TodoInv'
    BY <1>2 DEF SkInv, TodoInv
  <1>4. EntriesInv'
    BY DEF SkInv, EntriesInv
  <1>5. FilesInv'
    BY <1>2 DEF SkInv, FilesInv, OfScanned
  <1>6. SettledInv'
    BY <1>2 DEF SkInv, SettledInv, OfScanned
  <1>7. \A p : Accounted(p) => Accounted(p)'
    BY <1>2 DEF Accounted
  <1>8. ScanInv'
    BY <1>2, <1>7 DEF SkInv, ScanInv
  <1> QED BY <1>1, <1>3, <1>4, <1>5, <1>6, <1>8 DEF SkInv

(* Nothing is found after the scan.                                        *)
LEMMA LateInv ==
    ASSUME SkInv, RootDone \/ skillsForChat \/ Execute \/ SkDone \/ UNCHANGED skVars
    PROVE  SkInv'
  <1>1. CASE RootDone
    <2>1. SkPhaseInv'
      BY <1>1 DEF RootDone, SkInv, SkPhaseInv
    <2> QED BY <1>1, <2>1, ScanKept DEF RootDone
  <1>2. CASE skillsForChat
    <2>1. SkPhaseInv'
      BY <1>2 DEF skillsForChat, SkInv, SkPhaseInv
    <2> QED BY <1>2, <2>1, ScanKept DEF skillsForChat
  <1>3. CASE Execute
    <2>1. UNCHANGED <<skPc, specs, roots, files, todo, entries, valid, found, resolution>>
      BY <1>3 DEF Execute
    <2>2. SkPhaseInv'
      BY <2>1 DEF SkInv, SkPhaseInv
    <2> QED BY <2>1, <2>2, ScanKept
  <1>4. CASE SkDone \/ UNCHANGED skVars
    <2>1. UNCHANGED <<skPc, specs, roots, files, todo, entries, valid, found, resolution>>
      BY <1>4 DEF SkDone, skVars
    <2>2. SkPhaseInv'
      BY <2>1 DEF SkInv, SkPhaseInv
    <2> QED BY <2>1, <2>2, ScanKept
  <1> QED BY <1>1, <1>2, <1>3, <1>4

(* A file that is removed owes no account any more.                        *)
LEMMA EditInv ==
    ASSUME SkInv, Edit
    PROVE  SkInv'
  <1>1. UNCHANGED <<skPc, specs, roots, files, todo, valid, found, resolution>>
    BY DEF Edit
  <1>2. PICK p \in DOMAIN SkEntries, to \in {"gone", "symlink"} : entries' = [entries EXCEPT ![p].is = to]
    BY DEF Edit
  <1>3. DOMAIN entries = DOMAIN SkEntries /\ DOMAIN entries' = DOMAIN entries
    BY <1>2 DEF SkInv, EntriesInv
  <1>4. ASSUME NEW q \in DOMAIN SkEntries
        PROVE  /\ entries'[q] = [dir |-> SkEntries[q].dir, is |-> entries'[q].is, doc |-> SkEntries[q].doc]
               /\ entries'[q].is = "file" => entries[q].is = "file"
    <2>1. entries[q] = [dir |-> SkEntries[q].dir, is |-> entries[q].is, doc |-> SkEntries[q].doc]
      BY DEF SkInv, EntriesInv
    <2>2. CASE q # p
      BY <2>1, <2>2, <1>2, <1>3
    <2>3. CASE q = p
      <3>1. entries'[q] = [entries[q] EXCEPT !.is = to]
        BY <2>3, <1>2, <1>3
      <3>2. to = "gone" \/ to = "symlink"
        OBVIOUS
      <3> QED BY <2>1, <3>1, <3>2
    <2> QED BY <2>2, <2>3
  <1>5. EntriesInv'
    BY <1>3, <1>4 DEF EntriesInv
  <1>6. Scanned' = Scanned /\ Settled' = Settled
    BY <1>1 DEF Scanned, Settled
  <1>7. RankInv(roots, specs)' /\ TodoInv' /\ SkPhaseInv'
    BY <1>1, <1>6 DEF SkInv, TodoInv, SkPhaseInv
  <1>8. FilesInv' /\ SettledInv'
    BY <1>1, <1>6 DEF SkInv, FilesInv, SettledInv, OfScanned
  <1>9. \A q : Accounted(q) => Accounted(q)'
    BY <1>1, <1>6 DEF Accounted
  <1>10. ScanInv'
    BY <1>1, <1>4, <1>6, <1>9 DEF SkInv, ScanInv
  <1> QED BY <1>5, <1>7, <1>8, <1>10 DEF SkInv

(* The files of the next root go to the list, or its limit is an error.    *)
LEMMA ScanStepInv ==
    ASSUME SkInv, scanRoot
    PROVE  SkInv'
  <1> DEFINE root == Head(todo)
             n == Scanned + 1
             all == IF SkDirs[root.dir] = "dir" THEN Candidates(root.dir) ELSE {}
             cut == Cardinality(all) > MaxFilesPerRoot
  <1>1. /\ skPc = "scan" /\ todo # << >> /\ todo' = Tail(todo) /\ skPc' = "load"
        /\ UNCHANGED <<specs, roots, entries, valid, resolution>>
    BY DEF scanRoot
  <1>2. /\ all \subseteq DOMAIN SkEntries /\ all \subseteq Int /\ IsFiniteSet(all)
        /\ \A p \in all : SkEntries[p].dir = root.dir
    <2>1. all \in SUBSET DOMAIN SkEntries /\ \A p \in all : SkEntries[p].dir = root.dir
      BY DEF SkInv, EntriesInv, Candidates
    <2> HIDE DEF all
    <2>2. IsFiniteSet(all)
      BY <2>1, SkillsAssumption, FS_Subset
    <2> QED BY <2>1, <2>2, SkillsAssumption
  <1>3. \E some, q, errors :
           /\ some \in SUBSET all
           /\ DOMAIN q = 1..Cardinality(some)
           /\ \A i \in DOMAIN q : q[i] \in some
           /\ \A i, j \in DOMAIN q : q[i] = q[j] => i = j
           /\ files' = [i \in DOMAIN q |-> [path |-> q[i], prec |-> root.prec]]
           /\ found' = [found EXCEPT !.roots = @ \cup errors]
           /\ \/ SkDirs[root.dir] = "absent"
              \/ \E why \in {"TOO_MANY_FILES", "ROOT_UNREADABLE"} : <<root.dir, why>> \in errors
              \/ all = Candidates(root.dir) /\ \A p \in all : \E i \in DOMAIN q : q[i] = p
    <2>1. CASE \E some \in (IF cut THEN kSubset(MaxFilesPerRoot, all) ELSE {all}) :
                 /\ files' = [i \in DOMAIN Sorted(some, <) |-> [path |-> Sorted(some, <)[i], prec |-> root.prec]]
                 /\ found' = [found EXCEPT !.roots = @ \cup (rootError(root) \cup limitError(root.dir, cut))]
      <3>1. PICK some \in (IF cut THEN kSubset(MaxFilesPerRoot, all) ELSE {all}) :
                 /\ files' = [i \in DOMAIN Sorted(some, <) |-> [path |-> Sorted(some, <)[i], prec |-> root.prec]]
                 /\ found' = [found EXCEPT !.roots = @ \cup (rootError(root) \cup limitError(root.dir, cut))]
        BY <2>1
      <3>2. some \in SUBSET all /\ (~cut => some = all)
        BY DEF kSubset
      <3>3. SkDirs[root.dir] # "dir" /\ SkDirs[root.dir] # "absent" => <<root.dir, "ROOT_UNREADABLE">> \in rootError(root)
        BY DEF rootError
      <3>4. cut => <<root.dir, "TOO_MANY_FILES">> \in limitError(root.dir, cut)
        BY DEF limitError
      <3>5. SkDirs[root.dir] = "dir" => all = Candidates(root.dir)
        OBVIOUS
      <3> HIDE DEF all, cut
      <3>6. some \subseteq Int /\ IsFiniteSet(some)
        BY <3>2, <1>2, FS_Subset
      <3> DEFINE q == Sorted(some, <)
      <3>7. Enumerates(q, some, {r \in some \X some : r[1] < r[2]})
        BY <3>6, SortedInts
      <3>8. Cardinality(some) \in Nat /\ DOMAIN q = 1..Cardinality(some)
        BY <3>6, FS_CardinalityType DEF Sorted
      <3> DEFINE errors == rootError(root) \cup limitError(root.dir, cut)
      <3>10. files' = [i \in DOMAIN q |-> [path |-> q[i], prec |-> root.prec]]
             /\ found' = [found EXCEPT !.roots = @ \cup errors]
        BY <3>1
      <3> HIDE DEF q
      <3>11. \A i \in DOMAIN q : q[i] \in some
        <4>1. q \in Seq(some)
          BY <3>7 DEF Enumerates
        <4>2. DOMAIN q = 1..Len(q)
          BY <4>1, LenProperties
        <4> QED BY <4>1, <4>2, ElementOfSeq
      <3>12. \A i, j \in DOMAIN q : q[i] = q[j] => i = j
        <4> SUFFICES ASSUME NEW i \in 1..Cardinality(some), NEW j \in 1..Cardinality(some), q[i] = q[j] PROVE i = j
          BY <3>8
        <4>1. \A k, l \in 1..Cardinality(some) : k < l => q[k] < q[l]
          BY <3>7, <3>8 DEF Enumerates
        <4>2. q[i] \in Int /\ q[j] \in Int
          BY <3>8, <3>11, <3>6
        <4>3. i \in Int /\ j \in Int
          OBVIOUS
        <4> QED BY <4>1, <4>2, <4>3
      <3>13. \A p \in some : \E i \in DOMAIN q : q[i] = p
        BY <3>7 DEF Enumerates
      <3>14. \/ SkDirs[root.dir] = "absent"
             \/ \E why \in {"TOO_MANY_FILES", "ROOT_UNREADABLE"} : <<root.dir, why>> \in errors
             \/ all = Candidates(root.dir) /\ \A p \in all : \E i \in DOMAIN q : q[i] = p
        BY <3>2, <3>3, <3>4, <3>5, <3>13
      <3> HIDE DEF errors
      <3> QED BY <3>2, <3>8, <3>10, <3>11, <3>12, <3>14
    <2>2. CASE \E some \in {some \in SUBSET all : Cardinality(some) <= MaxFilesPerRoot} :
                 \E q \in SetToSeqs(some) :
                     /\ files' = [i \in DOMAIN q |-> [path |-> q[i], prec |-> root.prec]]
                     /\ found' = [found EXCEPT !.roots = @ \cup {<<root.dir, "ROOT_UNREADABLE">>}]
      <3> HIDE DEF all
      <3>1. PICK some \in SUBSET all : \E q \in SetToSeqs(some) :
                     /\ files' = [i \in DOMAIN q |-> [path |-> q[i], prec |-> root.prec]]
                     /\ found' = [found EXCEPT !.roots = @ \cup {<<root.dir, "ROOT_UNREADABLE">>}]
        BY <2>2
      <3>b. PICK q \in SetToSeqs(some) :
                     /\ files' = [i \in DOMAIN q |-> [path |-> q[i], prec |-> root.prec]]
                     /\ found' = [found EXCEPT !.roots = @ \cup {<<root.dir, "ROOT_UNREADABLE">>}]
        BY <3>1
      <3>2. /\ q \in [1..Cardinality(some) -> some]
            /\ \A i, j \in 1..Cardinality(some) : i # j => q[i] # q[j]
        BY DEF SetToSeqs
      <3>3. /\ DOMAIN q = 1..Cardinality(some)
            /\ \A i \in DOMAIN q : q[i] \in some
            /\ \A i, j \in DOMAIN q : q[i] = q[j] => i = j
        BY <3>2
      <3> QED BY <3>b, <3>3
    <2> HIDE DEF all, cut
    <2> QED BY <2>1, <2>2 DEF scanRoot, all, cut
  <1> HIDE DEF all, cut
  <1>4. PICK some, q, errors :
           /\ some \in SUBSET all
           /\ DOMAIN q = 1..Cardinality(some)
           /\ \A i \in DOMAIN q : q[i] \in some
           /\ \A i, j \in DOMAIN q : q[i] = q[j] => i = j
           /\ files' = [i \in DOMAIN q |-> [path |-> q[i], prec |-> root.prec]]
           /\ found' = [found EXCEPT !.roots = @ \cup errors]
           /\ \/ SkDirs[root.dir] = "absent"
              \/ \E why \in {"TOO_MANY_FILES", "ROOT_UNREADABLE"} : <<root.dir, why>> \in errors
              \/ all = Candidates(root.dir) /\ \A p \in all : \E i \in DOMAIN q : q[i] = p
    BY <1>3
  <1>5. /\ n \in 1..Len(roots) /\ root = roots[n] /\ root.prec = n /\ Len(todo) > 0
        /\ todo' \in Seq(RootSet) /\ Len(todo') = Len(todo) - 1
        /\ \A i \in 1..Len(todo') : todo'[i] = roots[n + i]
    <2>1. todo \in Seq(RootSet) /\ Len(todo) \in Nat /\ Len(todo) # 0
      BY <1>1, SkLengths, EmptySeq
    <2>2. /\ todo' \in Seq(RootSet) /\ Len(todo') = Len(todo) - 1 /\ root = todo[1]
          /\ \A i \in 1..Len(todo') : todo'[i] = todo[i + 1]
      BY <1>1, <2>1, HeadTailProperties
    <2>3. \A i \in 1..Len(todo) : todo[i] = roots[Scanned + i]
      BY DEF SkInv, TodoInv
    <2>4. Scanned \in Nat /\ Len(roots) = Scanned + Len(todo) /\ DOMAIN roots = 1..Len(roots)
      BY SkLengths
    <2>5. root = roots[n] /\ n \in 1..Len(roots)
      BY <2>1, <2>2, <2>3, <2>4
    <2>6. root.prec = n
      BY <2>5, <2>4 DEF SkInv, RankInv
    <2>7. \A i \in 1..Len(todo') : todo'[i] = roots[n + i]
      <3> SUFFICES ASSUME NEW i \in 1..Len(todo') PROVE todo'[i] = roots[n + i]
        OBVIOUS
      <3>1. i + 1 \in 1..Len(todo) /\ Scanned + (i + 1) = n + i
        BY <2>1, <2>2, <2>4
      <3> HIDE DEF n
      <3> QED BY <3>1, <2>2, <2>3
    <2> QED BY <2>1, <2>2, <2>5, <2>6, <2>7
  <1> HIDE DEF root
  <1>6. Scanned' = n /\ Len(todo') <= Len(roots) /\ Scanned \in Nat /\ n \in Nat
    BY <1>1, <1>5, SkLengths DEF Scanned
  <1>7. TodoInv'
    BY <1>1, <1>5, <1>6 DEF TodoInv
  <1>8. RankInv(roots, specs)' /\ EntriesInv' /\ SkPhaseInv'
    BY <1>1 DEF SkInv, EntriesInv, SkPhaseInv
  <1>9. \A path, prec : OfScanned(path, prec) => OfScanned(path, prec)'
    BY <1>1, <1>6 DEF OfScanned
  <1>10. Settled' = Settled
    BY <1>1, <1>4 DEF Settled, SkInv, SettledInv
  <1>11. SettledInv'
    <2>1. found' = [roots |-> found'.roots, errors |-> found'.errors, warnings |-> found'.warnings,
                    ignored |-> found'.ignored] /\ found'.ignored = found.ignored
      BY <1>4 DEF SkInv, SettledInv
    <2>2. \A s \in Settled' : OfScanned(s.path, s.prec)'
      BY <1>9, <1>10 DEF SkInv, SettledInv
    <2> QED BY <2>1, <2>2, <1>1 DEF SkInv, SettledInv
  <1>12. IsFiniteSet(some) /\ Cardinality(some) \in Nat
    BY <1>4, <1>2, FS_Subset, FS_CardinalityType
  <1>13. /\ DOMAIN files' = 1..Cardinality(some) /\ files' \in Seq(FileSet)
         /\ \A i \in 1..Cardinality(some) : files'[i].path = q[i] /\ files'[i].prec = n
    <2>1. files' = [i \in 1..Cardinality(some) |-> [path |-> q[i], prec |-> n]]
      BY <1>4, <1>5
    <2> HIDE DEF n
    <2>2. \A i \in 1..Cardinality(some) : [path |-> q[i], prec |-> n] \in FileSet
      BY <1>4, <1>2, <1>6 DEF FileSet
    <2>3. files' \in [1..Cardinality(some) -> FileSet]
      BY <2>1, <2>2
    <2>4. DOMAIN files' = 1..Cardinality(some)
      BY <2>1
    <2>5. \A i \in 1..Cardinality(some) : files'[i].path = q[i] /\ files'[i].prec = n
      BY <2>1
    <2>6. files' \in Seq(FileSet)
      BY <2>3, <1>12, SeqDef
    <2> QED BY <2>4, <2>5, <2>6
  <1>14. FilesInv'
    <2>1. ASSUME NEW i \in DOMAIN files' PROVE OfScanned(files[i].path, files[i].prec)'
      <3>1. q[i] \in all /\ files'[i].path = q[i] /\ files'[i].prec = n
        BY <1>4, <1>13
      <3>2. SkEntries[q[i]].dir = roots[n].dir
        BY <3>1, <1>2, <1>5
      <3>3. n \in 1..n
        BY <1>6
      <3> HIDE DEF n
      <3> QED BY <3>1, <3>2, <3>3, <1>1, <1>6 DEF OfScanned
    <2>2. ASSUME NEW i \in DOMAIN files', NEW j \in DOMAIN valid'
          PROVE  files'[i].path # valid'[j].path
      <3>1. q[i] \in all /\ files'[i].path = q[i]
        BY <1>4, <1>13
      <3>2. SkEntries[q[i]].dir = roots[n].dir
        BY <3>1, <1>2, <1>5
      <3>3. OfScanned(valid[j].path, valid[j].prec)
        BY <1>1 DEF SkInv, SettledInv, Settled, ToSet
      <3>4. valid[j].prec \in 1..Scanned /\ roots[valid[j].prec].dir = SkEntries[valid[j].path].dir
        BY <3>3 DEF OfScanned
      <3>5. /\ valid[j].prec # n /\ valid[j].prec \in DOMAIN roots /\ n \in DOMAIN roots
        BY <3>4, <1>5, <1>6, SkLengths
      <3>6. roots[valid[j].prec].dir # roots[n].dir
        BY <3>5 DEF SkInv, RankInv
      <3> QED BY <3>1, <3>2, <3>4, <3>6, <1>1
    <2>3. \A i, j \in DOMAIN files' : files'[i].path = files'[j].path => i = j
      BY <1>4, <1>13
    <2> QED BY <1>13, <2>1, <2>2, <2>3 DEF FilesInv
  <1>15. ScanInv'
    <2> SUFFICES ASSUME NEW p \in DOMAIN SkEntries, NEW k \in 1..Scanned',
                        entries'[p].is = "file", roots'[k].dir = SkEntries[p].dir
                 PROVE  Accounted(p)'
      BY DEF ScanInv
    <2>1. CASE k \in 1..Scanned
      <3>1. Accounted(p)
        BY <2>1, <1>1 DEF SkInv, ScanInv
      <3>2. ~\E i \in DOMAIN files : files[i].path = p
        <4>1. files = << >>
          BY <1>1 DEF SkInv, SkPhaseInv
        <4> QED BY <4>1
      <3>3. found.roots \subseteq found'.roots /\ found'.errors = found.errors
        BY <1>4 DEF SkInv, SettledInv
      <3> QED BY <3>1, <3>2, <3>3, <1>10 DEF Accounted
    <2>2. CASE k \notin 1..Scanned
      <3>1. k = n
        BY <2>2, <1>6
      <3>2. SkEntries[p].dir = root.dir
        BY <3>1, <1>1, <1>5
      <3>3. CASE SkDirs[root.dir] = "absent"
        BY <3>2, <3>3 DEF Accounted
      <3>4. CASE \E why \in {"TOO_MANY_FILES", "ROOT_UNREADABLE"} : <<root.dir, why>> \in errors
        <4>1. found'.roots = found.roots \cup errors
          BY <1>4 DEF SkInv, SettledInv
        <4> QED BY <3>4, <4>1, <3>2 DEF Accounted
      <3>5. CASE all = Candidates(root.dir) /\ \A r \in all : \E i \in DOMAIN q : q[i] = r
        <4>1. p \in all
          BY <3>2, <3>5, <1>1 DEF Candidates, SkInv, EntriesInv
        <4>2. \E i \in DOMAIN q : q[i] = p
          BY <4>1, <3>5
        <4>3. \E i \in DOMAIN files' : files'[i].path = p
          BY <4>2, <1>4, <1>13
        <4> QED BY <4>3 DEF Accounted
      <3> QED BY <3>3, <3>4, <3>5, <1>4
    <2> QED BY <2>1, <2>2
  <1> QED BY <1>7, <1>8, <1>11, <1>14, <1>15 DEF SkInv

(* A file becomes an error, an ignored or a valid skill.                   *)
LEMMA LoadInv ==
    ASSUME SkInv, loadSkill
    PROVE  SkInv'
  <1> DEFINE p == Head(files).path
             doc == SkDocs[entries[p].doc]
             skill == [name |-> doc.name, prec |-> Head(files).prec, path |-> p]
  <1>1. /\ skPc = "load" /\ files # << >> /\ files' = Tail(files)
        /\ UNCHANGED <<skPc, specs, roots, todo, entries, resolution>>
    BY DEF loadSkill
  <1>2. /\ files' \in Seq(FileSet) /\ DOMAIN files' = 1..Len(files') /\ Len(files') = Len(files) - 1
        /\ Len(files) \in Nat /\ Len(files) > 0 /\ DOMAIN files = 1..Len(files)
        /\ \A i \in 1..Len(files') : files'[i] = files[i + 1]
        /\ Head(files) = files[1]
    <2>1. files \in Seq(FileSet) /\ Len(files) \in Nat /\ Len(files) # 0 /\ DOMAIN files = 1..Len(files)
      BY <1>1, SkLengths, EmptySeq
    <2>2. /\ files' \in Seq(FileSet) /\ Len(files') = Len(files) - 1 /\ Head(files) = files[1]
          /\ \A i \in 1..Len(files') : files'[i] = files[i + 1]
      BY <1>1, <2>1, HeadTailProperties
    <2>3. DOMAIN files' = 1..Len(files')
      BY <2>2, LenProperties
    <2> QED BY <2>1, <2>2, <2>3
  <1>3. /\ p \in DOMAIN SkEntries /\ Head(files).prec \in Nat
        /\ OfScanned(p, Head(files).prec)
        /\ doc = SkDocs[SkEntries[p].doc]
    <2>1. 1 \in DOMAIN files
      BY <1>2
    <2>2. files[1] \in FileSet /\ OfScanned(files[1].path, files[1].prec)
      BY <2>1, SkLengths, ElementOfSeq DEF SkInv, FilesInv
    <2>3. p \in DOMAIN SkEntries /\ Head(files).prec \in Nat /\ OfScanned(p, Head(files).prec)
      BY <2>2, <1>2 DEF FileSet
    <2> HIDE DEF p
    <2>4. entries[p].doc = SkEntries[p].doc
      BY <2>3 DEF SkInv, EntriesInv
    <2> QED BY <2>3, <2>4
  <1>4. skill \in SkillSet
    <2> HIDE DEF p, doc
    <2> QED BY <1>3 DEF SkillSet
  <1>5. \/ UNCHANGED valid /\ found'.ignored = found.ignored /\ p \in Files(found'.errors)
        \/ UNCHANGED valid /\ found'.ignored = found.ignored \cup {skill}
        \/ valid' = Append(valid, skill) /\ found'.ignored = found.ignored
    <2> HIDE DEF p, doc
    <2> DEFINE warned == [found EXCEPT !.warnings = @ \cup warningsOf(p, doc)]
    <2>1. found = [roots |-> found.roots, errors |-> found.errors, warnings |-> found.warnings,
                   ignored |-> found.ignored]
      BY DEF SkInv, SettledInv
    <2>2. \A why : <<p, why>>[1] = p
      OBVIOUS
    <2>3. ASSUME NEW why, found' = [found EXCEPT !.errors = @ \cup {<<p, why>>}]
          PROVE  found'.ignored = found.ignored /\ p \in Files(found'.errors)
      <3>1. found'.ignored = found.ignored /\ <<p, why>> \in found'.errors
        BY <2>1, <2>3
      <3> QED BY <2>2, <3>1 DEF Files
    <2>4. ASSUME NEW why, found' = [warned EXCEPT !.errors = @ \cup {<<p, why>>}]
          PROVE  found'.ignored = found.ignored /\ p \in Files(found'.errors)
      <3>1. found'.ignored = found.ignored /\ <<p, why>> \in found'.errors
        BY <2>1, <2>4
      <3> QED BY <2>2, <3>1 DEF Files
    <2>5. ASSUME found' = [warned EXCEPT !.ignored = @ \cup {skill}]
          PROVE  found'.ignored = found.ignored \cup {skill}
      BY <2>1, <2>5
    <2>6. ASSUME found' = warned PROVE found'.ignored = found.ignored
      BY <2>1, <2>6
    <2>7. IF entries[p].is # "file" THEN found' = [found EXCEPT !.errors = @ \cup {<<p, "FILE_UNREADABLE">>}] /\ UNCHANGED valid
          ELSE IF doc.parse # "ok" THEN found' = [found EXCEPT !.errors = @ \cup {<<p, doc.parse>>}] /\ UNCHANGED valid
          ELSE IF ~SkillValid(doc)
          THEN found' = [warned EXCEPT !.errors = @ \cup {<<p, "VALIDATION_FAILED">>}] /\ UNCHANGED valid
          ELSE IF doc.name \in disabled
          THEN found' = [warned EXCEPT !.ignored = @ \cup {skill}] /\ UNCHANGED valid
          ELSE found' = warned /\ valid' = Append(valid, skill)
      BY DEF loadSkill, p, doc
    <2> HIDE DEF skill, warned
    <2> QED BY <2>3, <2>4, <2>5, <2>6, <2>7
  <1>6. found'.roots = found.roots /\ found.errors \subseteq found'.errors
        /\ found' = [roots |-> found'.roots, errors |-> found'.errors, warnings |-> found'.warnings,
                      ignored |-> found'.ignored]
    <2>1. found = [roots |-> found.roots, errors |-> found.errors, warnings |-> found.warnings,
                   ignored |-> found.ignored]
      BY DEF SkInv, SettledInv
    <2> QED BY <2>1 DEF loadSkill
  <1> HIDE DEF p, doc, skill
  <1>7. skill.path = p /\ skill.prec = Head(files).prec
    BY DEF skill
  <1>8. /\ valid' \in Seq(SkillSet) /\ found'.ignored \subseteq SkillSet
        /\ Settled \subseteq Settled' /\ Settled' \subseteq Settled \cup {skill}
        /\ p \notin Files(found'.errors) => skill \in Settled'
        /\ \A j \in DOMAIN valid' : (j \in DOMAIN valid /\ valid'[j] = valid[j]) \/ (j = Len(valid) + 1 /\ valid'[j] = skill)
        /\ Len(valid) \in Nat /\ DOMAIN valid = 1..Len(valid)
    <2>1. valid \in Seq(SkillSet) /\ Len(valid) \in Nat /\ DOMAIN valid = 1..Len(valid)
      BY SkLengths
    <2>2. found.ignored \subseteq SkillSet
      BY DEF SkInv, SettledInv
    <2>3. CASE /\ UNCHANGED valid
               /\ \/ found'.ignored = found.ignored /\ p \in Files(found'.errors)
                  \/ found'.ignored = found.ignored \cup {skill}
      BY <2>1, <2>2, <2>3, <1>4 DEF Settled
    <2>4. CASE valid' = Append(valid, skill) /\ found'.ignored = found.ignored
      <3>1. /\ valid' \in Seq(SkillSet) /\ DOMAIN valid' = 1..(Len(valid) + 1)
            /\ \A j \in 1..Len(valid) : valid'[j] = valid[j]
            /\ valid'[Len(valid) + 1] = skill
        <4>1. valid' \in Seq(SkillSet) /\ Len(valid') = Len(valid) + 1
          BY <2>1, <2>4, <1>4, AppendProperties
        <4>2. /\ \A j \in 1..Len(valid) : valid'[j] = valid[j]
              /\ valid'[Len(valid) + 1] = skill
          BY <2>1, <2>4, <1>4, AppendProperties
        <4>3. DOMAIN valid' = 1..(Len(valid) + 1)
          BY <4>1, LenProperties
        <4> QED BY <4>1, <4>2, <4>3
      <3>2. ToSet(valid') = ToSet(valid) \cup {skill}
        BY <3>1, <2>1 DEF ToSet
      <3>3. Settled' = Settled \cup {skill}
        BY <3>2, <2>4 DEF Settled
      <3>4. \A j \in DOMAIN valid' : (j \in DOMAIN valid /\ valid'[j] = valid[j]) \/ (j = Len(valid) + 1 /\ valid'[j] = skill)
        BY <3>1, <2>1
      <3> QED BY <3>1, <3>3, <3>4, <2>1, <2>2, <2>4
    <2> QED BY <2>3, <2>4, <1>5
  <1>9. Scanned' = Scanned /\ \A path, prec : OfScanned(path, prec)' = OfScanned(path, prec)
    BY <1>1 DEF Scanned, OfScanned
  <1>10. \A j \in DOMAIN valid : valid[j].path # p
    <2>1. 1 \in DOMAIN files /\ p = files[1].path
      BY <1>2 DEF p
    <2> QED BY <2>1 DEF SkInv, FilesInv
  <1>11. SettledInv'
    <2>1. \A s \in Settled' : OfScanned(s.path, s.prec)'
      BY <1>3, <1>7, <1>8, <1>9 DEF SkInv, SettledInv
    <2>2. ASSUME NEW i \in DOMAIN valid', NEW j \in DOMAIN valid', valid'[i].path = valid'[j].path
          PROVE  i = j
      <3>1. CASE i \in DOMAIN valid /\ valid'[i] = valid[i] /\ j \in DOMAIN valid /\ valid'[j] = valid[j]
        BY <2>2, <3>1 DEF SkInv, SettledInv
      <3>2. CASE i \in DOMAIN valid /\ valid'[i] = valid[i] /\ j = Len(valid) + 1 /\ valid'[j] = skill
        BY <2>2, <3>2, <1>7, <1>10
      <3>3. CASE j \in DOMAIN valid /\ valid'[j] = valid[j] /\ i = Len(valid) + 1 /\ valid'[i] = skill
        BY <2>2, <3>3, <1>7, <1>10
      <3> QED BY <3>1, <3>2, <3>3, <1>8
    <2> QED BY <1>6, <1>8, <2>1, <2>2 DEF SettledInv
  <1>12. \A i \in DOMAIN files' : i + 1 \in DOMAIN files /\ i + 1 # 1 /\ files'[i] = files[i + 1]
    BY <1>2
  <1>13. FilesInv'
    <2>1. ASSUME NEW i \in DOMAIN files' PROVE OfScanned(files[i].path, files[i].prec)'
      <3>1. OfScanned(files[i + 1].path, files[i + 1].prec)
        BY <1>12 DEF SkInv, FilesInv
      <3> QED BY <3>1, <1>1, <1>9, <1>12 DEF OfScanned
    <2>2. ASSUME NEW i \in DOMAIN files', NEW j \in DOMAIN files', files'[i].path = files'[j].path
          PROVE  i = j
      <3>1. i + 1 = j + 1
        BY <2>2, <1>12 DEF SkInv, FilesInv
      <3>2. i \in Int /\ j \in Int
        BY <1>2
      <3> QED BY <3>1, <3>2
    <2>3. ASSUME NEW i \in DOMAIN files', NEW j \in DOMAIN valid'
          PROVE  files'[i].path # valid'[j].path
      <3>1. files[i + 1].path # files[1].path
        <4>1. 1 \in DOMAIN files
          BY <1>2
        <4> QED BY <4>1, <1>12 DEF SkInv, FilesInv
      <3>2. CASE j \in DOMAIN valid /\ valid'[j] = valid[j]
        BY <3>2, <1>12 DEF SkInv, FilesInv
      <3>3. CASE valid'[j] = skill
        BY <3>1, <3>3, <1>2, <1>7, <1>12 DEF p
      <3> QED BY <3>2, <3>3, <1>8
    <2> QED BY <1>2, <2>1, <2>2, <2>3 DEF FilesInv
  <1>14. ASSUME NEW f, Accounted(f) PROVE Accounted(f)'
    <2>1. CASE \E i \in DOMAIN files : files[i].path = f
      <3>1. PICK i \in DOMAIN files : files[i].path = f
        BY <2>1
      <3>2. CASE i = 1
        <4>1. f = p
          BY <3>1, <3>2, <1>2 DEF p
        <4> QED BY <4>1, <1>7, <1>8 DEF Accounted
      <3>3. CASE i # 1
        <4>1. i - 1 \in DOMAIN files' /\ files'[i - 1] = files[i]
          <5>1. i - 1 \in 1..Len(files') /\ (i - 1) + 1 = i
            BY <3>3, <1>2
          <5> QED BY <5>1, <1>2
        <4> QED BY <4>1, <3>1 DEF Accounted
      <3> QED BY <3>2, <3>3
    <2>2. CASE ~\E i \in DOMAIN files : files[i].path = f
      <3>1. Files(found.errors) \subseteq Files(found'.errors)
        BY <1>6 DEF Files
      <3> QED BY <2>2, <3>1, <1>6, <1>8, <1>14 DEF Accounted
    <2> QED BY <2>1, <2>2
  <1>15. ScanInv'
    BY <1>1, <1>9, <1>14 DEF SkInv, ScanInv
  <1>16. RankInv(roots, specs)' /\ TodoInv' /\ EntriesInv'
    BY <1>1, <1>9 DEF SkInv, TodoInv, EntriesInv
  <1>17. SkPhaseInv'
    BY <1>1 DEF SkInv, SkPhaseInv
  <1> QED BY <1>11, <1>13, <1>15, <1>16, <1>17 DEF SkInv

(* Every step.                                                             *)
LEMMA SkNextInv ==
    ASSUME SkInv, [SkNext]_skVars
    PROVE  SkInv'
  BY BuildInv, ScanStepInv, EditInv, LoadInv, LateInv DEF SkNext

(* What Resolve makes of skills with different paths and the precedences   *)
(* of their roots.                                                         *)
LEMMA ResolvedSound ==
    ASSUME SkInv, skPc = "ready"
    PROVE  SkillsResolved
  <1> DEFINE names == {valid[i].name : i \in DOMAIN valid}
             clear == {n \in names : Cardinality(tops(valid, n)) = 1}
             win(n) == CHOOSE i \in tops(valid, n) : TRUE
  <1>1. resolution =
          [active |-> {valid[win(n)] : n \in clear},
           shadowed |-> {valid[i] : i \in {i \in DOMAIN valid : valid[i].name \in clear /\ win(valid[i].name) # i}},
           ambiguous |-> {valid[i] : i \in {i \in DOMAIN valid : valid[i].name \notin clear}}]
    BY DEF SkInv, SkPhaseInv, Resolve
  <1>2. ASSUME NEW n \in clear
        PROVE  /\ win(n) \in DOMAIN valid /\ valid[win(n)].name = n
               /\ \A j \in DOMAIN valid : valid[j].name = n => valid[j].prec <= valid[win(n)].prec
               /\ \A j \in tops(valid, n) : j = win(n)
    <2>1. IsFiniteSet(tops(valid, n))
      <3>1. tops(valid, n) \in SUBSET (1..Len(valid)) /\ Len(valid) \in Nat
        BY SkLengths DEF tops, Named
      <3>2. IsFiniteSet(1..Len(valid))
        BY <3>1, FS_Interval
      <3> QED BY <3>1, <3>2, FS_Subset
    <2>2. PICK x : tops(valid, n) = {x}
      BY <2>1, FS_Singleton
    <2>3. win(n) = x
      BY <2>2
    <2> HIDE DEF win
    <2> QED BY <2>2, <2>3 DEF tops, Named
  <1> HIDE DEF win
  <1> DEFINE placed == resolution.active \cup resolution.shadowed \cup resolution.ambiguous \cup found.ignored
  <1>3. ASSUME NEW i \in DOMAIN valid
        PROVE  valid[i] \in resolution.active \cup resolution.shadowed \cup resolution.ambiguous
    <2>1. CASE valid[i].name \in clear /\ win(valid[i].name) = i
      BY <2>1, <1>1
    <2>2. CASE valid[i].name \in clear /\ win(valid[i].name) # i
      BY <2>2, <1>1
    <2>3. CASE valid[i].name \notin clear
      BY <2>3, <1>1
    <2> QED BY <2>1, <2>2, <2>3
  <1>4. \A s \in resolution.active : \E n \in clear : s = valid[win(n)]
    BY <1>1
  <1>5. placed = Settled
    <2>1. \A s \in resolution.active \cup resolution.shadowed \cup resolution.ambiguous : s \in ToSet(valid)
      <3>1. \A s \in resolution.active : s \in ToSet(valid)
        BY <1>2, <1>4 DEF ToSet
      <3>2. \A s \in resolution.shadowed \cup resolution.ambiguous : s \in ToSet(valid)
        BY <1>1 DEF ToSet
      <3> QED BY <3>1, <3>2
    <2>2. \A s \in ToSet(valid) : s \in resolution.active \cup resolution.shadowed \cup resolution.ambiguous
      BY <1>3 DEF ToSet
    <2> QED BY <2>1, <2>2 DEF Settled
  <1>6. ASSUME NEW s \in Settled
        PROVE  /\ s \in SkillSet /\ s.prec \in 1..Len(roots) /\ roots[s.prec].dir = SkEntries[s.path].dir
    <2>1. s \in SkillSet
      <3>1. ToSet(valid) \subseteq SkillSet /\ found.ignored \subseteq SkillSet
        BY SkLengths, ElementOfSeq DEF ToSet, SkInv, SettledInv
      <3> QED BY <3>1 DEF Settled
    <2>2. OfScanned(s.path, s.prec)
      BY DEF SkInv, SettledInv
    <2>3. Scanned \in Nat /\ Scanned <= Len(roots) /\ Len(roots) \in Nat
      BY SkLengths
    <2> QED BY <2>1, <2>2, <2>3 DEF OfScanned
  <1>7. ASSUME NEW s \in Settled, NEW t \in Settled, s.path = t.path PROVE s = t
    <2>1. s.prec = t.prec
      <3>1. /\ s.prec \in DOMAIN roots /\ roots[s.prec].dir = SkEntries[s.path].dir
            /\ t.prec \in DOMAIN roots /\ roots[t.prec].dir = SkEntries[t.path].dir
        BY <1>6, SkLengths
      <3>2. \A i, j \in DOMAIN roots : roots[i].dir = roots[j].dir => i = j
        BY DEF SkInv, RankInv
      <3> QED BY <1>7, <3>1, <3>2
    <2>2. PICK p \in DOMAIN SkEntries, k \in Nat : s = [name |-> SkDocs[SkEntries[p].doc].name, prec |-> k, path |-> p]
      BY <1>6 DEF SkillSet
    <2>3. PICK r \in DOMAIN SkEntries, l \in Nat : t = [name |-> SkDocs[SkEntries[r].doc].name, prec |-> l, path |-> r]
      BY <1>6 DEF SkillSet
    <2>4. p = r /\ k = l
      BY <1>7, <2>1, <2>2, <2>3
    <2> QED BY <2>2, <2>3, <2>4
  <1>8. ASSUME NEW s \in resolution.active PROVE s \notin resolution.shadowed \cup resolution.ambiguous
    <2>1. PICK n \in clear : s = valid[win(n)]
      BY <1>4
    <2>2. win(n) \in DOMAIN valid /\ s.name = n
      BY <2>1, <1>2
    <2>3. ASSUME NEW i \in DOMAIN valid, s = valid[i] PROVE i = win(n)
      BY <2>1, <2>2, <2>3 DEF SkInv, SettledInv
    <2>4. s \notin resolution.shadowed
      BY <1>1, <2>2, <2>3
    <2>5. s \notin resolution.ambiguous
      BY <1>1, <2>2
    <2> QED BY <2>4, <2>5
  <1>9. ASSUME NEW p \in DOMAIN entries, entries[p].is = "file", NEW i \in DOMAIN roots, roots[i].dir = entries[p].dir
        PROVE  \/ \E s \in placed : s.path = p
               \/ p \in Files(found.errors)
               \/ \E why \in {"TOO_MANY_FILES", "ROOT_UNREADABLE"} : <<entries[p].dir, why>> \in found.roots
               \/ SkDirs[entries[p].dir] = "absent"
    <2>1. p \in DOMAIN SkEntries /\ entries[p].dir = SkEntries[p].dir
      BY DEF SkInv, EntriesInv
    <2>2. todo = << >> /\ files = << >>
      BY DEF SkInv, SkPhaseInv
    <2>3. i \in 1..Scanned
      BY <2>2, SkLengths
    <2>4. Accounted(p)
      BY <1>9, <2>1, <2>3 DEF SkInv, ScanInv
    <2> HIDE DEF placed
    <2> QED BY <2>1, <2>2, <2>4, <1>5 DEF Accounted
  <1>10. SkillsAccounted
    <2> HIDE DEF clear, names
    <2>1. \A i \in DOMAIN valid : valid[i] \in placed
      BY <1>3
    <2>2. \A s, t \in placed : s.path = t.path => s = t
      <3> HIDE DEF placed
      <3> QED BY <1>5, <1>7
    <2>3. \A s \in resolution.active : s \notin resolution.shadowed \cup resolution.ambiguous
      BY <1>8
    <2>4. \A p \in DOMAIN entries : entries[p].is = "file" /\ (\E i \in DOMAIN roots : roots[i].dir = entries[p].dir) =>
             \/ \E s \in placed : s.path = p
             \/ p \in Files(found.errors)
             \/ \E why \in {"TOO_MANY_FILES", "ROOT_UNREADABLE"} : <<entries[p].dir, why>> \in found.roots
             \/ SkDirs[entries[p].dir] = "absent"
      <3> HIDE DEF placed
      <3> QED BY <1>9
    <2> QED BY <2>1, <2>2, <2>3, <2>4 DEF SkillsAccounted
  <1>11. StrongestBandWins
    <2> SUFFICES ASSUME NEW s \in resolution.active, NEW i \in DOMAIN valid, valid[i].name = s.name
                 PROVE  BandOf(specs, SkEntries[valid[i].path].dir) <= BandOf(specs, SkEntries[s.path].dir)
      BY DEF StrongestBandWins, BandOf
    <2>1. PICK n \in clear : s = valid[win(n)]
      BY <1>4
    <2>2. win(n) \in DOMAIN valid /\ s.name = n /\ valid[i].prec <= s.prec
      BY <2>1, <1>2
    <2>3. s \in Settled /\ valid[i] \in Settled
      BY <2>1, <2>2 DEF Settled, ToSet
    <2>4. /\ s.prec \in DOMAIN roots /\ valid[i].prec \in DOMAIN roots
          /\ roots[s.prec].dir = SkEntries[s.path].dir /\ roots[valid[i].prec].dir = SkEntries[valid[i].path].dir
      BY <2>3, <1>6, SkLengths
    <2>5. BandOf(specs, roots[valid[i].prec].dir) <= BandOf(specs, roots[s.prec].dir)
      BY <2>2, <2>4 DEF SkInv, RankInv
    <2> QED BY <2>4, <2>5
  <1>12. NoArbitraryWinner
    <2> SUFFICES ASSUME NEW s \in resolution.active, NEW i \in DOMAIN valid,
                        valid[i].name = s.name, valid[i].prec = s.prec
                 PROVE  valid[i].path = s.path
      BY DEF NoArbitraryWinner
    <2>1. PICK n \in clear : s = valid[win(n)]
      BY <1>4
    <2>2. win(n) \in DOMAIN valid /\ s.name = n
      BY <2>1, <1>2
    <2>3. i \in tops(valid, n)
      BY <2>1, <2>2, <1>2 DEF tops, Named
    <2> QED BY <2>1, <2>3, <1>2
  <1> QED BY <1>10, <1>11, <1>12 DEF SkillsResolved

(* Each skill name has the one skill of its strongest root or none on a    *)
(* tie, and every file that is still there is accounted for, however the   *)
(* files change during the scan: Discover and Resolve.                     *)
THEOREM SkillsTheorem == SkSpec => []SkillsResolved
  <1>1. SkInv => SkillsResolved
    <2> SUFFICES ASSUME SkInv, skPc # "ready" PROVE SkillsResolved
      BY ResolvedSound
    <2>1. resolution.active = {}
      BY DEF SkInv, SkPhaseInv
    <2> QED BY <2>1 DEF SkillsResolved, SkillsAccounted, StrongestBandWins, NoArbitraryWinner
  <1> QED BY <1>1, SkInitInv, SkNextInv, PTL DEF SkSpec
=============================================================================
