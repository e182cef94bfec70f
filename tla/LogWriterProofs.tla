-------------------------- MODULE LogWriterProofs ---------------------------
(***************************************************************************)
(* The buffered writer keeps every line, for any number of lines, flushes, *)
(* drains and faults and every buffer size.                                *)
(***************************************************************************)
EXTENDS LogWriter, SequenceTheorems, FiniteSetTheorems, TLAPS

-----------------------------------------------------------------------------
(* Lines in sequences. *)
In(l, s) == \E i \in 1..Len(s) : s[i] = l
Uniq(s) == \A i, j \in 1..Len(s) : s[i] = s[j] => i = j

LEMMA ToSetIn ==
    ASSUME NEW s \in Seq(Nat), NEW l PROVE l \in ToSet(s) <=> In(l, s)
  BY DEF ToSet, In

LEMMA EmptyIn == Uniq(<<>>) /\ \A l : ~In(l, <<>>)
  BY DEF Uniq, In

LEMMA AppendIn ==
    ASSUME NEW s \in Seq(Nat), NEW x \in Nat, Uniq(s), ~In(x, s)
    PROVE  /\ Append(s, x) \in Seq(Nat) /\ Uniq(Append(s, x))
           /\ \A l : In(l, Append(s, x)) <=> In(l, s) \/ l = x
  <1> DEFINE t == Append(s, x)
  <1>1. /\ t \in Seq(Nat) /\ Len(s) \in Nat /\ Len(t) = Len(s) + 1
        /\ \A i \in 1..Len(s) : t[i] = s[i]
        /\ t[Len(s) + 1] = x
    BY AppendProperties
  <1> HIDE DEF t
  <1>4. /\ \A i \in 1..Len(t) : i \in 1..Len(s) \/ i = Len(s) + 1
        /\ \A i \in 1..Len(s) : i \in 1..Len(t)
        /\ Len(s) + 1 \in 1..Len(t)
    BY <1>1
  <1>2. Uniq(t)
    BY <1>1, <1>4 DEF Uniq, In
  <1>3. \A l : In(l, t) <=> In(l, s) \/ l = x
    BY <1>1, <1>4 DEF In
  <1> QED BY <1>1, <1>2, <1>3 DEF t

LEMMA ConcatIn ==
    ASSUME NEW s \in Seq(Nat), NEW t \in Seq(Nat), Uniq(s), Uniq(t),
           \A l : ~(In(l, s) /\ In(l, t))
    PROVE  /\ s \o t \in Seq(Nat) /\ Uniq(s \o t)
           /\ \A l : In(l, s \o t) <=> In(l, s) \/ In(l, t)
  <1> DEFINE u == s \o t
  <1>1. /\ u \in Seq(Nat) /\ Len(s) \in Nat /\ Len(t) \in Nat
        /\ Len(u) = Len(s) + Len(t)
        /\ \A i \in 1..Len(u) :
              u[i] = IF i <= Len(s) THEN s[i] ELSE t[i - Len(s)]
    BY ConcatProperties
  <1> HIDE DEF u
  <1>2. \A i \in 1..Len(u) :
           \/ i \in 1..Len(s) /\ u[i] = s[i]
           \/ i - Len(s) \in 1..Len(t) /\ u[i] = t[i - Len(s)]
    <2> TAKE i \in 1..Len(u)
    <2>1. CASE i <= Len(s)
      BY <1>1, <2>1
    <2>2. CASE ~(i <= Len(s))
      <3>1. i - Len(s) \in 1..Len(t)
        BY <1>1, <2>2
      <3> QED BY <1>1, <2>2, <3>1
    <2> QED BY <2>1, <2>2
  <1>3. /\ \A i \in 1..Len(s) : i \in 1..Len(u) /\ u[i] = s[i]
        /\ \A i \in 1..Len(t) : i + Len(s) \in 1..Len(u) /\ u[i + Len(s)] = t[i]
    <2>1. \A i \in 1..Len(s) : i \in 1..Len(u) /\ i <= Len(s)
      BY <1>1
    <2>2. \A i \in 1..Len(t) : /\ i + Len(s) \in 1..Len(u)
                               /\ ~(i + Len(s) <= Len(s))
                               /\ (i + Len(s)) - Len(s) = i
      BY <1>1
    <2> QED BY <1>1, <2>1, <2>2
  <1>4. Uniq(u)
    <2> SUFFICES ASSUME NEW i \in 1..Len(u), NEW j \in 1..Len(u), u[i] = u[j]
                 PROVE  i = j
      BY DEF Uniq
    <2>1. CASE i \in 1..Len(s) /\ u[i] = s[i] /\ j \in 1..Len(s) /\ u[j] = s[j]
      BY <2>1 DEF Uniq
    <2>2. CASE i - Len(s) \in 1..Len(t) /\ u[i] = t[i - Len(s)]
               /\ j - Len(s) \in 1..Len(t) /\ u[j] = t[j - Len(s)]
      <3>1. i - Len(s) = j - Len(s)
        BY <2>2 DEF Uniq
      <3> QED BY <1>1, <3>1
    <2>3. CASE i \in 1..Len(s) /\ u[i] = s[i]
               /\ j - Len(s) \in 1..Len(t) /\ u[j] = t[j - Len(s)]
      BY <2>3 DEF In
    <2>4. CASE i - Len(s) \in 1..Len(t) /\ u[i] = t[i - Len(s)]
               /\ j \in 1..Len(s) /\ u[j] = s[j]
      BY <2>4 DEF In
    <2> QED BY <1>2, <2>1, <2>2, <2>3, <2>4
  <1>5. \A l : In(l, u) <=> In(l, s) \/ In(l, t)
    <2> TAKE l
    <2>1. In(l, u) => In(l, s) \/ In(l, t)
      BY <1>2 DEF In
    <2>2. In(l, s) => In(l, u)
      BY <1>3 DEF In
    <2>3. In(l, t) => In(l, u)
      BY <1>3 DEF In
    <2> QED BY <2>1, <2>2, <2>3
  <1> QED BY <1>1, <1>4, <1>5 DEF u

(* How often a line is in a sequence without repetitions. *)
LEMMA OccLemma ==
    ASSUME NEW s \in Seq(Nat), Uniq(s), NEW l
    PROVE  Cardinality({i \in DOMAIN s : s[i] = l}) = IF In(l, s) THEN 1 ELSE 0
  <1>1. DOMAIN s = 1..Len(s)
    OBVIOUS
  <1>2. CASE In(l, s)
    <2>1. PICK i \in 1..Len(s) : s[i] = l
      BY <1>2 DEF In
    <2>2. {k \in DOMAIN s : s[k] = l} = {i}
      BY <1>1, <2>1 DEF Uniq
    <2> QED BY <1>2, <2>2, FS_Singleton
  <1>3. CASE ~In(l, s)
    <2>1. {k \in DOMAIN s : s[k] = l} = {}
      BY <1>1, <1>3 DEF In
    <2> QED BY <1>3, <2>1, FS_EmptySet
  <1> QED BY <1>2, <1>3

-----------------------------------------------------------------------------
LwTypeOK ==
    /\ next \in Nat /\ direct \subseteq Nat
    /\ buffer \in Seq(Nat) /\ PendingLines \in Seq(Nat) /\ file \in Seq(Nat)
    /\ batch \in [DrainIds -> Seq(Nat)]
    /\ drains \in [DrainIds -> {"off", "lock", "write"}]
    /\ Uniq(buffer) /\ Uniq(PendingLines) /\ Uniq(file)
    /\ \A d \in DrainIds : Uniq(batch[d])

(* Every line is at one place: kind says at which sort of place, and slot  *)
(* in whose batch.                                                         *)
Kinds == {"none", "buffer", "pending", "batch", "file", "direct", "lost", "rejected"}

Located(kind, slot) ==
    \A l \in Nat :
        /\ In(l, buffer) <=> kind[l] = "buffer"
        /\ In(l, PendingLines) <=> kind[l] = "pending"
        /\ In(l, file) <=> kind[l] = "file"
        /\ \A d \in DrainIds :
            In(l, batch[d]) <=> kind[l] = "batch" /\ slot[l] = d
        /\ l \in direct <=> kind[l] = "direct"
        /\ l \in lost <=> kind[l] = "lost"
        /\ l \in rejected <=> kind[l] = "rejected"
        /\ l \in 1..(next - 1) <=> kind[l] # "none"

OnePlace ==
    \E kind \in [Nat -> Kinds], slot \in [Nat -> DrainIds] : Located(kind, slot)

(* What Dispose and the drains have emptied. *)
DisposeInv ==
    /\ closed => PendingLines = <<>>
    /\ closed /\ lock # "dispose" => buffer = <<>>
    /\ disposer # "none" => closed
    /\ disposer \in {"waiting", "returned"} => lock # "dispose"
    /\ disposer = "returned" => \A d \in DrainIds : drains[d] = "off"
    /\ \A d \in DrainIds : drains[d] # "write" => batch[d] = <<>>
    /\ lock = "dispose" => closed

(* The inductive invariant. *)
LwInv == LwTypeOK /\ OnePlace /\ DisposeInv

(* Elements of the sequences of lines are lines. *)
LEMMA InNat == ASSUME NEW s \in Seq(Nat), NEW l, In(l, s) PROVE l \in Nat
  BY DEF In

LEMMA LwInitLemma == ASSUME LwInit PROVE LwInv
  <1> USE DEF LwInit
  <1>1. LwTypeOK
    BY EmptyIn DEF LwTypeOK, PendingLines, Nil
  <1>2. OnePlace
    <2> DEFINE kind == [l \in Nat |-> "none"]
               slot == [l \in Nat |-> 1]
    <2>1. kind \in [Nat -> Kinds] /\ slot \in [Nat -> DrainIds]
      BY LogWriterAssumption DEF Kinds, DrainIds
    <2>2. Located(kind, slot)
      BY EmptyIn DEF Located, PendingLines, Nil
    <2> HIDE DEF kind, slot
    <2> QED BY <2>1, <2>2 DEF OnePlace
  <1>3. DisposeInv
    BY DEF DisposeInv, PendingLines, Nil
  <1> QED BY <1>1, <1>2, <1>3 DEF LwInv

(* Steps that move no line. *)
LEMMA LinesFrame ==
    ASSUME LwInv, UNCHANGED <<next, buffer, pendingOverflow, batch, direct, file,
                              lost, rejected>>
    PROVE  OnePlace'
  BY DEF LwInv, OnePlace, Located, PendingLines

(* writeFn moves a batch to the file, or to the lost lines. *)
LEMMA WriteFnLemma ==
    ASSUME NEW s \in Seq(Nat), Uniq(s), file \in Seq(Nat), Uniq(file),
           \A l : ~(In(l, file) /\ In(l, s)), writeFn(s)
    PROVE  /\ file' \in Seq(Nat) /\ Uniq(file)'
           /\ \E to \in {"file", "lost"} :
                /\ \A l : In(l, file') <=> In(l, file) \/ (to = "file" /\ In(l, s))
                /\ \A l : l \in lost' <=> l \in lost \/ (to = "lost" /\ In(l, s))
  <1>1. CASE file' = file \o s /\ UNCHANGED lost
    <2>1. /\ file' \in Seq(Nat) /\ Uniq(file')
          /\ \A l : In(l, file') <=> In(l, file) \/ In(l, s)
      BY <1>1, ConcatIn
    <2> QED BY <1>1, <2>1 DEF Uniq
  <1>2. CASE lost' = lost \cup ToSet(s) /\ UNCHANGED file
    <2>1. \A l : l \in lost' <=> l \in lost \/ In(l, s)
      BY <1>2, ToSetIn
    <2> QED BY <1>2, <2>1 DEF Uniq
  <1> QED BY <1>1, <1>2 DEF writeFn

(* The timer and the end of Dispose. *)
LEMMA TimerStep ==
    ASSUME LwInv, TimerFire \/ TimerCallbackClosed \/ DisposeReturn \/ LwDone
    PROVE  LwInv'
  <1> USE DEF TimerFire, TimerCallbackClosed, DisposeReturn, LwDone, lwVars
  <1>1. UNCHANGED <<next, buffer, pendingOverflow, batch, direct, file, lost,
                    rejected, drains, closed, lock>>
    OBVIOUS
  <1>2. LwTypeOK'
    BY <1>1 DEF LwInv, LwTypeOK, PendingLines, Uniq
  <1>3. DisposeInv'
    BY DEF LwInv, DisposeInv, PendingLines, overflowWG, Idle
  <1> QED BY <1>1, <1>2, <1>3, LinesFrame DEF LwInv

(* newBufferedWriter: line 0 is never written. *)
LEMMA NewStep == ASSUME LwInv, newBufferedWriter PROVE LwInv'
  <1> USE DEF newBufferedWriter
  <1>1. LwTypeOK'
    BY DEF LwInv, LwTypeOK, PendingLines, Uniq
  <1>2. OnePlace'
    BY DEF LwInv, OnePlace, Located, PendingLines
  <1>3. DisposeInv'
    BY DEF LwInv, DisposeInv, PendingLines
  <1> QED BY <1>1, <1>2, <1>3 DEF LwInv

(* The line that is offered is nowhere yet. *)
LEMMA NextNowhere ==
    ASSUME LwInv, Offer
    PROVE  /\ next \in Nat /\ next' = next + 1 /\ next >= 1
           /\ ~In(next, buffer) /\ ~In(next, PendingLines) /\ ~In(next, file)
           /\ \A d \in DrainIds : ~In(next, batch[d])
           /\ next \notin direct /\ next \notin lost /\ next \notin rejected
           /\ \A l \in Nat : l \in 1..(next' - 1) <=> l \in 1..(next - 1) \/ l = next
  <1>1. next \in Nat /\ next' = next + 1 /\ next >= 1
    BY DEF LwInv, LwTypeOK, Offer
  <1>2. PICK kind \in [Nat -> Kinds], slot \in [Nat -> DrainIds] : Located(kind, slot)
    BY DEF LwInv, OnePlace
  <1>3. kind[next] = "none"
    BY <1>1, <1>2 DEF Located
  <1>4. \A l \in Nat : l \in 1..(next' - 1) <=> l \in 1..(next - 1) \/ l = next
    BY <1>1
  <1> QED BY <1>1, <1>2, <1>3, <1>4 DEF Located

(* A refused or an immediate line. *)
LEMMA WriteSetStep ==
    ASSUME LwInv, WriteClosed \/ WriteImmediate PROVE LwInv'
  <1>1. /\ Offer
        /\ UNCHANGED <<buffer, pendingOverflow, drains, batch, file, lost, lock,
                       closed, disposer>>
    BY DEF WriteClosed, WriteImmediate
  <1>2. \E to \in {"direct", "rejected"} :
           /\ direct' = IF to = "direct" THEN direct \cup {next} ELSE direct
           /\ rejected' = IF to = "rejected" THEN rejected \cup {next} ELSE rejected
    BY DEF WriteClosed, WriteImmediate
  <1>3. PICK to \in {"direct", "rejected"} :
           /\ direct' = IF to = "direct" THEN direct \cup {next} ELSE direct
           /\ rejected' = IF to = "rejected" THEN rejected \cup {next} ELSE rejected
    BY <1>2
  <1>4. LwTypeOK'
    <2>1. next' \in Nat /\ direct' \subseteq Nat
      BY <1>1, <1>3, NextNowhere DEF LwInv, LwTypeOK
    <2>2. PendingLines' = PendingLines
      BY <1>1 DEF PendingLines
    <2>3. Uniq(buffer)' /\ Uniq(PendingLines)' /\ Uniq(file)'
      BY <1>1, <2>2 DEF LwInv, LwTypeOK, Uniq
    <2>4. \A d \in DrainIds : Uniq(batch'[d])
      BY <1>1 DEF LwInv, LwTypeOK
    <2> QED BY <1>1, <2>1, <2>2, <2>3, <2>4 DEF LwInv, LwTypeOK
  <1>5. OnePlace'
    <2>1. PICK kind \in [Nat -> Kinds], slot \in [Nat -> DrainIds] : Located(kind, slot)
      BY DEF LwInv, OnePlace
    <2>2. PICK k2 \in [Nat -> Kinds] :
             k2[next] = to /\ \A l \in Nat : l # next => k2[l] = kind[l]
      <3>1. [kind EXCEPT ![next] = to] \in [Nat -> Kinds]
        BY <1>1, NextNowhere DEF Kinds
      <3> QED BY <1>1, <3>1, NextNowhere
    <2>3. Located(k2, slot)'
      BY <1>1, <1>3, <2>1, <2>2, NextNowhere DEF Located, PendingLines
    <2> QED BY <2>2, <2>3 DEF OnePlace
  <1>6. DisposeInv'
    BY <1>1 DEF LwInv, DisposeInv, PendingLines
  <1> QED BY <1>4, <1>5, <1>6 DEF LwInv

(* A line for the buffer. *)
LEMMA WriteBufferedStep == ASSUME LwInv, WriteBuffered PROVE LwInv'
  <1>1. /\ Offer /\ ~closed /\ buffer' = Append(buffer, next)
        /\ UNCHANGED <<pendingOverflow, drains, batch, direct, file, lost,
                       rejected, lock, closed, disposer>>
    BY DEF WriteBuffered
  <1>2. /\ buffer' \in Seq(Nat) /\ Uniq(buffer')
        /\ \A l : In(l, buffer') <=> In(l, buffer) \/ l = next
    BY <1>1, NextNowhere, AppendIn DEF LwInv, LwTypeOK
  <1>3. LwTypeOK'
    BY <1>1, <1>2, NextNowhere DEF LwInv, LwTypeOK, PendingLines, Uniq
  <1>4. OnePlace'
    <2>1. PICK kind \in [Nat -> Kinds], slot \in [Nat -> DrainIds] : Located(kind, slot)
      BY DEF LwInv, OnePlace
    <2>2. PICK k2 \in [Nat -> Kinds] :
             k2[next] = "buffer" /\ \A l \in Nat : l # next => k2[l] = kind[l]
      <3>1. [kind EXCEPT ![next] = "buffer"] \in [Nat -> Kinds]
        BY <1>1, NextNowhere DEF Kinds
      <3> QED BY <1>1, <3>1, NextNowhere
    <2>3. Located(k2, slot)'
      BY <1>1, <1>2, <2>1, <2>2, NextNowhere DEF Located, PendingLines
    <2> QED BY <2>2, <2>3 DEF OnePlace
  <1>5. DisposeInv'
    BY <1>1 DEF LwInv, DisposeInv, PendingLines
  <1> QED BY <1>3, <1>4, <1>5 DEF LwInv

(* The full buffer joins the overflow batch. *)
LEMMA WriteOverflowStep == ASSUME LwInv, WriteOverflow PROVE LwInv'
  <1> DEFINE lines == Append(buffer, next)
  <1>1. /\ Offer /\ ~closed /\ buffer' = <<>> /\ flushDeferred(lines)
        /\ UNCHANGED <<batch, direct, file, lost, rejected, lock, closed, disposer>>
    BY DEF WriteOverflow
  <1>2. /\ lines \in Seq(Nat) /\ Uniq(lines)
        /\ \A l : In(l, lines) <=> In(l, buffer) \/ l = next
    BY <1>1, NextNowhere, AppendIn DEF LwInv, LwTypeOK
  <1>3. PICK kind \in [Nat -> Kinds], slot \in [Nat -> DrainIds] : Located(kind, slot)
    BY DEF LwInv, OnePlace
  <1> HIDE DEF lines
  <1>4. \A l : ~(In(l, PendingLines) /\ In(l, lines))
    <2> SUFFICES ASSUME NEW l, In(l, PendingLines), In(l, lines) PROVE FALSE
      OBVIOUS
    <2>1. l \in Nat
      BY <1>2, InNat
    <2> QED BY <1>1, <1>2, <1>3, <2>1, NextNowhere DEF Located
  <1>5. /\ PendingLines' \in Seq(Nat) /\ Uniq(PendingLines')
        /\ \A l : In(l, PendingLines') <=> In(l, PendingLines) \/ In(l, lines)
    <2>1. CASE pendingOverflow # Nil
      <3>1. PendingLines' = PendingLines \o lines
        BY <1>1, <2>1 DEF flushDeferred, Slice, PendingLines
      <3> QED BY <1>2, <1>4, <3>1, ConcatIn DEF LwInv, LwTypeOK
    <2>2. CASE pendingOverflow = Nil
      <3>1. PendingLines' = lines /\ PendingLines = <<>>
        BY <1>1, <2>2 DEF flushDeferred, Slice, PendingLines, Nil
      <3> QED BY <1>2, <3>1, EmptyIn
    <2> QED BY <2>1, <2>2
  <1>6. /\ drains' \in [DrainIds -> {"off", "lock", "write"}]
        /\ \A d \in DrainIds : drains'[d] # "write" => drains[d] # "write"
    BY <1>1 DEF flushDeferred, LwInv, LwTypeOK, Idle
  <1>7. LwTypeOK'
    <2>1. next' \in Nat /\ buffer' \in Seq(Nat) /\ Uniq(buffer)'
      BY <1>1, NextNowhere, EmptyIn
    <2>2. file' \in Seq(Nat) /\ Uniq(file)' /\ batch' \in [DrainIds -> Seq(Nat)]
          /\ direct' \subseteq Nat
      BY <1>1 DEF LwInv, LwTypeOK
    <2>3. \A d \in DrainIds : Uniq(batch[d])'
      BY <1>1 DEF LwInv, LwTypeOK
    <2> QED BY <1>5, <1>6, <2>1, <2>2, <2>3 DEF LwTypeOK
  <1>8. OnePlace'
    <2>1. PICK k2 \in [Nat -> Kinds] :
             \A l \in Nat : k2[l] = IF In(l, lines) THEN "pending" ELSE kind[l]
      <3>1. [l \in Nat |-> IF In(l, lines) THEN "pending" ELSE kind[l]]
              \in [Nat -> Kinds]
        BY DEF Kinds
      <3> QED BY <3>1
    <2>3. Located(k2, slot)'
      BY <1>1, <1>2, <1>3, <1>5, <2>1, NextNowhere, EmptyIn DEF Located
    <2> QED BY <2>1, <2>3 DEF OnePlace
  <1>9. DisposeInv'
    BY <1>1, <1>6 DEF LwInv, DisposeInv
  <1> QED BY <1>7, <1>8, <1>9 DEF LwInv

(* The lines of a batch are not in the file. *)
LEMMA WriteOut ==
    ASSUME LwInv, NEW s \in Seq(Nat), Uniq(s), writeFn(s),
           NEW kind \in [Nat -> Kinds], NEW slot \in [Nat -> DrainIds],
           Located(kind, slot),
           \A l \in Nat : In(l, s) => kind[l] # "file"
    PROVE  /\ file' \in Seq(Nat) /\ Uniq(file)'
           /\ \E to \in {"file", "lost"} :
                /\ \A l : In(l, file') <=> In(l, file) \/ (to = "file" /\ In(l, s))
                /\ \A l : l \in lost' <=> l \in lost \/ (to = "lost" /\ In(l, s))
                /\ \E k2 \in [Nat -> Kinds] :
                     \A l \in Nat : k2[l] = IF In(l, s) THEN to ELSE kind[l]
  <1>1. file \in Seq(Nat) /\ Uniq(file)
    BY DEF LwInv, LwTypeOK
  <1>2. \A l : ~(In(l, file) /\ In(l, s))
    <2> SUFFICES ASSUME NEW l, In(l, file), In(l, s) PROVE FALSE
      OBVIOUS
    <2>1. l \in Nat
      BY InNat
    <2> QED BY <2>1 DEF Located
  <1>3. \A to \in {"file", "lost"} :
           \E k2 \in [Nat -> Kinds] :
              \A l \in Nat : k2[l] = IF In(l, s) THEN to ELSE kind[l]
    <2> TAKE to \in {"file", "lost"}
    <2>1. [l \in Nat |-> IF In(l, s) THEN to ELSE kind[l]] \in [Nat -> Kinds]
      BY DEF Kinds
    <2> QED BY <2>1
  <1> QED BY <1>1, <1>2, <1>3, WriteFnLemma

(* An immediate line is written. *)
LEMMA DirectWriteStep == ASSUME LwInv, DirectWrite PROVE LwInv'
  <1>1. PICK x \in direct :
          /\ writeFn(<<x>>) /\ direct' = direct \ {x}
          /\ UNCHANGED <<next, buffer, pendingOverflow, drains, batch, rejected,
                         lock, closed, disposer>>
    BY DEF DirectWrite
  <1>2. PICK kind \in [Nat -> Kinds], slot \in [Nat -> DrainIds] : Located(kind, slot)
    BY DEF LwInv, OnePlace
  <1>3. x \in Nat
    BY DEF LwInv, LwTypeOK
  <1>4. /\ <<x>> \in Seq(Nat) /\ Uniq(<<x>>)
        /\ \A l : In(l, <<x>>) <=> l = x
    BY <1>3 DEF Uniq, In
  <1> DEFINE s == <<x>>
  <1>5. s \in Seq(Nat) /\ Uniq(s) /\ writeFn(s)
    BY <1>1, <1>4
  <1> HIDE DEF s
  <1>6. kind[x] = "direct"
    BY <1>1, <1>2, <1>3 DEF Located
  <1>7. \A l \in Nat : In(l, s) => kind[l] # "file"
    BY <1>4, <1>6 DEF s
  <1>8. /\ file' \in Seq(Nat) /\ Uniq(file)'
        /\ \E to \in {"file", "lost"} :
             /\ \A l : In(l, file') <=> In(l, file) \/ (to = "file" /\ In(l, s))
             /\ \A l : l \in lost' <=> l \in lost \/ (to = "lost" /\ In(l, s))
             /\ \E k2 \in [Nat -> Kinds] :
                  \A l \in Nat : k2[l] = IF In(l, s) THEN to ELSE kind[l]
    BY <1>2, <1>5, <1>7, WriteOut
  <1>9. PICK to \in {"file", "lost"}, k2 \in [Nat -> Kinds] :
           /\ \A l : In(l, file') <=> In(l, file) \/ (to = "file" /\ In(l, s))
           /\ \A l : l \in lost' <=> l \in lost \/ (to = "lost" /\ In(l, s))
           /\ \A l \in Nat : k2[l] = IF In(l, s) THEN to ELSE kind[l]
    BY <1>8
  <1>10. Located(k2, slot)'
    BY <1>1, <1>2, <1>4, <1>6, <1>9 DEF Located, PendingLines, s
  <1>11. OnePlace'
    BY <1>9, <1>10 DEF OnePlace
  <1>12. LwTypeOK'
    BY <1>1, <1>8 DEF LwInv, LwTypeOK, PendingLines, Uniq
  <1>13. DisposeInv'
    BY <1>1 DEF LwInv, DisposeInv, PendingLines
  <1> QED BY <1>11, <1>12, <1>13 DEF LwInv

(* flushLocked, first half: the overflow batch is written. *)
LEMMA FlushOverflowLemma ==
    ASSUME LwInv, NEW who, flushOverflow(who)
    PROVE  LwTypeOK' /\ OnePlace' /\ PendingLines' = <<>>
  <1> DEFINE s == PendingLines
  <1>1. /\ UNCHANGED <<next, buffer, drains, batch, direct, rejected>>
        /\ PendingLines' = <<>>
    BY DEF flushOverflow, PendingLines, Nil
  <1>2. PICK kind \in [Nat -> Kinds], slot \in [Nat -> DrainIds] : Located(kind, slot)
    BY DEF LwInv, OnePlace
  <1>3. s \in Seq(Nat) /\ Uniq(s) /\ writeFn(s)
    BY DEF LwInv, LwTypeOK, flushOverflow
  <1>4. \A l \in Nat : In(l, s) => kind[l] # "file"
    BY <1>2 DEF Located
  <1> HIDE DEF s
  <1>5. /\ file' \in Seq(Nat) /\ Uniq(file)'
        /\ \E to \in {"file", "lost"} :
             /\ \A l : In(l, file') <=> In(l, file) \/ (to = "file" /\ In(l, s))
             /\ \A l : l \in lost' <=> l \in lost \/ (to = "lost" /\ In(l, s))
             /\ \E k2 \in [Nat -> Kinds] :
                  \A l \in Nat : k2[l] = IF In(l, s) THEN to ELSE kind[l]
    BY <1>2, <1>3, <1>4, WriteOut
  <1>6. PICK to \in {"file", "lost"}, k2 \in [Nat -> Kinds] :
           /\ \A l : In(l, file') <=> In(l, file) \/ (to = "file" /\ In(l, s))
           /\ \A l : l \in lost' <=> l \in lost \/ (to = "lost" /\ In(l, s))
           /\ \A l \in Nat : k2[l] = IF In(l, s) THEN to ELSE kind[l]
    BY <1>5
  <1>7. Located(k2, slot)'
    BY <1>1, <1>2, <1>6, EmptyIn DEF Located, s
  <1>8. OnePlace'
    BY <1>6, <1>7 DEF OnePlace
  <1>9. LwTypeOK'
    <2>1. Uniq(PendingLines)' /\ PendingLines' \in Seq(Nat)
      BY <1>1, EmptyIn
    <2>2. Uniq(buffer)' /\ \A d \in DrainIds : Uniq(batch[d])'
      BY <1>1 DEF LwInv, LwTypeOK
    <2> QED BY <1>1, <1>5, <2>1, <2>2 DEF LwInv, LwTypeOK
  <1> QED BY <1>1, <1>8, <1>9

LEMMA FlushOverflowStep ==
    ASSUME LwInv, TimerCallback \/ Flush \/ Dispose PROVE LwInv'
  <1>1. PICK who \in {"timer", "flush", "dispose"} :
           /\ flushOverflow(who)
           /\ \/ who # "dispose" /\ UNCHANGED <<closed, disposer>>
              \/ who = "dispose" /\ ~closed /\ closed' = TRUE /\ disposer' = "flushing"
    BY DEF TimerCallback, Flush, Dispose
  <1>2. LwTypeOK' /\ OnePlace' /\ PendingLines' = <<>>
    BY <1>1, FlushOverflowLemma
  <1>3. /\ lock = "free" /\ lock' = who
        /\ UNCHANGED <<buffer, drains, batch>>
    BY <1>1 DEF flushOverflow
  <1>4. DisposeInv'
    BY <1>1, <1>2, <1>3 DEF LwInv, DisposeInv
  <1> QED BY <1>2, <1>4 DEF LwInv

(* flushLocked, second half: the buffer is written. *)
LEMMA FlushBufferStep == ASSUME LwInv, FlushBuffer PROVE LwInv'
  <1> DEFINE s == buffer
  <1>1. /\ UNCHANGED <<next, pendingOverflow, drains, batch, direct, rejected, closed>>
        /\ buffer' = <<>> /\ lock' = "free"
        /\ disposer' = IF lock = "dispose" THEN "waiting" ELSE disposer
    BY DEF FlushBuffer
  <1>2. PICK kind \in [Nat -> Kinds], slot \in [Nat -> DrainIds] : Located(kind, slot)
    BY DEF LwInv, OnePlace
  <1>3. s \in Seq(Nat) /\ Uniq(s) /\ writeFn(s)
    BY DEF LwInv, LwTypeOK, FlushBuffer
  <1>4. \A l \in Nat : In(l, s) => kind[l] # "file"
    BY <1>2 DEF Located
  <1> HIDE DEF s
  <1>5. /\ file' \in Seq(Nat) /\ Uniq(file)'
        /\ \E to \in {"file", "lost"} :
             /\ \A l : In(l, file') <=> In(l, file) \/ (to = "file" /\ In(l, s))
             /\ \A l : l \in lost' <=> l \in lost \/ (to = "lost" /\ In(l, s))
             /\ \E k2 \in [Nat -> Kinds] :
                  \A l \in Nat : k2[l] = IF In(l, s) THEN to ELSE kind[l]
    BY <1>2, <1>3, <1>4, WriteOut
  <1>6. PICK to \in {"file", "lost"}, k2 \in [Nat -> Kinds] :
           /\ \A l : In(l, file') <=> In(l, file) \/ (to = "file" /\ In(l, s))
           /\ \A l : l \in lost' <=> l \in lost \/ (to = "lost" /\ In(l, s))
           /\ \A l \in Nat : k2[l] = IF In(l, s) THEN to ELSE kind[l]
    BY <1>5
  <1>7. Located(k2, slot)'
    BY <1>1, <1>2, <1>6, EmptyIn DEF Located, PendingLines, s
  <1>8. OnePlace'
    BY <1>6, <1>7 DEF OnePlace
  <1>9. LwTypeOK'
    <2>1. Uniq(buffer)' /\ buffer' \in Seq(Nat)
      BY <1>1, EmptyIn
    <2>2. /\ PendingLines' = PendingLines
          /\ \A d \in DrainIds : Uniq(batch[d])'
      BY <1>1 DEF LwInv, LwTypeOK, PendingLines
    <2>3. Uniq(PendingLines)' /\ PendingLines' \in Seq(Nat)
      BY <2>2 DEF LwInv, LwTypeOK
    <2> QED BY <1>1, <1>5, <2>1, <2>2, <2>3 DEF LwInv, LwTypeOK
  <1>10. DisposeInv'
    BY <1>1 DEF LwInv, DisposeInv, PendingLines
  <1> QED BY <1>8, <1>9, <1>10 DEF LwInv

(* A drain writes the batch it took. *)
LEMMA DrainWriteStep ==
    ASSUME LwInv, NEW e \in DrainIds, DrainWrite(e) PROVE LwInv'
  <1> DEFINE s == batch[e]
  <1>1. /\ UNCHANGED <<next, buffer, pendingOverflow, direct, rejected, lock, closed, disposer>>
        /\ drains[e] = "write" /\ drains' = [drains EXCEPT ![e] = "lock"]
        /\ batch' = [batch EXCEPT ![e] = <<>>]
    BY DEF DrainWrite
  <1>2. PICK kind \in [Nat -> Kinds], slot \in [Nat -> DrainIds] : Located(kind, slot)
    BY DEF LwInv, OnePlace
  <1>3. s \in Seq(Nat) /\ Uniq(s) /\ writeFn(s)
    BY DEF LwInv, LwTypeOK, DrainWrite
  <1>4. \A l \in Nat : In(l, s) => kind[l] # "file"
    BY <1>2 DEF Located
  <1>5. \A l \in Nat : In(l, s) <=> kind[l] = "batch" /\ slot[l] = e
    BY <1>2 DEF Located
  <1> HIDE DEF s
  <1>6. /\ file' \in Seq(Nat) /\ Uniq(file)'
        /\ \E to \in {"file", "lost"} :
             /\ \A l : In(l, file') <=> In(l, file) \/ (to = "file" /\ In(l, s))
             /\ \A l : l \in lost' <=> l \in lost \/ (to = "lost" /\ In(l, s))
             /\ \E k2 \in [Nat -> Kinds] :
                  \A l \in Nat : k2[l] = IF In(l, s) THEN to ELSE kind[l]
    BY <1>2, <1>3, <1>4, WriteOut
  <1>7. PICK to \in {"file", "lost"}, k2 \in [Nat -> Kinds] :
           /\ \A l : In(l, file') <=> In(l, file) \/ (to = "file" /\ In(l, s))
           /\ \A l : l \in lost' <=> l \in lost \/ (to = "lost" /\ In(l, s))
           /\ \A l \in Nat : k2[l] = IF In(l, s) THEN to ELSE kind[l]
    BY <1>6
  <1>8. /\ batch' \in [DrainIds -> Seq(Nat)] /\ batch'[e] = <<>>
        /\ \A d \in DrainIds : d # e => batch'[d] = batch[d]
        /\ drains' \in [DrainIds -> {"off", "lock", "write"}] /\ drains'[e] = "lock"
        /\ \A d \in DrainIds : d # e => drains'[d] = drains[d]
    BY <1>1 DEF LwInv, LwTypeOK
  <1>9. \A l : \A d \in DrainIds : In(l, batch'[d]) <=> d # e /\ In(l, batch[d])
    BY <1>8, EmptyIn
  <1>10. Located(k2, slot)'
    <2> SUFFICES ASSUME NEW l \in Nat
                 PROVE  /\ In(l, buffer') <=> k2[l] = "buffer"
                        /\ In(l, PendingLines') <=> k2[l] = "pending"
                        /\ In(l, file') <=> k2[l] = "file"
                        /\ \A d \in DrainIds :
                            In(l, batch'[d]) <=> k2[l] = "batch" /\ slot[l] = d
                        /\ l \in direct' <=> k2[l] = "direct"
                        /\ l \in lost' <=> k2[l] = "lost"
                        /\ l \in rejected' <=> k2[l] = "rejected"
                        /\ l \in 1..(next' - 1) <=> k2[l] # "none"
      BY DEF Located
    <2>1. ASSUME NEW d \in DrainIds
          PROVE  In(l, batch'[d]) <=> k2[l] = "batch" /\ slot[l] = d
      <3>1. In(l, batch[d]) <=> kind[l] = "batch" /\ slot[l] = d
        BY <1>2 DEF Located
      <3>2. k2[l] = IF kind[l] = "batch" /\ slot[l] = e THEN to ELSE kind[l]
        BY <1>7, <1>5
      <3>3. In(l, batch'[d]) <=> d # e /\ In(l, batch[d])
        BY <1>9
      <3> QED BY <3>1, <3>2, <3>3
    <2>2. PendingLines' = PendingLines
      BY <1>1 DEF PendingLines
    <2> QED BY <1>1, <1>2, <1>7, <1>5, <2>1, <2>2 DEF Located
  <1>11. OnePlace'
    BY <1>7, <1>10 DEF OnePlace
  <1>12. LwTypeOK'
    <2>1. \A d \in DrainIds : Uniq(batch'[d])
      BY <1>8, EmptyIn DEF LwInv, LwTypeOK
    <2>2. PendingLines' = PendingLines
      BY <1>1 DEF PendingLines
    <2>3. Uniq(PendingLines)' /\ PendingLines' \in Seq(Nat)
      BY <2>2 DEF LwInv, LwTypeOK
    <2>4. Uniq(buffer)' /\ buffer' \in Seq(Nat)
      BY <1>1 DEF LwInv, LwTypeOK
    <2> QED BY <1>1, <1>6, <1>8, <2>1, <2>3, <2>4 DEF LwInv, LwTypeOK
  <1>13. DisposeInv'
    BY <1>1, <1>8 DEF LwInv, DisposeInv, PendingLines
  <1> QED BY <1>11, <1>12, <1>13 DEF LwInv

(* A drain takes the overflow batch, or gives up. *)
LEMMA DrainTakeStep ==
    ASSUME LwInv, NEW e \in DrainIds, DrainTake(e) PROVE LwInv'
  <1> DEFINE s == PendingLines
  <1>1. /\ UNCHANGED <<next, buffer, direct, file, lost, rejected, lock, closed, disposer>>
        /\ drains[e] = "lock"
        /\ drains' = [drains EXCEPT ![e] = IF s # <<>> THEN "write" ELSE "off"]
        /\ batch' = [batch EXCEPT ![e] = s]
    BY DEF DrainTake
  <1>2. PendingLines' = <<>>
    BY DEF DrainTake, PendingLines, Slice, Nil
  <1>3. PICK kind \in [Nat -> Kinds], slot \in [Nat -> DrainIds] : Located(kind, slot)
    BY DEF LwInv, OnePlace
  <1>4. s \in Seq(Nat) /\ Uniq(s) /\ \A l \in Nat : In(l, s) <=> kind[l] = "pending"
    BY <1>3 DEF LwInv, LwTypeOK, Located
  <1>5. closed => s = <<>>
    BY DEF LwInv, DisposeInv
  <1>6. batch[e] = <<>>
    BY <1>1 DEF LwInv, DisposeInv
  <1> HIDE DEF s
  <1>7. /\ batch' \in [DrainIds -> Seq(Nat)] /\ batch'[e] = s
        /\ \A d \in DrainIds : d # e => batch'[d] = batch[d]
        /\ drains' \in [DrainIds -> {"off", "lock", "write"}]
        /\ drains'[e] = IF s # <<>> THEN "write" ELSE "off"
        /\ \A d \in DrainIds : d # e => drains'[d] = drains[d]
    BY <1>1, <1>4 DEF LwInv, LwTypeOK
  <1>8. PICK k2 \in [Nat -> Kinds], s2 \in [Nat -> DrainIds] :
           /\ \A l \in Nat : k2[l] = IF kind[l] = "pending" THEN "batch" ELSE kind[l]
           /\ \A l \in Nat : s2[l] = IF kind[l] = "pending" THEN e ELSE slot[l]
    <2> DEFINE k == [l \in Nat |-> IF kind[l] = "pending" THEN "batch" ELSE kind[l]]
               t == [l \in Nat |-> IF kind[l] = "pending" THEN e ELSE slot[l]]
    <2>1. k \in [Nat -> Kinds] /\ t \in [Nat -> DrainIds]
      BY DEF Kinds
    <2> QED BY <2>1
  <1>9. Located(k2, s2)'
    <2> SUFFICES ASSUME NEW l \in Nat
                 PROVE  /\ In(l, buffer') <=> k2[l] = "buffer"
                        /\ In(l, PendingLines') <=> k2[l] = "pending"
                        /\ In(l, file') <=> k2[l] = "file"
                        /\ \A d \in DrainIds :
                            In(l, batch'[d]) <=> k2[l] = "batch" /\ s2[l] = d
                        /\ l \in direct' <=> k2[l] = "direct"
                        /\ l \in lost' <=> k2[l] = "lost"
                        /\ l \in rejected' <=> k2[l] = "rejected"
                        /\ l \in 1..(next' - 1) <=> k2[l] # "none"
      BY DEF Located
    <2>1. ASSUME NEW d \in DrainIds
          PROVE  In(l, batch'[d]) <=> k2[l] = "batch" /\ s2[l] = d
      <3>1. In(l, batch[d]) <=> kind[l] = "batch" /\ slot[l] = d
        BY <1>3 DEF Located
      <3>2. ~In(l, batch[e]) /\ (In(l, batch[e]) <=> kind[l] = "batch" /\ slot[l] = e)
        BY <1>3, <1>6, EmptyIn DEF Located
      <3>3. In(l, s) <=> kind[l] = "pending"
        BY <1>4
      <3>4. CASE d = e
        <4>1. In(l, batch'[d]) <=> kind[l] = "pending"
          BY <1>7, <3>3, <3>4
        <4>2. kind[l] # "pending" => ~(k2[l] = "batch" /\ s2[l] = e)
          BY <1>8, <3>2
        <4>3. kind[l] = "pending" => k2[l] = "batch" /\ s2[l] = e
          BY <1>8
        <4> QED BY <3>4, <4>1, <4>2, <4>3
      <3>5. CASE d # e
        BY <1>7, <1>8, <3>1, <3>5
      <3> QED BY <3>4, <3>5
    <2>2. ~In(l, PendingLines')
      BY <1>2, EmptyIn
    <2> QED BY <1>1, <1>3, <1>8, <2>1, <2>2 DEF Located
  <1>10. OnePlace'
    BY <1>8, <1>9 DEF OnePlace
  <1>11. LwTypeOK'
    <2>1. \A d \in DrainIds : Uniq(batch'[d])
      BY <1>4, <1>7 DEF LwInv, LwTypeOK
    <2>2. Uniq(PendingLines)' /\ PendingLines' \in Seq(Nat)
      BY <1>2, EmptyIn
    <2>3. Uniq(buffer)' /\ buffer' \in Seq(Nat) /\ Uniq(file)' /\ file' \in Seq(Nat)
      BY <1>1 DEF LwInv, LwTypeOK
    <2> QED BY <1>1, <1>7, <2>1, <2>2, <2>3 DEF LwInv, LwTypeOK
  <1>12. DisposeInv'
    BY <1>1, <1>2, <1>5, <1>7 DEF LwInv, DisposeInv
  <1> QED BY <1>10, <1>11, <1>12 DEF LwInv

LEMMA LwNextLemma == ASSUME LwInv, [LwNext]_lwVars PROVE LwInv'
  <1>1. CASE newBufferedWriter
    BY <1>1, NewStep
  <1>2. CASE LwWrite
    BY <1>2, WriteSetStep, WriteBufferedStep, WriteOverflowStep DEF LwWrite
  <1>3. CASE DirectWrite
    BY <1>3, DirectWriteStep
  <1>4. CASE TimerFire \/ TimerCallbackClosed \/ DisposeReturn \/ LwDone
    BY <1>4, TimerStep
  <1>5. CASE TimerCallback \/ Flush \/ Dispose
    BY <1>5, FlushOverflowStep
  <1>6. CASE FlushBuffer
    BY <1>6, FlushBufferStep
  <1>7. CASE LwDrain
    BY <1>7, DrainTakeStep, DrainWriteStep DEF LwDrain
  <1>8. CASE UNCHANGED lwVars
    <2>1. LwTypeOK'
      BY <1>8 DEF LwInv, LwTypeOK, PendingLines, lwVars, Uniq
    <2>2. DisposeInv'
      BY <1>8 DEF LwInv, DisposeInv, PendingLines, lwVars
    <2> QED BY <1>8, <2>1, <2>2, LinesFrame DEF LwInv, lwVars
  <1> QED BY <1>1, <1>2, <1>3, <1>4, <1>5, <1>6, <1>7, <1>8 DEF LwNext

-----------------------------------------------------------------------------
(* A line at one place is counted once. *)
LEMMA LinesLemma == ASSUME LwInv PROVE LinesConserved
  <1> SUFFICES ASSUME NEW l \in 1..(next - 1) PROVE Times(l) = 1
    BY DEF LinesConserved
  <1>1. PICK kind \in [Nat -> Kinds], slot \in [Nat -> DrainIds] : Located(kind, slot)
    BY DEF LwInv, OnePlace
  <1>2. l \in Nat /\ kind[l] \in Kinds /\ kind[l] # "none"
    BY <1>1 DEF LwInv, LwTypeOK, Located
  <1> DEFINE occ(s) == Cardinality({i \in DOMAIN s : s[i] = l})
             inBatch == {d \in DrainIds : l \in ToSet(batch[d])}
             inSet == {s \in {<<1, direct>>, <<2, lost>>, <<3, rejected>>} : l \in s[2]}
             one(b) == IF b THEN 1 ELSE 0
  <1>3. /\ occ(buffer) = one(kind[l] = "buffer")
        /\ occ(PendingLines) = one(kind[l] = "pending")
        /\ occ(file) = one(kind[l] = "file")
    <2>1. /\ occ(buffer) = one(In(l, buffer))
          /\ occ(PendingLines) = one(In(l, PendingLines))
          /\ occ(file) = one(In(l, file))
      BY OccLemma DEF LwInv, LwTypeOK
    <2> HIDE DEF occ
    <2> QED BY <1>1, <1>2, <2>1 DEF Located
  <1>4. Cardinality(inBatch) = one(kind[l] = "batch")
    <2>1. \A d \in DrainIds :
             l \in ToSet(batch[d]) <=> kind[l] = "batch" /\ slot[l] = d
      BY <1>1, <1>2, ToSetIn DEF LwInv, LwTypeOK, Located
    <2>2. CASE kind[l] = "batch"
      <3>1. inBatch = {slot[l]}
        BY <1>2, <2>1, <2>2
      <3> QED BY <2>2, <3>1, FS_Singleton
    <2>3. CASE kind[l] # "batch"
      <3>1. inBatch = {}
        BY <2>1, <2>3
      <3> QED BY <2>3, <3>1, FS_EmptySet
    <2> QED BY <2>2, <2>3
  <1>5. Cardinality(inSet) = one(kind[l] \in {"direct", "lost", "rejected"})
    <2>1. /\ l \in direct <=> kind[l] = "direct"
          /\ l \in lost <=> kind[l] = "lost"
          /\ l \in rejected <=> kind[l] = "rejected"
      BY <1>1, <1>2 DEF Located
    <2>2. CASE kind[l] = "direct"
      <3>1. inSet = {<<1, direct>>}
        BY <2>1, <2>2
      <3> QED BY <2>2, <3>1, FS_Singleton
    <2>3. CASE kind[l] = "lost"
      <3>1. inSet = {<<2, lost>>}
        BY <2>1, <2>3
      <3> QED BY <2>3, <3>1, FS_Singleton
    <2>4. CASE kind[l] = "rejected"
      <3>1. inSet = {<<3, rejected>>}
        BY <2>1, <2>4
      <3> QED BY <2>4, <3>1, FS_Singleton
    <2>5. CASE kind[l] \notin {"direct", "lost", "rejected"}
      <3>1. inSet = {}
        BY <2>1, <2>5
      <3> QED BY <2>5, <3>1, FS_EmptySet
    <2> QED BY <2>2, <2>3, <2>4, <2>5
  <1>6. Times(l) = occ(buffer) + occ(PendingLines) + occ(file)
                   + Cardinality(inBatch) + Cardinality(inSet)
    BY DEF Times
  <1> HIDE DEF occ, inBatch, inSet
  <1> QED BY <1>2, <1>3, <1>4, <1>5, <1>6 DEF Kinds

(* What Dispose has emptied holds no line. *)
LEMMA DisposeLemma == ASSUME LwInv PROVE DisposeDrains
  <1> SUFFICES ASSUME disposer = "returned", NEW l \in 1..(next - 1), InBuffers(l)
               PROVE  FALSE
    BY DEF DisposeDrains
  <1>1. buffer = <<>> /\ PendingLines = <<>> /\ \A d \in DrainIds : batch[d] = <<>>
    BY DEF LwInv, DisposeInv
  <1>2. ToSet(<<>>) = {}
    BY DEF ToSet
  <1> QED BY <1>1, <1>2 DEF InBuffers

(* No line is lost or written twice by the writer, and Dispose returns     *)
(* only when every accepted line is out, whatever the buffer size and      *)
(* however many flushes, drains and faults there are.                      *)
THEOREM WriterTheorem == LwSpec => []WriterKeepsLines
  <1>1. LwInit => LwInv
    BY LwInitLemma
  <1>2. LwInv /\ [LwNext]_lwVars => LwInv'
    BY LwNextLemma
  <1>3. LwInv => WriterKeepsLines
    BY LinesLemma, DisposeLemma DEF WriterKeepsLines
  <1> QED BY <1>1, <1>2, <1>3, PTL DEF LwSpec
=============================================================================
