--------------------------- MODULE BackendsProofs ---------------------------
(***************************************************************************)
(* What the masks show, for every text, pattern and width, and what is     *)
(* left of a row when several are applied one after the other.             *)
(***************************************************************************)
EXTENDS Backends, ConstraintProofs

(***************************************************************************)
(* A mask that returns shows the characters its pattern keeps, when the    *)
(* text has more than those, and nothing otherwise: a sum that wraps shows *)
(* nothing either, it can only end the request (mask.rs, partial).  A text *)
(* fills at most half of the address space.                                *)
(***************************************************************************)
THEOREM PartialShowsWhatIsKept ==
  ASSUME NEW n \in Nat, 2 * n < Word,
         NEW head \in 0..(Word - 1), NEW tail \in 0..(Word - 1),
         ~ Partial(n, <<head, tail>>).panics
  PROVE  \/ Partial(n, <<head, tail>>).shown = {}
         \/ /\ head + tail < n
            /\ Partial(n, <<head, tail>>).shown = 1..head \cup (n - tail + 1)..n
<1> DEFINE sum == Plus(head, tail)
           rest == Minus(n, tail)
<1> SUFFICES ASSUME n > sum, head <= n, rest <= n
             PROVE  /\ head + tail < n
                    /\ Partial(n, <<head, tail>>).shown = 1..head \cup (n - tail + 1)..n
  BY WordAssumption DEF Partial, Whole, Panic, Plus, Minus
<1>1. tail <= n
  \* a difference that wraps starts the second slice behind the text
  <2> SUFFICES ASSUME n < tail PROVE FALSE
    BY WordAssumption
  <2>1. rest = n - tail + Word
    BY WordAssumption DEF Minus
  <2> QED BY <2>1, WordAssumption
<1>2. rest = n - tail
  BY <1>1, WordAssumption DEF Minus
<1>3. sum = head + tail
  \* it would take one of them to be longer than the text to wrap
  BY <1>1, WordAssumption DEF Plus
<1>4. Partial(n, <<head, tail>>) = [panics |-> FALSE, shown |-> 1..head \cup (rest + 1)..n]
  BY WordAssumption DEF Partial, Plus, Minus
<1> QED BY <1>2, <1>3, <1>4

(***************************************************************************)
(* Some character of a text that is not empty is hidden.                   *)
(***************************************************************************)
THEOREM PartialHidesSome ==
  ASSUME NEW n \in Nat \ {0}, 2 * n < Word,
         NEW head \in 0..(Word - 1), NEW tail \in 0..(Word - 1),
         ~ Partial(n, <<head, tail>>).panics
  PROVE  \E i \in 1..n : i \notin Partial(n, <<head, tail>>).shown
<1>1. CASE Partial(n, <<head, tail>>).shown = {}
  <2> QED BY <1>1, 1 \in 1..n
<1>2. CASE Partial(n, <<head, tail>>).shown # {}
  <2>1. /\ head + tail < n
        /\ Partial(n, <<head, tail>>).shown = 1..head \cup (n - tail + 1)..n
    BY <1>2, PartialShowsWhatIsKept
  <2>2. head + 1 \in 1..n /\ head + 1 \notin 1..head \cup (n - tail + 1)..n
    BY <2>1, WordAssumption
  <2> QED BY <2>1, <2>2
<1> QED BY <1>1, <1>2

LEMMA PartialBounds ==
  ASSUME NEW n \in Nat, 2 * n < Word,
         NEW head \in 0..(Word - 1), NEW tail \in 0..(Word - 1),
         ~ Partial(n, <<head, tail>>).panics
  PROVE  LET shown == Partial(n, <<head, tail>>).shown
         IN shown \subseteq 1..n /\ IsFiniteSet(shown) /\ Cardinality(shown) <= head + tail
<1> DEFINE shown == Partial(n, <<head, tail>>).shown
<1>0. head \in Nat /\ tail \in Nat
  BY WordAssumption
<1>1. CASE shown = {}
  <2> HIDE DEF shown
  <2>1. IsFiniteSet(shown) /\ Cardinality(shown) = 0 /\ shown \subseteq 1..n
    BY <1>1, FS_EmptySet
  <2> QED BY <1>0, <2>1 DEF shown
<1>2. CASE head + tail < n /\ shown = 1..head \cup (n - tail + 1)..n
  <2> DEFINE A == 1..head
             B == (n - tail + 1)..n
  <2>1. IsFiniteSet(A) /\ Cardinality(A) = head
    BY <1>0, FS_Interval
  <2>2. IsFiniteSet(B) /\ Cardinality(B) = tail
    <3> DEFINE a == n - tail + 1
    <3>1. a \in Int /\ n \in Int /\ n - a + 1 = tail /\ (a > n => tail = 0)
      BY <1>0, <1>2
    <3> HIDE DEF a
    <3> QED BY <3>1, FS_Interval DEF a
  <2>3. shown \subseteq 1..n
    BY <1>0, <1>2
  <2> HIDE DEF A, B
  <2>4. IsFiniteSet(A \cup B) /\ Cardinality(A \cup B) = Cardinality(A) + Cardinality(B) - Cardinality(A \cap B)
    BY <2>1, <2>2, FS_Union
  <2>5. IsFiniteSet(A \cap B) /\ Cardinality(A \cap B) \in Nat
    BY <2>1, FS_Intersection, FS_CardinalityType
  <2>6. shown = A \cup B
    BY <1>2 DEF A, B
  <2> HIDE DEF shown
  <2>7. IsFiniteSet(shown) /\ Cardinality(shown) <= head + tail
    <3> DEFINE common == Cardinality(A \cap B)
    <3>1. Cardinality(shown) = head + tail - common /\ common \in Nat
      BY <2>1, <2>2, <2>4, <2>5, <2>6
    <3> HIDE DEF common
    <3> QED BY <1>0, <2>4, <2>6, <3>1
  <2> QED BY <2>3, <2>7 DEF shown
<1> QED BY <1>1, <1>2, PartialShowsWhatIsKept

(*----------------------- masks one after the other -----------------------*)

RowValue == {v \in Value : LengthOf(v) \in Nat /\ 2 * LengthOf(v) < Word}
MaskedValue ==
  {v \in [type : {"masked"}, text : {0}, num : {NoNumber}, len : Nat \ {0}, shown : SUBSET Nat] :
     v.shown \subseteq 1..v.len /\ (v.shown = {} \/ 2 * v.len < Word)}
AnyValue == RowValue \cup MaskedValue \cup {Panicked}

Obligation(columns) ==
  [column : columns, mask : {"full", "partial", "hash", "hide"}, keep : (0..(Word - 1)) \X (0..(Word - 1))]

(* A value in which nothing can be seen that the obligation hides. *)
Covered(ob, v) ==
  \/ v = Null \/ v = Panicked
  \/ /\ v.type = "masked" /\ v.shown # 1..v.len
     /\ v.shown = {} \/ (ob.mask = "partial" /\ Cardinality(v.shown) <= ob.keep[1] + ob.keep[2])

LEMMA ValueKinds ==
  ASSUME NEW v \in AnyValue
  PROVE  \/ v = Null /\ v.type = "null"
         \/ v = Panicked /\ v.type = "panic"
         \/ v \in MaskedValue /\ v.type = "masked"
         \/ v \in RowValue /\ v.type \notin {"null", "panic", "masked"}
<1>1. CASE v \in RowValue
  BY <1>1 DEF RowValue, Value, Types
<1>2. CASE v \in MaskedValue
  BY <1>2 DEF MaskedValue
<1>3. CASE v = Panicked
  BY <1>3 DEF Panicked
<1> QED BY <1>1, <1>2, <1>3 DEF AnyValue

(* A partial mask covers a value, and uncovers nothing of one that was masked before. *)
LEMMA PartialCovers ==
  ASSUME NEW v \in RowValue \cup MaskedValue, v.type \notin {"null", "panic"},
         NEW keep \in (0..(Word - 1)) \X (0..(Word - 1)), MaskPartially(v, keep) # Panicked
  PROVE  LET w == MaskPartially(v, keep)
         IN /\ w \in MaskedValue /\ w.shown # 1..w.len
            /\ w.shown = {} \/ Cardinality(w.shown) <= keep[1] + keep[2]
            /\ v \in MaskedValue => w.shown \subseteq v.shown
            /\ IsFiniteSet(w.shown)
<1> DEFINE n == Length(v)
           mask == Partial(n, keep)
           len == IF n = 0 THEN 1 ELSE n
           shown == mask.shown \cap InClear(v)
           w == Masked(len, shown)
<1>1. n \in Nat /\ (v \in MaskedValue \/ 2 * n < Word)
  <2>1. CASE v \in RowValue
    BY <2>1 DEF Length, RowValue, Value, Types
  <2>2. CASE v \in MaskedValue
    BY <2>2 DEF Length, MaskedValue
  <2> QED BY <2>1, <2>2
<1>2. PICK head \in 0..(Word - 1), tail \in 0..(Word - 1) : keep = <<head, tail>>
  OBVIOUS
<1>3. MaskPartially(v, keep) = w /\ ~ mask.panics
  <2>1. MaskPartially(v, keep) = IF mask.panics THEN Panicked ELSE w
    BY DEF MaskPartially
  <2> QED BY <2>1
<1>4. v \in MaskedValue => InClear(v) = v.shown /\ n = v.len /\ v.shown \subseteq 1..n /\ (v.shown = {} \/ 2 * n < Word) /\ n # 0
  BY DEF MaskedValue, InClear, Length
<1>5. v \notin MaskedValue => v \in RowValue /\ InClear(v) = 1..n /\ 2 * n < Word
  BY DEF RowValue, Value, Types, InClear, Length
<1>6. head \in Nat /\ tail \in Nat /\ len \in Nat \ {0}
  BY <1>1, WordAssumption
<1>7. shown \subseteq 1..len /\ shown # 1..len /\ IsFiniteSet(shown)
      /\ (shown = {} \/ (2 * n < Word /\ len = n /\ Cardinality(shown) <= head + tail))
  <2>1. CASE ~ (2 * n < Word)
    <3>1. shown = {}
      BY <1>4, <1>5, <2>1
    <3>2. 1 \in 1..len
      BY <1>6
    <3> HIDE DEF shown, len
    <3> QED BY <3>1, <3>2, FS_EmptySet
  <2>2. CASE 2 * n < Word
    <3> HIDE DEF n
    <3>1. mask.shown \subseteq 1..n /\ IsFiniteSet(mask.shown) /\ Cardinality(mask.shown) <= head + tail
      BY <1>1, <1>2, <1>3, <2>2, PartialBounds
    <3>2. CASE n = 0
      <4>1. shown = {} /\ len = 1
        BY <3>1, <3>2
      <4>2. IsFiniteSet(shown) /\ shown \subseteq 1..len /\ shown # 1..len
        <5>1. 1 \in 1..len
          BY <4>1
        <5> HIDE DEF shown, len
        <5> QED BY <4>1, <5>1, FS_EmptySet
      <4> QED BY <4>1, <4>2
    <3>3. CASE n # 0
      <4>1. PICK i \in 1..n : i \notin mask.shown
        BY <1>1, <1>2, <1>3, <2>2, <3>3, PartialHidesSome
      <4>2. IsFiniteSet(shown) /\ Cardinality(shown) <= Cardinality(mask.shown)
        BY <3>1, FS_Subset
      <4>3. Cardinality(shown) \in Nat /\ Cardinality(mask.shown) \in Nat
        BY <3>1, <4>2, FS_CardinalityType
      <4>4. shown \subseteq 1..n /\ shown # 1..n /\ len = n
        BY <3>1, <3>3, <4>1
      <4> HIDE DEF shown, mask, len
      <4> QED BY <1>6, <2>2, <3>1, <4>2, <4>3, <4>4
    <3> QED BY <3>2, <3>3
  <2> QED BY <2>1, <2>2
<1>8. w.type = "masked" /\ w.text = 0 /\ w.num = NoNumber /\ w.len = len /\ w.shown = shown
      /\ w \in [type : {"masked"}, text : {0}, num : {NoNumber}, len : {len}, shown : {shown}]
  BY DEF Masked
<1> HIDE DEF shown, len, w
<1>9. shown \in SUBSET Nat
  BY <1>6, <1>7
<1>10. w \in MaskedValue
  BY <1>1, <1>6, <1>7, <1>8, <1>9 DEF MaskedValue
<1>11. v \in MaskedValue => w.shown \subseteq v.shown
  BY <1>4, <1>8 DEF shown
<1> QED BY <1>2, <1>3, <1>7, <1>8, <1>10, <1>11

LEMMA MaskValueCovers ==
  ASSUME NEW C, NEW v \in AnyValue, NEW ob \in Obligation(C), ob.mask # "hide"
  PROVE  LET w == MaskValue(v, ob)
         IN w \in AnyValue /\ Covered(ob, w) /\ \A first \in Obligation(C) : Covered(first, v) => Covered(first, w)
<1> DEFINE w == MaskValue(v, ob)
<1>1. CASE v.type \in {"null", "panic"}
  <2>1. w = v
    BY <1>1 DEF MaskValue
  <2>2. v = Null \/ v = Panicked
    BY <1>1, ValueKinds
  <2> QED BY <2>1, <2>2 DEF Covered
<1>2. CASE v.type \notin {"null", "panic"}
  <2>1. v \in RowValue \cup MaskedValue /\ v # Null /\ v # Panicked
    BY <1>2, ValueKinds DEF Null, Panicked, AnyValue
  <2>2. ASSUME NEW n \in {4, 20}, w = Masked(n, {})
        PROVE  w \in AnyValue /\ \A first : Covered(first, w)
    <3>1. w = [type |-> "masked", text |-> 0, num |-> NoNumber, len |-> n, shown |-> {}]
      BY <2>2 DEF Masked
    <3>2. 1 \in 1..n
      OBVIOUS
    <3>3. w.type = "masked" /\ w.shown = {} /\ w.len = n
      BY <3>1
    <3>4. w \in MaskedValue
      BY <3>1 DEF MaskedValue
    <3> HIDE DEF w
    <3> QED BY <3>2, <3>3, <3>4 DEF AnyValue, Covered
  <2>3. CASE ob.mask = "full"
    <3>1. w = Masked(4, {})
      BY <1>2, <2>3 DEF MaskValue
    <3> QED BY <2>2, <3>1
  <2>4. CASE ob.mask = "hash"
    <3>1. w = Masked(20, {})
      BY <1>2, <2>4 DEF MaskValue
    <3> QED BY <2>2, <3>1
  <2>5. CASE ob.mask = "partial"
    <3>1. w = MaskPartially(v, ob.keep)
      BY <1>2, <2>5 DEF MaskValue
    <3> HIDE DEF w
    <3>2. CASE w = Panicked
      <4>1. w \in AnyValue
        BY <3>2 DEF AnyValue
      <4>2. \A first : Covered(first, w)
        BY <3>2 DEF Covered
      <4> QED BY <4>1, <4>2 DEF w
    <3>3. CASE w # Panicked
      <4>1. ob.keep \in (0..(Word - 1)) \X (0..(Word - 1))
        BY DEF Obligation
      <4>2. /\ w \in MaskedValue /\ w.shown # 1..w.len
            /\ w.shown = {} \/ Cardinality(w.shown) <= ob.keep[1] + ob.keep[2]
            /\ v \in MaskedValue => w.shown \subseteq v.shown
            /\ IsFiniteSet(w.shown)
        BY <1>2, <2>1, <3>1, <3>3, <4>1, PartialCovers
      <4>3. w.type = "masked"
        BY <4>2 DEF MaskedValue
      <4>4. ASSUME NEW first \in Obligation(C), Covered(first, v) PROVE Covered(first, w)
        <5>1. v.type = "masked" /\ (v.shown = {} \/ (first.mask = "partial" /\ Cardinality(v.shown) <= first.keep[1] + first.keep[2]))
          BY <2>1, <4>4 DEF Covered
        <5>2. v \in MaskedValue
          BY <2>1, <5>1, ValueKinds DEF AnyValue
        <5>3. CASE w.shown = {}
          BY <4>2, <4>3, <5>3 DEF Covered
        <5>4. CASE w.shown # {}
          <6>1. v.shown # {} /\ w.shown \subseteq v.shown /\ v.shown \subseteq 1..v.len /\ v.len \in Nat
            BY <4>2, <5>2, <5>4 DEF MaskedValue
          <6>2. IsFiniteSet(v.shown)
            <7>1. IsFiniteSet(1..v.len)
              BY <6>1, FS_Interval
            <7> QED BY <6>1, <7>1, FS_Subset
          <6>3. Cardinality(w.shown) <= Cardinality(v.shown)
            BY <6>1, <6>2, FS_Subset
          <6>4. Cardinality(w.shown) \in Nat /\ Cardinality(v.shown) \in Nat
            BY <4>2, <6>2, FS_CardinalityType
          <6>5. first.keep[1] \in Nat /\ first.keep[2] \in Nat
            BY WordAssumption DEF Obligation
          <6>6. Cardinality(w.shown) <= first.keep[1] + first.keep[2]
            BY <5>1, <6>1, <6>3, <6>4, <6>5
          <6> QED BY <4>2, <4>3, <5>1, <6>1, <6>6 DEF Covered
        <5> QED BY <5>3, <5>4
      <4>5. w \in AnyValue
        BY <4>2 DEF AnyValue
      <4>6. Covered(ob, w)
        BY <2>5, <4>2, <4>3 DEF Covered
      <4> QED BY <4>4, <4>5, <4>6 DEF w
    <3> QED BY <3>2, <3>3
  <2> QED BY <2>3, <2>4, <2>5 DEF Obligation
<1> QED BY <1>1, <1>2

(***************************************************************************)
(* Masks applied one after the other: what one of them hides stays hidden. *)
(***************************************************************************)
LEMMA MasksCover ==
  ASSUME NEW C, NEW D, NEW row \in [D -> RowValue], NEW obs \in Seq(Obligation(C))
  PROVE  LET masked == ApplyMasks(row, obs)
         IN /\ masked \in [DOMAIN masked -> AnyValue] /\ DOMAIN masked \subseteq D
            /\ \A i \in DOMAIN obs :
                 \/ obs[i].column \notin DOMAIN masked
                 \/ obs[i].mask # "hide" /\ Covered(obs[i], masked[obs[i].column])
<1> DEFINE N == Len(obs)
           V == UNION {[E -> AnyValue] : E \in SUBSET D}
           step == [p \in (0..N) \X V |-> IF p[1] = 0 THEN row ELSE ApplyMask(p[2], obs[p[1]])]
           Hidden(ob, r) == ob.column \notin DOMAIN r \/ (ob.mask # "hide" /\ Covered(ob, r[ob.column]))
<1>1. N \in Nat /\ DOMAIN obs = 1..N /\ \A i \in 1..N : obs[i] \in Obligation(C)
  OBVIOUS
<1>2. row \in V
  BY DEF AnyValue
<1>3. ASSUME NEW r \in V, NEW ob \in Obligation(C)
      PROVE  /\ ApplyMask(r, ob) \in V
             /\ Hidden(ob, ApplyMask(r, ob))
             /\ \A first \in Obligation(C) : Hidden(first, r) => Hidden(first, ApplyMask(r, ob))
  <2>1. PICK E \in SUBSET D : r \in [E -> AnyValue]
    OBVIOUS
  <2> DEFINE w == ApplyMask(r, ob)
  <2>2. CASE ob.mask = "hide"
    <3>1. w = [k \in E \ {ob.column} |-> r[k]]
      BY <2>1, <2>2 DEF ApplyMask, Hide
    <3>2. w \in [E \ {ob.column} -> AnyValue]
      BY <2>1, <3>1
    <3> QED BY <2>1, <3>1, <3>2
  <2>3. CASE ob.mask # "hide" /\ ob.column \notin E
    <3>1. w = r
      BY <2>1, <2>3 DEF ApplyMask
    <3> QED BY <2>1, <2>3, <3>1
  <2>4. CASE ob.mask # "hide" /\ ob.column \in E
    <3> DEFINE c == ob.column
               u == MaskValue(r[c], ob)
    <3>1. w = [r EXCEPT ![c] = u]
      BY <2>1, <2>4 DEF ApplyMask
    <3>2. u \in AnyValue /\ Covered(ob, u) /\ \A first \in Obligation(C) : Covered(first, r[c]) => Covered(first, u)
      BY <2>1, <2>4, MaskValueCovers
    <3> HIDE DEF w, u
    <3>3. w \in [E -> AnyValue] /\ w[c] = u /\ \A k \in E : k # c => w[k] = r[k]
      BY <2>1, <2>4, <3>1, <3>2
    <3>4. Hidden(ob, w)
      BY <2>4, <3>2, <3>3
    <3>5. ASSUME NEW first \in Obligation(C), Hidden(first, r) PROVE Hidden(first, w)
      BY <2>1, <3>2, <3>3, <3>5
    <3> QED BY <3>3, <3>4, <3>5 DEF w
  <2> QED BY <2>2, <2>3, <2>4
<1>4. ASSUME NEW i \in 0..N, NEW v \in V
      PROVE  step[<<i, v>>] = (IF i = 0 THEN row ELSE ApplyMask(v, obs[i])) /\ step[<<i, v>>] \in V
  <2> HIDE DEF V, Hidden
  <2>1. step[<<i, v>>] = IF i = 0 THEN row ELSE ApplyMask(v, obs[i])
    OBVIOUS
  <2>2. CASE i = 0
    BY <1>2, <2>1, <2>2
  <2>3. CASE i # 0
    BY <1>1, <1>3, <2>1, <2>3
  <2> QED BY <2>1, <2>2, <2>3
<1> HIDE DEF N, V, step, Hidden
<1>5. PICK f \in [0..N -> V] : Steps(f, 0, N, row, step)
  <2>1. \A i \in 0..N : \A v \in V : step[<<i, v>>] \in V
    BY <1>4
  <2> QED BY <1>1, <1>2, <2>1, StepRecursion
<1> DEFINE At(g, i) == IF i = 0 THEN row ELSE ApplyMask(g[i - 1], obs[i])
           Is(g) == g = [i \in 0..N |-> At(g, i)]
           h == CHOOSE g : Is(g)
<1>6. Is(f)
  <2>1. ASSUME NEW i \in 0..N PROVE f[i] = At(f, i)
    <3>1. CASE i = 0
      BY <1>5, <3>1 DEF Steps
    <3>2. CASE i # 0
      <4>1. i - 1 \in 0..N
        BY <1>1, <3>2
      <4>2. f[i - 1] \in V /\ f[i] = step[<<i, f[i - 1]>>]
        BY <1>5, <3>2, <4>1 DEF Steps
      <4> QED BY <1>4, <3>2, <4>2
    <3> QED BY <3>1, <3>2
  <2> HIDE DEF At
  <2> QED BY <1>5, <2>1
<1>7. Is(h)
  <2> HIDE DEF Is
  <2> QED BY <1>6
<1>8. ApplyMasks(row, obs) = h[N]
  BY DEF ApplyMasks, N
<1> HIDE DEF h
<1>9. h[0] = row /\ \A i \in 0..N : i # 0 => h[i] = ApplyMask(h[i - 1], obs[i])
  BY <1>1, <1>7
<1> DEFINE S == {n \in Nat : n <= N => h[n] \in V /\ \A i \in 1..n : Hidden(obs[i], h[n])}
<1>10. 0 \in S
  BY <1>2, <1>9
<1>11. ASSUME NEW n \in S PROVE n + 1 \in S
  <2> SUFFICES ASSUME n + 1 <= N PROVE h[n + 1] \in V /\ \A i \in 1..(n + 1) : Hidden(obs[i], h[n + 1])
    OBVIOUS
  <2> DEFINE m == n + 1
  <2>1. m \in 1..N /\ m \in 0..N /\ m # 0 /\ m - 1 = n /\ n \in Nat /\ 1..m = 1..n \cup {m} /\ 1..m \subseteq 1..N
    BY <1>1
  <2>2. h[n] \in V /\ \A i \in 1..n : Hidden(obs[i], h[n])
    BY <1>1
  <2> HIDE DEF m, S
  <2>3. h[m] = ApplyMask(h[n], obs[m])
    BY <1>9, <2>1
  <2>4. h[m] \in V /\ Hidden(obs[m], h[m]) /\ \A i \in 1..n : Hidden(obs[i], h[m])
    BY <1>1, <1>3, <2>1, <2>2, <2>3
  <2> QED BY <2>1, <2>4 DEF m
<1>12. S = Nat
  <2> HIDE DEF S
  <2>1. S \in SUBSET Nat BY DEF S
  <2> QED BY <1>10, <1>11, <2>1, SetInduction
<1>13. h[N] \in V /\ \A i \in 1..N : Hidden(obs[i], h[N])
  BY <1>1, <1>12
<1>14. h[N] \in [DOMAIN h[N] -> AnyValue] /\ DOMAIN h[N] \subseteq D
  BY <1>13 DEF V
<1> QED BY <1>1, <1>8, <1>13, <1>14 DEF Hidden

(* The tests a row passes, as Keeps has them. *)
Passing(row) == [x \in Atoms |-> x.kind # "relation" /\ x.field \in DOMAIN row /\ TestKeeps(x, row[x.field])]

LEMMA PassingIs ==
  ASSUME NEW row
  PROVE  /\ Passing(row) \in [Atoms -> BOOLEAN]
         /\ \A c : Keeps(c, row) = Holds(c, Passing(row))
         /\ \A x \in Atoms : Holds(x, Passing(row)) <=> Passing(row)[x]
<1>1. Passing(row) \in [Atoms -> BOOLEAN]
  BY DEF Passing
<1>2. \A c : Keeps(c, row) = Holds(c, Passing(row))
  BY DEF Keeps, Passing
<1>3. ASSUME NEW x \in Atoms, NEW pass \in [Atoms -> BOOLEAN] PROVE Holds(x, pass) <=> pass[x]
  <2>1. x \in Trees
    <3>1. Leaves = Tree(Leaves, 0) /\ 0 \in 0..(Depth + 4) /\ x \in Leaves
      BY DepthAssumption, TreeDef DEF Leaves
    <3> QED BY <3>1, Levels
  <2>2. x.kind \notin {"true", "not", "and", "or"}
    BY AtomsAre
  <2> QED BY <2>1, <2>2, HoldsDef
<1> QED BY <1>1, <1>2, <1>3

(*----------------------------- SQL compiled ------------------------------*)

(* What compiling can give, and a list of values as part of another. *)
Results(X) == {Failed} \cup [ok : {TRUE}, sql : X, params : Seq(Value)]
Within(o, ps, qs) == \A q \in DOMAIN ps : o + q \in DOMAIN qs /\ qs[o + q] = ps[q]

(* The items of a list, compiled one after the other: each with its values where its placeholders say. *)
Compiled(parts, n, k, j) ==
  /\ Len(j.sql) = k
  /\ \A i \in 1..k : \E o \in Nat :
       LET e == parts[i][n + o] IN e.ok /\ j.sql[i] = e.sql /\ Within(o, e.params, j.params)

LEMMA ResultsAre ==
  ASSUME NEW X, NEW e \in Results(X)
  PROVE  /\ e.ok \in BOOLEAN
         /\ e.ok => e.sql \in X /\ e.params \in Seq(Value) /\ e = Emitted(e.sql, e.params)
         /\ ~ e.ok => e = Failed
<1>1. CASE e = Failed
  BY <1>1 DEF Failed
<1>2. CASE e \in [ok : {TRUE}, sql : X, params : Seq(Value)]
  BY <1>2 DEF Emitted
<1> QED BY <1>1, <1>2 DEF Results

LEMMA EmittedResults ==
  ASSUME NEW X, NEW sql \in X, NEW params \in Seq(Value)
  PROVE  Emitted(sql, params) \in Results(X)
BY DEF Emitted, Results

LEMMA WithinMore ==
  ASSUME NEW S, NEW qs \in Seq(S), NEW rs \in Seq(S)
  PROVE  /\ Within(Len(qs), rs, qs \o rs)
         /\ \A o \in Nat, ps \in Seq(S) : Within(o, ps, qs) => Within(o, ps, qs \o rs)
<1> DEFINE m == Len(qs)
           l == Len(rs)
           all == qs \o rs
<1>1. m \in Nat /\ l \in Nat /\ DOMAIN qs = 1..m /\ DOMAIN rs = 1..l
  OBVIOUS
<1>2. DOMAIN all = 1..(m + l)
  OBVIOUS
<1>3. \A i \in 1..m : all[i] = qs[i]
  OBVIOUS
<1>4. \A i \in 1..l : all[m + i] = rs[i]
  OBVIOUS
<1> HIDE DEF m, l, all
<1>5. \A q \in DOMAIN rs : m + q \in DOMAIN all /\ all[m + q] = rs[q]
  BY <1>1, <1>2, <1>4
<1>6. ASSUME NEW o \in Nat, NEW ps \in Seq(S), Within(o, ps, qs), NEW q \in DOMAIN ps
      PROVE  o + q \in DOMAIN all /\ all[o + q] = ps[q]
  <2>1. o + q \in DOMAIN qs /\ qs[o + q] = ps[q]
    BY <1>6 DEF Within
  <2> QED BY <1>1, <1>2, <1>3, <2>1
<1> QED BY <1>5, <1>6 DEF Within, m, all

LEMMA OneMore ==
  ASSUME NEW T, NEW N \in Nat, NEW parts \in Seq([Nat -> Results(T)]), Len(parts) = N, NEW n \in Nat,
         NEW k \in Nat, k < N, NEW j \in Results(Seq(T)), j.ok, Compiled(parts, n, k, j),
         parts[k + 1][n + Len(j.params)].ok
  PROVE  LET e == parts[k + 1][n + Len(j.params)]
             r == Emitted(Append(j.sql, e.sql), j.params \o e.params)
         IN r \in Results(Seq(T)) /\ r.ok /\ Compiled(parts, n, k + 1, r)
<1> DEFINE m == Len(j.params)
           e == parts[k + 1][n + m]
           sql == Append(j.sql, e.sql)
           params == j.params \o e.params
           r == Emitted(sql, params)
<1>1. j.sql \in Seq(T) /\ j.params \in Seq(Value) /\ m \in Nat
  BY ResultsAre
<1>2. e \in Results(T) /\ e.ok
  BY <1>1
<1>3. e.sql \in T /\ e.params \in Seq(Value)
  BY <1>2, ResultsAre
<1> HIDE DEF e
<1>4. sql \in Seq(T) /\ params \in Seq(Value) /\ Len(sql) = k + 1 /\ sql[k + 1] = e.sql
      /\ \A i \in 1..k : sql[i] = j.sql[i]
  BY <1>1, <1>3 DEF Compiled
<1>5. Within(m, e.params, params)
  BY <1>1, <1>3, WithinMore
<1>6. ASSUME NEW o \in Nat, NEW ps \in Seq(Value), Within(o, ps, j.params) PROVE Within(o, ps, params)
  BY <1>1, <1>3, <1>6, WithinMore
<1>7. r.ok /\ r.sql = sql /\ r.params = params
  BY DEF Emitted
<1>8. r \in Results(Seq(T))
  <2> HIDE DEF sql, params
  <2> QED BY <1>4, EmittedResults
<1> HIDE DEF m, r, sql, params
<1>9. ASSUME NEW i \in 1..(k + 1)
      PROVE  \E o \in Nat : LET x == parts[i][n + o] IN x.ok /\ r.sql[i] = x.sql /\ Within(o, x.params, r.params)
  <2>1. CASE i = k + 1
    <3>1. parts[i][n + m] = e
      BY <2>1 DEF e
    <3> QED BY <1>1, <1>2, <1>4, <1>5, <1>7, <2>1, <3>1
  <2>2. CASE i \in 1..k
    <3>1. PICK o \in Nat : LET x == parts[i][n + o] IN x.ok /\ j.sql[i] = x.sql /\ Within(o, x.params, j.params)
      BY <2>2 DEF Compiled
    <3> DEFINE x == parts[i][n + o]
    <3>2. x \in Results(T)
      BY <2>2
    <3>3. x.params \in Seq(Value)
      BY <3>1, <3>2, ResultsAre
    <3>4. Within(o, x.params, params)
      BY <1>6, <3>1, <3>3
    <3> QED BY <1>4, <1>7, <2>2, <3>1, <3>4
  <2> QED BY <2>1, <2>2
<1>10. Compiled(parts, n, k + 1, r)
  BY <1>4, <1>7, <1>9 DEF Compiled
<1> QED BY <1>7, <1>8, <1>10 DEF r, sql, params, e, m

LEMMA JoinDef ==
  ASSUME NEW T, NEW parts \in Seq([Nat -> Results(T)]), NEW n \in Nat
  PROVE  LET j == Join(parts, n)
         IN j \in Results(Seq(T)) /\ (j.ok => Compiled(parts, n, Len(parts), j))
<1> DEFINE N == Len(parts)
           V == Results(Seq(T))
           z == Emitted(<< >>, << >>)
           next(i, v) == LET e == parts[i][n + Len(v.params)]
                         IN IF v.ok /\ e.ok THEN Emitted(Append(v.sql, e.sql), v.params \o e.params) ELSE Failed
           step == [p \in (0..N) \X V |-> IF p[1] = 0 THEN z ELSE next(p[1], p[2])]
           Good(k, v) == v \in V /\ (v.ok => Compiled(parts, n, k, v))
<1>1. N \in Nat /\ 0 \in Nat
  OBVIOUS
<1>2. Good(0, z)
  <2>1. << >> \in Seq(T) /\ << >> \in Seq(Value)
    OBVIOUS
  <2>2. z \in V
    BY <2>1, EmittedResults
  <2>3. z.sql = << >>
    BY DEF Emitted
  <2> HIDE DEF z, V
  <2> QED BY <2>2, <2>3 DEF Compiled
<1>3. ASSUME NEW i \in 1..N, NEW v \in V PROVE next(i, v) \in V /\ (Good(i - 1, v) => Good(i, next(i, v)))
  <2> DEFINE e == parts[i][n + Len(v.params)]
             r == Emitted(Append(v.sql, e.sql), v.params \o e.params)
  <2>1. CASE v.ok /\ e.ok
    <3>1. v.sql \in Seq(T) /\ v.params \in Seq(Value) /\ Len(v.params) \in Nat
      BY <2>1, ResultsAre
    <3>2. e \in Results(T)
      BY <3>1
    <3>3. e.sql \in T /\ e.params \in Seq(Value)
      BY <2>1, <3>2, ResultsAre
    <3>4. next(i, v) = r
      BY <2>1
    <3>5. r \in V
      <4> HIDE DEF e
      <4>1. Append(v.sql, e.sql) \in Seq(T) /\ v.params \o e.params \in Seq(Value)
        BY <3>1, <3>3
      <4> QED BY <4>1, EmittedResults
    <3>6. ASSUME Good(i - 1, v) PROVE Good(i, r)
      <4> DEFINE k == i - 1
      <4>1. k \in Nat /\ k < N /\ k + 1 = i
        OBVIOUS
      <4>2. Compiled(parts, n, k, v) /\ v \in Results(Seq(T)) /\ v.ok
        BY <2>1, <3>6
      <4> HIDE DEF k, N
      <4>3. parts[k + 1][n + Len(v.params)].ok
        BY <2>1, <4>1
      <4>4. LET x == parts[k + 1][n + Len(v.params)]
                w == Emitted(Append(v.sql, x.sql), v.params \o x.params)
            IN w \in Results(Seq(T)) /\ w.ok /\ Compiled(parts, n, k + 1, w)
        BY <1>1, <4>1, <4>2, <4>3, OneMore DEF N
      <4> QED BY <4>1, <4>4
    <3> HIDE DEF Good, next, r, V
    <3> QED BY <3>4, <3>5, <3>6
  <2>2. CASE ~ (v.ok /\ e.ok)
    <3>1. next(i, v) = Failed
      BY <2>2
    <3>2. Failed \in V /\ ~ Failed.ok
      BY DEF Failed, Results
    <3> HIDE DEF next, V
    <3> QED BY <3>1, <3>2
  <2> QED BY <2>1, <2>2
<1>4. ASSUME NEW i \in 0..N, NEW v \in V
      PROVE  step[<<i, v>>] = (IF i = 0 THEN z ELSE next(i, v)) /\ step[<<i, v>>] \in V
  <2> HIDE DEF V, Good, next, z
  <2>1. step[<<i, v>>] = IF i = 0 THEN z ELSE next(i, v)
    OBVIOUS
  <2>2. z \in V
    BY <1>2 DEF Good
  <2> QED BY <1>3, <2>1, <2>2
<1> HIDE DEF N, V, step, Good, next, z
<1>5. PICK f \in [0..N -> V] : Steps(f, 0, N, z, step)
  <2>1. z \in V
    BY <1>2 DEF Good
  <2>2. \A i \in 0..N : \A v \in V : step[<<i, v>>] \in V
    BY <1>4
  <2> QED BY <1>1, <2>1, <2>2, StepRecursion
<1> DEFINE At(g, i) == IF i = 0 THEN z ELSE next(i, g[i - 1])
           Is(g) == g = [i \in 0..N |-> At(g, i)]
           h == CHOOSE g : Is(g)
<1>6. Is(f)
  <2>1. ASSUME NEW i \in 0..N PROVE f[i] = At(f, i)
    <3>1. CASE i = 0
      BY <1>5, <3>1 DEF Steps
    <3>2. CASE i # 0
      <4>1. i - 1 \in 0..N
        BY <1>1, <3>2
      <4>2. f[i - 1] \in V /\ f[i] = step[<<i, f[i - 1]>>]
        BY <1>5, <3>2, <4>1 DEF Steps
      <4> QED BY <1>4, <3>2, <4>2
    <3> QED BY <3>1, <3>2
  <2> HIDE DEF At
  <2> QED BY <1>5, <2>1
<1>7. Is(h)
  <2> HIDE DEF Is
  <2> QED BY <1>6
<1>8. Join(parts, n) = h[N]
  BY DEF Join, N, next, z
<1> HIDE DEF h
<1>9. h[0] = z /\ \A i \in 0..N : i # 0 => h[i] = next(i, h[i - 1])
  BY <1>1, <1>7
<1> DEFINE S == {k \in Nat : k <= N => Good(k, h[k])}
<1>10. 0 \in S
  BY <1>2, <1>9
<1>11. ASSUME NEW k \in S PROVE k + 1 \in S
  <2> SUFFICES ASSUME k + 1 <= N PROVE Good(k + 1, h[k + 1])
    OBVIOUS
  <2> DEFINE m == k + 1
  <2>1. m \in 1..N /\ m \in 0..N /\ m # 0 /\ m - 1 = k /\ k \in Nat
    BY <1>1
  <2>2. Good(k, h[k])
    BY <1>1
  <2>3. h[k] \in V
    BY <2>2 DEF Good
  <2> HIDE DEF m, S
  <2>4. h[m] = next(m, h[k])
    BY <1>9, <2>1
  <2>5. Good(m, h[m])
    BY <1>3, <2>1, <2>2, <2>3, <2>4
  <2> QED BY <2>5 DEF m
<1>12. S = Nat
  <2> HIDE DEF S
  <2>1. S \in SUBSET Nat BY DEF S
  <2> QED BY <1>10, <1>11, <2>1, SetInduction
<1>13. Good(N, h[N])
  BY <1>1, <1>12
<1> QED BY <1>8, <1>13 DEF Good, V, N

LEMMA EmitTestIs ==
  ASSUME NEW x \in Atoms, NEW n \in Nat, NEW res, Range(res.bindings) \subseteq STRING
  PROVE  LET e == EmitTest(x, n, res)
             leaf(op, vs) == [kind |-> "sql", column |-> Phys(x.field, res), op |-> op, at |-> Placeholders(n, vs)]
         IN /\ e \in Results(SqlTests \cup {False})
            /\ \/ e = Failed /\ (x.kind = "relation" \/ x.field \notin AllowFields(res))
               \/ /\ x.kind # "relation" /\ x.field \in AllowFields(res)
                  /\ \/ x.kind = "cmp" /\ e = Emitted(leaf(x.op, <<x.value>>), <<x.value>>)
                     \/ x.kind = "between" /\ e = Emitted(leaf("BETWEEN", <<x.lo, x.hi>>), <<x.lo, x.hi>>)
                     \/ x.kind = "in" /\ x.values = << >> /\ e = Emitted(False, << >>)
                     \/ x.kind = "in" /\ x.values # << >> /\ e = Emitted(leaf("IN", x.values), x.values)
<1> DEFINE e == EmitTest(x, n, res)
           leaf(op, vs) == [kind |-> "sql", column |-> Phys(x.field, res), op |-> op, at |-> Placeholders(n, vs)]
           X == SqlTests \cup {False}
<1>1. ASSUME NEW op \in Ops \cup {"IN", "BETWEEN"}, NEW vs \in Seq(Value), x.field \in STRING
      PROVE  Emitted(leaf(op, vs), vs) \in Results(X)
  <2>1. Phys(x.field, res) \in STRING
    BY <1>1 DEF Phys, Range
  <2>2. Placeholders(n, vs) \in Seq(Nat)
    BY DEF Placeholders
  <2>3. leaf(op, vs) \in X
    BY <2>1, <2>2 DEF SqlTests
  <2> HIDE DEF X, leaf
  <2> QED BY <2>3, EmittedResults
<1>2. CASE x.kind = "relation" \/ x.field \notin AllowFields(res)
  BY <1>2 DEF EmitTest, Results
<1>3. CASE x.kind = "cmp" /\ x.field \in AllowFields(res)
  <2>1. e = Emitted(leaf(x.op, <<x.value>>), <<x.value>>)
    BY <1>3 DEF EmitTest
  <2>2. x.field \in STRING /\ x.op \in Ops \cup {"IN", "BETWEEN"} /\ <<x.value>> \in Seq(Value)
    BY <1>3, AtomsAre
  <2> HIDE DEF e, leaf, X
  <2>3. e \in Results(X)
    BY <1>1, <2>1, <2>2
  <2> QED BY <1>3, <2>1, <2>3 DEF e, leaf, X
<1>4. CASE x.kind = "between" /\ x.field \in AllowFields(res)
  <2>1. e = Emitted(leaf("BETWEEN", <<x.lo, x.hi>>), <<x.lo, x.hi>>)
    BY <1>4 DEF EmitTest
  <2>2. x.field \in STRING /\ "BETWEEN" \in Ops \cup {"IN", "BETWEEN"} /\ <<x.lo, x.hi>> \in Seq(Value)
    BY <1>4, AtomsAre
  <2> HIDE DEF e, leaf, X
  <2>3. e \in Results(X)
    BY <1>1, <2>1, <2>2
  <2> QED BY <1>4, <2>1, <2>3 DEF e, leaf, X
<1>5. CASE x.kind = "in" /\ x.field \in AllowFields(res) /\ x.values = << >>
  <2>1. e = Emitted(False, << >>)
    BY <1>5 DEF EmitTest
  <2>2. False \in X /\ << >> \in Seq(Value)
    OBVIOUS
  <2> HIDE DEF e, X
  <2>3. e \in Results(X)
    BY <2>1, <2>2, EmittedResults
  <2> QED BY <1>5, <2>1, <2>3 DEF e, X
<1>6. CASE x.kind = "in" /\ x.field \in AllowFields(res) /\ x.values # << >>
  <2>1. e = Emitted(leaf("IN", x.values), x.values)
    BY <1>6 DEF EmitTest
  <2>2. x.field \in STRING /\ "IN" \in Ops \cup {"IN", "BETWEEN"} /\ x.values \in Seq(Value)
    BY <1>6, AtomsAre
  <2> HIDE DEF e, leaf, X
  <2>3. e \in Results(X)
    BY <1>1, <2>1, <2>2
  <2> QED BY <1>6, <2>1, <2>3 DEF e, leaf, X
<1>7. x.kind \in {"relation", "cmp", "between", "in"}
  BY AtomsAre
<1> QED BY <1>2, <1>3, <1>4, <1>5, <1>6, <1>7

(* Three-valued logic: when a conjunction or a disjunction is true, and when it is false. *)
LEMMA PgAndOr ==
  ASSUME NEW S \in SUBSET {0, 1, 2}
  PROVE  /\ PgAnd(S) \in {0, 1, 2} /\ (PgAnd(S) = 2 <=> S \subseteq {2}) /\ (PgAnd(S) = 0 <=> 0 \in S)
         /\ PgOr(S) \in {0, 1, 2} /\ (PgOr(S) = 2 <=> 2 \in S) /\ (PgOr(S) = 0 <=> S \subseteq {0})
BY DEF PgAnd, PgOr

LEMMA PgLeafIs ==
  ASSUME NEW x, NEW params, NEW row
  PROVE  PgLeaf(x, params, row) \in {0, 1, 2}
<1> DEFINE value == IF x.column \in DOMAIN row THEN row[x.column] ELSE Null
           tests(op) == {PgTest(op, value, params[x.at[i]]) : i \in DOMAIN x.at}
<1>1. \A op, a, b : PgTest(op, a, b) \in {0, 1, 2}
  BY DEF PgTest, Truth
<1>2. \A op : tests(op) \in SUBSET {0, 1, 2}
  BY <1>1
<1>3. {PgTest("Ge", value, params[x.at[1]]), PgTest("Le", value, params[x.at[2]])} \in SUBSET {0, 1, 2}
  BY <1>1
<1>4. PgLeaf(x, params, row) =
        IF x.op = "IN" THEN PgOr(tests("Eq"))
        ELSE IF x.op = "BETWEEN" THEN PgAnd({PgTest("Ge", value, params[x.at[1]]), PgTest("Le", value, params[x.at[2]])})
        ELSE PgOr(tests(x.op))
  BY DEF PgLeaf
<1> HIDE DEF tests, value
<1> QED BY <1>2, <1>3, <1>4, PgAndOr

LEMMA PgEvalDef ==
  ASSUME NEW params, NEW row, NEW c \in Trees
  PROVE  /\ PgEval(c, params, row) \in {0, 1, 2}
         /\ c.kind = "true" => PgEval(c, params, row) = 2
         /\ c.kind = "false" => PgEval(c, params, row) = 0
         /\ c.kind = "and" =>
              /\ PgEval(c, params, row) = 2 <=> \A i \in DOMAIN c.items : PgEval(c.items[i], params, row) = 2
              /\ PgEval(c, params, row) = 0 <=> \E i \in DOMAIN c.items : PgEval(c.items[i], params, row) = 0
         /\ c.kind = "or" =>
              /\ PgEval(c, params, row) = 2 <=> \E i \in DOMAIN c.items : PgEval(c.items[i], params, row) = 2
              /\ PgEval(c, params, row) = 0 <=> \A i \in DOMAIN c.items : PgEval(c.items[i], params, row) = 0
         /\ c.kind = "not" => PgEval(c, params, row) = 2 - PgEval(c.item, params, row)
         /\ c.kind = "sql" => PgEval(c, params, row) = PgLeaf(c, params, row)
<1> DEFINE B == {0, 1, 2}
           At(f, x) ==
             CASE x.kind = "true" -> 2
               [] x.kind = "false" -> 0
               [] x.kind = "and" -> PgAnd({f[x.items[i]] : i \in DOMAIN x.items})
               [] x.kind = "or" -> PgOr({f[x.items[i]] : i \in DOMAIN x.items})
               [] x.kind = "not" -> 2 - f[x.item]
               [] OTHER -> PgLeaf(x, params, row)
           Is(f) == f = [x \in Trees |-> At(f, x)]
           of(x, vs) ==
             IF x.kind = "true" THEN 2 ELSE IF x.kind = "false" THEN 0
             ELSE IF x.kind = "and" THEN PgAnd(ToSet(vs)) ELSE IF x.kind = "or" THEN PgOr(ToSet(vs))
             ELSE IF x.kind = "not" THEN 2 - vs[1] ELSE PgLeaf(x, params, row)
           step == [p \in Trees \X Seq(B) |-> of(p[1], p[2])]
           V == [n \in Nat |-> B]
<1>1. ASSUME NEW x \in Trees, NEW vs \in Seq(B), Len(vs) = Len(Kids(x)) PROVE of(x, vs) \in B
  <2>1. ToSet(vs) \in SUBSET B
    BY DEF ToSet
  <2>2. PgAnd(ToSet(vs)) \in B /\ PgOr(ToSet(vs)) \in B /\ PgLeaf(x, params, row) \in B
    BY <2>1, PgAndOr, PgLeafIs
  <2>3. x.kind = "not" => 2 - vs[1] \in B
    <3>1. ASSUME x.kind = "not" PROVE vs[1] \in B
      <4>a. Kids(x) = <<x.item>>
        BY <3>1, KidsOfKinds
      <4>b. Len(Kids(x)) = 1
        BY <4>a
      <4>1. Len(vs) = 1
        BY <1>1, <4>b
      <4> HIDE DEF B
      <4> QED BY <4>1, OneItem
    <3> QED BY <3>1
  <2> QED BY <2>2, <2>3
<1>2. KeepsTo(step, V)
  <2> SUFFICES ASSUME NEW n \in 0..(Depth + 4), NEW x \in Tree(Leaves, n),
                      NEW vs \in Seq(IF n = 0 THEN {} ELSE V[n - 1]), Len(vs) = Len(Kids(x))
               PROVE  step[<<x, vs>>] \in V[n]
    BY DEF KeepsTo
  <2>1. x \in Trees /\ V[n] = B
    BY Levels
  <2>2. vs \in Seq(B)
    <3>1. CASE n = 0
      BY <3>1
    <3>2. CASE n # 0
      BY <3>2, n - 1 \in Nat
    <3> QED BY <3>1, <3>2
  <2> HIDE DEF of, V, B
  <2>3. step[<<x, vs>>] = of(x, vs)
    BY <2>1, <2>2
  <2> QED BY <2>1, <2>2, <2>3, <1>1
<1>3. PICK f \in [Trees -> V[Depth + 4]] : Folds(f, step)
  <2> HIDE DEF step, V
  <2> QED BY <1>2, TreeRecursion
<1>4. f \in [Trees -> B]
  BY DepthAssumption, Depth + 4 \in Nat
<1>5. ASSUME NEW x \in Trees PROVE f[x] = At(f, x) /\ f[x] \in B
  <2> DEFINE vs == OfKids(f, x)
  <2>1. vs \in Seq(B)
    BY <1>4, OfKidsOfKinds
  <2>2. x.kind \in {"and", "or"} => ToSet(vs) = {f[x.items[i]] : i \in DOMAIN x.items}
    <3>1. x.kind \in {"and", "or"} => DOMAIN vs = DOMAIN x.items /\ \A i \in DOMAIN x.items : vs[i] = f[x.items[i]]
      BY <1>4, OfKidsOfKinds
    <3> HIDE DEF vs
    <3> QED BY <3>1 DEF ToSet
  <2>3. x.kind = "not" => vs[1] = f[x.item]
    BY <1>4, OfKidsOfKinds
  <2>4. f[x] = step[<<x, vs>>]
    BY <1>3 DEF Folds
  <2> HIDE DEF vs
  <2>5. f[x] = of(x, vs)
    <3> HIDE DEF of
    <3> QED BY <2>1, <2>4
  <2>6. of(x, vs) = At(f, x)
    BY <2>2, <2>3
  <2> HIDE DEF of, At
  <2> QED BY <1>4, <2>5, <2>6
<1>6. Is(f)
  <2> HIDE DEF At
  <2> QED BY <1>4, <1>5
<1> DEFINE h == CHOOSE g : Is(g)
<1>7. Is(h)
  <2> HIDE DEF Is
  <2> QED BY <1>6
<1>8. ASSUME NEW x PROVE PgEval(x, params, row) = h[x]
  BY DEF PgEval
<1> HIDE DEF h
<1>9. ASSUME NEW x \in Trees PROVE h[x] = At(h, x)
  <2> HIDE DEF At
  <2> QED BY <1>7
<1>10. \A x \in Trees : h[x] \in B
  <2> DEFINE S == {x \in Trees : h[x] \in B}
  <2>1. ASSUME NEW x \in Trees, \A i \in DOMAIN Kids(x) : Kids(x)[i] \in S PROVE x \in S
    <3>1. CASE x.kind \in {"and", "or"}
      <4> DEFINE parts == {h[x.items[i]] : i \in DOMAIN x.items}
      <4>1. parts \in SUBSET B
        BY <2>1, <3>1, KidsOfKinds
      <4>2. h[x] = PgAnd(parts) \/ h[x] = PgOr(parts)
        BY <1>9, <3>1
      <4> HIDE DEF parts
      <4> QED BY <4>1, <4>2, PgAndOr
    <3>2. CASE x.kind = "not"
      <4>1. h[x.item] \in B
        BY <2>1, <3>2, KidsOfKinds
      <4>2. h[x] = 2 - h[x.item]
        BY <1>9, <3>2
      <4> QED BY <4>1, <4>2
    <3>3. CASE x.kind \notin {"and", "or", "not"}
      <4>1. h[x] \in {2, 0, PgLeaf(x, params, row)}
        BY <1>9, <3>3
      <4> QED BY <4>1, PgLeafIs
    <3> QED BY <3>1, <3>2, <3>3
  <2> HIDE DEF S
  <2>2. Trees \subseteq S
    BY <2>1, TreeInduction
  <2> QED BY <2>2 DEF S
<1>11. h[c] \in B
  BY <1>10
<1>12. CASE c.kind \in {"and", "or"}
  <2> DEFINE parts == {h[c.items[i]] : i \in DOMAIN c.items}
  <2>1. \A i \in DOMAIN c.items : h[c.items[i]] \in B
    BY <1>10, <1>12, KidsOfKinds
  <2>2. parts \in SUBSET B
    BY <2>1
  <2>3. c.kind = "and" => h[c] = PgAnd(parts)
    BY <1>9
  <2>4. c.kind = "or" => h[c] = PgOr(parts)
    BY <1>9
  <2>5. /\ parts \subseteq {2} <=> \A i \in DOMAIN c.items : h[c.items[i]] = 2
        /\ parts \subseteq {0} <=> \A i \in DOMAIN c.items : h[c.items[i]] = 0
        /\ 2 \in parts <=> \E i \in DOMAIN c.items : h[c.items[i]] = 2
        /\ 0 \in parts <=> \E i \in DOMAIN c.items : h[c.items[i]] = 0
    OBVIOUS
  <2> HIDE DEF parts, At, Is
  <2>6. c.kind = "and" => (h[c] = 2 <=> \A i \in DOMAIN c.items : h[c.items[i]] = 2)
                          /\ (h[c] = 0 <=> \E i \in DOMAIN c.items : h[c.items[i]] = 0)
    BY <2>2, <2>3, <2>5, PgAndOr
  <2>7. c.kind = "or" => (h[c] = 2 <=> \E i \in DOMAIN c.items : h[c.items[i]] = 2)
                         /\ (h[c] = 0 <=> \A i \in DOMAIN c.items : h[c.items[i]] = 0)
    BY <2>2, <2>4, <2>5, PgAndOr
  <2> QED BY <1>8, <1>11, <1>12, <2>6, <2>7
<1>13. CASE c.kind \notin {"and", "or"}
  <2>1. /\ c.kind = "true" => h[c] = 2
        /\ c.kind = "false" => h[c] = 0
        /\ c.kind = "not" => h[c] = 2 - h[c.item]
        /\ c.kind = "sql" => h[c] = PgLeaf(c, params, row)
    BY <1>9
  <2> QED BY <1>8, <1>11, <1>13, <2>1
<1> QED BY <1>12, <1>13

Column(row, k) == IF k \in DOMAIN row THEN row[k] ELSE Null

(* What PostgreSQL says of a test, when the column it is of holds value. *)
Tested(x, value) ==
  CASE x.kind = "cmp" -> PgOr({PgTest(x.op, value, x.value)})
    [] x.kind = "in" -> PgOr({PgTest("Eq", value, x.values[i]) : i \in DOMAIN x.values})
    [] x.kind = "between" -> PgAnd({PgTest("Ge", value, x.lo), PgTest("Le", value, x.hi)})

(* A test sees its own values, wherever its placeholders start. *)
LEMMA TestSays ==
  ASSUME NEW x \in Atoms, NEW n \in Nat, NEW res, Range(res.bindings) \subseteq STRING, NEW row,
         NEW P, NEW o \in Nat, n = o + 1, EmitTest(x, n, res).ok, Within(o, EmitTest(x, n, res).params, P)
  PROVE  /\ x.kind \in {"cmp", "in", "between"}
         /\ PgEval(EmitTest(x, n, res).sql, P, row) =
              Tested(x, Column(row, Phys(x.field, res)))
<1> DEFINE e == EmitTest(x, n, res)
           value == Column(row, Phys(x.field, res))
           leaf(op, vs) == [kind |-> "sql", column |-> Phys(x.field, res), op |-> op, at |-> Placeholders(n, vs)]
           both(q, vs) == {PgTest(q, value, vs[i]) : i \in DOMAIN vs}
           range(vs) == {PgTest("Ge", value, vs[1]), PgTest("Le", value, vs[2])}
<1>1. \A l \in SqlTests \cup {False} : l \in Trees
  BY LeavesAreTrees, DepthAssumption, Depth + 4 \in 0..(Depth + 4) DEF Leaves, Constants, Trees
<1>2. e \in Results(SqlTests \cup {False}) /\ e.ok
  BY EmitTestIs
<1>3. ASSUME NEW op, NEW vs \in Seq(Value), e = Emitted(leaf(op, vs), vs), op = "BETWEEN" => Len(vs) = 2
      PROVE  PgEval(e.sql, P, row) =
               IF op = "IN" THEN PgOr(both("Eq", vs)) ELSE IF op = "BETWEEN" THEN PgAnd(range(vs)) ELSE PgOr(both(op, vs))
  <2> DEFINE l == leaf(op, vs)
             tests(q) == {PgTest(q, value, P[l.at[i]]) : i \in DOMAIN l.at}
             ends == {PgTest("Ge", value, P[l.at[1]]), PgTest("Le", value, P[l.at[2]])}
  <2>1. e.sql = l /\ e.params = vs
    BY <1>3 DEF Emitted
  <2>2. l \in Trees
    BY <1>1, <1>2, <2>1, ResultsAre
  <2>3. l.kind = "sql" /\ l.column = Phys(x.field, res) /\ l.op = op /\ l.at = Placeholders(n, vs)
    OBVIOUS
  <2>4. DOMAIN l.at = DOMAIN vs /\ \A i \in DOMAIN vs : l.at[i] = o + i
    BY <2>3 DEF Placeholders
  <2>5. \A i \in DOMAIN vs : P[o + i] = vs[i]
    BY <2>1 DEF Within
  <2> HIDE DEF l
  <2>6. \A i \in DOMAIN vs : P[l.at[i]] = vs[i]
    BY <2>4, <2>5
  <2>7. \A q : tests(q) = both(q, vs)
    BY <2>4, <2>6
  <2>8. op = "BETWEEN" => ends = range(vs)
    <3> SUFFICES ASSUME op = "BETWEEN" PROVE ends = range(vs)
      OBVIOUS
    <3>1. 1 \in DOMAIN vs /\ 2 \in DOMAIN vs
      BY <1>3
    <3> QED BY <2>6, <3>1
  <2>9. PgLeaf(l, P, row) =
          IF op = "IN" THEN PgOr(tests("Eq")) ELSE IF op = "BETWEEN" THEN PgAnd(ends) ELSE PgOr(tests(op))
    BY <2>3 DEF PgLeaf, Column
  <2>10. PgEval(l, P, row) = PgLeaf(l, P, row)
    BY <2>2, <2>3, PgEvalDef
  <2> HIDE DEF tests, both, ends, range, e
  <2> QED BY <2>1, <2>7, <2>8, <2>9, <2>10
<1>4. x.kind # "relation" /\ x.field \in AllowFields(res)
  <2>1. e # Failed
    BY <1>2 DEF Failed
  <2> QED BY <2>1, EmitTestIs
<1>5. CASE x.kind = "cmp"
  <2>1. e = Emitted(leaf(x.op, <<x.value>>), <<x.value>>)
    BY <1>4, <1>5 DEF EmitTest
  <2>2. <<x.value>> \in Seq(Value) /\ x.op \notin {"IN", "BETWEEN"}
    BY <1>5, AtomsAre DEF Ops
  <2>3. both(x.op, <<x.value>>) = {PgTest(x.op, value, x.value)}
    OBVIOUS
  <2>4. Tested(x, value) = PgOr({PgTest(x.op, value, x.value)})
    BY <1>5 DEF Tested
  <2> HIDE DEF e, leaf, both, range, value
  <2>5. PgEval(e.sql, P, row) = PgOr(both(x.op, <<x.value>>))
    BY <1>3, <2>1, <2>2
  <2> QED BY <1>5, <2>3, <2>4, <2>5 DEF e, value
<1>6. CASE x.kind = "between"
  <2>1. e = Emitted(leaf("BETWEEN", <<x.lo, x.hi>>), <<x.lo, x.hi>>)
    BY <1>4, <1>6 DEF EmitTest
  <2>2. <<x.lo, x.hi>> \in Seq(Value) /\ Len(<<x.lo, x.hi>>) = 2
    BY <1>6, AtomsAre
  <2>3. range(<<x.lo, x.hi>>) = {PgTest("Ge", value, x.lo), PgTest("Le", value, x.hi)}
    OBVIOUS
  <2>4. Tested(x, value) = PgAnd({PgTest("Ge", value, x.lo), PgTest("Le", value, x.hi)})
    BY <1>6 DEF Tested
  <2> HIDE DEF e, leaf, both, range, value
  <2>5. PgEval(e.sql, P, row) = PgAnd(range(<<x.lo, x.hi>>))
    BY <1>3, <2>1, <2>2
  <2> QED BY <1>6, <2>3, <2>4, <2>5 DEF e, value
<1>7. CASE x.kind = "in" /\ x.values # << >>
  <2>1. e = Emitted(leaf("IN", x.values), x.values)
    BY <1>4, <1>7 DEF EmitTest
  <2>2. x.values \in Seq(Value)
    BY <1>7, AtomsAre
  <2>3. Tested(x, value) = PgOr(both("Eq", x.values))
    BY <1>7 DEF Tested
  <2> HIDE DEF e, leaf, both, range, value
  <2>4. PgEval(e.sql, P, row) = PgOr(both("Eq", x.values))
    BY <1>3, <2>1, <2>2
  <2> QED BY <1>7, <2>3, <2>4 DEF e, value
<1>8. CASE x.kind = "in" /\ x.values = << >>
  <2>1. e = Emitted(False, << >>)
    BY <1>4, <1>8 DEF EmitTest
  <2>2. e.sql = False /\ False \in Trees /\ False.kind = "false"
    BY <1>1, <2>1 DEF Emitted, False
  <2>3. Tested(x, value) = PgOr({})
    <3>1. both("Eq", x.values) = {}
      BY <1>8
    <3>2. Tested(x, value) = PgOr(both("Eq", x.values))
      BY <1>8 DEF Tested
    <3> QED BY <3>1, <3>2
  <2>4. PgOr({}) = 0
    BY DEF PgOr
  <2> HIDE DEF e, value
  <2>5. PgEval(e.sql, P, row) = 0
    BY <2>2, PgEvalDef
  <2> QED BY <1>8, <2>3, <2>4, <2>5 DEF e, value
<1> QED BY <1>4, <1>5, <1>6, <1>7, <1>8, AtomsAre

(* What a constraint is compiled to, from what its parts are. *)
EmittedFrom(x, m, f, res) ==
  LET joined == Join([i \in DOMAIN x.items |-> f[x.items[i]]], m)
  IN /\ x.kind \in {"and", "or"} =>
          f[x][m] = IF x.items = << >> THEN Emitted(True, << >>)
                    ELSE IF joined.ok THEN Emitted([x EXCEPT !.items = joined.sql], joined.params) ELSE Failed
     /\ x.kind = "not" => f[x][m] = IF f[x.item][m].ok THEN Emitted(Negation(f[x.item][m].sql), f[x.item][m].params)
                                    ELSE Failed
     /\ x \in Atoms => f[x][m] = EmitTest(x, m, res)
     /\ x.kind \notin {"and", "or", "not"} /\ x \notin Atoms => f[x][m] = Emitted(x, << >>)

LEMMA AlikeCompare ==
  ASSUME NEW u \in Value, NEW v \in Value, Alike(u, v)
  PROVE  /\ Null \notin {u, v}
         /\ JsonEq(u, v) <=> PgEq(u, v)
         /\ JsonEq(v, u) <=> PgEq(u, v)
         /\ \A op \in {"Lt", "Le", "Gt", "Ge"} : CmpApply(op, u, v) <=> PgCompare(op, u, v)
         /\ IsNum(u) => (PgCompare("Ge", u, v) <=> v.num <= u.num) /\ (PgCompare("Le", u, v) <=> u.num <= v.num)
<1>1. /\ u.type \in {"string", "number"} /\ v.type \in {"string", "number"}
      /\ u = [type |-> u.type, text |-> u.text, num |-> u.num] /\ v = [type |-> v.type, text |-> v.text, num |-> v.num]
      /\ u.text \in Int /\ v.text \in Int /\ u.num \in Int /\ v.num \in Int
  BY DEF Alike, Value
<1>2. Null \notin {u, v}
  BY <1>1 DEF Null
<1>3. (JsonEq(u, v) <=> PgEq(u, v)) /\ (JsonEq(v, u) <=> PgEq(u, v))
  BY <1>1 DEF Alike, JsonEq, PgEq, IsNum
<1>4. ASSUME NEW op \in {"Lt", "Le", "Gt", "Ge"} PROVE CmpApply(op, u, v) <=> PgCompare(op, u, v)
  <2> DEFINE numbers == Ordered(op, u.num, v.num)
             texts == Ordered(op, u.text, v.text)
  <2>1. CmpApply(op, u, v) = IF IsNum(u) /\ IsNum(v) THEN numbers ELSE IsString(u) /\ IsString(v) /\ texts
    BY DEF CmpApply
  <2>2. PgCompare(op, u, v) = IF u.type = "number" /\ v.type = "number" THEN numbers ELSE texts
    BY DEF PgCompare
  <2>3. CASE IsNum(u) /\ "string" \in {u.type, v.type}
    <3>1. numbers <=> texts
      BY <1>1, <2>3 DEF Alike, Ordered
    <3> HIDE DEF numbers, texts
    <3> QED BY <1>1, <2>1, <2>2, <2>3, <3>1 DEF Alike
  <2>4. CASE ~ IsNum(u) \/ "string" \notin {u.type, v.type}
    <3> HIDE DEF numbers, texts
    <3> QED BY <1>1, <2>1, <2>2, <2>4 DEF Alike, IsString
  <2> QED BY <2>3, <2>4
<1>5. ASSUME IsNum(u)
      PROVE  (PgCompare("Ge", u, v) <=> v.num <= u.num) /\ (PgCompare("Le", u, v) <=> u.num <= v.num)
  <2>1. CmpApply("Ge", u, v) = Ordered("Ge", u.num, v.num) /\ CmpApply("Le", u, v) = Ordered("Le", u.num, v.num)
    BY <1>5 DEF CmpApply, Alike
  <2>2. (Ordered("Ge", u.num, v.num) <=> u.num >= v.num) /\ (Ordered("Le", u.num, v.num) <=> u.num <= v.num)
    BY DEF Ordered
  <2> QED BY <1>1, <1>4, <2>1, <2>2
<1> QED BY <1>2, <1>3, <1>4, <1>5

(* The tests a row passes, as EsMatches has them. *)
EsPassing(row) ==
  [x \in Atoms |->
    LET has(op, value) == x.field \in DOMAIN row /\ EsTest(op, row[x.field], value) IN
    \/ x.kind = "in" /\ \E i \in DOMAIN x.values : has("Eq", x.values[i])
    \/ x.kind = "between" /\ has("Ge", x.lo) /\ has("Le", x.hi)
    \/ x.kind = "cmp" /\ IF x.op = "Ne" THEN ~has("Eq", x.value) ELSE has(x.op, x.value)]

(***************************************************************************)
(* A comparable test is passed by the same rows in the row filter, in      *)
(* Elasticsearch and in PostgreSQL, where it is never unknown.             *)
(***************************************************************************)
LEMMA ComparableAgree ==
  ASSUME NEW x \in Atoms, x.kind # "relation", NEW res, NEW row, row[x.field] \in Value, Comparable(x, res, row)
  PROVE  /\ EsPassing(row)[x] <=> Passing(row)[x]
         /\ Tested(x, row[x.field]) = Truth(Passing(row)[x])
<1> DEFINE value == row[x.field]
           has(op, v) == x.field \in DOMAIN row /\ EsTest(op, row[x.field], v)
<1>1. x.field \in DOMAIN row /\ value \in Value
  BY DEF Comparable
<1>2. Passing(row)[x] <=> TestKeeps(x, value)
  BY <1>1 DEF Passing
<1>3. ASSUME NEW v, Null \notin {value, v}, NEW op
      PROVE  (has(op, v) <=> PgCompare(op, value, v)) /\ PgTest(op, value, v) = Truth(PgCompare(op, value, v))
  BY <1>1, <1>3 DEF EsTest, PgTest
<1>4. \A v : PgCompare("Eq", value, v) = PgEq(value, v) /\ (PgCompare("Ne", value, v) <=> ~ PgEq(value, v))
  BY DEF PgCompare
<1>5. \A t : PgOr({Truth(t)}) = Truth(t)
  BY DEF PgOr, Truth
<1>6. CASE x.kind = "cmp"
  <2> DEFINE v == x.value
  <2>1. v \in Value /\ Alike(value, v) /\ x.op \in Ops /\ (x.op = "Like" => IsString(value) /\ IsString(v))
    BY <1>6, AtomsAre DEF Comparable
  <2>2. EsPassing(row)[x] <=> IF x.op = "Ne" THEN ~ has("Eq", v) ELSE has(x.op, v)
    BY <1>6 DEF EsPassing
  <2>3. TestKeeps(x, value) = CmpApply(x.op, value, v)
    BY <1>6 DEF TestKeeps
  <2>4. Tested(x, value) = PgOr({PgTest(x.op, value, v)})
    BY <1>6 DEF Tested
  <2> HIDE DEF value, has, v
  <2>5. Null \notin {value, v} /\ (JsonEq(value, v) <=> PgEq(value, v))
    BY <1>1, <2>1, AlikeCompare
  <2>6. CmpApply(x.op, value, v) <=> PgCompare(x.op, value, v)
    <3>1. CASE x.op \in {"Lt", "Le", "Gt", "Ge"}
      BY <1>1, <2>1, <3>1, AlikeCompare
    <3>2. CASE x.op \in {"Eq", "Ne"}
      BY <2>5, <3>2 DEF CmpApply, PgCompare
    <3>3. CASE x.op = "Like"
      BY <2>1, <3>3 DEF CmpApply, PgCompare
    <3> QED BY <2>1, <3>1, <3>2, <3>3 DEF Ops
  <2>7. EsPassing(row)[x] <=> PgCompare(x.op, value, v)
    BY <1>3, <1>4, <2>2, <2>5
  <2>8. Tested(x, value) = Truth(PgCompare(x.op, value, v))
    BY <1>3, <1>5, <2>4, <2>5
  <2> QED BY <1>2, <2>3, <2>6, <2>7, <2>8 DEF value, Truth
<1>7. CASE x.kind = "in"
  <2> DEFINE v(i) == x.values[i]
             all == {PgTest("Eq", value, x.values[i]) : i \in DOMAIN x.values}
  <2>1. \A i \in DOMAIN x.values : v(i) \in Value /\ Alike(value, v(i))
    BY <1>7, AtomsAre DEF Comparable
  <2>2. EsPassing(row)[x] <=> \E i \in DOMAIN x.values : has("Eq", v(i))
    BY <1>7 DEF EsPassing
  <2>3. TestKeeps(x, value) <=> \E i \in DOMAIN x.values : JsonEq(v(i), value)
    BY <1>7 DEF TestKeeps
  <2>4. Tested(x, value) = PgOr(all)
    BY <1>7 DEF Tested
  <2>5. all = {PgTest("Eq", value, v(i)) : i \in DOMAIN x.values}
    OBVIOUS
  <2> HIDE DEF value, has, v, all
  <2>6. ASSUME NEW i \in DOMAIN x.values
        PROVE  (JsonEq(v(i), value) <=> PgEq(value, v(i))) /\ (has("Eq", v(i)) <=> PgEq(value, v(i)))
               /\ PgTest("Eq", value, v(i)) = Truth(PgEq(value, v(i)))
    BY <1>1, <1>3, <1>4, <2>1, AlikeCompare
  <2>7. all \in SUBSET {0, 1, 2} /\ (2 \in all <=> \E i \in DOMAIN x.values : PgEq(value, v(i))) /\ 1 \notin all
    BY <2>5, <2>6 DEF Truth
  <2>8. PgOr(all) = Truth(\E i \in DOMAIN x.values : PgEq(value, v(i)))
    BY <2>7 DEF PgOr, Truth
  <2> QED BY <1>2, <2>2, <2>3, <2>4, <2>6, <2>8 DEF value, Truth
<1>8. CASE x.kind = "between"
  <2> DEFINE lo == x.lo
             hi == x.hi
  <2>1. lo \in Value /\ hi \in Value /\ Alike(value, lo) /\ Alike(value, hi) /\ IsNum(value)
    BY <1>8, AtomsAre DEF Comparable
  <2>2. EsPassing(row)[x] <=> has("Ge", lo) /\ has("Le", hi)
    BY <1>8 DEF EsPassing
  <2>3. TestKeeps(x, value) <=> (\A u \in {value, lo, hi} : IsNum(u)) /\ lo.num <= value.num /\ value.num <= hi.num
    BY <1>8 DEF TestKeeps
  <2>4. Tested(x, value) = PgAnd({PgTest("Ge", value, lo), PgTest("Le", value, hi)})
    BY <1>8 DEF Tested
  <2>5. IsNum(lo) /\ IsNum(hi)
    BY <2>1 DEF Alike
  <2> HIDE DEF value, has, lo, hi
  <2>6. Null \notin {value, lo} /\ Null \notin {value, hi}
        /\ (PgCompare("Ge", value, lo) <=> lo.num <= value.num) /\ (PgCompare("Le", value, hi) <=> value.num <= hi.num)
    BY <1>1, <2>1, AlikeCompare
  <2>7. (has("Ge", lo) <=> PgCompare("Ge", value, lo)) /\ (has("Le", hi) <=> PgCompare("Le", value, hi))
        /\ PgTest("Ge", value, lo) = Truth(PgCompare("Ge", value, lo))
        /\ PgTest("Le", value, hi) = Truth(PgCompare("Le", value, hi))
    BY <1>3, <2>6
  <2>8. Tested(x, value) = Truth(PgCompare("Ge", value, lo) /\ PgCompare("Le", value, hi))
    BY <2>4, <2>7 DEF PgAnd, Truth
  <2>9. TestKeeps(x, value) <=> PgCompare("Ge", value, lo) /\ PgCompare("Le", value, hi)
    <3>1. \A u \in {value, lo, hi} : IsNum(u)
      BY <2>1, <2>5
    <3> QED BY <2>3, <2>6, <3>1
  <2>10. Truth(PgCompare("Ge", value, lo) /\ PgCompare("Le", value, hi)) = Truth(Passing(row)[x])
    BY <1>2, <2>9 DEF Truth
  <2> QED BY <1>2, <2>2, <2>7, <2>8, <2>9, <2>10 DEF value
<1> QED BY <1>6, <1>7, <1>8, AtomsAre

LEMMA EmitDef ==
  ASSUME NEW res, Range(res.bindings) \subseteq STRING
  PROVE  \E f \in [Trees -> [Nat -> Results(Trees)]] :
           /\ \A c, n : Emit(c, n, res) = f[c][n]
           /\ \A l \in 0..(Depth + 4) : \A c \in Tree(Leaves, l) : f[c] \in [Nat -> Results(Tree(Leaves, l))]
           /\ \A c \in Trees, m \in Nat : EmittedFrom(c, m, f, res)
<1> DEFINE body(f, x, m) ==
             CASE x.kind \in {"and", "or"} ->
                    LET joined == Join([i \in DOMAIN x.items |-> f[x.items[i]]], m) IN
                    IF x.items = << >> THEN Emitted(True, << >>)
                    ELSE IF joined.ok THEN Emitted([x EXCEPT !.items = joined.sql], joined.params) ELSE Failed
               [] x.kind = "not" -> LET e == f[x.item][m] IN
                                    IF e.ok THEN Emitted(Negation(e.sql), e.params) ELSE Failed
               [] x \in Atoms -> EmitTest(x, m, res)
               [] OTHER -> Emitted(x, << >>)
           At(f, x) == [m \in Nat |-> body(f, x, m)]
           Is(f) == f = [x \in Trees |-> At(f, x)]
           of(x, vs, m) ==
             IF x.kind \in {"and", "or"}
             THEN IF x.items = << >> THEN Emitted(True, << >>)
                  ELSE IF Join(vs, m).ok THEN Emitted([x EXCEPT !.items = Join(vs, m).sql], Join(vs, m).params) ELSE Failed
             ELSE IF x.kind = "not"
             THEN IF vs[1][m].ok THEN Emitted(Negation(vs[1][m].sql), vs[1][m].params) ELSE Failed
             ELSE IF x \in Atoms THEN EmitTest(x, m, res) ELSE Emitted(x, << >>)
           all(x, vs) == [m \in Nat |-> of(x, vs, m)]
           R(n) == [Nat -> Results(Tree(Leaves, n))]
           W == [Nat -> Results(Trees)]
           step == [p \in Trees \X Seq(W) |-> all(p[1], p[2])]
           V == [n \in Nat |-> R(n)]
<1>1. ASSUME NEW X, NEW Y, X \subseteq Y PROVE [Nat -> Results(X)] \subseteq [Nat -> Results(Y)]
  BY <1>1 DEF Results
<1>2. ASSUME NEW n \in 0..(Depth + 4), NEW x \in Tree(Leaves, n), NEW m \in Nat,
             NEW vs \in Seq(IF n = 0 THEN {} ELSE R(n - 1)), Len(vs) = Len(Kids(x))
      PROVE  of(x, vs, m) \in Results(Tree(Leaves, n))
  <2> DEFINE T == Tree(Leaves, n)
  <2>1. n \in Nat /\ Leaves \subseteq T /\ x \in Trees
    BY LeavesAreTrees, Levels
  <2>2. True \in T /\ << >> \in Seq(Value)
    <3>1. True \in Leaves
      BY DEF Leaves, Constants
    <3> HIDE DEF T
    <3> QED BY <2>1, <3>1
  <2>3. CASE x.kind \in {"and", "or"}
    <3>1. n # 0
      BY <2>1, <2>3, Nodes DEF LeafKinds
    <3> DEFINE l == n - 1
               U == Tree(Leaves, l)
               j == Join(vs, m)
    <3>2. l \in Nat /\ l + 1 = n /\ vs \in Seq([Nat -> Results(U)])
      BY <2>1, <3>1
    <3> HIDE DEF l
    <3>3. T = Over(Leaves, U)
      <4>1. Tree(Leaves, l + 1) = Over(Leaves, Tree(Leaves, l))
        BY <3>2, TreeDef
      <4> QED BY <3>2, <4>1
    <3> HIDE DEF U
    <3>4. j \in Results(Seq(U))
      BY <3>2, JoinDef
    <3> HIDE DEF j
    <3>5. CASE x.items # << >> /\ j.ok
      <4>1. j.sql \in Seq(U) /\ j.params \in Seq(Value)
        BY <3>4, <3>5, ResultsAre
      <4>2. x = [kind |-> x.kind, items |-> x.items]
        BY <2>1, <2>3, Nodes DEF LeafKinds
      <4>3. [x EXCEPT !.items = j.sql] = [kind |-> x.kind, items |-> j.sql]
        BY <4>2
      <4>4. [x EXCEPT !.items = j.sql] \in T
        BY <2>3, <3>3, <4>1, <4>3 DEF Over
      <4>5. of(x, vs, m) = Emitted([x EXCEPT !.items = j.sql], j.params)
        BY <2>3, <3>5 DEF j
      <4> HIDE DEF of, T
      <4> QED BY <4>1, <4>4, <4>5, EmittedResults DEF T
    <3>6. CASE x.items = << >>
      <4>1. of(x, vs, m) = Emitted(True, << >>)
        BY <2>3, <3>6
      <4> HIDE DEF of
      <4> QED BY <2>2, <4>1, EmittedResults
    <3>7. CASE x.items # << >> /\ ~ j.ok
      <4>1. of(x, vs, m) = Failed
        BY <2>3, <3>7 DEF j
      <4> HIDE DEF of
      <4> QED BY <4>1 DEF Results
    <3> QED BY <3>5, <3>6, <3>7
  <2>4. CASE x.kind = "not"
    <3>1. n # 0 /\ Kids(x) = <<x.item>>
      BY <2>1, <2>4, Nodes DEF LeafKinds
    <3>a. Len(Kids(x)) = 1
      BY <3>1
    <3> DEFINE l == n - 1
               U == Tree(Leaves, l)
               F == [Nat -> Results(U)]
               e == vs[1][m]
    <3>2. l \in Nat /\ l + 1 = n /\ vs \in Seq(F) /\ Len(vs) = 1
      BY <1>2, <2>1, <3>1, <3>a
    <3> HIDE DEF l
    <3>3. T = Over(Leaves, U)
      <4>1. Tree(Leaves, l + 1) = Over(Leaves, Tree(Leaves, l))
        BY <3>2, TreeDef
      <4> QED BY <3>2, <4>1
    <3> HIDE DEF U
    <3>4. vs[1] \in F
      <4> HIDE DEF F
      <4> QED BY <3>2, OneItem
    <3>5. e \in Results(U)
      BY <3>4
    <3> HIDE DEF e
    <3>6. CASE e.ok
      <4>1. e.sql \in U /\ e.params \in Seq(Value)
        BY <3>5, <3>6, ResultsAre
      <4>2. Negation(e.sql) \in T
        BY <3>3, <4>1 DEF Over, Negation
      <4>3. of(x, vs, m) = Emitted(Negation(e.sql), e.params)
        BY <2>4, <3>6 DEF e
      <4> HIDE DEF of, T
      <4> QED BY <4>1, <4>2, <4>3, EmittedResults DEF T
    <3>7. CASE ~ e.ok
      <4>1. of(x, vs, m) = Failed
        BY <2>4, <3>7 DEF e
      <4> HIDE DEF of
      <4> QED BY <4>1 DEF Results
    <3> QED BY <3>6, <3>7
  <2>5. CASE x.kind \notin {"and", "or", "not"} /\ x \in Atoms
    <3>1. of(x, vs, m) = EmitTest(x, m, res)
      BY <2>5
    <3>2. EmitTest(x, m, res) \in Results(SqlTests \cup {False})
      BY <2>5, EmitTestIs
    <3>3. SqlTests \cup {False} \subseteq T
      BY <2>1 DEF Leaves, Constants
    <3> HIDE DEF of, T
    <3>4. Results(SqlTests \cup {False}) \subseteq Results(T)
      BY <3>3 DEF Results
    <3> QED BY <3>1, <3>2, <3>4 DEF T
  <2>6. CASE x.kind \notin {"and", "or", "not"} /\ x \notin Atoms
    <3>1. of(x, vs, m) = Emitted(x, << >>)
      BY <2>6
    <3> HIDE DEF of
    <3> QED BY <2>2, <3>1, EmittedResults
  <2> QED BY <2>3, <2>4, <2>5, <2>6
<1>3. KeepsTo(step, V)
  <2> SUFFICES ASSUME NEW n \in 0..(Depth + 4), NEW x \in Tree(Leaves, n),
                      NEW vs \in Seq(IF n = 0 THEN {} ELSE V[n - 1]), Len(vs) = Len(Kids(x))
               PROVE  step[<<x, vs>>] \in V[n]
    BY DEF KeepsTo
  <2>1. x \in Trees /\ V[n] = R(n)
    BY Levels
  <2>2. n # 0 => n - 1 \in 0..(Depth + 4) /\ V[n - 1] = R(n - 1)
    BY DepthAssumption
  <2> HIDE DEF V, R
  <2>3. vs \in Seq(IF n = 0 THEN {} ELSE R(n - 1))
    BY <2>2
  <2>4. n # 0 => R(n - 1) \subseteq W
    BY <1>1, <2>2, Levels DEF R
  <2> HIDE DEF W
  <2>5. vs \in Seq(W)
    <3>1. (IF n = 0 THEN {} ELSE R(n - 1)) \subseteq W
      BY <2>4
    <3> QED BY <2>3, <3>1, SeqMonotone
  <2> HIDE DEF all
  <2>6. step[<<x, vs>>] = all(x, vs)
    BY <2>1, <2>5
  <2>7. all(x, vs) \in R(n)
    <3> HIDE DEF of
    <3>1. \A m \in Nat : of(x, vs, m) \in Results(Tree(Leaves, n))
      BY <1>2, <2>3 DEF R
    <3> QED BY <3>1 DEF all, R
  <2> QED BY <2>1, <2>6, <2>7
<1>4. PICK f \in [Trees -> V[Depth + 4]] : Folds(f, step) /\ Graded(f, V)
  <2> HIDE DEF step, V
  <2> QED BY <1>3, TreeRecursion
<1>5. f \in [Trees -> W]
  BY <1>4, DepthAssumption, Depth + 4 \in Nat DEF Trees
<1>6. ASSUME NEW x \in Trees, NEW g, NEW Z, g \in [Trees -> Z], NEW m
      PROVE  body(g, x, m) = of(x, OfKids(g, x), m)
  <2> DEFINE vs == OfKids(g, x)
             lit == [i \in DOMAIN x.items |-> g[x.items[i]]]
             both(v) == IF x.items = << >> THEN Emitted(True, << >>)
                        ELSE IF Join(v, m).ok THEN Emitted([x EXCEPT !.items = Join(v, m).sql], Join(v, m).params)
                        ELSE Failed
             one(e) == IF e.ok THEN Emitted(Negation(e.sql), e.params) ELSE Failed
  <2>0. x \in Atoms => x.kind \notin {"and", "or", "not"}
    BY AtomsAre
  <2>1. CASE x.kind \in {"and", "or"}
    <3>1. vs = lit
      BY <2>1, KidsOfKinds DEF OfKids
    <3>2. body(g, x, m) = both(lit)
      BY <2>0, <2>1
    <3>3. of(x, vs, m) = both(vs)
      BY <2>1
    <3> HIDE DEF body, of, both, vs, lit
    <3> QED BY <3>1, <3>2, <3>3 DEF vs
  <2>2. CASE x.kind = "not"
    <3>1. vs[1] = g[x.item]
      BY <1>6, <2>2, OfKidsOfKinds
    <3>2. body(g, x, m) = one(g[x.item][m])
      BY <2>0, <2>2
    <3>3. of(x, vs, m) = one(vs[1][m])
      BY <2>2
    <3> HIDE DEF body, of, one, vs
    <3> QED BY <3>1, <3>2, <3>3 DEF vs
  <2>3. CASE x.kind \notin {"and", "or", "not"}
    <3>1. body(g, x, m) = IF x \in Atoms THEN EmitTest(x, m, res) ELSE Emitted(x, << >>)
      BY <2>3
    <3> HIDE DEF body
    <3> QED BY <2>3, <3>1
  <2> QED BY <2>1, <2>2, <2>3
<1>7. ASSUME NEW x \in Trees PROVE f[x] = At(f, x)
  <2> DEFINE vs == OfKids(f, x)
  <2>1. vs \in Seq(W)
    BY <1>5, OfKidsOfKinds
  <2>2. f[x] = step[<<x, vs>>]
    BY <1>4 DEF Folds
  <2> HIDE DEF vs, all
  <2>3. f[x] = all(x, vs)
    BY <2>1, <2>2
  <2> HIDE DEF of, body
  <2>4. \A m \in Nat : body(f, x, m) = of(x, vs, m)
    BY <1>5, <1>6 DEF vs
  <2> QED BY <2>3, <2>4 DEF all
<1>8. Is(f)
  <2> HIDE DEF At
  <2> QED BY <1>5, <1>7
<1> DEFINE h == CHOOSE g : Is(g)
<1>9. Is(h)
  <2> HIDE DEF Is
  <2> QED BY <1>8
<1>10. ASSUME NEW x, NEW n PROVE Emit(x, n, res) = h[x][n]
  BY DEF Emit
<1> HIDE DEF h
<1> DEFINE Z == {h[x] : x \in Trees}
<1>11. h \in [Trees -> Z] /\ \A x \in Trees : h[x] = At(h, x)
  <2> HIDE DEF At
  <2> QED BY <1>9
<1> HIDE DEF Z
<1>12. \A x \in Trees : h[x] = f[x]
  <2> DEFINE S == {x \in Trees : h[x] = f[x]}
  <2>1. ASSUME NEW x \in Trees, \A i \in DOMAIN Kids(x) : Kids(x)[i] \in S PROVE x \in S
    <3>1. OfKids(h, x) = OfKids(f, x)
      BY <2>1 DEF OfKids
    <3> HIDE DEF of, body
    <3>2. \A m \in Nat : body(h, x, m) = of(x, OfKids(h, x), m)
      BY <1>6, <1>11
    <3>3. \A m \in Nat : body(f, x, m) = of(x, OfKids(f, x), m)
      BY <1>6, <1>5
    <3>4. At(h, x) = At(f, x)
      BY <3>1, <3>2, <3>3
    <3> HIDE DEF At
    <3> QED BY <1>7, <1>11, <3>4
  <2> HIDE DEF S
  <2>2. Trees \subseteq S
    BY <2>1, TreeInduction
  <2> QED BY <2>2 DEF S
<1> HIDE DEF At
<1>13. h = f
  BY <1>5, <1>11, <1>12
<1>14. ASSUME NEW l \in 0..(Depth + 4), NEW c \in Tree(Leaves, l) PROVE f[c] \in [Nat -> Results(Tree(Leaves, l))]
  <2>1. f[c] \in V[l] /\ l \in Nat
    BY <1>4 DEF Graded
  <2> QED BY <2>1
<1>15. ASSUME NEW c \in Trees, NEW m \in Nat PROVE EmittedFrom(c, m, f, res)
  <2>1. f[c][m] = body(f, c, m)
    <3>1. f[c] = At(f, c)
      BY <1>7
    <3> HIDE DEF body
    <3> QED BY <3>1 DEF At
  <2>2. c \in Atoms => c.kind \notin {"and", "or", "not"}
    BY AtomsAre
  <2>3. CASE c.kind \in {"and", "or"}
    BY <2>1, <2>2, <2>3 DEF EmittedFrom
  <2>4. CASE c.kind = "not"
    BY <2>1, <2>2, <2>4 DEF EmittedFrom
  <2>5. CASE c.kind \notin {"and", "or", "not"}
    BY <2>1, <2>5 DEF EmittedFrom
  <2> QED BY <2>3, <2>4, <2>5
<1> QED BY <1>5, <1>10, <1>13, <1>14, <1>15
=============================================================================
