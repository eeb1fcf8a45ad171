-------------------------- MODULE ConstraintProofs --------------------------
(***************************************************************************)
(* Trees of constraints: how deep they nest, what And, Or, Not and Rebuild *)
(* make of them, and what they say of a row then.  A recursive function on *)
(* Trees is a CHOOSE over functions, so each first has to be shown to      *)
(* exist (TreeRecursion) and is known by its equation from then on.        *)
(***************************************************************************)
EXTENDS Constraint, SequenceTheorems, FiniteSetTheorems, WellFoundedInduction, TLAPS

Less == {ss \in Nat \X Nat : ss[1] < ss[2]}

(* Induction, for a set of numbers in place of a predicate. *)
LEMMA SetInduction ==
  ASSUME NEW S \in SUBSET Nat, 0 \in S, \A n \in S : n + 1 \in S
  PROVE  S = Nat
<1> DEFINE T == Nat \ S
<1>1. SUFFICES ASSUME T # {} PROVE FALSE
  OBVIOUS
<1>2. T \subseteq Nat
  OBVIOUS
<1>3. IsWellFoundedOn(Less, Nat)
  BY NatLessThanWellFounded DEF OpToRel, Less
<1> HIDE DEF T
<1>4. PICK x \in T : \A y \in T : ~ (<<y, x>> \in Less)
  BY <1>1, <1>2, <1>3, WFMin
<1>5. x \in Nat \ S /\ x # 0
  BY DEF T
<1>6. x - 1 \in T
  BY <1>5 DEF T
<1>7. <<x - 1, x>> \in Less
  BY <1>5 DEF Less
<1> QED BY <1>4, <1>6, <1>7

(* Recursion over a..b: each value is made of the one before. *)
Steps(f, a, b, z, step) == \A i \in a..b : f[i] = IF i = a THEN z ELSE step[<<i, f[i - 1]>>]

LEMMA StepRecursion ==
  ASSUME NEW a \in Nat, NEW b \in Nat, NEW V, NEW z \in V, NEW step,
         \A i \in a..b : \A v \in V : step[<<i, v>>] \in V
  PROVE  \E f \in [a..b -> V] : Steps(f, a, b, z, step)
<1> DEFINE At(f, i) == IF i = a THEN z ELSE step[<<i, f[i - 1]>>]
           Good(f, n) == \A i \in a..b : i <= n => f[i] \in V /\ f[i] = At(f, i)
           S == {n \in Nat : \E f : Good(f, n)}
<1>1. 0 \in S
  <2> Good([i \in a..b |-> z], 0)
    OBVIOUS
  <2> QED OBVIOUS
<1>2. ASSUME NEW n \in S PROVE n + 1 \in S
  <2>1. PICK f : Good(f, n)
    OBVIOUS
  <2> DEFINE g == [i \in a..b |-> IF i = n + 1 THEN At(f, i) ELSE f[i]]
  <2>2. ASSUME NEW i \in a..b, i <= n + 1 PROVE g[i] \in V /\ g[i] = At(g, i)
    <3>1. CASE i <= n
      BY <3>1, <2>1
    <3>2. CASE i = n + 1
      <4>1. CASE i # a
        <5>1. i - 1 \in a..b /\ i - 1 <= n
          BY <3>2, <4>1
        <5>2. f[i - 1] \in V /\ g[i - 1] = f[i - 1]
          BY <5>1, <2>1
        <5> QED BY <3>2, <4>1, <5>2
      <4>2. CASE i = a
        BY <3>2, <4>2
      <4> QED BY <3>2, <4>1
    <3> QED BY <2>2, <3>1, <3>2
  <2>3. Good(g, n + 1)
    <3> HIDE DEF g, At
    <3> QED BY <2>2
  <2> HIDE DEF g, Good
  <2> QED BY <2>3
<1>3. S = Nat
  <2> HIDE DEF S
  <2>1. S \in SUBSET Nat BY DEF S
  <2> QED BY <1>1, <1>2, <2>1, SetInduction
<1>4. PICK f : Good(f, b)
  <2>1. b \in S
    BY <1>3
  <2> HIDE DEF Good
  <2> QED BY <2>1
<1> DEFINE g == [i \in a..b |-> f[i]]
<1>5. ASSUME NEW i \in a..b PROVE g[i] \in V /\ g[i] = At(g, i)
  <2>1. f[i] \in V /\ f[i] = At(f, i)
    BY <1>4
  <2>2. CASE i # a
    <3>1. i - 1 \in a..b
      BY <2>2
    <3> QED BY <2>1, <2>2, <3>1
  <2> QED BY <2>1, <2>2
<1>6. g \in [a..b -> V]
  BY <1>5
<1> HIDE DEF g
<1> QED BY <1>5, <1>6 DEF Steps

Prefixing(f, N, ss) == \A i \in 1..N : f[i] = IF i = 1 THEN ss[i] ELSE f[i - 1] \o ss[i]

(* The sequences ss[1], ss[1] \o ss[2] and so on. *)
LEMMA PrefixesExist ==
  ASSUME NEW U, NEW N \in Nat \ {0}, NEW ss \in [1..N -> Seq(U)]
  PROVE  \E f \in [1..N -> Seq(U)] : Prefixing(f, N, ss)
<1> DEFINE step == [p \in (1..N) \X Seq(U) |-> p[2] \o ss[p[1]]]
           V == Seq(U)
           z == ss[1]
<1>1. \A i \in 1..N : \A v \in V : step[<<i, v>>] = v \o ss[i] /\ step[<<i, v>>] \in V
  BY ConcatProperties
<1>2. z \in V /\ 1 \in Nat /\ N \in Nat
  OBVIOUS
<1> HIDE DEF step, V, z
<1>3. PICK h \in [1..N -> V] : Steps(h, 1, N, z, step)
  <2>1. \A i \in 1..N : \A v \in V : step[<<i, v>>] \in V
    BY <1>1
  <2> QED BY <1>2, <2>1, StepRecursion
<1>4. ASSUME NEW i \in 1..N PROVE h[i] = IF i = 1 THEN ss[i] ELSE h[i - 1] \o ss[i]
  <2>1. CASE i = 1
    BY <2>1, <1>3 DEF z, Steps
  <2>2. CASE i # 1
    <3>1. i - 1 \in 1..N
      BY <2>2
    <3>2. h[i] = step[<<i, h[i - 1]>>] /\ h[i - 1] \in V
      BY <1>3, <2>2, <3>1 DEF Steps
    <3> QED BY <3>2, <1>1, <2>2
  <2> QED BY <2>1, <2>2
<1> QED BY <1>3, <1>4 DEF V, Prefixing

LEMMA PrefixesHold ==
  ASSUME NEW U, NEW N \in Nat \ {0}, NEW ss \in [1..N -> Seq(U)], NEW f,
         Prefixing(f, N, ss)
  PROVE  f[N] \in Seq(U) /\ ToSet(f[N]) = UNION {ToSet(ss[i]) : i \in 1..N}
<1> DEFINE Of(n) == UNION {ToSet(ss[i]) : i \in 1..n}
           A == {n \in Nat : n + 1 <= N => f[n + 1] \in Seq(U) /\ ToSet(f[n + 1]) = Of(n + 1)}
<1>1. 0 \in A
  <2>1. f[1] = ss[1] /\ ss[1] \in Seq(U) /\ 1..1 = {1}
    BY DEF Prefixing
  <2> QED BY <2>1
<1>2. ASSUME NEW n \in A PROVE n + 1 \in A
  <2> SUFFICES ASSUME n + 2 <= N PROVE f[n + 2] \in Seq(U) /\ ToSet(f[n + 2]) = Of(n + 2)
    BY n + 1 + 1 = n + 2
  <2>1. f[n + 1] \in Seq(U) /\ ToSet(f[n + 1]) = Of(n + 1)
    OBVIOUS
  <2>2. f[n + 2] = f[n + 1] \o ss[n + 2] /\ ss[n + 2] \in Seq(U)
    <3> DEFINE m == n + 2
    <3>1. m \in 1..N /\ m # 1 /\ m - 1 = n + 1
      OBVIOUS
    <3> HIDE DEF m, A
    <3>2. f[m] = f[m - 1] \o ss[m] /\ ss[m] \in Seq(U)
      BY <3>1 DEF Prefixing
    <3> QED BY <3>1, <3>2 DEF m
  <2>3. f[n + 2] \in Seq(U) /\ ToSet(f[n + 2]) = ToSet(f[n + 1]) \cup ToSet(ss[n + 2])
    <3> DEFINE s == f[n + 1]
               t == ss[n + 2]
    <3>1. s \in Seq(U) /\ t \in Seq(U) /\ f[n + 2] = s \o t
      BY <2>1, <2>2
    <3> HIDE DEF s, t
    <3>2. s \o t \in Seq(U) /\ Range(s \o t) = Range(s) \cup Range(t)
      BY <3>1, RangeConcatenation, ConcatProperties
    <3>3. ToSet(s \o t) = Range(s \o t) /\ ToSet(s) = Range(s) /\ ToSet(t) = Range(t)
      BY DEF ToSet, Range
    <3> QED BY <3>1, <3>2, <3>3 DEF s, t
  <2>4. 1..(n + 2) = 1..(n + 1) \cup {n + 2}
    OBVIOUS
  <2>5. Of(n + 2) = Of(n + 1) \cup ToSet(ss[n + 2])
    BY <2>4
  <2> QED BY <2>1, <2>3, <2>5
<1>3. A = Nat
  <2> HIDE DEF A
  <2>1. A \in SUBSET Nat BY DEF A
  <2> QED BY <1>1, <1>2, <2>1, SetInduction
<1>4. N - 1 \in A /\ N - 1 + 1 = N /\ N <= N
  <2> HIDE DEF A
  <2> QED BY <1>3
<1>5. f[N] \in Seq(U) /\ ToSet(f[N]) = Of(N)
  <2> HIDE DEF Of
  <2> QED BY <1>4
<1> QED BY <1>5

(* What a flattened sequence of sequences holds. *)
LEMMA Flattened ==
  ASSUME NEW U, NEW ss \in Seq(Seq(U))
  PROVE  /\ FlattenSeq(ss) \in Seq(U)
         /\ ToSet(FlattenSeq(ss)) = UNION {ToSet(ss[i]) : i \in DOMAIN ss}
<1>1. CASE Len(ss) = 0
  <2>1. FlattenSeq(ss) = ss /\ DOMAIN ss = {}
    BY <1>1 DEF FlattenSeq
  <2>2. ss \in Seq(U) /\ ToSet(ss) = {}
    BY <2>1, <1>1 DEF ToSet
  <2> QED BY <2>1, <2>2
<1>2. CASE Len(ss) # 0
  <2> DEFINE N == Len(ss)
             Is(f) == f = [i \in 1..N |-> IF i = 1 THEN ss[i] ELSE f[i - 1] \o ss[i]]
             f == CHOOSE f : Is(f)
  <2>1. N \in Nat \ {0} /\ DOMAIN ss = 1..N /\ ss \in [1..N -> Seq(U)]
    BY <1>2
  <2>2. FlattenSeq(ss) = f[N]
    BY <1>2 DEF FlattenSeq
  <2> HIDE DEF N
  <2>3. PICK g \in [1..N -> Seq(U)] : Prefixing(g, N, ss)
    BY <2>1, PrefixesExist
  <2>4. Is(f)
    <3>1. Is(g)
      BY <2>3 DEF Prefixing
    <3> HIDE DEF Is
    <3> QED BY <3>1
  <2> HIDE DEF f
  <2>5. Prefixing(f, N, ss)
    BY <2>4 DEF Prefixing
  <2>6. f[N] \in Seq(U) /\ ToSet(f[N]) = UNION {ToSet(ss[i]) : i \in 1..N}
    BY <2>1, <2>5, PrefixesHold
  <2> QED BY <2>1, <2>2, <2>6
<1> QED BY <1>1, <1>2

(* What is collected: all that is in one of the sequences. *)
AllIn(ss) == UNION {ToSet(ss[i]) : i \in DOMAIN ss}

LEMMA Collected ==
  ASSUME NEW U, NEW ss \in Seq(Seq(U))
  PROVE  FlattenSeq(ss \o << >>) \in Seq(U) /\ ToSet(FlattenSeq(ss \o << >>)) = AllIn(ss)
<1>1. ss \o << >> = ss
  BY ConcatEmptySeq
<1>2. FlattenSeq(ss) \in Seq(U) /\ ToSet(FlattenSeq(ss)) = AllIn(ss)
  BY Flattened DEF AllIn
<1> QED BY <1>1, <1>2

(* The elements of a finite set, in some order. *)
LEMMA SetToSeqDef ==
  ASSUME NEW S, IsFiniteSet(S)
  PROVE  SetToSeq(S) \in Seq(S) /\ ToSet(SetToSeq(S)) = S
<1> DEFINE n == Cardinality(S)
           q == SetToSeq(S)
<1>1. n \in Nat /\ ExistsBijection(1..n, S)
  BY FS_CardinalityType
<1>2. \E f \in [1..n -> S] : IsInjective(f)
  BY <1>1 DEF ExistsBijection, Bijection, Injection, IsInjective
<1>3. q \in [1..n -> S] /\ IsInjective(q)
  BY <1>2 DEF SetToSeq
<1> HIDE DEF q
<1>4. q \in Injection(1..n, S)
  BY <1>3 DEF Injection, IsInjective
<1>5. q \in Surjection(1..n, S)
  <2>1. IsFiniteSet(1..n) /\ Cardinality(1..n) = n
    BY <1>1, FS_Interval
  <2> HIDE DEF n
  <2>2. Cardinality(1..n) = Cardinality(S)
    BY <2>1 DEF n
  <2> QED BY <1>4, <2>2, FS_Injection
<1>6. ToSet(q) = S
  BY <1>3, <1>5 DEF Surjection, ToSet
<1>7. q \in Seq(S)
  BY <1>1, <1>3
<1> QED BY <1>6, <1>7 DEF q

(*------------------------------ the trees --------------------------------*)

(* One level more: what a tree of depth n + 1 can be. *)
Over(leaves, T) ==
  leaves \cup [kind : {"and", "or"}, items : Seq(T)] \cup [kind : {"not"}, item : T]

LEMMA TreeIsDefined ==
  ASSUME NEW leaves
  PROVE  \E tree : tree = [m \in Nat |-> IF m = 0 THEN leaves ELSE Over(leaves, tree[m - 1])]
<1> DEFINE Upto(f, n) == \A m \in 0..n : f[m] = IF m = 0 THEN leaves ELSE Over(leaves, f[m - 1])
           S == {n \in Nat : \E f : Upto(f, n)}
<1>1. 0 \in S
  <2> Upto([m \in Nat |-> leaves], 0)
    OBVIOUS
  <2> QED OBVIOUS
<1>2. ASSUME NEW n \in S PROVE n + 1 \in S
  <2>1. PICK f : Upto(f, n)
    OBVIOUS
  <2> DEFINE g == [m \in 0..(n + 1) |-> IF m = n + 1 THEN Over(leaves, f[n]) ELSE f[m]]
  <2>2. ASSUME NEW m \in 0..(n + 1) PROVE g[m] = IF m = 0 THEN leaves ELSE Over(leaves, g[m - 1])
    BY <2>1
  <2>3. Upto(g, n + 1)
    BY <2>2
  <2> HIDE DEF g, Upto
  <2> QED BY <2>3
<1>3. S = Nat
  <2> HIDE DEF S
  <2>1. S \in SUBSET Nat BY DEF S
  <2> QED BY <1>1, <1>2, <2>1, SetInduction
<1>4. ASSUME NEW n \in Nat, NEW f, NEW g, Upto(f, n), Upto(g, n) PROVE f[n] = g[n]
  <2> DEFINE A == {m \in Nat : m <= n => f[m] = g[m]}
  <2>1. 0 \in A
    BY <1>4
  <2>2. ASSUME NEW m \in A PROVE m + 1 \in A
    <3> SUFFICES ASSUME m + 1 <= n PROVE f[m + 1] = g[m + 1]
      OBVIOUS
    <3>1. f[m] = g[m]
      OBVIOUS
    <3>2. f[m + 1] = Over(leaves, f[m + 1 - 1]) /\ g[m + 1] = Over(leaves, g[m + 1 - 1])
      BY <1>4
    <3> QED BY <3>1, <3>2
  <2>3. A = Nat
    <3> HIDE DEF A
    <3>1. A \in SUBSET Nat BY DEF A
    <3> QED BY <2>1, <2>2, <3>1, SetInduction
  <2> QED BY <2>3
<1> DEFINE f(n) == CHOOSE f : Upto(f, n)
           tree == [n \in Nat |-> f(n)[n]]
<1>5. ASSUME NEW n \in Nat PROVE Upto(f(n), n)
  <2> HIDE DEF Upto
  <2> QED BY <1>3
<1> HIDE DEF f
<1>6. ASSUME NEW n \in Nat \ {0} PROVE f(n)[n - 1] = tree[n - 1]
  <2>1. Upto(f(n), n - 1) /\ Upto(f(n - 1), n - 1)
    BY <1>5
  <2> HIDE DEF Upto
  <2> QED BY <2>1, <1>4
<1>7. ASSUME NEW n \in Nat PROVE tree[n] = IF n = 0 THEN leaves ELSE Over(leaves, tree[n - 1])
  BY <1>5, <1>6
<1> HIDE DEF tree
<1>8. tree = [m \in Nat |-> IF m = 0 THEN leaves ELSE Over(leaves, tree[m - 1])]
  BY <1>7 DEF tree
<1> QED BY <1>8

(* A tree is a leaf, or is made of trees that nest less deep. *)
LEMMA TreeDef ==
  ASSUME NEW leaves
  PROVE  /\ Tree(leaves, 0) = leaves
         /\ \A n \in Nat : Tree(leaves, n + 1) = Over(leaves, Tree(leaves, n))
<1> DEFINE Is(tree) == tree = [m \in Nat |-> IF m = 0 THEN leaves
                                ELSE leaves \cup [kind : {"and", "or"}, items : Seq(tree[m - 1])]
                                            \cup [kind : {"not"}, item : tree[m - 1]]]
           tree == CHOOSE tree : Is(tree)
<1>1. Is(tree)
  <2>1. \E t : Is(t)
    BY TreeIsDefined DEF Over
  <2> HIDE DEF Is
  <2> QED BY <2>1
<1>2. ASSUME NEW n PROVE Tree(leaves, n) = tree[n]
  BY DEF Tree
<1> HIDE DEF tree
<1>3. ASSUME NEW n \in Nat PROVE tree[n] = IF n = 0 THEN leaves ELSE Over(leaves, tree[n - 1])
  BY <1>1 DEF Over
<1> HIDE DEF Is
<1> QED BY <1>2, <1>3

LEMMA SeqMonotone ==
  ASSUME NEW S, NEW T, S \subseteq T
  PROVE  Seq(S) \subseteq Seq(T)
OBVIOUS

LEMMA OneItem ==
  ASSUME NEW U, NEW vs \in Seq(U), Len(vs) = 1
  PROVE  vs[1] \in U
OBVIOUS

LEMMA TreeMonotone ==
  ASSUME NEW leaves, NEW n \in Nat, NEW m \in Nat, n <= m
  PROVE  Tree(leaves, n) \subseteq Tree(leaves, m)
<1> DEFINE S == {k \in Nat : Tree(leaves, k) \subseteq Tree(leaves, k + 1)}
           R == {k \in Nat : Tree(leaves, n) \subseteq Tree(leaves, n + k)}
<1>1. 0 \in S
  BY TreeDef DEF Over
<1>2. ASSUME NEW k \in S PROVE k + 1 \in S
  <2>1. Seq(Tree(leaves, k)) \subseteq Seq(Tree(leaves, k + 1))
    BY SeqMonotone
  <2>2. Over(leaves, Tree(leaves, k)) \subseteq Over(leaves, Tree(leaves, k + 1))
    BY <2>1 DEF Over
  <2> QED BY <2>2, TreeDef
<1>3. S = Nat
  <2> HIDE DEF S
  <2>1. S \in SUBSET Nat BY DEF S
  <2> QED BY <1>1, <1>2, <2>1, SetInduction
<1>4. 0 \in R
  OBVIOUS
<1>5. ASSUME NEW k \in R PROVE k + 1 \in R
  <2>1. Tree(leaves, n + k) \subseteq Tree(leaves, n + k + 1)
    BY <1>3, n + k \in S
  <2> QED BY <2>1
<1>6. R = Nat
  <2> HIDE DEF R
  <2>1. R \in SUBSET Nat BY DEF R
  <2> QED BY <1>4, <1>5, <2>1, SetInduction
<1>7. m - n \in R
  BY <1>6, m - n \in Nat
<1> QED BY <1>7

LEMMA MoreLeaves ==
  ASSUME NEW leaves, NEW more, leaves \subseteq more, NEW n \in Nat
  PROVE  Tree(leaves, n) \subseteq Tree(more, n)
<1> DEFINE S == {k \in Nat : Tree(leaves, k) \subseteq Tree(more, k)}
<1>1. 0 \in S
  BY TreeDef
<1>2. ASSUME NEW k \in S PROVE k + 1 \in S
  <2>1. Seq(Tree(leaves, k)) \subseteq Seq(Tree(more, k))
    BY SeqMonotone
  <2>2. Over(leaves, Tree(leaves, k)) \subseteq Over(more, Tree(more, k))
    BY <2>1 DEF Over
  <2>3. Tree(leaves, k + 1) = Over(leaves, Tree(leaves, k)) /\ Tree(more, k + 1) = Over(more, Tree(more, k))
    BY TreeDef
  <2> QED BY <2>2, <2>3
<1>3. S = Nat
  <2> HIDE DEF S
  <2>1. S \in SUBSET Nat BY DEF S
  <2> QED BY <1>1, <1>2, <2>1, SetInduction
<1> QED BY <1>3

LeafKinds == {"true", "false", "cmp", "in", "between", "relation", "sql"}

LEMMA LeavesAreLeaves ==
  ASSUME NEW x \in Leaves
  PROVE  x.kind \in LeafKinds /\ (x \in Atoms <=> x.kind \in {"cmp", "in", "between", "relation"})
BY DEF Leaves, LeafKinds, Constants, True, False, Atoms, Tests, Relations, SqlTests

Kids(c) == IF c.kind \in {"and", "or"} THEN c.items ELSE IF c.kind = "not" THEN <<c.item>> ELSE << >>

LEMMA Nodes ==
  ASSUME NEW n \in Nat, NEW c \in Tree(Leaves, n)
  PROVE  \/ c \in Leaves /\ c.kind \in LeafKinds /\ Kids(c) = << >>
         \/ /\ c.kind \in {"and", "or"} /\ c = [kind |-> c.kind, items |-> c.items] /\ n # 0
            /\ Kids(c) = c.items /\ c.items \in Seq(Tree(Leaves, n - 1))
         \/ /\ c.kind = "not" /\ c = Negation(c.item) /\ n # 0
            /\ Kids(c) = <<c.item>> /\ c.item \in Tree(Leaves, n - 1)
<1>1. CASE c \in Leaves
  BY <1>1, LeavesAreLeaves DEF Kids, LeafKinds
<1>2. CASE c \notin Leaves
  <2>1. n # 0 /\ c \in Over(Leaves, Tree(Leaves, n - 1))
    <3>1. n # 0
      BY <1>2, TreeDef
    <3> QED BY <3>1, TreeDef, n - 1 \in Nat, n - 1 + 1 = n
  <2>2. CASE c \in [kind : {"and", "or"}, items : Seq(Tree(Leaves, n - 1))]
    BY <2>1, <2>2 DEF Kids
  <2>3. CASE c \in [kind : {"not"}, item : Tree(Leaves, n - 1)]
    BY <2>1, <2>3 DEF Kids, Negation
  <2> QED BY <1>2, <2>1, <2>2, <2>3 DEF Over
<1> QED BY <1>1, <1>2

LEMMA KidsNestLess ==
  /\ \A c \in Tree(Leaves, 0) : Kids(c) = << >>
  /\ \A n \in Nat : \A c \in Tree(Leaves, n + 1) : Kids(c) \in Seq(Tree(Leaves, n))
  /\ \A c \in Trees : Kids(c) \in Seq(Trees)
<1>1. ASSUME NEW c \in Tree(Leaves, 0) PROVE Kids(c) = << >>
  BY <1>1, Nodes
<1>2. ASSUME NEW n \in Nat, NEW c \in Tree(Leaves, n + 1) PROVE Kids(c) \in Seq(Tree(Leaves, n))
  <2> DEFINE m == n + 1
  <2>1. m \in Nat /\ m - 1 = n
    OBVIOUS
  <2> HIDE DEF m
  <2>2. \/ Kids(c) = << >>
        \/ Kids(c) = c.items /\ c.items \in Seq(Tree(Leaves, m - 1))
        \/ Kids(c) = <<c.item>> /\ c.item \in Tree(Leaves, m - 1)
    BY <2>1, Nodes DEF m
  <2> DEFINE T == Tree(Leaves, m - 1)
  <2> HIDE DEF T
  <2>3. << >> \in Seq(T) /\ \A t \in T : <<t>> \in Seq(T)
    OBVIOUS
  <2>4. Kids(c) \in Seq(T)
    <3>1. CASE Kids(c) = << >>
      BY <3>1, <2>3
    <3>2. CASE Kids(c) = c.items /\ c.items \in Seq(T)
      BY <3>2
    <3>3. CASE Kids(c) = <<c.item>> /\ c.item \in T
      BY <3>3, <2>3
    <3> QED BY <2>2, <3>1, <3>2, <3>3 DEF T
  <2> QED BY <2>1, <2>4 DEF T
<1>3. ASSUME NEW c \in Trees PROVE Kids(c) \in Seq(Trees)
  <2>1. Depth + 3 \in Nat /\ Depth + 3 + 1 = Depth + 4 /\ Depth + 4 \in Nat /\ Depth + 3 <= Depth + 4
    BY DepthAssumption
  <2>2. Kids(c) \in Seq(Tree(Leaves, Depth + 3))
    BY <1>2, <2>1 DEF Trees
  <2>3. Tree(Leaves, Depth + 3) \subseteq Trees
    BY <2>1, TreeMonotone DEF Trees
  <2> QED BY <2>2, <2>3, SeqMonotone
<1> QED BY <1>1, <1>2, <1>3

LEMMA Levels ==
  ASSUME NEW n \in 0..(Depth + 4)
  PROVE  Tree(Leaves, n) \subseteq Trees
BY TreeMonotone, DepthAssumption DEF Trees

(* Induction over trees, for a set of them in place of a predicate. *)
LEMMA TreeInduction ==
  ASSUME NEW S,
         \A c \in Trees : (\A i \in DOMAIN Kids(c) : Kids(c)[i] \in S) => c \in S
  PROVE  Trees \subseteq S
<1> DEFINE A == {n \in Nat : Tree(Leaves, n) \cap Trees \subseteq S}
<1>1. 0 \in A
  BY KidsNestLess
<1>2. ASSUME NEW n \in A PROVE n + 1 \in A
  <2> SUFFICES ASSUME NEW c \in Tree(Leaves, n + 1) \cap Trees PROVE c \in S
    OBVIOUS
  <2>1. Kids(c) \in Seq(Tree(Leaves, n)) /\ Kids(c) \in Seq(Trees)
    BY KidsNestLess
  <2>2. ASSUME NEW i \in DOMAIN Kids(c) PROVE Kids(c)[i] \in S
    BY <2>1
  <2> QED BY <2>2
<1>3. A = Nat
  <2> HIDE DEF A
  <2>1. A \in SUBSET Nat BY DEF A
  <2> QED BY <1>1, <1>2, <2>1, SetInduction
<1>4. Depth + 4 \in A
  BY <1>3, DepthAssumption
<1> QED BY <1>4 DEF Trees

(***************************************************************************)
(* Recursion over trees: what step makes of a node and of the values of    *)
(* its children defines a function, and a tree of depth n has a value in   *)
(* V[n] if step keeps to that.                                             *)
(***************************************************************************)
OfKids(f, c) == [i \in DOMAIN Kids(c) |-> f[Kids(c)[i]]]
Folds(f, step) == \A c \in Trees : f[c] = step[<<c, OfKids(f, c)>>]
Graded(f, V) == \A n \in 0..(Depth + 4) : \A c \in Tree(Leaves, n) : f[c] \in V[n]
KeepsTo(step, V) ==
  \A n \in 0..(Depth + 4) : \A c \in Tree(Leaves, n) : \A vs \in Seq(IF n = 0 THEN {} ELSE V[n - 1]) :
    Len(vs) = Len(Kids(c)) => step[<<c, vs>>] \in V[n]

LEMMA TreeRecursion ==
  ASSUME NEW V, NEW step, KeepsTo(step, V)
  PROVE  \E f \in [Trees -> V[Depth + 4]] : Folds(f, step) /\ Graded(f, V)
<1>0. \A n \in 0..(Depth + 4) : \A c \in Tree(Leaves, n) : \A vs \in Seq(IF n = 0 THEN {} ELSE V[n - 1]) :
        Len(vs) = Len(Kids(c)) => step[<<c, vs>>] \in V[n]
  BY DEF KeepsTo
<1> DEFINE T(n) == Tree(Leaves, n)
           At(f, c) == step[<<c, [i \in DOMAIN Kids(c) |-> f[Kids(c)[i]]]>>]
           Good(f, n) == /\ \A c \in T(n) : f[c] = At(f, c)
                         /\ \A m \in 0..n : \A c \in T(m) : f[c] \in V[m]
           S == {n \in Nat : n <= Depth + 4 => \E f : Good(f, n)}
<1>1. 0 \in S
  <2> DEFINE f == [c \in T(0) |-> step[<<c, << >> >>]]
  <2>1. ASSUME NEW c \in T(0) PROVE At(f, c) = step[<<c, << >> >>] /\ step[<<c, << >> >>] \in V[0]
    <3>1. Kids(c) = << >>
      BY KidsNestLess
    <3>2. [i \in DOMAIN Kids(c) |-> f[Kids(c)[i]]] = << >>
      BY <3>1
    <3> HIDE DEF f
    <3>3. At(f, c) = step[<<c, << >> >>] /\ 0 \in 0..(Depth + 4)
      BY <3>2, DepthAssumption
    <3>4. << >> \in Seq({}) /\ Len(<< >>) = Len(Kids(c))
      BY <3>1
    <3> QED BY <3>3, <3>4, <1>0
  <2>2. Good(f, 0)
    <3>1. ASSUME NEW c \in T(0) PROVE f[c] = step[<<c, << >> >>]
      OBVIOUS
    <3>2. \A m \in 0..0 : m = 0
      OBVIOUS
    <3> HIDE DEF At, f
    <3> QED BY <2>1, <3>1, <3>2
  <2> HIDE DEF f, Good
  <2> QED BY <2>2
<1>2. ASSUME NEW n \in S PROVE n + 1 \in S
  <2> HIDE DEF Good
  <2> SUFFICES ASSUME n + 1 <= Depth + 4 PROVE \E g : Good(g, n + 1)
    OBVIOUS
  <2>1. PICK f : Good(f, n)
    BY DepthAssumption
  <2> USE DEF Good
  <2> DEFINE g == [c \in T(n + 1) |-> At(f, c)]
  <2>2. T(n) \subseteq T(n + 1)
    BY TreeMonotone
  <2>3. ASSUME NEW c \in T(n) PROVE g[c] = f[c]
    BY <2>1, <2>2
  <2>4. ASSUME NEW c \in T(n + 1) PROVE At(g, c) = At(f, c)
    <3>1. Kids(c) \in Seq(T(n))
      BY KidsNestLess
    <3>2. \A i \in DOMAIN Kids(c) : Kids(c)[i] \in T(n)
      BY <3>1
    <3> HIDE DEF g
    <3> QED BY <2>3, <3>2
  <2>5. ASSUME NEW c \in T(n + 1) PROVE g[c] \in V[n + 1]
    <3>1. Kids(c) \in Seq(T(n))
      BY KidsNestLess
    <3> DEFINE vs == [i \in DOMAIN Kids(c) |-> f[Kids(c)[i]]]
    <3>2. \A i \in DOMAIN Kids(c) : f[Kids(c)[i]] \in V[n]
      BY <2>1, <3>1, n \in 0..n
    <3>3. vs \in Seq(V[n]) /\ Len(vs) = Len(Kids(c))
      BY <3>1, <3>2
    <3> HIDE DEF vs
    <3>4. step[<<c, vs>>] \in V[n + 1]
      BY <3>3, <1>0, DepthAssumption, n + 1 \in 0..(Depth + 4), n + 1 # 0, n + 1 - 1 = n
    <3> QED BY <3>4 DEF vs
  <2>6. ASSUME NEW m \in 0..(n + 1), NEW c \in T(m) PROVE g[c] \in V[m]
    <3>1. CASE m = n + 1
      BY <3>1, <2>5
    <3>2. CASE m # n + 1
      <4>1. m \in 0..n /\ T(m) \subseteq T(n)
        BY <3>2, TreeMonotone
      <4> HIDE DEF g
      <4> QED BY <4>1, <2>1, <2>3
    <3> QED BY <3>1, <3>2
  <2>7. Good(g, n + 1)
    <3>1. ASSUME NEW c \in T(n + 1) PROVE g[c] = At(f, c)
      OBVIOUS
    <3> HIDE DEF g, At
    <3> QED BY <2>4, <2>6, <3>1
  <2> HIDE DEF g, Good
  <2> QED BY <2>7
<1>3. S = Nat
  <2> HIDE DEF S
  <2>1. S \in SUBSET Nat BY DEF S
  <2> QED BY <1>1, <1>2, <2>1, SetInduction
<1>4. PICK f : Good(f, Depth + 4)
  <2>1. Depth + 4 \in Nat
    BY DepthAssumption
  <2>2. Depth + 4 \in S
    BY <1>3, <2>1
  <2> HIDE DEF Good
  <2> QED BY <2>2
<1> DEFINE g == [c \in Trees |-> f[c]]
<1>5. ASSUME NEW c \in Trees PROVE g[c] = At(g, c)
  <2>1. Kids(c) \in Seq(Trees)
    BY KidsNestLess
  <2>2. At(g, c) = At(f, c)
    <3>1. \A i \in DOMAIN Kids(c) : g[Kids(c)[i]] = f[Kids(c)[i]]
      BY <2>1
    <3> HIDE DEF g
    <3> QED BY <3>1
  <2>3. f[c] = At(f, c)
    BY <1>4 DEF Trees
  <2> HIDE DEF At
  <2> QED BY <2>2, <2>3
<1>6. ASSUME NEW n \in 0..(Depth + 4), NEW c \in T(n) PROVE g[c] \in V[n]
  <2>1. c \in Trees
    BY Levels
  <2> QED BY <2>1, <1>4
<1>7. g \in [Trees -> V[Depth + 4]]
  <2>1. Depth + 4 \in 0..(Depth + 4)
    BY DepthAssumption
  <2> QED BY <1>6, <2>1 DEF Trees
<1> HIDE DEF g
<1> QED BY <1>5, <1>6, <1>7 DEF Folds, Graded, OfKids

LEMMA KidsOfKinds ==
  ASSUME NEW c \in Trees
  PROVE  /\ c.kind \in {"and", "or"} => Kids(c) = c.items /\ c.items \in Seq(Trees)
         /\ c.kind = "not" => Kids(c) = <<c.item>> /\ c.item \in Trees /\ c = Negation(c.item)
         /\ c.kind \notin {"and", "or", "not"} => Kids(c) = << >> /\ c \in Leaves /\ c.kind \in LeafKinds
<1>1. Kids(c) \in Seq(Trees)
  BY KidsNestLess
<1>2. Depth + 4 \in Nat /\ c \in Tree(Leaves, Depth + 4)
  BY DepthAssumption DEF Trees
<1>3. c.kind \in {"and", "or"} => Kids(c) = c.items /\ c.items \in Seq(Trees)
  BY <1>1 DEF Kids
<1>4. c.kind = "not" => Kids(c) = <<c.item>> /\ c.item \in Trees /\ c = Negation(c.item)
  <2> SUFFICES ASSUME c.kind = "not" PROVE Kids(c) = <<c.item>> /\ c.item \in Trees /\ c = Negation(c.item)
    OBVIOUS
  <2>1. Kids(c) = <<c.item>>
    BY DEF Kids
  <2>2. c = Negation(c.item)
    BY <1>2, Nodes DEF LeafKinds
  <2>3. Kids(c)[1] \in Trees
    BY <1>1, <2>1
  <2> QED BY <2>1, <2>2, <2>3
<1>5. c.kind \notin {"and", "or", "not"} => Kids(c) = << >> /\ c \in Leaves /\ c.kind \in LeafKinds
  BY <1>2, Nodes
<1> QED BY <1>3, <1>4, <1>5

LEMMA OfKidsOfKinds ==
  ASSUME NEW c \in Trees, NEW V, NEW f \in [Trees -> V]
  PROVE  /\ OfKids(f, c) \in Seq(V) /\ Len(OfKids(f, c)) = Len(Kids(c))
         /\ c.kind \in {"and", "or"} => /\ Len(OfKids(f, c)) = Len(c.items)
                                       /\ DOMAIN OfKids(f, c) = DOMAIN c.items
                                       /\ \A i \in DOMAIN c.items : OfKids(f, c)[i] = f[c.items[i]]
         /\ c.kind = "not" => OfKids(f, c)[1] = f[c.item]
<1>1. Kids(c) \in Seq(Trees)
  BY KidsNestLess
<1>2. OfKids(f, c) \in Seq(V) /\ Len(OfKids(f, c)) = Len(Kids(c))
  BY <1>1 DEF OfKids
<1>3. DOMAIN OfKids(f, c) = DOMAIN Kids(c) /\ \A i \in DOMAIN Kids(c) : OfKids(f, c)[i] = f[Kids(c)[i]]
  BY DEF OfKids
<1>4. c.kind = "not" => OfKids(f, c)[1] = f[c.item]
  BY <1>3, KidsOfKinds
<1>5. ASSUME c.kind \in {"and", "or"}
      PROVE  /\ DOMAIN OfKids(f, c) = DOMAIN c.items
             /\ \A i \in DOMAIN c.items : OfKids(f, c)[i] = f[c.items[i]]
  <2>1. Kids(c) = c.items
    BY <1>5, KidsOfKinds
  <2> QED BY <2>1, <1>3
<1>6. c.kind \in {"and", "or"} => Len(OfKids(f, c)) = Len(c.items)
  BY <1>2, KidsOfKinds
<1> QED BY <1>2, <1>4, <1>5, <1>6

(*------------------------- what a tree says ------------------------------*)

(***************************************************************************)
(* The equation of Holds.                                                  *)
(***************************************************************************)
LEMMA HoldsDef ==
  ASSUME NEW pass \in [Atoms -> BOOLEAN], NEW c \in Trees
  PROVE  /\ Holds(c, pass) \in BOOLEAN
         /\ Holds(c, pass) <=>
              \/ c.kind = "true"
              \/ c.kind = "not" /\ ~Holds(c.item, pass)
              \/ c.kind = "and" /\ \A i \in DOMAIN c.items : Holds(c.items[i], pass)
              \/ c.kind = "or" /\ \E i \in DOMAIN c.items : Holds(c.items[i], pass)
              \/ c \in Atoms /\ pass[c]
<1> DEFINE At(f, x) ==
             \/ x.kind = "true"
             \/ x.kind = "not" /\ ~f[x.item]
             \/ x.kind = "and" /\ \A i \in DOMAIN x.items : f[x.items[i]]
             \/ x.kind = "or" /\ \E i \in DOMAIN x.items : f[x.items[i]]
             \/ x \in Atoms /\ pass[x]
           Is(f) == f = [x \in Trees |-> At(f, x)]
           of(x, vs) ==
             \/ x.kind = "true"
             \/ x.kind = "not" /\ ~vs[1]
             \/ x.kind = "and" /\ \A i \in DOMAIN vs : vs[i]
             \/ x.kind = "or" /\ \E i \in DOMAIN vs : vs[i]
             \/ x \in Atoms /\ pass[x]
           step == [p \in Trees \X Seq(BOOLEAN) |-> of(p[1], p[2])]
           V == [n \in Nat |-> BOOLEAN]
<1>1. ASSUME NEW x, NEW vs PROVE of(x, vs) \in BOOLEAN
  OBVIOUS
<1>2. KeepsTo(step, V)
  <2> SUFFICES ASSUME NEW n \in 0..(Depth + 4), NEW x \in Tree(Leaves, n),
                      NEW vs \in Seq(IF n = 0 THEN {} ELSE V[n - 1])
               PROVE  step[<<x, vs>>] \in V[n]
    BY DEF KeepsTo
  <2>1. x \in Trees /\ V[n] = BOOLEAN
    BY Levels
  <2>2. vs \in Seq(BOOLEAN)
    <3>1. CASE n = 0
      BY <3>1
    <3>2. CASE n # 0
      BY <3>2, n - 1 \in Nat
    <3> QED BY <3>1, <3>2
  <2> HIDE DEF of, V
  <2>3. step[<<x, vs>>] = of(x, vs)
    BY <2>1, <2>2
  <2> QED BY <2>1, <2>3, <1>1
<1>3. PICK f \in [Trees -> V[Depth + 4]] : Folds(f, step)
  <2> HIDE DEF step, V
  <2> QED BY <1>2, TreeRecursion
<1>4. f \in [Trees -> BOOLEAN]
  BY DepthAssumption, Depth + 4 \in Nat
<1>5. ASSUME NEW x \in Trees PROVE f[x] <=> At(f, x)
  <2> DEFINE vs == OfKids(f, x)
  <2>1. vs \in Seq(BOOLEAN)
    BY <1>4, OfKidsOfKinds
  <2>2. x.kind \in {"and", "or"} => DOMAIN vs = DOMAIN x.items /\ \A i \in DOMAIN x.items : vs[i] = f[x.items[i]]
    BY <1>4, OfKidsOfKinds
  <2>3. x.kind = "not" => vs[1] = f[x.item]
    BY <1>4, OfKidsOfKinds
  <2>4. f[x] = step[<<x, vs>>]
    BY <1>3 DEF Folds
  <2> HIDE DEF vs
  <2>5. f[x] <=> of(x, vs)
    <3> HIDE DEF of
    <3> QED BY <2>1, <2>4, <1>1
  <2>6. of(x, vs) <=> At(f, x)
    <3>1. CASE x.kind \in {"and", "or"}
      BY <3>1, <2>2
    <3>2. CASE x.kind \notin {"and", "or"}
      BY <3>2, <2>3
    <3> QED BY <3>1, <3>2
  <2> HIDE DEF of, At
  <2> QED BY <2>5, <2>6
<1>6. Is(f)
  <2>1. ASSUME NEW x PROVE At(f, x) \in BOOLEAN
    OBVIOUS
  <2> HIDE DEF At
  <2> QED BY <1>4, <1>5, <2>1
<1> DEFINE h == CHOOSE g : Is(g)
<1>7. Is(h)
  <2> HIDE DEF Is
  <2> QED BY <1>6
<1>8. ASSUME NEW x PROVE Holds(x, pass) = h[x]
  BY DEF Holds
<1> HIDE DEF h
<1>9. h[c] = At(h, c)
  BY <1>7
<1> QED BY <1>8, <1>9

(*----------------------- And, Or, Not and Rebuild ------------------------*)

LEMMA SpreadDef ==
  ASSUME NEW n \in Nat, NEW c \in Tree(Leaves, n), NEW kind \in {"and", "or"}, NEW unit \in Constants
  PROVE  /\ Spread(kind, unit, c) \in Seq(Tree(Leaves, n))
         /\ \/ c = unit /\ ToSet(Spread(kind, unit, c)) = {}
            \/ c # unit /\ c.kind = kind /\ Spread(kind, unit, c) = c.items
            \/ c # unit /\ c.kind # kind /\ ToSet(Spread(kind, unit, c)) = {c}
<1>1. CASE c = unit
  <2>1. Spread(kind, unit, c) = << >>
    BY <1>1 DEF Spread
  <2> QED BY <1>1, <2>1 DEF ToSet
<1>2. CASE c # unit /\ c.kind = kind
  <2>1. Spread(kind, unit, c) = c.items
    BY <1>2 DEF Spread
  <2>2. n # 0 /\ c.items \in Seq(Tree(Leaves, n - 1))
    BY <1>2, Nodes DEF LeafKinds
  <2>3. Tree(Leaves, n - 1) \subseteq Tree(Leaves, n)
    BY <2>2, TreeMonotone, n - 1 \in Nat
  <2>4. c.items \in Seq(Tree(Leaves, n))
    BY <2>2, <2>3, SeqMonotone
  <2> QED BY <1>2, <2>1, <2>4
<1>3. CASE c # unit /\ c.kind # kind
  <2>1. Spread(kind, unit, c) = <<c>>
    BY <1>3 DEF Spread
  <2> QED BY <1>3, <2>1 DEF ToSet
<1> QED BY <1>1, <1>2, <1>3

SpreadOut(kind, unit, items) == UNION {ToSet(Spread(kind, unit, items[i])) : i \in DOMAIN items}

LEMMA FlatDef ==
  ASSUME NEW n \in Nat, NEW items \in Seq(Tree(Leaves, n)), NEW kind \in {"and", "or"}, NEW unit \in Constants
  PROVE  /\ Flat(kind, unit, items) \in Seq(Tree(Leaves, n))
         /\ ToSet(Flat(kind, unit, items)) = SpreadOut(kind, unit, items)
<1> DEFINE T == Tree(Leaves, n)
           ss == [i \in DOMAIN items |-> Spread(kind, unit, items[i])]
<1>1. ss \in Seq(Seq(T)) /\ DOMAIN ss = DOMAIN items
  <2>1. ASSUME NEW i \in DOMAIN items PROVE Spread(kind, unit, items[i]) \in Seq(T)
    <3>1. items[i] \in Tree(Leaves, n)
      OBVIOUS
    <3> QED BY <3>1, SpreadDef
  <2> HIDE DEF T
  <2> QED BY <2>1
<1>2. ss \o << >> = ss
  BY <1>1, ConcatEmptySeq
<1>3. Flat(kind, unit, items) = FlattenSeq(ss)
  BY <1>2 DEF Flat, Collect, Map
<1>4. \A i \in DOMAIN items : ss[i] = Spread(kind, unit, items[i])
  OBVIOUS
<1> HIDE DEF ss, T
<1>5. FlattenSeq(ss) \in Seq(T) /\ ToSet(FlattenSeq(ss)) = UNION {ToSet(ss[i]) : i \in DOMAIN ss}
  BY <1>1, Flattened
<1> QED BY <1>1, <1>3, <1>4, <1>5 DEF T, SpreadOut

LEMMA JoinedDef ==
  ASSUME NEW n \in Nat, NEW items \in Seq(Tree(Leaves, n)), NEW kind \in {"and", "or"},
         NEW unit \in Constants, NEW zero \in Constants
  PROVE  LET flat == Flat(kind, unit, items)
             joined == Joined(kind, unit, zero, items)
         IN /\ joined \in Tree(Leaves, n + 1)
            /\ \/ joined = zero /\ \E i \in DOMAIN items : items[i] = zero
               \/ /\ \A i \in DOMAIN items : items[i] # zero
                  /\ \/ joined = unit /\ ToSet(flat) = {}
                     \/ joined = flat[1] /\ ToSet(flat) = {joined}
                     \/ joined = [kind |-> kind, items |-> flat] /\ Len(flat) >= 2
<1> DEFINE flat == Flat(kind, unit, items)
           joined == Joined(kind, unit, zero, items)
           T == Tree(Leaves, n)
<1>1. flat \in Seq(T)
  BY FlatDef
<1>2. Leaves \subseteq Tree(Leaves, n + 1) /\ T \subseteq Tree(Leaves, n + 1) /\ unit \in Leaves /\ zero \in Leaves
  <2>1. n + 1 \in Nat /\ n <= n + 1
    OBVIOUS
  <2>2. T \subseteq Tree(Leaves, n + 1)
    BY <2>1, TreeMonotone
  <2>3. Tree(Leaves, n + 1) = Over(Leaves, Tree(Leaves, n))
    BY TreeDef
  <2>4. Leaves \subseteq Tree(Leaves, n + 1)
    BY <2>3 DEF Over
  <2> QED BY <2>2, <2>4 DEF Leaves
<1>3. Tree(Leaves, n + 1) = Over(Leaves, T)
  BY TreeDef
<1>4. CASE \E i \in DOMAIN items : items[i] = zero
  <2>1. joined = zero
    BY <1>4 DEF Joined
  <2> QED BY <1>2, <1>4, <2>1
<1>5. CASE \A i \in DOMAIN items : items[i] # zero
  <2> HIDE DEF T
  <2>1. joined = IF Len(flat) = 0 THEN unit ELSE IF Len(flat) = 1 THEN flat[1] ELSE [kind |-> kind, items |-> flat]
    BY <1>5 DEF Joined
  <2> HIDE DEF flat, joined
  <2>2. CASE Len(flat) = 0
    <3>1. joined = unit /\ ToSet(flat) = {}
      BY <1>1, <2>1, <2>2 DEF ToSet
    <3> QED BY <1>2, <1>5, <3>1 DEF flat, joined
  <2>3. CASE Len(flat) = 1
    <3>1. joined = flat[1] /\ ToSet(flat) = {joined} /\ flat[1] \in T
      BY <1>1, <2>1, <2>3 DEF ToSet
    <3> QED BY <1>2, <1>5, <3>1 DEF flat, joined
  <2>4. CASE Len(flat) # 0 /\ Len(flat) # 1
    <3>1. joined = [kind |-> kind, items |-> flat]
      BY <2>1, <2>4
    <3>2. Len(flat) >= 2
      <4> DEFINE len == Len(flat)
      <4>1. len \in Nat
        BY <1>1
      <4>2. len # 0 /\ len # 1
        BY <2>4
      <4> HIDE DEF len
      <4>3. len >= 2
        BY <4>1, <4>2
      <4> QED BY <4>3 DEF len
    <3>3. joined \in Over(Leaves, T)
      BY <1>1, <3>1 DEF Over
    <3> QED BY <1>3, <1>5, <3>1, <3>2, <3>3 DEF flat, joined
  <2> QED BY <2>2, <2>3, <2>4
<1> QED BY <1>4, <1>5

LEMMA ConstantsHold ==
  ASSUME NEW pass \in [Atoms -> BOOLEAN]
  PROVE  /\ True \in Trees /\ Holds(True, pass)
         /\ False \in Trees /\ ~ Holds(False, pass)
<1>1. True \in Leaves /\ False \in Leaves /\ True \notin Atoms /\ False \notin Atoms
  BY DEF Leaves, Constants, True, False, Atoms, Tests, Relations
<1>2. Leaves \subseteq Trees
  <2>1. 0 \in 0..(Depth + 4) /\ Tree(Leaves, 0) = Leaves
    BY DepthAssumption, TreeDef
  <2> QED BY <2>1, Levels
<1>3. Holds(True, pass) /\ ~ Holds(False, pass)
  BY <1>1, <1>2, HoldsDef DEF True, False
<1> QED BY <1>1, <1>2, <1>3

(* A conjunction says what all its items say, and a disjunction what some does. *)
LEMMA JoinedHolds ==
  ASSUME NEW pass \in [Atoms -> BOOLEAN], NEW n \in 0..(Depth + 3), NEW items \in Seq(Tree(Leaves, n))
  PROVE  /\ And(items) \in Tree(Leaves, n + 1)
         /\ Holds(And(items), pass) <=> \A i \in DOMAIN items : Holds(items[i], pass)
         /\ Or(items) \in Tree(Leaves, n + 1)
         /\ Holds(Or(items), pass) <=> \E i \in DOMAIN items : Holds(items[i], pass)
<1> DEFINE T == Tree(Leaves, n)
           H(c) == Holds(c, pass)
<1>1. n \in Nat /\ n + 1 \in 0..(Depth + 4) /\ T \subseteq Trees /\ Tree(Leaves, n + 1) \subseteq Trees
  BY DepthAssumption, Levels
<1>2. True \in Constants /\ False \in Constants /\ H(True) /\ ~ H(False)
  BY ConstantsHold DEF Constants
<1>3. And(items) = Joined("and", True, False, items) /\ Or(items) = Joined("or", False, True, items)
  BY DEF And, Or
<1>4. H(And(items)) <=> \A i \in DOMAIN items : H(items[i])
  <2> DEFINE flat == Flat("and", True, items)
             spread(c) == Spread("and", True, c)
  <2>1. ASSUME NEW i \in DOMAIN items PROVE H(items[i]) <=> \A y \in ToSet(spread(items[i])) : H(y)
    <3>1. items[i] \in T /\ items[i] \in Trees
      BY <1>1
    <3> DEFINE c == items[i]
    <3> HIDE DEF c, T
    <3>2. CASE c = True /\ ToSet(spread(c)) = {}
      BY <3>2, <1>2 DEF c
    <3>3. CASE c.kind = "and" /\ spread(c) = c.items
      <4>1. H(c) <=> \A j \in DOMAIN c.items : H(c.items[j])
        <5>1. c \in Trees /\ c \notin Atoms
          BY <3>1, <3>3 DEF c, Atoms, Tests, Relations
        <5> QED BY <3>3, <5>1, HoldsDef
      <4>2. ToSet(spread(c)) = {c.items[j] : j \in DOMAIN c.items}
        BY <3>3 DEF ToSet
      <4> HIDE DEF H
      <4> QED BY <4>1, <4>2 DEF c
    <3>4. CASE ToSet(spread(c)) = {c}
      BY <3>4 DEF c
    <3>5. \/ c = True /\ ToSet(spread(c)) = {}
          \/ c # True /\ c.kind = "and" /\ spread(c) = c.items
          \/ c # True /\ c.kind # "and" /\ ToSet(spread(c)) = {c}
      BY <1>1, <1>2, <3>1, SpreadDef DEF c, T
    <3> QED BY <3>2, <3>3, <3>4, <3>5
  <2>2. flat \in Seq(T) /\ ToSet(flat) = UNION {ToSet(spread(items[i])) : i \in DOMAIN items}
    BY <1>1, <1>2, FlatDef DEF SpreadOut
  <2>3. (\A y \in ToSet(flat) : H(y)) <=> \A i \in DOMAIN items : H(items[i])
    <3> HIDE DEF spread, flat, H
    <3> QED BY <2>1, <2>2
  <2> DEFINE c == And(items)
  <2>4. /\ c \in Tree(Leaves, n + 1)
        /\ \/ c = False /\ \E i \in DOMAIN items : items[i] = False
           \/ /\ \A i \in DOMAIN items : items[i] # False
              /\ \/ c = True /\ ToSet(flat) = {}
                 \/ c = flat[1] /\ ToSet(flat) = {c}
                 \/ c = [kind |-> "and", items |-> flat] /\ Len(flat) >= 2
    BY <1>1, <1>2, <1>3, JoinedDef
  <2>5. c.kind = "and" => (H(c) <=> \A j \in DOMAIN c.items : H(c.items[j]))
    BY <1>1, <2>4, HoldsDef DEF Atoms, Tests, Relations
  <2> HIDE DEF c, flat, H, T
  <2>6. CASE c = False /\ \E i \in DOMAIN items : items[i] = False
    BY <1>2, <2>6 DEF c
  <2>7. CASE c = True /\ ToSet(flat) = {}
    BY <1>2, <2>3, <2>7 DEF c
  <2>8. CASE ToSet(flat) = {c}
    BY <2>3, <2>8 DEF c
  <2>9. CASE c = [kind |-> "and", items |-> flat]
    <3>1. c.kind = "and" /\ c.items = flat
      BY <2>9
    <3> QED BY <2>3, <2>5, <3>1 DEF c, ToSet
  <2> QED BY <2>4, <2>6, <2>7, <2>8, <2>9
<1>5. H(Or(items)) <=> \E i \in DOMAIN items : H(items[i])
  <2> DEFINE flat == Flat("or", False, items)
             spread(c) == Spread("or", False, c)
  <2>1. ASSUME NEW i \in DOMAIN items PROVE H(items[i]) <=> \E y \in ToSet(spread(items[i])) : H(y)
    <3>1. items[i] \in T /\ items[i] \in Trees
      BY <1>1
    <3> DEFINE c == items[i]
    <3> HIDE DEF c, T
    <3>2. CASE c = False /\ ToSet(spread(c)) = {}
      BY <3>2, <1>2 DEF c
    <3>3. CASE c.kind = "or" /\ spread(c) = c.items
      <4>1. H(c) <=> \E j \in DOMAIN c.items : H(c.items[j])
        <5>1. c \in Trees /\ c \notin Atoms
          BY <3>1, <3>3 DEF c, Atoms, Tests, Relations
        <5> QED BY <3>3, <5>1, HoldsDef
      <4>2. ToSet(spread(c)) = {c.items[j] : j \in DOMAIN c.items}
        BY <3>3 DEF ToSet
      <4> HIDE DEF H
      <4> QED BY <4>1, <4>2 DEF c
    <3>4. CASE ToSet(spread(c)) = {c}
      BY <3>4 DEF c
    <3>5. \/ c = False /\ ToSet(spread(c)) = {}
          \/ c # False /\ c.kind = "or" /\ spread(c) = c.items
          \/ c # False /\ c.kind # "or" /\ ToSet(spread(c)) = {c}
      BY <1>1, <1>2, <3>1, SpreadDef DEF c, T
    <3> QED BY <3>2, <3>3, <3>4, <3>5
  <2>2. flat \in Seq(T) /\ ToSet(flat) = UNION {ToSet(spread(items[i])) : i \in DOMAIN items}
    BY <1>1, <1>2, FlatDef DEF SpreadOut
  <2>3. (\E y \in ToSet(flat) : H(y)) <=> \E i \in DOMAIN items : H(items[i])
    <3> HIDE DEF spread, flat, H
    <3> QED BY <2>1, <2>2
  <2> DEFINE c == Or(items)
  <2>4. /\ c \in Tree(Leaves, n + 1)
        /\ \/ c = True /\ \E i \in DOMAIN items : items[i] = True
           \/ /\ \A i \in DOMAIN items : items[i] # True
              /\ \/ c = False /\ ToSet(flat) = {}
                 \/ c = flat[1] /\ ToSet(flat) = {c}
                 \/ c = [kind |-> "or", items |-> flat] /\ Len(flat) >= 2
    BY <1>1, <1>2, <1>3, JoinedDef
  <2>5. c.kind = "or" => (H(c) <=> \E j \in DOMAIN c.items : H(c.items[j]))
    BY <1>1, <2>4, HoldsDef DEF Atoms, Tests, Relations
  <2> HIDE DEF c, flat, H, T
  <2>6. CASE c = True /\ \E i \in DOMAIN items : items[i] = True
    BY <1>2, <2>6 DEF c
  <2>7. CASE c = False /\ ToSet(flat) = {}
    BY <1>2, <2>3, <2>7 DEF c
  <2>8. CASE ToSet(flat) = {c}
    BY <2>3, <2>8 DEF c
  <2>9. CASE c = [kind |-> "or", items |-> flat]
    <3>1. c.kind = "or" /\ c.items = flat
      BY <2>9
    <3> QED BY <2>3, <2>5, <3>1 DEF c, ToSet
  <2> QED BY <2>4, <2>6, <2>7, <2>8, <2>9
<1>6. And(items) \in Tree(Leaves, n + 1) /\ Or(items) \in Tree(Leaves, n + 1)
  BY <1>1, <1>2, <1>3, JoinedDef
<1> QED BY <1>4, <1>5, <1>6

LEMMA NotHolds ==
  ASSUME NEW pass \in [Atoms -> BOOLEAN], NEW n \in 0..(Depth + 3), NEW c \in Tree(Leaves, n)
  PROVE  Not(c) \in Tree(Leaves, n + 1) /\ (Holds(Not(c), pass) <=> ~ Holds(c, pass))
<1>1. n \in Nat /\ n + 1 \in 0..(Depth + 4) /\ c \in Trees /\ Tree(Leaves, n + 1) \subseteq Trees
      /\ Tree(Leaves, n) \subseteq Tree(Leaves, n + 1)
  BY DepthAssumption, Levels, TreeMonotone
<1>2. True \in Tree(Leaves, n + 1) /\ False \in Tree(Leaves, n + 1) /\ Holds(True, pass) /\ ~ Holds(False, pass)
  <2>1. Leaves \subseteq Tree(Leaves, n + 1)
    <3>1. Tree(Leaves, 0) = Leaves /\ 0 <= n + 1
      BY <1>1, TreeDef
    <3> QED BY <1>1, <3>1, TreeMonotone
  <2> QED BY <2>1, ConstantsHold DEF Leaves, Constants
<1>3. CASE c = True \/ c = False
  <2>1. True.kind # False.kind /\ True.kind # "not" /\ False.kind # "not"
    BY DEF True, False
  <2>2. Not(c) = IF c = True THEN False ELSE True
    BY <1>3, <2>1 DEF Not
  <2> QED BY <1>2, <1>3, <2>1, <2>2
<1>4. CASE c.kind = "not"
  <2>1. True.kind # "not" /\ False.kind # "not"
    BY DEF True, False
  <2>2. Not(c) = c.item
    BY <1>4, <2>1 DEF Not
  <2>3. n # 0 /\ c.item \in Tree(Leaves, n - 1)
    BY <1>1, <1>4, Nodes DEF LeafKinds
  <2>4. c.item \in Tree(Leaves, n + 1)
    BY <1>1, <2>3, TreeMonotone, n - 1 \in Nat
  <2>5. c \notin Atoms
    BY <1>4 DEF Atoms, Tests, Relations
  <2> QED BY <1>1, <1>4, <2>2, <2>4, <2>5, HoldsDef
<1>5. CASE c # True /\ c # False /\ c.kind # "not"
  <2>1. Not(c) = Negation(c)
    BY <1>5 DEF Not
  <2>2. Negation(c) \in Tree(Leaves, n + 1)
    <3>1. Tree(Leaves, n + 1) = Over(Leaves, Tree(Leaves, n))
      BY <1>1, TreeDef
    <3> QED BY <3>1 DEF Over, Negation
  <2>3. Negation(c).kind = "not" /\ Negation(c).item = c /\ Negation(c) \notin Atoms
    BY DEF Negation, Atoms, Tests, Relations
  <2> QED BY <1>1, <2>1, <2>2, <2>3, HoldsDef
<1> QED BY <1>3, <1>4, <1>5

(***************************************************************************)
(* The equation of Rebuild; what it makes of a tree nests no deeper.       *)
(***************************************************************************)
RebuiltFrom(c, f, r, atom) ==
  /\ c.kind = "and" => r = And([i \in DOMAIN c.items |-> f[c.items[i]]])
  /\ c.kind = "or" => r = Or([i \in DOMAIN c.items |-> f[c.items[i]]])
  /\ c.kind = "not" => r = Not(f[c.item])
  /\ c \in Atoms => r = atom[c]
  /\ c.kind \notin {"and", "or", "not"} /\ c \notin Atoms => r = c

LEMMA RebuildDef ==
  ASSUME NEW atom \in [Atoms -> Leaves]
  PROVE  \E f \in [Trees -> Trees] :
           /\ \A c : Rebuild(c, atom) = f[c]
           /\ \A n \in 0..(Depth + 4) : \A c \in Tree(Leaves, n) : f[c] \in Tree(Leaves, n)
           /\ \A c \in Trees : RebuiltFrom(c, f, f[c], atom)
<1> DEFINE At(f, x) ==
             CASE x.kind = "and" -> And(Map(LAMBDA y : f[y], x.items))
               [] x.kind = "or" -> Or(Map(LAMBDA y : f[y], x.items))
               [] x.kind = "not" -> Not(f[x.item])
               [] x \in Atoms -> atom[x]
               [] OTHER -> x
           Is(f) == f = [x \in Trees |-> At(f, x)]
           of(x, vs) ==
             IF x.kind = "and" THEN And(vs) ELSE IF x.kind = "or" THEN Or(vs)
             ELSE IF x.kind = "not" THEN Not(vs[1]) ELSE IF x \in Atoms THEN atom[x] ELSE x
           step == [p \in Trees \X Seq(Trees) |-> of(p[1], p[2])]
           V == [n \in Nat |-> Tree(Leaves, n)]
<1>a. PICK anyPass \in [Atoms -> BOOLEAN] : TRUE
  <2> [x \in Atoms |-> TRUE] \in [Atoms -> BOOLEAN]
    OBVIOUS
  <2> QED OBVIOUS
<1>1. KeepsTo(step, V)
  <2> SUFFICES ASSUME NEW n \in 0..(Depth + 4), NEW x \in Tree(Leaves, n),
                      NEW vs \in Seq(IF n = 0 THEN {} ELSE V[n - 1]), Len(vs) = Len(Kids(x))
               PROVE  step[<<x, vs>>] \in V[n]
    BY DEF KeepsTo
  <2>1. x \in Trees /\ V[n] = Tree(Leaves, n) /\ n \in Nat
    BY Levels
  <2>2. n # 0 => n - 1 \in 0..(Depth + 3) /\ V[n - 1] = Tree(Leaves, n - 1) /\ Tree(Leaves, n - 1) \subseteq Trees
    <3> SUFFICES ASSUME n # 0 PROVE n - 1 \in 0..(Depth + 3) /\ V[n - 1] = Tree(Leaves, n - 1) /\ Tree(Leaves, n - 1) \subseteq Trees
      OBVIOUS
    <3>1. n - 1 \in 0..(Depth + 3) /\ n - 1 \in 0..(Depth + 4) /\ n - 1 \in Nat
      BY DepthAssumption
    <3> QED BY <3>1, Levels
  <2> HIDE DEF V
  <2>3. vs \in Seq(IF n = 0 THEN {} ELSE Tree(Leaves, n - 1))
    BY <2>2
  <2>4. vs \in Seq(Trees)
    BY <2>2, <2>3
  <2>5. step[<<x, vs>>] = of(x, vs)
    BY <2>1, <2>4
  <2>6. of(x, vs) \in Tree(Leaves, n)
    <3>1. CASE x.kind \in {"and", "or"}
      <4>1. n # 0
        BY <2>1, <3>1, Nodes DEF LeafKinds
      <4> DEFINE m == n - 1
      <4>2. m \in 0..(Depth + 3) /\ vs \in Seq(Tree(Leaves, m)) /\ m + 1 = n
        BY <2>2, <2>3, <4>1
      <4> HIDE DEF m
      <4>3. And(vs) \in Tree(Leaves, m + 1) /\ Or(vs) \in Tree(Leaves, m + 1)
        BY <4>2, <1>a, JoinedHolds
      <4> QED BY <3>1, <4>2, <4>3
    <3>2. CASE x.kind = "not"
      <4>1. n # 0 /\ Len(vs) = 1
        BY <2>1, <3>2, Nodes DEF LeafKinds
      <4> DEFINE m == n - 1
      <4>2. m \in 0..(Depth + 3) /\ vs \in Seq(Tree(Leaves, m)) /\ m + 1 = n
        BY <2>2, <2>3, <4>1
      <4> HIDE DEF m
      <4>3. vs[1] \in Tree(Leaves, m)
        <5> DEFINE U == Tree(Leaves, m)
        <5>1. vs \in Seq(U)
          BY <4>2
        <5> HIDE DEF U
        <5>2. vs[1] \in U
          BY <4>1, <5>1, OneItem
        <5> QED BY <5>2 DEF U
      <4>4. Not(vs[1]) \in Tree(Leaves, m + 1)
        BY <4>2, <4>3, <1>a, NotHolds
      <4> QED BY <3>2, <4>2, <4>4
    <3>3. CASE x.kind \notin {"and", "or", "not"}
      <4>1. x \in Leaves
        BY <2>1, <3>3, Nodes
      <4>2. Leaves \subseteq Tree(Leaves, n)
        <5>1. Tree(Leaves, 0) = Leaves /\ 0 <= n
          BY <2>1, TreeDef
        <5> QED BY <2>1, <5>1, TreeMonotone
      <4> QED BY <3>3, <4>1, <4>2
    <3> QED BY <3>1, <3>2, <3>3
  <2> HIDE DEF of
  <2> QED BY <2>1, <2>5, <2>6
<1>2. PICK f \in [Trees -> V[Depth + 4]] : Folds(f, step) /\ Graded(f, V)
  <2> HIDE DEF step, V
  <2> QED BY <1>1, TreeRecursion
<1>3. f \in [Trees -> Trees]
  BY DepthAssumption, Depth + 4 \in Nat DEF Trees
<1>4. ASSUME NEW x \in Trees, NEW g, NEW W, g \in [Trees -> W]
      PROVE  /\ x.kind = "and" => At(g, x) = And([i \in DOMAIN x.items |-> g[x.items[i]]])
             /\ x.kind = "or" => At(g, x) = Or([i \in DOMAIN x.items |-> g[x.items[i]]])
             /\ x.kind = "not" => At(g, x) = Not(g[x.item])
             /\ x \in Atoms => At(g, x) = atom[x]
             /\ x.kind \notin {"and", "or", "not"} /\ x \notin Atoms => At(g, x) = x
  <2>1. CASE x.kind \in {"and", "or"}
    <3> DEFINE s == [i \in DOMAIN x.items |-> g[x.items[i]]]
    <3>1. x.items \in Seq(Trees)
      BY <2>1, KidsOfKinds
    <3>2. s \in Seq(W)
      BY <1>4, <3>1
    <3>3. s \o << >> = s
      BY <3>2, ConcatEmptySeq
    <3>4. Map(LAMBDA y : g[y], x.items) = s
      BY <3>3 DEF Map
    <3>5. x \notin Atoms
      BY <2>1 DEF Atoms, Tests, Relations
    <3> HIDE DEF s
    <3>6. x.kind = "and" => At(g, x) = And(s)
      BY <3>4, <3>5
    <3>7. x.kind = "or" => At(g, x) = Or(s)
      BY <3>4, <3>5
    <3> HIDE DEF At
    <3> QED BY <2>1, <3>5, <3>6, <3>7 DEF s
  <2>2. CASE x.kind = "not"
    <3>1. x \notin Atoms
      BY <2>2 DEF Atoms, Tests, Relations
    <3> QED BY <2>2, <3>1
  <2>3. CASE x.kind \notin {"and", "or", "not"}
    BY <2>3
  <2> QED BY <2>1, <2>2, <2>3
<1>5. ASSUME NEW x \in Trees PROVE f[x] = At(f, x)
  <2> DEFINE vs == OfKids(f, x)
  <2>1. vs \in Seq(Trees)
    BY <1>3, OfKidsOfKinds
  <2>2. x.kind \in {"and", "or"} => vs = [i \in DOMAIN x.items |-> f[x.items[i]]]
    BY KidsOfKinds DEF OfKids
  <2>3. x.kind = "not" => vs[1] = f[x.item]
    BY <1>3, OfKidsOfKinds
  <2>4. f[x] = step[<<x, vs>>]
    BY <1>2 DEF Folds
  <2> HIDE DEF vs
  <2>5. f[x] = of(x, vs)
    <3> HIDE DEF of
    <3> QED BY <2>1, <2>4
  <2>6. x \in Atoms => x.kind \notin {"and", "or", "not"}
    BY DEF Atoms, Tests, Relations
  <2>7. of(x, vs) = At(f, x)
    <3> HIDE DEF At
    <3>1. /\ x.kind = "and" => At(f, x) = And([i \in DOMAIN x.items |-> f[x.items[i]]])
          /\ x.kind = "or" => At(f, x) = Or([i \in DOMAIN x.items |-> f[x.items[i]]])
          /\ x.kind = "not" => At(f, x) = Not(f[x.item])
          /\ x \in Atoms => At(f, x) = atom[x]
          /\ x.kind \notin {"and", "or", "not"} /\ x \notin Atoms => At(f, x) = x
      BY <1>4, <1>3
    <3> QED BY <3>1, <2>2, <2>3, <2>6
  <2> QED BY <2>5, <2>7
<1>6. Is(f)
  <2> HIDE DEF At
  <2> QED BY <1>3, <1>5
<1> DEFINE h == CHOOSE g : Is(g)
<1>7. Is(h)
  <2> HIDE DEF Is
  <2> QED BY <1>6
<1>8. ASSUME NEW x PROVE Rebuild(x, atom) = h[x]
  BY DEF Rebuild
<1> HIDE DEF h
<1> DEFINE W == {h[x] : x \in Trees}
<1>9. h \in [Trees -> W] /\ \A x \in Trees : h[x] = At(h, x)
  <2> HIDE DEF At
  <2> QED BY <1>7
<1>10. \A x \in Trees : h[x] = f[x]
  <2> DEFINE S == {x \in Trees : h[x] = f[x]}
  <2>1. ASSUME NEW x \in Trees, \A i \in DOMAIN Kids(x) : Kids(x)[i] \in S PROVE x \in S
    <3>1. x.kind \in {"and", "or"} => \A i \in DOMAIN x.items : h[x.items[i]] = f[x.items[i]]
      BY <2>1, KidsOfKinds
    <3>2. x.kind \in {"and", "or"} => [i \in DOMAIN x.items |-> h[x.items[i]]] = [i \in DOMAIN x.items |-> f[x.items[i]]]
      BY <3>1
    <3>3. x.kind = "not" => h[x.item] = f[x.item]
      BY <2>1, KidsOfKinds
    <3> HIDE DEF At, W
    <3>a. /\ x.kind = "and" => At(f, x) = And([i \in DOMAIN x.items |-> f[x.items[i]]])
          /\ x.kind = "or" => At(f, x) = Or([i \in DOMAIN x.items |-> f[x.items[i]]])
          /\ x.kind = "not" => At(f, x) = Not(f[x.item])
          /\ x \in Atoms => At(f, x) = atom[x]
          /\ x.kind \notin {"and", "or", "not"} /\ x \notin Atoms => At(f, x) = x
      BY <1>4, <1>3
    <3>b. /\ x.kind = "and" => At(h, x) = And([i \in DOMAIN x.items |-> h[x.items[i]]])
          /\ x.kind = "or" => At(h, x) = Or([i \in DOMAIN x.items |-> h[x.items[i]]])
          /\ x.kind = "not" => At(h, x) = Not(h[x.item])
          /\ x \in Atoms => At(h, x) = atom[x]
          /\ x.kind \notin {"and", "or", "not"} /\ x \notin Atoms => At(h, x) = x
      BY <1>4, <1>9
    <3>4. At(h, x) = At(f, x)
      BY <3>a, <3>b, <3>2, <3>3
    <3> QED BY <1>5, <1>9, <3>4
  <2> HIDE DEF S
  <2>2. Trees \subseteq S
    BY <2>1, TreeInduction
  <2> QED BY <2>2 DEF S
<1> HIDE DEF At, W
<1>11. h = f
  BY <1>3, <1>9, <1>10
<1>12. \A n \in 0..(Depth + 4) : \A c \in Tree(Leaves, n) : f[c] \in Tree(Leaves, n)
  BY <1>2 DEF Graded
<1>13. \A c \in Trees : RebuiltFrom(c, f, f[c], atom)
  BY <1>3, <1>4, <1>5 DEF RebuiltFrom
<1> QED BY <1>3, <1>8, <1>11, <1>12, <1>13

(* What a rebuilt tree says: what the tree says, with each atom read as what it became. *)
LEMMA RebuiltHolds ==
  ASSUME NEW atom \in [Atoms -> Leaves], NEW pass \in [Atoms -> BOOLEAN], NEW c \in Trees
  PROVE  Holds(Rebuild(c, atom), pass) <=> Holds(c, [x \in Atoms |-> Holds(atom[x], pass)])
<1> DEFINE read == [x \in Atoms |-> Holds(atom[x], pass)]
           H(x) == Holds(x, pass)
           R(x) == Holds(x, read)
<1>1. Leaves \subseteq Trees
  <2>1. 0 \in 0..(Depth + 4) /\ Tree(Leaves, 0) = Leaves
    BY DepthAssumption, TreeDef
  <2> QED BY <2>1, Levels
<1>2. read \in [Atoms -> BOOLEAN]
  BY <1>1, HoldsDef
<1>3. PICK f \in [Trees -> Trees] :
        /\ \A x : Rebuild(x, atom) = f[x]
        /\ \A n \in 0..(Depth + 4) : \A x \in Tree(Leaves, n) : f[x] \in Tree(Leaves, n)
        /\ \A x \in Trees : RebuiltFrom(x, f, f[x], atom)
  BY RebuildDef
<1> DEFINE S == {x \in Trees : H(f[x]) <=> R(x)}
<1>4. ASSUME NEW x \in Trees, \A i \in DOMAIN Kids(x) : Kids(x)[i] \in S PROVE x \in S
  <2> DEFINE n == Depth + 3
  <2>1. n \in 0..(Depth + 3) /\ n \in Nat /\ n + 1 = Depth + 4
    BY DepthAssumption
  <2>2. Kids(x) \in Seq(Tree(Leaves, n)) /\ n \in 0..(Depth + 4)
    BY <2>1, KidsNestLess DEF Trees
  <2>3. RebuiltFrom(x, f, f[x], atom)
    BY <1>3
  <2>4. \A y \in Tree(Leaves, n) : f[y] \in Tree(Leaves, n)
    BY <1>3, <2>2
  <2> HIDE DEF read, n
  <2>5. R(x) <=> \/ x.kind = "true"
                 \/ x.kind = "not" /\ ~ R(x.item)
                 \/ x.kind = "and" /\ \A i \in DOMAIN x.items : R(x.items[i])
                 \/ x.kind = "or" /\ \E i \in DOMAIN x.items : R(x.items[i])
                 \/ x \in Atoms /\ read[x]
    BY <1>2, HoldsDef
  <2>6. x \in Atoms => x.kind \notin {"and", "or", "not", "true"}
    BY DEF Atoms, Tests, Relations
  <2>7. CASE x.kind \in {"and", "or"}
    <3> DEFINE s == [i \in DOMAIN x.items |-> f[x.items[i]]]
    <3>1. x.items = Kids(x)
      BY <2>7, KidsOfKinds
    <3>2. s \in Seq(Tree(Leaves, n)) /\ DOMAIN s = DOMAIN x.items
      BY <2>2, <2>4, <3>1
    <3>3. \A i \in DOMAIN x.items : H(s[i]) <=> R(x.items[i])
      BY <1>4, <3>1
    <3> HIDE DEF s
    <3>4. /\ H(And(s)) <=> \A i \in DOMAIN s : H(s[i])
          /\ H(Or(s)) <=> \E i \in DOMAIN s : H(s[i])
      BY <2>1, <3>2, JoinedHolds
    <3>5. x.kind = "and" => f[x] = And(s)
      BY <2>3 DEF RebuiltFrom, s
    <3>6. x.kind = "or" => f[x] = Or(s)
      BY <2>3 DEF RebuiltFrom, s
    <3> HIDE DEF H, R
    <3>7. CASE x.kind = "and"
      BY <2>5, <2>6, <3>2, <3>3, <3>4, <3>5, <3>7
    <3>8. CASE x.kind = "or"
      BY <2>5, <2>6, <3>2, <3>3, <3>4, <3>6, <3>8
    <3> QED BY <2>7, <3>7, <3>8
  <2>8. CASE x.kind = "not"
    <3>1. Kids(x) = <<x.item>>
      BY <2>8, KidsOfKinds
    <3>2. x.item \in Tree(Leaves, n) /\ x.item \in S
      <4>1. 1 \in DOMAIN Kids(x) /\ Kids(x)[1] = x.item
        BY <3>1
      <4> HIDE DEF S
      <4> QED BY <1>4, <2>2, <4>1
    <3>3. f[x] = Not(f[x.item])
      BY <2>3, <2>8 DEF RebuiltFrom
    <3>4. H(f[x]) <=> ~ H(f[x.item])
      BY <2>1, <2>4, <3>2, <3>3, NotHolds
    <3> HIDE DEF H, R
    <3> QED BY <2>5, <2>6, <2>8, <3>2, <3>4
  <2>9. CASE x.kind \notin {"and", "or", "not"}
    <3>1. CASE x \in Atoms
      <4>1. f[x] = atom[x]
        BY <2>3, <3>1 DEF RebuiltFrom
      <4>2. R(x) <=> read[x]
        BY <2>5, <2>6, <3>1
      <4>3. read[x] = H(atom[x])
        BY <3>1 DEF read
      <4> HIDE DEF H, R
      <4> QED BY <4>1, <4>2, <4>3
    <3>2. CASE x \notin Atoms
      <4>1. f[x] = x
        BY <2>3, <2>9, <3>2 DEF RebuiltFrom
      <4>2. H(x) <=> x.kind = "true"
        BY <2>9, <3>2, HoldsDef
      <4>3. R(x) <=> x.kind = "true"
        BY <2>5, <2>9, <3>2
      <4> HIDE DEF H, R
      <4> QED BY <4>1, <4>2, <4>3
    <3> QED BY <3>1, <3>2
  <2> QED BY <2>7, <2>8, <2>9
<1> HIDE DEF S
<1>5. Trees \subseteq S
  BY <1>4, TreeInduction
<1> HIDE DEF read
<1>6. H(f[c]) <=> R(c)
  BY <1>5 DEF S
<1> QED BY <1>3, <1>6 DEF read

(*------------------------ the leaves of a tree ---------------------------*)

LEMMA LeavesOfDef ==
  /\ \A c \in Trees : LeavesOf(c) \subseteq Leaves
  /\ \A c \in Trees : c.kind \in {"and", "or"} => LeavesOf(c) = UNION {LeavesOf(c.items[i]) : i \in DOMAIN c.items}
  /\ \A c \in Trees : c.kind = "not" => LeavesOf(c) = LeavesOf(c.item)
  /\ \A c \in Trees : c.kind \notin {"and", "or", "not"} => LeavesOf(c) = {c}
<1> DEFINE At(f, x) ==
             CASE x.kind \in {"and", "or"} -> UNION {f[x.items[i]] : i \in DOMAIN x.items}
               [] x.kind = "not" -> f[x.item]
               [] OTHER -> {x}
           Is(f) == f = [x \in Trees |-> At(f, x)]
           of(x, vs) ==
             IF x.kind \in {"and", "or"} THEN UNION {vs[i] : i \in DOMAIN vs}
             ELSE IF x.kind = "not" THEN vs[1] ELSE {x}
           step == [p \in Trees \X Seq(SUBSET Leaves) |-> of(p[1], p[2])]
           V == [n \in Nat |-> SUBSET Leaves]
<1>1. KeepsTo(step, V)
  <2> SUFFICES ASSUME NEW n \in 0..(Depth + 4), NEW x \in Tree(Leaves, n),
                      NEW vs \in Seq(IF n = 0 THEN {} ELSE V[n - 1]), Len(vs) = Len(Kids(x))
               PROVE  step[<<x, vs>>] \in V[n]
    BY DEF KeepsTo
  <2>1. x \in Trees /\ V[n] = SUBSET Leaves
    BY Levels
  <2>2. vs \in Seq(SUBSET Leaves)
    <3>1. CASE n = 0
      BY <3>1
    <3>2. CASE n # 0
      BY <3>2, n - 1 \in Nat
    <3> QED BY <3>1, <3>2
  <2> HIDE DEF of, V
  <2>3. step[<<x, vs>>] = of(x, vs)
    BY <2>1, <2>2
  <2>4. of(x, vs) \in SUBSET Leaves
    <3>1. CASE x.kind \in {"and", "or"}
      <4>1. of(x, vs) = UNION {vs[i] : i \in DOMAIN vs}
        BY <3>1 DEF of
      <4>2. \A i \in DOMAIN vs : vs[i] \subseteq Leaves
        BY <2>2
      <4> QED BY <4>1, <4>2
    <3>2. CASE x.kind = "not"
      <4>1. Len(vs) = 1
        <5>1. Kids(x) = <<x.item>>
          BY <2>1, <3>2, KidsOfKinds
        <5> QED BY <5>1
      <4>2. vs[1] \in SUBSET Leaves
        BY <2>2, <4>1, OneItem
      <4> QED BY <3>2, <4>2 DEF of
    <3>3. CASE x.kind \notin {"and", "or", "not"}
      BY <2>1, <3>3, KidsOfKinds DEF of
    <3> QED BY <3>1, <3>2, <3>3
  <2> QED BY <2>1, <2>3, <2>4
<1>2. PICK f \in [Trees -> V[Depth + 4]] : Folds(f, step)
  <2> HIDE DEF step, V
  <2> QED BY <1>1, TreeRecursion
<1>3. f \in [Trees -> SUBSET Leaves]
  BY DepthAssumption, Depth + 4 \in Nat
<1>4. ASSUME NEW x \in Trees PROVE f[x] = At(f, x)
  <2> DEFINE vs == OfKids(f, x)
  <2>1. vs \in Seq(SUBSET Leaves)
    BY <1>3, OfKidsOfKinds
  <2>2. x.kind \in {"and", "or"} => DOMAIN vs = DOMAIN x.items /\ \A i \in DOMAIN x.items : vs[i] = f[x.items[i]]
    BY <1>3, OfKidsOfKinds
  <2>3. x.kind = "not" => vs[1] = f[x.item]
    BY <1>3, OfKidsOfKinds
  <2>4. f[x] = step[<<x, vs>>]
    BY <1>2 DEF Folds
  <2> HIDE DEF vs
  <2>5. f[x] = of(x, vs)
    <3> HIDE DEF of
    <3> QED BY <2>1, <2>4
  <2>6. CASE x.kind \in {"and", "or"}
    <3>1. {vs[i] : i \in DOMAIN vs} = {f[x.items[i]] : i \in DOMAIN x.items}
      BY <2>2, <2>6
    <3> QED BY <2>5, <2>6, <3>1
  <2>7. CASE x.kind = "not"
    BY <2>3, <2>5, <2>7
  <2>8. CASE x.kind \notin {"and", "or", "not"}
    BY <2>5, <2>8
  <2> QED BY <2>6, <2>7, <2>8
<1>5. Is(f)
  <2> HIDE DEF At
  <2> QED BY <1>3, <1>4
<1> DEFINE h == CHOOSE g : Is(g)
<1>6. Is(h)
  <2> HIDE DEF Is
  <2> QED BY <1>5
<1>7. ASSUME NEW x PROVE LeavesOf(x) = h[x]
  BY DEF LeavesOf
<1> HIDE DEF h
<1>8. ASSUME NEW x \in Trees
      PROVE  /\ x.kind \in {"and", "or"} => h[x] = UNION {h[x.items[i]] : i \in DOMAIN x.items}
             /\ x.kind = "not" => h[x] = h[x.item]
             /\ x.kind \notin {"and", "or", "not"} => h[x] = {x}
  <2>1. h[x] = At(h, x)
    <3> HIDE DEF At
    <3> QED BY <1>6
  <2>2. CASE x.kind \in {"and", "or"}
    BY <2>1, <2>2
  <2>3. CASE x.kind = "not"
    BY <2>1, <2>3
  <2>4. CASE x.kind \notin {"and", "or", "not"}
    BY <2>1, <2>4
  <2> QED BY <2>2, <2>3, <2>4
<1>9. \A x \in Trees : h[x] \subseteq Leaves
  <2> DEFINE S == {x \in Trees : h[x] \subseteq Leaves}
  <2>1. ASSUME NEW x \in Trees, \A i \in DOMAIN Kids(x) : Kids(x)[i] \in S PROVE x \in S
    <3>1. CASE x.kind \in {"and", "or"}
      <4>1. \A i \in DOMAIN x.items : h[x.items[i]] \subseteq Leaves
        BY <2>1, <3>1, KidsOfKinds
      <4> QED BY <1>8, <3>1, <4>1
    <3>2. CASE x.kind = "not"
      <4>1. h[x.item] \subseteq Leaves
        BY <2>1, <3>2, KidsOfKinds
      <4> QED BY <1>8, <3>2, <4>1
    <3>3. CASE x.kind \notin {"and", "or", "not"}
      BY <1>8, <3>3, KidsOfKinds
    <3> QED BY <3>1, <3>2, <3>3
  <2> HIDE DEF S
  <2>2. Trees \subseteq S
    BY <2>1, TreeInduction
  <2> QED BY <2>2 DEF S
<1> QED BY <1>7, <1>8, <1>9

(* What a tree says depends on its own atoms alone. *)
LEMMA HoldsByLeaves ==
  ASSUME NEW pass \in [Atoms -> BOOLEAN], NEW other \in [Atoms -> BOOLEAN], NEW c \in Trees,
         \A x \in LeavesOf(c) \cap Atoms : pass[x] = other[x]
  PROVE  Holds(c, pass) <=> Holds(c, other)
<1> DEFINE Same(x) == Holds(x, pass) <=> Holds(x, other)
           S == {x \in Trees : (\A y \in LeavesOf(x) \cap Atoms : pass[y] = other[y]) => Same(x)}
<1>1. ASSUME NEW x \in Trees, \A i \in DOMAIN Kids(x) : Kids(x)[i] \in S PROVE x \in S
  <2> SUFFICES ASSUME \A y \in LeavesOf(x) \cap Atoms : pass[y] = other[y] PROVE Same(x)
    OBVIOUS
  <2>1. CASE x.kind \in {"and", "or"}
    <3>1. LeavesOf(x) = UNION {LeavesOf(x.items[i]) : i \in DOMAIN x.items}
      BY <2>1, LeavesOfDef
    <3>2. \A i \in DOMAIN x.items : Same(x.items[i])
      BY <1>1, <2>1, <3>1, KidsOfKinds
    <3>3. x \notin Atoms
      BY <2>1 DEF Atoms, Tests, Relations
    <3> QED BY <2>1, <3>2, <3>3, HoldsDef
  <2>2. CASE x.kind = "not"
    <3>1. LeavesOf(x) = LeavesOf(x.item)
      BY <2>2, LeavesOfDef
    <3>2. Same(x.item)
      BY <1>1, <2>2, <3>1, KidsOfKinds
    <3>3. x \notin Atoms
      BY <2>2 DEF Atoms, Tests, Relations
    <3> QED BY <2>2, <3>2, <3>3, HoldsDef
  <2>3. CASE x.kind \notin {"and", "or", "not"}
    <3>1. x \in LeavesOf(x)
      BY <2>3, LeavesOfDef
    <3>2. x \in Atoms => pass[x] = other[x]
      BY <3>1
    <3> QED BY <2>3, <3>2, HoldsDef
  <2> QED BY <2>1, <2>2, <2>3
<1> HIDE DEF S
<1>2. Trees \subseteq S
  BY <1>1, TreeInduction
<1> QED BY <1>2 DEF S

LEMMA LeavesOfJoined ==
  ASSUME NEW n \in 0..(Depth + 3), NEW items \in Seq(Tree(Leaves, n)), NEW L,
         \A i \in DOMAIN items : LeavesOf(items[i]) \subseteq L \cup Constants
  PROVE  LeavesOf(And(items)) \subseteq L \cup Constants /\ LeavesOf(Or(items)) \subseteq L \cup Constants
<1> DEFINE T == Tree(Leaves, n)
<1>1. n \in Nat /\ n + 1 \in 0..(Depth + 4) /\ T \subseteq Trees /\ Tree(Leaves, n + 1) \subseteq Trees
  BY DepthAssumption, Levels
<1>2. ASSUME NEW x \in Constants PROVE LeavesOf(x) \subseteq L \cup Constants
  <2>1. x \in Trees
    BY ConstantsHold, [y \in Atoms |-> TRUE] \in [Atoms -> BOOLEAN] DEF Constants
  <2>2. x.kind \notin {"and", "or", "not"}
    BY DEF Constants, True, False
  <2> QED BY <2>1, <2>2, LeavesOfDef
<1>3. ASSUME NEW kind \in {"and", "or"}, NEW unit \in Constants, NEW zero \in Constants
      PROVE  LeavesOf(Joined(kind, unit, zero, items)) \subseteq L \cup Constants
  <2> DEFINE flat == Flat(kind, unit, items)
             spread(c) == Spread(kind, unit, c)
             joined == Joined(kind, unit, zero, items)
  <2>1. ASSUME NEW i \in DOMAIN items, NEW y \in ToSet(spread(items[i])) PROVE LeavesOf(y) \subseteq L \cup Constants
    <3>1. items[i] \in T /\ items[i] \in Trees
      BY <1>1
    <3> DEFINE c == items[i]
    <3>2. LeavesOf(c) \subseteq L \cup Constants
      OBVIOUS
    <3> HIDE DEF c, T
    <3>3. CASE c.kind = kind /\ spread(c) = c.items
      <4>1. LeavesOf(c) = UNION {LeavesOf(c.items[j]) : j \in DOMAIN c.items}
        BY <3>1, <3>3, LeavesOfDef DEF c
      <4>2. PICK j \in DOMAIN c.items : y = c.items[j]
        BY <2>1, <3>3 DEF ToSet, c
      <4> QED BY <3>2, <4>1, <4>2
    <3>4. CASE ToSet(spread(c)) = {c}
      BY <2>1, <3>2, <3>4 DEF c
    <3>5. \/ ToSet(spread(c)) = {}
          \/ c.kind = kind /\ spread(c) = c.items
          \/ ToSet(spread(c)) = {c}
      BY <1>1, <3>1, SpreadDef DEF c, T
    <3>6. ToSet(spread(c)) # {}
      BY <2>1 DEF c
    <3> QED BY <3>3, <3>4, <3>5, <3>6
  <2>2. flat \in Seq(T) /\ ToSet(flat) = UNION {ToSet(spread(items[i])) : i \in DOMAIN items}
    <3>1. n \in Nat /\ items \in Seq(Tree(Leaves, n)) /\ kind \in {"and", "or"} /\ unit \in Constants
      BY <1>1
    <3>2. /\ Flat(kind, unit, items) \in Seq(Tree(Leaves, n))
          /\ ToSet(Flat(kind, unit, items)) = SpreadOut(kind, unit, items)
      BY ONLY <3>1, FlatDef
    <3> QED BY <3>2 DEF SpreadOut
  <2>3. \A y \in ToSet(flat) : LeavesOf(y) \subseteq L \cup Constants
    <3> HIDE DEF spread, flat
    <3> QED BY <2>1, <2>2
  <2>4. /\ joined \in Tree(Leaves, n + 1)
        /\ joined = zero \/ joined = unit \/ ToSet(flat) = {joined} \/ joined = [kind |-> kind, items |-> flat]
    BY <1>1, JoinedDef
  <2> HIDE DEF joined, flat
  <2>5. CASE joined = [kind |-> kind, items |-> flat]
    <3>1. joined \in Trees /\ joined.kind \in {"and", "or"} /\ joined.items = flat
      BY <1>1, <2>4, <2>5
    <3>2. LeavesOf(joined) = UNION {LeavesOf(flat[i]) : i \in DOMAIN flat}
      BY <3>1, LeavesOfDef
    <3>3. \A i \in DOMAIN flat : LeavesOf(flat[i]) \subseteq L \cup Constants
      BY <2>3 DEF ToSet
    <3> QED BY <3>2, <3>3 DEF joined
  <2> QED BY <1>2, <2>3, <2>4, <2>5 DEF joined
<1> QED BY <1>3 DEF And, Or, Constants

LEMMA LeavesOfNot ==
  ASSUME NEW n \in 0..(Depth + 3), NEW c \in Tree(Leaves, n)
  PROVE  LeavesOf(Not(c)) \subseteq LeavesOf(c) \cup Constants
<1>1. n \in Nat /\ n + 1 \in 0..(Depth + 4) /\ c \in Trees /\ Tree(Leaves, n + 1) \subseteq Trees
  BY DepthAssumption, Levels
<1>2. True.kind \notin {"and", "or", "not"} /\ False.kind \notin {"and", "or", "not"} /\ True # False
  BY DEF True, False
<1>3. CASE c = True \/ c = False
  <2>1. Not(c) \in Constants
    BY <1>2, <1>3 DEF Not, Constants
  <2>2. Not(c) \in Trees
    BY <2>1, ConstantsHold, [y \in Atoms |-> TRUE] \in [Atoms -> BOOLEAN] DEF Constants
  <2>3. LeavesOf(Not(c)) = {Not(c)}
    BY <1>2, <2>1, <2>2, LeavesOfDef DEF Constants
  <2> QED BY <2>1, <2>3
<1>4. CASE c.kind = "not"
  <2>1. Not(c) = c.item
    BY <1>2, <1>4 DEF Not
  <2> QED BY <1>1, <1>4, <2>1, LeavesOfDef
<1>5. CASE c # True /\ c # False /\ c.kind # "not"
  <2>1. Not(c) = Negation(c) /\ Not(c).kind = "not" /\ Not(c).item = c
    BY <1>5 DEF Not, Negation
  <2>2. Not(c) \in Trees
    BY <1>1, NotHolds, [y \in Atoms |-> TRUE] \in [Atoms -> BOOLEAN]
  <2> QED BY <2>1, <2>2, LeavesOfDef
<1> QED BY <1>3, <1>4, <1>5

(* The leaves of a rebuilt tree: what its atoms became, and constants. *)
LEMMA LeavesOfRebuilt ==
  ASSUME NEW atom \in [Atoms -> Leaves], NEW c \in Trees
  PROVE  LeavesOf(Rebuild(c, atom)) \subseteq
           ({atom[x] : x \in LeavesOf(c) \cap Atoms} \cup (LeavesOf(c) \ Atoms)) \cup Constants
<1>1. PICK f \in [Trees -> Trees] :
        /\ \A x : Rebuild(x, atom) = f[x]
        /\ \A n \in 0..(Depth + 4) : \A x \in Tree(Leaves, n) : f[x] \in Tree(Leaves, n)
        /\ \A x \in Trees : RebuiltFrom(x, f, f[x], atom)
  BY RebuildDef
<1> DEFINE L(x) == {atom[y] : y \in LeavesOf(x) \cap Atoms} \cup (LeavesOf(x) \ Atoms)
           S == {x \in Trees : LeavesOf(f[x]) \subseteq L(x) \cup Constants}
<1>2. ASSUME NEW x \in Trees, \A i \in DOMAIN Kids(x) : Kids(x)[i] \in S PROVE x \in S
  <2> DEFINE n == Depth + 3
  <2>1. n \in 0..(Depth + 3) /\ n \in Nat /\ n + 1 = Depth + 4
    BY DepthAssumption
  <2>2. Kids(x) \in Seq(Tree(Leaves, n)) /\ n \in 0..(Depth + 4)
    BY <2>1, KidsNestLess DEF Trees
  <2>3. RebuiltFrom(x, f, f[x], atom)
    BY <1>1
  <2>4. \A y \in Tree(Leaves, n) : f[y] \in Tree(Leaves, n)
    BY <1>1, <2>2
  <2> HIDE DEF n
  <2>5. CASE x.kind \in {"and", "or"}
    <3> DEFINE s == [i \in DOMAIN x.items |-> f[x.items[i]]]
    <3>1. x.items = Kids(x)
      BY <2>5, KidsOfKinds
    <3>2. s \in Seq(Tree(Leaves, n)) /\ DOMAIN s = DOMAIN x.items
      BY <2>2, <2>4, <3>1
    <3>3. LeavesOf(x) = UNION {LeavesOf(x.items[i]) : i \in DOMAIN x.items}
      BY <2>5, LeavesOfDef
    <3>4. ASSUME NEW i \in DOMAIN s PROVE LeavesOf(s[i]) \subseteq L(x) \cup Constants
      <4>1. LeavesOf(s[i]) \subseteq L(x.items[i]) \cup Constants
        BY <1>2, <3>1, <3>2
      <4>2. LeavesOf(x.items[i]) \subseteq LeavesOf(x)
        BY <3>2, <3>3
      <4> QED BY <4>1, <4>2
    <3> HIDE DEF s
    <3> DEFINE M == L(x)
    <3> HIDE DEF M
    <3>5. LeavesOf(And(s)) \subseteq M \cup Constants /\ LeavesOf(Or(s)) \subseteq M \cup Constants
      <4>1. \A i \in DOMAIN s : LeavesOf(s[i]) \subseteq M \cup Constants
        BY <3>4 DEF M
      <4> QED BY <2>1, <3>2, <4>1, LeavesOfJoined
    <3>6. f[x] = And(s) \/ f[x] = Or(s)
      BY <2>3, <2>5 DEF RebuiltFrom, s
    <3> QED BY <3>5, <3>6 DEF M
  <2>6. CASE x.kind = "not"
    <3>1. Kids(x) = <<x.item>>
      BY <2>6, KidsOfKinds
    <3>2. x.item \in Tree(Leaves, n) /\ x.item \in S
      <4>1. 1 \in DOMAIN Kids(x) /\ Kids(x)[1] = x.item
        BY <3>1
      <4> HIDE DEF S
      <4> QED BY <1>2, <2>2, <4>1
    <3>3. f[x] = Not(f[x.item])
      BY <2>3, <2>6 DEF RebuiltFrom
    <3>4. LeavesOf(f[x]) \subseteq LeavesOf(f[x.item]) \cup Constants
      BY <2>1, <2>4, <3>2, <3>3, LeavesOfNot
    <3>5. LeavesOf(x) = LeavesOf(x.item)
      BY <2>6, LeavesOfDef
    <3> QED BY <3>2, <3>4, <3>5
  <2>7. CASE x.kind \notin {"and", "or", "not"}
    <3>1. LeavesOf(x) = {x}
      BY <2>7, LeavesOfDef
    <3>2. f[x] = IF x \in Atoms THEN atom[x] ELSE x
      BY <2>3, <2>7 DEF RebuiltFrom
    <3>3. f[x] \in Leaves /\ f[x] \in Trees
      BY <1>1, <2>7, <3>2, KidsOfKinds
    <3>4. LeavesOf(f[x]) = {f[x]}
      BY <3>3, LeavesOfDef, LeavesAreLeaves DEF LeafKinds
    <3> QED BY <3>1, <3>2, <3>4
  <2> QED BY <2>5, <2>6, <2>7
<1> HIDE DEF S
<1>3. Trees \subseteq S
  BY <1>2, TreeInduction
<1> QED BY <1>1, <1>3 DEF S

LEMMA AtomsAre ==
  ASSUME NEW x \in Atoms
  PROVE  \/ x.kind = "in" /\ x = In(x.field, x.values) /\ x.field \in STRING /\ x.values \in Seq(Value)
         \/ x.kind = "cmp" /\ x = Cmp(x.field, x.op, x.value) /\ x.field \in STRING /\ x.op \in Ops /\ x.value \in Value
         \/ x.kind = "between" /\ x = Between(x.field, x.lo, x.hi) /\ x.field \in STRING /\ x.lo \in Value /\ x.hi \in Value
         \/ x.kind = "relation" /\ x = Relation(x.field, x.rel, x.subject)
            /\ x.field \in STRING /\ x.rel \in STRING /\ x.subject \in Value
BY DEF Atoms, Tests, Relations, In, Cmp, Between, Relation

LEMMA AtomsMade ==
  /\ \A f \in STRING, vs \in Seq(Value) : In(f, vs) \in Atoms
  /\ \A f \in STRING, op \in Ops, v \in Value : Cmp(f, op, v) \in Atoms
  /\ \A f \in STRING, lo \in Value, hi \in Value : Between(f, lo, hi) \in Atoms
BY DEF Atoms, Tests, In, Cmp, Between

LEMMA LeavesAreTrees == \A n \in 0..(Depth + 4) : Leaves \subseteq Tree(Leaves, n)
<1> SUFFICES ASSUME NEW n \in 0..(Depth + 4) PROVE Leaves \subseteq Tree(Leaves, n)
  OBVIOUS
<1>1. Leaves = Tree(Leaves, 0) /\ n \in Nat /\ 0 <= n
  BY TreeDef
<1> QED BY <1>1, TreeMonotone

LEMMA AtomHolds ==
  ASSUME NEW x \in Atoms, NEW pass \in [Atoms -> BOOLEAN]
  PROVE  x \in Trees /\ (Holds(x, pass) <=> pass[x])
<1>1. x \in Trees
  BY LeavesAreTrees, DepthAssumption, Depth + 4 \in 0..(Depth + 4) DEF Leaves, Trees
<1>2. x.kind \notin {"true", "not", "and", "or"}
  BY AtomsAre
<1> QED BY <1>1, <1>2, HoldsDef
=============================================================================
