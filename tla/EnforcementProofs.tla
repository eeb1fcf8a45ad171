-------------------------- MODULE EnforcementProofs --------------------------
(***************************************************************************)
(* What a decision says of a row, and what leaves the data plane, for      *)
(* every set of policies, grants, tuples, mask rules, subjects and rows.   *)
(***************************************************************************)
EXTENDS Enforcement, BackendsProofs

(*--------------------------- the normal form -----------------------------*)

LEMMA NormalDef ==
  ASSUME NEW c \in Trees
  PROVE  /\ Normal(c) \in BOOLEAN
         /\ Normal(c) <=>
              \/ c.kind \notin {"and", "or", "not"}
              \/ c.kind = "not" /\ c.item.kind \notin {"not", "true", "false"} /\ Normal(c.item)
              \/ /\ c.kind \in {"and", "or"} /\ Len(c.items) >= 2
                 /\ \A i \in DOMAIN c.items : c.items[i].kind \notin {c.kind, "true", "false"} /\ Normal(c.items[i])
<1> DEFINE At(f, x) ==
             \/ x.kind \notin {"and", "or", "not"}
             \/ x.kind = "not" /\ x.item.kind \notin {"not", "true", "false"} /\ f[x.item]
             \/ /\ x.kind \in {"and", "or"} /\ Len(x.items) >= 2
                /\ \A i \in DOMAIN x.items : x.items[i].kind \notin {x.kind, "true", "false"} /\ f[x.items[i]]
           Is(f) == f = [x \in Trees |-> At(f, x)]
           of(x, vs) ==
             \/ x.kind \notin {"and", "or", "not"}
             \/ x.kind = "not" /\ x.item.kind \notin {"not", "true", "false"} /\ vs[1]
             \/ /\ x.kind \in {"and", "or"} /\ Len(x.items) >= 2
                /\ \A i \in DOMAIN x.items : x.items[i].kind \notin {x.kind, "true", "false"} /\ vs[i]
           step == [p \in Trees \X Seq(BOOLEAN) |-> of(p[1], p[2])]
           V == [n \in Nat |-> BOOLEAN]
<1>1. ASSUME NEW x, NEW vs PROVE of(x, vs) \in BOOLEAN
  OBVIOUS
<1>2. KeepsTo(step, V)
  <2> SUFFICES ASSUME NEW n \in 0..(Depth + 4), NEW x \in Tree(Leaves, n),
                      NEW vs \in Seq(IF n = 0 THEN {} ELSE V[n - 1])
               PROVE  step[<<x, vs>>] \in V[n]
    BY DEF KeepsTo
  <2>1. x \in Trees /\ V[n] = BOOLEAN
    BY Levels
  <2>2. vs \in Seq(BOOLEAN)
    <3>1. CASE n = 0
      BY <3>1
    <3>2. CASE n # 0
      BY <3>2, n - 1 \in Nat
    <3> QED BY <3>1, <3>2
  <2> HIDE DEF of, V
  <2>3. step[<<x, vs>>] = of(x, vs)
    BY <2>1, <2>2
  <2> QED BY <2>1, <2>3, <1>1
<1>3. PICK f \in [Trees -> V[Depth + 4]] : Folds(f, step)
  <2> HIDE DEF step, V
  <2> QED BY <1>2, TreeRecursion
<1>4. f \in [Trees -> BOOLEAN]
  BY DepthAssumption, Depth + 4 \in Nat
<1>5. ASSUME NEW x \in Trees PROVE f[x] <=> At(f, x)
  <2> DEFINE vs == OfKids(f, x)
  <2>1. vs \in Seq(BOOLEAN)
    BY <1>4, OfKidsOfKinds
  <2>2. x.kind \in {"and", "or"} => \A i \in DOMAIN x.items : vs[i] = f[x.items[i]]
    BY <1>4, OfKidsOfKinds
  <2>3. x.kind = "not" => vs[1] = f[x.item]
    BY <1>4, OfKidsOfKinds
  <2>4. f[x] = step[<<x, vs>>]
    BY <1>3 DEF Folds
  <2> HIDE DEF vs
  <2>5. f[x] <=> of(x, vs)
    <3> HIDE DEF of
    <3> QED BY <2>1, <2>4, <1>1
  <2>6. of(x, vs) <=> At(f, x)
    <3>1. CASE x.kind \in {"and", "or"}
      BY <3>1, <2>2
    <3>2. CASE x.kind \notin {"and", "or"}
      BY <3>2, <2>3
    <3> QED BY <3>1, <3>2
  <2> HIDE DEF of, At
  <2> QED BY <2>5, <2>6
<1>6. Is(f)
  <2>1. ASSUME NEW x PROVE At(f, x) \in BOOLEAN
    OBVIOUS
  <2> HIDE DEF At
  <2> QED BY <1>4, <1>5, <2>1
<1> DEFINE h == CHOOSE g : Is(g)
<1>7. Is(h)
  <2> HIDE DEF Is
  <2> QED BY <1>6
<1>8. ASSUME NEW x PROVE Normal(x) = h[x]
  BY DEF Normal
<1> HIDE DEF h
<1>9. h[c] = At(h, c)
  BY <1>7
<1> QED BY <1>8, <1>9

LEMMA NormalJoined ==
  ASSUME NEW n \in 0..(Depth + 3), NEW items \in Seq(Tree(Leaves, n)), \A i \in DOMAIN items : Normal(items[i])
  PROVE  Normal(And(items)) /\ Normal(Or(items))
<1> DEFINE T == Tree(Leaves, n)
<1>1. n \in Nat /\ n + 1 \in 0..(Depth + 4) /\ T \subseteq Trees /\ Tree(Leaves, n + 1) \subseteq Trees
  BY DepthAssumption, Levels
<1>2. ASSUME NEW x \in Constants PROVE Normal(x)
  <2>1. x \in Trees
    BY ConstantsHold, [y \in Atoms |-> TRUE] \in [Atoms -> BOOLEAN] DEF Constants
  <2> QED BY <2>1, NormalDef DEF Constants, True, False
<1>3. ASSUME NEW kind \in {"and", "or"}, NEW unit \in Constants, NEW zero \in Constants, unit # zero
      PROVE  Normal(Joined(kind, unit, zero, items))
  <2> DEFINE flat == Flat(kind, unit, items)
             spread(c) == Spread(kind, unit, c)
             joined == Joined(kind, unit, zero, items)
  <2>1. ASSUME NEW c \in T, c # zero, Normal(c), NEW y \in ToSet(spread(c))
        PROVE  Normal(y) /\ y.kind \notin {kind, "true", "false"}
    <3>1. c \in Trees
      BY <1>1
    <3>2. CASE c # unit /\ c.kind = kind /\ spread(c) = c.items
      <4>1. PICK j \in DOMAIN c.items : y = c.items[j]
        BY <2>1, <3>2 DEF ToSet
      <4> QED BY <2>1, <3>1, <3>2, <4>1, NormalDef
    <3>3. CASE c # unit /\ c.kind # kind /\ ToSet(spread(c)) = {c}
      <4>1. c.kind \in {"true", "false"} => c \in Constants
        <5>1. c.kind \in {"true", "false"} => c \in Leaves
          BY <3>1, KidsOfKinds
        <5> QED BY <5>1 DEF Leaves, Atoms, Tests, Relations, SqlTests
      <4>2. c \notin Constants
        BY <1>3, <2>1, <3>3 DEF Constants
      <4> QED BY <2>1, <3>3, <4>1, <4>2
    <3>4. \/ c = unit /\ ToSet(spread(c)) = {}
          \/ c # unit /\ c.kind = kind /\ spread(c) = c.items
          \/ c # unit /\ c.kind # kind /\ ToSet(spread(c)) = {c}
      BY <1>1, <2>1, SpreadDef
    <3> QED BY <2>1, <3>2, <3>3, <3>4
  <2>2. flat \in Seq(T) /\ ToSet(flat) = SpreadOut(kind, unit, items)
    BY <1>1, FlatDef
  <2>3. /\ joined \in Tree(Leaves, n + 1)
        /\ \/ joined = zero
           \/ /\ \A i \in DOMAIN items : items[i] # zero
              /\ \/ joined = unit
                 \/ joined = flat[1] /\ ToSet(flat) = {joined}
                 \/ joined = [kind |-> kind, items |-> flat] /\ Len(flat) >= 2
    BY <1>1, JoinedDef
  <2>4. ASSUME \A i \in DOMAIN items : items[i] # zero, NEW y \in ToSet(flat)
        PROVE  Normal(y) /\ y.kind \notin {kind, "true", "false"}
    <3>1. PICK i \in DOMAIN items : y \in ToSet(spread(items[i]))
      BY <2>2, <2>4 DEF SpreadOut
    <3>2. items[i] \in T /\ items[i] # zero /\ Normal(items[i])
      BY <2>4
    <3> HIDE DEF spread, T
    <3> QED BY <2>1, <3>1, <3>2
  <2> HIDE DEF joined, flat
  <2>5. CASE joined = [kind |-> kind, items |-> flat] /\ Len(flat) >= 2 /\ \A i \in DOMAIN items : items[i] # zero
    <3>1. joined.kind = kind /\ joined.items = flat /\ joined \in Trees
      BY <1>1, <2>3, <2>5
    <3>2. \A i \in DOMAIN flat : flat[i] \in ToSet(flat)
      BY DEF ToSet
    <3>3. \A i \in DOMAIN flat : Normal(flat[i]) /\ flat[i].kind \notin {kind, "true", "false"}
      BY <2>4, <2>5, <3>2
    <3>4. Normal(joined)
      BY <2>5, <3>1, <3>3, NormalDef
    <3> QED BY <3>4 DEF joined
  <2>6. CASE ToSet(flat) = {joined} /\ \A i \in DOMAIN items : items[i] # zero
    BY <2>4, <2>6 DEF joined
  <2> QED BY <1>2, <2>3, <2>5, <2>6 DEF joined
<1> QED BY <1>3 DEF And, Or, Constants, True, False

LEMMA NormalNot ==
  ASSUME NEW n \in 0..(Depth + 3), NEW c \in Tree(Leaves, n), Normal(c)
  PROVE  Normal(Not(c))
<1>1. n \in Nat /\ n + 1 \in 0..(Depth + 4) /\ c \in Trees /\ Tree(Leaves, n + 1) \subseteq Trees
  BY DepthAssumption, Levels
<1>2. Not(c) \in Trees
  BY <1>1, NotHolds, [y \in Atoms |-> TRUE] \in [Atoms -> BOOLEAN]
<1>3. CASE c = True \/ c = False
  <2>1. Not(c).kind \notin {"and", "or", "not"}
    BY <1>3 DEF Not, True, False
  <2> QED BY <1>2, <2>1, NormalDef
<1>4. CASE c.kind = "not"
  <2>1. Not(c) = c.item
    BY <1>4 DEF Not, True, False
  <2> QED BY <1>1, <1>4, <2>1, NormalDef
<1>5. CASE c # True /\ c # False /\ c.kind # "not"
  <2>1. Not(c).kind = "not" /\ Not(c).item = c
    BY <1>5 DEF Not, Negation
  <2>2. c.kind \in {"true", "false"} => c \in Leaves
    BY <1>1, KidsOfKinds
  <2>3. c.kind \notin {"true", "false"}
    BY <1>5, <2>2 DEF Leaves, Constants, Atoms, Tests, Relations, SqlTests
  <2> QED BY <1>1, <1>2, <1>5, <2>1, <2>3, NormalDef
<1> QED BY <1>3, <1>4, <1>5

(* A rebuilt tree is normal, whatever it is a copy of. *)
LEMMA NormalRebuilt ==
  ASSUME NEW atom \in [Atoms -> Leaves], NEW c \in Trees
  PROVE  Normal(Rebuild(c, atom))
<1>1. PICK f \in [Trees -> Trees] :
        /\ \A x : Rebuild(x, atom) = f[x]
        /\ \A n \in 0..(Depth + 4) : \A x \in Tree(Leaves, n) : f[x] \in Tree(Leaves, n)
        /\ \A x \in Trees : RebuiltFrom(x, f, f[x], atom)
  BY RebuildDef
<1> DEFINE S == {x \in Trees : Normal(f[x])}
<1>2. ASSUME NEW x \in Trees, \A i \in DOMAIN Kids(x) : Kids(x)[i] \in S PROVE x \in S
  <2> DEFINE n == Depth + 3
  <2>1. n \in 0..(Depth + 3) /\ n \in Nat /\ n + 1 = Depth + 4
    BY DepthAssumption
  <2>2. Kids(x) \in Seq(Tree(Leaves, n)) /\ n \in 0..(Depth + 4)
    BY <2>1, KidsNestLess DEF Trees
  <2>3. RebuiltFrom(x, f, f[x], atom)
    BY <1>1
  <2>4. \A y \in Tree(Leaves, n) : f[y] \in Tree(Leaves, n)
    BY <1>1, <2>2
  <2> HIDE DEF n
  <2>5. CASE x.kind \in {"and", "or"}
    <3> DEFINE s == [i \in DOMAIN x.items |-> f[x.items[i]]]
    <3>1. x.items = Kids(x)
      BY <2>5, KidsOfKinds
    <3>2. s \in Seq(Tree(Leaves, n)) /\ DOMAIN s = DOMAIN x.items
      BY <2>2, <2>4, <3>1
    <3>3. \A i \in DOMAIN s : Normal(s[i])
      BY <1>2, <3>1
    <3>4. f[x] = And(s) \/ f[x] = Or(s)
      BY <2>3, <2>5 DEF RebuiltFrom, s
    <3> HIDE DEF s
    <3>5. Normal(And(s)) /\ Normal(Or(s))
      BY <2>1, <3>2, <3>3, NormalJoined
    <3> QED BY <3>4, <3>5
  <2>6. CASE x.kind = "not"
    <3>1. Kids(x) = <<x.item>>
      BY <2>6, KidsOfKinds
    <3>2. x.item \in Tree(Leaves, n) /\ x.item \in S
      <4>1. 1 \in DOMAIN Kids(x) /\ Kids(x)[1] = x.item
        BY <3>1
      <4> HIDE DEF S
      <4> QED BY <1>2, <2>2, <4>1
    <3>3. f[x] = Not(f[x.item])
      BY <2>3, <2>6 DEF RebuiltFrom
    <3> QED BY <2>1, <2>4, <3>2, <3>3, NormalNot
  <2>7. CASE x.kind \notin {"and", "or", "not"}
    <3>1. f[x] = IF x \in Atoms THEN atom[x] ELSE x
      BY <2>3, <2>7 DEF RebuiltFrom
    <3>2. f[x] \in Leaves /\ f[x] \in Trees
      BY <1>1, <2>7, <3>1, KidsOfKinds
    <3>3. f[x].kind \notin {"and", "or", "not"}
      BY <3>2, LeavesAreLeaves DEF LeafKinds
    <3> QED BY <3>2, <3>3, NormalDef
  <2> QED BY <2>5, <2>6, <2>7
<1> HIDE DEF S
<1>3. Trees \subseteq S
  BY <1>2, TreeInduction
<1> QED BY <1>1, <1>3 DEF S

(*------------------------- what the tables hold --------------------------*)

Stored ==
  /\ policies \in Seq(Policy \cup {NoPolicy}) /\ Len(policies) = Len(Policies)
  /\ \A i \in DOMAIN Policies : policies[i] \in Policies[i] \cup {NoPolicy}
  /\ grants \in [1..MaxGrants -> Grants \cup {NoGrant}]
  /\ DOMAIN rules = DOMAIN MaskRules /\ rules = [i \in DOMAIN rules |-> rules[i]]
  /\ \A i \in DOMAIN MaskRules : rules[i] \in MaskRules[i] \cup {NoRule}
  /\ tuples \subseteq Tuples /\ IsFiniteSet(tuples)

LEMMA ConstantsAreTemplates ==
  Constants \subseteq Templates /\ Templates \subseteq Tree(Leaves, Depth)
<1> DEFINE L == Constants \cup Atoms
<1>1. L \subseteq Leaves
  BY DEF Leaves
<1>2. L = Tree(L, 0) /\ Tree(L, 0) \subseteq Tree(L, Depth)
  BY DepthAssumption, TreeDef, TreeMonotone
<1>3. Tree(L, Depth) \subseteq Tree(Leaves, Depth)
  BY <1>1, DepthAssumption, MoreLeaves
<1> HIDE DEF L
<1>4. Templates = Tree(L, Depth)
  BY DEF Templates, L
<1> QED BY <1>2, <1>3, <1>4 DEF L

LEMMA GrantsStored ==
  ASSUME NEW g \in Grants \cup {NoGrant}
  PROVE  /\ g.values \in Seq(Value)
         /\ \A v \in ToSet(g.values) : IsFiniteSet(Below(g.dim, AsText(v))) /\ Below(g.dim, AsText(v)) \subseteq Value
<1>1. CASE g \in Grants
  BY <1>1, GrantsAssumption DEF Grant
<1>2. CASE g = NoGrant
  <2>1. g.values = << >> /\ ToSet(g.values) = {}
    BY <1>2 DEF NoGrant, ToSet
  <2> QED BY <2>1
<1> QED BY <1>1, <1>2

LEMMA InitStored == Init => Stored
<1> SUFFICES ASSUME Init PROVE Stored
  OBVIOUS
<1>1. policies \in Seq(Policy \cup {NoPolicy}) /\ Len(policies) = Len(Policies)
  BY PoliciesAssumption DEF Init
<1>2. \A i \in DOMAIN Policies : policies[i] \in Policies[i] \cup {NoPolicy}
  BY DEF Init
<1>3. grants \in [1..MaxGrants -> Grants \cup {NoGrant}]
  BY DEF Init
<1>4. DOMAIN rules = DOMAIN MaskRules /\ rules = [i \in DOMAIN rules |-> rules[i]]
      /\ \A i \in DOMAIN MaskRules : rules[i] \in MaskRules[i] \cup {NoRule}
  BY DEF Init
<1>5. tuples \subseteq Tuples /\ IsFiniteSet(tuples)
  BY FS_EmptySet DEF Init
<1> QED BY <1>1, <1>2, <1>3, <1>4, <1>5 DEF Stored

(* Only the handlers that write change the tables, and leave no answer of one that reads. *)
Answers == {"decide", "explain", "overlap", "compile", "enforce", "guarded", "forbidden", "refused"}

LEMMA PolicyStored ==
  ASSUME Stored, NEW i \in DOMAIN Policies, NEW p \in Policies[i] \cup {NoPolicy},
         policies' = [policies EXCEPT ![i] = p]
  PROVE  /\ policies' \in Seq(Policy \cup {NoPolicy}) /\ Len(policies') = Len(Policies)
         /\ \A j \in DOMAIN Policies : policies'[j] \in Policies[j] \cup {NoPolicy}
<1>1. Policies \in Seq(SUBSET Policy) /\ policies \in Seq(Policy \cup {NoPolicy}) /\ Len(policies) = Len(Policies)
  BY PoliciesAssumption DEF Stored
<1>2. p \in Policy \cup {NoPolicy}
  BY <1>1
<1>3. DOMAIN policies = DOMAIN Policies
  BY <1>1
<1>4. policies' \in Seq(Policy \cup {NoPolicy}) /\ Len(policies') = Len(policies)
  BY <1>1, <1>2, <1>3
<1> QED BY <1>1, <1>3, <1>4 DEF Stored

LEMMA StepStored == Stored /\ [Next]_vars => Stored'
<1> SUFFICES ASSUME Stored, [Next]_vars PROVE Stored'
  OBVIOUS
<1>1. ASSUME UNCHANGED tables PROVE Stored'
  BY <1>1 DEF Stored, tables
<1>2. CASE Write
  <2>1. ASSUME NEW i \in DOMAIN Policies, NEW p \in Policies[i], SavePolicy(i, p) PROVE Stored'
    <3>1. policies' = [policies EXCEPT ![i] = p] /\ UNCHANGED <<grants, tuples, rules>>
      BY <2>1 DEF SavePolicy
    <3> QED BY <3>1, PolicyStored DEF Stored
  <2>2. ASSUME NEW i \in DOMAIN Policies, DeletePolicy(i) PROVE Stored'
    <3>1. policies' = [policies EXCEPT ![i] = NoPolicy] /\ UNCHANGED <<grants, tuples, rules>>
      BY <2>2 DEF DeletePolicy
    <3> QED BY <3>1, PolicyStored DEF Stored
  <2>3. ASSUME NEW i \in 1..MaxGrants, NEW g \in Grants, SaveGrant(i, g) PROVE Stored'
    BY <2>3 DEF SaveGrant, Stored
  <2>4. ASSUME NEW i \in 1..MaxGrants, DeleteGrant(i) PROVE Stored'
    BY <2>4 DEF DeleteGrant, Stored
  <2>5. ASSUME NEW t \in Tuples, SaveTuple(t) PROVE Stored'
    <3>1. IsFiniteSet(tuples \cup {t})
      BY FS_AddElement DEF Stored
    <3> QED BY <2>5, <3>1 DEF SaveTuple, Stored
  <2>6. ASSUME NEW t \in Tuples, DeleteTuple(t) PROVE Stored'
    <3>1. IsFiniteSet(tuples \ {t})
      BY FS_RemoveElement DEF Stored
    <3> QED BY <2>6, <3>1 DEF DeleteTuple, Stored
  <2>7. ASSUME NEW i \in DOMAIN MaskRules, NEW r \in MaskRules[i], SaveMaskRule(i, r) PROVE Stored'
    BY <2>7 DEF SaveMaskRule, Stored
  <2>8. ASSUME NEW i \in DOMAIN MaskRules, DeleteMaskRule(i) PROVE Stored'
    BY <2>8 DEF DeleteMaskRule, Stored
  <2> QED BY <1>2, <2>1, <2>2, <2>3, <2>4, <2>5, <2>6, <2>7, <2>8 DEF Write
<1>3. CASE Read
  <2>1. PICK s \in Subjects, res \in Resources :
          \/ Decide(s, res) \/ Explain(s, res) \/ Enforce(s, res) \/ DemoVouchers(s, res) \/ PolicyOverlap(res)
          \/ \E backend \in {"sql", "rowfilter", "es", "other"} : Compile(s, res, backend)
          \/ \E k \in RowNames : DemoDeleteVoucher(s, res, k)
    BY <1>3 DEF Read
  <2>2. CASE Decide(s, res)
    BY <1>1, <2>2 DEF Decide, Respond
  <2>3. CASE Explain(s, res)
    BY <1>1, <2>3 DEF Explain, Respond
  <2>4. CASE Enforce(s, res)
    BY <1>1, <2>4 DEF Enforce, Respond
  <2>5. CASE DemoVouchers(s, res)
    BY <1>1, <2>5 DEF DemoVouchers, Guarded, Respond
  <2>6. CASE PolicyOverlap(res)
    BY <1>1, <2>6 DEF PolicyOverlap, Respond
  <2>7. CASE \E backend \in {"sql", "rowfilter", "es", "other"} : Compile(s, res, backend)
    BY <1>1, <2>7 DEF Compile, Respond
  <2>8. CASE \E k \in RowNames : DemoDeleteVoucher(s, res, k)
    BY <1>1, <2>8 DEF DemoDeleteVoucher, Guarded, Respond
  <2> QED BY <2>1, <2>2, <2>3, <2>4, <2>5, <2>6, <2>7, <2>8
<1>4. CASE Receive
  BY <1>1, <1>4 DEF Receive
<1>5. CASE UNCHANGED vars
  BY <1>1, <1>5 DEF vars, tables
<1> QED BY <1>2, <1>3, <1>4, <1>5 DEF Next

LEMMA StoredDomains ==
  ASSUME Stored
  PROVE  /\ DOMAIN policies = DOMAIN Policies
         /\ IsFiniteSet(ToSet(grants)) /\ \A g \in ToSet(grants) : g \in Grants \cup {NoGrant}
<1>1. DOMAIN policies = DOMAIN Policies
  BY PoliciesAssumption DEF Stored
<1>2. IsFiniteSet(1..MaxGrants)
  BY GrantsAssumption, FS_Interval
<1>3. grants \in [1..MaxGrants -> Grants \cup {NoGrant}]
  BY DEF Stored
<1>4. grants \in Surjection(1..MaxGrants, ToSet(grants))
  BY <1>3 DEF Surjection, ToSet
<1>5. IsFiniteSet(ToSet(grants))
  BY <1>2, <1>4, FS_Surjection
<1> QED BY <1>1, <1>3, <1>5 DEF ToSet

(*--------------------------- filling a template --------------------------*)

LEMMA ImageFinite ==
  ASSUME NEW S, IsFiniteSet(S), NEW f
  PROVE  IsFiniteSet({f[x] : x \in S})
<1> DEFINE g == [x \in S |-> f[x]]
           T == {f[x] : x \in S}
<1>1. g \in Surjection(S, T)
  BY DEF Surjection
<1> HIDE DEF g, T
<1>2. IsFiniteSet(T)
  BY <1>1, FS_Surjection
<1> QED BY <1>2 DEF T

LEMMA TextsFinite ==
  ASSUME NEW vs \in Seq(Value)
  PROVE  LET roots == {AsText(v) : v \in ToSet(vs)} IN IsFiniteSet(roots) /\ roots \subseteq Value
<1> DEFINE f == [i \in DOMAIN vs |-> AsText(vs[i])]
           roots == {AsText(v) : v \in ToSet(vs)}
<1>1. IsFiniteSet(DOMAIN vs)
  BY FS_Interval
<1>2. IsFiniteSet({f[i] : i \in DOMAIN vs})
  <2> HIDE DEF f
  <2> QED BY <1>1, ImageFinite
<1>3. {f[i] : i \in DOMAIN vs} = roots
  BY DEF ToSet
<1>4. ASSUME NEW v \in Value PROVE AsText(v) \in Value
  BY DEF AsText, Value, Types
<1>5. roots \subseteq Value
  <2>1. ToSet(vs) \subseteq Value
    BY DEF ToSet
  <2> QED BY <1>4, <2>1
<1> QED BY <1>2, <1>3, <1>5

Loaded(s) == {g \in ToSet(grants) : SubjectHit(s, g)}
Keys(s) ==
  UNION {{<<g.dim, AsText(v)>> : v \in ToSet(g.values)} : g \in {h \in Loaded(s) : h.inherit /\ h.dim # NoDim}}
Expanded(s) == [k \in Keys(s) |-> Below(k[1], k[2])]
Related(p, s) == {g \in Loaded(s) : g.policy = p.id /\ SubjectHit(s, g)}

(* The values a grant gives for a dimension. *)
Values(g, key) ==
  UNION {IF g.inherit THEN Below(key, AsText(root)) ELSE {AsText(root)} : root \in ToSet(g.values)}
Selected(p, s, key) ==
  {g \in ToSet(grants) : g.policy = p.id /\ g.principal \in s.principals /\ g.dim = key /\ g.dim # NoDim}

LEMMA GrantedDef ==
  ASSUME Stored, NEW p, NEW s, NEW key
  PROVE  LET granted == Granted(Related(p, s), key, Expanded(s))
         IN /\ granted = UNION {Values(g, key) : g \in Selected(p, s, key)}
            /\ granted \subseteq Value /\ IsFiniteSet(granted)
<1> DEFINE chosen == Selected(p, s, key)
           expanded == Expanded(s)
           of(g) == LET roots == {AsText(v) : v \in ToSet(g.values)} IN
                    IF g.inherit
                    THEN UNION {IF <<key, r>> \in DOMAIN expanded THEN expanded[<<key, r>>] ELSE {r} : r \in roots}
                    ELSE roots
<1>1. {h \in Related(p, s) : h.dim = key /\ h.dim # NoDim} = chosen
  BY DEF Related, Loaded, SubjectHit, Selected
<1>2. Granted(Related(p, s), key, expanded) = UNION {of(g) : g \in chosen}
  BY <1>1 DEF Granted
<1>3. ASSUME NEW g \in chosen
      PROVE  of(g) = Values(g, key) /\ of(g) \subseteq Value /\ IsFiniteSet(of(g))
  <2> DEFINE roots == {AsText(v) : v \in ToSet(g.values)}
  <2>1. g \in Grants \cup {NoGrant} /\ g.dim = key /\ key # NoDim /\ g \in Loaded(s)
    BY StoredDomains DEF Selected, Loaded, SubjectHit
  <2>2. g.values \in Seq(Value)
        /\ \A r \in roots : IsFiniteSet(Below(key, r)) /\ Below(key, r) \subseteq Value
    BY <2>1, GrantsStored
  <2>3. IsFiniteSet(roots) /\ roots \subseteq Value
    BY <2>2, TextsFinite
  <2>4. CASE g.inherit
    <3>1. ASSUME NEW r \in roots
          PROVE  <<key, r>> \in DOMAIN expanded /\ expanded[<<key, r>>] = Below(key, r)
      <4>1. <<key, r>> \in Keys(s)
        BY <2>1, <2>4 DEF Keys
      <4> QED BY <4>1 DEF Expanded
    <3> DEFINE below == [r \in roots |-> Below(key, r)]
    <3> HIDE DEF expanded
    <3>2. of(g) = UNION {below[r] : r \in roots}
      BY <2>4, <3>1
    <3>3. Values(g, key) = UNION {below[r] : r \in roots}
      BY <2>4 DEF Values
    <3>4. \A r \in roots : IsFiniteSet(below[r]) /\ below[r] \subseteq Value
      BY <2>2
    <3> HIDE DEF roots, below
    <3>5. IsFiniteSet({below[r] : r \in roots})
      BY <2>3, ImageFinite
    <3>6. IsFiniteSet(UNION {below[r] : r \in roots})
      BY <3>4, <3>5, FS_UNION
    <3> HIDE DEF of
    <3> QED BY <3>2, <3>3, <3>4, <3>6
  <2>5. CASE ~ g.inherit
    <3>1. of(g) = roots
      BY <2>5
    <3>2. Values(g, key) = roots
      BY <2>5 DEF Values
    <3> QED BY <2>3, <3>1, <3>2
  <2> QED BY <2>4, <2>5
<1>4. IsFiniteSet(chosen)
  BY StoredDomains, FS_Subset DEF Selected
<1> DEFINE f == [g \in chosen |-> of(g)]
<1>5. \A g \in chosen : f[g] = Values(g, key) /\ f[g] \subseteq Value /\ IsFiniteSet(f[g])
  BY <1>3
<1>6. UNION {of(g) : g \in chosen} = UNION {f[g] : g \in chosen}
  OBVIOUS
<1> HIDE DEF f, of, chosen
<1>7. IsFiniteSet({f[g] : g \in chosen})
  BY <1>4, ImageFinite
<1>8. IsFiniteSet(UNION {f[g] : g \in chosen})
  BY <1>5, <1>7, FS_UNION
<1>9. UNION {f[g] : g \in chosen} = UNION {Values(g, key) : g \in chosen} /\ UNION {f[g] : g \in chosen} \subseteq Value
  BY <1>5
<1> QED BY <1>2, <1>6, <1>8, <1>9 DEF chosen

(* The atoms of a template, filled in: as Subst has them. *)
Filling(related, subject, expanded) ==
  [x \in Atoms |->
    CASE x.kind = "in" -> FillIn(x, related, subject, expanded)
      [] x.kind = "cmp" -> [x EXCEPT !.value = Scalar(@, subject)]
      [] x.kind = "between" -> Between(x.field, Scalar(x.lo, subject), Scalar(x.hi, subject))
      [] x.kind = "relation" -> x]

(* And looked up: as ResolveRelations has them. *)
Lookup(s) ==
  [x \in Atoms |->
    IF x.kind = "relation"
    THEN In(x.field, SetToSeq(LookupResources(tuples, x.field, x.rel, Scalar(x.subject, s))))
    ELSE x]

Filled(p, s) == Filling(Related(p, s), s, Expanded(s))

LEMMA FilledIs ==
  ASSUME Stored, NEW p, NEW s \in Subject, NEW x \in Atoms
  PROVE  LET of(v) == IF v = User THEN s.user ELSE v
             y == Filled(p, s)[x]
             granted == Granted(Related(p, s), x.values[1].text, Expanded(s))
         IN /\ x.kind = "relation" => y = x
            /\ x.kind = "cmp" => y = Cmp(x.field, x.op, of(x.value)) /\ y \in Atoms
            /\ x.kind = "between" => y = Between(x.field, of(x.lo), of(x.hi)) /\ y \in Atoms
            /\ x.kind = "in" /\ ~ IsDim(x.values) =>
                 y = In(x.field, [i \in DOMAIN x.values |-> of(x.values[i])]) /\ y \in Atoms
            /\ x.kind = "in" /\ IsDim(x.values) =>
                 \/ y = False /\ granted = {}
                 \/ y = In(x.field, SetToSeq(granted)) /\ y \in Atoms /\ ToSet(SetToSeq(granted)) = granted
<1> DEFINE of(v) == IF v = User THEN s.user ELSE v
           y == Filled(p, s)[x]
           granted == Granted(Related(p, s), x.values[1].text, Expanded(s))
<1>1. \A v \in Value : of(v) \in Value /\ Scalar(v, s) = of(v)
  BY DEF Subject, Scalar
<1>2. x.kind = "relation" => y = x
  BY DEF Filled, Filling
<1>3. ASSUME x.kind = "cmp" PROVE y = Cmp(x.field, x.op, of(x.value)) /\ y \in Atoms
  <2>1. y = [x EXCEPT !.value = Scalar(@, s)]
    BY <1>3 DEF Filled, Filling
  <2>2. x = Cmp(x.field, x.op, x.value) /\ x.field \in STRING /\ x.op \in Ops /\ x.value \in Value
    BY <1>3, AtomsAre
  <2>3. y = Cmp(x.field, x.op, of(x.value))
    BY <1>1, <2>1, <2>2 DEF Cmp
  <2> HIDE DEF y, of
  <2> QED BY <1>1, <2>2, <2>3, AtomsMade
<1>4. ASSUME x.kind = "between" PROVE y = Between(x.field, of(x.lo), of(x.hi)) /\ y \in Atoms
  <2>1. y = Between(x.field, Scalar(x.lo, s), Scalar(x.hi, s))
    BY <1>4 DEF Filled, Filling
  <2>2. x = Between(x.field, x.lo, x.hi) /\ x.field \in STRING /\ x.lo \in Value /\ x.hi \in Value
    BY <1>4, AtomsAre
  <2>3. y = Between(x.field, of(x.lo), of(x.hi))
    BY <1>1, <2>1, <2>2
  <2> HIDE DEF y, of
  <2> QED BY <1>1, <2>2, <2>3, AtomsMade
<1>5. ASSUME x.kind = "in" PROVE y = FillIn(x, Related(p, s), s, Expanded(s)) /\ x.field \in STRING /\ x.values \in Seq(Value)
  <2>1. y = FillIn(x, Related(p, s), s, Expanded(s))
    BY <1>5 DEF Filled, Filling
  <2>2. x.field \in STRING /\ x.values \in Seq(Value)
    BY <1>5, AtomsAre
  <2> QED BY <2>1, <2>2
<1>6. ASSUME x.kind = "in", ~ IsDim(x.values)
      PROVE  y = In(x.field, [i \in DOMAIN x.values |-> of(x.values[i])]) /\ y \in Atoms
  <2> DEFINE vs == [i \in DOMAIN x.values |-> of(x.values[i])]
  <2>1. vs = [i \in DOMAIN x.values |-> Scalar(x.values[i], s)]
    BY <1>1, <1>5, <1>6
  <2>2. vs \in Seq(Value)
    BY <1>1, <1>5, <1>6
  <2>3. y = In(x.field, vs)
    BY <1>5, <1>6, <2>1 DEF FillIn
  <2> HIDE DEF y, vs
  <2>4. y \in Atoms
    BY <1>5, <1>6, <2>2, <2>3, AtomsMade
  <2> QED BY <2>3, <2>4 DEF vs
<1>7. ASSUME x.kind = "in", IsDim(x.values)
      PROVE  \/ y = False /\ granted = {}
             \/ y = In(x.field, SetToSeq(granted)) /\ y \in Atoms /\ ToSet(SetToSeq(granted)) = granted
  <2>1. y = IF granted = {} THEN False ELSE In(x.field, SetToSeq(granted))
    BY <1>5, <1>7 DEF FillIn
  <2>2. granted \subseteq Value /\ IsFiniteSet(granted)
    BY GrantedDef
  <2> HIDE DEF granted, y
  <2>3. SetToSeq(granted) \in Seq(Value) /\ ToSet(SetToSeq(granted)) = granted
    BY <2>2, SetToSeqDef, SeqMonotone
  <2> QED BY <1>5, <1>7, <2>1, <2>3, AtomsMade
<1> QED BY <1>2, <1>3, <1>4, <1>6, <1>7

(*------------------------ what a decision says ---------------------------*)

(* The relations of a constraint that a row passes, looked up. *)
Looked(s, row) == [x \in Atoms |-> Holds(Lookup(s)[x], Passing(row))]

(* The tests and relations of a template that a row passes, as Says has them. *)
Meant(p, s, row) ==
  LET of(v) == IF v = User THEN s.user ELSE v
      test(d) == d.field \in DOMAIN row /\ TestKeeps(d, row[d.field])
  IN [x \in Atoms |->
       \/ x.kind = "relation" /\ x.field \in DOMAIN row
          /\ \E t \in tuples : /\ t.field = x.field /\ t.rel = x.rel /\ t.subject = of(x.subject)
                               /\ JsonEq(t.object, row[x.field])
       \/ x.kind = "in" /\ IF IsDim(x.values)
                           THEN x.field \in DOMAIN row /\ InDimension(p, s, x.values[1].text, row[x.field])
                           ELSE test([x EXCEPT !.values = [i \in DOMAIN @ |-> of(@[i])]])
       \/ x.kind = "cmp" /\ test([x EXCEPT !.value = of(@)])
       \/ x.kind = "between" /\ test(Between(x.field, of(x.lo), of(x.hi)))]

LEMMA InPasses ==
  ASSUME NEW row, NEW f \in STRING, NEW vs \in Seq(Value)
  PROVE  Passing(row)[In(f, vs)] <=> f \in DOMAIN row /\ \E v \in ToSet(vs) : JsonEq(v, row[f])
<1>1. In(f, vs) \in Atoms /\ In(f, vs).kind = "in" /\ In(f, vs).field = f /\ In(f, vs).values = vs
  BY AtomsMade DEF In
<1>2. ASSUME NEW u PROVE TestKeeps(In(f, vs), u) <=> \E v \in ToSet(vs) : JsonEq(v, u)
  BY <1>1 DEF TestKeeps, ToSet
<1> HIDE DEF In
<1> QED BY <1>1, <1>2 DEF Passing

LEMMA LookupIs ==
  ASSUME Stored, NEW s \in Subject, NEW x \in Atoms
  PROVE  LET of(v) == IF v = User THEN s.user ELSE v
             objects == LookupResources(tuples, x.field, x.rel, of(x.subject))
         IN /\ x.kind # "relation" => Lookup(s)[x] = x
            /\ x.kind = "relation" => /\ Lookup(s)[x] = In(x.field, SetToSeq(objects)) /\ Lookup(s)[x] \in Atoms
                                      /\ ToSet(SetToSeq(objects)) = objects /\ SetToSeq(objects) \in Seq(Value)
<1> DEFINE of(v) == IF v = User THEN s.user ELSE v
           objects == LookupResources(tuples, x.field, x.rel, of(x.subject))
<1>1. x.kind # "relation" => Lookup(s)[x] = x
  BY DEF Lookup
<1>2. ASSUME x.kind = "relation"
      PROVE  /\ Lookup(s)[x] = In(x.field, SetToSeq(objects)) /\ Lookup(s)[x] \in Atoms
             /\ ToSet(SetToSeq(objects)) = objects /\ SetToSeq(objects) \in Seq(Value)
  <2>1. x.field \in STRING /\ Scalar(x.subject, s) = of(x.subject)
    BY <1>2, AtomsAre DEF Scalar
  <2>2. Lookup(s)[x] = In(x.field, SetToSeq(objects))
    BY <1>2, <2>1 DEF Lookup
  <2> DEFINE hits == {u \in tuples : u.field = x.field /\ u.rel = x.rel /\ u.subject = of(x.subject)}
             f == [t \in hits |-> t.object]
  <2>3. IsFiniteSet(hits) /\ hits \subseteq Tuple
    <3>1. IsFiniteSet(hits)
      BY FS_Subset DEF Stored
    <3>2. hits \subseteq Tuple
      BY SubjectsAssumption DEF Stored
    <3> QED BY <3>1, <3>2
  <2>4. objects = {f[t] : t \in hits}
    BY DEF LookupResources
  <2>5. objects \subseteq Value
    BY <2>3, <2>4 DEF Tuple
  <2>6. IsFiniteSet(objects)
    <3> HIDE DEF objects, f, hits
    <3> QED BY <2>3, <2>4, ImageFinite
  <2> HIDE DEF objects
  <2>7. SetToSeq(objects) \in Seq(Value) /\ ToSet(SetToSeq(objects)) = objects
    BY <2>5, <2>6, SetToSeqDef, SeqMonotone
  <2> QED BY <2>1, <2>2, <2>7, AtomsMade
<1> QED BY <1>1, <1>2

LEMMA LookedIs ==
  ASSUME Stored, NEW s \in Subject, NEW row
  PROVE  /\ Lookup(s) \in [Atoms -> Leaves] /\ Looked(s, row) \in [Atoms -> BOOLEAN]
         /\ \A x \in Atoms : x.kind # "relation" => (Looked(s, row)[x] <=> Passing(row)[x])
         /\ \A x \in Atoms : x.kind = "relation" =>
              (Looked(s, row)[x] <=> /\ x.field \in DOMAIN row
                                     /\ \E t \in tuples : /\ t.field = x.field /\ t.rel = x.rel
                                                          /\ t.subject = (IF x.subject = User THEN s.user ELSE x.subject)
                                                          /\ JsonEq(t.object, row[x.field]))
<1>1. ASSUME NEW x \in Atoms PROVE Lookup(s)[x] \in Atoms
  BY LookupIs
<1>2. Lookup(s) \in [Atoms -> Atoms]
  <2>1. Lookup(s) = [x \in Atoms |-> Lookup(s)[x]]
    BY DEF Lookup
  <2> QED BY <1>1, <2>1
<1>3. ASSUME NEW x \in Atoms PROVE Looked(s, row)[x] <=> Passing(row)[Lookup(s)[x]]
  BY <1>1, PassingIs DEF Looked
<1>4. Looked(s, row) \in [Atoms -> BOOLEAN]
  <2>1. ASSUME NEW x \in Atoms PROVE Holds(Lookup(s)[x], Passing(row)) \in BOOLEAN
    <3>1. Lookup(s)[x] \in Trees
      <4>1. Leaves = Tree(Leaves, 0) /\ 0 \in 0..(Depth + 4) /\ Lookup(s)[x] \in Leaves
        BY <1>1, DepthAssumption, TreeDef DEF Leaves
      <4> QED BY <4>1, Levels
    <3> QED BY <3>1, PassingIs, HoldsDef
  <2> QED BY <2>1 DEF Looked
<1>5. ASSUME NEW x \in Atoms, x.kind = "relation"
      PROVE  Looked(s, row)[x] <=>
               /\ x.field \in DOMAIN row
               /\ \E t \in tuples : /\ t.field = x.field /\ t.rel = x.rel
                                    /\ t.subject = (IF x.subject = User THEN s.user ELSE x.subject)
                                    /\ JsonEq(t.object, row[x.field])
  <2> DEFINE user == IF x.subject = User THEN s.user ELSE x.subject
             objects == LookupResources(tuples, x.field, x.rel, user)
  <2>1. /\ Lookup(s)[x] = In(x.field, SetToSeq(objects))
        /\ ToSet(SetToSeq(objects)) = objects /\ SetToSeq(objects) \in Seq(Value)
    BY <1>5, LookupIs
  <2>2. x.field \in STRING
    BY AtomsAre
  <2>3. Looked(s, row)[x] <=> x.field \in DOMAIN row /\ \E v \in objects : JsonEq(v, row[x.field])
    <3> HIDE DEF objects
    <3>1. Passing(row)[In(x.field, SetToSeq(objects))] <=>
            x.field \in DOMAIN row /\ \E v \in ToSet(SetToSeq(objects)) : JsonEq(v, row[x.field])
      BY <2>1, <2>2, InPasses
    <3> QED BY <1>3, <2>1, <3>1
  <2>4. objects = {t.object : t \in {u \in tuples : u.field = x.field /\ u.rel = x.rel /\ u.subject = user}}
    BY DEF LookupResources
  <2> HIDE DEF user, objects
  <2>5. (\E v \in objects : JsonEq(v, row[x.field])) <=>
          \E t \in tuples : t.field = x.field /\ t.rel = x.rel /\ t.subject = user /\ JsonEq(t.object, row[x.field])
    BY <2>4
  <2> QED BY <2>3, <2>5 DEF user
<1> QED BY <1>2, <1>3, <1>4, <1>5, LookupIs DEF Leaves

LEMMA FilledMeans ==
  ASSUME Stored, NEW p, NEW s \in Subject, NEW row, NEW x \in Atoms
  PROVE  /\ Filled(p, s)[x] \in Leaves
         /\ Holds(Filled(p, s)[x], Looked(s, row)) <=> Meant(p, s, row)[x]
<1> DEFINE of(v) == IF v = User THEN s.user ELSE v
           test(d) == d.field \in DOMAIN row /\ TestKeeps(d, row[d.field])
           y == Filled(p, s)[x]
           granted == Granted(Related(p, s), x.values[1].text, Expanded(s))
<1>1. Looked(s, row) \in [Atoms -> BOOLEAN]
  BY LookedIs
<1>2. ASSUME y \in Atoms, y.kind # "relation" PROVE Holds(y, Looked(s, row)) <=> test(y)
  <2>1. Holds(y, Looked(s, row)) <=> Passing(row)[y]
    BY <1>1, <1>2, AtomHolds, LookedIs
  <2> HIDE DEF y
  <2> QED BY <1>2, <2>1 DEF Passing
<1>3. CASE x.kind = "relation"
  <2>1. y = x
    BY <1>3, FilledIs
  <2>2. Holds(y, Looked(s, row)) <=> Looked(s, row)[x]
    BY <1>1, <2>1, AtomHolds
  <2>3. Looked(s, row)[x] <=>
          /\ x.field \in DOMAIN row
          /\ \E t \in tuples : /\ t.field = x.field /\ t.rel = x.rel /\ t.subject = of(x.subject)
                               /\ JsonEq(t.object, row[x.field])
    BY <1>3, LookedIs
  <2>4. Meant(p, s, row)[x] <=>
          /\ x.field \in DOMAIN row
          /\ \E t \in tuples : /\ t.field = x.field /\ t.rel = x.rel /\ t.subject = of(x.subject)
                               /\ JsonEq(t.object, row[x.field])
    BY <1>3 DEF Meant
  <2> QED BY <2>1, <2>2, <2>3, <2>4 DEF Leaves
<1>4. CASE x.kind = "cmp"
  <2>1. y = Cmp(x.field, x.op, of(x.value)) /\ y \in Atoms
    BY <1>4, FilledIs
  <2>2. x = Cmp(x.field, x.op, x.value)
    BY <1>4, AtomsAre
  <2>3. [x EXCEPT !.value = of(@)] = Cmp(x.field, x.op, of(x.value))
    BY <2>2 DEF Cmp
  <2>4. Meant(p, s, row)[x] <=> test([x EXCEPT !.value = of(@)])
    BY <1>4 DEF Meant
  <2>5. y.kind # "relation"
    BY <2>1 DEF Cmp
  <2> HIDE DEF y, test
  <2> QED BY <1>2, <2>1, <2>3, <2>4, <2>5 DEF Leaves, y
<1>5. CASE x.kind = "between"
  <2>1. y = Between(x.field, of(x.lo), of(x.hi)) /\ y \in Atoms
    BY <1>5, FilledIs
  <2>2. Meant(p, s, row)[x] <=> test(Between(x.field, of(x.lo), of(x.hi)))
    BY <1>5 DEF Meant
  <2>3. y.kind # "relation"
    BY <2>1 DEF Between
  <2> HIDE DEF y, test
  <2> QED BY <1>2, <2>1, <2>2, <2>3 DEF Leaves, y
<1>6. CASE x.kind = "in" /\ ~ IsDim(x.values)
  <2> DEFINE vs == [i \in DOMAIN x.values |-> of(x.values[i])]
  <2>1. y = In(x.field, vs) /\ y \in Atoms
    BY <1>6, FilledIs
  <2>2. x = In(x.field, x.values)
    BY <1>6, AtomsAre
  <2>3. [x EXCEPT !.values = [i \in DOMAIN @ |-> of(@[i])]] = In(x.field, vs)
    <3>1. [x EXCEPT !.values = [i \in DOMAIN @ |-> of(@[i])]] = [x EXCEPT !.values = vs]
      OBVIOUS
    <3> HIDE DEF vs
    <3>2. [x EXCEPT !.values = vs] = In(x.field, vs)
      BY <2>2 DEF In
    <3> QED BY <3>1, <3>2
  <2>4. Meant(p, s, row)[x] <=> test([x EXCEPT !.values = [i \in DOMAIN @ |-> of(@[i])]])
    BY <1>6 DEF Meant
  <2>5. y.kind # "relation"
    BY <2>1 DEF In
  <2> HIDE DEF y, test, vs
  <2> QED BY <1>2, <2>1, <2>3, <2>4, <2>5 DEF Leaves, y
<1>7. CASE x.kind = "in" /\ IsDim(x.values)
  <2> DEFINE key == x.values[1].text
  <2>1. \/ y = False /\ granted = {}
        \/ y = In(x.field, SetToSeq(granted)) /\ y \in Atoms /\ ToSet(SetToSeq(granted)) = granted
    BY <1>7, FilledIs
  <2>2. Meant(p, s, row)[x] <=> x.field \in DOMAIN row /\ InDimension(p, s, key, row[x.field])
    BY <1>7 DEF Meant
  <2>3. granted = UNION {Values(g, key) : g \in Selected(p, s, key)}
    BY GrantedDef
  <2> HIDE DEF granted, y
  <2>4. ASSUME NEW v PROVE InDimension(p, s, key, v) <=> \E u \in granted : JsonEq(u, v)
    <3> HIDE DEF key
    <3>1. InDimension(p, s, key, v) <=>
            \E g \in Selected(p, s, key) : \E root \in ToSet(g.values) :
              \E u \in IF g.inherit THEN Below(key, AsText(root)) ELSE {AsText(root)} : JsonEq(u, v)
      BY DEF InDimension, Selected
    <3>2. (\E u \in granted : JsonEq(u, v)) <=> \E g \in Selected(p, s, key) : \E u \in Values(g, key) : JsonEq(u, v)
      BY <2>3
    <3>3. ASSUME NEW g
          PROVE  (\E u \in Values(g, key) : JsonEq(u, v)) <=>
                   \E root \in ToSet(g.values) :
                     \E u \in IF g.inherit THEN Below(key, AsText(root)) ELSE {AsText(root)} : JsonEq(u, v)
      BY DEF Values
    <3> QED BY <3>1, <3>2, <3>3
  <2>5. CASE y = False /\ granted = {}
    <3>1. ~ Holds(y, Looked(s, row)) /\ y \in Leaves
      BY <1>1, <2>5, ConstantsHold DEF Leaves, Constants
    <3> QED BY <2>2, <2>4, <2>5, <3>1 DEF y
  <2>6. CASE y = In(x.field, SetToSeq(granted)) /\ y \in Atoms /\ ToSet(SetToSeq(granted)) = granted
    <3>1. Holds(y, Looked(s, row)) <=> x.field \in DOMAIN row /\ \E u \in granted : JsonEq(u, row[x.field])
      <4>1. y.kind = "in" /\ y.field = x.field /\ y.values = SetToSeq(granted)
        BY <2>6 DEF In
      <4>2. TestKeeps(y, row[x.field]) <=> \E u \in ToSet(SetToSeq(granted)) : JsonEq(u, row[x.field])
        BY <4>1 DEF TestKeeps, ToSet
      <4>3. Holds(y, Looked(s, row)) <=> test(y)
        BY <1>2, <2>6, <4>1 DEF y
      <4> QED BY <2>6, <4>1, <4>2, <4>3
    <3>2. Meant(p, s, row)[x] <=> x.field \in DOMAIN row /\ \E u \in granted : JsonEq(u, row[x.field])
      BY <2>2, <2>4
    <3> QED BY <2>6, <3>1, <3>2 DEF y, Leaves
  <2> QED BY <2>1, <2>5, <2>6
<1> QED BY <1>3, <1>4, <1>5, <1>6, <1>7, AtomsAre

(* Trees of constants and atoms: constraints, no SQL in them. *)
Plain(n) == {c \in Tree(Leaves, n) : LeavesOf(c) \subseteq Constants \cup Atoms}

LEMMA TemplatesArePlain == Templates \subseteq Plain(Depth)
<1> DEFINE L == Constants \cup Atoms
           S == {n \in Nat : n <= Depth + 4 => \A c \in Tree(L, n) : LeavesOf(c) \subseteq L}
<1>1. ASSUME NEW n \in Nat PROVE Tree(L, n) \subseteq Tree(Leaves, n)
  <2>1. L \subseteq Leaves
    BY DEF Leaves
  <2> HIDE DEF L
  <2> QED BY <2>1, MoreLeaves
<1>2. ASSUME NEW n \in Nat, n <= Depth + 4 PROVE Tree(L, n) \subseteq Trees
  <2>1. n \in 0..(Depth + 4)
    BY <1>2, DepthAssumption
  <2> QED BY <1>1, <2>1, Levels
<1>3. ASSUME NEW x \in L, x \in Trees PROVE LeavesOf(x) = {x}
  <2>1. x.kind \notin {"and", "or", "not"}
    BY AtomsAre DEF Constants, True, False
  <2> QED BY <1>3, <2>1, LeavesOfDef
<1>4. 0 \in S
  <2>1. \A c \in Tree(L, 0) : c \in L /\ c \in Trees
    BY <1>2, DepthAssumption, 0 <= Depth + 4, TreeDef
  <2> HIDE DEF L
  <2> QED BY <1>3, <2>1
<1>5. ASSUME NEW n \in S PROVE n + 1 \in S
  <2> SUFFICES ASSUME n + 1 <= Depth + 4, NEW c \in Tree(L, n + 1) PROVE LeavesOf(c) \subseteq L
    OBVIOUS
  <2>1. n \in Nat /\ n + 1 \in Nat /\ n <= Depth + 4
    BY DepthAssumption
  <2>2. \A x \in Tree(L, n) : LeavesOf(x) \subseteq L
    BY <2>1
  <2>3. c \in Trees
    BY <1>2, <2>1
  <2>4. c \in Over(L, Tree(L, n))
    BY <2>1, TreeDef
  <2> DEFINE U == Tree(L, n)
  <2> HIDE DEF U, S, L
  <2>5. CASE c \in L
    BY <1>3, <2>3, <2>5
  <2>6. CASE c \in [kind : {"and", "or"}, items : Seq(U)]
    <3>1. c.kind \in {"and", "or"} /\ c.items \in Seq(U)
      BY <2>6
    <3>2. \A i \in DOMAIN c.items : LeavesOf(c.items[i]) \subseteq L
      BY <2>2, <3>1 DEF U
    <3> QED BY <2>3, <3>1, <3>2, LeavesOfDef
  <2>7. CASE c \in [kind : {"not"}, item : U]
    <3>1. c.kind = "not" /\ LeavesOf(c.item) \subseteq L
      BY <2>2, <2>7 DEF U
    <3> QED BY <2>3, <3>1, LeavesOfDef
  <2> QED BY <2>4, <2>5, <2>6, <2>7 DEF Over, U
<1>6. S = Nat
  <2> HIDE DEF S
  <2>1. S \in SUBSET Nat BY DEF S
  <2> QED BY <1>4, <1>5, <2>1, SetInduction
<1>7. Depth \in Nat /\ Depth <= Depth + 4
  BY DepthAssumption
<1>8. \A c \in Tree(L, Depth) : LeavesOf(c) \subseteq L
  BY <1>6, <1>7
<1> QED BY <1>1, <1>7, <1>8 DEF Plain, Templates

(* A template filled in says of a row what the template says as it was written. *)
LEMMA InstantiateSays ==
  ASSUME Stored, NEW p, NEW s \in Subject, NEW row, NEW tpl \in Templates \cup {Broken}
  PROVE  LET c == Instantiate(tpl, Related(p, s), s, Expanded(s))
         IN /\ c \in Plain(Depth)
            /\ Holds(c, Looked(s, row)) <=> tpl # Broken /\ Says(tpl, p, s, row)
<1> DEFINE c == Instantiate(tpl, Related(p, s), s, Expanded(s))
           t == IF tpl = Broken THEN False ELSE tpl
           atom == Filled(p, s)
<1>1. c = Rebuild(t, atom)
  BY DEF Instantiate, Subst, Filled, Filling
<1>2. t \in Templates /\ t \in Tree(Leaves, Depth) /\ Depth \in 0..(Depth + 4) /\ t \in Trees
  <2>1. t \in Templates /\ t \in Tree(Leaves, Depth)
    BY ConstantsAreTemplates DEF Constants
  <2>2. Depth \in 0..(Depth + 4)
    BY DepthAssumption
  <2> HIDE DEF t
  <2> QED BY <2>1, <2>2, Levels
<1>3. atom \in [Atoms -> Leaves]
  <2>1. atom = [x \in Atoms |-> atom[x]]
    <3> DEFINE body(x) ==
                 CASE x.kind = "in" -> FillIn(x, Related(p, s), s, Expanded(s))
                   [] x.kind = "cmp" -> [x EXCEPT !.value = Scalar(@, s)]
                   [] x.kind = "between" -> Between(x.field, Scalar(x.lo, s), Scalar(x.hi, s))
                   [] x.kind = "relation" -> x
    <3>1. atom = [x \in Atoms |-> body(x)]
      BY DEF Filled, Filling
    <3> HIDE DEF body, atom
    <3> QED BY <3>1
  <2>2. \A x \in Atoms : atom[x] \in Leaves
    BY FilledMeans
  <2> HIDE DEF atom
  <2> QED BY <2>1, <2>2
<1>4. c \in Plain(Depth)
  <2>1. t \in Plain(Depth)
    BY <1>2, TemplatesArePlain
  <2>2. ASSUME NEW x \in Atoms PROVE atom[x] \in Constants \cup Atoms
    <3>1. x.kind \in {"relation", "cmp", "between", "in"}
      BY AtomsAre
    <3>2. atom[x] = x \/ atom[x] = False \/ atom[x] \in Atoms
      BY <3>1, FilledIs
    <3> QED BY <3>2 DEF Constants
  <2> HIDE DEF t, atom
  <2>3. Rebuild(t, atom) \in Tree(Leaves, Depth)
    BY <1>2, <1>3, RebuildDef
  <2>4. LeavesOf(Rebuild(t, atom)) \subseteq Constants \cup Atoms
    BY <1>2, <1>3, <2>1, <2>2, LeavesOfRebuilt DEF Plain
  <2> QED BY <1>1, <2>3, <2>4 DEF Plain
<1>5. Looked(s, row) \in [Atoms -> BOOLEAN]
  BY LookedIs
<1>6. [x \in Atoms |-> Holds(atom[x], Looked(s, row))] = Meant(p, s, row)
  <2>1. \A x \in Atoms : Holds(atom[x], Looked(s, row)) \in BOOLEAN
    <3>1. Leaves \subseteq Trees
      BY LeavesAreTrees, DepthAssumption, Depth + 4 \in 0..(Depth + 4) DEF Trees
    <3> HIDE DEF atom
    <3> QED BY <1>3, <1>5, <3>1, HoldsDef
  <2>2. Meant(p, s, row) = [x \in Atoms |-> Meant(p, s, row)[x]] /\ Meant(p, s, row) \in [Atoms -> BOOLEAN]
    BY DEF Meant
  <2>3. \A x \in Atoms : Holds(atom[x], Looked(s, row)) <=> Meant(p, s, row)[x]
    BY FilledMeans
  <2>4. \A x \in Atoms : Meant(p, s, row)[x] \in BOOLEAN
    <3> HIDE DEF atom
    <3> QED BY <2>2
  <2> HIDE DEF atom
  <2>5. \A x \in Atoms : Holds(atom[x], Looked(s, row)) = Meant(p, s, row)[x]
    BY <2>1, <2>3, <2>4
  <2> QED BY <2>2, <2>5
<1>7. Holds(c, Looked(s, row)) <=> Holds(t, Meant(p, s, row))
  <2> HIDE DEF t, atom
  <2>1. Holds(Rebuild(t, atom), Looked(s, row)) <=> Holds(t, [x \in Atoms |-> Holds(atom[x], Looked(s, row))])
    BY <1>2, <1>3, <1>5, RebuiltHolds
  <2> QED BY <1>1, <1>6, <2>1
<1>8. Says(tpl, p, s, row) = Holds(tpl, Meant(p, s, row))
  BY DEF Says, Meant
<1>9. ~ Holds(False, Meant(p, s, row))
  <2>1. Meant(p, s, row) \in [Atoms -> BOOLEAN]
    BY DEF Meant
  <2> QED BY <2>1, ConstantsHold
<1> HIDE DEF c, atom
<1>10. Holds(c, Looked(s, row)) <=> tpl # Broken /\ Says(tpl, p, s, row)
  BY <1>7, <1>8, <1>9
<1> QED BY <1>4, <1>10 DEF c

Resolved == Map(ResolvePolicy, LoadPolicies)
Composed(s, res) == Compose(s, res, Resolved, Loaded(s), Expanded(s))

LEMMA DecidedIs ==
  ASSUME NEW s, NEW res
  PROVE  LET d == Decided(s, res)
             c == Rebuild(Composed(s, res), Lookup(s))
         IN /\ d.constraint = c /\ d.effect = EffectOf(c) /\ d.matched = MatchedPolicies(s, res, Resolved)
            /\ d.obligations = IF EffectOf(c) = "deny" THEN << >> ELSE Obligations(rules, res, s)
<1> DEFINE c == Rebuild(Composed(s, res), Lookup(s))
<1>1. Decided(s, res) =
        [effect |-> EffectOf(c), constraint |-> c, matched |-> MatchedPolicies(s, res, Resolved),
         obligations |-> IF EffectOf(c) = "deny" THEN << >> ELSE Obligations(rules, res, s)]
  BY DEF Decided, Decision, ResolveRelations, Lookup, Composed, Resolved, Loaded, Expanded, Keys
<1> HIDE DEF c
<1> QED BY <1>1 DEF c

(* The policies a decision reads: those whose window is open, with the outcome of their decision table. *)
LEMMA ResolvedIs ==
  ASSUME Stored
  PROVE  /\ Resolved \in Seq(Policy)
         /\ \A q : q \in ToSet(Resolved) <=> \E i \in DOMAIN Policies : policies[i].valid /\ q = ResolvePolicy(policies[i])
         /\ \A i \in DOMAIN Policies : policies[i].valid => policies[i] \in Policy
<1> DEFINE ss == [i \in DOMAIN policies |-> IF policies[i].valid THEN <<policies[i]>> ELSE << >>]
<1>1. policies \in Seq(Policy \cup {NoPolicy}) /\ DOMAIN policies = DOMAIN Policies
  BY StoredDomains DEF Stored
<1>2. \A i \in DOMAIN policies : policies[i].valid => policies[i] \in Policy
  BY <1>1 DEF NoPolicy
<1>3. ss \in Seq(Seq(Policy))
  <2> DEFINE body(i) == IF policies[i].valid THEN <<policies[i]>> ELSE << >>
             N == Len(policies)
  <2>1. \A i \in DOMAIN policies : body(i) \in Seq(Policy)
    BY <1>2
  <2>2. N \in Nat /\ DOMAIN policies = 1..N
    BY <1>1
  <2>3. ss = [i \in 1..N |-> body(i)]
    BY <2>2
  <2> HIDE DEF body, N, ss
  <2> QED BY <2>1, <2>2, <2>3
<1>4. LoadPolicies = FlattenSeq(ss \o << >>)
  BY DEF LoadPolicies, Collect, Map
<1>5. ASSUME NEW q PROVE q \in AllIn(ss) <=> \E i \in DOMAIN policies : policies[i].valid /\ q = policies[i]
  <2>1. \A i \in DOMAIN ss : ToSet(ss[i]) = IF policies[i].valid THEN {policies[i]} ELSE {}
    BY DEF ToSet
  <2>2. DOMAIN ss = DOMAIN policies
    OBVIOUS
  <2> HIDE DEF ss
  <2> QED BY <2>1, <2>2 DEF AllIn
<1> HIDE DEF ss
<1>6. LoadPolicies \in Seq(Policy) /\ ToSet(LoadPolicies) = AllIn(ss)
  BY <1>3, <1>4, Collected
<1>7. ASSUME NEW p \in Policy PROVE ResolvePolicy(p) \in Policy
  <2>1. False \in Templates
    BY ConstantsAreTemplates DEF Constants
  <2>2. CASE p.source # "table"
    BY <2>2 DEF ResolvePolicy
  <2>3. CASE p.source = "table"
    <3> DEFINE t == IF p.gives = Broken THEN False ELSE p.gives
               q == [[[p EXCEPT !.source = "inline"] EXCEPT !.tpl = t] EXCEPT !.gives = Broken]
    <3>1. t \in Templates \cup {Broken}
      BY <2>1 DEF Policy
    <3>2. ResolvePolicy(p) = q
      BY <2>3 DEF ResolvePolicy
    <3> HIDE DEF t
    <3>3. q.gives = Broken /\ q \in [id : Nat, kind : STRING, action : STRING, effect : {"permit", "deny"},
            source : {"inline", "table"}, valid : BOOLEAN, tpl : Templates \cup {Broken}, gives : Templates \cup {Broken}]
      BY <3>1 DEF Policy
    <3> HIDE DEF q
    <3> QED BY <3>2, <3>3 DEF Policy
  <2> QED BY <2>2, <2>3
<1> DEFINE rs == [i \in DOMAIN LoadPolicies |-> ResolvePolicy(LoadPolicies[i])]
<1>8. rs \in Seq(Policy) /\ ToSet(rs) = {ResolvePolicy(p) : p \in ToSet(LoadPolicies)}
  BY <1>6, <1>7 DEF ToSet
<1>9. Resolved = rs
  <2>1. Resolved = rs \o << >>
    BY DEF Resolved, Map
  <2> HIDE DEF rs
  <2> QED BY <1>8, <2>1, ConcatEmptySeq
<1> HIDE DEF rs
<1>10. ASSUME NEW q PROVE q \in ToSet(Resolved) <=> \E i \in DOMAIN Policies : policies[i].valid /\ q = ResolvePolicy(policies[i])
  BY <1>1, <1>5, <1>6, <1>8, <1>9
<1> QED BY <1>1, <1>2, <1>8, <1>9, <1>10

LEMMA ResolvePolicyKeeps ==
  ASSUME NEW p \in Policy
  PROVE  LET q == ResolvePolicy(p)
         IN /\ q.id = p.id /\ q.kind = p.kind /\ q.action = p.action /\ q.effect = p.effect
            /\ q.tpl = Body(p) \/ (Body(p) = Broken /\ q.tpl = False)
<1>1. CASE p.source # "table"
  BY <1>1 DEF ResolvePolicy, Body
<1>2. CASE p.source = "table"
  <2> DEFINE t == IF p.gives = Broken THEN False ELSE p.gives
  <2>1. ResolvePolicy(p) = [[[p EXCEPT !.source = "inline"] EXCEPT !.tpl = t] EXCEPT !.gives = Broken]
    BY <1>2 DEF ResolvePolicy
  <2>2. t = Body(p) \/ (Body(p) = Broken /\ t = False)
    BY <1>2 DEF Body
  <2> HIDE DEF t
  <2> QED BY <2>1, <2>2 DEF Policy
<1> QED BY <1>1, <1>2

(* The templates of one effect that match a request, filled in: as Compose has them. *)
Parts(effect, s, res) ==
  Collect(LAMBDA p : IF Matches(p, res) /\ p.effect = effect
                     THEN <<Instantiate(p.tpl, Related(p, s), s, Expanded(s))>> ELSE << >>, Resolved)

(* A policy as it is decided with says what it says as it is stored; a broken table says nothing. *)
LEMMA ResolvedSays ==
  ASSUME Stored, NEW s \in Subject, NEW row, NEW p \in Policy
  PROVE  LET q == ResolvePolicy(p)
             c == Instantiate(q.tpl, Related(q, s), s, Expanded(s))
         IN /\ c \in Plain(Depth)
            /\ Holds(c, Looked(s, row)) <=> Body(p) # Broken /\ Says(Body(p), p, s, row)
<1> DEFINE q == ResolvePolicy(p)
           c == Instantiate(q.tpl, Related(q, s), s, Expanded(s))
<1>1. q.id = p.id /\ (q.tpl = Body(p) \/ (Body(p) = Broken /\ q.tpl = False))
  BY ResolvePolicyKeeps
<1>2. q.tpl \in Templates \cup {Broken}
  BY <1>1, ConstantsAreTemplates DEF Body, Policy, Constants
<1> HIDE DEF q
<1>3. Related(q, s) = Related(p, s)
  BY <1>1 DEF Related
<1>4. c = Instantiate(q.tpl, Related(p, s), s, Expanded(s))
  BY <1>3
<1>5. c \in Plain(Depth) /\ (Holds(c, Looked(s, row)) <=> q.tpl # Broken /\ Says(q.tpl, p, s, row))
  BY <1>2, <1>4, InstantiateSays
<1>6. ~ Says(False, p, s, row)
  <2>1. Says(False, p, s, row) = Holds(False, Meant(p, s, row))
    BY DEF Says, Meant
  <2>2. Meant(p, s, row) \in [Atoms -> BOOLEAN]
    BY DEF Meant
  <2> QED BY <2>1, <2>2, ConstantsHold
<1> HIDE DEF c
<1>7. Holds(c, Looked(s, row)) <=> Body(p) # Broken /\ Says(Body(p), p, s, row)
  BY <1>1, <1>5, <1>6
<1> QED BY <1>5, <1>7 DEF c, q

LEMMA PartsSay ==
  ASSUME Stored, NEW s \in Subject, NEW res, NEW effect
  PROVE  /\ Parts(effect, s, res) \in Seq(Plain(Depth))
         /\ \A row : (\E i \in DOMAIN Parts(effect, s, res) : Holds(Parts(effect, s, res)[i], Looked(s, row)))
                       <=> SaidBy(effect, s, res, row)
<1> DEFINE parts == Parts(effect, s, res)
           N == Len(Resolved)
           counts(q) == Matches(q, res) /\ q.effect = effect
           filled(q) == Instantiate(q.tpl, Related(q, s), s, Expanded(s))
           body(q) == IF counts(q) THEN <<filled(q)>> ELSE << >>
           ss == [i \in DOMAIN Resolved |-> body(Resolved[i])]
<1>1. N \in Nat /\ DOMAIN Resolved = 1..N
  BY ResolvedIs
<1>2. \A q \in ToSet(Resolved) :
        \E i \in DOMAIN Policies : policies[i] \in Policy /\ policies[i].valid /\ q = ResolvePolicy(policies[i])
  BY ResolvedIs
<1>3. ASSUME NEW q \in ToSet(Resolved) PROVE filled(q) \in Plain(Depth)
  <2>1. PICK i \in DOMAIN Policies : policies[i] \in Policy /\ q = ResolvePolicy(policies[i])
    BY <1>2
  <2> QED BY <2>1, ResolvedSays
<1>4. ASSUME NEW q \in ToSet(Resolved) PROVE body(q) \in Seq(Plain(Depth))
  <2> HIDE DEF filled, counts
  <2> QED BY <1>3
<1>5. ss \in Seq(Seq(Plain(Depth)))
  <2>1. \A i \in DOMAIN Resolved : Resolved[i] \in ToSet(Resolved)
    BY DEF ToSet
  <2>2. ss = [i \in 1..N |-> body(Resolved[i])]
    BY <1>1
  <2> HIDE DEF ss, body, N
  <2> QED BY <1>1, <1>4, <2>1, <2>2
<1>6. parts = FlattenSeq(ss \o << >>)
  BY DEF Parts, Collect, Map
<1>7. ASSUME NEW c PROVE c \in AllIn(ss) <=> \E q \in ToSet(Resolved) : counts(q) /\ c = filled(q)
  <2> HIDE DEF counts, filled
  <2>1. \A i \in DOMAIN ss : ToSet(ss[i]) = IF counts(Resolved[i]) THEN {filled(Resolved[i])} ELSE {}
    BY DEF ToSet
  <2>2. DOMAIN ss = DOMAIN Resolved
    OBVIOUS
  <2>3. c \in AllIn(ss) <=> \E i \in DOMAIN Resolved : counts(Resolved[i]) /\ c = filled(Resolved[i])
    <3> HIDE DEF ss
    <3> QED BY <2>1, <2>2 DEF AllIn
  <2> QED BY <2>3 DEF ToSet
<1> HIDE DEF ss
<1>8. parts \in Seq(Plain(Depth)) /\ ToSet(parts) = AllIn(ss)
  BY <1>5, <1>6, Collected
<1> HIDE DEF parts
<1>9. ASSUME NEW row
      PROVE  (\E i \in DOMAIN parts : Holds(parts[i], Looked(s, row))) <=> SaidBy(effect, s, res, row)
  <2>1. (\E i \in DOMAIN parts : Holds(parts[i], Looked(s, row))) <=> \E c \in ToSet(parts) : Holds(c, Looked(s, row))
    BY DEF ToSet
  <2>2. (\E c \in ToSet(parts) : Holds(c, Looked(s, row))) <=>
          \E q \in ToSet(Resolved) : counts(q) /\ Holds(filled(q), Looked(s, row))
    <3> HIDE DEF counts, filled
    <3> QED BY <1>7, <1>8
  <2>3. ASSUME NEW i \in DOMAIN Policies, policies[i].valid
        PROVE  LET q == ResolvePolicy(policies[i]) p == policies[i]
               IN counts(q) /\ Holds(filled(q), Looked(s, row)) <=>
                    /\ p.kind = res.kind /\ p.action = res.action /\ p.effect = effect
                    /\ Body(p) # Broken /\ Says(Body(p), p, s, row)
    <3> DEFINE p == policies[i]
               q == ResolvePolicy(policies[i])
    <3>1. p \in Policy
      BY <2>3, ResolvedIs
    <3>2. Holds(filled(q), Looked(s, row)) <=> Body(p) # Broken /\ Says(Body(p), p, s, row)
      BY <3>1, ResolvedSays
    <3>3. q.kind = p.kind /\ q.action = p.action /\ q.effect = p.effect
      BY <3>1, ResolvePolicyKeeps
    <3>4. counts(q) <=> p.kind = res.kind /\ p.action = res.action /\ p.effect = effect
      <4> HIDE DEF q, p
      <4> QED BY <3>3 DEF Matches
    <3> HIDE DEF counts, filled, p, q
    <3>5. counts(q) /\ Holds(filled(q), Looked(s, row)) <=>
                    /\ p.kind = res.kind /\ p.action = res.action /\ p.effect = effect
                    /\ Body(p) # Broken /\ Says(Body(p), p, s, row)
      BY <3>2, <3>4
    <3> QED BY <3>5 DEF p, q
  <2>4. (\E q \in ToSet(Resolved) : counts(q) /\ Holds(filled(q), Looked(s, row))) <=>
          \E i \in DOMAIN Policies :
            policies[i].valid /\ counts(ResolvePolicy(policies[i])) /\ Holds(filled(ResolvePolicy(policies[i])), Looked(s, row))
    <3> HIDE DEF counts, filled
    <3> QED BY ResolvedIs
  <2> HIDE DEF counts, filled
  <2>5. (\E i \in DOMAIN Policies :
            policies[i].valid /\ counts(ResolvePolicy(policies[i])) /\ Holds(filled(ResolvePolicy(policies[i])), Looked(s, row)))
          <=> SaidBy(effect, s, res, row)
    BY <2>3 DEF SaidBy
  <2> QED BY <2>1, <2>2, <2>4, <2>5
<1> QED BY <1>8, <1>9 DEF parts

(* Some permit and no deny, and nothing stands in the way of a superadmin. *)
LEMMA ComposedIs ==
  ASSUME Stored, NEW s \in Subject, NEW res
  PROVE  /\ Composed(s, res) \in Plain(Depth + 3)
         /\ \A row : Holds(Composed(s, res), Looked(s, row)) <=>
                       \/ Superadmin \in s.roles
                       \/ SaidBy("permit", s, res, row) /\ ~ SaidBy("deny", s, res, row)
<1> DEFINE permits == Parts("permit", s, res)
           denies == Parts("deny", s, res)
           c == Composed(s, res)
<1>1. c = IF Superadmin \in s.roles THEN True ELSE IF permits = << >> THEN False ELSE Combine(permits, denies)
  BY DEF Composed, Compose, Parts, Related
<1>2. \A row : Looked(s, row) \in [Atoms -> BOOLEAN]
  BY LookedIs
<1>3. /\ permits \in Seq(Tree(Leaves, Depth)) /\ denies \in Seq(Tree(Leaves, Depth))
      /\ \A i \in DOMAIN permits : LeavesOf(permits[i]) \subseteq Atoms \cup Constants
      /\ \A i \in DOMAIN denies : LeavesOf(denies[i]) \subseteq Atoms \cup Constants
  <2>1. permits \in Seq(Plain(Depth)) /\ denies \in Seq(Plain(Depth))
    BY PartsSay
  <2> HIDE DEF permits, denies
  <2>2. permits \in Seq(Tree(Leaves, Depth)) /\ denies \in Seq(Tree(Leaves, Depth))
    <3>1. Plain(Depth) \subseteq Tree(Leaves, Depth)
      BY DEF Plain
    <3> QED BY <2>1, <3>1, SeqMonotone
  <2> QED BY <2>1, <2>2 DEF Plain
<1>4. \A row : (\E i \in DOMAIN permits : Holds(permits[i], Looked(s, row))) <=> SaidBy("permit", s, res, row)
  BY PartsSay
<1>5. \A row : (\E i \in DOMAIN denies : Holds(denies[i], Looked(s, row))) <=> SaidBy("deny", s, res, row)
  BY PartsSay
<1> HIDE DEF permits, denies, c
<1> DEFINE either == Or(permits)
           none == Not(Or(denies))
           both == And(<<either, none>>)
<1>6. /\ Depth \in 0..(Depth + 3) /\ Depth + 1 \in 0..(Depth + 3) /\ Depth + 2 \in 0..(Depth + 3)
      /\ Depth + 1 \in 0..(Depth + 4) /\ Depth + 3 \in 0..(Depth + 4)
      /\ (Depth + 1) + 1 = Depth + 2 /\ (Depth + 2) + 1 = Depth + 3
      /\ Depth + 1 \in Nat /\ Depth + 2 \in Nat /\ Depth + 1 <= Depth + 2
  BY DepthAssumption
<1>7. /\ either \in Tree(Leaves, Depth + 1) /\ Or(denies) \in Tree(Leaves, Depth + 1)
      /\ \A row : Holds(either, Looked(s, row)) <=> SaidBy("permit", s, res, row)
      /\ \A row : Holds(Or(denies), Looked(s, row)) <=> SaidBy("deny", s, res, row)
  <2>1. \A row : either \in Tree(Leaves, Depth + 1) /\ Or(denies) \in Tree(Leaves, Depth + 1)
    BY <1>2, <1>3, <1>6, JoinedHolds
  <2>2. ASSUME NEW row PROVE Holds(either, Looked(s, row)) <=> SaidBy("permit", s, res, row)
    BY <1>2, <1>3, <1>4, <1>6, JoinedHolds
  <2>3. ASSUME NEW row PROVE Holds(Or(denies), Looked(s, row)) <=> SaidBy("deny", s, res, row)
    BY <1>2, <1>3, <1>5, <1>6, JoinedHolds
  <2> QED BY <2>1, <2>2, <2>3
<1>8. /\ none \in Tree(Leaves, Depth + 2)
      /\ \A row : Holds(none, Looked(s, row)) <=> ~ SaidBy("deny", s, res, row)
  BY <1>2, <1>6, <1>7, NotHolds
<1>9. either \in Tree(Leaves, Depth + 2)
  BY <1>6, <1>7, TreeMonotone
<1> HIDE DEF either, none
<1>10. <<either, none>> \in Seq(Tree(Leaves, Depth + 2)) /\ DOMAIN <<either, none>> = {1, 2}
       /\ <<either, none>>[1] = either /\ <<either, none>>[2] = none
  BY <1>8, <1>9
<1> DEFINE pair == <<either, none>>
<1> HIDE DEF pair
<1>11. pair \in Seq(Tree(Leaves, Depth + 2)) /\ DOMAIN pair = {1, 2} /\ pair[1] = either /\ pair[2] = none /\ both = And(pair)
  BY <1>10 DEF pair
<1>12. either \in Plain(Depth + 3) /\ both \in Plain(Depth + 3)
  <2>1. both \in Tree(Leaves, Depth + 3)
    <3>1. \A row : both \in Tree(Leaves, Depth + 3)
      BY <1>2, <1>6, <1>11, JoinedHolds
    <3> QED BY <3>1
  <2>2. LeavesOf(either) \subseteq Atoms \cup Constants /\ LeavesOf(Or(denies)) \subseteq Atoms \cup Constants
    BY <1>3, <1>6, LeavesOfJoined DEF either
  <2>3. LeavesOf(none) \subseteq Atoms \cup Constants
    BY <1>6, <1>7, <2>2, LeavesOfNot DEF none
  <2>4. LeavesOf(both) \subseteq Atoms \cup Constants
    <3>1. \A i \in DOMAIN pair : LeavesOf(pair[i]) \subseteq Atoms \cup Constants
      BY <1>11, <2>2, <2>3
    <3> QED BY <1>6, <1>11, <3>1, LeavesOfJoined
  <2>5. either \in Tree(Leaves, Depth + 3)
    BY <1>6, <1>7, TreeMonotone
  <2> QED BY <2>1, <2>2, <2>4, <2>5 DEF Plain
<1>13. ASSUME NEW row
       PROVE  Holds(both, Looked(s, row)) <=> SaidBy("permit", s, res, row) /\ ~ SaidBy("deny", s, res, row)
  <2>1. Holds(And(pair), Looked(s, row)) <=> \A i \in DOMAIN pair : Holds(pair[i], Looked(s, row))
    BY <1>2, <1>6, <1>11, JoinedHolds
  <2> QED BY <1>7, <1>8, <1>11, <2>1
<1>14. True \in Plain(Depth + 3) /\ False \in Plain(Depth + 3)
  <2>1. True \in Plain(Depth) /\ False \in Plain(Depth) /\ Depth \in Nat /\ Depth + 3 \in Nat /\ Depth <= Depth + 3
    BY DepthAssumption, ConstantsAreTemplates, TemplatesArePlain DEF Constants
  <2>2. Tree(Leaves, Depth) \subseteq Tree(Leaves, Depth + 3)
    BY <2>1, TreeMonotone
  <2> QED BY <2>1, <2>2 DEF Plain
<1> HIDE DEF both
<1>15. CASE Superadmin \in s.roles
  <2>1. c = True
    BY <1>1, <1>15
  <2> QED BY <1>2, <1>14, <1>15, <2>1, ConstantsHold DEF c
<1>16. CASE Superadmin \notin s.roles /\ permits = << >>
  <2>1. c = False
    BY <1>1, <1>16
  <2>2. \A row : ~ SaidBy("permit", s, res, row)
    BY <1>4, <1>16
  <2> QED BY <1>2, <1>14, <1>16, <2>1, <2>2, ConstantsHold DEF c
<1>17. CASE Superadmin \notin s.roles /\ permits # << >> /\ denies = << >>
  <2>1. c = either
    BY <1>1, <1>17 DEF Combine, either
  <2>2. \A row : ~ SaidBy("deny", s, res, row)
    BY <1>5, <1>17
  <2> QED BY <1>7, <1>12, <1>17, <2>1, <2>2 DEF c
<1>18. CASE Superadmin \notin s.roles /\ permits # << >> /\ denies # << >>
  <2>1. c = both
    BY <1>1, <1>18 DEF Combine, both, either, none
  <2> QED BY <1>12, <1>13, <1>18, <2>1 DEF c
<1> QED BY <1>15, <1>16, <1>17, <1>18

(* Looking up and simplifying change no row, and leave no relation. *)
LEMMA DecisionKeeps ==
  ASSUME Stored, NEW s \in Subject, NEW res
  PROVE  LET c == Decided(s, res).constraint
         IN /\ c \in Plain(Depth + 3) /\ Normal(c) /\ ~ HasRelation(c)
            /\ \A row : Keeps(c, row) <=>
                          \/ Superadmin \in s.roles
                          \/ SaidBy("permit", s, res, row) /\ ~ SaidBy("deny", s, res, row)
<1> DEFINE m == Composed(s, res)
           atom == Lookup(s)
           c == Rebuild(m, atom)
<1>1. Decided(s, res).constraint = c
  BY DecidedIs
<1>2. m \in Plain(Depth + 3) /\ m \in Tree(Leaves, Depth + 3) /\ m \in Trees /\ atom \in [Atoms -> Leaves]
  <2>1. m \in Plain(Depth + 3)
    BY ComposedIs
  <2>2. Depth + 3 \in 0..(Depth + 4)
    BY DepthAssumption
  <2>3. \A row : atom \in [Atoms -> Leaves]
    BY LookedIs
  <2> HIDE DEF m, atom
  <2> QED BY <2>1, <2>2, <2>3, Levels DEF Plain
<1>3. c \in Plain(Depth + 3) /\ Normal(c)
  <2>1. \A x \in Atoms : atom[x] \in Atoms
    BY LookupIs
  <2> HIDE DEF m, atom
  <2>2. Rebuild(m, atom) \in Tree(Leaves, Depth + 3)
    BY <1>2, RebuildDef, DepthAssumption, Depth + 3 \in 0..(Depth + 4)
  <2>3. LeavesOf(Rebuild(m, atom)) \subseteq Constants \cup Atoms
    BY <1>2, <2>1, LeavesOfRebuilt DEF Plain
  <2> QED BY <1>2, <2>2, <2>3, NormalRebuilt DEF Plain
<1>4. ~ HasRelation(c)
  <2>1. ASSUME NEW x \in Atoms PROVE atom[x].kind # "relation"
    <3>1. CASE x.kind = "relation"
      <4>1. PICK vs : atom[x] = In(x.field, vs)
        BY <3>1, LookupIs
      <4> HIDE DEF atom
      <4> QED BY <4>1 DEF In
    <3>2. CASE x.kind # "relation"
      BY <3>2, LookupIs
    <3> QED BY <3>1, <3>2
  <2>2. \A x \in Leaves \ Atoms : x.kind # "relation"
    BY LeavesAreLeaves
  <2>3. \A x \in Constants : x.kind # "relation"
    BY DEF Constants, True, False
  <2> HIDE DEF m, atom, c
  <2>4. LeavesOf(c) \subseteq ({atom[x] : x \in LeavesOf(m) \cap Atoms} \cup (LeavesOf(m) \ Atoms)) \cup Constants
    BY <1>2, LeavesOfRebuilt DEF c
  <2>5. LeavesOf(m) \subseteq Leaves
    BY <1>2, LeavesOfDef
  <2> QED BY <2>1, <2>2, <2>3, <2>4, <2>5 DEF HasRelation
<1>5. ASSUME NEW row
      PROVE  Keeps(c, row) <=> \/ Superadmin \in s.roles
                               \/ SaidBy("permit", s, res, row) /\ ~ SaidBy("deny", s, res, row)
  <2>1. Keeps(c, row) = Holds(c, Passing(row)) /\ Passing(row) \in [Atoms -> BOOLEAN]
    BY PassingIs
  <2>2. Looked(s, row) = [x \in Atoms |-> Holds(atom[x], Passing(row))]
    BY DEF Looked
  <2>3. Holds(c, Passing(row)) <=> Holds(m, Looked(s, row))
    <3> HIDE DEF m, atom
    <3> QED BY <1>2, <2>1, <2>2, RebuiltHolds
  <2> HIDE DEF c, atom
  <2> QED BY <2>1, <2>3, ComposedIs
<1> HIDE DEF c
<1> QED BY <1>1, <1>3, <1>4, <1>5

(*------------------------------ the answers ------------------------------*)

Rows(s, res) == {k \in RowNames : Keeps(Decided(s, res).constraint, RowOf[k])}
PolicyIs(effect, res) ==
  {i \in ListPolicies(Listed) : Matches(policies[i], res) /\ policies[i].effect = effect}

(* What a handler that reads can answer. *)
Answer(r, s, res) ==
  LET d == Decided(s, res)
      scope == Decided(CurrentSubject(s), res)
      where == SqlWhere(scope.constraint, res)
  IN \/ r = Refused
     \/ r.of = "decide" /\ r.decision = d
     \/ /\ r.of = "explain" /\ r.subject = s /\ r.resource = res /\ r.decision = d
        /\ r.reason = "refused" => d.matched = {}
     \/ /\ r.of = "overlap" /\ r.resource = res
        /\ r.permits = Cardinality(PolicyIs("permit", res))
        /\ r.refusing = {i \in PolicyIs("deny", res) : policies[i].tpl = True}
     \/ r.of = "compile" /\ r.resource = res /\ r.decision = d /\ r.where = SqlWhere(d.constraint, res)
     \/ /\ r.of = "enforce" /\ r.subject = s /\ r.resource = res
        /\ r.kept = [k \in Rows(s, res) |-> ApplyMasks(RowOf[k], d.obligations)]
        /\ \A k \in Rows(s, res) : \A column \in DOMAIN r.kept[k] : r.kept[k][column] # Panicked
     \/ r.of = "forbidden" /\ r.subject = s /\ r.resource = res /\ scope.effect = "deny"
     \/ /\ r.of = "guarded" /\ r.subject = s /\ r.resource = res /\ where.ok
        /\ \/ r.statement = [only |-> RowNames, sql |-> where.sql, params |-> where.params]
           \/ \E k \in RowNames :
                r.statement = [only |-> {k}, sql |-> AllOf(<<where.sql, ByKey(where.params)>>),
                               params |-> Append(where.params, RowOf[k]["id"])]

LEMMA Answering ==
  ASSUME [Next]_vars
  PROVE  \/ UNCHANGED vars
         \/ response' = Done
         \/ response' = None
         \/ UNCHANGED tables /\ \E s \in Subjects, res \in Resources : Answer(response', s, res)
<1>1. CASE Write
  BY <1>1 DEF Write, SavePolicy, DeletePolicy, SaveGrant, DeleteGrant, SaveTuple, DeleteTuple, SaveMaskRule,
              DeleteMaskRule, Admin
<1>2. CASE Read
  <2>1. PICK s \in Subjects, res \in Resources :
          \/ Decide(s, res) \/ Explain(s, res) \/ Enforce(s, res) \/ DemoVouchers(s, res) \/ PolicyOverlap(res)
          \/ \E backend \in {"sql", "rowfilter", "es", "other"} : Compile(s, res, backend)
          \/ \E k \in RowNames : DemoDeleteVoucher(s, res, k)
    BY <1>2 DEF Read
  <2> DEFINE d == Decided(s, res)
             scope == Decided(CurrentSubject(s), res)
             where == SqlWhere(scope.constraint, res)
  <2> SUFFICES UNCHANGED tables /\ Answer(response', s, res)
    OBVIOUS
  <2>2. CASE Decide(s, res)
    BY <2>2 DEF Decide, Respond, Answer
  <2>3. CASE Explain(s, res)
    <3>1. UNCHANGED tables
          /\ response' = [of |-> "explain", subject |-> s, resource |-> res, decision |-> d,
                          reason |-> IF d.matched = {} THEN "refused" ELSE "matched"]
      BY <2>3 DEF Explain, Respond
    <3> QED BY <3>1 DEF Answer
  <2>4. CASE Enforce(s, res)
    <3> DEFINE masked == [k \in Rows(s, res) |-> ApplyMasks(RowOf[k], d.obligations)]
               panics == \E k \in Rows(s, res) : \E column \in DOMAIN masked[k] : masked[k][column] = Panicked
    <3>1. UNCHANGED tables
          /\ response' = IF HasRelation(d.constraint) \/ panics THEN Refused
                         ELSE [of |-> "enforce", subject |-> s, resource |-> res, kept |-> masked]
      BY <2>4 DEF Enforce, Respond, Rows
    <3>2. CASE response' = Refused
      BY <3>1, <3>2 DEF Answer
    <3>3. CASE response' # Refused
      <4>1. ~ panics /\ response' = [of |-> "enforce", subject |-> s, resource |-> res, kept |-> masked]
        BY <3>1, <3>3
      <4> HIDE DEF masked
      <4>2. /\ response'.of = "enforce" /\ response'.subject = s /\ response'.resource = res
            /\ response'.kept = masked
            /\ \A k \in Rows(s, res) : \A column \in DOMAIN response'.kept[k] : response'.kept[k][column] # Panicked
        BY <4>1
      <4> QED BY <3>1, <4>2 DEF Answer, masked
    <3> QED BY <3>2, <3>3
  <2>5. CASE DemoVouchers(s, res)
    BY <2>5 DEF DemoVouchers, Scopes, Guarded, Respond, Answer
  <2>6. CASE PolicyOverlap(res)
    <3>1. UNCHANGED tables
          /\ response' = [of |-> "overlap", resource |-> res, permits |-> Cardinality(PolicyIs("permit", res)),
                          refusing |-> {i \in PolicyIs("deny", res) : policies[i].tpl = True}]
      BY <2>6 DEF PolicyOverlap, Respond, PolicyIs
    <3> QED BY <3>1 DEF Answer
  <2>7. CASE \E backend \in {"sql", "rowfilter", "es", "other"} : Compile(s, res, backend)
    <3>1. PICK backend : Compile(s, res, backend)
      BY <2>7
    <3> DEFINE all == SqlWhere(d.constraint, res)
    <3>2. UNCHANGED tables
          /\ \/ response' = Refused
             \/ response' = [of |-> "compile", subject |-> s, resource |-> res, decision |-> d,
                             backend |-> backend, where |-> all]
      BY <3>1 DEF Compile, Respond
    <3> QED BY <3>2 DEF Answer
  <2>8. CASE \E k \in RowNames : DemoDeleteVoucher(s, res, k)
    <3>1. PICK k \in RowNames : DemoDeleteVoucher(s, res, k)
      BY <2>8
    <3> DEFINE statement == [only |-> {k}, sql |-> AllOf(<<where.sql, ByKey(where.params)>>),
                             params |-> Append(where.params, RowOf[k]["id"])]
    <3>2. /\ UNCHANGED tables
          /\ response' = IF scope.effect = "deny" THEN [of |-> "forbidden", subject |-> s, resource |-> res]
                         ELSE IF ~ where.ok THEN Refused
                         ELSE [of |-> "guarded", subject |-> s, resource |-> res, statement |-> statement]
      <4> DEFINE of(x) == [only |-> {k}, sql |-> AllOf(<<x.where.sql, ByKey(x.where.params)>>),
                           params |-> Append(x.where.params, RowOf[k]["id"])]
      <4>1. PICK x \in Scopes(s, res) : Guarded(s, res, x, of(x))
        BY <3>1 DEF DemoDeleteVoucher
      <4>2. x = [effect |-> scope.effect, where |-> where, obligations |-> scope.obligations]
        BY DEF Scopes
      <4>3. of(x) = statement
        BY <4>2
      <4> HIDE DEF of, statement
      <4>4. Guarded(s, res, x, statement)
        BY <4>1, <4>3
      <4> QED BY <4>2, <4>4 DEF Guarded, Respond
    <3> HIDE DEF statement
    <3>3. \/ response' = Refused
          \/ response'.of = "forbidden" /\ response'.subject = s /\ response'.resource = res /\ scope.effect = "deny"
          \/ /\ response'.of = "guarded" /\ response'.subject = s /\ response'.resource = res /\ where.ok
             /\ response'.statement = statement
      BY <3>2
    <3> QED BY <3>2, <3>3 DEF Answer, statement
  <2> QED BY <2>1, <2>2, <2>3, <2>4, <2>5, <2>6, <2>7, <2>8
<1>3. CASE Receive
  BY <1>3 DEF Receive
<1>4. CASE UNCHANGED vars
  BY <1>4
<1> QED BY <1>1, <1>2, <1>3, <1>4 DEF Next

(***************************************************************************)
(* The tables hold what was saved, and the constraint a decision ends with *)
(* is in normal form and has no relation left in it, whatever was saved.   *)
(***************************************************************************)
THEOREM TypesHold == Spec => []TypeOK
<1> DEFINE Typed ==
      /\ response.of \in Answers \cup {"none", "admin"}
      /\ response.of \in {"decide", "explain", "compile"} =>
           Normal(response.decision.constraint) /\ ~ HasRelation(response.decision.constraint)
<1>1. Init => Stored /\ Typed
  BY InitStored DEF Init, None
<1>2. Stored /\ Typed /\ [Next]_vars => Stored' /\ Typed'
  <2> SUFFICES ASSUME Stored, Typed, [Next]_vars PROVE Typed'
    BY StepStored
  <2>1. CASE UNCHANGED vars
    BY <2>1 DEF vars
  <2>2. CASE response' \in {Done, None}
    BY <2>2 DEF Done, None
  <2>3. ASSUME NEW s \in Subjects, NEW res \in Resources, Answer(response', s, res) PROVE Typed'
    <3>1. s \in Subject
      BY SubjectsAssumption
    <3>2. Normal(Decided(s, res).constraint) /\ ~ HasRelation(Decided(s, res).constraint)
      BY <3>1, DecisionKeeps
    <3>3. response'.of \in {"decide", "explain", "compile"} => response'.decision = Decided(s, res)
      BY <2>3 DEF Answer, Refused
    <3>4. response'.of \in Answers
      BY <2>3 DEF Answer, Refused, Answers
    <3> QED BY <3>2, <3>3, <3>4
  <2> QED BY <2>1, <2>2, <2>3, Answering
<1>3. Stored /\ Typed => TypeOK
  BY DEF Stored, TypeOK, Answers
<1> QED BY <1>1, <1>2, <1>3, PTL DEF Spec

(*------------------- what the tables say, while they stay ----------------*)

LEMMA InDimensionStays ==
  ASSUME UNCHANGED tables, NEW CONSTANT p, NEW CONSTANT s, NEW CONSTANT key, NEW CONSTANT v
  PROVE  InDimension(p, s, key, v)' <=> InDimension(p, s, key, v)
BY DEF InDimension, tables

LEMMA MeantStays ==
  ASSUME UNCHANGED tables, NEW CONSTANT p, NEW CONSTANT s, NEW CONSTANT row
  PROVE  Meant(p, s, row)' = Meant(p, s, row)
BY InDimensionStays DEF Meant, tables

LEMMA SaysStays ==
  ASSUME UNCHANGED tables, NEW CONSTANT c, NEW CONSTANT p, NEW CONSTANT s, NEW CONSTANT row
  PROVE  Says(c, p, s, row)' = Says(c, p, s, row)
<1>1. Says(c, p, s, row) = Holds(c, Meant(p, s, row))
  BY DEF Says, Meant
<1>2. Says(c, p, s, row)' = Holds(c, Meant(p, s, row)')
  BY DEF Says, Meant
<1> QED BY <1>1, <1>2, MeantStays

LEMMA GivenStays ==
  ASSUME UNCHANGED tables, NEW CONSTANT s, NEW CONSTANT res
  PROVE  Given(s, res)' = Given(s, res)
<1>1. policies' = policies
  BY DEF tables
<1>2. \A effect, row : SaidBy(effect, s, res, row)' <=> SaidBy(effect, s, res, row)
  BY <1>1, SaysStays DEF SaidBy
<1> QED BY <1>2 DEF Given

(*------------------------- the rows that are kept ------------------------*)

LEMMA RowsAreGiven ==
  ASSUME Stored, NEW s \in Subject, NEW res
  PROVE  Rows(s, res) = Given(s, res) /\ (Decided(s, res).effect = "deny" => Given(s, res) = {})
<1> DEFINE c == Decided(s, res).constraint
<1>1. \A row : Keeps(c, row) <=> \/ Superadmin \in s.roles
                                 \/ SaidBy("permit", s, res, row) /\ ~ SaidBy("deny", s, res, row)
  BY DecisionKeeps
<1>2. Rows(s, res) = Given(s, res)
  BY <1>1 DEF Rows, Given
<1>3. ASSUME Decided(s, res).effect = "deny" PROVE Given(s, res) = {}
  <2>1. EffectOf(c) = "deny"
    BY <1>3, DecidedIs
  <2>2. c = False
    BY <2>1 DEF EffectOf
  <2>3. \A row : ~ Keeps(False, row)
    BY PassingIs, ConstantsHold
  <2> HIDE DEF c
  <2>4. \A row : ~ Keeps(c, row)
    BY <2>2, <2>3
  <2> QED BY <1>2, <2>4 DEF Rows, c
<1> QED BY <1>2, <1>3

LEMMA CurrentIsSubject ==
  ASSUME NEW s \in Subject
  PROVE  CurrentSubject(s) \in Subject
BY DEF CurrentSubject, Subject

(***************************************************************************)
(* Whatever policies, grants, tuples and rows there are: enforce keeps     *)
(* exactly the rows that some permit and no deny says, each policy read as *)
(* it was written, and a guarded route is forbidden only when there are    *)
(* none.  The constraint of a decision is filled in, joined, looked up and *)
(* simplified on the way (pdp.rs, engine.rs), and none of it changes what  *)
(* the constraint says.                                                    *)
(***************************************************************************)
THEOREM RowsEnforced == Spec => []EnforcedExactly
<1>1. Init => Stored /\ EnforcedExactly
  BY InitStored DEF Init, None, EnforcedExactly
<1>2. Stored /\ EnforcedExactly /\ [Next]_vars => Stored' /\ EnforcedExactly'
  <2> SUFFICES ASSUME Stored, EnforcedExactly, [Next]_vars PROVE EnforcedExactly'
    BY StepStored
  <2>1. CASE UNCHANGED vars
    <3>1. response' = response /\ UNCHANGED tables
      BY <2>1 DEF vars, tables
    <3>2. /\ Given(response.subject, response.resource)' = Given(response.subject, response.resource)
          /\ Given(CurrentSubject(response.subject), response.resource)' =
               Given(CurrentSubject(response.subject), response.resource)
      BY <3>1, GivenStays DEF CurrentSubject
    <3> QED BY <3>1, <3>2 DEF EnforcedExactly
  <2>2. CASE response' \in {Done, None}
    BY <2>2 DEF Done, None, EnforcedExactly
  <2>3. ASSUME UNCHANGED tables, NEW s \in Subjects, NEW res \in Resources, Answer(response', s, res)
        PROVE  EnforcedExactly'
    <3>1. s \in Subject /\ CurrentSubject(s) \in Subject
      BY SubjectsAssumption, CurrentIsSubject
    <3>2. Given(s, res)' = Given(s, res) /\ Given(CurrentSubject(s), res)' = Given(CurrentSubject(s), res)
      BY <2>3, GivenStays DEF CurrentSubject
    <3>3. CASE response'.of = "enforce"
      <4>1. response'.subject = s /\ response'.resource = res /\ DOMAIN response'.kept = Rows(s, res)
        BY <2>3, <3>3 DEF Answer, Refused
      <4>2. Rows(s, res) = Given(s, res)
        BY <3>1, RowsAreGiven
      <4> QED BY <3>2, <3>3, <4>1, <4>2 DEF EnforcedExactly
    <3>4. CASE response'.of = "forbidden"
      <4>1. response'.subject = s /\ response'.resource = res /\ Decided(CurrentSubject(s), res).effect = "deny"
        BY <2>3, <3>4 DEF Answer, Refused
      <4>2. Given(CurrentSubject(s), res) = {}
        BY <3>1, <4>1, RowsAreGiven
      <4> QED BY <3>2, <3>4, <4>1, <4>2 DEF EnforcedExactly
    <3> QED BY <3>3, <3>4 DEF EnforcedExactly
  <2> QED BY <2>1, <2>2, <2>3, Answering
<1> QED BY <1>1, <1>2, PTL DEF Spec

(*----------------------- the columns that are masked ---------------------*)

Columns == {rules[i].column : i \in DOMAIN rules}
Masking(r) == [column |-> r.column, mask |-> r.mask, keep |-> r.keep]

LEMMA ObligationsAre ==
  ASSUME Stored, NEW s, NEW res
  PROVE  /\ Obligations(rules, res, s) \in Seq(Obligation(Columns))
         /\ \A i \in DOMAIN rules : rules[i].kind = res.kind /\ Masks(rules[i], s) =>
              \E j \in DOMAIN Obligations(rules, res, s) : Obligations(rules, res, s)[j] = Masking(rules[i])
<1> DEFINE N == Len(MaskRules)
           counts(r) == r.kind = res.kind /\ Masks(r, s)
           body(r) == IF counts(r) THEN <<Masking(r)>> ELSE << >>
           ss == [i \in DOMAIN rules |-> body(rules[i])]
           obs == Obligations(rules, res, s)
<1>1. N \in Nat /\ DOMAIN rules = 1..N
  BY MaskRulesAssumption DEF Stored
<1>2. ASSUME NEW i \in DOMAIN rules PROVE Masking(rules[i]) \in Obligation(Columns)
  <2>1. rules[i] \in MaskRules[i] \cup {NoRule} /\ i \in DOMAIN MaskRules
    BY DEF Stored
  <2>2. rules[i].mask \in {"full", "partial", "hash", "hide"} /\ rules[i].keep \in (0..(Word - 1)) \X (0..(Word - 1))
    <3>1. CASE rules[i] = NoRule
      BY <3>1, WordAssumption DEF NoRule
    <3>2. CASE rules[i] \in MaskRules[i]
      <4> DEFINE R == [kind : STRING, column : STRING, mask : {"full", "partial", "hash", "hide"},
                       keep : (0..Word-1) \X (0..Word-1), exempt : STRING,
                       condition : [{x.user : x \in Subjects} -> {"none", "true", "false", "error"}]]
      <4>1. MaskRules \in Seq(SUBSET R)
        BY MaskRulesAssumption
      <4>2. \A r \in R : r.mask \in {"full", "partial", "hash", "hide"} /\ r.keep \in (0..(Word - 1)) \X (0..(Word - 1))
        OBVIOUS
      <4> HIDE DEF R
      <4>3. rules[i] \in R
        BY <2>1, <3>2, <4>1
      <4> QED BY <4>2, <4>3
    <3> QED BY <2>1, <3>1, <3>2
  <2> QED BY <2>2 DEF Masking, Obligation, Columns
<1>3. \A i \in DOMAIN rules : body(rules[i]) \in Seq(Obligation(Columns))
  <2> HIDE DEF counts
  <2> QED BY <1>2
<1>4. ss \in Seq(Seq(Obligation(Columns)))
  <2>1. ss = [i \in 1..N |-> body(rules[i])]
    BY <1>1
  <2> HIDE DEF ss, body, N
  <2> QED BY <1>1, <1>3, <2>1
<1>5. obs = FlattenSeq(ss \o << >>)
  BY DEF Obligations, Collect, Map, Masking
<1>6. ASSUME NEW i \in DOMAIN rules, counts(rules[i]) PROVE Masking(rules[i]) \in AllIn(ss)
  <2>1. i \in DOMAIN ss /\ Masking(rules[i]) \in ToSet(ss[i])
    BY <1>6 DEF ToSet
  <2> HIDE DEF ss
  <2> QED BY <2>1 DEF AllIn
<1> HIDE DEF ss
<1>7. obs \in Seq(Obligation(Columns)) /\ ToSet(obs) = AllIn(ss)
  BY <1>4, <1>5, Collected
<1> HIDE DEF obs
<1>8. \A i \in DOMAIN rules : counts(rules[i]) => \E j \in DOMAIN obs : obs[j] = Masking(rules[i])
  BY <1>6, <1>7 DEF ToSet
<1> QED BY <1>7, <1>8 DEF obs

LEMMA KeptIsMasked ==
  ASSUME Stored, NEW s \in Subject, NEW res, NEW k \in Rows(s, res), NEW i \in DOMAIN rules,
         rules[i].kind = res.kind, Masks(rules[i], s)
  PROVE  LET masked == ApplyMasks(RowOf[k], Decided(s, res).obligations)
             v == masked[rules[i].column]
         IN \/ rules[i].column \notin DOMAIN masked
            \/ rules[i].mask # "hide" /\ (v = Null \/ v = Panicked \/ Hides(rules[i], v))
<1> DEFINE d == Decided(s, res)
           obs == Obligations(rules, res, s)
           masked == ApplyMasks(RowOf[k], obs)
<1>1. d.obligations = obs
  <2>1. d.effect # "deny"
    BY RowsAreGiven
  <2> QED BY <2>1, DecidedIs
<1>2. RowOf[k] \in [DOMAIN RowOf[k] -> RowValue]
  <2>1. k \in RowNames
    BY DEF Rows
  <2>2. \A column \in DOMAIN RowOf[k] : RowOf[k][column] \in RowValue
    BY <2>1, RowsAssumption DEF RowValue
  <2>3. RowOf[k] \in [DOMAIN RowOf[k] -> Value]
    BY <2>1, RowsAssumption
  <2> QED BY <2>2, <2>3
<1>3. obs \in Seq(Obligation(Columns))
  BY ObligationsAre
<1>4. PICK j \in DOMAIN obs : obs[j] = Masking(rules[i])
  BY ObligationsAre
<1> HIDE DEF obs
<1>5. obs[j].column \notin DOMAIN masked \/ (obs[j].mask # "hide" /\ Covered(obs[j], masked[obs[j].column]))
  BY <1>2, <1>3, MasksCover
<1> HIDE DEF masked
<1>6. \/ rules[i].column \notin DOMAIN masked
      \/ /\ rules[i].mask # "hide"
         /\ LET v == masked[rules[i].column] IN v = Null \/ v = Panicked \/ Hides(rules[i], v)
  BY <1>4, <1>5 DEF Masking, Covered, Hides
<1> HIDE DEF d
<1> QED BY <1>1, <1>6 DEF masked, d

(***************************************************************************)
(* Nothing that a rule masks leaves enforce in the clear, whatever rules,  *)
(* rows and widths of a usize there are, in whatever order the obligations *)
(* are applied, and when two of them meet in one column (mask.rs, pep.rs). *)
(***************************************************************************)
THEOREM NothingLeaks == Spec => []NothingInClear
<1>1. Init => Stored /\ NothingInClear
  BY InitStored DEF Init, None, NothingInClear
<1>2. Stored /\ NothingInClear /\ [Next]_vars => Stored' /\ NothingInClear'
  <2> SUFFICES ASSUME Stored, NothingInClear, [Next]_vars PROVE NothingInClear'
    BY StepStored
  <2>1. CASE UNCHANGED vars
    BY <2>1 DEF vars, NothingInClear, Hides
  <2>2. CASE response' \in {Done, None}
    BY <2>2 DEF Done, None, NothingInClear
  <2>3. ASSUME UNCHANGED tables, NEW s \in Subjects, NEW res \in Resources, Answer(response', s, res),
               response'.of = "enforce"
        PROVE  NothingInClear'
    <3>1. s \in Subject
      BY SubjectsAssumption
    <3>2. /\ response'.subject = s /\ response'.resource = res
          /\ response'.kept = [k \in Rows(s, res) |-> ApplyMasks(RowOf[k], Decided(s, res).obligations)]
          /\ \A k \in Rows(s, res) : \A column \in DOMAIN response'.kept[k] : response'.kept[k][column] # Panicked
      BY <2>3 DEF Answer, Refused
    <3>3. rules' = rules
      BY <2>3 DEF tables
    <3>4. ASSUME NEW k \in DOMAIN response'.kept, NEW i \in DOMAIN rules,
                 rules[i].kind = res.kind, rules[i].exempt \notin s.roles, rules[i].condition[s.user] # "false",
                 rules[i].column \in DOMAIN response'.kept[k]
          PROVE  /\ rules[i].mask # "hide"
                 /\ response'.kept[k][rules[i].column] = Null \/ Hides(rules[i], response'.kept[k][rules[i].column])
      <4>1. k \in Rows(s, res) /\ response'.kept[k] = ApplyMasks(RowOf[k], Decided(s, res).obligations)
        BY <3>2
      <4>2. Masks(rules[i], s)
        BY <3>4 DEF Masks
      <4> QED BY <3>1, <3>2, <3>4, <4>1, <4>2, KeptIsMasked
    <3>5. ASSUME NEW k \in DOMAIN response'.kept, NEW i \in DOMAIN rules
          PROVE  LET r == rules[i] IN
                 \/ r.kind # res.kind \/ r.exempt \in s.roles \/ r.condition[s.user] = "false"
                 \/ r.column \notin DOMAIN response'.kept[k]
                 \/ /\ r.mask # "hide"
                    /\ response'.kept[k][r.column] = Null \/ Hides(r, response'.kept[k][r.column])
      BY <3>4
    <3> QED BY <3>2, <3>3, <3>5 DEF NothingInClear
  <2> QED BY <2>1, <2>2, <2>3, Answering DEF NothingInClear
<1> QED BY <1>1, <1>2, PTL DEF Spec

(*---------------------------- the diagnoses ------------------------------*)

LEMMA UnmatchedGivesNothing ==
  ASSUME Stored, NEW s \in Subject, NEW res, Superadmin \notin s.roles, Decided(s, res).matched = {}
  PROVE  Given(s, res) = {}
<1>1. Decided(s, res).matched = {p.id : p \in {q \in ToSet(Resolved) : Matches(q, res) /\ Superadmin \notin s.roles}}
  BY DecidedIs DEF MatchedPolicies
<1>2. \A q \in ToSet(Resolved) : ~ Matches(q, res)
  BY <1>1
<1>3. ASSUME NEW i \in DOMAIN Policies, policies[i].valid
      PROVE  ~ (policies[i].kind = res.kind /\ policies[i].action = res.action)
  <2>1. policies[i] \in Policy /\ ResolvePolicy(policies[i]) \in ToSet(Resolved)
    BY <1>3, ResolvedIs
  <2> QED BY <1>2, <2>1, ResolvePolicyKeeps DEF Matches
<1> QED BY <1>3 DEF Given, SaidBy

SavedPolicies == {i \in DOMAIN policies : policies[i] # NoPolicy}

LEMMA SavedIsFinite ==
  ASSUME Stored
  PROVE  /\ SavedPolicies = {i \in DOMAIN Policies : policies[i] # NoPolicy}
         /\ IsFiniteSet(SavedPolicies) /\ ListPolicies(Listed) \subseteq SavedPolicies
         /\ Cardinality(SavedPolicies) <= Listed => ListPolicies(Listed) = SavedPolicies
<1>1. DOMAIN policies = DOMAIN Policies /\ DOMAIN Policies = 1..Len(Policies) /\ Len(Policies) \in Nat
  BY StoredDomains, PoliciesAssumption
<1>2. IsFiniteSet(SavedPolicies)
  <2>1. IsFiniteSet(1..Len(Policies))
    BY <1>1, FS_Interval
  <2>2. SavedPolicies \subseteq 1..Len(Policies)
    BY <1>1 DEF SavedPolicies
  <2> QED BY <2>1, <2>2, FS_Subset
<1>3. ListPolicies(Listed) = {i \in SavedPolicies : Cardinality({j \in SavedPolicies : j <= i}) <= Listed}
  BY DEF ListPolicies, SavedPolicies
<1>4. ASSUME Cardinality(SavedPolicies) <= Listed, NEW i \in SavedPolicies
      PROVE  Cardinality({j \in SavedPolicies : j <= i}) <= Listed
  <2> DEFINE before == {j \in SavedPolicies : j <= i}
             n == Cardinality(before)
             m == Cardinality(SavedPolicies)
  <2>1. before \subseteq SavedPolicies
    OBVIOUS
  <2> HIDE DEF before
  <2>2. n <= m /\ IsFiniteSet(before)
    BY <1>2, <2>1, FS_Subset
  <2>3. n \in Nat /\ m \in Nat /\ Listed \in Nat
    BY <1>2, <2>2, FS_CardinalityType, PoliciesAssumption
  <2>4. m <= Listed
    BY <1>4
  <2> HIDE DEF n, m
  <2>5. n <= Listed
    BY <2>2, <2>3, <2>4
  <2> QED BY <2>5 DEF n, before
<1> QED BY <1>1, <1>2, <1>3, <1>4 DEF SavedPolicies

LEMMA PageHoldsAll ==
  ASSUME Stored, NEW s \in Subject, NEW res, Superadmin \notin s.roles,
         Cardinality(PolicyIs("permit", res)) \notin Nat \ {0}, Cardinality(SavedPolicies) <= Listed
  PROVE  Given(s, res) = {}
<1>1. IsFiniteSet(PolicyIs("permit", res))
  BY SavedIsFinite, FS_Subset DEF PolicyIs
<1>2. PolicyIs("permit", res) = {}
  <2>1. Cardinality(PolicyIs("permit", res)) = 0
    BY <1>1, FS_CardinalityType
  <2> QED BY <1>1, <2>1, FS_EmptySet
<1>3. ListPolicies(Listed) = {i \in DOMAIN Policies : policies[i] # NoPolicy}
  BY SavedIsFinite
<1>4. ASSUME NEW i \in DOMAIN Policies, policies[i].valid
      PROVE  ~ (policies[i].kind = res.kind /\ policies[i].action = res.action /\ policies[i].effect = "permit")
  <2>1. i \in ListPolicies(Listed)
    BY <1>3, <1>4 DEF NoPolicy
  <2> QED BY <1>2, <2>1 DEF PolicyIs, Matches
<1> QED BY <1>4 DEF Given, SaidBy

LEMMA RefusingRefuses ==
  ASSUME Stored, NEW s \in Subject, NEW res, Superadmin \notin s.roles,
         NEW i \in PolicyIs("deny", res), policies[i].tpl = True, policies[i].valid,
         policies[i].source = "inline"
  PROVE  Given(s, res) = {}
<1>0. Body(policies[i]) = True
  BY DEF Body
<1>1. i \in DOMAIN Policies /\ policies[i].kind = res.kind /\ policies[i].action = res.action /\ policies[i].effect = "deny"
  BY SavedIsFinite DEF PolicyIs, Matches
<1>2. ASSUME NEW row PROVE Says(Body(policies[i]), policies[i], s, row)
  <2>1. Says(True, policies[i], s, row) = Holds(True, Meant(policies[i], s, row))
    BY DEF Says, Meant
  <2>2. Meant(policies[i], s, row) \in [Atoms -> BOOLEAN]
    BY DEF Meant
  <2> QED BY <1>0, <2>1, <2>2, ConstantsHold
<1>3. Body(policies[i]) # Broken
  BY <1>0 DEF True, Broken
<1>4. \A row : SaidBy("deny", s, res, row)
  BY <1>1, <1>2, <1>3 DEF SaidBy
<1> QED BY <1>4 DEF Given

(***************************************************************************)
(* What explain and the overlap say of a subject without the superadmin    *)
(* role is so: of the overlap, when the page holds all that is saved and   *)
(* its denies of True are inline and in force.                             *)
(***************************************************************************)
THEOREM DiagnosesAreSound == Spec => [](OverlapSeesAll => DiagnosesHold)
<1> DEFINE Sound == OverlapSeesAll => DiagnosesHold
<1>1. Init => Stored /\ Sound
  BY InitStored DEF Init, None, DiagnosesHold
<1>2. Stored /\ Sound /\ [Next]_vars => Stored' /\ Sound'
  <2> SUFFICES ASSUME Stored, Sound, [Next]_vars PROVE Sound'
    BY StepStored
  <2>1. CASE UNCHANGED vars
    <3>1. response' = response /\ policies' = policies /\ UNCHANGED tables
      BY <2>1 DEF vars, tables
    <3>2. \A s, res : Given(s, res)' = Given(s, res)
      BY <3>1, GivenStays
    <3> QED BY <3>1, <3>2 DEF DiagnosesHold, OverlapSeesAll
  <2>2. CASE response' \in {Done, None}
    BY <2>2 DEF Done, None, DiagnosesHold
  <2>3. ASSUME UNCHANGED tables, NEW s \in Subjects, NEW res \in Resources, Answer(response', s, res)
        PROVE  Sound'
    <3>1. \A x \in Subjects : x \in Subject
      BY SubjectsAssumption
    <3>2. \A x : Given(x, res)' = Given(x, res)
      BY <2>3, GivenStays
    <3>3. policies' = policies
      BY <2>3 DEF tables
    <3>4. CASE response'.of = "explain"
      <4>1. /\ response'.subject = s /\ response'.resource = res
            /\ response'.reason = "refused" => Decided(s, res).matched = {}
        BY <2>3, <3>4 DEF Answer, Refused
      <4>2. response'.reason = "refused" => Superadmin \in s.roles \/ Given(s, res) = {}
        BY <3>1, <4>1, UnmatchedGivesNothing
      <4> QED BY <3>2, <3>4, <4>1, <4>2 DEF DiagnosesHold
    <3>5. CASE response'.of = "overlap"
      <4> DEFINE permits == Cardinality(PolicyIs("permit", res))
                 refusing == {i \in PolicyIs("deny", res) : policies[i].tpl = True}
                 saved == {i \in DOMAIN Policies : policies[i] # NoPolicy}
      <4>1. response'.resource = res /\ response'.permits = permits /\ response'.refusing = refusing
        BY <2>3, <3>5 DEF Answer, Refused
      <4> SUFFICES ASSUME OverlapSeesAll' PROVE DiagnosesHold'
        OBVIOUS
      <4>2. /\ Cardinality(saved) <= Listed
            /\ \A i \in refusing : policies[i].valid /\ policies[i].source = "inline"
        <5> HIDE DEF permits, refusing
        <5> QED BY <3>3, <3>5, <4>1 DEF OverlapSeesAll
      <4>3. saved = SavedPolicies
        BY SavedIsFinite
      <4>4. ASSUME NEW x \in Subjects, Superadmin \notin x.roles, permits = 0 PROVE Given(x, res) = {}
        <5> HIDE DEF saved
        <5> QED BY <3>1, <4>2, <4>3, <4>4, PageHoldsAll
      <4>5. ASSUME NEW x \in Subjects, Superadmin \notin x.roles, refusing # {} PROVE Given(x, res) = {}
        <5>1. PICK i \in refusing : TRUE
          BY <4>5
        <5> QED BY <3>1, <4>2, <4>5, <5>1, RefusingRefuses
      <4> HIDE DEF permits, refusing
      <4> QED BY <3>2, <3>5, <4>1, <4>4, <4>5 DEF DiagnosesHold
    <3> QED BY <3>4, <3>5 DEF DiagnosesHold
  <2> QED BY <2>1, <2>2, <2>3, Answering
<1> QED BY <1>1, <1>2, PTL DEF Spec

(*------------------- one decision in three languages ---------------------*)

(***************************************************************************)
(* Compiled from any place on, and with whatever parameters before and     *)
(* behind its own, SQL says of a row what the row filter says, where the   *)
(* values compare alike: placeholders and parameters stay in step however  *)
(* a constraint is nested (compiler.rs, emit).                             *)
(***************************************************************************)
THEOREM SqlSays ==
  ASSUME NEW res, Range(res.bindings) \subseteq STRING, NEW row, row \in [DOMAIN row -> Value],
         NEW c \in Trees,
         LeavesOf(c) \subseteq Constants \cup Atoms, Normal(c), AllComparable(c, res, row),
         NEW n \in Nat \ {0}, Emit(c, n, res).ok,
         NEW P, NEW o \in Nat, n = o + 1, Within(o, Emit(c, n, res).params, P)
  PROVE  PgEval(Emit(c, n, res).sql, P, row) = Truth(Keeps(c, row))
<1>0. \A x \in Atoms : \A m, d \in Nat : \A ps :
        m = d + 1 /\ EmitTest(x, m, res).ok /\ Within(d, EmitTest(x, m, res).params, ps) =>
          /\ x.kind \in {"cmp", "in", "between"}
          /\ PgEval(EmitTest(x, m, res).sql, ps, row) = Tested(x, Column(row, Phys(x.field, res)))
  BY TestSays
<1>1. PICK f \in [Trees -> [Nat -> Results(Trees)]] :
        /\ \A x, m : Emit(x, m, res) = f[x][m]
        /\ \A l \in 0..(Depth + 4) : \A x \in Tree(Leaves, l) : f[x] \in [Nat -> Results(Tree(Leaves, l))]
        /\ \A x \in Trees, m \in Nat : EmittedFrom(x, m, f, res)
  BY EmitDef
<1> DEFINE Fits(x) == LeavesOf(x) \subseteq Constants \cup Atoms /\ AllComparable(x, res, row) /\ Normal(x)
           Right(x) ==
             \A d \in Nat : \A ps :
               f[x][d + 1].ok /\ Within(d, f[x][d + 1].params, ps) =>
                 PgEval(f[x][d + 1].sql, ps, row) = Truth(Keeps(x, row))
           S == {x \in Trees : Fits(x) => Right(x)}
<1>2. \A x \in Trees : Keeps(x, row) \in BOOLEAN /\ Keeps(x, row) = Holds(x, Passing(row))
  BY PassingIs, HoldsDef
<1>3. \A b \in BOOLEAN : (Truth(b) = 2 <=> b) /\ (Truth(b) = 0 <=> ~ b) /\ Truth(b) \in {0, 1, 2}
  BY DEF Truth
<1>4. ASSUME NEW x \in Trees, x.kind = "not", x.item \in Trees, LeavesOf(x) = LeavesOf(x.item), Fits(x) PROVE Fits(x.item)
  <2>1. Normal(x.item)
    BY <1>4, NormalDef
  <2> QED BY <1>4, <2>1 DEF AllComparable
<1>5. ASSUME NEW x \in Trees, x.kind \in {"and", "or"}, NEW i \in DOMAIN x.items, Fits(x) PROVE Fits(x.items[i])
  <2>1. LeavesOf(x.items[i]) \subseteq LeavesOf(x)
    BY <1>5, LeavesOfDef
  <2>2. Normal(x.items[i])
    BY <1>5, NormalDef
  <2> QED BY <1>5, <2>1, <2>2 DEF AllComparable
<1>6. ASSUME NEW x \in Trees, \A i \in DOMAIN Kids(x) : Kids(x)[i] \in S, Fits(x), NEW d \in Nat, NEW ps,
             f[x][d + 1].ok, Within(d, f[x][d + 1].params, ps)
      PROVE  PgEval(f[x][d + 1].sql, ps, row) = Truth(Keeps(x, row))
  <2> DEFINE m == d + 1
             r == f[x][m]
             says == PgEval(r.sql, ps, row)
  <2>1. m \in Nat \ {0} /\ m = d + 1
    OBVIOUS
  <2> HIDE DEF m
  <2>2. EmittedFrom(x, m, f, res) /\ r \in Results(Trees)
    BY <1>1, <2>1
  <2>3. r.ok /\ Within(d, r.params, ps) /\ r.sql \in Trees
    BY <1>6, <2>1, <2>2, ResultsAre
  <2>4. says \in {0, 1, 2} /\ Passing(row) \in [Atoms -> BOOLEAN]
    BY <2>3, PgEvalDef, PassingIs
  <2>5. CASE x.kind \in {"and", "or"} /\ x.items # << >>
    <3> DEFINE parts == [i \in DOMAIN x.items |-> f[x.items[i]]]
               j == Join(parts, m)
    <3>1. x.items \in Seq(Trees) /\ Kids(x) = x.items
      BY <2>5, KidsOfKinds
    <3>2. parts \in Seq([Nat -> Results(Trees)]) /\ Len(parts) = Len(x.items) /\ DOMAIN parts = DOMAIN x.items
          /\ \A i \in DOMAIN x.items : parts[i] = f[x.items[i]]
      <4> DEFINE g(i) == f[x.items[i]]
                 N == Len(x.items)
      <4>1. N \in Nat /\ DOMAIN x.items = 1..N /\ \A i \in 1..N : g(i) \in [Nat -> Results(Trees)]
        BY <1>1, <3>1
      <4>2. parts = [i \in 1..N |-> g(i)]
        BY <4>1
      <4> HIDE DEF g, N, parts
      <4>3. parts \in Seq([Nat -> Results(Trees)]) /\ Len(parts) = N /\ DOMAIN parts = 1..N
            /\ \A i \in 1..N : parts[i] = g(i)
        BY <4>1, <4>2
      <4> QED BY <4>1, <4>3 DEF g, N
    <3>3. r = IF j.ok THEN Emitted([x EXCEPT !.items = j.sql], j.params) ELSE Failed
      BY <2>2, <2>5 DEF EmittedFrom
    <3> HIDE DEF parts, r
    <3>4. j \in Results(Seq(Trees)) /\ (j.ok => Compiled(parts, m, Len(parts), j))
      BY <2>1, <3>2, JoinDef
    <3> HIDE DEF j
    <3>5. j.ok
      BY <2>3, <3>3 DEF Failed
    <3>6. j.sql \in Seq(Trees) /\ Len(j.sql) = Len(x.items) /\ DOMAIN j.sql = DOMAIN x.items
      <4>1. j.sql \in Seq(Trees) /\ Len(j.sql) = Len(x.items)
        BY <3>2, <3>4, <3>5, ResultsAre DEF Compiled
      <4> QED BY <3>1, <4>1
    <3>7. r.sql.kind = x.kind /\ r.sql.items = j.sql /\ r.params = j.params
      <4>1. r = Emitted([x EXCEPT !.items = j.sql], j.params)
        BY <3>3, <3>5
      <4>2. r.sql = [x EXCEPT !.items = j.sql] /\ r.params = j.params
        BY <4>1 DEF Emitted
      <4>3. x = [kind |-> x.kind, items |-> x.items]
        BY <2>1, <2>5, DepthAssumption, Depth + 4 \in Nat, Nodes DEF LeafKinds, Trees
      <4> QED BY <4>2, <4>3
    <3>8. ASSUME NEW i \in DOMAIN x.items PROVE PgEval(j.sql[i], ps, row) = Truth(Keeps(x.items[i], row))
      <4>1. PICK q \in Nat : LET e == parts[i][m + q] IN e.ok /\ j.sql[i] = e.sql /\ Within(q, e.params, j.params)
        <5>1. i \in 1..Len(parts)
          BY <3>1, <3>2
        <5> QED BY <3>4, <3>5, <5>1 DEF Compiled
      <4> DEFINE y == x.items[i]
                 e == f[y][(d + q) + 1]
      <4>2. y \in S /\ Fits(y)
        BY <1>5, <1>6, <2>5, <3>1
      <4>3. d + q \in Nat /\ m + q = (d + q) + 1 /\ (d + q) + 1 \in Nat
        BY <2>1
      <4>4. e = parts[i][m + q]
        BY <3>2, <4>3
      <4>5. e.ok /\ j.sql[i] = e.sql /\ Within(q, e.params, j.params)
        BY <4>1, <4>4
      <4>6. e.params \in Seq(Value)
        <5>1. e \in Results(Trees)
          BY <1>1, <3>1, <4>3
        <5> HIDE DEF e
        <5> QED BY <4>5, <5>1, ResultsAre
      <4>7. Within(d + q, e.params, ps)
        <5> HIDE DEF e
        <5>1. ASSUME NEW a \in DOMAIN e.params PROVE (d + q) + a \in DOMAIN ps /\ ps[(d + q) + a] = e.params[a]
          <6>1. q + a \in DOMAIN j.params /\ j.params[q + a] = e.params[a]
            BY <4>5 DEF Within
          <6>2. d + (q + a) \in DOMAIN ps /\ ps[d + (q + a)] = r.params[q + a]
            BY <2>3, <3>7, <6>1 DEF Within
          <6>3. a \in Nat
            BY <4>6
          <6>4. d + (q + a) = (d + q) + a
            BY <6>3
          <6> QED BY <3>7, <6>1, <6>2, <6>4
        <5> QED BY <5>1 DEF Within
      <4>8. Right(y)
        BY <4>2
      <4>9. PgEval(e.sql, ps, row) = Truth(Keeps(y, row))
        <5> HIDE DEF y
        <5> QED BY <4>3, <4>5, <4>7, <4>8
      <4> QED BY <4>5, <4>9
    <3>9. \A i \in DOMAIN x.items : Keeps(x.items[i], row) \in BOOLEAN
      BY <1>2, <3>1
    <3>10. CASE x.kind = "and"
      <4>1. Keeps(x, row) <=> \A i \in DOMAIN x.items : Keeps(x.items[i], row)
        <5>1. Holds(x, Passing(row)) <=> \A i \in DOMAIN x.items : Holds(x.items[i], Passing(row))
          BY <2>4, <3>10, HoldsDef DEF Atoms, Tests, Relations
        <5> QED BY <1>2, <3>1, <5>1
      <4>2. /\ says = 2 <=> \A i \in DOMAIN x.items : PgEval(j.sql[i], ps, row) = 2
            /\ says = 0 <=> \E i \in DOMAIN x.items : PgEval(j.sql[i], ps, row) = 0
        BY <2>3, <3>6, <3>7, <3>10, PgEvalDef
      <4> HIDE DEF says
      <4>3. (says = 2 <=> Keeps(x, row)) /\ (says = 0 <=> ~ Keeps(x, row))
        BY <1>3, <3>8, <3>9, <4>1, <4>2
      <4>4. says = Truth(Keeps(x, row))
        BY <1>2, <1>3, <4>3
      <4> QED BY <2>1, <4>4 DEF says, r
    <3>11. CASE x.kind = "or"
      <4>1. Keeps(x, row) <=> \E i \in DOMAIN x.items : Keeps(x.items[i], row)
        <5>1. Holds(x, Passing(row)) <=> \E i \in DOMAIN x.items : Holds(x.items[i], Passing(row))
          BY <2>4, <3>11, HoldsDef DEF Atoms, Tests, Relations
        <5> QED BY <1>2, <3>1, <5>1
      <4>2. /\ says = 2 <=> \E i \in DOMAIN x.items : PgEval(j.sql[i], ps, row) = 2
            /\ says = 0 <=> \A i \in DOMAIN x.items : PgEval(j.sql[i], ps, row) = 0
        BY <2>3, <3>6, <3>7, <3>11, PgEvalDef
      <4> HIDE DEF says
      <4>3. (says = 2 <=> Keeps(x, row)) /\ (says = 0 <=> ~ Keeps(x, row))
        BY <1>3, <3>8, <3>9, <4>1, <4>2
      <4>4. says = Truth(Keeps(x, row))
        BY <1>2, <1>3, <4>3
      <4> QED BY <2>1, <4>4 DEF says, r
    <3> QED BY <2>5, <3>10, <3>11
  <2>6. CASE x.kind \notin {"and", "or", "not"} /\ x \in Atoms
    <3>1. r = EmitTest(x, m, res)
      BY <2>2, <2>6 DEF EmittedFrom
    <3>2. x \in LeavesOf(x)
      BY <2>6, LeavesOfDef
    <3>3. Comparable(x, res, row)
      BY <1>6, <2>6, <3>2 DEF AllComparable
    <3>4. x.kind # "relation" /\ says = Tested(x, row[x.field])
      <4>1. EmitTest(x, m, res).ok /\ Within(d, EmitTest(x, m, res).params, ps)
        BY <2>3, <3>1
      <4> DEFINE held == Column(row, Phys(x.field, res))
      <4>2. held = row[x.field]
        BY <3>3 DEF Comparable, Column
      <4>3. x.kind \in {"cmp", "in", "between"} /\ PgEval(EmitTest(x, m, res).sql, ps, row) = Tested(x, held)
        <5> HIDE DEF S, Fits, Right, r, says, held
        <5> QED BY <1>0, <2>1, <2>6, <4>1 DEF held
      <4> HIDE DEF held
      <4> QED BY <3>1, <4>2, <4>3
    <3>5. row[x.field] \in Value
      BY <3>3 DEF Comparable
    <3>6. Tested(x, row[x.field]) = Truth(Passing(row)[x])
      BY <2>6, <3>3, <3>4, <3>5, ComparableAgree
    <3>7. Keeps(x, row) = Passing(row)[x]
      BY <1>2, <2>4, <2>6, PassingIs
    <3> QED BY <2>1, <3>4, <3>6, <3>7
  <2>7. CASE x.kind = "not"
    <3> DEFINE y == x.item
               e == f[y][m]
    <3>1. Kids(x) = <<y>> /\ y \in Trees /\ LeavesOf(x) = LeavesOf(y)
      BY <2>7, KidsOfKinds, LeavesOfDef
    <3>2. y \in S /\ Fits(y)
      <4>1. 1 \in DOMAIN Kids(x) /\ Kids(x)[1] = y
        BY <3>1
      <4>2. Kids(x)[1] \in S
        BY <1>6, <4>1
      <4> HIDE DEF S, Fits
      <4> QED BY <1>4, <1>6, <2>7, <3>1, <4>1, <4>2
    <3>3. r = IF e.ok THEN Emitted(Negation(e.sql), e.params) ELSE Failed
      BY <2>2, <2>7 DEF EmittedFrom
    <3> HIDE DEF e
    <3>4. e.ok /\ r = Emitted(Negation(e.sql), e.params)
      BY <2>3, <3>3 DEF Failed
    <3>5. r.sql.kind = "not" /\ r.sql.item = e.sql /\ r.params = e.params
      BY <3>4 DEF Emitted, Negation
    <3>6. PgEval(e.sql, ps, row) = Truth(Keeps(y, row))
      <4>1. Within(d, e.params, ps)
        BY <2>3, <3>5
      <4>2. e = f[y][d + 1]
        BY <2>1 DEF e
      <4>3. Right(y)
        BY <3>2
      <4> HIDE DEF y
      <4> QED BY <3>4, <4>1, <4>2, <4>3
    <3>7. says = 2 - PgEval(e.sql, ps, row)
      BY <2>3, <3>5, PgEvalDef
    <3>8. Keeps(x, row) <=> ~ Keeps(y, row)
      <4>1. Holds(x, Passing(row)) <=> ~ Holds(y, Passing(row))
        BY <2>4, <2>7, HoldsDef DEF Atoms, Tests, Relations
      <4> QED BY <1>2, <3>1, <4>1
    <3> HIDE DEF says, y
    <3>9. says = Truth(Keeps(x, row))
      BY <3>6, <3>7, <3>8 DEF Truth
    <3> QED BY <2>1, <3>9 DEF says
  <2>8. CASE x.kind \notin {"and", "or", "not"} /\ x \notin Atoms
    <3>1. x \in Constants /\ r = Emitted(x, << >>)
      <4>1. x \in LeavesOf(x)
        BY <2>8, LeavesOfDef
      <4>2. r = Emitted(x, << >>)
        BY <2>2, <2>8 DEF EmittedFrom
      <4> QED BY <1>6, <2>8, <4>1, <4>2
    <3>2. r.sql = x
      BY <3>1 DEF Emitted
    <3>3. Keeps(x, row) <=> x = True
      BY <1>2, <2>4, <3>1, ConstantsHold DEF Constants
    <3>4. says = IF x = True THEN 2 ELSE 0
      <4>1. PgEval(x, ps, row) = IF x = True THEN 2 ELSE 0
        BY <3>1, PgEvalDef DEF Constants, True, False
      <4> QED BY <3>2, <4>1
    <3> HIDE DEF says
    <3>5. says = Truth(Keeps(x, row))
      BY <3>3, <3>4 DEF Truth
    <3> QED BY <2>1, <3>5 DEF says
  <2>9. x.kind \in {"and", "or"} => x.items # << >>
    BY <1>6, NormalDef
  <2> QED BY <2>5, <2>6, <2>7, <2>8, <2>9
<1>7. ASSUME NEW x \in Trees, \A i \in DOMAIN Kids(x) : Kids(x)[i] \in S PROVE x \in S
  <2>1. Fits(x) => Right(x)
    <3> HIDE DEF Fits
    <3>1. ASSUME Fits(x) PROVE Right(x)
      BY <1>6, <1>7, <3>1
    <3> HIDE DEF Right
    <3> QED BY <3>1
  <2> HIDE DEF Fits, Right
  <2> QED BY <2>1
<1>8. Trees \subseteq S
  <2> HIDE DEF S
  <2> QED BY <1>7, TreeInduction
<1>9. Right(c)
  <2>1. Fits(c)
    OBVIOUS
  <2> HIDE DEF Fits, Right
  <2> QED BY <1>8, <2>1
<1> QED BY <1>1, <1>9

LEMMA ComparableSame ==
  ASSUME NEW res, Range(res.bindings) \subseteq STRING, NEW row, row \in [DOMAIN row -> Value],
         NEW c \in Plain(Depth + 3), Normal(c), ~ HasRelation(c), AllComparable(c, res, row)
  PROVE  /\ EsMatches(c, row) = Keeps(c, row)
         /\ SqlWhere(c, res).ok =>
              /\ SqlWhere(c, res).sql \in Tree(Leaves, Depth + 3) /\ SqlWhere(c, res).params \in Seq(Value)
              /\ \A P : Within(0, SqlWhere(c, res).params, P) =>
                   PgEval(SqlWhere(c, res).sql, P, row) = Truth(Keeps(c, row))
<1>1. c \in Tree(Leaves, Depth + 3) /\ c \in Trees /\ LeavesOf(c) \subseteq Constants \cup Atoms
  BY DepthAssumption, Depth + 3 \in 0..(Depth + 4), Levels DEF Plain
<1>2. EsMatches(c, row) = Keeps(c, row)
  <2>1. EsPassing(row) \in [Atoms -> BOOLEAN]
    <3> DEFINE has(x, op, value) == x.field \in DOMAIN row /\ EsTest(op, row[x.field], value)
               body(x) == \/ x.kind = "in" /\ \E i \in DOMAIN x.values : has(x, "Eq", x.values[i])
                          \/ x.kind = "between" /\ has(x, "Ge", x.lo) /\ has(x, "Le", x.hi)
                          \/ x.kind = "cmp" /\ IF x.op = "Ne" THEN ~ has(x, "Eq", x.value) ELSE has(x, x.op, x.value)
    <3>1. EsPassing(row) = [x \in Atoms |-> body(x)]
      BY DEF EsPassing
    <3>2. \A x : body(x) \in BOOLEAN
      <4>1. \A x, op, value : has(x, op, value) \in BOOLEAN
        BY DEF EsTest
      <4> HIDE DEF has
      <4> QED BY <4>1
    <3> HIDE DEF body
    <3> QED BY <3>1, <3>2
  <2>2. ASSUME NEW x \in LeavesOf(c) \cap Atoms PROVE EsPassing(row)[x] = Passing(row)[x]
    <3>1. x.kind # "relation" /\ Comparable(x, res, row) /\ x \in Atoms
      BY DEF HasRelation, AllComparable
    <3>2. row[x.field] \in Value
      BY <3>1 DEF Comparable
    <3>3. EsPassing(row)[x] <=> Passing(row)[x]
      BY <3>1, <3>2, ComparableAgree
    <3> QED BY <2>1, <3>3, PassingIs
  <2>3. Holds(c, EsPassing(row)) <=> Holds(c, Passing(row))
    BY <1>1, <2>1, <2>2, HoldsByLeaves, PassingIs
  <2>4. Holds(c, EsPassing(row)) \in BOOLEAN /\ Holds(c, Passing(row)) \in BOOLEAN
    BY <1>1, <2>1, HoldsDef, PassingIs
  <2>5. EsMatches(c, row) = Holds(c, EsPassing(row))
    BY DEF EsMatches, EsPassing
  <2> QED BY <2>3, <2>4, <2>5, PassingIs
<1>3. ASSUME SqlWhere(c, res).ok
      PROVE  SqlWhere(c, res).sql \in Tree(Leaves, Depth + 3) /\ SqlWhere(c, res).params \in Seq(Value)
  <2>1. SqlWhere(c, res) \in Results(Tree(Leaves, Depth + 3))
    <3>1. PICK f \in [Trees -> [Nat -> Results(Trees)]] :
            /\ \A x, m : Emit(x, m, res) = f[x][m]
            /\ \A l \in 0..(Depth + 4) : \A x \in Tree(Leaves, l) : f[x] \in [Nat -> Results(Tree(Leaves, l))]
      BY EmitDef
    <3>2. f[c] \in [Nat -> Results(Tree(Leaves, Depth + 3))]
      BY <1>1, <3>1, DepthAssumption, Depth + 3 \in 0..(Depth + 4)
    <3> QED BY <3>1, <3>2 DEF SqlWhere
  <2> QED BY <1>3, <2>1, ResultsAre
<1>4. ASSUME SqlWhere(c, res).ok, NEW P, Within(0, SqlWhere(c, res).params, P)
      PROVE  PgEval(SqlWhere(c, res).sql, P, row) = Truth(Keeps(c, row))
  <2>1. Emit(c, 1, res).ok /\ Within(0, Emit(c, 1, res).params, P) /\ 1 \in Nat \ {0} /\ 0 \in Nat /\ 1 = 0 + 1
    BY <1>4 DEF SqlWhere
  <2>2. PgEval(Emit(c, 1, res).sql, P, row) = Truth(Keeps(c, row))
    BY <1>1, <2>1, SqlSays
  <2> QED BY <2>2 DEF SqlWhere
<1> QED BY <1>2, <1>3, <1>4

(***************************************************************************)
(* Whatever policies, grants, tuples and rows there are: where the values  *)
(* a constraint tests are ones that the languages compare alike, and no    *)
(* column of it is missing or null, the SQL of it, the Elasticsearch query *)
(* and the row filter let the same rows through (engine.rs, enforce): no   *)
(* nesting, list of values or place of a parameter makes a difference.     *)
(***************************************************************************)
THEOREM BackendsLetTheSameThrough == Spec => [](CompilesComparable => BackendsAgree)
<1> DEFINE Same == CompilesComparable => BackendsAgree
<1>1. Init => Stored /\ Same
  BY InitStored DEF Init, None, BackendsAgree
<1>2. Stored /\ Same /\ [Next]_vars => Stored' /\ Same'
  <2> SUFFICES ASSUME Stored, Same, [Next]_vars PROVE Same'
    BY StepStored
  <2>1. CASE UNCHANGED vars
    <3>1. response' = response
      BY <2>1 DEF vars
    <3> QED BY <3>1 DEF CompilesComparable, BackendsAgree
  <2>2. CASE response' \in {Done, None}
    BY <2>2 DEF Done, None, BackendsAgree
  <2>3. ASSUME NEW s \in Subjects, NEW res \in Resources, Answer(response', s, res) PROVE Same'
    <3> DEFINE c == Decided(s, res).constraint
               where == SqlWhere(c, res)
    <3> SUFFICES ASSUME response'.of = "compile", CompilesComparable' PROVE BackendsAgree'
      BY DEF BackendsAgree
    <3>1. response'.resource = res /\ response'.decision.constraint = c /\ response'.where = where
      BY <2>3 DEF Answer, Refused
    <3>2. c \in Plain(Depth + 3) /\ Normal(c) /\ ~ HasRelation(c)
      BY SubjectsAssumption, DecisionKeeps
    <3> HIDE DEF c, where
    <3>3. ASSUME NEW k \in RowNames
          PROVE  /\ Keeps(c, RowOf[k]) = EsMatches(c, RowOf[k])
                 /\ where.ok => (Keeps(c, RowOf[k]) <=> PgEval(where.sql, where.params, RowOf[k]) = 2)
      <4>1. AllComparable(c, res, RowOf[k])
        BY <3>1 DEF CompilesComparable
      <4>2. RowOf[k] \in [DOMAIN RowOf[k] -> Value] /\ Range(res.bindings) \subseteq STRING
        BY RowsAssumption, ResourcesAssumption
      <4>3. where.ok => PgEval(where.sql, where.params, RowOf[k]) = Truth(Keeps(c, RowOf[k]))
        <5>1. ASSUME where.ok PROVE Within(0, where.params, where.params)
          <6>1. where.params \in Seq(Value)
            BY <3>2, <4>1, <4>2, <5>1, ComparableSame DEF where
          <6> QED BY <6>1 DEF Within
        <5> QED BY <3>2, <4>1, <4>2, <5>1, ComparableSame DEF where
      <4>4. Keeps(c, RowOf[k]) = EsMatches(c, RowOf[k])
        BY <3>2, <4>1, <4>2, ComparableSame
      <4> QED BY <4>3, <4>4 DEF Truth
    <3> QED BY <3>1, <3>3 DEF BackendsAgree
  <2> QED BY <2>1, <2>2, <2>3, Answering
<1> QED BY <1>1, <1>2, PTL DEF Spec

LEMMA DecidedStays ==
  ASSUME UNCHANGED tables, NEW CONSTANT s, NEW CONSTANT res
  PROVE  Decided(s, res)' = Decided(s, res)
<1>1. LoadPolicies' = LoadPolicies
  BY DEF LoadPolicies, Collect, Map, tables
<1>2. grants' = grants /\ tuples' = tuples /\ rules' = rules
  BY DEF tables
<1>3. Decided(s, res) = Decision(s, res, LoadPolicies, ToSet(grants), tuples, rules)
  BY DEF Decided
<1>4. Decided(s, res)' = Decision(s, res, LoadPolicies', ToSet(grants'), tuples', rules')
  BY DEF Decided
<1> QED BY <1>1, <1>2, <1>3, <1>4


(* A row's own key, as the last parameter of a statement, is the row's. *)
LEMMA KeyFinds ==
  ASSUME NEW k \in RowNames, NEW params \in Seq(Value), NEW P, Len(params) + 1 \in DOMAIN P,
         P[Len(params) + 1] = RowOf[k]["id"]
  PROVE  ByKey(params) \in SqlTests /\ PgEval(ByKey(params), P, RowOf[k]) = 2
<1> DEFINE l == ByKey(params)
           row == RowOf[k]
           v == row["id"]
           n == Len(params) + 1
<1>1. n \in Nat
  OBVIOUS
<1>2. "id" \in DOMAIN row /\ "id" \in STRING /\ v \in Value /\ v # Null
  BY RowsAssumption
<1>3. l.kind = "sql" /\ l.op = "Eq" /\ l.column = "id" /\ l.at = <<n>>
  BY DEF ByKey
<1>4. l \in SqlTests
  <2>1. <<n>> \in Seq(Nat)
    BY <1>1
  <2> HIDE DEF n
  <2> QED BY <1>2, <2>1 DEF SqlTests, Ops, ByKey, n
<1>5. l \in Trees
  BY <1>4, LeavesAreTrees, DepthAssumption, Depth + 4 \in 0..(Depth + 4) DEF Leaves, Trees
<1> DEFINE tests == {PgTest("Eq", v, P[l.at[i]]) : i \in DOMAIN l.at}
<1>6. PgLeaf(l, P, row) = PgOr(tests)
  BY <1>2, <1>3 DEF PgLeaf
<1>7. tests = {PgTest("Eq", v, v)}
  <2>1. DOMAIN l.at = {1} /\ l.at[1] = n
    BY <1>3
  <2> HIDE DEF l, n
  <2> QED BY <2>1 DEF n
<1>8. PgTest("Eq", v, v) = 2
  BY <1>2 DEF PgTest, PgCompare, PgEq, Truth
<1> HIDE DEF tests, l, row
<1>9. PgEval(l, P, row) = PgOr({2})
  BY <1>3, <1>5, <1>6, <1>7, <1>8, PgEvalDef
<1> QED BY <1>4, <1>9 DEF PgOr, l, row

(***************************************************************************)
(* Whatever policies, grants, tuples and rows there are, where the values  *)
(* compare alike: a guarded route shows or deletes, of the rows it is      *)
(* about, exactly those that the policies give the subject of the token,   *)
(* also where the handler's own parameter comes behind those of the scope  *)
(* (pep.rs, handlers.rs).                                                  *)
(***************************************************************************)
THEOREM GuardsShowWhatIsGiven == Spec => [](GuardsComparable => GuardedExactly)
<1> DEFINE Exact == GuardsComparable => GuardedExactly
<1>1. Init => Stored /\ Exact
  BY InitStored DEF Init, None, GuardedExactly
<1>2. Stored /\ Exact /\ [Next]_vars => Stored' /\ Exact'
  <2> SUFFICES ASSUME Stored, Exact, [Next]_vars PROVE Exact'
    BY StepStored
  <2>1. CASE UNCHANGED vars
    <3>1. response' = response /\ UNCHANGED tables
      BY <2>1 DEF vars, tables
    <3>2. /\ Given(CurrentSubject(response.subject), response.resource)' =
               Given(CurrentSubject(response.subject), response.resource)
          /\ Decided(CurrentSubject(response.subject), response.resource)' =
               Decided(CurrentSubject(response.subject), response.resource)
      BY <3>1, GivenStays, DecidedStays DEF CurrentSubject
    <3> QED BY <3>1, <3>2 DEF GuardsComparable, GuardedExactly, Shows
  <2>2. CASE response' \in {Done, None}
    BY <2>2 DEF Done, None, GuardedExactly
  <2>3. ASSUME UNCHANGED tables, NEW s \in Subjects, NEW res \in Resources, Answer(response', s, res) PROVE Exact'
    <3> DEFINE who == CurrentSubject(s)
               c == Decided(who, res).constraint
               where == SqlWhere(c, res)
               st == response'.statement
    <3> SUFFICES ASSUME response'.of = "guarded", GuardsComparable' PROVE GuardedExactly'
      BY DEF GuardedExactly
    <3>1. /\ response'.subject = s /\ response'.resource = res /\ where.ok
          /\ \/ st = [only |-> RowNames, sql |-> where.sql, params |-> where.params]
             \/ \E k \in RowNames :
                  st = [only |-> {k}, sql |-> AllOf(<<where.sql, ByKey(where.params)>>),
                        params |-> Append(where.params, RowOf[k]["id"])]
      <4>1. response'.of = "guarded" /\ response' # Refused
        BY DEF Refused
      <4> QED BY <2>3, <4>1, Zenon DEF Answer
    <3>2. who \in Subject
      BY SubjectsAssumption, CurrentIsSubject
    <3>3. Given(who, res)' = Given(who, res) /\ Decided(who, res)' = Decided(who, res)
      BY <2>3, GivenStays, DecidedStays DEF CurrentSubject
    <3>4. c \in Plain(Depth + 3) /\ Normal(c) /\ ~ HasRelation(c)
      BY <3>2, DecisionKeeps
    <3>5. Given(who, res) = {k \in RowNames : Keeps(c, RowOf[k])}
      BY <3>2, RowsAreGiven DEF Rows
    <3>6. \A k \in RowNames : AllComparable(c, res, RowOf[k])
      BY <3>1, <3>3 DEF GuardsComparable
    <3>7. GuardedExactly' <=> Shows(st) = st.only \cap Given(who, res)
      BY <3>1, <3>3 DEF GuardedExactly, Shows
    <3> HIDE DEF c, where, st, who
    <3>8. ASSUME NEW k \in RowNames
          PROVE  /\ where.sql \in Tree(Leaves, Depth + 3) /\ where.params \in Seq(Value)
                 /\ \A P : Within(0, where.params, P) => PgEval(where.sql, P, RowOf[k]) = Truth(Keeps(c, RowOf[k]))
      <4>1. RowOf[k] \in [DOMAIN RowOf[k] -> Value] /\ Range(res.bindings) \subseteq STRING
        BY RowsAssumption, ResourcesAssumption
      <4> QED BY <3>1, <3>4, <3>6, <4>1, ComparableSame DEF where
    <3>9. CASE st = [only |-> RowNames, sql |-> where.sql, params |-> where.params]
      <4>1. ASSUME NEW k \in RowNames PROVE PgEval(st.sql, st.params, RowOf[k]) = 2 <=> Keeps(c, RowOf[k])
        <5>1. Within(0, where.params, where.params)
          BY <3>8 DEF Within
        <5>2. PgEval(where.sql, where.params, RowOf[k]) = Truth(Keeps(c, RowOf[k]))
          BY <3>8, <5>1
        <5> QED BY <3>9, <5>2 DEF Truth
      <4>2. st.only = RowNames
        BY <3>9
      <4> QED BY <3>5, <3>7, <4>1, <4>2 DEF Shows
    <3>10. ASSUME NEW k \in RowNames,
                  st = [only |-> {k}, sql |-> AllOf(<<where.sql, ByKey(where.params)>>),
                        params |-> Append(where.params, RowOf[k]["id"])]
           PROVE  GuardedExactly'
      <4> DEFINE P == Append(where.params, RowOf[k]["id"])
                 key == ByKey(where.params)
                 pair == <<where.sql, key>>
                 q == AllOf(pair)
      <4>1. where.sql \in Tree(Leaves, Depth + 3) /\ where.params \in Seq(Value)
        BY <3>8
      <4>2. Within(0, where.params, P) /\ Len(where.params) + 1 \in DOMAIN P
            /\ P[Len(where.params) + 1] = RowOf[k]["id"]
        BY <4>1 DEF Within
      <4>3. key \in SqlTests /\ PgEval(key, P, RowOf[k]) = 2
        BY <4>1, <4>2, KeyFinds
      <4>4. PgEval(where.sql, P, RowOf[k]) = Truth(Keeps(c, RowOf[k]))
        BY <3>8, <4>2
      <4>5. key \in Tree(Leaves, Depth + 3)
        BY <4>3, LeavesAreTrees, DepthAssumption, Depth + 3 \in 0..(Depth + 4) DEF Leaves
      <4> HIDE DEF P, key
      <4>6. pair \in Seq(Tree(Leaves, Depth + 3)) /\ DOMAIN pair = {1, 2} /\ pair[1] = where.sql /\ pair[2] = key
        BY <4>1, <4>5
      <4> HIDE DEF pair
      <4>7. q.kind = "and" /\ q.items = pair
        BY DEF AllOf
      <4>8. q \in Trees
        <5>1. Tree(Leaves, (Depth + 3) + 1) = Over(Leaves, Tree(Leaves, Depth + 3)) /\ (Depth + 3) + 1 = Depth + 4
          BY DepthAssumption, Depth + 3 \in Nat, TreeDef
        <5>2. q \in Over(Leaves, Tree(Leaves, Depth + 3))
          BY <4>6 DEF AllOf, Over
        <5> QED BY <5>1, <5>2 DEF Trees
      <4> HIDE DEF q
      <4>9. PgEval(q, P, RowOf[k]) = 2 <=> Keeps(c, RowOf[k])
        <5>1. PgEval(q, P, RowOf[k]) = 2 <=> \A i \in DOMAIN pair : PgEval(pair[i], P, RowOf[k]) = 2
          BY <4>7, <4>8, PgEvalDef
        <5> QED BY <4>3, <4>4, <4>6, <5>1 DEF Truth
      <4>10. st.only = {k} /\ st.sql = q /\ st.params = P
        BY <3>10 DEF q, pair, key, P
      <4>11. Shows(st) = {k} \cap Given(who, res)
        BY <3>5, <4>9, <4>10 DEF Shows
      <4> QED BY <3>7, <4>10, <4>11
    <3> QED BY <3>1, <3>9, <3>10
  <2> QED BY <2>1, <2>2, <2>3, Answering
<1> QED BY <1>1, <1>2, PTL DEF Spec
=============================================================================
