--------------------------- MODULE ExpanderProofs ---------------------------
(* Proofs about Expander: its type invariant, and that it implements Closure. *)
EXTENDS Expander, TLAPS

-----------------------------------------------------------------------------
(* Type correctness: every variable of the expander keeps its type. *)
THEOREM TypeCorrect == Spec => []TypeOK
<1>1. Init => TypeOK
  BY DEF Init, TypeOK, Parents
<1>2. TypeOK /\ [Next]_vars => TypeOK'
  <2> SUFFICES ASSUME TypeOK, [Next]_vars PROVE TypeOK'
    OBVIOUS
  <2> USE DEF TypeOK, Parents, Goto, Find, callVars
  <2>1. ASSUME NEW s \in Saves, SaveDimensionValue(s) PROVE TypeOK'
    BY <2>1 DEF SaveDimensionValue
  <2>2. ASSUME NEW c \in Calls, Anchor(c) PROVE TypeOK'
    BY <2>2 DEF Anchor
  <2>3. ASSUME NEW c \in Calls, Round(c) PROVE TypeOK'
    BY <2>3 DEF Round, Children
  <2>4. ASSUME NEW c \in Calls, Return(c) PROVE TypeOK'
    BY <2>4 DEF Return
  <2>5. ASSUME NEW c \in Calls, Fail(c) PROVE TypeOK'
    BY <2>5 DEF Fail
  <2>6. CASE UNCHANGED vars
    BY <2>6 DEF vars
  <2> QED
    BY <2>1, <2>2, <2>3, <2>4, <2>5, <2>6 DEF Next
<1> QED
  BY <1>1, <1>2, PTL DEF Spec

-----------------------------------------------------------------------------
(* The root is reachable from itself, and the child of a reachable value is. *)
LEMMA RootReachable ==
  ASSUME NEW E, NEW n \in Values
  PROVE  n \in C!Reachable(E, n)
  BY DEF C!Reachable

LEMMA ReachableIsClosed ==
  ASSUME NEW E, NEW n \in Values, NEW x \in C!Reachable(E, n), NEW y \in Values,
         <<x, y>> \in E
  PROVE  y \in C!Reachable(E, n)
<1> SUFFICES ASSUME NEW S \in SUBSET Values, n \in S, C!Closed(S, E)
             PROVE  y \in S
  BY DEF C!Reachable
<1>1. x \in S /\ x \in Values
  BY DEF C!Reachable
<1> QED
  BY <1>1 DEF C!Closed

(* What is reachable is in every closed set with the root. *)
LEMMA ClosedHasReachable ==
  ASSUME NEW E, NEW n, NEW S \in SUBSET Values, n \in S, C!Closed(S, E)
  PROVE  C!Reachable(E, n) \subseteq S
  BY DEF C!Reachable

(* A value whose row names a value with a row as its parent is one edge away. *)
LEMMA ChildIsAnEdge ==
  ASSUME NEW t \in [Values -> Parents], NEW v \in Values, NEW w \in Values,
         t[v] = w, t[w] # Unregistered
  PROVE  <<w, v>> \in EdgesOf(t)
  BY DEF EdgesOf

LEMMA EdgeToAChild ==
  ASSUME NEW t, NEW w \in Values, NEW v \in Values, <<w, v>> \in EdgesOf(t)
  PROVE  t[v] = w /\ t[w] # Unregistered
  BY DEF EdgesOf

-----------------------------------------------------------------------------
(* The rounds find what is below the root: see ClosureInv. *)
LEMMA AnchorFinds ==
  ASSUME TypeOK, TypeOK', ClosureInv, NEW c \in Calls, Anchor(c)
  PROVE  ClosureInv'
<1> SUFFICES ASSUME NEW d \in Calls, pc'[d] = "open" PROVE FoundInv(d)'
  BY DEF ClosureInv
<1>1. CASE d # c
  <2>1. pc[d] = "open" /\ UNCHANGED <<root[d], seen[d], work[d], result[d]>>
    BY <1>1 DEF Anchor, Goto, Find, TypeOK
  <2> QED
    BY <2>1 DEF ClosureInv, FoundInv
<1>2. CASE d = c
  <2> DEFINE v == root[c]
             V == IF rows[v] = Unregistered THEN {} ELSE {v}
  <2>1. /\ root'[c] = v /\ v \in Values /\ seen'[c] = rows
        /\ work'[c] = V /\ result'[c] = work'[c]
    BY DEF Anchor, Find, TypeOK
  <2>2. v \in C!Reachable(EdgesOf(rows), v)
    BY <2>1, RootReachable
  <2>3. result'[c] \ work'[c] = {}
    BY <2>1
  <2>4. Children(rows, {}) = {}
    BY DEF Children
  <2> QED
    BY <1>2, <2>1, <2>2, <2>3, <2>4 DEF FoundInv
<1> QED
  BY <1>1, <1>2

LEMMA RoundFinds ==
  ASSUME TypeOK, TypeOK', ClosureInv, NEW c \in Calls, Round(c)
  PROVE  ClosureInv'
<1> SUFFICES ASSUME NEW d \in Calls, pc'[d] = "open" PROVE FoundInv(d)'
  BY DEF ClosureInv
<1>1. CASE d # c
  <2>1. pc[d] = "open" /\ UNCHANGED <<root[d], seen[d], work[d], result[d]>>
    BY <1>1 DEF Round, Find, TypeOK
  <2> QED
    BY <2>1 DEF ClosureInv, FoundInv
<1>2. CASE d = c
  <2> DEFINE t == seen[c]
             W == work[c]
             R == result[c]
             K == Children(t, W)
  <2>1. /\ UNCHANGED <<root[c], seen[c]>>
        /\ work'[c] = K /\ result'[c] = R \cup K
    BY DEF Round, Find, TypeOK
  <2>2. FoundInv(c)
    BY DEF ClosureInv, Round
  <2>3. t \in [Values -> Parents] /\ root[c] \in Values
        /\ W \subseteq Values /\ R \subseteq Values /\ K \subseteq Values
    BY DEF TypeOK, Children
  <2>4. ASSUME NEW v \in K
        PROVE  t[v] \in W /\ t[v] \in Values /\ <<t[v], v>> \in EdgesOf(t)
    <3>1. v \in Values /\ t[v] \in W
      BY DEF Children
    <3>2. t[v] \in Values /\ t[t[v]] # Unregistered
      BY <2>2, <2>3, <3>1 DEF FoundInv
    <3> QED
      BY <3>1, <3>2, <2>3, ChildIsAnEdge
  <2>5. K \subseteq C!Reachable(EdgesOf(t), root[c])
    <3> SUFFICES ASSUME NEW v \in K PROVE v \in C!Reachable(EdgesOf(t), root[c])
      OBVIOUS
    <3>1. t[v] \in C!Reachable(EdgesOf(t), root[c])
      BY <2>2, <2>4 DEF FoundInv
    <3>2. <<t[v], v>> \in EdgesOf(t) /\ v \in Values
      BY <2>3, <2>4
    <3> QED
      BY <3>1, <3>2, <2>3, ReachableIsClosed
  <2>6. \A v \in K : t[v] # Unregistered
    BY <2>4, NoValueAssumption
  <2>7. Children(t, (R \cup K) \ K) \subseteq R \cup K
    <3> SUFFICES ASSUME NEW v \in Values, t[v] \in R, t[v] \notin K
                 PROVE  v \in R \cup K
      BY DEF Children
    <3>1. CASE t[v] \in W
      BY <3>1 DEF Children
    <3>2. CASE t[v] \notin W
      BY <3>2, <2>2 DEF FoundInv, Children
    <3> QED
      BY <3>1, <3>2
  <2>8. work'[c] \subseteq result'[c]
    BY <2>1
  <2>9. result'[c] \subseteq C!Reachable(EdgesOf(t), root[c])
    BY <2>1, <2>2, <2>5 DEF FoundInv
  <2>10. \A v \in result'[c] : t[v] # Unregistered
    BY <2>1, <2>2, <2>6 DEF FoundInv
  <2>11. t[root[c]] # Unregistered => root[c] \in result'[c]
    BY <2>1, <2>2 DEF FoundInv
  <2> HIDE DEF t, W, R, K
  <2>12. t' = t
    BY <2>1 DEF t
  <2> QED
    BY <1>2, <2>1, <2>7, <2>8, <2>9, <2>10, <2>11 DEF FoundInv, t, R, K, W
<1> QED
  BY <1>1, <1>2

LEMMA OtherStepsFind ==
  ASSUME TypeOK, ClosureInv,
         \/ \E s \in Saves : SaveDimensionValue(s)
         \/ \E c \in Calls : Return(c) \/ Fail(c)
         \/ UNCHANGED vars
  PROVE  ClosureInv'
<1> SUFFICES ASSUME NEW d \in Calls, pc'[d] = "open" PROVE FoundInv(d)'
  BY DEF ClosureInv
<1>1. pc[d] = "open" /\ UNCHANGED <<root[d], seen[d], work[d], result[d]>>
  BY DEF SaveDimensionValue, Return, Fail, Goto, vars, callVars, TypeOK
<1> QED
  BY <1>1 DEF ClosureInv, FoundInv

LEMMA FoundBelowTheRoot == Spec => []ClosureInv
<1>1. Init => ClosureInv
  BY DEF Init, ClosureInv
<1>2. TypeOK /\ TypeOK' /\ ClosureInv /\ [Next]_vars => ClosureInv'
  BY AnchorFinds, RoundFinds, OtherStepsFind DEF Next
<1> QED
  BY <1>1, <1>2, TypeCorrect, PTL DEF Spec

-----------------------------------------------------------------------------
(* When no round finds anything more, what was found, with the root, is the subtree. *)
LEMMA FoundIsTheSubtree ==
  ASSUME TypeOK, ClosureInv, NEW c \in Calls, Return(c)
  PROVE  result[c] \cup {root[c]} = C!Reachable(EdgesOf(seen[c]), root[c])
<1> DEFINE t == seen[c]
           S == result[c] \cup {root[c]}
<1>1. FoundInv(c) /\ work[c] = {}
  BY DEF Return, ClosureInv
<1>2. t \in [Values -> Parents] /\ root[c] \in Values /\ result[c] \subseteq Values
  BY DEF TypeOK
<1>3. S \subseteq C!Reachable(EdgesOf(t), root[c])
  BY <1>1, <1>2, RootReachable DEF FoundInv
<1>4. C!Closed(S, EdgesOf(t))
  <2> SUFFICES ASSUME NEW x \in Values, NEW y \in Values, <<x, y>> \in EdgesOf(t), x \in S
               PROVE  y \in S
    BY DEF C!Closed
  <2>1. t[y] = x /\ t[x] # Unregistered
    BY EdgeToAChild
  <2>2. x \in result[c]
    BY <1>1, <2>1 DEF FoundInv
  <2>3. y \in Children(t, result[c] \ work[c])
    BY <1>1, <2>1, <2>2 DEF Children
  <2> QED
    BY <1>1, <2>3 DEF FoundInv
<1>5. C!Reachable(EdgesOf(t), root[c]) \subseteq S
  BY <1>2, <1>4, ClosedHasReachable
<1> QED
  BY <1>3, <1>5

(***************************************************************************)
(* descendants answers with the subtree under the value, as of one state   *)
(* of the dimension: the rounds of the query implement the closure.        *)
(***************************************************************************)
THEOREM AnswersAreSubtrees == Spec => AnswersTheSubtree
<1> USE DEF C!Edges
<1>1. Init => C!Init
  BY DEF Init, C!Init, EdgesOf, viewBar, answerBar
<1>2. TypeOK /\ TypeOK' /\ ClosureInv /\ [Next]_vars => [C!Next]_C!vars
  <2> SUFFICES ASSUME TypeOK, TypeOK', ClosureInv, [Next]_vars
               PROVE  C!Next \/ UNCHANGED C!vars
    BY DEF C!vars
  <2>1. ASSUME NEW s \in Saves, SaveDimensionValue(s) PROVE C!Next
    <3>1. C!Change
      BY <2>1 DEF SaveDimensionValue, callVars, C!Change, EdgesOf, viewBar, answerBar
    <3> QED
      BY <3>1 DEF C!Next
  <2>2. ASSUME NEW c \in Calls, Anchor(c) PROVE C!Next
    <3>1. viewBar' = [viewBar EXCEPT ![c] = EdgesOf(rows)]
      BY <2>2 DEF Anchor, viewBar, TypeOK
    <3>2. answerBar' = answerBar
      BY <2>2 DEF Anchor, Goto, Find, answerBar, TypeOK
    <3>3. C!Ask(c)
      BY <2>2, <3>1, <3>2 DEF Anchor, Goto, C!Ask
    <3> QED
      BY <3>3 DEF C!Next
  <2>3. ASSUME NEW c \in Calls, Round(c) PROVE UNCHANGED C!vars
    <3>1. answerBar' = answerBar
      BY <2>3 DEF Round, Find, answerBar, TypeOK
    <3> QED
      BY <2>3, <3>1 DEF Round, C!vars, viewBar
  <2>4. ASSUME NEW c \in Calls, Return(c) PROVE C!Next
    <3>1. result'[c] = C!Reachable(EdgesOf(seen[c]), root[c])
      BY <2>4, FoundIsTheSubtree DEF Return, TypeOK
    <3>2. viewBar' = viewBar /\ viewBar[c] = EdgesOf(seen[c])
      BY <2>4 DEF Return, viewBar
    <3>3. answerBar' = [answerBar EXCEPT ![c] = C!Reachable(viewBar[c], root[c])]
      BY <2>4, <3>1, <3>2 DEF Return, Goto, answerBar, TypeOK
    <3>4. C!Answer(c)
      BY <2>4, <3>2, <3>3 DEF Return, Goto, C!Answer
    <3> QED
      BY <3>4 DEF C!Next
  <2>5. ASSUME NEW c \in Calls, Fail(c) PROVE C!Next
    <3>1. answerBar' = answerBar
      BY <2>5 DEF Fail, Goto, answerBar, TypeOK
    <3>2. C!Fail(c)
      BY <2>5, <3>1 DEF Fail, Goto, C!Fail, viewBar
    <3> QED
      BY <3>2 DEF C!Next
  <2>6. CASE UNCHANGED vars
    BY <2>6 DEF vars, C!vars, viewBar, answerBar
  <2> QED
    BY <2>1, <2>2, <2>3, <2>4, <2>5, <2>6 DEF Next
<1> QED
  BY <1>1, <1>2, TypeCorrect, FoundBelowTheRoot, PTL DEF Spec, C!Spec, AnswersTheSubtree
=============================================================================
