--------------------------- MODULE UsersetsProofs ---------------------------
(* Proofs about Usersets: its type invariant, that the usersets it collects are *)
(* the closure, and that its answers are exact.                                 *)
EXTENDS Usersets, TLAPS

LEMMA RowsAreTuples ==
  ASSUME NEW tbl \in Table
  PROVE  \A t \in Rows(tbl) :
           t \in Tuples /\ t.subject \in Subjects /\ t.object \in Groups \cup Objects
  BY TuplesAssumption DEF Rows, Table

(* Type correctness: every variable of the lookup keeps its type. *)
THEOREM TypeCorrect == Spec => []TypeOK
<1>1. Init => TypeOK
  BY DEF Init, TypeOK
<1>2. TypeOK /\ [Next]_vars => TypeOK'
  <2> SUFFICES ASSUME TypeOK, [Next]_vars PROVE TypeOK'
    OBVIOUS
  <2> USE DEF TypeOK, Goto, callVars
  <2>1. ASSUME NEW w \in Writes, SaveTuple(w) PROVE TypeOK'
    BY <2>1 DEF SaveTuple, Table
  <2>2. ASSUME NEW w \in Writes, DeleteTuple(w) PROVE TypeOK'
    BY <2>2 DEF DeleteTuple, Table
  <2>3. ASSUME NEW c \in Calls, Anchor(c) PROVE TypeOK'
    <3>1. asked[c].subject \in Subjects
      BY TuplesAssumption
    <3> QED
      BY <2>3, <3>1 DEF Anchor
  <2>4. ASSUME NEW c \in Calls, Round(c) PROVE TypeOK'
    <3>1. GroupsOf(seen[c], new[c]) \subseteq Subjects
      BY DEF GroupsOf, Subjects
    <3> QED
      BY <2>4, <3>1 DEF Round
  <2>5. ASSUME NEW c \in Calls, Join(c) PROVE TypeOK'
    <3>1. RelatedTo(seen[c], ug[c], asked[c].relation, asked[c].kind) \subseteq Groups \cup Objects
      BY DEF RelatedTo, OfKind
    <3> QED
      BY <2>5, <3>1 DEF Join
  <2>6. ASSUME NEW c \in Calls, Fail(c) PROVE TypeOK'
    BY <2>6 DEF Fail
  <2>7. CASE UNCHANGED vars
    BY <2>7 DEF vars
  <2> QED
    BY <2>1, <2>2, <2>3, <2>4, <2>5, <2>6, <2>7 DEF Next
<1> QED
  BY <1>1, <1>2, PTL DEF Spec

-----------------------------------------------------------------------------
(* The subject is in its closure, with the groups of all that are in it. *)
LEMMA SubjectReachable ==
  ASSUME NEW E, NEW s \in Subjects
  PROVE  s \in C!Reachable(E, s)
  BY DEF C!Reachable

LEMMA GroupsReachable ==
  ASSUME NEW tbl \in Table, NEW s \in Subjects,
         NEW S \in SUBSET C!Reachable(Memberships(tbl), s)
  PROVE  GroupsOf(tbl, S) \subseteq C!Reachable(Memberships(tbl), s)
<1> SUFFICES ASSUME NEW g \in GroupsOf(tbl, S), NEW T \in SUBSET Subjects, s \in T,
                    C!Closed(T, Memberships(tbl))
             PROVE  g \in T
  BY DEF C!Reachable, GroupsOf, Subjects
<1>1. PICK t \in Rows(tbl) : t.subject \in S /\ t.relation = Member /\ t.object = g
  BY DEF GroupsOf
<1>2. t.subject \in T /\ t.subject \in Subjects /\ g \in Subjects /\ g \in Groups
  BY <1>1 DEF C!Reachable, GroupsOf, Subjects
<1>3. g \in GroupsOf(tbl, {t.subject})
  BY <1>1, <1>2 DEF GroupsOf
<1>4. <<t.subject, g>> \in Memberships(tbl)
  BY <1>2, <1>3 DEF Memberships
<1> QED
  BY <1>2, <1>4 DEF C!Closed

(* A set that has the subject and the groups of all its members has the closure. *)
LEMMA ClosedUnderGroups ==
  ASSUME NEW tbl \in Table, NEW s, NEW S \in SUBSET Subjects, s \in S,
         GroupsOf(tbl, S) \subseteq S
  PROVE  C!Reachable(Memberships(tbl), s) \subseteq S
<1>1. C!Closed(S, Memberships(tbl))
  <2> SUFFICES ASSUME NEW x \in Subjects, NEW y \in Subjects,
                      <<x, y>> \in Memberships(tbl), x \in S
               PROVE  y \in S
    BY DEF C!Closed
  <2>1. y \in GroupsOf(tbl, {x})
    BY DEF Memberships
  <2>2. y \in GroupsOf(tbl, S)
    BY <2>1 DEF GroupsOf
  <2> QED
    BY <2>2
<1> QED
  BY <1>1 DEF C!Reachable

(* A round's groups are those of its last usersets. *)
LEMMA RoundClosesOneMore ==
  ASSUME NEW tbl, NEW U, NEW N, GroupsOf(tbl, U \ N) \subseteq U
  PROVE  GroupsOf(tbl, (U \cup GroupsOf(tbl, N)) \ (GroupsOf(tbl, N) \ U))
           \subseteq U \cup GroupsOf(tbl, N)
  BY DEF GroupsOf

-----------------------------------------------------------------------------
(* Every step of a call but its own leaves what the invariant says of it. *)
LEMMA OthersKeepInv ==
  ASSUME UsersetInv, NEW d \in Calls,
         UNCHANGED <<pc[d], asked[d], seen[d], ug[d], new[d], objects[d]>>
  PROVE  /\ pc'[d] = "open" => FoundInv(d)'
         /\ pc'[d] = "answered" =>
              /\ ug'[d] = C!Reachable(Memberships(seen'[d]), asked'[d].subject)
              /\ objects'[d] = RelatedTo(seen'[d], ug'[d], asked'[d].relation, asked'[d].kind)
  BY DEF UsersetInv, FoundInv

LEMMA CallKeepsInv ==
  ASSUME TypeOK, UsersetInv, NEW c \in Calls,
         Anchor(c) \/ Round(c) \/ Join(c) \/ Fail(c)
  PROVE  UsersetInv'
<1> DEFINE s == asked[c].subject
           tbl == seen[c]
<1>0. /\ asked' = asked /\ s \in Subjects /\ tbl \in Table
      /\ ug[c] \subseteq Subjects /\ new[c] \subseteq Subjects
  BY TuplesAssumption DEF TypeOK, Anchor, Round, Join, Fail
<1>1. ASSUME NEW d \in Calls, d # c
      PROVE  UNCHANGED <<pc[d], asked[d], seen[d], ug[d], new[d], objects[d]>>
  BY <1>1 DEF Anchor, Round, Join, Fail, Goto, TypeOK
<1>2. CASE Anchor(c)
  <2>1. /\ pc'[c] = "open" /\ seen'[c] = tuples
        /\ ug'[c] = {s} /\ new'[c] = {s}
    BY <1>2 DEF Anchor, Goto, TypeOK
  <2>2. s \in C!Reachable(Memberships(tuples), s)
    BY <1>0, SubjectReachable
  <2>3. GroupsOf(tuples, {s} \ {s}) = {}
    BY DEF GroupsOf
  <2>4. FoundInv(c)'
    BY <1>0, <2>1, <2>2, <2>3 DEF FoundInv
  <2> QED
    BY <1>1, <2>1, <2>4, OthersKeepInv DEF UsersetInv
<1>3. CASE Round(c)
  <2> DEFINE G == GroupsOf(tbl, new[c])
  <2>1. /\ pc'[c] = "open" /\ seen'[c] = tbl
        /\ ug'[c] = ug[c] \cup G /\ new'[c] = G \ ug[c]
    BY <1>3 DEF Round, TypeOK
  <2>2. FoundInv(c)
    BY <1>3 DEF Round, UsersetInv
  <2>3. G \subseteq C!Reachable(Memberships(tbl), s)
    <3>1. new[c] \subseteq C!Reachable(Memberships(tbl), s)
      BY <2>2 DEF FoundInv
    <3> QED
      BY <1>0, <3>1, GroupsReachable
  <2>4. GroupsOf(tbl, (ug[c] \cup G) \ (G \ ug[c])) \subseteq ug[c] \cup G
    BY <2>2, RoundClosesOneMore DEF FoundInv
  <2>5. FoundInv(c)'
    BY <1>0, <2>1, <2>2, <2>3, <2>4 DEF FoundInv
  <2> QED
    BY <1>1, <2>1, <2>5, OthersKeepInv DEF UsersetInv
<1>4. CASE Join(c)
  <2>1. /\ pc'[c] = "answered" /\ UNCHANGED <<seen[c], ug[c], new[c]>> /\ new[c] = {}
        /\ objects'[c] = RelatedTo(tbl, ug[c], asked[c].relation, asked[c].kind)
    BY <1>4 DEF Join, Goto, TypeOK
  <2>2. FoundInv(c)
    BY <1>4 DEF Join, UsersetInv
  <2>3. GroupsOf(tbl, ug[c]) \subseteq ug[c]
    <3>1. ug[c] \ new[c] = ug[c]
      BY <2>1
    <3> QED
      BY <2>2, <3>1 DEF FoundInv
  <2>4. ug[c] = C!Reachable(Memberships(tbl), s)
    <3>1. ug[c] \subseteq C!Reachable(Memberships(tbl), s) /\ s \in ug[c]
      BY <2>2 DEF FoundInv
    <3>2. C!Reachable(Memberships(tbl), s) \subseteq ug[c]
      BY <1>0, <2>3, <3>1, ClosedUnderGroups
    <3> QED
      BY <3>1, <3>2
  <2>5. ug'[c] = C!Reachable(Memberships(seen'[c]), asked'[c].subject)
    BY <1>0, <2>1, <2>4
  <2> QED
    BY <1>0, <1>1, <2>1, <2>5, OthersKeepInv DEF UsersetInv
<1>5. CASE Fail(c)
  <2>1. pc'[c] = "failed"
    BY <1>5 DEF Fail, Goto, TypeOK
  <2> QED
    BY <1>1, <2>1, OthersKeepInv DEF UsersetInv
<1> QED
  BY <1>2, <1>3, <1>4, <1>5

LEMMA UsersetsAreFound == Spec => []UsersetInv
<1>1. Init => UsersetInv
  BY DEF Init, UsersetInv
<1>2. TypeOK /\ UsersetInv /\ [Next]_vars => UsersetInv'
  <2> SUFFICES ASSUME TypeOK, UsersetInv, [Next]_vars PROVE UsersetInv'
    OBVIOUS
  <2>1. ASSUME UNCHANGED callVars PROVE UsersetInv'
    BY <2>1, OthersKeepInv DEF UsersetInv, callVars
  <2>2. ASSUME NEW w \in Writes, SaveTuple(w) \/ DeleteTuple(w) PROVE UsersetInv'
    BY <2>1, <2>2 DEF SaveTuple, DeleteTuple
  <2>3. CASE UNCHANGED vars
    BY <2>1, <2>3 DEF vars, callVars
  <2> QED
    BY <2>2, <2>3, CallKeepsInv DEF Next
<1> QED
  BY <1>1, <1>2, TypeCorrect, PTL DEF Spec

-----------------------------------------------------------------------------
(***************************************************************************)
(* A lookup answers with what the subject, or a group it belongs to over   *)
(* any number of hops, has the relation to, and with nothing else.         *)
(***************************************************************************)
THEOREM LookupsAreExact == Spec => []LookupIsExact
<1>1. UsersetInv => LookupIsExact
  <2> SUFFICES ASSUME UsersetInv, NEW c \in Calls, pc[c] = "answered",
                      NEW o \in Groups \cup Objects
               PROVE  o \in objects[c] <=>
                        \E i \in TupleIds :
                          /\ seen[c][i] # NoTuple
                          /\ o \in OfKind(asked[c].kind) /\ seen[c][i].object = o
                          /\ seen[c][i].relation = asked[c].relation
                          /\ seen[c][i].subject
                               \in C!Reachable(Memberships(seen[c]), asked[c].subject)
    BY DEF LookupIsExact
  <2>1. /\ objects[c] = RelatedTo(seen[c], ug[c], asked[c].relation, asked[c].kind)
        /\ ug[c] = C!Reachable(Memberships(seen[c]), asked[c].subject)
    BY DEF UsersetInv
  <2> QED
    BY <2>1 DEF RelatedTo, Rows
<1> QED
  BY <1>1, UsersetsAreFound, PTL

(***************************************************************************)
(* The usersets a lookup collects are the closure of its subject, as of    *)
(* one state of the tuples: the rounds of the query implement Closure.     *)
(***************************************************************************)
THEOREM UsersetsImplementClosure == Spec => UsersetsAreTheClosure
<1>0. \A tbl : Memberships(tbl) \in C!Edges
  BY DEF Memberships, C!Edges
<1>1. TypeOK /\ Init => C!Init
  BY <1>0, TuplesAssumption DEF Init, TypeOK, C!Init, fromBar, viewBar, answerBar
<1>2. TypeOK /\ UsersetInv' /\ [Next]_vars => [C!Next]_C!vars
  <2> SUFFICES ASSUME TypeOK, UsersetInv', [Next]_vars
               PROVE  C!Next \/ UNCHANGED C!vars
    BY DEF C!vars
  <2>1. ASSUME NEW w \in Writes, SaveTuple(w) \/ DeleteTuple(w) PROVE C!Next
    <3>1. C!Change
      BY <2>1, <1>0 DEF SaveTuple, DeleteTuple, callVars, C!Change, fromBar, viewBar, answerBar
    <3> QED
      BY <3>1 DEF C!Next
  <2>2. ASSUME NEW c \in Calls, Anchor(c) PROVE C!Next
    <3>1. viewBar' = [viewBar EXCEPT ![c] = Memberships(tuples)]
      BY <2>2 DEF Anchor, viewBar, TypeOK
    <3>2. answerBar' = answerBar /\ fromBar' = fromBar
      BY <2>2 DEF Anchor, Goto, answerBar, fromBar, TypeOK
    <3>3. C!Ask(c)
      BY <2>2, <3>1, <3>2 DEF Anchor, Goto, C!Ask
    <3> QED
      BY <3>3 DEF C!Next
  <2>3. ASSUME NEW c \in Calls, Round(c) PROVE UNCHANGED C!vars
    <3>1. answerBar' = answerBar
      BY <2>3 DEF Round, answerBar, TypeOK
    <3> QED
      BY <2>3, <3>1 DEF Round, C!vars, viewBar, fromBar
  <2>4. ASSUME NEW c \in Calls, Join(c) PROVE C!Next
    <3>1. ug[c] = C!Reachable(viewBar[c], fromBar[c])
      BY <2>4 DEF Join, Goto, UsersetInv, TypeOK, viewBar, fromBar
    <3>2. viewBar' = viewBar /\ fromBar' = fromBar
      BY <2>4 DEF Join, viewBar, fromBar
    <3>3. answerBar' = [answerBar EXCEPT ![c] = C!Reachable(viewBar[c], fromBar[c])]
      BY <2>4, <3>1 DEF Join, Goto, answerBar, TypeOK
    <3>4. C!Answer(c)
      BY <2>4, <3>2, <3>3 DEF Join, Goto, C!Answer
    <3> QED
      BY <3>4 DEF C!Next
  <2>5. ASSUME NEW c \in Calls, Fail(c) PROVE C!Next
    <3>1. answerBar' = answerBar
      BY <2>5 DEF Fail, Goto, answerBar, TypeOK
    <3>2. C!Fail(c)
      BY <2>5, <3>1 DEF Fail, Goto, C!Fail, viewBar, fromBar
    <3> QED
      BY <3>2 DEF C!Next
  <2>6. CASE UNCHANGED vars
    BY <2>6 DEF vars, C!vars, viewBar, answerBar, fromBar
  <2> QED
    BY <2>1, <2>2, <2>3, <2>4, <2>5, <2>6 DEF Next
<1> QED
  BY <1>1, <1>2, TypeCorrect, UsersetsAreFound, PTL
  DEF Spec, C!Spec, UsersetsAreTheClosure
=============================================================================
