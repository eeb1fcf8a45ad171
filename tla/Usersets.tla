------------------------------ MODULE Usersets ------------------------------
(***************************************************************************)
(* The objects a subject can reach over a relation (store.rs): the query   *)
(* of lookup_resources first collects the usersets of the subject, that is *)
(* the subject and every group it is a member of over any number of hops,  *)
(* then the objects any of them has the relation to.  Here the recursive   *)
(* part is a UNION, which keeps only what was not found before.            *)
(***************************************************************************)
CONSTANTS
  Users,
  Groups,    \* objects of the kind "group", which are subjects as well
  Objects,   \* objects of the one other kind that is asked for
  Relations,
  Member,    \* the relation of a member to its group
  Tuples,    \* the tuples rows can hold: subject, relation, object
  NoTuple,   \* the tuple of an id without a row
  TupleIds,
  Asks,      \* what is asked for: a subject, a relation, a kind of object
  Calls,     \* calls of lookup_resources, each made at most once
  Writes     \* calls of save_tuple or delete_tuple, each made at most once

Subjects == Users \cup Groups

Kinds == {"group", "other"}

ASSUME TuplesAssumption ==
  /\ Asks \subseteq [subject : Subjects, relation : Relations, kind : Kinds]
  /\ Tuples \subseteq [subject : Subjects, relation : Relations, object : Groups \cup Objects]
  /\ NoTuple \notin Tuples
  /\ Groups \cap Objects = {}

VARIABLES
  tuples,  \* the table
  written, \* the writes made
  pc,      \* where each call is
  asked,   \* what it asks for
  seen,    \* the table its query sees
  ug,      \* the usersets found
  new,     \* those the last round found
  objects  \* what it answered

callVars == <<pc, asked, seen, ug, new, objects>>
vars == <<tuples, written, pc, asked, seen, ug, new, objects>>

OfKind(kind) == IF kind = "group" THEN Groups ELSE Objects

Table == [TupleIds -> Tuples \cup {NoTuple}]

TypeOK ==
  /\ tuples \in Table /\ written \subseteq Writes
  /\ pc \in [Calls -> {"idle", "open", "answered", "failed"}]
  /\ asked \in [Calls -> Asks]
  /\ seen \in [Calls -> Table]
  /\ ug \in [Calls -> SUBSET Subjects] /\ new \in [Calls -> SUBSET Subjects]
  /\ objects \in [Calls -> SUBSET (Groups \cup Objects)]

Init ==
  /\ tuples \in Table /\ written = {}
  /\ pc = [c \in Calls |-> "idle"]
  /\ asked \in [Calls -> Asks]
  /\ seen = [c \in Calls |-> tuples]
  /\ ug = [c \in Calls |-> {}] /\ new = [c \in Calls |-> {}]
  /\ objects = [c \in Calls |-> {}]

-----------------------------------------------------------------------------
(* A tuple is inserted or changed to any other: no two rows need differ. *)
SaveTuple(w) ==
  /\ w \notin written
  /\ written' = written \cup {w}
  /\ \E i \in TupleIds, t \in Tuples : tuples' = [tuples EXCEPT ![i] = t]
  /\ UNCHANGED callVars

DeleteTuple(w) ==
  /\ w \notin written
  /\ written' = written \cup {w}
  /\ \E i \in TupleIds : tuples' = [tuples EXCEPT ![i] = NoTuple]
  /\ UNCHANGED callVars

Goto(c, step) == pc' = [pc EXCEPT ![c] = step]

(* The rows of a table. *)
Rows(tbl) == {tbl[i] : i \in TupleIds} \ {NoTuple}

(* The groups the subjects in S are members of. *)
GroupsOf(tbl, S) ==
  {g \in Groups : \E t \in Rows(tbl) : t.subject \in S /\ t.relation = Member /\ t.object = g}

Anchor(c) ==
  /\ pc[c] = "idle"
  /\ Goto(c, "open")
  /\ ug' = [ug EXCEPT ![c] = {asked[c].subject}]
  /\ new' = [new EXCEPT ![c] = {asked[c].subject}]
  /\ seen' = [seen EXCEPT ![c] = tuples]
  /\ UNCHANGED <<tuples, written, asked, objects>>

(* Mutant: UNION ALL keeps a group that was found before. *)
RoundAll(c) ==
  /\ pc[c] = "open" /\ new[c] # {}
  /\ new' = [new EXCEPT ![c] = GroupsOf(seen[c], new[c])]
  /\ ug' = [ug EXCEPT ![c] = @ \cup new'[c]]
  /\ UNCHANGED <<tuples, written, pc, asked, seen, objects>>

(* Mutant: one hop, as before usersets were followed. *)
RoundOnce(c) ==
  /\ pc[c] = "open" /\ new[c] # {}
  /\ new' = [new EXCEPT ![c] = {}]
  /\ ug' = [ug EXCEPT ![c] = @ \cup GroupsOf(seen[c], new[c])]
  /\ UNCHANGED <<tuples, written, pc, asked, seen, objects>>

Round(c) ==
  /\ pc[c] = "open" /\ new[c] # {}
  /\ new' = [new EXCEPT ![c] = GroupsOf(seen[c], new[c]) \ ug[c]]
  /\ ug' = [ug EXCEPT ![c] = @ \cup GroupsOf(seen[c], new[c])]
  /\ UNCHANGED <<tuples, written, pc, asked, seen, objects>>

(* What any of the usersets S has the relation to. *)
RelatedTo(tbl, S, relation, kind) ==
  {o \in OfKind(kind) :
     \E t \in Rows(tbl) : t.subject \in S /\ t.relation = relation /\ t.object = o}

(* Mutant: only what the subject itself has the relation to. *)
JoinOnlySubject(c) ==
  /\ pc[c] = "open" /\ new[c] = {}
  /\ Goto(c, "answered")
  /\ objects' = [objects EXCEPT ![c] =
       RelatedTo(seen[c], {asked[c].subject}, asked[c].relation, asked[c].kind)]
  /\ UNCHANGED <<tuples, written, asked, seen, ug, new>>

Join(c) ==
  /\ pc[c] = "open" /\ new[c] = {}
  /\ Goto(c, "answered")
  /\ objects' = [objects EXCEPT ![c] =
       RelatedTo(seen[c], ug[c], asked[c].relation, asked[c].kind)]
  /\ UNCHANGED <<tuples, written, asked, seen, ug, new>>

Fail(c) ==
  /\ pc[c] = "open"
  /\ Goto(c, "failed")
  /\ UNCHANGED <<tuples, written, asked, seen, ug, new, objects>>

Next ==
  \/ \E w \in Writes : SaveTuple(w) \/ DeleteTuple(w)
  \/ \E c \in Calls : Anchor(c) \/ Round(c) \/ Join(c) \/ Fail(c)

(* The database goes on with a query it has begun. *)
Fairness == \A c \in Calls : WF_vars(Round(c) \/ Join(c))

Spec == Init /\ [][Next]_vars /\ Fairness

-----------------------------------------------------------------------------
(* An edge leads from a member to its group. *)
Memberships(tbl) ==
  {e \in Subjects \X Subjects : e[2] \in GroupsOf(tbl, {e[1]})}

fromBar == [c \in Calls |-> asked[c].subject]

viewBar == [c \in Calls |-> Memberships(seen[c])]

answerBar == [c \in Calls |-> IF pc[c] = "answered" THEN ug[c] ELSE {}]

C == INSTANCE Closure WITH Nodes <- Subjects, Queries <- Calls, edges <- Memberships(tuples),
                           phase <- pc, from <- fromBar, view <- viewBar, answer <- answerBar

(***************************************************************************)
(* store.rs, store.rs of core: the usersets are the subject and all groups *)
(* it belongs to over any number of hops, as of one state of the tuples,   *)
(* whatever cycles the memberships have.                                   *)
(***************************************************************************)
UsersetsAreTheClosure == C!Spec

(***************************************************************************)
(* store.rs: what is answered is what the subject or a group it belongs to *)
(* has the relation to, and nothing else, also when the objects asked for  *)
(* are the groups themselves.                                              *)
(***************************************************************************)
LookupIsExact ==
  \A c \in Calls : pc[c] = "answered" =>
    \A o \in Groups \cup Objects :
      o \in objects[c] <=>
        \E i \in TupleIds :
          /\ seen[c][i] # NoTuple
          /\ o \in OfKind(asked[c].kind) /\ seen[c][i].object = o
          /\ seen[c][i].relation = asked[c].relation
          /\ seen[c][i].subject \in C!Reachable(Memberships(seen[c]), asked[c].subject)

(***************************************************************************)
(* store.rs: UNION removes what was found before and so guards against     *)
(* cycles of groups: a lookup the database goes on with ends.              *)
(***************************************************************************)
LookupEnds == \A c \in Calls : (pc[c] = "open") ~> (pc[c] # "open")

(***************************************************************************)
(* Why both hold, as an inductive invariant: what was found is reachable,  *)
(* and the groups of all but the last round's usersets have been found.    *)
(***************************************************************************)
FoundInv(c) ==
  /\ new[c] \subseteq ug[c] /\ asked[c].subject \in ug[c]
  /\ ug[c] \subseteq C!Reachable(Memberships(seen[c]), asked[c].subject)
  /\ GroupsOf(seen[c], ug[c] \ new[c]) \subseteq ug[c]

UsersetInv ==
  \A c \in Calls :
    /\ pc[c] = "open" => FoundInv(c)
    /\ pc[c] = "answered" =>
         /\ ug[c] = C!Reachable(Memberships(seen[c]), asked[c].subject)
         /\ objects[c] = RelatedTo(seen[c], ug[c], asked[c].relation, asked[c].kind)
=============================================================================
