------------------------------ MODULE Expander ------------------------------
(***************************************************************************)
(* The descendants of a dimension value (expander.rs): a WITH RECURSIVE    *)
(* query over the rows of one dimension, and the upserts that change those *)
(* rows (store.rs).  The database evaluates the query round by round: the  *)
(* children of the rows the last round found are the next round's rows,    *)
(* and UNION ALL keeps them whether or not they were found before.         *)
(***************************************************************************)
EXTENDS Dimension

CONSTANTS
  Calls,  \* calls of descendants, each made at most once
  Saves   \* calls of save_dimension_value, each made at most once

VARIABLES
  rows,   \* the dimension: the parent of each value
  saved,  \* the saves made
  pc,     \* where each call is
  root,   \* the value it expands
  seen,   \* the rows its query sees
  work,   \* what the last round found
  result, \* what all rounds found
  odd     \* whether the number of rounds is odd

callVars == <<pc, root, seen, work, result, odd>>
vars == <<rows, saved, pc, root, seen, work, result, odd>>

TypeOK ==
  /\ rows \in [Values -> Parents] /\ saved \subseteq Saves
  /\ pc \in [Calls -> {"idle", "open", "answered", "failed"}]
  /\ root \in [Calls -> Values]
  /\ seen \in [Calls -> [Values -> Parents]]
  /\ work \in [Calls -> SUBSET Values] /\ result \in [Calls -> SUBSET Values]
  /\ odd \in [Calls -> BOOLEAN]

Init ==
  /\ rows \in [Values -> Parents] /\ saved = {}
  /\ pc = [c \in Calls |-> "idle"]
  /\ root \in [Calls -> Values]
  /\ seen = [c \in Calls |-> rows]
  /\ work = [c \in Calls |-> {}] /\ result = [c \in Calls |-> {}]
  /\ odd = [c \in Calls |-> FALSE]

(* The upsert takes any parent: one without a row, the value itself, a descendant. *)
SaveDimensionValue(s) ==
  /\ s \notin saved
  /\ saved' = saved \cup {s}
  /\ \E v \in Values, p \in Values \cup {NoParent} : rows' = [rows EXCEPT ![v] = p]
  /\ UNCHANGED callVars

Goto(c, step) == pc' = [pc EXCEPT ![c] = step]

Find(c, V, kept) ==
  /\ work' = [work EXCEPT ![c] = V]
  /\ result' = [result EXCEPT ![c] = kept \cup V]

(* The first part of the query finds the row of the value, if it has one. *)
Anchor(c) ==
  /\ pc[c] = "idle"
  /\ Goto(c, "open")
  /\ Find(c, IF rows[root[c]] = Unregistered THEN {} ELSE {root[c]}, {})
  /\ seen' = [seen EXCEPT ![c] = rows]
  /\ UNCHANGED <<rows, saved, root, odd>>

(* Mutant: a round starts from all that was found. *)
RoundAgain(c) ==
  /\ pc[c] = "open" /\ work[c] # {}
  /\ Find(c, result[c] \cup Children(seen[c], work[c]), result[c])
  /\ odd' = [odd EXCEPT ![c] = ~ @]
  /\ UNCHANGED <<rows, saved, pc, root, seen>>

Round(c) ==
  /\ pc[c] = "open" /\ work[c] # {}
  /\ Find(c, Children(seen[c], work[c]), result[c])
  /\ odd' = [odd EXCEPT ![c] = ~ @]
  /\ UNCHANGED <<rows, saved, pc, root, seen>>

(* A value that was not found, having no row, is added to the result. *)
Return(c) ==
  /\ pc[c] = "open" /\ work[c] = {}
  /\ Goto(c, "answered")
  /\ result' = [result EXCEPT ![c] = @ \cup {root[c]}]
  /\ UNCHANGED <<rows, saved, root, seen, work, odd>>

(* The query fails: the connection, a limit of the database. *)
Fail(c) ==
  /\ pc[c] = "open"
  /\ Goto(c, "failed")
  /\ UNCHANGED <<rows, saved, root, seen, work, result, odd>>

Next ==
  \/ \E s \in Saves : SaveDimensionValue(s)
  \/ \E c \in Calls : Anchor(c) \/ Round(c) \/ Return(c) \/ Fail(c)

(* The database goes on with a query it has begun. *)
Fairness == \A c \in Calls : WF_vars(Round(c) \/ Return(c))

Spec == Init /\ [][Next]_vars /\ Fairness

-----------------------------------------------------------------------------
viewBar == [c \in Calls |-> EdgesOf(seen[c])]

answerBar == [c \in Calls |-> IF pc[c] = "answered" THEN result[c] ELSE {}]

C == INSTANCE Closure WITH Nodes <- Values, Queries <- Calls, edges <- EdgesOf(rows),
                           phase <- pc, from <- root, view <- viewBar, answer <- answerBar

(***************************************************************************)
(* expand.rs: descendants answers with all the descendants of the value,   *)
(* and the value, as of one state of the dimension, however the dimension  *)
(* changes meanwhile and whatever rows it has: no value is missing because *)
(* the rounds end early, none is there that is not below the root.         *)
(***************************************************************************)
AnswersTheSubtree == C!Spec

(* The value is its own ancestor: its parents lead back to it. *)
OnCycle(t, v) == \E w \in Values : t[w] = v /\ v \in C!Reachable(EdgesOf(t), w)

(***************************************************************************)
(* A query that the database goes on with ends, unless the value it starts *)
(* from is its own ancestor: a cycle elsewhere in the dimension, or above  *)
(* the value, does no harm.                                                *)
(***************************************************************************)
EndsUnlessOnCycle ==
  \A c \in Calls :
    (pc[c] = "open" /\ ~ OnCycle(seen[c], root[c])) ~> (pc[c] # "open")

(***************************************************************************)
(* expand.rs: a call of descendants gives the descendants: a query that    *)
(* the database goes on with ends.                                         *)
(***************************************************************************)
AlwaysEnds == \A c \in Calls : (pc[c] = "open") ~> (pc[c] # "open")

(***************************************************************************)
(* Why the answer is the subtree, as an inductive invariant: what has been *)
(* found is below the root and has a row, and what is below it and has not *)
(* been found is below the last round.                                     *)
(***************************************************************************)
FoundInv(c) ==
  /\ work[c] \subseteq result[c]
  /\ result[c] \subseteq C!Reachable(EdgesOf(seen[c]), root[c])
  /\ \A v \in result[c] : seen[c][v] # Unregistered
  /\ seen[c][root[c]] # Unregistered => root[c] \in result[c]
  /\ Children(seen[c], result[c] \ work[c]) \subseteq result[c]

ClosureInv == \A c \in Calls : pc[c] = "open" => FoundInv(c)
=============================================================================
