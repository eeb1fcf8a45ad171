------------------------------ MODULE Closure ------------------------------
(***************************************************************************)
(* What the two recursive queries of the store promise: the descendants of *)
(* a dimension value (expand.rs) and the groups a subject belongs to, over *)
(* any number of hops (store.rs, lookup_resources).  Both are the nodes    *)
(* reachable over the edges that one snapshot of the table has, with the   *)
(* node asked for; a query may fail instead, and the table may change      *)
(* while it runs.                                                          *)
(***************************************************************************)
CONSTANTS
  Nodes,
  Queries  \* calls of the query, each made at most once

VARIABLES
  edges,   \* the table: pairs of nodes
  phase,   \* where each query is
  from,    \* the node it asks for
  view,    \* the edges it sees
  answer   \* what it answered

vars == <<edges, phase, from, view, answer>>

Edges == SUBSET (Nodes \X Nodes)

Closed(S, E) == \A x, y \in Nodes : <<x, y>> \in E /\ x \in S => y \in S

(* The nodes reachable from n, and n: what every closed set with n has. *)
Reachable(E, n) == {x \in Nodes : \A S \in SUBSET Nodes : n \in S /\ Closed(S, E) => x \in S}

Init ==
  /\ edges \in Edges
  /\ phase = [q \in Queries |-> "idle"]
  /\ from \in [Queries -> Nodes]
  /\ view \in [Queries -> Edges]
  /\ answer = [q \in Queries |-> {}]

Change ==
  /\ edges' \in Edges
  /\ UNCHANGED <<phase, from, view, answer>>

Ask(q) ==
  /\ phase[q] = "idle"
  /\ phase' = [phase EXCEPT ![q] = "open"]
  /\ view' = [view EXCEPT ![q] = edges]
  /\ UNCHANGED <<edges, from, answer>>

Answer(q) ==
  /\ phase[q] = "open"
  /\ phase' = [phase EXCEPT ![q] = "answered"]
  /\ answer' = [answer EXCEPT ![q] = Reachable(view[q], from[q])]
  /\ UNCHANGED <<edges, from, view>>

Fail(q) ==
  /\ phase[q] = "open"
  /\ phase' = [phase EXCEPT ![q] = "failed"]
  /\ UNCHANGED <<edges, from, view, answer>>

Next == Change \/ \E q \in Queries : Ask(q) \/ Answer(q) \/ Fail(q)

Spec == Init /\ [][Next]_vars
=============================================================================
