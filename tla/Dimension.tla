----------------------------- MODULE Dimension -----------------------------
(***************************************************************************)
(* The rows of one dimension (store.rs, the data_auth_dimension table): a  *)
(* function that gives each value its parent.                              *)
(***************************************************************************)
CONSTANTS
  Values,       \* values of the dimension
  NoParent,     \* the parent of a row without one
  Unregistered  \* the parent of a value without a row

ASSUME NoValueAssumption ==
  NoParent \notin Values /\ Unregistered \notin Values /\ NoParent # Unregistered

Parents == Values \cup {NoParent, Unregistered}

(* Mutant: the join compares the rows the wrong way round. *)
ChildrenUpwards(t, V) == {v \in Values : \E w \in V : t[w] = v}

(* The values whose rows name one in V as their parent. *)
Children(t, V) == {v \in Values : t[v] \in V}

(* An edge leads from a value with a row to one whose row names it as its parent. *)
EdgesOf(t) ==
  {e \in Values \X Values : t[e[2]] = e[1] /\ t[e[1]] # Unregistered}
=============================================================================
