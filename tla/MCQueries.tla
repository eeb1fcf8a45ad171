----------------------------- MODULE MCQueries -----------------------------
(***************************************************************************)
(* A small instance of the two recursive queries of the store for TLC:     *)
(* Usersets and Expander.  They read tables of their own and share no      *)
(* state, so each is explored alone, with the other at rest.               *)
(***************************************************************************)
EXTENDS Usersets, Dimension

CONSTANTS
  u1, g1, g2, o1, viewer,
  Expansions, \* calls of descendants
  Saves

VARIABLES
  query,  \* which of the two is explored
  rows, saved, stage, root, shown, work, result, odd  \* those of Expander

expanderVars == <<rows, saved, stage, root, shown, work, result, odd>>

E == INSTANCE Expander WITH Calls <- Expansions, pc <- stage, seen <- shown

Tuple(s, r, o) == [subject |-> s, relation |-> r, object |-> o]

(* A user's group and a group nested either way, a relation to an object and to a group. *)
MCTuples ==
  {Tuple(u1, Member, g1), Tuple(g1, Member, g2), Tuple(g2, Member, g1),
   Tuple(u1, viewer, o1), Tuple(g2, viewer, o1), Tuple(g1, viewer, g2)}

(* What decide asks for a user, and what the lookup handler may ask for a group. *)
MCAsks ==
  [subject : {u1}, relation : {viewer}, kind : {"other", "group"}] \cup
  [subject : {u1, g1}, relation : {Member}, kind : {"group"}] \cup
  [subject : {g1}, relation : {viewer}, kind : {"other"}]

(* At rest: a table without rows, and the calls not yet made. *)
ExpanderRests ==
  /\ E!Init
  /\ rows = [v \in Values |-> Unregistered]
  /\ \A c \in Expansions : root[c] = CHOOSE v \in Values : TRUE

UsersetsRest ==
  /\ Init
  /\ tuples = [i \in TupleIds |-> NoTuple]
  /\ \A c \in Calls : asked[c] = CHOOSE a \in Asks : TRUE

MCInit ==
  \/ query = "descendants" /\ E!Init /\ UsersetsRest
  \/ query = "lookup" /\ Init /\ ExpanderRests

MCNext ==
  /\ query' = query
  /\ \/ query = "descendants" /\ E!Next /\ UNCHANGED vars
     \/ query = "lookup" /\ Next /\ UNCHANGED expanderVars

(* The fairness of both: the database goes on with a query it has begun. *)
MCSpec == MCInit /\ [][MCNext]_<<query, vars, expanderVars>> /\ Fairness /\ E!Fairness

(***************************************************************************)
(* expand.rs: descendants answers with all the descendants of the value,   *)
(* and the value, as of one state of the dimension (see Expander).         *)
(***************************************************************************)
AnswersTheSubtree == E!AnswersTheSubtree

(***************************************************************************)
(* expander.rs: a query that the database goes on with ends, unless the    *)
(* value it starts from is its own ancestor (see Expander).                *)
(***************************************************************************)
EndsUnlessOnCycle == E!EndsUnlessOnCycle
=============================================================================
