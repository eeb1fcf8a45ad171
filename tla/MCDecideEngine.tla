--------------------------- MODULE MCDecideEngine ---------------------------
(* Small instances of DecideEngine for TLC. *)
EXTENDS DecideEngine, TLC

(* Requests and writes are interchangeable where no liveness is checked. *)
Symmetry == Permutations(Requests) \cup Permutations(Writes)

(***************************************************************************)
(* States that differ only in locals no later step and no property reads   *)
(* are the same state: the generation and mark of a finished lookup, the   *)
(* root and expansion of a finished loop pass, all of a finished request,  *)
(* whether it was answered or failed.                                      *)
(***************************************************************************)
Live(r) ==
  LET At(steps, v) == IF pc[r] \in steps THEN v ELSE FALSE
      Not(steps, v) == IF pc[r] \in steps THEN FALSE ELSE v
  IN <<Not({"done", "failed"}, pc[r]),
       At({"idle", "lookup", "policies", "grants", "expand", "descget", "descend",
                  "descput", "relations", "masks", "put"}, key[r]),
       At({"lookup", "descget"}, rgen[r]), At({"descget", "descend"}, mark[r]),
       At({"descget", "descend", "descput"}, root[r]), At({"descput"}, found[r]),
       At({"audit"}, upto[r]),
       Not({"done", "failed"}, <<start[r], floor[r], basis[r], since[r], kept[r], asked[r], oldest[r], todo[r]>>)>>

(***************************************************************************)
(* Requests that overlap while the clock stands still, raced by a write;   *)
(* and requests one after the other, which look a relation up, while it    *)
(* runs and the process may crash.                                         *)
(***************************************************************************)
NoRelations ==
  /\ \A r \in Requests : todo[r] \cap Rels = {} /\ \A x \in Rels : basis[r][x] = Unread
  /\ \A e \in decideCache, x \in Rels : e.basis[x] = Unread

RaceOrAge ==
  \/ now = 0 /\ crashes = 0 /\ NoRelations
  \/ wpc \in [Writes -> {"idle"}] /\ Cardinality({r \in Requests : pc[r] \in Active}) <= 1

LiveView ==
  <<sharedVars, wpc, [r \in Requests |-> Live(r)]>>
=============================================================================
