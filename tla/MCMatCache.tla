----------------------------- MODULE MCMatCache -----------------------------
(* Small instances of MatCache for TLC. *)
EXTENDS MatCache, TLC

(* At most MaxEvents writes, refreshes and windows that turn, in every combination. *)
CONSTANT MaxEvents

FewEvents ==
  Cardinality({w \in Writes : wpc[w] # "idle"}) + Cardinality(refreshed) + turns <= MaxEvents

Symmetry == Permutations(Requests) \cup Permutations(Principals)

(* What a finished or failed request, or a finished step of one, left in its locals is *)
(* read by no later step, and only the answer of a finished one by a property.         *)
Live(r) ==
  LET At(steps, v) == IF pc[r] \in steps THEN v ELSE FALSE
      filling == {"list", "grants", "descend", "insert"}
  IN <<pc[r], dict[r], At({"serve", "check"} \cup filling, left[r]),
       At({"check"} \cup filling, who[r]), At(filling, fill[r]), At({"descend"}, todo[r]),
       IF pc[r] = "failed" THEN FALSE ELSE <<answer[r], heard[r]>>>>

LiveView ==
  <<storeVars, cacheVars, writeVars, refreshed, [r \in Requests |-> Live(r)]>>
=============================================================================
