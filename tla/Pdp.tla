-------------------------------- MODULE Pdp ---------------------------------
(***************************************************************************)
(* The decision a request gets from what the store holds (pdp.rs, and the  *)
(* steps of engine.rs around it): templates filled in for the subject, the *)
(* permits joined and the denies taken away, relations looked up, effect   *)
(* and mask obligations.  Everything here is a function of the tables.     *)
(***************************************************************************)
EXTENDS Constraint

CONSTANTS
  Superadmin, \* the roles of SUPERADMIN_ROLES, as one
  Below(_, _) \* the descendants of a dimension value, and itself (Closure)

Broken == [kind |-> "broken"]  \* a template or a table without a constraint in it
User == [type |-> "user", text |-> 0, num |-> NoNumber]  \* "$user"
Dim(key) == <<[type |-> "dim", text |-> key, num |-> NoNumber]>>  \* ["$dim:key"]
NoDim == 0  \* a grant without a dimension
Templates == Tree(Constants \cup Atoms, Depth)
(* What is saved is read as a template or, by its source, as a decision table that gives *)
(* one: Broken where it is none.  No template is a decision table, nor the other way.    *)
Policy ==
  {p \in [id : Nat, kind : STRING, action : STRING, effect : {"permit", "deny"}, source : {"inline", "table"},
          valid : BOOLEAN, tpl : Templates \cup {Broken}, gives : Templates \cup {Broken}] :
     Broken \in {p.tpl, p.gives}}
Grant == [policy : Nat, principal : STRING \X Value, dim : Int, values : Seq(Value), inherit : BOOLEAN]
Tuple == [field : STRING, rel : STRING, subject : Value, object : Value]
Subject == [user : Value, roles : SUBSET STRING, principals : SUBSET (STRING \X Value)]
IsDim(values) == Len(values) = 1 /\ values[1].type = "dim"

(* A decision table gives the template; where it fails, False does. *)
ResolvePolicy(p) ==
  IF p.source # "table" THEN p
  ELSE [p EXCEPT !.source = "inline", !.tpl = IF p.gives = Broken THEN False ELSE p.gives, !.gives = Broken]

AsText(v) == [v EXCEPT !.type = "string"]

(* The roots granted for a dimension, those inherited with all below them. *)
Granted(related, key, expanded) ==
  UNION {LET roots == {AsText(v) : v \in ToSet(g.values)} IN
         IF g.inherit
         THEN UNION {IF <<key, r>> \in DOMAIN expanded THEN expanded[<<key, r>>] ELSE {r} : r \in roots}
         ELSE roots : g \in {h \in related : h.dim = key /\ h.dim # NoDim}}

Scalar(v, subject) == IF v = User THEN subject.user ELSE v

FillIn(c, related, subject, expanded) ==
  IF ~IsDim(c.values) THEN In(c.field, [i \in DOMAIN c.values |-> Scalar(c.values[i], subject)])
  ELSE LET values == Granted(related, c.values[1].text, expanded) IN
       IF values = {} THEN False ELSE In(c.field, SetToSeq(values))

Subst(c, related, subject, expanded) ==
  Rebuild(c, [x \in Atoms |->
    CASE x.kind = "in" -> FillIn(x, related, subject, expanded)
      [] x.kind = "cmp" -> [x EXCEPT !.value = Scalar(@, subject)]
      [] x.kind = "between" -> Between(x.field, Scalar(x.lo, subject), Scalar(x.hi, subject))
      [] x.kind = "relation" -> x])

Instantiate(tpl, related, subject, expanded) ==
  Subst(IF tpl = Broken THEN False ELSE tpl, related, subject, expanded)

SubjectHit(subject, g) == g.principal \in subject.principals

(* Mutant: a row every deny matches is taken away, and no other. *)
CombineNotAnd(permits, denies) ==
  IF denies = << >> THEN Or(permits) ELSE And(<<Or(permits), Not(And(denies))>>)

(* Or(permits) and not Or(denies). *)
Combine(permits, denies) ==
  IF denies = << >> THEN Or(permits) ELSE And(<<Or(permits), Not(Or(denies))>>)

Matches(p, resource) == p.kind = resource.kind /\ p.action = resource.action

(* The trace names the policies that matched: none for a superadmin, who is served without them. *)
MatchedPolicies(subject, resource, policies) ==
  {p.id : p \in {q \in ToSet(policies) : Matches(q, resource) /\ Superadmin \notin subject.roles}}

(* policies is a sequence, the highest priority first. *)
Compose(subject, resource, policies, grants, expanded) ==
  LET related(p) == {g \in grants : g.policy = p.id /\ SubjectHit(subject, g)}
      of(effect) ==
        Collect(LAMBDA p : IF Matches(p, resource) /\ p.effect = effect
                           THEN <<Instantiate(p.tpl, related(p), subject, expanded)>> ELSE << >>, policies)
  IN IF Superadmin \in subject.roles THEN True
     ELSE IF of("permit") = << >> THEN False
     ELSE Combine(of("permit"), of("deny"))

LookupResources(tuples, field, rel, user) ==
  {t.object : t \in {u \in tuples : u.field = field /\ u.rel = rel /\ u.subject = user}}

ResolveRelations(c, tuples, subject) ==
  Rebuild(c, [x \in Atoms |->
    IF x.kind = "relation"
    THEN In(x.field, SetToSeq(LookupResources(tuples, x.field, x.rel, Scalar(x.subject, subject))))
    ELSE x])

EffectOf(c) == CASE c = True -> "permit" [] c = False -> "deny" [] OTHER -> "permitWithConstraint"

(* Mutant: a condition that cannot be evaluated does not mask. *)
MasksIfTrue(rule, subject) == rule.exempt \notin subject.roles /\ rule.condition[subject.user] \in {"none", "true"}

(* A rule masks unless the subject is exempt or its condition says no; an error masks. *)
Masks(rule, subject) == rule.exempt \notin subject.roles /\ rule.condition[subject.user] # "false"

Obligations(rules, resource, subject) ==
  Collect(LAMBDA r : IF r.kind = resource.kind /\ Masks(r, subject)
                     THEN <<[column |-> r.column, mask |-> r.mask, keep |-> r.keep]>> ELSE << >>, rules)

(* decide, with the caches off. *)
Decision(subject, resource, policies, grants, tuples, rules) ==
  LET loaded == {g \in grants : SubjectHit(subject, g)}
      keys == UNION {{<<g.dim, AsText(v)>> : v \in ToSet(g.values)} : g \in {h \in loaded : h.inherit /\ h.dim # NoDim}}
      expanded == [k \in keys |-> Below(k[1], k[2])]
      resolved == Map(ResolvePolicy, policies)
      c == ResolveRelations(Compose(subject, resource, resolved, loaded, expanded), tuples, subject)
  IN [effect |-> EffectOf(c), constraint |-> c,
      matched |-> MatchedPolicies(subject, resource, resolved),
      obligations |-> IF EffectOf(c) = "deny" THEN << >> ELSE Obligations(rules, resource, subject)]
=============================================================================
