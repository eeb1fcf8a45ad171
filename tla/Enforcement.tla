----------------------------- MODULE Enforcement -----------------------------
(***************************************************************************)
(* The data plane over the tables it reads: decide, compile, enforce and   *)
(* the guarded demo routes (handlers.rs, engine.rs, pep.rs), against the   *)
(* handlers that write policies, grants, relation tuples and mask rules.   *)
(* One request at a time, with the caches off and the store answering:     *)
(* DecideEngine has the interleavings and the failures, and this module    *)
(* what a decision says and what is made of it.                            *)
(***************************************************************************)
EXTENDS Pdp, Backends

CONSTANTS
  Policies,    \* the policies that can be saved, by id: 1 has the highest priority
  Listed,      \* the longest page of a listing, 500 in the code
  Grants,      \* grants that can be saved
  MaxGrants,
  Tuples,      \* relation tuples, nested groups resolved (Usersets)
  MaskRules,   \* the mask rules that can be saved, by id, with the outcome of their condition by user
  Subjects,
  Resources,
  RowNames,
  RowOf        \* what a row holds, its key in column "id"

ASSUME PoliciesAssumption ==
  /\ Listed \in Nat
  /\ Policies \in Seq(SUBSET Policy)
  /\ \A i \in DOMAIN Policies : \A p \in Policies[i] : p.id = i

ASSUME GrantsAssumption ==
  /\ MaxGrants \in Nat
  /\ Grants \subseteq Grant
  /\ \A g \in Grants : \A v \in ToSet(g.values) :
       IsFiniteSet(Below(g.dim, AsText(v))) /\ Below(g.dim, AsText(v)) \subseteq Value

ASSUME SubjectsAssumption == Subjects \subseteq Subject /\ Tuples \subseteq Tuple

ASSUME MaskRulesAssumption ==
  MaskRules \in Seq(SUBSET [kind : STRING, column : STRING, mask : {"full", "partial", "hash", "hide"},
                            keep : (0..Word-1) \X (0..Word-1), exempt : STRING,
                            condition : [{s.user : s \in Subjects} -> {"none", "true", "false", "error"}]])

ASSUME ResourcesAssumption == \A res \in Resources : Range(res.bindings) \subseteq STRING

(* A text fills at most half of the address space. *)
ASSUME RowsAssumption ==
  \A k \in RowNames :
    /\ RowOf[k] \in [DOMAIN RowOf[k] -> Value] /\ DOMAIN RowOf[k] \subseteq STRING /\ "id" \in DOMAIN RowOf[k]
    /\ RowOf[k]["id"] # Null
    /\ \A column \in DOMAIN RowOf[k] :
         LET n == LengthOf(RowOf[k][column]) IN n \in Nat /\ 2 * n < Word

VARIABLES policies, grants, tuples, rules, response

tables == <<policies, grants, tuples, rules>>
vars == <<policies, grants, tuples, rules, response>>

None == [of |-> "none"]
Done == [of |-> "admin"]
NoPolicy == [id |-> 0, kind |-> "none", action |-> "none", effect |-> "permit", source |-> "inline",
             valid |-> FALSE, tpl |-> False, gives |-> Broken]
NoGrant == [policy |-> 0, principal |-> <<"USER", Null>>, dim |-> NoDim, values |-> << >>, inherit |-> FALSE]
NoRule == [kind |-> "none", column |-> "none", mask |-> "full", keep |-> <<0, 0>>,
           exempt |-> "none", condition |-> << >>]

Init ==
  /\ policies = [i \in DOMAIN Policies |-> NoPolicy]
  /\ grants = [i \in 1..MaxGrants |-> NoGrant]
  /\ tuples = {}
  /\ rules = [i \in DOMAIN MaskRules |-> NoRule]
  /\ response = None

(* One request at a time. *)
Idle == response = None

(*-------------------------- the handlers that write ----------------------*)
Admin == Idle /\ response' = Done

SavePolicy(i, p) ==
  /\ Admin
  /\ policies' = [policies EXCEPT ![i] = p]
  /\ UNCHANGED <<grants, tuples, rules>>

DeletePolicy(i) ==
  /\ Admin
  /\ policies' = [policies EXCEPT ![i] = NoPolicy]
  /\ UNCHANGED <<grants, tuples, rules>>

SaveGrant(i, g) ==
  /\ Admin
  /\ grants' = [grants EXCEPT ![i] = g]
  /\ UNCHANGED <<policies, tuples, rules>>

DeleteGrant(i) ==
  /\ Admin
  /\ grants' = [grants EXCEPT ![i] = NoGrant]
  /\ UNCHANGED <<policies, tuples, rules>>

SaveTuple(t) == Admin /\ tuples' = tuples \cup {t} /\ UNCHANGED <<policies, grants, rules>>
DeleteTuple(t) == Admin /\ tuples' = tuples \ {t} /\ UNCHANGED <<policies, grants, rules>>

SaveMaskRule(i, r) ==
  /\ Admin
  /\ rules' = [rules EXCEPT ![i] = r]
  /\ UNCHANGED <<policies, grants, tuples>>

DeleteMaskRule(i) ==
  /\ Admin
  /\ rules' = [rules EXCEPT ![i] = NoRule]
  /\ UNCHANGED <<policies, grants, tuples>>

(*-------------------------- the handlers that read -----------------------*)
(* Those whose validity window is open; one that closes is as if it was saved with another. *)
LoadPolicies == Collect(LAMBDA p : IF p.valid THEN <<p>> ELSE << >>, policies)

Decided(s, res) == Decision(s, res, LoadPolicies, ToSet(grants), tuples, rules)

Respond(r) == response' = r /\ UNCHANGED tables

Decide(s, res) ==
  Idle /\ Respond([of |-> "decide", subject |-> s, resource |-> res, decision |-> Decided(s, res)])

Refused == [of |-> "refused"]

Compile(s, res, backend) ==
  Idle /\ \E d \in {Decided(s, res)} : \E where \in {SqlWhere(d.constraint, res)} :
    LET compiles == IF backend = "sql" THEN where.ok ELSE ~HasRelation(d.constraint)
    IN Respond(IF backend \notin {"sql", "rowfilter", "es"} \/ ~compiles THEN Refused
               ELSE [of |-> "compile", subject |-> s, resource |-> res, decision |-> d,
                     backend |-> backend, where |-> where])

(* A decision in words: the policies that matched, or that none did and all is refused. *)
Explain(s, res) ==
  Idle /\ \E d \in {Decided(s, res)} :
    Respond([of |-> "explain", subject |-> s, resource |-> res, decision |-> d,
             reason |-> IF d.matched = {} THEN "refused" ELSE "matched"])

(* One page of all policies, open or not, in the order of their priority: their ids. *)
ListPolicies(limit) ==
  LET saved == {i \in DOMAIN policies : policies[i] # NoPolicy}
  IN {i \in saved : Cardinality({j \in saved : j <= i}) <= limit}

(* Mutant: a policy that refuses another action counts. *)
PolicyOverlapOfKind(res) ==
  LET of(effect) == {i \in ListPolicies(Listed) : policies[i].kind = res.kind /\ policies[i].effect = effect}
  IN Idle /\ Respond([of |-> "overlap", resource |-> res, permits |-> Cardinality(of("permit")),
                      refusing |-> {i \in of("deny") : policies[i].tpl = True}])

(* How many permits a page has, and which of its denies are saved as True. *)
PolicyOverlap(res) ==
  LET of(effect) == {i \in ListPolicies(Listed) : Matches(policies[i], res) /\ policies[i].effect = effect}
  IN Idle /\ Respond([of |-> "overlap", resource |-> res, permits |-> Cardinality(of("permit")),
                      refusing |-> {i \in of("deny") : policies[i].tpl = True}])

(* Rows are filtered, then masked; a panic ends the request without them. *)
Enforce(s, res) ==
  Idle /\ \E d \in {Decided(s, res)} :
    LET kept == {k \in RowNames : Keeps(d.constraint, RowOf[k])}
        masked == [k \in kept |-> ApplyMasks(RowOf[k], d.obligations)]
        panics == \E k \in kept : \E column \in DOMAIN masked[k] : masked[k][column] = Panicked
    IN Respond(IF HasRelation(d.constraint) \/ panics THEN Refused
               ELSE [of |-> "enforce", subject |-> s, resource |-> res, kept |-> masked])

(* The middleware knows the user and the roles of a token, no organisations or posts. *)
CurrentSubject(s) == [s EXCEPT !.principals = {p \in @ : p[1] \in {"USER", "ROLE"}}]

(* The guard's decision, and the scope it hands on: the SQL of its constraint, and the *)
(* obligations, which the handlers here only report.                                   *)
Scopes(s, res) ==
  {[effect |-> d.effect, where |-> SqlWhere(d.constraint, res), obligations |-> d.obligations] :
     d \in {Decided(CurrentSubject(s), res)}}

(* The guard, and behind it a handler that makes a statement of the scope. *)
Guarded(s, res, scope, statement) ==
  Respond(IF scope.effect = "deny" THEN [of |-> "forbidden", subject |-> s, resource |-> res]
          ELSE IF ~scope.where.ok THEN Refused
          ELSE [of |-> "guarded", subject |-> s, resource |-> res, statement |-> statement])

DemoVouchers(s, res) ==
  Idle /\ res.action = "read" /\ \E scope \in Scopes(s, res) :
    Guarded(s, res, scope, [only |-> RowNames, sql |-> scope.where.sql, params |-> scope.where.params])

(* Mutant: a handler numbers its placeholders as if the scope had none. *)
ByKeyFirst(params) == [kind |-> "sql", op |-> "Eq", column |-> "id", at |-> <<1>>]

(* The handler's own test: its value comes behind those of the scope. *)
ByKey(params) == [kind |-> "sql", op |-> "Eq", column |-> "id", at |-> <<Len(params) + 1>>]

DemoDeleteVoucher(s, res, k) ==
  Idle /\ res.action = "delete" /\ \E scope \in Scopes(s, res) :
    LET params == scope.where.params
    IN Guarded(s, res, scope, [only |-> {k}, sql |-> AllOf(<<scope.where.sql, ByKey(params)>>),
                               params |-> Append(params, RowOf[k]["id"])])

(* The caller has its response. *)
Receive == response # None /\ response' = None /\ UNCHANGED tables

Write ==
  \/ \E i \in DOMAIN Policies : (\E p \in Policies[i] : SavePolicy(i, p)) \/ DeletePolicy(i)
  \/ \E i \in 1..MaxGrants : (\E g \in Grants : SaveGrant(i, g)) \/ DeleteGrant(i)
  \/ \E t \in Tuples : SaveTuple(t) \/ DeleteTuple(t)
  \/ \E i \in DOMAIN MaskRules : (\E r \in MaskRules[i] : SaveMaskRule(i, r)) \/ DeleteMaskRule(i)

Read ==
  \E s \in Subjects, res \in Resources :
    \/ Decide(s, res) \/ Explain(s, res) \/ Enforce(s, res) \/ DemoVouchers(s, res) \/ PolicyOverlap(res)
    \/ \E backend \in {"sql", "rowfilter", "es", "other"} : Compile(s, res, backend)
    \/ \E k \in RowNames : DemoDeleteVoucher(s, res, k)

Next == Write \/ Read \/ Receive

Spec == Init /\ [][Next]_vars

------------------------------------------------------------------------------
(* No constant and no conjunction in a conjunction, and so on. *)
Normal(c) ==
  LET normal[x \in Trees] ==
        \/ x.kind \notin {"and", "or", "not"}
        \/ x.kind = "not" /\ x.item.kind \notin {"not", "true", "false"} /\ normal[x.item]
        \/ /\ x.kind \in {"and", "or"} /\ Len(x.items) >= 2
           /\ \A i \in DOMAIN x.items : x.items[i].kind \notin {x.kind, "true", "false"} /\ normal[x.items[i]]
  IN normal[c]

(***************************************************************************)
(* Type correctness: what the tables and a response hold.  The constraint  *)
(* a decision ends with has no relation left in it, and is in the normal   *)
(* form that the smart constructors of ir.rs describe.                     *)
(***************************************************************************)
TypeOK ==
  /\ \A i \in DOMAIN Policies : policies[i] \in Policies[i] \cup {NoPolicy}
  /\ \A i \in 1..MaxGrants : grants[i] \in Grants \cup {NoGrant}
  /\ \A i \in DOMAIN MaskRules : rules[i] \in MaskRules[i] \cup {NoRule}
  /\ tuples \subseteq Tuples
  /\ response.of \in {"none", "admin", "decide", "explain", "overlap", "compile", "enforce", "guarded",
                      "forbidden", "refused"}
  /\ response.of \in {"decide", "explain", "compile"} =>
       Normal(response.decision.constraint) /\ ~HasRelation(response.decision.constraint)

(* The values a grant of policy p gives subject s in a dimension. *)
InDimension(p, s, key, v) ==
  \E g \in ToSet(grants) :
    /\ g.policy = p.id /\ g.principal \in s.principals /\ g.dim = key /\ g.dim # NoDim
    /\ \E root \in ToSet(g.values) :
         \E x \in IF g.inherit THEN Below(key, AsText(root)) ELSE {AsText(root)} : JsonEq(x, v)

(* What a template says of a row, read as it was written. *)
Says(c, p, s, row) ==
  LET of(v) == IF v = User THEN s.user ELSE v
      test(d) == d.field \in DOMAIN row /\ TestKeeps(d, row[d.field])
  IN Holds(c, [x \in Atoms |->
       \/ x.kind = "relation" /\ x.field \in DOMAIN row
          /\ \E t \in tuples : /\ t.field = x.field /\ t.rel = x.rel /\ t.subject = of(x.subject)
                               /\ JsonEq(t.object, row[x.field])
       \/ x.kind = "in" /\ IF IsDim(x.values)
                           THEN x.field \in DOMAIN row /\ InDimension(p, s, x.values[1].text, row[x.field])
                           ELSE test([x EXCEPT !.values = [i \in DOMAIN @ |-> of(@[i])]])
       \/ x.kind = "cmp" /\ test([x EXCEPT !.value = of(@)])
       \/ x.kind = "between" /\ test(Between(x.field, of(x.lo), of(x.hi)))])

(* What a policy says: the template saved, or the one its decision table gives. *)
Body(p) == IF p.source = "table" THEN p.gives ELSE p.tpl

SaidBy(effect, s, res, row) ==
  \E i \in DOMAIN Policies :
    /\ policies[i].kind = res.kind /\ policies[i].action = res.action /\ policies[i].effect = effect
    /\ policies[i].valid
    /\ Body(policies[i]) # Broken /\ Says(Body(policies[i]), policies[i], s, row)

(* The rows the policies give a subject. *)
Given(s, res) ==
  {k \in RowNames : \/ Superadmin \in s.roles
                     \/ (SaidBy("permit", s, res, RowOf[k]) /\ ~SaidBy("deny", s, res, RowOf[k]))}

(***************************************************************************)
(* Filling in, joining, looking up and simplifying change no row: enforce  *)
(* keeps exactly the rows that some permit and no deny says, each policy   *)
(* read as it was written, and a guarded route is refused when there are   *)
(* none by the shape of the policies.                                      *)
(***************************************************************************)
EnforcedExactly ==
  /\ response.of = "enforce" => DOMAIN response.kept = Given(response.subject, response.resource)
  /\ response.of = "forbidden" => Given(CurrentSubject(response.subject), response.resource) = {}

Shows(statement) == {k \in statement.only : PgEval(statement.sql, statement.params, RowOf[k]) = 2}

(***************************************************************************)
(* A guarded route reads or deletes, of the rows it is about, exactly      *)
(* those, also where the statement has a parameter of its own behind the   *)
(* ones of the scope (handlers.rs).                                        *)
(***************************************************************************)
GuardedExactly ==
  response.of = "guarded" =>
    Shows(response.statement) =
      response.statement.only \cap Given(CurrentSubject(response.subject), response.resource)

(***************************************************************************)
(* Nothing that a rule masks leaves enforce in the clear, unless the       *)
(* subject has the exempt role or the rule's condition is known to be      *)
(* false: a condition that fails masks (engine.rs).  At least a character  *)
(* is hidden, and no more are shown than the rule keeps (mask.rs), also    *)
(* where the numbers it keeps are too large to be added.                   *)
(***************************************************************************)
Hides(rule, value) ==
  /\ value.type = "masked" /\ value.shown # 1..value.len
  /\ value.shown = {} \/ (rule.mask = "partial" /\ Cardinality(value.shown) <= rule.keep[1] + rule.keep[2])

NothingInClear ==
  response.of = "enforce" =>
    \A k \in DOMAIN response.kept : \A i \in DOMAIN rules :
      LET r == rules[i] IN
      \/ r.kind # response.resource.kind \/ r.exempt \in response.subject.roles \/ r.condition[response.subject.user] = "false"
      \/ r.column \notin DOMAIN response.kept[k]
      \/ r.mask # "hide" /\ (response.kept[k][r.column] = Null \/ Hides(r, response.kept[k][r.column]))

(***************************************************************************)
(* One decision, enforced in many places (engine.rs, enforce): whichever   *)
(* back end has compiled the constraint, the same rows are let through.    *)
(***************************************************************************)
BackendsAgree ==
  response.of = "compile" =>
    LET c == response.decision.constraint
        where == response.where
    IN \A k \in RowNames :
         /\ Keeps(c, RowOf[k]) = EsMatches(c, RowOf[k])
         /\ where.ok => (Keeps(c, RowOf[k]) <=> PgEval(where.sql, where.params, RowOf[k]) = 2)

(* All that a compiled constraint tests is comparable in all rows. *)
CompilesComparable ==
  response.of = "compile" =>
    \A k \in RowNames : AllComparable(response.decision.constraint, response.resource, RowOf[k])

(* All that the scope of a guarded route tests is comparable in all rows. *)
GuardsComparable ==
  response.of = "guarded" =>
    \A k \in RowNames :
      AllComparable(Decided(CurrentSubject(response.subject), response.resource).constraint, response.resource, RowOf[k])

(***************************************************************************)
(* What the diagnoses say of a subject without the superadmin role is so   *)
(* (handlers.rs, explain and policy_overlap).  Explained as refused, or    *)
(* found to be of a kind and action without a permit, or with a deny that  *)
(* refuses all, over every permit: the policies give the subject no row.   *)
(***************************************************************************)
DiagnosesHold ==
  /\ response.of = "explain" /\ response.reason = "refused" =>
       Superadmin \in response.subject.roles \/ Given(response.subject, response.resource) = {}
  /\ response.of = "overlap" /\ (response.permits = 0 \/ response.refusing # {}) =>
       \A s \in Subjects : Superadmin \in s.roles \/ Given(s, response.resource) = {}

(* An overlap of all that is saved, whose denies of True are in force and no tables. *)
OverlapSeesAll ==
  response.of = "overlap" =>
    /\ Cardinality({i \in DOMAIN Policies : policies[i] # NoPolicy}) <= Listed
    /\ \A i \in response.refusing : policies[i].valid /\ policies[i].source = "inline"

(* The policies that cannot be evaluated: no template, or a table that gives none. *)
Failing(res) ==
  {i \in DOMAIN Policies : policies[i].kind = res.kind /\ policies[i].action = res.action
                          /\ policies[i].valid /\ Body(policies[i]) = Broken}

(***************************************************************************)
(* A policy that cannot be evaluated fails closed (policy_source.rs): it   *)
(* shows no row that it could have hidden, had it been evaluated.          *)
(***************************************************************************)
FailsClosed ==
  response.of = "enforce" /\ Superadmin \notin response.subject.roles =>
    (DOMAIN response.kept # {} =>
       \A i \in Failing(response.resource) : policies[i].effect # "deny")
=============================================================================
