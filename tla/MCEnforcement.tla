---------------------------- MODULE MCEnforcement ----------------------------
(***************************************************************************)
(* Small instances of Enforcement for TLC: vouchers with an organisation,  *)
(* an owner, an amount and a phone number.  Org 1 is above org 2.          *)
(***************************************************************************)
EXTENDS Enforcement, FiniteSets

\* texts in their order: numerals first, then letters
Org1 == Numeral(11, 1)
Org2 == Numeral(12, 2)
Org3 == Numeral(13, 3)
Ann == Text(21)
Bob == Text(22)
Key(i) == Number(i, i)
Amount(n) == Number(n, n)
Phone(n) == Text(30 + n)  \* of n characters
Orgs == 1  \* the key of the dimension

MCBelow(key, v) == IF v = Org1 THEN {Org1, Org2} ELSE {v}

MCLengthOf(v) == IF v = Phone(7) THEN 7 ELSE 11

Row(id, org, owner, amount) ==
  ("id" :> Key(id)) @@ ("ou_id" :> org) @@ ("owner" :> owner) @@ ("amount" :> Amount(amount)) @@ 
  ("phone" :> Phone(IF id = 2 THEN 7 ELSE 11))

MCRowOf == <<Row(1, Org1, Ann, 5), Row(2, Org2, Bob, 3), Row(3, Org3, Ann, 3), Row(4, Org3, Bob, 5)>>
MCLikes == {<<21, 40>>}

Voucher(action) ==
  [kind |-> "voucher", action |-> action, bindings |-> ("org" :> "ou_id"),
   rowCtx |-> {"id", "owner", "amount"}]
MCResources == {Voucher("read"), Voucher("delete")}

Person(user, roles, principals) ==
  [user |-> user, roles |-> roles, principals |-> {<<"USER", user>>} \cup principals]
MCSubjects ==
  {Person(Ann, {}, {}), Person(Bob, {"auditor"}, {<<"ORG", Org3>>}), Person(Ann, {Superadmin}, {})}

Saved(id, action, effect, tpl) ==
  [id |-> id, kind |-> "voucher", action |-> action, effect |-> effect, source |-> "inline", valid |-> TRUE,
   tpl |-> tpl, gives |-> Broken]
Table(p, tpl) == [p EXCEPT !.source = "table", !.tpl = Broken, !.gives = tpl]
Closed(p) == [p EXCEPT !.valid = FALSE]

Own == Cmp("owner", "Eq", User)
InOrgs == In("ou_id", Dim(Orgs))
Small == Between("amount", Amount(1), Amount(4))
Viewed == Relation("id", "viewer", User)

(* Nested, with a constant left where a dimension is not granted. *)
Nested == AllOf(<<AllOf(<<Own, Cmp("amount", "Gt", Amount(3))>>), Negation(AllOf(<<InOrgs, Small>>))>>)

InOrgsOrViewed == AnyOf(<<Viewed, InOrgs>>)
SmallOrLike == AnyOf(<<Small, Cmp("owner", "Like", Text(40))>>)
NoPhoneOfAnn == AllOf(<<Negation(Viewed), Cmp("phone", "Ne", Ann)>>)  \* phone is not for SQL

MCPolicies ==
  <<{Saved(1, "read", "permit", t) : t \in {InOrgs, Nested, Negation(Viewed), NoPhoneOfAnn}},
    {Saved(2, "read", "deny", InOrgsOrViewed), Saved(2, "read", "deny", Nested),
     Table(Saved(2, "read", "permit", Broken), Broken),
     Saved(2, "delete", "permit", AllOf(<<AnyOf(<<Own, In("ou_id", <<Org2, Org3>>)>>),
                                          Cmp("amount", "Le", Amount(3))>>)),
     Saved(2, "delete", "deny", True)},
    {Table(Saved(3, "read", "deny", Broken), SmallOrLike), Saved(3, "read", "deny", Broken),
     Saved(3, "read", "permit", Nested), Closed(Saved(3, "read", "deny", InOrgs))}>>

MCGrants ==
  {[policy |-> 1, principal |-> <<"USER", Ann>>, dim |-> Orgs, values |-> <<Org1>>, inherit |-> TRUE],
   [policy |-> 2, principal |-> <<"ORG", Org3>>, dim |-> Orgs, values |-> <<Number(11, 1), Org3>>, inherit |-> FALSE]}

(* Ann may view row 4. *)
MCTuples == {[field |-> "id", rel |-> "viewer", subject |-> Ann, object |-> Numeral(4, 4)]}

(* A condition that fails, and one that is false for Ann alone. *)
Always == (Ann :> "none") @@ (Bob :> "none")
Fails == (Ann :> "error") @@ (Bob :> "error")
NotAnn == (Ann :> "false") @@ (Bob :> "true")

MaskPhone(mask, keep, exempt, condition) ==
  [kind |-> "voucher", column |-> "phone", mask |-> mask, keep |-> keep, exempt |-> exempt, condition |-> condition]

(* A usize has 2^5 values: the numbers 31 and 3 add up to 2. *)
MCMaskRules ==
  <<{MaskPhone("partial", <<3, 4>>, "auditor", Fails), MaskPhone("hide", <<3, 4>>, "none", NotAnn)},
    {MaskPhone("partial", <<31, 3>>, "none", NotAnn), MaskPhone("hash", <<3, 4>>, "auditor", Always)}>>

(* The instance in which a column is null in one row, and missing in another, *)
(* and a number is written in two ways: 01 comes before 1 in the order of texts. *)
NullRows == <<Row(1, Org1, Null, 5), Hide(Row(2, Org2, Bob, 3), "owner"), Row(3, Org3, Bob, 5)>>
NullPolicies ==
  <<{Saved(1, "read", "permit", t) : t \in {Cmp("owner", "Ne", Bob), Cmp("ou_id", "Eq", Numeral(10, 1))}}>>

(* The instance in which a deny policy's decision table gives no constraint. *)
TablePolicies == <<{Saved(1, "read", "permit", True)}, {Table(Saved(2, "read", "deny", Broken), Broken)}>>

(* The instance of the overlap: a deny of True that is not in force, one that is saved *)
(* as a decision table, and a permit that may be on the page of two policies or not.   *)
OverlapPolicies ==
  <<{Closed(Saved(1, "read", "deny", True))}, {[Saved(2, "read", "deny", True) EXCEPT !.source = "table"]},
    {Saved(3, "read", "permit", Own)}>>
OrdinarySubjects == {s \in MCSubjects : Superadmin \notin s.roles}
=============================================================================
