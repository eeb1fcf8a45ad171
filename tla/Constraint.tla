----------------------------- MODULE Constraint -----------------------------
(***************************************************************************)
(* The constraint AST (ir.rs) and the JSON values in it.  A value keeps    *)
(* what the back ends tell apart: its JSON type, the place of its text in  *)
(* the order of texts, and the number the text can be read as.             *)
(***************************************************************************)
EXTENDS Integers, Sequences, SequencesExt

CONSTANT Depth  \* how deep templates nest

ASSUME DepthAssumption == Depth \in Nat

NoNumber == -1

Text(t) == [type |-> "string", text |-> t, num |-> NoNumber]
Numeral(t, n) == [type |-> "string", text |-> t, num |-> n]  \* "07": a string that is also the number n
Number(t, n) == [type |-> "number", text |-> t, num |-> n]
Null == [type |-> "null", text |-> 0, num |-> NoNumber]

IsNum(v) == v.num # NoNumber
IsString(v) == v.type = "string"

True == [kind |-> "true"]
False == [kind |-> "false"]
AllOf(items) == [kind |-> "and", items |-> items]
AnyOf(items) == [kind |-> "or", items |-> items]
Negation(item) == [kind |-> "not", item |-> item]
Cmp(field, op, value) == [kind |-> "cmp", field |-> field, op |-> op, value |-> value]
In(field, values) == [kind |-> "in", field |-> field, values |-> values]
Between(field, lo, hi) == [kind |-> "between", field |-> field, lo |-> lo, hi |-> hi]
Relation(field, rel, subject) == [kind |-> "relation", field |-> field, rel |-> rel, subject |-> subject]

Types == {"null", "bool", "number", "string", "array", "object", "user", "dim"}
Value == {v \in [type : Types, text : Int, num : Int] : v.type = "null" => v = Null}
Ops == {"Eq", "Ne", "Like", "Lt", "Le", "Gt", "Ge"}

(* The leaves of a tree: constants, tests of values in V, and relations. *)
Constants == {True, False}
Tests(V) ==
  [kind : {"cmp"}, field : STRING, op : Ops, value : V]
    \cup [kind : {"in"}, field : STRING, values : Seq(V)]
    \cup [kind : {"between"}, field : STRING, lo : V, hi : V]
Relations(V) == [kind : {"relation"}, field : STRING, rel : STRING, subject : V]
Atoms == Tests(Value) \cup Relations(Value)

(* Tests in SQL, whose values are placeholders. *)
SqlTests == [kind : {"sql"}, column : STRING, op : Ops \cup {"IN", "BETWEEN"}, at : Seq(Nat)]

(* Trees with these leaves, nested at most n deep. *)
Tree(leaves, n) ==
  LET tree[m \in Nat] ==
        IF m = 0 THEN leaves
        ELSE leaves \cup [kind : {"and", "or"}, items : Seq(tree[m - 1])]
                    \cup [kind : {"not"}, item : tree[m - 1]]
  IN tree[n]

Leaves == Constants \cup Atoms \cup SqlTests

(* compose nests templates three deeper, and a handler one more. *)
Trees == Tree(Leaves, Depth + 4)

(* f of each item; concatenated, so that TLC computes it once. *)
Map(f(_), items) == [i \in DOMAIN items |-> f(items[i])] \o << >>
Collect(f(_), items) == FlattenSeq(Map(f, items))

Spread(kind, unit, c) ==
  IF c = unit THEN << >> ELSE IF c.kind = kind THEN c.items ELSE <<c>>

(* The items of a conjunction or disjunction, one level of nesting flattened. *)
Flat(kind, unit, items) == Collect(LAMBDA c : Spread(kind, unit, c), items)

Joined(kind, unit, zero, items) ==
  LET flat == Flat(kind, unit, items) IN
  IF \E i \in DOMAIN items : items[i] = zero THEN zero
  ELSE CASE Len(flat) = 0 -> unit
         [] Len(flat) = 1 -> flat[1]
         [] OTHER -> [kind |-> kind, items |-> flat]

And(items) == Joined("and", True, False, items)
Or(items) == Joined("or", False, True, items)

(* Mutant: constants are negated as any other constraint. *)
NotPlain(item) == IF item.kind = "not" THEN item.item ELSE Negation(item)

Not(item) ==
  CASE item = True -> False
    [] item = False -> True
    [] item.kind = "not" -> item.item
    [] OTHER -> Negation(item)

(* A copy of a tree: atoms replaced, and put together again by And, Or and Not. *)
Rebuild(c, atom) ==
  LET rebuild[x \in Trees] ==
        CASE x.kind = "and" -> And(Map(LAMBDA y : rebuild[y], x.items))
          [] x.kind = "or" -> Or(Map(LAMBDA y : rebuild[y], x.items))
          [] x.kind = "not" -> Not(rebuild[x.item])
          [] x \in Atoms -> atom[x]
          [] OTHER -> x
  IN rebuild[c]

(* What a tree says when the atoms that pass are known. *)
Holds(c, pass) ==
  LET holds[x \in Trees] ==
        \/ x.kind = "true"
        \/ x.kind = "not" /\ ~holds[x.item]
        \/ x.kind = "and" /\ \A i \in DOMAIN x.items : holds[x.items[i]]
        \/ x.kind = "or" /\ \E i \in DOMAIN x.items : holds[x.items[i]]
        \/ x \in Atoms /\ pass[x]
  IN holds[c]

LeavesOf(c) ==
  LET leaves[x \in Trees] ==
        CASE x.kind \in {"and", "or"} -> UNION {leaves[x.items[i]] : i \in DOMAIN x.items}
          [] x.kind = "not" -> leaves[x.item]
          [] OTHER -> {x}
  IN leaves[c]

HasRelation(c) == \E x \in LeavesOf(c) : x.kind = "relation"
=============================================================================
