------------------------------ MODULE Backends ------------------------------
(***************************************************************************)
(* The three compilers of a constraint (compiler.rs) and the masks         *)
(* (mask.rs).  A row is a function from its columns to values; a column    *)
(* can be missing.  SQL is a tree whose tests name placeholders, and is    *)
(* given a meaning as PostgreSQL does, in three-valued logic: 0 is false,  *)
(* 1 unknown, 2 true.  The Elasticsearch query has the shape of the        *)
(* constraint, so EsMatches is the compiler and Elasticsearch in one.      *)
(***************************************************************************)
EXTENDS Constraint, Mask

CONSTANTS
  Likes,       \* the pairs of text and pattern for which LIKE holds
  LengthOf(_)  \* the number of characters a value is written with

Ordered(op, x, y) ==
  CASE op = "Lt" -> x < y [] op = "Le" -> x <= y [] op = "Gt" -> x > y [] op = "Ge" -> x >= y

(*--------------------------- the row filter ------------------------------*)
JsonEq(a, b) == IF IsNum(a) /\ IsNum(b) THEN a.num = b.num ELSE a = b

CmpApply(op, l, r) ==
  CASE op = "Eq" -> JsonEq(l, r)
    [] op = "Ne" -> ~JsonEq(l, r)
    [] op = "Like" -> IsString(l) /\ IsString(r) /\ <<l.text, r.text>> \in Likes
    [] OTHER -> IF IsNum(l) /\ IsNum(r) THEN Ordered(op, l.num, r.num)
                ELSE IsString(l) /\ IsString(r) /\ Ordered(op, l.text, r.text)

TestKeeps(c, v) ==
  CASE c.kind = "in" -> \E i \in DOMAIN c.values : JsonEq(c.values[i], v)
    [] c.kind = "cmp" -> CmpApply(c.op, v, c.value)
    [] c.kind = "between" -> (\A u \in {v, c.lo, c.hi} : IsNum(u)) /\ c.lo.num <= v.num /\ v.num <= c.hi.num

Keeps(c, row) ==
  Holds(c, [x \in Atoms |-> x.kind # "relation" /\ x.field \in DOMAIN row /\ TestKeeps(x, row[x.field])])

(*------------------------------- SQL -------------------------------------*)
Failed == [ok |-> FALSE, sql |-> False, params |-> << >>]
Emitted(sql, params) == [ok |-> TRUE, sql |-> sql, params |-> params]

(* The columns a resource lets into SQL, and the one a field stands for. *)
AllowFields(resource) == Range(resource.bindings) \cup resource.rowCtx \cup DOMAIN resource.bindings
Phys(field, resource) ==
  IF field \in DOMAIN resource.bindings THEN resource.bindings[field] ELSE field

(* Mutant: the values of an IN all take the first one's place. *)
SamePlaceholder(n, values) == [i \in DOMAIN values |-> n]

Placeholders(n, values) == [i \in DOMAIN values |-> n + i - 1]

(* The items of a conjunction or disjunction, each after the values of those before it. *)
Join(parts, n) ==
  LET join[i \in 0..Len(parts)] ==
        IF i = 0 THEN Emitted(<< >>, << >>)
        ELSE LET done == join[i - 1]
                 e == parts[i][n + Len(done.params)]
             IN IF done.ok /\ e.ok THEN Emitted(Append(done.sql, e.sql), done.params \o e.params) ELSE Failed
  IN join[Len(parts)]

(* A test whose first value takes place n. *)
EmitTest(c, n, resource) ==
  LET test(op, values) ==
        Emitted([kind |-> "sql", column |-> Phys(c.field, resource), op |-> op,
                 at |-> Placeholders(n, values)], values)
  IN IF c.kind = "relation" \/ c.field \notin AllowFields(resource) THEN Failed
     ELSE CASE c.kind = "cmp" -> test(c.op, <<c.value>>)
            [] c.kind = "between" -> test("BETWEEN", <<c.lo, c.hi>>)
            [] c.kind = "in" -> IF c.values = << >> THEN Emitted(False, << >>) ELSE test("IN", c.values)

(* A constraint whose first value takes place n. *)
Emit(c, n, resource) ==
  LET emit[x \in Trees] == [m \in Nat |->
        CASE x.kind \in {"and", "or"} ->
               LET joined == Join([i \in DOMAIN x.items |-> emit[x.items[i]]], m) IN
               IF x.items = << >> THEN Emitted(True, << >>)
               ELSE IF joined.ok THEN Emitted([x EXCEPT !.items = joined.sql], joined.params) ELSE Failed
          [] x.kind = "not" -> LET e == emit[x.item][m] IN
                               IF e.ok THEN Emitted(Negation(e.sql), e.params) ELSE Failed
          [] x \in Atoms -> EmitTest(x, m, resource)
          [] OTHER -> Emitted(x, << >>)]
  IN emit[c][n]

SqlWhere(c, resource) == Emit(c, 1, resource)

Truth(b) == IF b THEN 2 ELSE 0
PgEq(a, b) == IF a.type = "number" /\ b.type = "number" THEN a.num = b.num ELSE a.text = b.text
PgCompare(op, a, b) ==
  CASE op = "Eq" -> PgEq(a, b)
    [] op = "Ne" -> ~PgEq(a, b)
    [] op = "Like" -> <<a.text, b.text>> \in Likes
    [] OTHER -> IF a.type = "number" /\ b.type = "number" THEN Ordered(op, a.num, b.num)
                ELSE Ordered(op, a.text, b.text)
PgTest(op, a, b) == IF Null \in {a, b} THEN 1 ELSE Truth(PgCompare(op, a, b))

PgAnd(S) == IF 0 \in S THEN 0 ELSE IF 1 \in S THEN 1 ELSE 2
PgOr(S) == IF 2 \in S THEN 2 ELSE IF 1 \in S THEN 1 ELSE 0

PgLeaf(x, params, row) ==
  LET value == IF x.column \in DOMAIN row THEN row[x.column] ELSE Null
      tests(op) == {PgTest(op, value, params[x.at[i]]) : i \in DOMAIN x.at}
  IN CASE x.op = "IN" -> PgOr(tests("Eq"))
       [] x.op = "BETWEEN" -> PgAnd({PgTest("Ge", value, params[x.at[1]]), PgTest("Le", value, params[x.at[2]])})
       [] OTHER -> PgOr(tests(x.op))

(* What a query with this WHERE and these parameters finds of a row. *)
PgEval(sql, params, row) ==
  LET eval[x \in Trees] ==
        LET parts == {eval[x.items[i]] : i \in DOMAIN x.items}
        IN CASE x.kind = "true" -> 2
             [] x.kind = "false" -> 0
             [] x.kind = "and" -> PgAnd(parts)
             [] x.kind = "or" -> PgOr(parts)
             [] x.kind = "not" -> 2 - eval[x.item]
             [] OTHER -> PgLeaf(x, params, row)
  IN eval[sql]

(*--------------------------- Elasticsearch -------------------------------*)
EsTest(op, v, value) == v # Null /\ PgCompare(op, v, value)

EsMatches(c, row) ==
  Holds(c, [x \in Atoms |->
    LET has(op, value) == x.field \in DOMAIN row /\ EsTest(op, row[x.field], value) IN
    \/ x.kind = "in" /\ \E i \in DOMAIN x.values : has("Eq", x.values[i])
    \/ x.kind = "between" /\ has("Ge", x.lo) /\ has("Le", x.hi)
    \/ x.kind = "cmp" /\ IF x.op = "Ne" THEN ~has("Eq", x.value) ELSE has(x.op, x.value)])

(*------------------- where the three agree -------------------------------*)
(***************************************************************************)
(* Values that the back ends compare alike: numbers or texts, with texts   *)
(* that are in the order of the numbers where both are read.               *)
(***************************************************************************)
Alike(u, v) ==
  /\ u.type \in {"string", "number"} /\ v.type \in {"string", "number"}
  /\ IsNum(u) <=> IsNum(v)
  /\ "number" \in {u.type, v.type} => IsNum(u)
  /\ IsNum(u) /\ "string" \in {u.type, v.type} =>
       (u.text = v.text <=> u.num = v.num) /\ (u.text < v.text <=> u.num < v.num)

(* A test that the back ends can agree on: of a column that is in the row, by both its names. *)
Comparable(x, res, row) ==
  LET value == row[x.field] IN
  /\ x.field \in DOMAIN row
  /\ Phys(x.field, res) \in DOMAIN row /\ row[Phys(x.field, res)] = value
  /\ x.kind = "cmp" => Alike(value, x.value) /\ (x.op = "Like" => IsString(value) /\ IsString(x.value))
  /\ x.kind = "in" => \A i \in DOMAIN x.values : Alike(value, x.values[i])
  /\ x.kind = "between" => IsNum(value) /\ Alike(value, x.lo) /\ Alike(value, x.hi)

(* The tests of a constraint are ones that the back ends can agree on. *)
AllComparable(c, res, row) == \A x \in LeavesOf(c) \cap Atoms : Comparable(x, res, row)

(*------------------------------- masks -----------------------------------*)
Hide(row, column) == [k \in DOMAIN row \ {column} |-> row[k]]

(* A masked text, its length and what it shows of the value. *)
Masked(n, shown) == [type |-> "masked", text |-> 0, num |-> NoNumber, len |-> n, shown |-> shown]

Panicked == [type |-> "panic"]
Length(v) == IF v.type = "masked" THEN v.len ELSE LengthOf(v)
InClear(v) == IF v.type = "masked" THEN v.shown ELSE 1..Length(v)

MaskPartially(v, keep) ==
  LET mask == Partial(Length(v), keep)
      n == IF Length(v) = 0 THEN 1 ELSE Length(v)  \* an empty text is masked by one character
  IN IF mask.panics THEN Panicked ELSE Masked(n, mask.shown \cap InClear(v))

MaskValue(v, ob) ==
  IF v.type \in {"null", "panic"} THEN v
  ELSE CASE ob.mask = "full" -> Masked(4, {})
         [] ob.mask = "hash" -> Masked(20, {})
         [] ob.mask = "partial" -> MaskPartially(v, ob.keep)

ApplyMask(row, ob) ==
  IF ob.mask = "hide" THEN Hide(row, ob.column)
  ELSE IF ob.column \in DOMAIN row THEN [row EXCEPT ![ob.column] = MaskValue(@, ob)] ELSE row

ApplyMasks(row, obligations) ==
  LET apply[i \in 0..Len(obligations)] == IF i = 0 THEN row ELSE ApplyMask(apply[i - 1], obligations[i])
  IN apply[Len(obligations)]
=============================================================================
