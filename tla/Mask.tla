-------------------------------- MODULE Mask --------------------------------
(***************************************************************************)
(* Partial masking (mask.rs): which characters of a text a mask shows.     *)
(* A pattern says how many to keep at the front and at the end; both are   *)
(* numbers of the machine's width, whose sum and difference wrap in a      *)
(* release build.                                                          *)
(***************************************************************************)
EXTENDS Integers

CONSTANT Word  \* the values of usize: 0..Word-1

ASSUME WordAssumption == Word \in Nat \ {0}

Plus(a, b) == IF a + b >= Word THEN a + b - Word ELSE a + b
Minus(a, b) == IF a < b THEN a - b + Word ELSE a - b

Whole == [panics |-> FALSE, shown |-> {}]  \* all is masked
Panic == [panics |-> TRUE, shown |-> {}]   \* a slice out of range ends the request

(* Mutant: a text with as many characters as are kept is shown. *)
PartialTooMany(n, keep) ==
  IF n < Plus(keep[1], keep[2]) THEN Whole
  ELSE IF keep[1] > n \/ Minus(n, keep[2]) > n THEN Panic
  ELSE [panics |-> FALSE, shown |-> 1..keep[1] \cup (Minus(n, keep[2]) + 1)..n]

(* n characters, of which keep[1] at the front and keep[2] at the end are kept. *)
Partial(n, keep) ==
  IF n <= Plus(keep[1], keep[2]) THEN Whole
  ELSE IF keep[1] > n \/ Minus(n, keep[2]) > n THEN Panic
  ELSE [panics |-> FALSE, shown |-> 1..keep[1] \cup (Minus(n, keep[2]) + 1)..n]
=============================================================================
