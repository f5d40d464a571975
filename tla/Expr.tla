-------------------------------- MODULE Expr --------------------------------
(***************************************************************************)
(* The expressions of the virtual machine: their evaluation over the       *)
(* current rows (vm::exec_condition and the exec_* it calls) and the       *)
(* constant folding that the ON conditions and the SELECT expressions go   *)
(* through first (vm::compact_condition and the compact_* it calls).       *)
(*                                                                         *)
(* An expression is [op |-> "col", tbl, col], a literal [op |-> "lit",     *)
(* type, val], or [op, l, r].  The machine keeps every value as a string;  *)
(* here a value says what the string reads as: nothing (NULL), a number in *)
(* units of 1/Scale (the decimals std::to_string prints), a text, or the   *)
(* words false and true.  The texts are numbered in their order and sort   *)
(* after the digits and before "false".                                    *)
(***************************************************************************)
EXTENDS Integers, FiniteSets

CONSTANTS
  Scale,  \* a number n stands for n / Scale: 10^6 in the code
  Sig     \* the significant digits an ostream prints of a float: 6 in the code

ASSUME ExprAssumption == Scale \in Nat \ {0} /\ Sig \in Nat \ {0}

Null == [k |-> "null", v |-> 0]
Num(n) == [k |-> "num", v |-> n]
Txt(n) == [k |-> "txt", v |-> n]
Bool(b) == [k |-> "bool", v |-> IF b THEN 1 ELSE 0]
Inf(n) == [k |-> "inf", v |-> IF n > 0 THEN 1 ELSE IF n < 0 THEN -1 ELSE 0]
Err == [k |-> "err", v |-> 0]         \* the evaluation throws

Col(t, c) == [op |-> "col", tbl |-> t, col |-> c]
Whole(n) == [op |-> "lit", type |-> "int", val |-> Num(n * Scale)]
Text(n) == [op |-> "lit", type |-> "varchar", val |-> Txt(n)]
Oper(o, x, y) == [op |-> o, l |-> x, r |-> y]

Math == {"add", "sub", "mul", "div"}
Compare == {"eq", "ne", "lt", "le", "gt", "ge"}

-----------------------------------------------------------------------------
(* Numbers. *)

\* n / m to the nearest, halves away from zero (m > 0).
Nearest(n, m) == IF n < 0 THEN -((m - 2 * n) \div (2 * m)) ELSE (2 * n + m) \div (2 * m)

\* The digits of n, none for 0.
Digits(n) == Cardinality({i \in 0..9 : 10^i <= n})

\* What is left of a number after it was printed with Sig significant digits.
Printed[n \in Int] ==
  LET d == Digits(IF n < 0 THEN -n ELSE n)
      p == IF d > Sig THEN 10^(d - Sig) ELSE 1
  IN Nearest(n, p) * p

\* The operation on two numbers, in units of 1/Scale.
Calc(op, a, b) ==
  CASE op = "add" -> a + b
    [] op = "sub" -> a - b
    [] op = "mul" -> Nearest(a * b, Scale)
    [] op = "div" -> IF b < 0 THEN Nearest(-(a * Scale), -b) ELSE Nearest(a * Scale, b)

\* The order of two strings that are not both numbers, and of two numbers.
Class(v) == CASE v.k \in {"num", "inf"} -> 0 [] v.k = "txt" -> 1 [] v.k = "bool" -> 2
Less(v, w) ==
  IF Class(v) # Class(w) THEN Class(v) < Class(w)
  ELSE IF v.k = "inf" THEN v.v = -1 /\ w # v
  ELSE IF w.k = "inf" THEN w.v = 1
  ELSE v.v < w.v

\* NaN, the quotient of two zeros, is unequal to everything.
NaN(v) == v.k = "inf" /\ v.v = 0
Holds(op, v, w) ==
  CASE op = "ne" -> v # w \/ NaN(v)
    [] NaN(v) \/ NaN(w) -> FALSE
    [] op = "eq" -> v = w
    [] op = "lt" -> Less(v, w)
    [] op = "gt" -> Less(w, v)
    [] op = "le" -> ~Less(w, v)
    [] op = "ge" -> ~Less(v, w)

-----------------------------------------------------------------------------
(* Evaluation. *)

\* The operands are evaluated from left to right; the first that throws or is
\* NULL decides.
Strict(v, w, res) ==
  CASE v \in {Err, Null} -> v [] w \in {Err, Null} -> w [] OTHER -> res

exec_math(op, v, w) ==
  Strict(v, w, IF v.k # "num" \/ w.k # "num" \/ (op = "div" /\ w.v = 0) THEN Err
               ELSE Num(Printed[Calc(op, v.v, w.v)]))

exec_compare(op, v, w) == Strict(v, w, Bool(Holds(op, v, w)))

\* AND and OR read a word other than "true" as false and return the operand
\* that decides.
exec_and(v, w) == IF v = Bool(TRUE) THEN w ELSE v
exec_or(v, w) ==
  CASE v \in {Err, Null, Bool(TRUE)} -> v
    [] w \in {Err, Null, Bool(TRUE)} -> w
    [] OTHER -> Bool(FALSE)

\* val is the value of every column of every table.
RECURSIVE exec_condition(_, _)
exec_condition(e, val) ==
  CASE e.op = "col" -> val[e.tbl][e.col]
    [] e.op = "lit" -> e.val
    [] e.op \in Math -> exec_math(e.op, exec_condition(e.l, val), exec_condition(e.r, val))
    [] e.op \in Compare -> exec_compare(e.op, exec_condition(e.l, val), exec_condition(e.r, val))
    [] e.op = "and" -> exec_and(exec_condition(e.l, val), exec_condition(e.r, val))
    [] e.op = "or" -> exec_or(exec_condition(e.l, val), exec_condition(e.r, val))

-----------------------------------------------------------------------------
(* Constant folding. *)

Lit(t, v) == [op |-> "lit", type |-> t, val |-> v]
IsLit(e, types) == e.op = "lit" /\ e.type \in types
Numbers == {"int", "float"}

\* Fault for compact_math: the folded quotient is an integer.
WholeQuotient(e, l, r) ==
  IF ~(IsLit(l, Numbers) /\ IsLit(r, Numbers)) \/ (e.op = "div" /\ r.val.v = 0)
  THEN [e EXCEPT !.l = l, !.r = r]
  ELSE Lit("int", Num((Calc(e.op, l.val.v, r.val.v) \div Scale) * Scale))

\* Two integers give an exact integer, a float makes a float; a quotient is a
\* float, and is taken without a look at the divisor.
compact_math(e, l, r) ==
  IF ~(IsLit(l, Numbers) /\ IsLit(r, Numbers)) THEN [e EXCEPT !.l = l, !.r = r]
  ELSE IF e.op = "div" /\ r.val.v = 0 THEN Lit("float", Inf(l.val.v))
  ELSE Lit(IF e.op = "div" \/ "float" \in {l.type, r.type} THEN "float" ELSE "int",
           Num(Calc(e.op, l.val.v, r.val.v)))

compact_compare(e, l, r) ==
  IF \E types \in {Numbers, {"varchar"}} : IsLit(l, types) /\ IsLit(r, types)
  THEN Lit("boolean", Bool(Holds(e.op, l.val, r.val)))
  ELSE [e EXCEPT !.l = l, !.r = r]

compact_logic(e, l, r) ==
  IF IsLit(l, {"boolean"}) /\ IsLit(r, {"boolean"})
  THEN Lit("boolean", IF e.op = "and" THEN exec_and(l.val, r.val) ELSE exec_or(l.val, r.val))
  ELSE [e EXCEPT !.l = l, !.r = r]

RECURSIVE compact_condition(_)
compact_condition(e) ==
  CASE e.op \in Math -> compact_math(e, compact_condition(e.l), compact_condition(e.r))
    [] e.op \in Compare -> compact_compare(e, compact_condition(e.l), compact_condition(e.r))
    [] e.op \in {"and", "or"} -> compact_logic(e, compact_condition(e.l), compact_condition(e.r))
    [] OTHER -> e

-----------------------------------------------------------------------------
(* What SQL says an expression means, for the properties: exact numbers. *)

RECURSIVE Meaning(_, _)
Meaning(e, val) ==
  CASE e.op = "col" -> val[e.tbl][e.col]
    [] e.op = "lit" -> e.val
    [] OTHER ->
         LET v == Meaning(e.l, val)
             w == Meaning(e.r, val)
         IN CASE e.op = "and" -> exec_and(v, w)
              [] e.op = "or" -> exec_or(v, w)
              [] e.op \in Compare -> exec_compare(e.op, v, w)
              [] OTHER -> Strict(v, w, IF v.k # "num" \/ w.k # "num" \/ (e.op = "div" /\ w.v = 0)
                                       THEN Err ELSE Num(Calc(e.op, v.v, w.v)))

\* The expressions whose numbers stay within what is printed exactly.
RECURSIVE Small(_, _)
Small(e, val) ==
  \/ e.op \in {"col", "lit"}
  \/ /\ Small(e.l, val) /\ Small(e.r, val)
     /\ LET m == Meaning(e, val) IN m.k = "num" => Printed[m.v] = m.v
=============================================================================
