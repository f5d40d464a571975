------------------------------ MODULE Machine -------------------------------
(***************************************************************************)
(* One SQL statement from its tokens to its execution: the translator, the *)
(* compiler, and the virtual machine that runs the code one instruction at *)
(* a time over its operand stack and its registers.                        *)
(*                                                                         *)
(* An item of the stack is [k, v]: a pushed number (int), the offset of a  *)
(* datum (off), an expression of module Expr (expr), an open table (tree), *)
(* a condition of a join (on), or a string (text).  A statement ends in    *)
(* the CALL that executes it: here that call pops its operands and is      *)
(* recorded with them and with the registers it reads; what it does to the *)
(* tables and the users is in modules Tables, Users and Query.             *)
(***************************************************************************)
EXTENDS Translator

CONSTANTS
  Scale, Sig,   \* see Expr
  None,         \* no statement, no condition
  Inputs,       \* [toks, stmt, bare, ends]: the tokens, the statement that has to be
                \* executed, and how the machine ends: see the properties
  Database,     \* the database in use
  Schemas,      \* [table -> Seq([name, type, flags])]
  PrimaryKeys,  \* [table -> Seq(column name)]
  Literals      \* [text -> value]: what std::stoi and std::stof read

VARIABLES
  input,        \* the message of the client
  code,         \* the code buffer
  pc,           \* the next instruction
  m             \* the machine: its state st, stack and registers

vars == <<input, code, pc, m>>

E == INSTANCE Expr

Item(k, v) == [k |-> k, v |-> v]

\* The machine before a statement.
Machine0 == [st |-> "translate", stack |-> <<>>, trees |-> <<>>, tbl_index |-> -1, chain |-> <<>>,
             exprs |-> <<>>, order |-> <<>>, where |-> None, assigns |-> <<>>,
             work |-> [cols |-> <<>>, pk |-> <<>>, fks |-> <<>>],
             titles |-> 0, file |-> None, done |-> <<>>]

Init == input \in Inputs /\ code = <<>> /\ pc = 1 /\ m = Machine0

Translate ==
  /\ m.st = "translate"
  /\ LET p == parse(input.toks)
     IN IF p.ok /\ Compiles(p.code)
        THEN m' = [m EXCEPT !.st = "run"] /\ code' = compile(p.code)
        ELSE m' = [m EXCEPT !.st = "rejected"] /\ UNCHANGED code
  /\ UNCHANGED <<input, pc>>

-----------------------------------------------------------------------------
(* Operands. *)

Throw(r) == [r EXCEPT !.st = "error"]
Undefined(r) == [r EXCEPT !.st = "ub"]
Pushed(r, k, v) == [r EXCEPT !.stack = <<Item(k, v)>> \o @]

\* item::value(), std::stoi of the item's string: only numbers have one, and
\* one that is not of the kind wanted is used all the same.
Got(st, val, rest) == [st |-> st, val |-> val, rest |-> rest]
value(s, kind) ==
  CASE s = <<>> -> Got("ub", None, s)
    [] s # <<>> /\ s[1].k = kind -> Got("run", s[1].v, Tail(s))
    [] s # <<>> /\ s[1].k # kind ->
         Got(IF s[1].k \in {"int", "off"} \/ (s[1].k = "expr" /\ E!IsLit(s[1].v, {"int", "float"})) THEN "ub" ELSE "error",
             None, s)

\* The operands of a pattern from the top of the stack: an offset, a number, an
\* item as it is, or a number n and n of another pattern.
Lists == [names |-> "off", items |-> "item"]

RECURSIVE Operand(_, _), Operands(_, _)
Operand(s, kind) ==
  CASE kind = "item" -> IF s = <<>> THEN Got("ub", None, s) ELSE Got("run", s[1], Tail(s))
    [] kind \in {"off", "int"} -> value(s, kind)
    [] kind \in DOMAIN Lists ->
         Then(value(s, "int"), LAMBDA n :
           IF n.st # "run" THEN n ELSE Operands(n.rest, [i \in 1..n.val |-> Lists[kind]]))
Operands(s, pattern) ==
  IF pattern = <<>> THEN Got("run", <<>>, s)
  ELSE Then(Operand(s, Head(pattern)), LAMBDA o :
         IF o.st # "run" THEN o
         ELSE Then(Operands(o.rest, Tail(pattern)), LAMBDA os :
                IF os.st # "run" THEN os ELSE [os EXCEPT !.val = <<o.val>> \o @]))

\* The machine r continues with f(operands) when it has all of them.
With(r, pattern, f(_, _)) ==
  Then(Operands(r.stack, pattern), LAMBDA o :
    IF o.st # "run" THEN [r EXCEPT !.st = o.st] ELSE f([r EXCEPT !.stack = o.rest], o.val))

-----------------------------------------------------------------------------
(* Expressions. *)

\* The operators: the left operand is on top.
Operators == [ADD |-> "add", SUB |-> "sub", MUL |-> "mul", DIV |-> "div", AND |-> "and", OR |-> "or",
              CMPEQ |-> "eq", CMPNE |-> "ne", CMPLT |-> "lt", CMPLE |-> "le", CMPGT |-> "gt", CMPGE |-> "ge"]

Binary(r, op) ==
  With(r, <<"item", "item">>, LAMBDA q, a : Pushed(q, "expr", E!Oper(Operators[op], a[1].v, a[2].v)))

\* A literal: the data segment knows its type.
Types == [INT |-> "int", FLOAT |-> "float", VARCHAR |-> "varchar"]
make_expression(r) ==
  With(r, <<"off">>, LAMBDA q, a :
    IF a[1].text \notin DOMAIN Literals THEN Throw(q)
    ELSE Pushed(q, "expr", E!Lit(Types[a[1].type], Literals[a[1].text])))

\* A sign is kept in a literal's value and as a mark on a column.
Signed(c) == [op |-> "neg", tbl |-> c.tbl, col |-> c.col]
IsColumn(i) == i.k = "expr" /\ i.v.op \in {"col", "neg"}
Column(tree, c) == LET cols == Schemas[tree.tbl] IN cols[CHOOSE i \in DOMAIN cols : cols[i].name = c]
negate(r) ==
  With(r, <<"item">>, LAMBDA q, a :
    CASE IsColumn(a[1]) ->
           IF Column(a[1].v.tbl, a[1].v.col).type \in {"INT", "FLOAT"}
           THEN Pushed(q, "expr", Signed(a[1].v)) ELSE Throw(q)
      [] a[1].k = "expr" /\ E!IsLit(a[1].v, {"int", "float"}) ->
           Pushed(q, "expr", [a[1].v EXCEPT !.val.v = -@])
      [] OTHER -> Throw(q))

\* The first open table of that name or alias: the last one written.
Find(r, db, t) == {i \in DOMAIN r.trees : r.trees[i].db = db /\ t \in {r.trees[i].tbl, r.trees[i].alias}}
First(s) == CHOOSE i \in s : \A j \in s : i <= j
InUse(db) == IF db = "" THEN Database ELSE db

\* A name without a table is a column of the first table written.
make_column_expression(r) ==
  With(r, <<"off", "off", "off">>, LAMBDA q, a :
    LET db == InUse(a[1].text)
        qualified == db # "" /\ a[2].text # ""
        found == Find(q, db, a[2].text)
        tree == q.trees[IF qualified THEN First(found) ELSE Len(q.trees)]
    IN CASE q.trees = <<>> -> Undefined(q)
         [] q.trees # <<>> /\ qualified /\ found = {} -> Throw(q)
         [] q.trees # <<>> /\ ~(qualified /\ found = {}) ->
              IF \E i \in DOMAIN Schemas[tree.tbl] : Schemas[tree.tbl][i].name = a[3].text
              THEN Pushed(q, "expr", E!Col(tree, a[3].text)) ELSE Throw(q))

ColumnsOf(tree) == [i \in DOMAIN Schemas[tree.tbl] |-> Item("expr", E!Col(tree, Schemas[tree.tbl][i].name))]

\* The columns of one table, or of all in the order they were written; the
\* header of the asterisk gives way to theirs.
make_asterisk_expression(r) ==
  With(r, <<"off", "off">>, LAMBDA q, a :
    LET found == Find(q, InUse(a[1].text), a[2].text)
        trees == IF a[2].text = "" THEN Reverse(q.trees) ELSE <<q.trees[First(found)]>>
        cols == FlattenSeq([i \in DOMAIN trees |-> ColumnsOf(trees[i])])
    IN CASE a[2].text # "" /\ found = {} -> Throw(q)
         [] ~(a[2].text # "" /\ found = {}) /\ q.titles = 0 -> Undefined(q)
         [] OTHER -> [q EXCEPT !.stack = cols \o @, !.titles = @ - 1 + Len(cols)])

make_expression_header(r) == With(r, <<"off">>, LAMBDA q, a : [q EXCEPT !.titles = @ + 1])

\* Everything on the stack that is no table.
make_expression_list(r) ==
  LET items == SelectSeq(r.stack, LAMBDA i : i.k # "tree")
      list == [i \in DOMAIN items |-> IF items[i].k = "expr" THEN E!compact_condition(items[i].v) ELSE items[i].v]
      q == [r EXCEPT !.stack = <<>>, !.exprs = @ \o list,
                     !.titles = IF @ > Len(list) THEN @ - Len(list) ELSE 0]
  IN IF q.exprs = <<>> THEN Throw(q) ELSE q

order_by(r) ==
  With(r, <<"items">>, LAMBDA q, a :
    LET keys == [i \in DOMAIN a[1] |-> a[1][i].v]
    IN [q EXCEPT !.order = @ \o keys, !.exprs = (q.order \o keys) \o @])

where(r) == With(r, <<"item">>, LAMBDA q, a : [q EXCEPT !.where = a[1].v])

\* SET: an item that is no column has no table to look its flags up in.
make_assignment(r) ==
  With(r, <<"item", "item">>, LAMBDA q, a :
    CASE ~IsColumn(a[1]) -> Undefined(q)
      [] IsColumn(a[1]) /\ Column(a[1].v.tbl, a[1].v.col).flags \cap {"PRIMARY", "AUTO_INC"} # {} -> Throw(q)
      [] OTHER -> [q EXCEPT !.assigns = <<[col |-> a[1].v.col, val |-> a[2].v]>> \o @])

-----------------------------------------------------------------------------
(* Tables and joins. *)

open_table(r) ==
  With(r, <<"off", "off", "off">>, LAMBDA q, a :
    LET tree == [db |-> InUse(a[1].text), tbl |-> a[2].text, alias |-> a[3].text]
    IN IF tree.db # Database \/ tree.tbl \notin DOMAIN Schemas THEN Throw(q)
       ELSE [Pushed(q, "tree", tree) EXCEPT !.trees = Append(@, tree), !.tbl_index = @ + 1])

on_cond(r) == With(r, <<"item">>, LAMBDA q, a : [Pushed(q, "on", a[1].v) EXCEPT !.tbl_index = @ - 1])

\* USING: the columns of the two tables at m_tbl_index are equal.
RECURSIVE Conjunction(_)
Conjunction(es) == IF Len(es) = 1 THEN es[1] ELSE E!Oper("and", Conjunction(Tail(es)), es[1])
using_cond(r) ==
  LET o == Operands(r.stack, <<"int">>)
      n == o.val[1]
  IN IF o.st # "run" THEN [r EXCEPT !.st = o.st]
     ELSE With(r, <<"int">> \o [i \in 1..(3 * n) |-> IF i % 3 = 0 THEN "off" ELSE "item"], LAMBDA q, a :
       LET both(c) == E!Oper("eq", E!Col(q.trees[q.tbl_index + 1], c), E!Col(q.trees[q.tbl_index], c))
       IN IF q.tbl_index < 1 THEN Undefined(q)
          ELSE on_cond(Pushed(q, "expr", Conjunction([i \in 1..n |-> both(a[1 + 3 * i].text)]))))

\* A join needs a condition on top of the tables it links.
Join(r, kind) ==
  LET need == IF r.chain = <<>> THEN 2 ELSE 1
      link(tree, act, on) == [tbl |-> tree, action |-> act, on |-> on]
      begun(s) == IF r.chain = <<>> THEN <<link(s[1].v, "none", None)>> ELSE r.chain
      next(s) == s[need].v
  IN CASE r.stack = <<>> -> Undefined(r)
       [] r.stack # <<>> /\ r.stack[1].k # "on" -> Throw(r)
       [] r.stack # <<>> /\ r.stack[1].k = "on" ->
            LET s == Tail(r.stack)
                on == E!compact_condition(r.stack[1].v)
                ch == begun(s)
            IN IF Len(s) < need \/ \E i \in 1..need : s[i].k # "tree" THEN Undefined(r)
               ELSE [r EXCEPT !.stack = SubSeq(s, need + 1, Len(s)),
                              !.chain = IF kind = "cross"
                                        THEN Append([ch EXCEPT ![Len(ch)].action = "cross"], link(next(s), "none", on))
                                        ELSE Append(ch, link(next(s), kind, on))]

Joinings == [CRJOIN |-> "cross", INJOIN |-> "inner", LTJOIN |-> "left", RTJOIN |-> "right"]

-----------------------------------------------------------------------------
(* The working schema. *)

Texts(toks) == [i \in DOMAIN toks |-> toks[i].text]

make_column_definition(r) ==
  LET o == Operands(r.stack, <<"off", "int">>)
      sizes == CASE o.val[2] = "ENUM" -> <<"names">> [] o.val[2] = "FLOAT" -> <<"int", "int">> [] OTHER -> <<"int">>
  IN IF o.st # "run" THEN [r EXCEPT !.st = o.st]
     ELSE With(r, <<"off", "int">> \o sizes \o <<"int">>, LAMBDA q, a :
       [q EXCEPT !.work.cols = Append(@, [name |-> a[1].text, type |-> a[2], size |-> SubSeq(a, 3, Len(a) - 1),
                                          flags |-> a[Len(a)]])])

HasColumns(r, names) == \A i \in DOMAIN names : \E j \in DOMAIN r.work.cols : r.work.cols[j].name = names[i]

KeyFlags == {"PRIMARY", "NOT_NULL", "UNIQUE"}

\* The leading columns are flagged, not the ones that are named.
make_primary_key(r) ==
  IF r.work.pk # <<>> THEN Throw(r)
  ELSE With(r, <<"names">>, LAMBDA q, a :
    LET names == Texts(a[1])
    IN IF ~HasColumns(q, names) THEN Throw(q)
       ELSE [q EXCEPT !.work.pk = names,
                      !.work.cols = [i \in DOMAIN @ |->
                         IF i <= Len(names) THEN [@[i] EXCEPT !.flags = @ \cup KeyFlags] ELSE @[i]]])

\* The key keeps the names of the referenced columns, not those of its own.
make_foreign_key(r) ==
  With(r, <<"names", "off", "off", "names">>, LAMBDA q, a :
    LET t == a[3].text
    IN IF /\ Len(a[1]) = Len(a[4]) /\ HasColumns(q, Texts(a[1]))
          /\ InUse(a[2].text) = Database /\ t \in DOMAIN PrimaryKeys /\ Texts(a[4]) = PrimaryKeys[t]
       THEN [q EXCEPT !.work.fks = Append(@, [cols |-> Texts(a[4]), tbl |-> t])] ELSE Throw(q))

make_working_schema(r) == [r EXCEPT !.work = Machine0.work]

set_outfile(r) ==
  With(r, <<"off">>, LAMBDA q, a : IF a[1].text = "" THEN Throw(q) ELSE [q EXCEPT !.file = a[1].text])

\* ALTER USER USER(): the strings themselves, where their offsets are expected.
make_user(r) == [r EXCEPT !.stack = <<Item("text", "user"), Item("text", "host")>> \o @]

-----------------------------------------------------------------------------
(* The statements. *)

\* The operands that a statement's call pops.
Pattern ==
  [CRTDB |-> <<"off">>, DROPDB |-> <<"off">>, CRTUSR |-> <<"off", "off", "off">>, DROPUSR |-> <<"off", "off">>,
   ALTUSR |-> <<"off", "off", "off", "off">>, GRANT |-> <<"names", "off", "off", "off", "off">>,
   REVOKE |-> <<"names", "off", "off", "off", "off">>, CRTTBL |-> <<"off", "off">>, DROPTBL |-> <<"off", "off">>,
   ADDCLMN |-> <<"item">>, DROPCLMN |-> <<"off">>, ADDFGNKEY |-> <<"names", "names">>, DROPFGNKEY |-> <<"off">>,
   ADDNDX |-> <<"names">>, DROPNDX |-> <<"off">>, LOADDATA |-> <<"off", "int">>,
   DELETE |-> <<>>, UPDATE |-> <<>>, DESCRIBE |-> <<>>, SELECT |-> <<>>, SHOWDBS |-> <<>>, SHOWTBLS |-> <<>>]
  @@ ("USE" :> <<"off">>)

\* The statements about a table read m_tree_list.back().
NoTable == {"CRTDB", "DROPDB", "CRTUSR", "DROPUSR", "ALTUSR", "GRANT", "REVOKE", "CRTTBL", "DROPTBL",
            "SHOWDBS", "SHOWTBLS", "USE"}

\* What a call makes of an operand.
Argument(kind, v) ==
  CASE kind = "off" -> v.text
    [] kind = "names" -> Texts(v)
    [] kind = "int" -> v
    [] kind = "item" -> v.v.text

\* The statement that is executed: its call, operands and registers.
Executed(call, args, r) ==
  [call |-> call, args |-> args, tables |-> Reverse(r.trees), chain |-> r.chain, exprs |-> r.exprs,
   order |-> r.order, where |-> r.where, assigns |-> r.assigns, work |-> r.work, file |-> r.file]

Statement(r, call) ==
  IF call \notin NoTable /\ r.trees = <<>> THEN Undefined(r)
  ELSE With(r, Pattern[call], LAMBDA q, a :
    [q EXCEPT !.done = Append(@, Executed(call, [i \in DOMAIN a |-> Argument(Pattern[call][i], a[i])], q))])

\* A value of INSERT is the item's string: an expression that is no literal
\* has none.
ValueOf(i) == IF i.k = "expr" /\ i.v.op = "lit" THEN i.v.val ELSE E!Null

\* row::verify_value(): std::stoi reads no number in the empty string.
Takes(col, val) ==
  IF val = Literals["null"] THEN "NOT_NULL" \notin col.flags \/ "AUTO_INC" \in col.flags
  ELSE val.k = "num" \/ col.type \notin {"INT", "FLOAT"}

\* The values of the set are in the order of the columns cs; a column that is
\* not named gets the empty string.
verify_value_list(columns, cs, set) ==
  \A i \in DOMAIN columns :
    LET at == {j \in DOMAIN cs : cs[j] = columns[i].name}
    IN  Takes(columns[i], IF at = {} THEN E!Null ELSE set[First(at)])

\* The value sets are popped, verified and inserted one after the other, and
\* the ones that are in when another is refused stay in.  What becomes of a row
\* in the table is in module Tables.
RECURSIVE InsertSets(_, _, _, _)
InsertSets(r, cs, n, sets) ==
  LET tbl == r.trees[Len(r.trees)].tbl
      effect(q) == [q EXCEPT !.done = Append(@, Executed("INSERT", <<cs, sets>>, q))]
      fail(q) == Throw(IF sets = <<>> THEN q ELSE effect(q))
  IN IF n = 0 \/ r.stack = <<>> THEN effect(r)
     ELSE With(r, <<"int">>, LAMBDA q, c :
       IF c[1] # Len(cs) THEN fail(q)
       ELSE With(q, [i \in DOMAIN cs |-> "item"], LAMBDA p, a :
         LET set == [i \in DOMAIN a |-> ValueOf(a[i])]
         IN IF verify_value_list(Schemas[tbl], cs, set) THEN InsertSets(p, cs, n - 1, Append(sets, set)) ELSE fail(p)))

\* Without a column list the columns are those of the table.
insert(r) ==
  IF r.trees = <<>> THEN Undefined(r)
  ELSE With(r, <<"names">>, LAMBDA q, a :
    LET tbl == q.trees[Len(q.trees)].tbl
        all == [i \in DOMAIN Schemas[tbl] |-> Schemas[tbl][i].name]
    IN IF ~ Range(Texts(a[1])) \subseteq Range(all) THEN Throw(q)
       ELSE With(q, <<"int">>, LAMBDA p, n :
              InsertSets(p, IF a[1] = <<>> THEN all ELSE Texts(a[1]), n[1], <<>>)))

-----------------------------------------------------------------------------
(* Running. *)

\* vm::call.
Called(r, op) ==
  CASE op \in DOMAIN Operators -> Binary(r, op)
    [] op \in DOMAIN Joinings -> Join(r, Joinings[op])
    [] op \in DOMAIN Pattern -> Statement(r, op)
    [] op = "INSERT" -> insert(r)
    [] op = "NEGATE" -> negate(r)
    [] op = "MKEXPR" -> make_expression(r)
    [] op = "MKCLMNEXPR" -> make_column_expression(r)
    [] op = "MKASTEXPR" -> make_asterisk_expression(r)
    [] op = "MKEXPRHDR" -> make_expression_header(r)
    [] op = "MKEXPRLST" -> make_expression_list(r)
    [] op = "ORDERBY" -> order_by(r)
    [] op = "WHERE" -> where(r)
    [] op = "MKASSIGN" -> make_assignment(r)
    [] op = "OPNTBL" -> open_table(r)
    [] op \in {"SLCKTBL", "ULCKTBL"} -> r         \* the locks are in module Tables
    [] op = "ON" -> on_cond(r)
    [] op = "USING" -> using_cond(r)
    [] op = "MKCLMNDEF" -> make_column_definition(r)
    [] op = "MKPRIKEY" -> make_primary_key(r)
    [] op = "MKFGNKEY" -> make_foreign_key(r)
    [] op = "MKWRKSCH" -> make_working_schema(r)
    [] op = "SETOUTF" -> set_outfile(r)
    [] op = "MKUSR" -> make_user(r)

\* The machine executes an instruction of kind i.
Fetch(i) == m.st = "run" /\ code[pc].i = i /\ pc' = pc + 1 /\ UNCHANGED <<input, code>>

push == Fetch("PUSH") /\ m' = Pushed(m, "int", code[pc].v)
pusho == Fetch("PUSHO") /\ m' = Pushed(m, "off", code[pc].v)
call == Fetch("CALL") /\ m' = Called(m, code[pc].v)

ret == Fetch("RET") /\ m' = [m EXCEPT !.st = "done"]

Ended == m.st \in {"done", "rejected", "error", "ub"}
Finished == Ended /\ UNCHANGED vars

Next == Translate \/ push \/ pusho \/ call \/ ret \/ Finished

Spec == Init /\ [][Next]_vars

-----------------------------------------------------------------------------
(* Properties. *)

\* The stack holds items of the six kinds, and the registers are what the
\* statements read: open tables, joins of open tables, typed columns.
TypeOK ==
  /\ m.st \in {"translate", "run", "done", "rejected", "error", "ub"} /\ pc \in 1..(Len(code) + 1)
  /\ \A i \in DOMAIN m.stack : m.stack[i].k \in {"int", "off", "expr", "tree", "on", "text"}
  /\ m.tbl_index \in -1..(Len(m.trees) - 1) /\ m.titles \in Nat
  /\ \A i \in DOMAIN m.trees : m.trees[i].tbl \in DOMAIN Schemas
  /\ \A i \in DOMAIN m.chain : m.chain[i].tbl \in Range(m.trees)
  /\ \A i \in DOMAIN m.work.cols : m.work.cols[i].flags \subseteq {"AUTO_INC", "UNSIGNED", "ZEROFILL"} \cup KeyFlags

\* A statement is executed as it was written: the call that the machine makes
\* has the operands, tables, joins, conditions, expressions (with their
\* constants folded), assignments and columns that the text has, in its order
\* and with its precedence, although the translator emits them in several
\* vectors and the machine runs them backwards.  A foreign key keeps the columns
\* it references only.  Of an INSERT that ends half way, at a value set that
\* does not fit, the sets before that one are executed.
AsWritten ==
  input.stmt # None /\ (m.st = "done" \/ (m.st = "error" /\ input.ends = "half")) => m.done = <<input.stmt>>

\* Every statement that is written in full is executed: neither the parser, nor
\* the compiler's table of calls, nor a handler refuses it.  The inputs list the
\* exceptions, documented statements that end "refused", and each of them is.
Accepted ==
  Ended /\ input.stmt # None /\ ~input.bare =>
    CASE input.ends = "done" -> m.st = "done"
      [] input.ends = "refused" -> m.st \in {"rejected", "error"} /\ m.done = <<>>
      [] input.ends = "half" -> m.st = "error"

\* The code of an accepted text, meaningful or not, never makes the machine pop
\* an empty stack or use an item as what it is not: only AND in a SELECT list
\* or an ON condition, and a comparison or AND or OR in SET, do that when they
\* are written without parentheses.
UndefinedOnlyIfBare == m.st = "ub" => input.bare

\* The machine's memory is what its handlers take it for.
WellDefined == TypeOK /\ UndefinedOnlyIfBare

\* A statement takes effect last: once its call was made, no instruction that
\* can fail is left, and a text that is refused has had no effect; but the call
\* of INSERT itself may fail after it has inserted the rows of earlier sets.
EffectLast ==
  m.done # <<>> =>
    /\ m.st \in {"run", "done"} \/ (m.st = "error" /\ m.done[1].call = "INSERT")
    /\ \A i \in pc..Len(code) : code[i] = Ret
=============================================================================
