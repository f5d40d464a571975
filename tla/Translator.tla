----------------------------- MODULE Translator -----------------------------
(***************************************************************************)
(* The translator and the compiler of SQL: the recursive-descent parser    *)
(* red::tran::parser emits instructions while it matches tokens, and       *)
(* red::comp::comp_parser turns them around and assembles them.            *)
(*                                                                         *)
(* A token is [type, text].  A production is a sequence of steps, each of  *)
(* them what one or two lines of the parser do; Run performs the steps on  *)
(* a parser state: the position of the next token, the code vector the     *)
(* production appends to, the code held back in a vector of its own (the   *)
(* tables), and whether a token did not match.  The data segment is        *)
(* abstracted: PUSHO carries the token whose index the code pushes.        *)
(***************************************************************************)
EXTENDS Integers, Sequences, SequencesExt, TLC

CONSTANT Fail     \* no alternative: the parser throws

\* Instructions.
Call(op) == [i |-> "CALL", v |-> op]
Push(n) == [i |-> "PUSH", v |-> n]
Pusho(d) == [i |-> "PUSHO", v |-> d]
Nop == [i |-> "NOP"]
Ret == [i |-> "RET"]

Empty == [type |-> "VARCHAR", text |-> ""]
Named(text) == [type |-> "VARCHAR", text |-> text]

\* Steps.
Tok(t) == [k |-> "tok", t |-> t]                    \* match(t)
Data(t) == [k |-> "data", t |-> t]                  \* PUSHO data(t)
Emit(ins) == [k |-> "emit", ins |-> ins]            \* push_back
Do(op) == Emit(Call(op))
Put(n) == Emit(Push(n))
NoName == Emit(Pusho(Empty))                        \* PUSHO find_data(empty)
Number == [k |-> "number"]                          \* PUSH text of an INT
Alt(cases, other) == [k |-> "alt", eat |-> TRUE, cases |-> cases, other |-> other]
Look(cases, other) == [k |-> "alt", eat |-> FALSE, cases |-> cases, other |-> other]
Dotted(yes, no) == [k |-> "dotted", yes |-> yes, no |-> no]   \* is a dot next but one?
Late(steps) == [k |-> "late", steps |-> steps]      \* into the code held back
LateFirst(steps) == [k |-> "first", steps |-> steps] \* the same, in front of it
Flush == [k |-> "flush"]                            \* append the code held back
Fresh(steps) == [k |-> "fresh", steps |-> steps]    \* in a vector of its own
Many(steps) == [k |-> "many", count |-> FALSE, steps |-> steps]    \* one or more, with commas
Counted(steps) == [k |-> "many", count |-> TRUE, steps |-> steps]  \* with PUSH of their count
Privs == [k |-> "privs"]
Expression == [k |-> "expr"]                        \* logic_expr into the vector
Joins == [k |-> "joins"]

-----------------------------------------------------------------------------
(* The productions, in the order of tran.cpp. *)

TableName == Dotted(<<Data("NAME"), Tok("DOT"), Data("NAME")>>, <<NoName, Data("NAME")>>)

\* Fault for opt_as_alias: nothing is pushed for a table without an alias.
NoAlias == Look([AS |-> <<Tok("AS"), Data("NAME")>>, NAME |-> <<Data("NAME")>>], <<>>)

opt_as_alias == Look([AS |-> <<Tok("AS"), Data("NAME")>>, NAME |-> <<Data("NAME")>>], <<NoName>>)

table_reference == <<Do("OPNTBL"), TableName, opt_as_alias>>

index_key == <<Tok("L_PAREN"), Counted(<<Data("NAME")>>), Tok("R_PAREN")>>

Enums == <<Tok("L_PAREN"), Counted(<<Data("VARCHAR")>>), Tok("R_PAREN")>>
Width == <<Tok("L_PAREN"), Number, Tok("R_PAREN")>>

data_type == <<Alt(
  [CHAR |-> <<Put("CHAR")>> \o Width, VARCHAR |-> <<Put("VARCHAR")>> \o Width,
   DATE |-> <<Put("DATE"), Put(10)>>, DATETIME |-> <<Put("DATETIME"), Put(19)>>,
   TIMESTAMP |-> <<Put("TIMESTAMP"), Put(19)>>, INT |-> <<Put("INT"), Put(10)>>,
   ENUM |-> <<Put("ENUM")>> \o Enums,
   FLOAT |-> <<Put("FLOAT"), Tok("L_PAREN"), Number, Tok("COMMA"), Number, Tok("R_PAREN")>>], Fail)>>

\* The flags of a column, in any order: PUSH of their set.
constraint == <<[k |-> "flags"]>>

add_column == <<Do("ADDCLMN"), Data("NAME")>> \o data_type \o constraint
  \o <<Alt([AFTER |-> <<Put(2), Data("NAME")>>, FIRST |-> <<Put(1), Data("NAME")>>], <<Put(0)>>)>>

add_foreign_key == <<Tok("KEY"), Do("ADDFGNKEY")>> \o index_key
  \o <<Tok("REFERENCES"), Late(<<Do("ULCKTBL")>> \o table_reference)>> \o index_key

add_index == <<Do("ADDNDX")>> \o index_key
add_unique_index == <<Tok("INDEX"), Do("ADDUNINDX")>> \o index_key

alter_add == <<Alt([COLUMN |-> add_column, FOREIGN |-> add_foreign_key,
                    INDEX |-> add_index, UNIQUE |-> add_unique_index], Fail)>>

alter_drop == <<Alt([COLUMN |-> <<Do("DROPCLMN"), Data("NAME")>>,
                     FOREIGN |-> <<Tok("KEY"), Do("DROPFGNKEY"), Data("NAME")>>,
                     INDEX |-> <<Do("DROPNDX"), Data("NAME")>>], Fail)>>

\* The CALL of the table's change is patched into the place before its operands.
alter_table == <<Late(<<Do("ULCKTBL")>> \o table_reference),
                 Alt([ADD |-> alter_add, DROP |-> alter_drop], Fail), Flush, Do("MKWRKSCH")>>

alter_user == <<Do("ALTUSR"),
  Alt([USER |-> <<Tok("L_PAREN"), Tok("R_PAREN"), Do("MKUSR")>>],
      <<Data("VARCHAR"), Tok("ATSIGN"), Data("VARCHAR")>>),
  Tok("IDENTIFIED"), Tok("BY"), Data("VARCHAR"), Alt([REPLACE |-> <<Data("VARCHAR")>>], <<NoName>>)>>

alter_stmt == <<Alt([DATABASE |-> <<Do("ALTDB"), Data("NAME")>>, TABLE |-> alter_table,
                     USER |-> alter_user], Fail)>>

foreign_key == <<Do("MKFGNKEY")>> \o index_key \o <<Tok("REFERENCES"), TableName>> \o index_key
primary_key == <<Do("MKPRIKEY")>> \o index_key

\* The columns are held back, the last first; the keys are not.
column_definition == <<Look(
  [NAME |-> <<LateFirst(<<Emit(Nop), Do("MKCLMNDEF"), Data("NAME")>> \o data_type \o constraint)>>,
   FOREIGN |-> <<Tok("FOREIGN"), Tok("KEY")>> \o foreign_key,
   PRIMARY |-> <<Tok("PRIMARY"), Tok("KEY")>> \o primary_key], Fail)>>

create_table == <<Do("CRTTBL"), TableName, Tok("L_PAREN"), Many(column_definition), Flush,
                  Tok("R_PAREN"), Do("MKWRKSCH")>>

create_user == <<Do("CRTUSR"), Data("VARCHAR"), Tok("ATSIGN"), Data("VARCHAR"), Tok("IDENTIFIED"),
                 Tok("BY"), Data("VARCHAR")>>

create_stmt == <<Alt([DATABASE |-> <<Do("CRTDB"), Data("NAME")>>, TABLE |-> create_table,
                      USER |-> create_user], Fail)>>

\* WHERE of SELECT, DELETE and UPDATE: an expression in a vector of its own.
opt_where == Alt([WHERE |-> <<Do("WHERE"), Fresh(<<Expression>>)>>], <<>>)

\* Fault for delete_stmt: the call is emitted after the condition, and is made
\* before it.
DeleteFirst == <<Tok("FROM"), Late(<<Do("ULCKTBL")>> \o table_reference), opt_where, Do("DELETE"), Flush>>

delete_stmt == <<Do("DELETE"), Tok("FROM"), Late(<<Do("ULCKTBL")>> \o table_reference), opt_where, Flush>>

describe_stmt == <<Do("DESCRIBE"), Do("SLCKTBL")>> \o table_reference

drop_stmt == <<Alt([DATABASE |-> <<Do("DROPDB"), Data("NAME")>>, TABLE |-> <<Do("DROPTBL"), TableName>>,
                    USER |-> <<Do("DROPUSR"), Data("VARCHAR"), Tok("ATSIGN"), Data("VARCHAR")>>], Fail)>>

\* What the privileges are on: *, *.*, d.*, d.t or t.
PrivLevel == Look(
  [ASTERISK |-> <<Dotted(<<Data("ASTERISK"), Tok("DOT"), Data("ASTERISK")>>, <<NoName, Data("ASTERISK")>>)>>,
   NAME |-> <<Dotted(<<Data("NAME"), Tok("DOT"), Look([ASTERISK |-> <<Data("ASTERISK")>>, NAME |-> <<Data("NAME")>>], Fail)>>,
                     <<NoName, Data("NAME")>>)>>], Fail)

\* The password is pushed for both and popped by neither.
Grantee(to) == <<Tok("ON"), PrivLevel, Tok(to), Data("VARCHAR"), Tok("ATSIGN"), Data("VARCHAR"),
                 Alt([IDENTIFIED |-> <<Tok("BY"), Put(1), Data("VARCHAR")>>], <<Put(0)>>)>>
grant_stmt == <<Do("GRANT"), Privs>> \o Grantee("TO")
revoke_stmt == <<Do("REVOKE"), Privs>> \o Grantee("FROM")

opt_column_list == Alt([L_PAREN |-> <<Counted(<<Data("NAME")>>), Tok("R_PAREN")>>], <<Put(0)>>)
value_set == <<Tok("L_PAREN"), Counted(<<Fresh(<<Expression>>)>>), Tok("R_PAREN")>>

insert_stmt == <<Do("INSERT"), Tok("INTO"), Late(<<Do("ULCKTBL")>> \o table_reference),
                 opt_column_list, Tok("VALUES"), Counted(value_set), Flush>>

\* IGNORE and REPLACE are seen and not consumed.
load_stmt == <<Do("LOADDATA"), Tok("DATA"), Tok("INFILE"), Data("VARCHAR"),
               Look([IGNORE |-> <<Put(1)>>, REPLACE |-> <<Put(2)>>], <<Put(0)>>),
               Tok("INTO"), Tok("TABLE"), Do("ULCKTBL")>> \o table_reference

select_expr == <<Expression, Do("MKEXPRHDR"), Emit(Pusho(Named("header")))>>

OrderColumn == <<Do("MKCLMNEXPR"), Dotted(<<NoName, Data("NAME"), Tok("DOT"), Data("NAME")>>,
                                          <<NoName, NoName, Data("NAME")>>)>>
opt_order_by == Alt([ORDER |-> <<Tok("BY"), Do("ORDERBY"),
  Alt([L_PAREN |-> <<Counted(OrderColumn), Tok("R_PAREN")>>], <<Counted(OrderColumn)>>)>>], <<>>)

opt_into_outfile == Alt([INTO |-> <<Tok("OUTFILE"), Do("SETOUTF"), Data("VARCHAR")>>], <<>>)

\* The list and the tables share a vector, which follows WHERE and ORDER BY.
select_stmt == <<Do("SELECT"),
  Late(<<Do("MKEXPRLST"), Many(select_expr), Tok("FROM"), Joins>>),
  opt_where, opt_order_by, Flush, opt_into_outfile>>

show_stmt == <<Alt([DATABASES |-> <<Do("SHOWDBS")>>, TABLES |-> <<Do("SHOWTBLS")>>], Fail)>>

\* The first instruction of an assignment, its comparison, is overwritten.
assignment == <<[k |-> "assign"]>>
update_stmt == <<Do("UPDATE"), Late(<<Do("ULCKTBL")>> \o table_reference), Tok("SET"), Many(assignment),
                 opt_where, Flush>>

stmt == Alt([ALTER |-> alter_stmt, CREATE |-> create_stmt, DELETE |-> delete_stmt,
             DESCRIBE |-> describe_stmt, DROP |-> drop_stmt, GRANT |-> grant_stmt,
             INSERT |-> insert_stmt, LOAD |-> load_stmt, REVOKE |-> revoke_stmt,
             SELECT |-> select_stmt, SHOW |-> show_stmt, SEMICOLON |-> <<>>,
             UPDATE |-> update_stmt] @@ ("USE" :> <<Do("USE"), Data("NAME")>>), Fail)

-----------------------------------------------------------------------------
(* The parser's steps. *)

\* F(v), with v evaluated once: a parser state is used many times over.
Then(v, F(_)) == CHOOSE r \in {F(q) : q \in {v}} : TRUE

\* The parser over the tokens ts, at the first of them.
Start(ts) == [ts |-> ts, pos |-> 1, code |-> <<>>, late |-> <<>>, ok |-> TRUE]

\* The type of the token n places ahead.
Peek(p, n) == IF p.pos + n <= Len(p.ts) THEN p.ts[p.pos + n].type ELSE "EOI"

Stop(p) == [p EXCEPT !.ok = FALSE]
match(p, t) == IF Peek(p, 0) = t THEN [p EXCEPT !.pos = @ + 1] ELSE Stop(p)
Append1(p, ins) == [p EXCEPT !.code = Append(@, ins)]
data(p, t) == IF Peek(p, 0) = t THEN Append1(match(p, t), Pusho(p.ts[p.pos])) ELSE Stop(p)

\* A vector of its own, and the result q of parsing into it put after code.
Apart(p) == [p EXCEPT !.code = <<>>]
After(code, q) == [q EXCEPT !.code = code \o @]

\* The flags of a column definition.
RECURSIVE Flags(_, _)
Flags(p, set) ==
  IF Peek(p, 0) \in {"AUTO_INC", "UNSIGNED", "ZEROFILL"}
  THEN Flags([p EXCEPT !.pos = @ + 1], set \cup {Peek(p, 0)})
  ELSE Append1(p, Push(set))

\* The privileges up to ON, commas or not.  CREATE USER is looked for one token
\* too far: the word USER stays and is no privilege.
PrivName == [ALL |-> "all_priv", ALTER |-> "alter_priv", DELETE |-> "delete_priv", DROP |-> "drop_priv",
             GRANT |-> "grant_priv", INSERT |-> "insert_priv", SELECT |-> "select_priv",
             FILE_ |-> "file_priv", INDEX |-> "index_priv", RELOAD |-> "reload_priv",
             SHUTDOWN |-> "shutdown_priv", UPDATE |-> "update_priv", CREATE |-> "create_priv", SHOW |-> "show_db_priv"]
RECURSIVE privileges(_)
privileges(p) ==
  LET t == Peek(p, 0)
      one(q) == privileges(Append1(q, Pusho(Named(PrivName[t]))))
      next == [p EXCEPT !.pos = @ + 1]
  IN CASE t = "COMMA" -> privileges(next)
       [] t = "ON" -> p
       [] t = "SHOW" -> IF Peek(p, 1) = "DATABASE" THEN one([p EXCEPT !.pos = @ + 2]) ELSE Stop(p)
       [] t = "CREATE" /\ Peek(p, 2) = "USER" -> Stop(p)
       [] t \in DOMAIN PrivName /\ ~(t = "CREATE" /\ Peek(p, 2) = "USER") /\ t # "SHOW" -> one(next)
       [] OTHER -> Stop(p)

-----------------------------------------------------------------------------
(* Expressions, from the loosest operators to the tightest. *)

logic_expr == [AND |-> "AND"]
logic_term == [OR |-> "OR"]
comparison_expr == [EQ |-> "CMPEQ", NE |-> "CMPNE"]
comparison_term == [GE |-> "CMPGE", GT |-> "CMPGT", LE |-> "CMPLE", LT |-> "CMPLT"]
math_expr == [MINUS |-> "SUB", PLUS |-> "ADD"]

math_term == [ASTERISK |-> "MUL", BACKSLASH |-> "DIV"]

Levels == <<logic_expr, logic_term, comparison_expr, comparison_term, math_expr, math_term>>

\* A column or a table's columns.  A name of three parts is recognised and then
\* not matched: its first part is skipped over.
name(p) ==
  LET next(i) == Peek(p, i)
      at(i) == Pusho(p.ts[p.pos + i])
      put(n, code) == [p EXCEPT !.pos = @ + n, !.code = code]
  IN CASE next(1) = "DOT" /\ next(2) = "NAME" /\ next(3) = "DOT" /\ next(4) = "ASTERISK" ->
            put(5, <<Call("MKASTEXPR"), at(0), at(2)>>)
       [] next(1) = "DOT" /\ next(2) = "ASTERISK" -> put(3, <<Call("MKASTEXPR"), Pusho(Empty), at(0)>>)
       [] next(1) = "DOT" /\ next(2) = "NAME" /\ next(3) = "DOT" /\ next(4) = "NAME" -> Stop(p)
       [] next(1) = "DOT" /\ next(2) = "NAME" /\ ~(next(3) = "DOT" /\ next(4) \in {"NAME", "ASTERISK"}) ->
            put(3, <<Call("MKCLMNEXPR"), Pusho(Empty), at(0), at(2)>>)
       [] next(1) # "DOT" \/ next(2) \notin {"NAME", "ASTERISK"} ->
            put(1, <<Call("MKCLMNEXPR"), Pusho(Empty), Pusho(Empty), at(0)>>)

\* Fault for Around: the code of the operands is swapped.
Swapped(op, l, r) == <<op>> \o r \o l

\* An operator goes in front of its operands.
Around(op, l, r) == <<op>> \o l \o r

RECURSIVE Infix(_, _, _), Rest(_, _), math_primary(_, _)

\* The operators of a level after the code of a first operand: they are
\* left-associative.  star: an asterisk is allowed as the first operand.
Rest(n, p) ==
  IF ~p.ok \/ Peek(p, 0) \notin DOMAIN Levels[n] THEN p
  ELSE Then(Infix(n + 1, Apart([p EXCEPT !.pos = @ + 1]), FALSE), LAMBDA q :
         Rest(n, [q EXCEPT !.code = Around(Call(Levels[n][Peek(p, 0)]), p.code, q.code)]))

Infix(n, p, star) ==
  IF n > Len(Levels) THEN math_primary(p, star)
  ELSE Then(Infix(n + 1, p, star), LAMBDA q : Rest(n, q))

math_primary(p, star) ==
  LET t == Peek(p, 0)
      next == [p EXCEPT !.pos = @ + 1]
      lit == [next EXCEPT !.code = <<Call("MKEXPR"), Pusho(p.ts[p.pos])>>]
  IN CASE t = "ASTERISK" -> IF ~star \/ Peek(p, 1) = "ASTERISK" THEN Stop(p)
                            ELSE [next EXCEPT !.code = <<Call("MKASTEXPR"), Pusho(Empty), Pusho(Empty)>>]
       [] t \in {"FLOAT", "INT", "VARCHAR"} -> lit
       [] t = "L_PAREN" -> Then(Infix(1, next, TRUE), LAMBDA q : IF q.ok THEN match(q, "R_PAREN") ELSE q)
       [] t = "MINUS" -> Then(math_primary(next, FALSE), LAMBDA q : After(<<Call("NEGATE")>>, q))
       [] t = "PLUS" -> math_primary(next, FALSE)
       [] t = "NAME" -> name(p)
       [] t = "NULL_SYM" -> [next EXCEPT !.code = <<Call("MKEXPR"), Pusho(Named("null"))>>]
       [] OTHER -> Stop(p)

\* parser::expr into a vector that may hold code already: AND goes to its front.
expr(p) == Then(Infix(2, Apart(p), TRUE), LAMBDA q : IF q.ok THEN Rest(1, After(p.code, q)) ELSE q)

-----------------------------------------------------------------------------
(* Running a production. *)

\* CROSS JOIN and JOIN alone are the same instruction.
join(p) ==
  LET t == Peek(p, 0)
      outer == IF Peek(p, 1) = "OUTER" THEN 1 ELSE 0
      word == IF t = "JOIN" THEN 0 ELSE IF t \in {"LEFT", "RIGHT"} THEN 1 + outer ELSE 1
      op == CASE t \in {"CROSS", "JOIN"} -> "CRJOIN" [] t = "INNER" -> "INJOIN"
              [] t = "LEFT" -> "LTJOIN" [] t = "RIGHT" -> "RTJOIN"
  IN IF Peek(p, word) # "JOIN" THEN Stop(p)
     ELSE [p EXCEPT !.pos = @ + word + 1, !.code = <<Call(op)>>]

\* Every column of USING is translated, without the CALL of its expression.
RECURSIVE using(_, _)
using(p, n) ==
  Then(expr(Apart(p)), LAMBDA q :
    LET r == [q EXCEPT !.code = p.code \o Tail(@)]
    IN CASE ~q.ok -> q
         [] q.ok /\ Peek(q, 0) = "COMMA" -> using([r EXCEPT !.pos = @ + 1], n + 1)
         [] OTHER -> [match(r, "R_PAREN") EXCEPT !.code = <<Call("USING"), Push(n)>> \o r.code])

on_using(p) ==
  CASE Peek(p, 0) = "ON" -> expr([p EXCEPT !.pos = @ + 1, !.code = Append(@, Call("ON"))])
    [] Peek(p, 0) = "USING" ->
         Then(using(Apart(match([p EXCEPT !.pos = @ + 1], "L_PAREN")), 1), LAMBDA q : After(p.code, q))
    [] OTHER -> p

RECURSIVE Run(_, _), Step(_, _), Repeat(_, _, _), references(_, _, _)

Run(p, steps) ==
  IF ~p.ok \/ steps = <<>> THEN p ELSE Then(Step(p, Head(steps)), LAMBDA q : Run(q, Tail(steps)))

\* The tables with their joins: the code of the last join is first, the code of
\* the tables follows in their order.
references(p, joins, tables) ==
  LET before == IF joins = Fail THEN <<>> ELSE joins.rest
      tables_of(q) == tables \o q.code
      next(j, tbl) == Then(join(Apart(j)), LAMBDA k :
        IF k.ok THEN references(k, [this |-> k.code, rest |-> j.code \o before], tbl) ELSE k)
      one(q) == Then(IF joins = Fail THEN Apart(q) ELSE on_using([q EXCEPT !.code = joins.this]), LAMBDA j :
        CASE ~j.ok -> j
          [] j.ok /\ Peek(j, 0) \in {"CROSS", "INNER", "JOIN", "LEFT", "RIGHT"} -> next(j, tables_of(q))
          [] OTHER -> [j EXCEPT !.code = @ \o before \o tables_of(q)])
  IN Then(Run(Apart(p), <<Do("SLCKTBL")>> \o table_reference), LAMBDA q : IF q.ok THEN one(q) ELSE q)

\* One or more with commas; count is put before them when asked for.
Repeat(p, s, n) ==
  Then(Run(p, s.steps), LAMBDA q :
    CASE ~q.ok -> q
      [] q.ok /\ Peek(q, 0) = "COMMA" -> Repeat([q EXCEPT !.pos = @ + 1], s, n + 1)
      [] OTHER -> [q EXCEPT !.code = IF s.count THEN <<Push(n)>> \o @ ELSE @])

Step(p, s) ==
  CASE s.k = "tok" -> match(p, s.t)
    [] s.k = "data" -> data(p, s.t)
    [] s.k = "emit" -> Append1(p, s.ins)
    [] s.k = "number" -> IF Peek(p, 0) = "INT" THEN Append1(match(p, "INT"), Push(p.ts[p.pos].text)) ELSE Stop(p)
    [] s.k = "alt" ->
         LET t == Peek(p, 0)
         IN CASE t \in DOMAIN s.cases -> Run(IF s.eat THEN match(p, t) ELSE p, s.cases[t])
              [] t \notin DOMAIN s.cases /\ s.other = Fail -> Stop(p)
              [] OTHER -> Run(p, s.other)
    [] s.k = "dotted" -> Run(p, IF Peek(p, 1) = "DOT" THEN s.yes ELSE s.no)
    [] s.k = "late" -> Then(Run([Apart(p) EXCEPT !.late = <<>>], s.steps), LAMBDA q :
                         [q EXCEPT !.code = p.code, !.late = p.late \o q.code])
    [] s.k = "first" -> Then(Run(Apart(p), s.steps), LAMBDA q : [q EXCEPT !.code = p.code, !.late = q.code \o p.late])
    [] s.k = "flush" -> [p EXCEPT !.code = @ \o p.late, !.late = <<>>]
    [] s.k = "fresh" -> Then(Run(Apart(p), s.steps), LAMBDA q : After(p.code, q))
    [] s.k = "many" -> IF s.count THEN Then(Repeat(Apart(p), s, 1), LAMBDA q : After(p.code, q)) ELSE Repeat(p, s, 1)
    [] s.k = "flags" -> Flags(p, {})
    [] s.k = "privs" -> Then(privileges(Apart(p)), LAMBDA q : [q EXCEPT !.code = p.code \o <<Push(Len(@))>> \o @])
    [] s.k = "expr" -> expr(p)
    [] s.k = "assign" -> Then(expr(Apart(p)), LAMBDA q :
                           IF q.ok THEN [q EXCEPT !.code = p.code \o <<Call("MKASSIGN")>> \o Tail(@)] ELSE q)
    [] s.k = "joins" -> Then(references(p, Fail, <<>>), LAMBDA q : IF q.ok THEN After(p.code, q) ELSE q)

\* parser::parse: statement after statement into m_code.
RECURSIVE Statements(_)
Statements(p) == IF ~p.ok \/ Peek(p, 0) = "EOI" THEN p
  ELSE Then(Run(p, <<stmt>>), LAMBDA q : Statements(q))

parse(ts) == Statements([Start(ts) EXCEPT !.code = <<Ret>>])

-----------------------------------------------------------------------------
(* The compiler. *)

\* Fault for UnknownCalls: one more symbol is missing.
OneMoreUnknown == {"ALTDB", "ADDUNINDX", "ORDERBY"}

\* The words after CALL that its symbol table does not have.
UnknownCalls == {"ALTDB", "ADDUNINDX"}

\* The code is read from its end; NOP is dropped, RET ends it.
compile(code) == SelectSeq(Reverse(code), LAMBDA ins : ins # Nop)
Compiles(code) == \A i \in DOMAIN code : code[i].i = "CALL" => code[i].v \notin UnknownCalls
=============================================================================
