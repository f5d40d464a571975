------------------------------ MODULE MCMachine -----------------------------
(***************************************************************************)
(* The statements that are sent to the machine, each written out as tokens *)
(* by a printer that knows SQL and nothing of the translator.              *)
(***************************************************************************)
EXTENDS Machine

MCSchemas ==
  [a |-> << [name |-> "k", type |-> "INT", flags |-> KeyFlags], [name |-> "v", type |-> "INT", flags |-> {}] >>,
   b |-> << [name |-> "k", type |-> "INT", flags |-> KeyFlags], [name |-> "w", type |-> "VARCHAR", flags |-> {}] >>]
MCPrimaryKeys == [a |-> <<"k">>, b |-> <<"k">>]
MCLiterals == ("1" :> E!Num(1 * Scale)) @@ ("2" :> E!Num(2 * Scale)) @@ ("x" :> E!Txt(1)) @@ ("null" :> E!Txt(2))

\* Tokens.
W(type) == [type |-> type, text |-> type]
Nm(x) == [type |-> "NAME", text |-> x]
Str(x) == [type |-> "VARCHAR", text |-> x]
Int1(x) == [type |-> "INT", text |-> x]
Ws(types) == [i \in DOMAIN types |-> W(types[i])]
RECURSIVE Sep(_)
Sep(parts) == IF Len(parts) = 1 THEN parts[1] ELSE parts[1] \o <<W("COMMA")>> \o Sep(Tail(parts))
Paren(ts) == <<W("L_PAREN")>> \o ts \o <<W("R_PAREN")>>
Nms(xs) == Paren(Sep([i \in DOMAIN xs |-> <<Nm(xs[i])>>]))
At(u, h) == <<Str(u), W("ATSIGN"), Str(h)>>

\* Expressions as they are written: columns with or without their table,
\* literals, a sign, an operator.
Ref(q, c) == [op |-> "ref", q |-> q, col |-> c]
Word(tok) == [op |-> "tok", tok |-> tok]
Minus(e) == [op |-> "minus", e |-> e]
Op(o, x, y) == [op |-> o, l |-> x, r |-> y]

\* From the loosest operators to the tightest: AND is looser than OR here.
Signs == << [and |-> "AND"], [or |-> "OR"], [eq |-> "EQ", ne |-> "NE"],
            [lt |-> "LT", le |-> "LE", gt |-> "GT", ge |-> "GE"],
            [add |-> "PLUS", sub |-> "MINUS"], [mul |-> "ASTERISK", div |-> "BACKSLASH"] >>
Rank(o) == CHOOSE i \in DOMAIN Signs : o \in DOMAIN Signs[i]

\* e where only operators of rank lo and tighter may stand alone.
RECURSIVE Printed(_, _)
Printed(e, lo) ==
  CASE e.op = "ref" -> IF e.q = "" THEN <<Nm(e.col)>> ELSE <<Nm(e.q), W("DOT"), Nm(e.col)>>
    [] e.op = "tok" -> <<e.tok>>
    [] e.op = "star" -> IF e.q = "" THEN <<W("ASTERISK")>> ELSE <<Nm(e.q), W("DOT"), W("ASTERISK")>>
    [] e.op = "minus" -> <<W("MINUS")>> \o Printed(e.e, 7)
    [] OTHER -> LET n == Rank(e.op)
                    ts == Printed(e.l, n) \o <<W(Signs[n][e.op])>> \o Printed(e.r, n + 1)
                IN IF n < lo THEN Paren(ts) ELSE ts

\* What it stands for over the tables ts.
NameOf(t) == IF t.alias = "" THEN t.tbl ELSE t.alias
TableOf(ts, q) == IF q = "" THEN ts[1] ELSE ts[CHOOSE i \in DOMAIN ts : q = NameOf(ts[i])]
RECURSIVE Means(_, _)
Means(e, ts) ==
  CASE e.op = "ref" -> E!Col(TableOf(ts, e.q), e.col)
    [] e.op = "tok" -> E!Lit(Types[e.tok.type], Literals[e.tok.text])
    [] e.op = "minus" -> LET x == Means(e.e, ts) IN IF x.op = "col" THEN Signed(x) ELSE [x EXCEPT !.val.v = -@]
    [] OTHER -> E!Oper(e.op, Means(e.l, ts), Means(e.r, ts))

\* The statement with no tables, conditions or expressions.
Bare(call_, args_) == Executed(call_, args_, Machine0)
In(toks, stmt_) == [toks |-> toks, stmt |-> stmt_, bare |-> FALSE, ends |-> "done"]
Meaningless(toks) == In(toks, None)

Tbl(t, x) == [db |-> Database, tbl |-> t, alias |-> x]
a == Tbl("a", "")
b == Tbl("b", "")
PrintedTable(t) == <<Nm(t.tbl)>> \o IF t.alias = "" THEN <<>> ELSE <<W("AS"), Nm(t.alias)>>

-----------------------------------------------------------------------------
(* Statements without expressions. *)

OnA(call_, args_) == [Bare(call_, args_) EXCEPT !.tables = <<a>>]
AlterA(ts) == Ws(<<"ALTER", "TABLE">>) \o <<Nm("a")>> \o ts
Rights == << <<"SELECT", "select_priv">>, <<"CREATE", "create_priv">> >>
Privileges(first, last, call_, ts, args_) ==
  In(<<W(first)>> \o Sep([i \in DOMAIN Rights |-> <<W(Rights[i][1])>>]) \o <<W("ON")>> \o ts \o <<W(last)>> \o At("u", "h")
       \o Ws(<<"IDENTIFIED", "BY">>) \o <<Str("p")>>,
     Bare(call_, <<[i \in DOMAIN Rights |-> Rights[i][2]]>> \o args_ \o <<"u", "h">>))

\* INSERT INTO a (names) VALUES sets.  An insert that ends half way executes all
\* of its sets but the last one.
InsertA(names, sets, ends_) ==
  LET kept == IF ends_ = "half" THEN Front(sets) ELSE sets
  IN [In(Ws(<<"INSERT", "INTO">>) \o <<Nm("a")>> \o Nms(names) \o <<W("VALUES")>>
           \o Sep([i \in DOMAIN sets |-> Paren(Sep([j \in DOMAIN sets[i] |-> <<sets[i][j]>>]))]),
         OnA("INSERT", <<names, [i \in DOMAIN kept |-> [j \in DOMAIN kept[i] |-> Literals[kept[i][j].text]]]>>))
      EXCEPT !.ends = ends_]

TextCol(n) == [name |-> n, type |-> "VARCHAR", size |-> <<"2">>, flags |-> {}]
IntCol(n, f) == [name |-> n, type |-> "INT", size |-> <<10>>, flags |-> f]

Plain ==
  {In(<<W("CREATE"), W("DATABASE"), Nm("d")>>, Bare("CRTDB", <<"d">>)),
   In(<<W("DROP"), W("DATABASE"), Nm("d")>>, Bare("DROPDB", <<"d">>)),
   In(<<W("USE"), Nm("d")>>, Bare("USE", <<"d">>)),
   In(Ws(<<"SHOW", "DATABASES">>), Bare("SHOWDBS", <<>>)),
   In(Ws(<<"SHOW", "TABLES">>), Bare("SHOWTBLS", <<>>)),
   In(<<W("DESCRIBE"), Nm("a")>>, OnA("DESCRIBE", <<>>)),
   In(Ws(<<"DROP", "TABLE">>) \o <<Nm("d"), W("DOT"), Nm("t")>>, Bare("DROPTBL", <<"d", "t">>)),
   In(Ws(<<"DROP", "USER">>) \o At("u", "h"), Bare("DROPUSR", <<"u", "h">>)),
   In(Ws(<<"CREATE", "USER">>) \o At("u", "h") \o Ws(<<"IDENTIFIED", "BY">>) \o <<Str("p")>>,
      Bare("CRTUSR", <<"u", "h", "p">>)),
   In(Ws(<<"ALTER", "USER">>) \o At("u", "h") \o Ws(<<"IDENTIFIED", "BY">>) \o <<Str("p"), W("REPLACE"), Str("o")>>,
      Bare("ALTUSR", <<"u", "h", "p", "o">>)),
   Privileges("GRANT", "TO", "GRANT", <<Nm("d"), W("DOT"), W("ASTERISK")>>, <<"d", "ASTERISK">>),
   Privileges("REVOKE", "FROM", "REVOKE", <<W("ASTERISK"), W("DOT"), W("ASTERISK")>>, <<"ASTERISK", "ASTERISK">>),
   In(AlterA(Ws(<<"ADD", "INDEX">>) \o Nms(<<"v", "k">>)), OnA("ADDNDX", << <<"v", "k">> >>)),
   In(AlterA(Ws(<<"DROP", "INDEX">>) \o <<Nm("i")>>), OnA("DROPNDX", <<"i">>)),
   In(AlterA(Ws(<<"DROP", "COLUMN">>) \o <<Nm("v")>>), OnA("DROPCLMN", <<"v">>)),
   In(AlterA(Ws(<<"DROP", "FOREIGN", "KEY">>) \o <<Nm("f")>>), OnA("DROPFGNKEY", <<"f">>)),
   In(AlterA(Ws(<<"ADD", "COLUMN">>) \o <<Nm("c"), W("CHAR")>> \o Paren(<<Int1("2")>>) \o <<W("FIRST"), Nm("v")>>),
      OnA("ADDCLMN", <<"c">>)),
   In(AlterA(Ws(<<"ADD", "FOREIGN", "KEY">>) \o Nms(<<"v">>) \o <<W("REFERENCES"), Nm("b")>> \o Nms(<<"k">>)),
      [Bare("ADDFGNKEY", << <<"v">>, <<"k">> >>) EXCEPT !.tables = <<a, b>>]),
   In(Ws(<<"LOAD", "DATA", "INFILE">>) \o <<Str("f")>> \o Ws(<<"INTO", "TABLE">>) \o <<Nm("a")>>,
      OnA("LOADDATA", <<"f", 0>>)),
   InsertA(<<"v", "k">>, << <<Int1("1"), Int1("2")>>, <<Str("null"), Int1("1")>> >>, "done"),
   In(Ws(<<"INSERT", "INTO">>) \o <<Nm("a"), W("VALUES")>> \o Paren(<<Int1("1"), W("COMMA"), W("MINUS"), Int1("2")>>),
      OnA("INSERT", << <<"k", "v">>, << <<Literals["1"], E!Num(-2 * Scale)>> >> >>)),
   In(Ws(<<"CREATE", "TABLE">>) \o <<Nm("t")>> \o Paren(Sep(<<
        <<Nm("k"), W("INT"), W("UNSIGNED"), W("AUTO_INC")>>, <<Nm("x"), W("VARCHAR")>> \o Paren(<<Int1("2")>>),
        Ws(<<"PRIMARY", "KEY">>) \o Nms(<<"k">>), <<Nm("y"), W("INT")>>,
        <<Nm("z"), W("FLOAT")>> \o Paren(<<Int1("2"), W("COMMA"), Int1("1")>>),
        <<Nm("e"), W("ENUM")>> \o Paren(<<Str("x"), W("COMMA"), Str("y")>>),
        Ws(<<"FOREIGN", "KEY">>) \o Nms(<<"x">>) \o <<W("REFERENCES"), Nm("a")>> \o Nms(<<"k">>),
        Ws(<<"FOREIGN", "KEY">>) \o Nms(<<"y">>) \o <<W("REFERENCES"), Nm("b")>> \o Nms(<<"k">>) >>)),
      [Bare("CRTTBL", <<"", "t">>) EXCEPT
         !.work = [cols |-> <<IntCol("k", {"UNSIGNED", "AUTO_INC"} \cup KeyFlags), TextCol("x"), IntCol("y", {}),
                              [name |-> "z", type |-> "FLOAT", size |-> <<"2", "1">>, flags |-> {}],
                              [name |-> "e", type |-> "ENUM", size |-> << <<Str("x"), Str("y")>> >>, flags |-> {}]>>,
                   pk |-> <<"k">>,     \* the keys are made from the last to the first
                   fks |-> << [cols |-> <<"k">>, tbl |-> "b"], [cols |-> <<"k">>, tbl |-> "a"] >>]])}

-----------------------------------------------------------------------------
(* Statements with expressions. *)

One == Word(Int1("1"))
Two == Word(Int1("2"))
V == Ref("", "v")

\* Three and four operands under every pair, and some triples, of operators.
Ops == {"and", "or", "eq", "lt", "sub", "div"}
Threes == {Op(o, Op(p, V, One), Two) : o, p \in Ops} \cup {Op(o, V, Op(p, One, Two)) : o, p \in Ops}
Fours == UNION {{Op(o, Op(p, V, One), Op(q, Two, V)), Op(o, Op(p, Op(q, V, One), V), Two),
                 Op(o, V, Op(p, One, Op(q, Two, V)))} : o \in {"and", "ne"}, p \in {"or", "ge", "add"}, q \in {"and", "mul"}}
Others == {Op(o, Minus(V), Minus(One)) : o \in {"gt", "le", "sub"}} \cup {Op("eq", Ref("a", "v"), Word(Str("x")))}

Delete(e) == In(Ws(<<"DELETE", "FROM">>) \o <<Nm("a")>> \o <<W("WHERE")>> \o Printed(e, 1),
                [OnA("DELETE", <<>>) EXCEPT !.where = Means(e, <<a>>)])

\* UPDATE a SET v = e, v = x: the printer of bare statements sets no
\* parentheses around e.
Update(e, bare) ==
  [toks |-> <<W("UPDATE"), Nm("a"), W("SET"), Nm("v"), W("EQ")>> \o Printed(e, IF bare THEN 1 ELSE 4)
              \o <<W("COMMA"), Nm("v"), W("EQ"), Str("x"), W("WHERE")>> \o Printed(Op("eq", Ref("", "k"), One), 1),
   stmt |-> [OnA("UPDATE", <<>>) EXCEPT !.where = Means(Op("eq", Ref("", "k"), One), <<a>>),
               !.assigns = << [col |-> "v", val |-> Means(e, <<a>>)], [col |-> "v", val |-> Means(Word(Str("x")), <<a>>)] >>],
   bare |-> bare, ends |-> "done"]
Logic == {Op("or", V, One), Op("and", V, One), Op("eq", V, One)}

\* SELECT es FROM ts (joins js) WHERE w ORDER BY os INTO OUTFILE f.
Star(q) == [op |-> "star", q |-> q]
On(kind, e) == [kind |-> kind, on |-> e, using |-> <<>>]
Using(kind, cs) == [kind |-> kind, on |-> None, using |-> cs]
Words == [inner |-> <<"INNER", "JOIN">>, left |-> <<"LEFT", "OUTER", "JOIN">>, right |-> <<"RIGHT", "JOIN">>,
          cross |-> <<"JOIN">>]
Listed(e, ts) ==
  IF e.op # "star" THEN <<E!compact_condition(Means(e, ts))>>
  ELSE LET of == IF e.q = "" THEN ts ELSE <<TableOf(ts, e.q)>>
       IN FlattenSeq([i \in DOMAIN of |-> [j \in DOMAIN Schemas[of[i].tbl] |-> E!Col(of[i], Schemas[of[i].tbl][j].name)]])
Condition(j, i, ts) ==
  E!compact_condition(IF j.using = <<>> THEN Means(j.on, ts)
    ELSE Conjunction([c \in DOMAIN j.using |-> E!Oper("eq", E!Col(ts[i], j.using[c]), E!Col(ts[i + 1], j.using[c]))]))
\* JOIN alone marks the table before it.
Chain(ts, js) ==
  IF js = <<>> THEN <<>>
  ELSE [i \in DOMAIN ts |-> [tbl |-> ts[i],
          action |-> IF i <= Len(js) /\ js[i].kind = "cross" THEN "cross"
                     ELSE IF i = 1 \/ js[i - 1].kind = "cross" THEN "none" ELSE js[i - 1].kind,
          on |-> IF i = 1 THEN None ELSE Condition(js[i - 1], i - 1, ts)]]

Select(es, ts, js, w, os, f, bare) ==
  LET lo == IF bare THEN 1 ELSE 2
      keys == [i \in DOMAIN os |-> Means(os[i], ts)]
      joined(i) == Ws(Words[js[i].kind]) \o PrintedTable(ts[i + 1])
        \o IF js[i].using = <<>> THEN <<W("ON")>> \o Printed(js[i].on, lo) ELSE <<W("USING")>> \o Nms(js[i].using)
  IN [toks |-> <<W("SELECT")>> \o Sep([i \in DOMAIN es |-> Printed(es[i], lo)])
        \o <<W("FROM")>> \o PrintedTable(ts[1]) \o FlattenSeq([i \in DOMAIN js |-> joined(i)])
        \o (IF w = None THEN <<>> ELSE <<W("WHERE")>> \o Printed(w, 1))
        \o (IF os = <<>> THEN <<>> ELSE Ws(<<"ORDER", "BY">>) \o Sep([i \in DOMAIN os |-> Printed(os[i], 7)]))
        \o (IF f = None THEN <<>> ELSE Ws(<<"INTO", "OUTFILE">>) \o <<Str(f)>>),
      stmt |-> [Bare("SELECT", <<>>) EXCEPT !.tables = ts, !.chain = Chain(ts, js),
                  !.exprs = keys \o FlattenSeq([i \in DOMAIN es |-> Listed(es[i], ts)]), !.order = keys,
                  !.where = IF w = None THEN None ELSE Means(w, ts), !.file = f],
      bare |-> bare, ends |-> "done"]

ab == <<a, b>>
aba == <<Tbl("a", "x"), b, Tbl("a", "c")>>
Eq(q, c, r, d) == Op("eq", Ref(q, c), Ref(r, d))
AndOn(q) == Op("and", Eq(q, "k", "b", "k"), Op("eq", Ref("b", "w"), Word(Str("x"))))
Selects(bare) ==
  {Select(<<Star("")>>, <<a>>, <<>>, None, <<>>, None, bare),
   Select(<<V, Star("a"), Op("mul", Minus(One), Two)>>, <<a>>, <<>>, Op("and", V, One), <<V, Ref("a", "k")>>, "f", bare),
   Select(<<Star(""), Ref("b", "w")>>, ab, <<Using("left", <<"k">>)>>, None, <<>>, None, bare),
   Select(<<V>>, ab, <<Using("right", <<"k", "w">>)>>, Op("or", V, One), <<>>, None, bare),
   Select(<<Star("c"), Ref("b", "w")>>, aba, <<On("cross", Eq("x", "k", "b", "k")), Using("inner", <<"k">>)>>, None, <<V>>, None, bare),
   Select(<<Star("")>>, aba, <<Using("inner", <<"k">>), On("left", Op("lt", Ref("c", "v"), Op("add", Two, One)))>>,
          Op("and", V, Op("or", One, Ref("b", "w"))), <<>>, None, bare)}
Ands(bare) ==
  {Select(<<Op("and", V, One), Star("")>>, <<a>>, <<>>, None, <<>>, None, bare),
   Select(<<Star("")>>, ab, <<On("inner", AndOn("a"))>>, None, <<>>, None, bare),
   Select(<<Star("")>>, aba, <<On("inner", AndOn("x")), Using("left", <<"k">>)>>, None, <<>>, None, bare)}

Good == Plain \cup {Delete(e) : e \in Threes \cup Fours \cup Others} \cup {Update(e, FALSE) : e \in Logic \cup {V, Minus(One)}}
        \cup Selects(FALSE) \cup Ands(FALSE)
Unparenthesised == {Update(e, TRUE) : e \in Logic} \cup Ands(TRUE)

-----------------------------------------------------------------------------
(* Texts that mean nothing, or something else: a token is missing, or stands *)
(* one place too early.                                                      *)

Swap(ts, i) == [ts EXCEPT ![i] = ts[i + 1], ![i + 1] = ts[i]]
Damaged ==
  {Meaningless(ts) : ts \in
     UNION {{RemoveAt(g.toks, i) : i \in DOMAIN g.toks} \cup {Swap(g.toks, i) : i \in 1..(Len(g.toks) - 1)}
            : g \in Plain \cup Selects(FALSE) \cup {Update(One, FALSE), Delete(Op("eq", V, One))}}}

\* Inserts with a set of too many values, of too few, and with a value that
\* the column of its place does not take, behind others.
Halfway ==
  {InsertA(<<"v", "k">>, << <<Int1("1"), Int1("1")>>, <<Int1("2"), Int1("1"), Int1("1")>> >>, "half"),
   InsertA(<<"k", "v">>, << <<Int1("1"), Int1("1")>>, <<Int1("2"), Str("null")>>, <<Int1("2")>> >>, "half"),
   InsertA(<<"v", "k">>, << <<Int1("1"), Int1("1")>>, <<Int1("2"), Str("x")>> >>, "half"),
   InsertA(<<"k", "v">>, << <<Int1("1"), Int1("1")>>, <<Str("null"), Int1("1")>> >>, "half")}

\* What the README documents and the program refuses: ALTER DATABASE (line 46),
\* ADD UNIQUE INDEX and DROP with a list of columns (213-222), the privilege
\* CREATE USER (301), and tables separated by commas (361-362).
Undone ==
  LET undone(ts, stmt_) == [In(ts, stmt_) EXCEPT !.ends = "refused"]
      user_right == <<"create_user_priv">>
      onAll == <<W("CREATE"), W("USER"), W("ON"), W("ASTERISK")>>
  IN {undone(<<W("ALTER"), W("DATABASE"), Nm("d")>>, Bare("ALTDB", <<"d">>)),
      undone(AlterA(Ws(<<"ADD", "UNIQUE", "INDEX">>) \o Nms(<<"v">>)), OnA("ADDUNINDX", << <<"v">> >>)),
      undone(AlterA(Ws(<<"DROP", "INDEX">>) \o Nms(<<"v">>)), OnA("DROPNDX", << <<"v">> >>)),
      undone(AlterA(Ws(<<"DROP", "UNIQUE", "INDEX">>) \o Nms(<<"v">>)), OnA("DROPNDX", << <<"v">> >>)),
      undone(AlterA(Ws(<<"DROP", "FOREIGN", "KEY">>) \o Nms(<<"v">>) \o <<W("REFERENCES"), Nm("b")>> \o Nms(<<"k">>)),
              [Bare("DROPFGNKEY", << <<"v">>, <<"k">> >>) EXCEPT !.tables = <<a, b>>]),
      undone(<<W("GRANT")>> \o onAll \o <<W("TO")>> \o At("u", "h"),
              Bare("GRANT", <<user_right, "", "ASTERISK", "u", "h">>)),
      undone(<<W("REVOKE")>> \o onAll \o <<W("FROM")>> \o At("u", "h"),
              Bare("REVOKE", <<user_right, "", "ASTERISK", "u", "h">>)),
      undone(Ws(<<"SELECT", "ASTERISK", "FROM">>) \o Sep(<< <<Nm("a")>>, <<Nm("b")>> >>), [Bare("SELECT", <<>>) EXCEPT !.tables = ab])}

\* Statements that the parser, the compiler or a handler refuses.
Refused ==
  {Meaningless(ts) : ts \in
     {Ws(<<"ALTER", "USER", "USER", "L_PAREN", "R_PAREN", "IDENTIFIED", "BY">>) \o <<Str("p")>>,
      Ws(<<"SELECT", "ASTERISK", "FROM">>) \o <<Nm("a")>> \o Ws(<<"CROSS", "JOIN">>) \o <<Nm("b")>>,
      <<W("SELECT"), Nm("w"), W("FROM"), Nm("b"), W("ORDER"), W("BY"), Nm("q")>>,
      <<W("SELECT"), W("MINUS"), Nm("w"), W("FROM"), Nm("b")>>, <<W("SELECT"), Nm("v"), W("FROM"), Nm("q")>>,
      Ws(<<"INSERT", "INTO">>) \o <<Nm("a")>> \o Nms(<<"k", "q">>) \o <<W("VALUES")>> \o Paren(<<Int1("1"), W("COMMA"), Int1("1")>>),
      Ws(<<"INSERT", "INTO">>) \o <<Nm("a")>> \o Nms(<<"k">>) \o <<W("VALUES")>> \o Paren(<<Int1("1")>>),
      <<W("UPDATE"), Nm("a"), W("SET"), Nm("k"), W("EQ"), Int1("2")>>,
      Ws(<<"CREATE", "TABLE">>) \o <<Nm("t")>> \o Paren(<<Nm("x"), W("INT"), W("COMMA")>> \o Ws(<<"FOREIGN", "KEY">>)
        \o Nms(<<"x">>) \o <<W("REFERENCES"), Nm("a")>> \o Nms(<<"v">>))}}

MCInputs == Good \cup Unparenthesised \cup Halfway \cup Undone \cup Damaged \cup Refused
=============================================================================
