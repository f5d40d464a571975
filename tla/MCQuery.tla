------------------------------ MODULE MCQuery -------------------------------
EXTENDS Query

MCTableNames == {"a", "b", "c", "d", "e"}
MCCols == {"k", "v"}

\* b has a foreign key to c, and c one to d, over the column k.
MCForeign == [t \in MCTableNames |->
  CASE t = "b" -> << [tbl |-> "c", cols |-> <<"k">>] >>
    [] t = "c" -> << [tbl |-> "d", cols |-> <<"k">>] >>
    [] OTHER -> <<>>]

N(n) == Num(n * Scale)
MCWide == {N(2)}
MCLeftovers == {N(0), N(7)}
R(x, y) == [k |-> x, v |-> y]

\* The rows of a table: none, one, or two, with equal values, NULLs and
\* negative numbers.
Contents == {<<>>, <<R(N(1), N(1))>>, <<R(N(1), N(2)), R(N(2), Null)>>, <<R(N(2), N(1)), R(N(3), N(1))>>}

\* Two tables have any contents, a third all but one of them, the others (of
\* the longer chains) one.
MCDatabases ==
  {[t \in MCTableNames |->
      CASE t = "a" -> x [] t = "b" -> y [] t = "c" -> z
        [] t = "d" -> <<R(N(1), N(2)), R(N(2), N(-3)), R(N(3), N(-2))>>
        [] t = "e" -> <<R(N(2), N(2)), R(N(1), N(12))>>]
     : x, y \in Contents, z \in Contents \ {<<R(N(1), N(1))>>}}

J(k, e) == [kind |-> k, on |-> e]
On(t, c, u, d) == Oper("eq", Col(t, c), Col(u, d))
Q(ts, js, es, w, o) == [tables |-> ts, joins |-> js, exprs |-> es, where |-> w, order |-> o]

\* One table: expressions, constants that are folded and some that are not,
\* a large number, and ORDER BY over two columns.
Singles ==
  {Q(<<"a">>, <<>>, <<Oper("add", Col("a", "v"), Whole(1)), Oper("add", Whole(2), Whole(2))>>,
     Oper("or", Oper("gt", Col("a", "v"), Whole(1)), Oper("eq", Text(1), Text(1))), <<>>),
   Q(<<"a">>, <<>>, <<Oper("div", Whole(1), Whole(2)), Oper("mul", Col("a", "v"), Whole(1234)),
                      Oper("sub", Oper("div", Whole(3), Whole(2)), Col("a", "k"))>>, None, <<Col("a", "v"), Col("a", "k")>>),
   Q(<<"a">>, <<>>, <<Oper("div", Whole(1), Oper("sub", Col("a", "k"), Whole(2)))>>, None, <<>>),
   Q(<<"a">>, <<>>, <<Oper("ge", Oper("div", Whole(1), Whole(0)), Whole(1)),
                      Oper("ne", Oper("div", Whole(0), Whole(0)), Whole(1))>>,
     Oper("and", Oper("lt", Col("a", "k"), Whole(2)), Oper("le", Whole(1), Whole(1))), <<>>),
   Q(<<"a">>, <<>>, <<Oper("add", Col("a", "v"), Text(1))>>, None, <<>>),
   Q(<<"d">>, <<>>, <<Oper("div", Col("d", "v"), Whole(8)), Oper("div", Whole(7), Whole(30))>>, None, <<>>),
   Q(<<"a">>, <<>>, <<Col("a", "v")>>, Oper("gt", Oper("add", Text(1), Col("a", "k")), Whole(0)), <<>>),
   Q(<<"d">>, <<>>, <<Col("d", "v")>>, None, <<Col("d", "v"), Col("d", "k")>>)}

Two(kind, w) == Q(<<"a", "b">>, <<J(kind, On("a", "v", "b", "k"))>>, <<Col("a", "k"), Col("b", "v")>>, w, <<>>)
Pairs ==
  {Two(kind, None) : kind \in {"inner", "left", "right", "cross"}}
  \cup {Two(kind, Oper("eq", Col("b", "v"), Whole(1))) : kind \in {"inner", "left"}}
  \cup {Q(<<"a", "b">>, <<J("inner", Oper("lt", Col("b", "v"), Oper("add", Col("a", "v"), Text(1))))>>,
          <<Col("a", "k")>>, None, <<>>)}

Triple(k1, k2, on, w) == Q(<<"a", "b", "c">>, <<J(k1, On("a", "v", "b", "k")), J(k2, on)>>, <<Col("c", "v")>>, w, <<>>)
Triples ==
  {Triple(k1, k2, On("b", "v", "c", "v"), None) : k1, k2 \in {"inner", "left", "right"}}
  \cup {Triple("inner", "inner", on, None) : on \in {On("b", "k", "c", "k"), On("a", "k", "c", "k")}}
  \cup {Triple("left", "left", On("b", "k", "c", "k"), None),
        Triple("cross", "right", On("b", "v", "c", "v"), None),
        Triple("inner", "cross", On("b", "v", "c", "v"), None),
        Triple("inner", "inner", On("c", "v", "b", "v"), Oper("gt", Col("a", "k"), Whole(1)))}

\* A RIGHT JOIN in the middle: the table after it keeps its index on the key
\* of a table that is now elsewhere in the chain.
Long ==
  {Q(<<"b", "a", "c">>, <<J("right", On("a", "v", "b", "k")), J("left", On("b", "k", "c", "k"))>>,
     <<Col("a", "k")>>, None, <<>>),
   Q(<<"a", "b", "c", "d", "e">>,
     <<J("inner", On("a", "k", "b", "k")), J("inner", On("b", "v", "c", "v")),
       J("inner", On("c", "v", "d", "k")), J("inner", On("d", "v", "e", "v"))>>,
     <<Oper("add", Col("a", "k"), Col("e", "k"))>>, None, <<Col("e", "k"), Col("c", "k")>>)}

MCQueries == Singles \cup Pairs \cup Triples \cup Long
=============================================================================
