------------------------------ MODULE MCTables ------------------------------
EXTENDS Tables

Col(n, f) == [name |-> n, refs |-> <<>>, flag |-> f]
Row(x, y) == [a |-> x, b |-> y]

\* A parent and two child tables of columns a and b with primary key (a).
Plain == [cols |-> <<Col("a", {"PRIMARY", "NOT_NULL", "UNIQUE"}), Col("b", {})>>,
          ndx |-> << [name |-> 0, cols |-> <<"a">>] >>, fgn |-> <<>>]

\* The same with a foreign key (a), and the parent of such a table t, as ALTER
\* TABLE makes them.
Child == [Plain EXCEPT !.fgn = << [name |-> 0, tbl |-> "p", cols |-> <<"a">>] >>]
ParentOf(t) == [Plain EXCEPT !.cols[1].refs = << [name |-> 0, tbl |-> t, fgn |-> 0] >>]
MCInstalled == [p |-> ParentOf("d"), c |-> Plain, d |-> Child]
MCReferring == [p |-> ParentOf("c"), c |-> Child]

RowStatements ==
  {[op |-> "insert", tbl |-> "p", new |-> <<Row(1, 1), Row(2, Bad)>>],
   [op |-> "insert", tbl |-> "c", new |-> <<Row(1, 1), Row(1, 2), Row(2, 1)>>],
   [op |-> "load", tbl |-> "c", new |-> <<Row(1, 2), Row(1, 1), Row(2, 1)>>],
   [op |-> "update", tbl |-> "c", new |-> <<>>, cond |-> [col |-> "b", val |-> 1], set |-> [col |-> "b", val |-> 2]],
   [op |-> "update", tbl |-> "c", new |-> <<>>, cond |-> [col |-> "b", val |-> 2], set |-> [col |-> "a", val |-> 1]],
   [op |-> "update", tbl |-> "c", new |-> <<>>, cond |-> [col |-> "b", val |-> 1], set |-> [col |-> "b", val |-> Bad]],
   [op |-> "delete", tbl |-> "c", new |-> <<>>, cond |-> [col |-> "b", val |-> 2]]}

SchemaStatements ==
  {[op |-> "select", tbls |-> <<"c", "p">>],
   [op |-> "add_fk", tbl |-> "c", cols |-> <<"a">>, to |-> "p", fcols |-> <<"a">>],
   [op |-> "add_fk", tbl |-> "p", cols |-> <<"a">>, to |-> "c", fcols |-> <<"a">>],
   [op |-> "drop_fk", tbl |-> "d", fk |-> 0],
   [op |-> "drop_fk", tbl |-> "c", fk |-> 0],
   [op |-> "add_index", tbl |-> "c", cols |-> <<"b">>],
   [op |-> "add_index", tbl |-> "p", cols |-> <<"b", "x">>],
   [op |-> "drop_index", tbl |-> "c", ndx |-> 1],
   [op |-> "alter_column", tbl |-> "p"],
   [op |-> "create", tbl |-> "c", cols |-> <<"a", "b">>, pk |-> <<"b">>,
    fks |-> << [cols |-> <<"b">>, to |-> "p", fcols |-> <<"a">>] >>],
   [op |-> "create", tbl |-> "p", cols |-> <<"a", "b">>, pk |-> <<"a">>, fks |-> <<>>],
   [op |-> "drop", tbl |-> "c"], [op |-> "drop", tbl |-> "p"]}

\* The sessions are alike.
Alike == Permutations(Sessions)

MCStatements == RowStatements \cup SchemaStatements
=============================================================================
