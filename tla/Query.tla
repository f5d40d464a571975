------------------------------- MODULE Query --------------------------------
(***************************************************************************)
(* SELECT in the virtual machine: the chain of tables that the join        *)
(* instructions build, its rewriting by vm::make_query, and the nested     *)
(* loops of vm::exec_join that produce the result.                         *)
(*                                                                         *)
(* An item of the chain is a table with the join that attaches it to the   *)
(* item before.  Columns of the SELECT expressions, of the ON conditions   *)
(* and of the WHERE condition hold the values of the row they were last    *)
(* set from, all columns of a table together: env and whereEnv give for    *)
(* every table the position of that row, 0 for the NULLs.                  *)
(***************************************************************************)
EXTENDS Expr, Sequences, FiniteSets, SequencesExt

CONSTANTS
  TableNames,   \* the tables of the database
  Cols,         \* the columns of every table; "k" is the primary key
  Foreign,      \* [table -> Seq([tbl, cols])]: the foreign keys of a table
  Wide,         \* the values that fill the width of their column
  Databases,    \* the databases: [table -> Seq([column -> value])]
  Queries,      \* the statements: [tables, joins, exprs, where, order]
  Unit,         \* m_out_prec: results are put out in multiples of Unit / Scale
  Leftovers,    \* the numbers an uninitialized float may hold
  None          \* no condition

ASSUME QueryAssumption == Unit \in Nat \ {0} /\ Leftovers # {}

VARIABLES
  query,        \* the statement
  db,           \* the rows of the tables, in the order of the row list
  step,         \* what the machine does next
  chain,        \* Seq([tbl, action, on, opt, fgn]): m_head .. m_tail
  inner,        \* m_have_inner_join
  pos,          \* the item whose loop is running
  cursor,       \* m_diter of every item
  row,          \* m_row of every item, by table
  env,          \* the rows that the SELECT expressions were set from
  whereEnv,     \* the rows that the WHERE condition was set from
  did_output,   \* m_did_output
  out           \* m_output: Seq([key, at, vals])

vars == <<query, db, step, chain, inner, pos, cursor, row, env, whereEnv, did_output, out>>

NoRows == [t \in TableNames |-> 0]
NullRow == [c \in Cols |-> Null]

\* The values of all columns when they are set from the rows of at.
Values(at) == [t \in TableNames |-> IF at[t] = 0 THEN NullRow ELSE db[t][at[t]]]

Item(t, a, on) == [tbl |-> t, action |-> a, on |-> on, opt |-> None, fgn |-> 0]

Init ==
  /\ query \in Queries /\ db \in Databases
  /\ step = "join" /\ chain = <<>> /\ inner = FALSE /\ pos = 1
  /\ cursor = [i \in 1..Len(query.tables) |-> 1]
  /\ row = NoRows /\ env = NoRows /\ whereEnv = NoRows
  /\ did_output = FALSE /\ out = <<>>

-----------------------------------------------------------------------------
(* Building the chain. *)

\* The chain the next join extends: the first one takes two tables.
Begun == IF chain = <<>> THEN <<Item(query.tables[1], "none", None)>> ELSE chain

\* INNER, LEFT and RIGHT JOIN mark the table they attach.
Attach(ch, t, kind, on) == Append(ch, Item(t, kind, on))

\* CROSS JOIN, and JOIN alone, mark the table before it.
cross_join(ch, t, on) ==
  Append([ch EXCEPT ![Len(ch)].action = "cross"], Item(t, "none", on))

Join ==
  /\ step = "join" /\ Len(Begun) < Len(query.tables)
  /\ LET j == query.joins[Len(Begun)]
         t == query.tables[Len(Begun) + 1]
         on == compact_condition(j.on)
     IN chain' = IF j.kind = "cross" THEN cross_join(Begun, t, on)
                 ELSE Attach(Begun, t, j.kind, on)
  /\ UNCHANGED <<query, db, step, inner, pos, cursor, row, env, whereEnv, did_output, out>>

\* Seen from the other side, a RIGHT JOIN is a LEFT JOIN; a LEFT JOIN becomes
\* an INNER JOIN.
Flip(a) == CASE a = "left" -> "inner" [] a = "right" -> "left" [] OTHER -> a

\* The first n tables in the reverse order, the joins moved one table on; the
\* table after them remembers the table it was joined to.
Reversed(ch, n) ==
  [i \in 1..Len(ch) |->
     IF i = 1 THEN Item(ch[n].tbl, "none", None)
     ELSE IF i <= n THEN Item(ch[n + 1 - i].tbl, Flip(ch[n + 2 - i].action), ch[n + 2 - i].on)
     ELSE IF i = n + 1 THEN [ch[i] EXCEPT !.opt = ch[n].tbl]
     ELSE ch[i]]

\* The chain is turned around its last RIGHT JOIN, else its first half is, if
\* there is a table in the middle of five or more.
Rewritten(ch) ==
  LET rights == {i \in 1..Len(ch) : ch[i].action = "right"}
      middle == (Len(ch) + 1) \div 2
  IN CASE rights # {} -> Reversed(ch, CHOOSE i \in rights : \A j \in rights : j <= i)
       [] rights = {} /\ Len(ch) % 2 = 1 /\ middle > 2 -> Reversed(ch, middle)
       [] OTHER -> ch

\* The columns of table r that a comparison of on relates to a column of l.
RECURSIVE make_column_list(_, _, _)
make_column_list(on, l, r) ==
  CASE on.op \in Compare /\ on.l.op = "col" /\ on.r.op = "col" ->
         {c.col : c \in {x \in {on.l, on.r} : x.tbl = r /\ \E y \in {on.l, on.r} : y.tbl = l}}
    [] on.op \in {"and", "or"} -> make_column_list(on.l, l, r) \cup make_column_list(on.r, l, r)
    [] OTHER -> {}

\* The first foreign key of prev to next that the condition of next covers.
get_index_name(prev, next) ==
  LET fits == {i \in DOMAIN Foreign[prev.tbl] :
                 /\ Foreign[prev.tbl][i].tbl = next.tbl
                 /\ Range(Foreign[prev.tbl][i].cols) \subseteq make_column_list(next.on, prev.tbl, next.tbl)}
  IN IF fits = {} THEN 0 ELSE CHOOSE i \in fits : \A j \in fits : i <= j

\* A join index needs a condition on the item before: the first join has none.
Indexed(ch) ==
  [i \in 1..Len(ch) |->
     IF i < 3 THEN ch[i] ELSE [ch[i] EXCEPT !.fgn = get_index_name(ch[i - 1], ch[i])]]

make_query ==
  /\ step = "join" /\ Len(Begun) = Len(query.tables)
  /\ inner' = \E i \in 2..Len(Begun) : Begun[i].action = "inner"
  /\ chain' = Indexed(Rewritten(Begun))
  /\ step' = IF Len(Begun) = 1 \/ chain'[2].action \in {"inner", "left"} THEN "outer" ELSE "done"
  /\ UNCHANGED <<query, db, pos, cursor, row, env, whereEnv, did_output, out>>

-----------------------------------------------------------------------------
(* The loops. *)

Final == Len(chain)

\* vm::exec_join of the item after k, from the loop of item k.
Continue(k) ==
  CASE k < Final /\ chain[k + 1].action \in {"inner", "left"} ->
         /\ step' = "scan" /\ pos' = k + 1 /\ cursor' = [cursor EXCEPT ![k + 1] = 1]
    [] k < Final /\ chain[k + 1].action \notin {"inner", "left"} ->
         cursor' = [cursor EXCEPT ![k] = @ + 1] /\ UNCHANGED <<step, pos>>
    [] k = Final ->
         /\ step' = (IF query.where = None THEN "output" ELSE "where")
         /\ pos' = k /\ UNCHANGED cursor

\* Fault for Return: the cursor stays.
ReturnSame(k) ==
  /\ step' = (IF k = 1 THEN "outer" ELSE "scan")
  /\ pos' = k /\ UNCHANGED cursor

\* Back in the loop of item k, to its next row.
Return(k) ==
  /\ step' = (IF k = 1 THEN "outer" ELSE "scan")
  /\ pos' = k /\ cursor' = [cursor EXCEPT ![k] = @ + 1]

First == chain[1].tbl

\* The loop over the first table: of vm::exec_query when it is the only one,
\* else of the join of the second.
exec_query ==
  /\ step = "outer" /\ Final = 1 /\ cursor[1] <= Len(db[First])
  /\ row' = [row EXCEPT ![First] = cursor[1]]
  /\ env' = [NoRows EXCEPT ![First] = cursor[1]]
  /\ whereEnv' = [whereEnv EXCEPT ![First] = cursor[1]]
  /\ Continue(1)
  /\ UNCHANGED <<query, db, chain, inner, did_output, out>>

\* Fault for exec_outer: did_output is left from the row before.
OuterNoReset ==
  /\ step = "outer" /\ Final > 1 /\ cursor[1] <= Len(db[First])
  /\ row' = [row EXCEPT ![First] = cursor[1]]
  /\ env' = NoRows
  /\ step' = "scan" /\ pos' = 2 /\ cursor' = [cursor EXCEPT ![2] = 1]
  /\ UNCHANGED <<query, db, chain, inner, whereEnv, did_output, out>>

exec_outer ==
  /\ step = "outer" /\ Final > 1 /\ cursor[1] <= Len(db[First])
  /\ row' = [row EXCEPT ![First] = cursor[1]]
  /\ env' = NoRows
  /\ did_output' = (did_output /\ chain[2].action # "left")
  /\ step' = "scan" /\ pos' = 2 /\ cursor' = [cursor EXCEPT ![2] = 1]
  /\ UNCHANGED <<query, db, chain, inner, whereEnv, out>>

\* The table that the condition of item k is evaluated against.
Prev(k) == IF chain[k].opt = None THEN chain[k - 1].tbl ELSE chain[k].opt

\* The rows the loop of item k visits: all of them, or the one that the
\* primary key index finds for the foreign key of the row before.  The key is
\* put together from the bare values and those of the index are padded to the
\* width of the column.
Candidates(k) ==
  LET t == chain[k].tbl
      f == Foreign[Prev(k)][chain[k].fgn].cols
      key == [i \in DOMAIN f |-> db[Prev(k)][row[Prev(k)]][f[i]]]
  IN IF chain[k].fgn = 0 THEN [i \in 1..Len(db[t]) |-> i]
     ELSE SetToSeq({i \in 1..Len(db[t]) : key = <<db[t][i]["k"]>> /\ key[1] \in Wide})

\* The foreign key was found in the table before in the chain and is looked up
\* in the one the condition is about.
KnownKey(k) == chain[k].fgn \in {0} \cup DOMAIN Foreign[Prev(k)]

\* The condition of item k at row i: the other tables' columns are never set.
OnValues(k, i) == [NoRows EXCEPT ![Prev(k)] = row[Prev(k)], ![chain[k].tbl] = i]

\* The rows an accepted row adds: the first join sets both tables, a later one
\* its own.
SetRows(e, k, i) ==
  IF k = 2 THEN [e EXCEPT ![First] = row[First], ![chain[k].tbl] = i]
  ELSE [e EXCEPT ![chain[k].tbl] = i]

\* vm::exec_inner_join_* and vm::exec_left_join_*: one row of the loop.
exec_scan ==
  /\ step = "scan" /\ KnownKey(pos) /\ cursor[pos] <= Len(Candidates(pos))
  /\ LET i == Candidates(pos)[cursor[pos]]
         res == exec_condition(chain[pos].on, Values(OnValues(pos, i)))
     IN /\ row' = [row EXCEPT ![chain[pos].tbl] = i]
        /\ \/ /\ res = Bool(TRUE)
              /\ env' = SetRows(env, pos, i) /\ whereEnv' = SetRows(whereEnv, pos, i)
              /\ Continue(pos)
           \/ /\ res \notin {Bool(TRUE), Err}
              /\ Return(pos) /\ UNCHANGED <<env, whereEnv>>
           \/ /\ res = Err
              /\ step' = "error" /\ UNCHANGED <<pos, cursor, env, whereEnv>>
  /\ UNCHANGED <<query, db, chain, inner, did_output, out>>

\* The loop of a later table is over.
exec_scanned ==
  /\ step = "scan" /\ pos > 2 /\ KnownKey(pos) /\ cursor[pos] > Len(Candidates(pos))
  /\ Return(pos - 1)
  /\ UNCHANGED <<query, db, chain, inner, row, env, whereEnv, did_output, out>>

\* vm::schema::get_foreign throws.
exec_no_key ==
  /\ step = "scan" /\ ~KnownKey(pos)
  /\ step' = "error"
  /\ UNCHANGED <<query, db, chain, inner, pos, cursor, row, env, whereEnv, did_output, out>>

\* vm::exec_where.
exec_where ==
  /\ step = "where"
  /\ LET res == exec_condition(query.where, Values(whereEnv))
     IN \/ res = Bool(TRUE) /\ step' = "output" /\ UNCHANGED <<pos, cursor>>
        \/ res \notin {Bool(TRUE), Err} /\ Return(Final)
        \/ res = Err /\ step' = "error" /\ UNCHANGED <<pos, cursor>>
  /\ UNCHANGED <<query, db, chain, inner, row, env, whereEnv, did_output, out>>

-----------------------------------------------------------------------------
(* The result. *)

\* Where a number goes in the order of the keys: it is printed right adjusted
\* after zeros, so NULL reads as 0, and of two negative numbers of a length the
\* smaller comes last ('-' is before '0').
KeyRank(v) == IF v.v >= 0 THEN v.v ELSE -v.v - 2 * 10^Digits(-v.v)

\* Fault for Key: the keys of a row in the reverse order.
KeyBackwards(at) == LET o == Reverse(query.order) IN [i \in DOMAIN o |-> KeyRank(exec_condition(o[i], Values(at)))]

\* The key of a row: the ORDER BY columns, else its number.
Key(at) == IF query.order = <<>> THEN <<Len(out)>>
           ELSE [i \in DOMAIN query.order |-> KeyRank(exec_condition(query.order[i], Values(at)))]

\* The order of two keys of the same length.
Before(k1, k2) == \E i \in DOMAIN k1 : k1[i] < k2[i] /\ \A j \in 1..(i - 1) : k1[j] = k2[j]

\* m_output is a multimap: a row goes after those with its key.
Inserted(r) ==
  LET n == Cardinality({i \in DOMAIN out : ~Before(r.key, out[i].key)})
  IN SubSeq(out, 1, n) \o <<r>> \o SubSeq(out, n + 1, Len(out))

\* A number read as a float and printed std::fixed with m_out_prec decimals:
\* the nearest multiple of Unit, the even one of two.
Fixed[n \in Int] ==
  LET q == n \div Unit
      twice == 2 * (n % Unit)
  IN (q + (IF twice > Unit \/ (twice = Unit /\ q % 2 = 1) THEN 1 ELSE 0)) * Unit

\* The expressions whose result is put out so: operations that were not folded
\* and float constants.
Refixed(e) == e.op \in Math \/ IsLit(e, {"float"})

\* What the result res of the folded expression e is put out as: inf and nan
\* are not numbers to an istream and give 0, from NULL it reads nothing and the
\* local variable stays uninitialized, at x.
PutOut(e, res, x) ==
  CASE ~Refixed(e) \/ res = Err -> res
    [] Refixed(e) /\ res.k = "num" -> Num(Fixed[res.v])
    [] Refixed(e) /\ res.k = "inf" -> Num(0)
    [] Refixed(e) /\ res = Null -> x

OutputRow(at, left) == [key |-> Key(at), at |-> at,
  vals |-> [i \in DOMAIN query.exprs |->
              LET e == compact_condition(query.exprs[i])
              IN PutOut(e, exec_condition(e, Values(at)), left[i])]]

\* vm::output_expr_list for the rows at, then back to item k.
output_expr_list(at, k) ==
  /\ did_output' = TRUE /\ env' = at
  /\ \E left \in [DOMAIN query.exprs -> Leftovers] :
       LET r == OutputRow(at, left)
       IN \/ Err \notin Range(r.vals) /\ out' = Inserted(r) /\ Return(k)
          \/ Err \in Range(r.vals) /\ step' = "error" /\ UNCHANGED <<out, pos, cursor>>

exec_output ==
  /\ step = "output"
  /\ output_expr_list(env, Final)
  /\ UNCHANGED <<query, db, chain, inner, row, whereEnv>>

\* The loop of the second table is over: a LEFT JOIN that put out nothing adds
\* the row of the first table, past the WHERE condition, unless the statement
\* has an INNER JOIN.
exec_left_join ==
  /\ step = "scan" /\ pos = 2 /\ cursor[2] > Len(Candidates(2))
  /\ \/ /\ chain[2].action = "left" /\ ~did_output /\ ~inner
        /\ output_expr_list([env EXCEPT ![First] = row[First]], 1)
     \/ /\ chain[2].action # "left" \/ did_output \/ inner
        /\ Return(1) /\ UNCHANGED <<env, did_output, out>>
  /\ UNCHANGED <<query, db, chain, inner, row, whereEnv>>

Done ==
  /\ step = "outer" /\ cursor[1] > Len(db[First])
  /\ step' = "done"
  /\ UNCHANGED <<query, db, chain, inner, pos, cursor, row, env, whereEnv, did_output, out>>

\* The answer is sent: a new statement starts from a new machine.
Sent == step \in {"done", "error"} /\ UNCHANGED vars

Next ==
  \/ Join \/ make_query \/ exec_query \/ exec_outer \/ exec_scan \/ exec_scanned
  \/ exec_no_key \/ exec_where \/ exec_output \/ exec_left_join \/ Done \/ Sent

Spec == Init /\ [][Next]_vars /\ WF_vars(Next)

-----------------------------------------------------------------------------
(* What SQL says: the combinations of rows of the first n tables. *)

Conforms(e, at) == Meaning(e, Values(at)) = Bool(TRUE)

RECURSIVE Joined(_)
Joined(n) ==
  LET t == query.tables[n]
      j == query.joins[n - 1]
      with == {[at EXCEPT ![t] = i] : at \in Joined(n - 1), i \in 1..Len(db[t])}
      both == {at \in with : Conforms(j.on, at)}
      lonely == {at \in Joined(n - 1) : \A c \in both : [c EXCEPT ![t] = 0] # at}
      single == {[NoRows EXCEPT ![t] = i] : i \in {x \in 1..Len(db[t]) : \A c \in both : c[t] # x}}
  IN IF n = 1 THEN {[NoRows EXCEPT ![t] = i] : i \in 1..Len(db[t])}
     ELSE both \cup (IF j.kind = "left" THEN lonely ELSE {}) \cup (IF j.kind = "right" THEN single ELSE {})

Selected == {at \in Joined(Len(query.tables)) : query.where = None \/ Conforms(query.where, at)}

Result == {out[i].at : i \in DOMAIN out}

\* The result has the rows SQL asks for, each once.
Exact == Result = Selected /\ Len(out) = Cardinality(Result)

Kinds == {query.joins[i].kind : i \in DOMAIN query.joins}

RECURSIVE TablesOf(_)
TablesOf(e) == CASE e.op = "col" -> {e.tbl} [] e.op = "lit" -> {} [] OTHER -> TablesOf(e.l) \cup TablesOf(e.r)

\* Every ON condition is about its table and the one before it.
Neighbours == \A i \in DOMAIN query.joins :
  TablesOf(query.joins[i].on) \subseteq {query.tables[i], query.tables[i + 1]}

-----------------------------------------------------------------------------
(* Properties. *)

\* The machine's fields have their types (vm.h).
TypeOK ==
  /\ step \in {"join", "outer", "scan", "where", "output", "done", "error"}
  /\ pos \in 1..Len(query.tables) /\ Len(chain) <= Len(query.tables)
  /\ inner \in BOOLEAN /\ did_output \in BOOLEAN
  /\ \A t \in TableNames : {row[t], env[t], whereEnv[t]} \subseteq 0..Len(db[t])
  /\ \A i \in DOMAIN cursor : cursor[i] > 0

\* Inner joins of any number of tables give exactly the rows of SQL when every
\* condition is about neighbouring tables and no join goes through an index:
\* the half reversed by vm::make_query (vm.cpp:4600) and m_opt_prev lose nothing.
InnerExact ==
  (step = "done" /\ Kinds \subseteq {"inner"} /\ Neighbours /\ \A i \in DOMAIN chain : chain[i].fgn = 0)
    => Exact

\* A LEFT or RIGHT JOIN of two tables without WHERE gives exactly the rows of
\* SQL, the unmatched ones included (vm::exec_left_join_0_0, vm::make_query).
OuterExact ==
  (step = "done" /\ Len(query.tables) = 2 /\ Kinds \subseteq {"left", "right"} /\ query.where = None)
    => Exact

\* No statement without WHERE puts out a combination twice, and one that takes
\* a row of every table conforms to all the conditions: neither a stale row of an
\* earlier round (vm::set_column_value) nor a condition moved to another table
\* by vm::make_query shows up.
OnlyJoined ==
  query.where = None =>
    \A i \in DOMAIN out :
      /\ \A j \in DOMAIN out : out[i].at = out[j].at => i = j
      /\ LET ts == Range(query.tables)
         IN (\A t \in ts : out[i].at[t] > 0) =>
              \A j \in DOMAIN query.joins : Conforms(query.joins[j].on, out[i].at)

\* What the loops of the joins guarantee, and the range of their fields.
JoinsSound == TypeOK /\ InnerExact /\ OuterExact /\ OnlyJoined

\* v is m, or m as near as the decimals of the output come to it.
Near(v, m, e) ==
  \/ v = m
  \/ /\ e.op \in Math /\ v.k = "num" /\ m.k = "num"
     /\ 2 * (v.v - m.v) <= Unit /\ 2 * (m.v - v.v) <= Unit

\* The values put out are those of the expressions as written, folded or not,
\* and those of operations to within half of the last decimal put out, as long
\* as the numbers have no more digits than a float is printed with, nothing is
\* divided by zero and no operation is NULL (vm::compact_condition,
\* vm::exec_condition, vm::output_expr_list).
ValuesExact ==
  \A i \in DOMAIN out : \A j \in DOMAIN query.exprs :
    LET e == query.exprs[j]
        m == Meaning(e, Values(out[i].at))
    IN (Small(e, Values(out[i].at)) /\ m # Err /\ ~(m = Null /\ e.op \in Math))
         => Near(out[i].vals[j], m, e)

\* The result of an ORDER BY is in the order of its columns, the first first,
\* when they are not negative (vm::output_expr_list).
Sorted ==
  \A i, j \in DOMAIN out : i < j =>
    LET val(n) == [c \in DOMAIN query.order |-> exec_condition(query.order[c], Values(out[n].at)).v]
    IN (\A c \in DOMAIN query.order : val(i)[c] >= 0 /\ val(j)[c] >= 0) => ~Before(val(j), val(i))

\* Every SELECT ends with an answer: the loops of the joins come to their end.
SelectEnds == <>(step \in {"done", "error"})

\* SELECT with INNER, LEFT or RIGHT joins gives the rows of SQL (README.md:47).
JoinsExact == (step = "done" /\ Kinds \subseteq {"inner", "left", "right"}) => Exact
=============================================================================
