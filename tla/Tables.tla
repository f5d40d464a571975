------------------------------- MODULE Tables -------------------------------
(***************************************************************************)
(* The statements that define tables and change their rows, as the virtual *)
(* machines of several sessions execute them.  A table is a data file, a   *)
(* schema on disk, the copy of that schema which the schema manager keeps  *)
(* (and never drops) and a block cache with a reader/writer lock.  A       *)
(* statement opens its tables one after the other, each followed by its    *)
(* lock, and then takes effect in one step with all of its locks held.     *)
(* CREATE and DROP TABLE take no lock: each call of theirs that changes a  *)
(* file, a schema or a cache is a step of its own.  What becomes of the    *)
(* pages of a table is the matter of FileCache and BTree; the rows here    *)
(* are lists, and looking a key up is exact, which BTree shows of trees    *)
(* that only grow and of trees of one leaf, and refutes of the others.     *)
(***************************************************************************)
EXTENDS Integers, Sequences, FiniteSets, SequencesExt

CONSTANTS Sessions, Names,     \* tables of the database
          Installed,           \* the schemas of the tables that exist at first
          Statements,          \* the statements the sessions may send
          MaxStatements,       \* bound on the statements of a behaviour
          None

\* The operations of the statements that reach their handler with a table.
Operations == {"insert", "load", "update", "delete", "select", "add_fk", "drop_fk",
               "add_index", "drop_index", "alter_column", "create", "drop"}

IsList(x) == x \in Seq({x[i] : i \in DOMAIN x})

\* A schema has columns, indexes and a list of foreign keys.
IsSchema(z) ==
  /\ z = [cols |-> z.cols, ndx |-> z.ndx, fgn |-> z.fgn]
  /\ IsList(z.fgn)

\* A table whose schema was never loaded or made.
NoSchema == [cols |-> <<>>, ndx |-> <<>>, fgn |-> <<>>]

\* The statements name tables of the database, and the foreign keys of the
\* installed tables too.
ASSUME TablesAssumption ==
  /\ MaxStatements \in Nat /\ None \notin Statements
  /\ DOMAIN Installed \subseteq Names
  /\ \A t \in DOMAIN Installed :
       /\ IsSchema(Installed[t])
       /\ \A i \in DOMAIN Installed[t].fgn : Installed[t].fgn[i].tbl \in DOMAIN Installed
  /\ \A st \in Statements :
       /\ st.op \in Operations
       /\ IF st.op = "select" THEN st.tbls \in Seq(Names) \ {<<>>} ELSE st.tbl \in Names
       /\ st.op = "add_fk" => st.to \in Names
       /\ st.op = "create" => /\ IsList(st.fks)
                              /\ \A i \in DOMAIN st.fks : st.fks[i].to \in Names

VARIABLES sch,     \* schema manager: the schema of a table, or NoSchema
          disk,    \* the schema files, NoSchema where there is none
          file,    \* the tables whose data file exists
          cache,   \* the block cache of a table: "none", "own" or "old", which
                   \* is one that a CREATE TABLE of the same name came after
          rows,    \* the rows of a table, in the order of its row list
          locks,   \* the locks held: records of table, session and kind
          ses,     \* the sessions
          sent,    \* number of statements sent
          want,    \* history: the rows the statements ask for
          thrown,  \* history: a statement failed after it changed a schema
          robbed,  \* history: tables that were dropped, or lost references of others
          mixed    \* history: tables made while they were made or dropped

vars == <<sch, disk, file, cache, rows, locks, ses, sent, want, thrown, robbed, mixed>>

PK_NDX == 0                    \* the name NDX_000
Bad == 0                       \* a value that is not of its column's type
Flagged(c, f) == [c EXCEPT !.flag = @ \cup f]
ColumnNames(z) == {z.cols[i].name : i \in DOMAIN z.cols}
ColumnPos(z, n) == CHOOSE i \in DOMAIN z.cols : z.cols[i].name = n

\* name<T>::make(): the smallest number that no entry of the list has.
MakeName(list) ==
  CHOOSE n \in 0..Len(list) :
    /\ \A i \in DOMAIN list : list[i].name # n
    /\ \A m \in 0..(n - 1) : \E i \in DOMAIN list : list[i].name = m

\* schema::get_index(PK_NDX).  Tables without a primary key are left out.
HasKey(z) == \E i \in DOMAIN z.ndx : z.ndx[i].name = PK_NDX
KeyColumns(z) == z.ndx[CHOOSE i \in DOMAIN z.ndx : z.ndx[i].name = PK_NDX].cols

\* row::make_key() and row::make_foreign_key(): the values of the named columns.
MakeKey(names, r) == [i \in DOMAIN names |-> r[names[i]]]

IsColumn(c) == c = [name |-> c.name, refs |-> c.refs, flag |-> c.flag] /\ IsList(c.refs)

\* The schema of a table: at most one index is called primary key, it names
\* columns of the table, and without one no column is flagged as part of it.
IsTable(z) ==
  /\ IsList(z.cols) /\ (\A i \in DOMAIN z.cols : IsColumn(z.cols[i])) /\ IsList(z.ndx)
  /\ \A i, j \in DOMAIN z.ndx : z.ndx[i].name = PK_NDX /\ z.ndx[j].name = PK_NDX => i = j
  /\ HasKey(z) => IsList(KeyColumns(z)) /\ KeyColumns(z) # <<>> /\ ToSet(KeyColumns(z)) \subseteq ColumnNames(z)
  /\ ~ HasKey(z) => \A i \in DOMAIN z.cols : "PRIMARY" \notin z.cols[i].flag
  /\ \A i \in DOMAIN z.fgn : IsList(z.fgn[i].cols) /\ \A j \in DOMAIN z.fgn : z.fgn[i].name = z.fgn[j].name => i = j

\* Table p, with the schema y, knows of the foreign key f of table t.
KnowsOf(y, t, f) ==
  \E k \in DOMAIN y.cols : \E j \in DOMAIN y.cols[k].refs :
    y.cols[k].refs[j].tbl = t /\ y.cols[k].refs[j].fgn = f.name

\* Installed tables are as statements leave them.
ASSUME InstalledAssumption ==
  \A t \in DOMAIN Installed :
    /\ IsTable(Installed[t]) /\ Installed[t].cols # <<>>
    /\ \A i \in DOMAIN Installed[t].fgn : KnowsOf(Installed[Installed[t].fgn[i].tbl], t, Installed[t].fgn[i])

\* The columns that table t is installed or created with.
ColumnSets(t) ==
  {ColumnNames(Installed[u]) : u \in DOMAIN Installed \cap {t}}
    \cup {ToSet(st.cols) : st \in {x \in Statements : x.op = "create" /\ x.tbl = t}}

\* The lists of the statements are not empty, as the grammar of the translator
\* has it; the primary key may be left out.  The rows to add are complete, as
\* make_value_list() makes them: with a value for each column of their table.
ASSUME StatementsAssumption ==
  \A st \in Statements :
    /\ st.op \in {"insert", "load"} =>
         IsList(st.new) /\ \A i \in DOMAIN st.new : \A names \in ColumnSets(st.tbl) : DOMAIN st.new[i] = names
    /\ st.op \in {"create", "add_index"} => IsList(st.cols) /\ st.cols # <<>>
    /\ st.op = "create" => IsList(st.pk) /\ \A i \in DOMAIN st.fks : IsList(st.fks[i].fcols) /\ st.fks[i].fcols # <<>>
    /\ st.op = "add_fk" => IsList(st.cols) /\ IsList(st.fcols) /\ st.fcols # <<>>

-----------------------------------------------------------------------------
(* Sessions and locks.                                                     *)

IdleSession == [pc |-> "idle", st |-> None, todo |-> <<>>, out |-> "none"]

\* The schemas of the tables there are have been loaded.
Init ==
  /\ sch = [t \in Names |-> IF t \in DOMAIN Installed THEN Installed[t] ELSE NoSchema]
  /\ disk = sch
  /\ file = DOMAIN Installed
  /\ cache = [t \in Names |-> "none"]
  /\ rows = [t \in Names |-> <<>>]
  /\ locks = {}
  /\ ses = [s \in Sessions |-> IdleSession]
  /\ sent = 0
  /\ want = [t \in Names |-> {}]
  /\ thrown = FALSE
  /\ robbed = {} /\ mixed = {}

\* Fault for Finish: the destructor of the tree does not unlock it.
KeepLocks(s, out) ==
  /\ ses' = [ses EXCEPT ![s] = [IdleSession EXCEPT !.out = out]]
  /\ locks' = locks

\* The machine is destroyed with its trees, which unlocks them.
Finish(s, out) ==
  /\ ses' = [ses EXCEPT ![s] = [IdleSession EXCEPT !.out = out]]
  /\ locks' = {l \in locks : l.ses # s}

\* The tables a statement names, in the order their code opens and locks them.
Opens(st) ==
  CASE st.op = "add_fk" -> <<st.to, st.tbl>>
    [] st.op = "select" -> Reverse(st.tbls)
    [] OTHER -> <<st.tbl>>

Send(s, st) ==
  /\ ses[s].pc = "idle" /\ sent < MaxStatements
  /\ sent' = sent + 1
  /\ ses' = [ses EXCEPT ![s] =
       [pc |-> CASE st.op = "create" -> "keys" [] st.op = "drop" -> "unlink" [] OTHER -> "open",
        st |-> st, todo |-> Opens(st), out |-> "none"]]
  /\ UNCHANGED <<sch, disk, file, cache, rows, locks, want, thrown, robbed, mixed>>

\* DROP TABLE holds the mutex of the file cache until nobody uses the table;
\* opening a table and queueing a flush need that mutex.
CacheBusy(s) == \E t \in Sessions \ {s} : ses[t].pc = "erase"

Holds(s, t) == \E l \in locks : l.ses = s /\ l.tbl = t

\* Fault for CanLock: a reader does not wait for a writer.
ReadersPass(s, t, kind) == \A l \in locks : l.tbl = t /\ l.ses # s => kind = "shared"

CanLock(s, t, kind) ==
  \A l \in locks : l.tbl = t /\ l.ses # s => kind = "shared" /\ l.kind = "shared"

\* INSERT and LOAD lock the tables that their table's foreign keys name, DROP
\* FOREIGN KEY the table of its key, all after the table itself.
load_foreign_tree(st) ==
  LET fgn == sch[st.tbl].fgn
  IN  CASE st.op \in {"insert", "load"} -> [i \in DOMAIN fgn |-> fgn[i].tbl]
        [] st.op = "drop_fk" /\ (\E j \in DOMAIN fgn : fgn[j].name = st.fk) ->
             << fgn[CHOOSE j \in DOMAIN fgn : fgn[j].name = st.fk].tbl >>
        [] OTHER -> <<>>

\* get_block_cache() finds the cache of a table, whose file may be gone, or
\* loads it from the file.
CanOpen(t) == t \in file \/ cache[t] # "none"

\* The session has the block cache of a file that is gone, with the schema of
\* then, under a name that now means another table.
Outdated(s) == \E l \in locks : l.ses = s /\ cache[l.tbl] = "old"

\* A table is opened (its block cache found or loaded) and locked.  SELECT
\* takes a shared lock, every other statement a unique one.
OpenAndLock(s) ==
  LET st == ses[s].st
      t == Head(ses[s].todo)
      kind == IF st.op = "select" THEN "shared" ELSE "unique"
      rest == Tail(ses[s].todo)
  IN  /\ ses[s].pc \in {"open", "parents"} /\ ses[s].todo # <<>> /\ ~ Outdated(s)
      /\ ~ CacheBusy(s) /\ cache[t] # "old"
      /\ \/ ~ CanOpen(t) /\ Finish(s, "error") /\ cache' = cache
         \/ /\ CanOpen(t) /\ ~ (Holds(s, t) /\ kind = "unique") /\ CanLock(s, t, kind)
            /\ locks' = locks \cup {[tbl |-> t, ses |-> s, kind |-> kind]}
            /\ cache' = [cache EXCEPT ![t] = "own"]
            /\ ses' = [ses EXCEPT ![s] = [@ EXCEPT
                  !.todo = IF rest = <<>> /\ ses[s].pc = "open" THEN load_foreign_tree(st) ELSE rest,
                  !.pc = IF rest = <<>> THEN "parents" ELSE ses[s].pc]]
      /\ UNCHANGED <<sch, disk, file, rows, sent, want, thrown, robbed, mixed>>

\* Nothing is said of what follows when a session goes on with an outdated
\* cache or comes upon one, nor when it locks a table twice for itself alone (two
\* keys to one table): that error is ignored and the lock later released twice.
LoseTrack(s) ==
  LET t == Head(ses[s].todo)
  IN  /\ ses[s].pc \in {"open", "parents"}
      /\ \/ Outdated(s)
         \/ /\ ses[s].todo # <<>> /\ ~ CacheBusy(s)
            /\ cache[t] = "old" \/ (Holds(s, t) /\ ses[s].st.op # "select")
      /\ ses' = [ses EXCEPT ![s].pc = "undefined"]
      /\ UNCHANGED <<sch, disk, file, cache, rows, locks, sent, want, thrown, robbed, mixed>>

Ready(s, op) ==
  ses[s].pc = "parents" /\ ses[s].todo = <<>> /\ ses[s].st.op = op /\ ~ Outdated(s)

-----------------------------------------------------------------------------
(* Rows.                                                                   *)

Find(z, list, key) == {i \in DOMAIN list : MakeKey(KeyColumns(z), list[i]) = key}

\* Fault for verify_unique_key: duplicates are not looked for.
AnyKey(z, list, r) == TRUE

\* The primary key is the only unique index that statements can make.
verify_unique_key(z, list, r) == Find(z, list, MakeKey(KeyColumns(z), r)) = {}

\* The parent rows are looked up; the callers ignore the answer.
verify_foreign_key(z, r) ==
  \A i \in DOMAIN z.fgn :
    LET p == z.fgn[i].tbl
    IN  Find(sch[p], rows[p], MakeKey(z.fgn[i].cols, r)) # {}

\* row::make_foreign_key() throws when the table has no column of that name.
ForeignError(z) == \E i \in DOMAIN z.fgn : ~ ToSet(z.fgn[i].cols) \subseteq ColumnNames(z)

\* verify_value_list() and row::append() throw on a value of the wrong type.
Valid(r) == \A n \in DOMAIN r : r[n] # Bad

\* The rows before the first invalid one: the exception leaves them in the table.
Prefix(new) ==
  LET good == {n \in 0..Len(new) : \A i \in 1..n : Valid(new[i])}
  IN  SubSeq(new, 1, CHOOSE n \in good : \A m \in good : m <= n)

\* The rows that a value list adds, one after the other.
InsertRows(z, list, new) ==
  FoldLeft(LAMBDA acc, r : IF verify_unique_key(z, acc, r) THEN Append(acc, r) ELSE acc, list, new)

\* A duplicate line leaves its values in the row buffer, before those of the
\* lines that follow, and it is those first values which the columns read:
\* every later line counts as the same duplicate.
LoadRows(z, list, new) ==
  FoldLeft(LAMBDA acc, r :
             IF acc.dup = <<>> /\ verify_unique_key(z, acc.list, r)
             THEN [acc EXCEPT !.list = Append(@, r)] ELSE [acc EXCEPT !.dup = <<r>>],
           [list |-> list, dup |-> <<>>], new).list

\* The condition of DELETE and UPDATE: a column equals a value; None is no WHERE.
Matches(st, r) == st.cond # None /\ r[st.cond.col] = st.cond.val

\* The keys of the matching rows, in row order.
KeyList(st) ==
  FoldLeft(LAMBDA acc, r : IF Matches(st, r) THEN Append(acc, MakeKey(KeyColumns(sch[st.tbl]), r)) ELSE acc,
           <<>>, rows[st.tbl])

FirstOf(z, list, key) == CHOOSE i \in Find(z, list, key) : \A j \in Find(z, list, key) : i <= j

\* A value that its column refuses, and a row to put it in.
Refused(st) == st.set.val = Bad /\ KeyList(st) # <<>>

ModifyRows(s, op, new, asked) ==
  LET st == ses[s].st
      z == sch[st.tbl]
      out == IF (\E i \in DOMAIN st.new : ~ Valid(st.new[i])) \/ (op = "update" /\ Refused(st))
             THEN "error" ELSE "ok"
  IN  /\ IF op \in {"insert", "load"} /\ ForeignError(z)
         THEN Finish(s, "error") /\ UNCHANGED <<rows, want>>
         ELSE /\ out = "ok" => ~ CacheBusy(s)
              /\ rows' = [rows EXCEPT ![st.tbl] = new]
              /\ want' = [want EXCEPT ![st.tbl] = asked]
              /\ Finish(s, out)
      /\ UNCHANGED <<sch, disk, file, cache, sent, thrown, robbed, mixed>>

\* Neither a row of old nor one before it in new has the key of new[j].
Fresh(z, old, new, j) ==
  LET key == MakeKey(KeyColumns(z), new[j])
  IN  /\ \A r \in old : MakeKey(KeyColumns(z), r) # key
      /\ \A k \in 1..(j - 1) : MakeKey(KeyColumns(z), new[k]) # key

insert(s) ==
  LET st == ses[s].st
      z == sch[st.tbl]
      new == Prefix(st.new)
      asked == {new[j] : j \in {i \in DOMAIN new : Fresh(z, want[st.tbl], new, i)}}
  IN  Ready(s, "insert")
        /\ ModifyRows(s, "insert", InsertRows(z, rows[st.tbl], new), want[st.tbl] \cup asked)

load_data(s) ==
  LET st == ses[s].st
      z == sch[st.tbl]
      lines == Prefix(st.new)
      asked == {lines[j] : j \in {i \in DOMAIN lines : \A k \in 1..i : Fresh(z, want[st.tbl], lines, k)}}
  IN  Ready(s, "load")
        /\ ModifyRows(s, "load", LoadRows(z, rows[st.tbl], lines), want[st.tbl] \cup asked)

\* For every key, the row that the index then leads to is removed.
delete_row(s) ==
  LET st == ses[s].st
      z == sch[st.tbl]
      Del(acc, key) == IF Find(z, acc, key) = {} THEN acc
                       ELSE RemoveAt(acc, FirstOf(z, acc, key))
  IN  Ready(s, "delete") /\ ModifyRows(s, "delete", FoldLeft(Del, rows[st.tbl], KeyList(st)),
                 {r \in want[st.tbl] : ~ Matches(st, r)})

\* make_assignment() refuses a column that is flagged as primary key.
Assignable(st) ==
  LET z == sch[st.tbl] IN "PRIMARY" \notin z.cols[ColumnPos(z, st.set.col)].flag

Assigned(st, r) == [r EXCEPT ![st.set.col] = st.set.val]

\* Fault for UpdateRows: the old rows are not removed.
InsertOnly(z, st, list, keys) ==
  FoldLeft(LAMBDA acc, key : IF Find(z, acc, key) = {} THEN acc
                             ELSE Append(acc, Assigned(st, acc[FirstOf(z, acc, key)])), list, keys)

\* For every key, the row the index then leads to is removed and inserted with
\* the new value; its key is not verified.  The value is verified when the new
\* row is put together, which is after the removal of the old one.
UpdateRows(z, st, list, keys) ==
  FoldLeft(LAMBDA acc, key :
             IF Find(z, acc, key) = {} THEN acc
             ELSE Append(RemoveAt(acc, FirstOf(z, acc, key)),
                         Assigned(st, acc[FirstOf(z, acc, key)])), list, keys)

\* What a refused value leaves: the first row that matched is gone.
UpdateFails(st) ==
  LET z == sch[st.tbl] IN RemoveAt(rows[st.tbl], FirstOf(z, rows[st.tbl], Head(KeyList(st))))

update(s) ==
  LET st == ses[s].st
      z == sch[st.tbl]
  IN  /\ Ready(s, "update")
      /\ IF ~ Assignable(st)
         THEN Finish(s, "error") /\ UNCHANGED <<sch, disk, file, cache, rows, sent, want, thrown, robbed, mixed>>
         ELSE IF Refused(st)
         THEN ModifyRows(s, "update", UpdateFails(st), want[st.tbl] \
                {rows[st.tbl][FirstOf(z, rows[st.tbl], Head(KeyList(st)))]})
         ELSE ModifyRows(s, "update", UpdateRows(z, st, rows[st.tbl], KeyList(st)),
                      {IF Matches(st, r) THEN Assigned(st, r) ELSE r : r \in want[st.tbl]})

\* The rows are read under shared locks; what is read is the matter of Query.
select(s) ==
  /\ Ready(s, "select")
  /\ Finish(s, "ok")
  /\ UNCHANGED <<sch, disk, file, cache, rows, sent, want, thrown, robbed, mixed>>

-----------------------------------------------------------------------------
(* Schemas.                                                                *)

\* schema::manager::save_schema() writes what the manager holds under a name.
Saved(d, z, names) == [t \in Names |-> IF t \in names THEN z[t] ELSE d[t]]

\* History: the tables that lose a reference of a table other than the altered one.
Rob(s, z) ==
  LET Others(y, p, k) == {r \in ToSet(y[p].cols[k].refs) : r.tbl # ses[s].st.tbl}
  IN  robbed' = robbed \cup {p \in Names : sch[p] # z[p] /\
                  \E k \in DOMAIN sch[p].cols : Others(sch, p, k) # Others(z, p, k)}

Alter(s, z, names) ==
  /\ sch' = z /\ disk' = Saved(disk, z, names)
  /\ Finish(s, "ok") /\ Rob(s, z)
  /\ UNCHANGED <<file, cache, rows, sent, want, thrown, mixed>>

\* An exception: the schema z stays in memory and is not saved.
Throw(s, z) ==
  /\ sch' = z /\ thrown' = (thrown \/ z # sch)
  /\ Finish(s, "error") /\ Rob(s, z)
  /\ UNCHANGED <<disk, file, cache, rows, sent, want, mixed>>

AddRef(cols, i, ref) ==
  [cols EXCEPT ![i].refs = Append(@, [name |-> MakeName(@), tbl |-> ref.tbl, fgn |-> ref.fgn])]

\* Fault for AddForeignKey: the referenced table does not learn of the key.
NoReference(z, st, name) ==
  [z EXCEPT ![st.tbl].fgn = Append(@, [name |-> name, tbl |-> st.to, cols |-> st.cols])]

\* The key names the columns of its own table; every named column of the
\* referenced table gets a reference.
AddForeignKey(z, st, name) ==
  LET child == [z EXCEPT ![st.tbl].fgn = Append(@, [name |-> name, tbl |-> st.to, cols |-> st.cols])]
  IN  [child EXCEPT ![st.to].cols =
         FoldLeft(LAMBDA acc, n : AddRef(acc, ColumnPos(z[st.to], n), [tbl |-> st.tbl, fgn |-> name]),
                  @, st.fcols)]

add_foreign_key(s) ==
  LET st == ses[s].st
      ok == /\ ToSet(st.cols) \subseteq ColumnNames(sch[st.tbl])
            /\ HasKey(sch[st.to])
            /\ ToSet(st.fcols) \subseteq ToSet(KeyColumns(sch[st.to]))
  IN  /\ Ready(s, "add_fk")
      /\ \/ ~ ok /\ Throw(s, sch)
         \/ ok /\ Alter(s, AddForeignKey(sch, st, MakeName(sch[st.tbl].fgn)), {st.tbl, st.to})

\* The columns of the referenced table that bear the key's own column names
\* lose their first reference to a key of this name; ok tells if all had one.
DropRefs(cols, fgn) ==
  FoldLeft(LAMBDA acc, n :
             LET at == {i \in DOMAIN cols : cols[i].name = n}
                 i == CHOOSE j \in at : TRUE
                 hit == {j \in DOMAIN acc.cols[i].refs : acc.cols[i].refs[j].fgn = fgn.name}
             IN  IF ~ acc.ok \/ at = {} THEN [acc EXCEPT !.ok = FALSE]
                 ELSE IF hit = {} THEN [acc EXCEPT !.ok = FALSE]
                 ELSE [acc EXCEPT !.cols[i].refs =
                         RemoveAt(@, CHOOSE j \in hit : \A k \in hit : j <= k)],
           [cols |-> cols, ok |-> TRUE], fgn.cols)

\* The key is erased before its references are looked for.
drop_foreign_key(s) ==
  LET st == ses[s].st
      list == sch[st.tbl].fgn
      hit == {i \in DOMAIN list : list[i].name = st.fk}
      i == CHOOSE j \in hit : TRUE
      erased == [sch EXCEPT ![st.tbl].fgn = RemoveAt(@, i)]
      d == DropRefs(sch[list[i].tbl].cols, list[i])
      z == [erased EXCEPT ![list[i].tbl].cols = d.cols]
  IN  /\ Ready(s, "drop_fk")
      /\ \/ hit = {} /\ Throw(s, sch)
         \/ hit # {} /\ ~ d.ok /\ Throw(s, z)
         \/ hit # {} /\ d.ok /\ Alter(s, z, {st.tbl, list[i].tbl})

\* The columns are flagged one by one, the ones before an unknown name as well.
FlagKnown(z, names) ==
  LET known == {k \in 0..Len(names) : ToSet(SubSeq(names, 1, k)) \subseteq ColumnNames(z)}
      n == CHOOSE k \in known : \A m \in known : m <= k
  IN  [z EXCEPT !.cols = [i \in DOMAIN @ |->
         IF @[i].name \in ToSet(SubSeq(names, 1, n))
         THEN Flagged(@[i], {"NOT_NULL", "MULTIPLE"}) ELSE @[i]]]

add_index(s) ==
  LET st == ses[s].st
      z == FlagKnown(sch[st.tbl], st.cols)
      n == [name |-> MakeName(z.ndx), cols |-> st.cols]
  IN  /\ Ready(s, "add_index")
      /\ IF ToSet(st.cols) \subseteq ColumnNames(z)
         THEN ~ CacheBusy(s) /\ Alter(s, [sch EXCEPT ![st.tbl] = [z EXCEPT !.ndx = Append(@, n)]], {st.tbl})
         ELSE Throw(s, [sch EXCEPT ![st.tbl] = z])

\* The primary key stays, and the flags of the columns do too.  An index that
\* has no node, in a table without rows, stays as well, with the answer "OK".
drop_index(s) ==
  LET st == ses[s].st
      list == sch[st.tbl].ndx
      hit == {i \in DOMAIN list : list[i].name = st.ndx}
      z == [sch EXCEPT ![st.tbl].ndx = RemoveAt(@, CHOOSE i \in hit : TRUE)]
  IN  /\ Ready(s, "drop_index")
      /\ IF st.ndx = PK_NDX \/ hit = {} THEN Throw(s, sch)
         ELSE ~ CacheBusy(s) /\ Alter(s, IF rows[st.tbl] = <<>> THEN sch ELSE z, {st.tbl})

\* ADD COLUMN and DROP COLUMN only answer that they are not supported.
alter_column(s) == Ready(s, "alter_column") /\ Alter(s, sch, {})

\* make_primary_key() flags as many columns as the key has, counted from the
\* first column of the table, whichever ones the key names.
make_primary_key(st) ==
  [i \in DOMAIN st.cols |->
     [name |-> st.cols[i], refs |-> <<>>,
      flag |-> IF i <= Len(st.pk) THEN {"PRIMARY", "NOT_NULL", "UNIQUE"} ELSE {}]]

\* A foreign key of CREATE TABLE keeps the names of the referenced columns.
make_foreign_key(st) ==
  [i \in DOMAIN st.fks |-> [name |-> i - 1, tbl |-> st.fks[i].to, cols |-> st.fks[i].fcols]]

KeysWellFormed(st) ==
  /\ ToSet(st.pk) \subseteq ToSet(st.cols)
  /\ \A i \in DOMAIN st.fks :
       LET f == st.fks[i]
       IN  /\ Len(f.cols) = Len(f.fcols) /\ ToSet(f.cols) \subseteq ToSet(st.cols)
           /\ sch[f.to] # NoSchema /\ HasKey(sch[f.to]) /\ f.fcols = KeyColumns(sch[f.to])

\* The key definitions are checked before the table is looked for.
CheckKeys(s) ==
  /\ ses[s].pc = "keys"
  /\ IF KeysWellFormed(ses[s].st)
     THEN ses' = [ses EXCEPT ![s].pc = "create"] /\ locks' = locks
     ELSE Finish(s, "error")
  /\ UNCHANGED <<sch, disk, file, cache, rows, sent, want, thrown, robbed, mixed>>

\* The working schema of a CREATE TABLE statement.
NewSchema(st) ==
  [cols |-> make_primary_key(st), fgn |-> make_foreign_key(st),
   ndx |-> IF st.pk = <<>> THEN <<>> ELSE << [name |-> PK_NDX, cols |-> st.pk] >>]

\* The steps of CREATE and DROP TABLE in which a table is neither there nor gone.
Making == {"add", "save", "make"}
Dropping == {"unschema", "take", "erase"}

\* stat() asks for the data file, and nothing else.
create_table(s) ==
  LET t == ses[s].st.tbl
  IN  /\ ses[s].pc = "create"
      /\ IF t \in file
         THEN Finish(s, "error") /\ UNCHANGED mixed
         ELSE /\ ses' = [ses EXCEPT ![s].pc = "add"] /\ locks' = locks
              /\ mixed' = IF \E u \in Sessions : ses[u].pc \in Making \cup Dropping /\ ses[u].st.tbl = t
                          THEN mixed \cup {t} ELSE mixed
      /\ UNCHANGED <<sch, disk, file, cache, rows, sent, want, thrown, robbed>>

\* What is in memory under the name of a table belongs to an earlier one.
OldCache(t) == cache' = [cache EXCEPT ![t] = IF @ = "none" THEN @ ELSE "old"]
Empty(t) == rows' = [rows EXCEPT ![t] = <<>>] /\ want' = [want EXCEPT ![t] = {}]

\* The schema that the manager may have under the name is replaced, and with it
\* go the references of other tables.
add_schema(s) ==
  LET st == ses[s].st
  IN  /\ ses[s].pc = "add"
      /\ sch' = [sch EXCEPT ![st.tbl] = NewSchema(st)]
      /\ robbed' = IF sch[st.tbl] = NoSchema THEN robbed ELSE robbed \cup {st.tbl}
      /\ OldCache(st.tbl) /\ Empty(st.tbl)
      /\ ses' = [ses EXCEPT ![s].pc = "save"]
      /\ UNCHANGED <<disk, file, locks, sent, thrown, mixed>>

save_schema(s) ==
  /\ ses[s].pc = "save"
  /\ disk' = Saved(disk, sch, {ses[s].st.tbl})
  /\ ses' = [ses EXCEPT ![s].pc = "make"]
  /\ UNCHANGED <<sch, file, cache, rows, locks, sent, want, thrown, robbed, mixed>>

\* The data file is made, or emptied when it is there.
create_file(s) ==
  LET st == ses[s].st
  IN  /\ ses[s].pc = "make"
      /\ file' = file \cup {st.tbl}
      /\ OldCache(st.tbl) /\ Empty(st.tbl)
      /\ ses' = [ses EXCEPT ![s] = [@ EXCEPT !.pc = "refs", !.todo = [i \in DOMAIN st.fks |-> st.fks[i].to]]]
      /\ UNCHANGED <<sch, disk, locks, sent, thrown, robbed, mixed>>

\* A foreign key's references go to the leading columns of the referenced
\* table, as many as the key has columns.
LeadingRefs(cols, t, f) ==
  FoldLeft(LAMBDA y, i : AddRef(y, i, [tbl |-> t, fgn |-> f.name]), cols, [i \in DOMAIN f.cols |-> i])

\* The foreign key whose turn it is: the referenced tables are told one after
\* the other, each schema being saved before the next, under no lock.
NextKey(s) == make_foreign_key(ses[s].st)[Len(ses[s].st.fks) - Len(ses[s].todo) + 1]

\* A referenced table that was made anew may have too few columns: column_at()
\* then reads behind the last one.
make_reference(s) ==
  LET p == Head(ses[s].todo)
      z == [sch EXCEPT ![p].cols = LeadingRefs(@, ses[s].st.tbl, NextKey(s))]
  IN  /\ ses[s].pc = "refs" /\ ses[s].todo # <<>>
      /\ IF Len(NextKey(s).cols) > Len(sch[p].cols)
         THEN ses' = [ses EXCEPT ![s].pc = "undefined"] /\ UNCHANGED <<sch, disk>>
         ELSE /\ sch' = z /\ disk' = Saved(disk, z, {p})
              /\ ses' = [ses EXCEPT ![s].todo = Tail(@)]
      /\ UNCHANGED <<file, cache, rows, locks, sent, want, thrown, robbed, mixed>>

EndCreate(s) ==
  /\ ses[s].pc = "refs" /\ ses[s].todo = <<>>
  /\ Finish(s, "ok")
  /\ UNCHANGED <<sch, disk, file, cache, rows, sent, want, thrown, robbed, mixed>>

\* The data file is unlinked.  Nothing asks whether the table is referenced.
drop_table(s) ==
  LET t == ses[s].st.tbl
  IN  /\ ses[s].pc = "unlink"
      /\ IF t \notin file
         THEN Finish(s, "error") /\ UNCHANGED <<file, robbed>>
         ELSE /\ robbed' = robbed \cup {t} /\ file' = file \ {t}
              /\ ses' = [ses EXCEPT ![s].pc = "unschema"] /\ locks' = locks
      /\ UNCHANGED <<sch, disk, cache, rows, sent, want, thrown, mixed>>

\* The schema file is unlinked; the manager keeps its schema.
unlink_schema(s) ==
  LET t == ses[s].st.tbl
  IN  /\ ses[s].pc = "unschema"
      /\ IF disk[t] = NoSchema
         THEN Finish(s, "error") /\ UNCHANGED disk
         ELSE /\ disk' = [disk EXCEPT ![t] = NoSchema]
              /\ ses' = [ses EXCEPT ![s].pc = "take"] /\ locks' = locks
      /\ UNCHANGED <<sch, file, cache, rows, sent, want, thrown, robbed, mixed>>

\* The mutex of the file cache is taken, and kept until nobody uses the table.
TakeMutex(s) ==
  /\ ses[s].pc = "take" /\ ~ CacheBusy(s)
  /\ ses' = [ses EXCEPT ![s].pc = "erase"]
  /\ UNCHANGED <<sch, disk, file, cache, rows, locks, sent, want, thrown, robbed, mixed>>

drop_block_cache(s) ==
  LET t == ses[s].st.tbl
  IN  /\ ses[s].pc = "erase" /\ \A l \in locks : l.tbl # t
      /\ cache' = [cache EXCEPT ![t] = "none"]
      /\ Finish(s, "ok")
      /\ UNCHANGED <<sch, disk, file, rows, sent, want, thrown, robbed, mixed>>

Step(s) ==
  \/ OpenAndLock(s) \/ LoseTrack(s) \/ insert(s) \/ load_data(s) \/ delete_row(s) \/ update(s) \/ select(s)
  \/ add_foreign_key(s) \/ drop_foreign_key(s) \/ add_index(s) \/ drop_index(s) \/ alter_column(s)
  \/ CheckKeys(s) \/ create_table(s) \/ add_schema(s) \/ save_schema(s) \/ create_file(s)
  \/ make_reference(s) \/ EndCreate(s)
  \/ drop_table(s) \/ unlink_schema(s) \/ TakeMutex(s) \/ drop_block_cache(s)

Next == \E s \in Sessions : Step(s) \/ \E st \in Statements : Send(s, st)

Spec == Init /\ [][Next]_vars

-----------------------------------------------------------------------------
(* Properties.                                                             *)

\* A session has a statement exactly while it is busy, locks belong to busy
\* sessions, and a writer holds its table alone.
TypeOK ==
  /\ file \subseteq Names /\ robbed \subseteq Names /\ mixed \subseteq Names /\ thrown \in BOOLEAN
  /\ cache \in [Names -> {"none", "own", "old"}]
  /\ sent \in 0..MaxStatements
  /\ \A s \in Sessions :
       /\ ses[s].pc \in {"idle", "open", "parents", "undefined", "keys", "create", "add", "save", "make", "refs",
                         "unlink", "unschema", "take", "erase"}
       /\ ses[s].todo \in Seq(Names)
       /\ IF ses[s].pc = "idle" THEN ses[s].st = None ELSE ses[s].st \in Statements
  /\ \A l \in locks :
       /\ l.tbl \in Names /\ l.ses \in Sessions /\ l.kind \in {"shared", "unique"}
       /\ ses[l.ses].pc \in {"open", "parents", "undefined"}
  /\ \A l, k \in locks : l.tbl = k.tbl /\ l.ses # k.ses => l.kind = "shared" /\ k.kind = "shared"

\* The primary key of table t names the columns that make_primary_key() flags.
KeyIsFlagged(t) ==
  LET z == sch[t]
  IN  HasKey(z) /\ \A i \in DOMAIN z.cols :
                     ("PRIMARY" \in z.cols[i].flag) = (z.cols[i].name \in ToSet(KeyColumns(z)))

\* INSERT, LOAD, UPDATE and DELETE together keep exactly the rows they were
\* asked for, each once: no sequence of removals and insertions through the
\* index loses, keeps or duplicates a row.  LOAD is asked for the lines up to
\* the first duplicate, and an UPDATE with a value that its column refuses is
\* known to cost the first row it matches, which is gone by then.  Every row has
\* a value for each column of its table.
RowsAsAsked ==
  /\ \A t \in file : KeyIsFlagged(t) => Len(rows[t]) = Cardinality(want[t]) /\ ToSet(rows[t]) = want[t]
  /\ \A t \in Names : \A i \in DOMAIN rows[t] : sch[t] # NoSchema /\ DOMAIN rows[t][i] = ColumnNames(sch[t])

\* No two rows of a table have the same primary key, when the key names the
\* table's leading columns (the ones UPDATE refuses to assign).
KeyUnique ==
  \A t \in file : KeyIsFlagged(t) =>
    \A i, j \in DOMAIN rows[t] :
      MakeKey(KeyColumns(sch[t]), rows[t][i]) = MakeKey(KeyColumns(sch[t]), rows[t][j]) => i = j

\* The CREATE TABLE of table t has yet to tell the referenced table of the key f.
ToTell(s, t, f) ==
  LET st == ses[s].st
  IN  /\ ses[s].pc \in {"save", "make", "refs", "undefined"} /\ st.op = "create" /\ st.tbl = t
      /\ \E i \in DOMAIN st.fks :
           /\ make_foreign_key(st)[i] = f
           /\ ses[s].pc \in {"refs", "undefined"} => i > Len(st.fks) - Len(ses[s].todo)

\* A foreign key of a table is known to the table that it references, or a
\* CREATE TABLE is about to tell it; unless the referenced table was dropped,
\* made anew, or robbed: DROP FOREIGN KEY looks for its reference by the name of
\* the key alone, and the keys of two tables may have one name.  No other order
\* of the steps of CREATE TABLE, ADD and DROP FOREIGN KEY, failed ones included,
\* leaves a key without its reference.
KeysReferenced ==
  \A t \in file : \A i \in DOMAIN sch[t].fgn :
    LET f == sch[t].fgn[i]
    IN  f.tbl \in file \ robbed => KnowsOf(sch[f.tbl], t, f) \/ \E s \in Sessions : ToTell(s, t, f)

\* The schema file of a table is there and is what the schema manager holds,
\* whenever no statement has failed half way: a restart loads what the sessions
\* saw.  That is not so of a table whose CREATE TABLE overlapped a DROP TABLE or
\* another CREATE TABLE of the name: a DROP that has unlinked the data file of
\* the old table goes on to unlink the schema file of the new one.
SchemaSaved == ~ thrown => \A t \in file \ mixed : disk[t] = sch[t] /\ disk[t] # NoSchema

\* The schemas agree with each other and with their files, whatever the order
\* of the steps of CREATE, ALTER and DROP TABLE of several sessions.
SchemasAgree == KeysReferenced /\ SchemaSaved

\* The statements that queue a flush when they are done.
Flushing == {"insert", "load", "update", "delete", "add_index", "drop_index"}

\* Waiting sessions: for a lock, for the mutex of the file cache, or for the
\* users of a table to end.
Waiting(s) ==
  \/ /\ ses[s].pc \in {"open", "parents"} /\ ~ Outdated(s)
     /\ CacheBusy(s) /\ (ses[s].todo # <<>> \/ ses[s].st.op \in Flushing)
  \/ /\ ses[s].pc \in {"open", "parents"} /\ ~ Outdated(s)
     /\ ses[s].todo # <<>> /\ cache[Head(ses[s].todo)] = "own"
     /\ ~ CanLock(s, Head(ses[s].todo), IF ses[s].st.op = "select" THEN "shared" ELSE "unique")
  \/ ses[s].pc = "take" /\ CacheBusy(s)
  \/ ses[s].pc = "erase" /\ \E l \in locks : l.tbl = ses[s].st.tbl

\* Table t comes before u in the order in which INSERT and LOAD on c lock tables.
KeyBefore(c, t, u) ==
  LET fgn == sch[c].fgn
  IN  \E j \in DOMAIN fgn : fgn[j].tbl = u /\ (t = c \/ \E i \in 1..(j - 1) : fgn[i].tbl = t)

\* The foreign keys put no order on the tables of T: each of them is locked
\* before another, as with keys in a circle, or with two tables whose keys name
\* the same two tables in different order.
NoOrder(T) == \A t \in T : \E u \in T, c \in {n \in Names : CanOpen(n)} : KeyBefore(c, t, u)

\* Sessions wait for each other for ever only with a DROP TABLE, an ADD
\* FOREIGN KEY (which locks the referenced table first) or a SELECT of several
\* tables among them, or over tables that the foreign keys put in no order:
\* INSERT, LOAD, UPDATE, DELETE and the other ALTER TABLE statements lock a
\* table before the tables it references.
StuckOnlyByOrder ==
  LET busy == {s \in Sessions : ses[s].pc # "idle"}
  IN  (busy # {} /\ \A s \in busy : Waiting(s)) =>
        \/ \E s \in busy : \/ ses[s].st.op \in {"drop", "add_fk"}
                           \/ ses[s].st.op = "select" /\ Len(ses[s].st.tbls) > 1
        \/ NoOrder({Head(ses[s].todo) : s \in busy})

\* "Reliability: ... foreign/unique key enforcement": every row of a table has
\* its parent rows.
ForeignKeysHold ==
  \A t \in file : ~ ForeignError(sch[t]) /\ (\A i \in DOMAIN sch[t].fgn : sch[t].fgn[i].tbl \in file) =>
    \A i \in DOMAIN rows[t] : verify_foreign_key(sch[t], rows[t][i])
=============================================================================
