# A TLA+ model of the SQL relational database system

The repository is a client-server relational database in C++: a command-line
client (`src/cli`), a threaded server (`src/srv`) with a SQL compiler and a
virtual machine, and tables kept in B+tree files behind a block cache.  This
directory holds TLA+ modules that model it from the token to the block, TLC
configurations that check them on small instances, and TLAPS proofs about the
concurrent core and the index that hold for every value of the constants.

| file | what it is |
| --- | --- |
| `Session.tla`, `SessionProofs.tla` | one client session: both client threads, the server thread, the connection; its theorems |
| `Translator.tla` | the parser that emits instructions, and the assembler |
| `Machine.tla` | one statement from its tokens to the call that executes it (extends `Translator`, uses `Expr`) |
| `Users.tla`, `UsersProofs.tla` | accounts and privileges, changed by several sessions; its theorems |
| `Tables.tla`, `TablesProofs.tla`, `TablesRows.tla` | the statements that define tables and change rows, with their locks; its theorems: locks and schemas, then rows |
| `Expr.tla` | expressions: evaluation and constant folding |
| `Query.tla` | SELECT: join chains, nested loops, result (extends `Expr`) |
| `FileCache.tla`, `FileCacheProofs.tla` | block caches, flush thread, the statements that write through them; its theorems |
| `Index.tla`, `BTree.tla`, `BTreeProofs.tla`, `BTreeGrowth.tla` | what an index promises, the B+tree of `btree.cpp`, shown to implement it; its theorems, and those of an index that only grows or is one leaf |
| `FoldTheorems.tla` | loops of the code over vectors: what every round keeps holds at the end |
| `MC*.tla`, `*.cfg` | instances for TLC, one configuration per question |
| `PROJECT.json` | components, runs, mutants, map to the source, findings, hazards, theorems |

## 1. Inventory

**Client** (`src/cli/main.cpp`).  State: `done`, `all_systems_go` with a mutex
and a condition variable, and one `fsm` whose single buffer two threads share.
The main thread connects, authenticates, reads lines, splits them into
statements, encrypts and sends each, and waits in `wait_done()`.  The agent
thread runs `fsm::loop()` and prints results.  Hard: two threads on one buffer;
`set_done()` holds the mutex only for a temporary.  Correct when every
statement is answered exactly once and the process never leaves its tables.

**Session protocol** (`src/comm/comm.cpp`, class `fsm`).  State: last opcode
sent (`m_opsent`), `m_loop`, and the buffer.  A table indexed by the last opcode
sent and the opcode received chooses between `rcvd()` and `nop()`.  The protocol
has no message framing, and the two directions share opcode numbers.  A result
larger than the buffer is sent in blocks; after each one `flush()` runs a nested
`loop()` for the acknowledgement.  Correct when the tables admit a statement
only for an authenticated session, and messages are taken one at a time.

**Server sessions** (`src/srv/main.cpp`).  One thread per connection
(`comm_agent`), which authenticates, compiles and executes statements, and runs
SOURCE scripts.  The main thread accepts connections and, on SIGTERM, ends the
sessions and joins their threads.

**Block cache and flush thread** (`src/cache/cache.cpp`).  `block_cache` keeps
the blocks of one table in memory with a list of changed ones
(`m_flush_list`); `file_cache` keeps the block caches of all tables and a job
queue under `m_mutex`, which the flush thread holds while it empties the queue.
Hard: the flush thread writes blocks, clears the list and saves the schema
without the table's lock; DROP TABLE waits under `m_mutex`.  Correct when every
change reaches the file, the saved header agrees with the file, and nothing
waits for ever.

**DBMS facade** (`src/dbms`).  Forwards `flush`, `get_block_cache`,
`make_block_cache` and `drop_block_cache` to the file cache.

**Table space and B+tree** (`src/btree`).  The header (root offsets, data
offset, next offset, free list) lives in the schema.  Blocks are allocated at
the end of the file or from the free list of dropped indexes; inserts split,
removals borrow and merge.  Correct when an index is a sorted set of keys, no
block is handed out twice, and the header agrees with the file.

**Virtual machine** (`src/vm`).  One per statement.  A loop fetches the
instructions, which push numbers and offsets of data and call handlers; handlers
pop their operands off a stack and fill registers (open tables, join chain,
expressions, condition, assignments, table under definition), and the last call
executes the statement: it opens and locks tables, verifies privileges and
constraints, changes rows and keys, and queues one flush.  Hard: lock orders over
several tables, statements that throw midway, checks made before locks, values of
the previous round left in the join chain.  Correct when a statement does what
was written, or nothing.

**Users and privileges** (`vm.cpp`, `etc.cred` and `etc.priv`).  CREATE, ALTER and
DROP USER, GRANT and REVOKE read and write two ordinary tables in several locked
scopes.  Hard: other sessions between the scopes.  Correct when nothing is done
without a privilege and no change is lost.

**SQL translator** (`src/tran`) and **assembler** (`src/comp`, `src/sql`,
`src/token`).  A recursive-descent parser that writes instructions into several
vectors, in an order the assembler turns round; the assembler has a table of
calls of its own.

**Table locks** (`src/lock`), **schema manager** (`src/schema`, JSON files), **rows
and buffers** (`src/row`, `src/buffer`, `src/bcalc`), **direct I/O** (`src/dio`),
**encryption** (`src/srvcry`, `src/clicry`), **logger and error texts**,
**installer** (`src/redb_install_db`): see `PROJECT.json` for the status of each.

Interaction: client thread -> socket -> server thread -> translator -> assembler
-> vm -> tree -> block cache -> job queue -> flush thread -> file and JSON schema.
Sessions share the block caches, the schemas, the system tables and the queue;
the flush thread shares the caches, the schemas and the queue with all of them.

How the modules divide this.  `Session` ends where a statement arrives, and
leaves open how it ends.  `Machine` takes the statement as tokens and ends at the
call with its operands.  `Tables`, `Users` and `Query` begin at that call.
`FileCache` has what the writing statements do to blocks, without rows, and
`BTree` what one index does, without blocks' contents.  `Machine` extends
`Translator` and instantiates `Expr`, so that what is translated, assembled, run
and folded is checked as one system.

The hazards found while reading are in `PROJECT.json` ("hazards"), each at its
line.

## 2. Session

State.  `c2s`, `s2c` are the two directions of the connection as sequences of
opcodes.  `cbuf`/`sbuf` are the opcode bytes of the two buffers,
`copsent`/`sopsent` are `m_opsent`, `sloop` is `m_loop`.  `done`, `go` are the
client's globals; `cpc`, `apc`, `spc` say where the client's main thread, its
agent thread and the server thread are.  `chunks` counts result blocks, and
`user` says whether the session information is set.

Actions.  `Cli...` actions of `MainStep` and `Input` are the steps of `main()`
(handshake, a line of n statements, exit, waiting, joining).  Those of
`AgentStep` are `cli_agent()` and the cases of the client's `rcvd()`.  `Srv...`
actions are the cases of the server's `rcvd()`, `put`/`flush` with its nested
loop, and the ways a statement ends.  `CliAccepts` and `SrvAccepts` are the two
state tables.  A receive takes k >= 1 messages off the channel and acts on the
first, since `recv()` keeps no boundaries.  `CliWait`/`CliBlock` and
`CliAnswer`/`CliSetDone` split the condition variable protocol where the other
thread can get in between.

Another program.  What the server checks must hold whoever connects.  With
`AnyClient` a program other than `cli/main.cpp` may connect: it sends the opcodes
that a client has, in any order and at any time (`OtherSend`), reads when it likes
(`OtherRecv`) and closes the connection (`OtherClose`).  `AuthBeforeExec` is checked
and proved with it, so that it rests on the table of the server and on nothing the
client does.  The other properties are about the dialogue between the project's
own client and the server, and are checked and proved without it.

Abstraction.  A message is its opcode: statement text, result text and
encryption are left out; a decryption that fails is an outcome.  Whether
credentials are right is a nondeterministic choice.  The ways a statement can
end (`fin`, `err`, `silent`) are a constant, because the code reaches silence
only through a few statements (an empty script, exceptions that are not
`runtime_error`).

## 3. FileCache

State.  A block is its number in the table's file.  `next` and `data` are the
header in memory, `size` the length of the file, `saved` the next offset of the
JSON file.  `stale` and `loose` are the cached blocks whose rows or keys, or
whose sibling link, are newer than the file.  `list` is `m_flush_list`, `jobs`
the queue, `cached` the keys of `m_cache`, `mutex` the holder of `m_mutex` across
steps, and `writer` the holder of a table's lock.  The flush thread is `fpc`,
`ftab`, `todo` (what its iterator has still to visit) and `walk` (whether the
iterator is valid).

Actions.  A writing statement is `Open`, `Lock`, `Verify`, then for each block
it changes `Pick`, or `GrowData`/`NewData`, or `GrowIndex`/`NewNode`, followed by
`Touch` and `List`; it ends with `Rows`, `AddJob`, `Release`, or leaves through
`Fail`.  The header is moved one step before the block is written, as
`next_offset()` and `new_block()` do.  DROP TABLE is `Drop`, `Unlink`,
`Unschema`, `Take`, `Erase`.  The flush thread is `FStart`, `FPop`, `FWrite` per
block, `FClear`, `FSave`, `FReturn`.  A `push_back` during the walk may move the
vector; the walk is then invalid, and whether it still finds a block
(`FWrite`) or not (`FSkip`) is a nondeterministic choice.

Abstraction.  Which block a statement changes is free: it may be any block of
the table.  This covers INSERT, LOAD DATA, DELETE, UPDATE and ADD INDEX without
their keys.  The free list left by DROP INDEX and the re-creation of a dropped
table are not in this module.

## 4. Index and BTree

`Index` says that a row enters and leaves the table and the index in one step,
that nothing else changes what the index leads to, and that a unique index has
one row of each key.  `BTree`
is one index of one table.

State.  `nodes` are the blocks: leaf flag, number of keys, sibling links and the
element vector.  A slot is an offset and a key; the offset is the place of a row
in a leaf and a child in an inner node, as in the block.  Slots behind the last
key keep what they held, because `find()` reads the one behind the last.  `root`
is the root in the schema, `top` the root an operation will leave behind (a
promoted root is stored in the schema only when the insert below it is done).
`used` counts blocks, `rows` are the rows of the table, `cur` and `row` are the
node and the row of the operation under way.

Actions.  `InsertFirst`, `InsertAtRoot` and `InsertPromote` are the three cases
of `tree::insert()`; `InsertLeaf` and `InsertInner` are `insert_non_full()` at one
node, with `Split` for `split_child()`.  `RemoveStart` begins `tree::remove()`;
`RemoveFromLeaf`, `RemoveMissing`, `RemoveBelow` are `node::remove()` at one node,
and `RemoveByPrev`, `RemoveByNext`, `RemoveByMerge` the three cases of
`remove_from_non_leaf()`.  `BorrowFromPrev`, `BorrowFromNext`, `Merge` and `Fill`
are functions from blocks to blocks; their loops become functions over the
indexes the loop visits, with the bounds of the code, the one loop of `merge()`
that is one short included.  `FindKey` is the binary search itself, as a recursive
function of the loop's variables (`Search`): removals do not keep the keys of a node
sorted, so that a definition by the order of the keys would be a different one.

An operation runs under the lock of the table; one step per node lets the
invariants see the states between the splits and the final put.

Abstraction.  A key is a number, the place of a row is the row.  Blocks are
handed out in order; the free list is in the plan (section 12).  Two
ends are not followed any further: `pc = "loop"`, a walk that cannot end, and
`pc = "lost"`, a walk of `get_prev_element()` that asks the wrong node and may
read an offset behind its last child.

The refinement maps `held` to the rows that the leaves below `top` lead to
(`Refs`), and the rows of the table to themselves.  `Implements` says that both
change together, by one row at a time and by the rule of a unique index, whatever
is split meanwhile.

## 5. Users

State.  `cred` has the row of each account (password and global privileges),
`priv` the row of each account and object.  `own` is the session that holds the
unique lock of one of the two tables.  A session has its account, its database,
and the statement it executes with the place in it (`pc`), the alternative
privilege under test (`k`) and the row read (`row`).

Actions.  `Authenticate`, `use_database` and `Send` come from the client.
`VerifyGlobal` and `VerifyLocal` are the two scopes of `verify_privilege()`.  A scope
that only reads is one step under a free lock (`CheckUser`); one that also writes
is a read that takes the lock (`CredRead`, `PrivRead`) and a write that releases it
(`CredWrite`, `PrivWrite`, `drop_user_global`), because the row written is made
from the row read.  Every exception ends in `Finish`, which releases the locks.

History.  `held` remembers that the statement was permitted at some time since it
was sent, `raced` the accounts that DROP USER and another statement had in work
at once.

Shown.  A statement that works was permitted (`Authorized`), a row is never
rewritten from a stale one (`ReadIsCurrent`), every statement ends.  Rows of
`etc.priv` without an account do occur: a GRANT that has looked the account up
and a CREATE USER that has found none go on after a DROP USER.  `OrphanOnlyByRace`
says that this is the only way.

## 6. Tables

State.  `sch` is what the schema manager holds in memory, `disk` the saved
schemas, `file` the tables whose data file exists, `cache` whether a table has a
block cache, `rows` the row lists, `locks` the shared and unique locks.  A schema
has columns with flags and references, indexes and foreign keys.  The schemas of
the installed tables are loaded.

Actions.  `Send` starts a statement.  `OpenAndLock` opens the next of its tables
and locks it, in the order of the code: the referenced table first for ADD
FOREIGN KEY, the last of the list first for SELECT, the table and then its parents
for INSERT and LOAD.  Then the statement takes effect in one step with all its
locks: `insert`, `load_data`, `update`, `delete_row`, `select`, `add_foreign_key`,
`drop_foreign_key`, `add_index`, `drop_index`, `alter_column`.

CREATE and DROP TABLE take no lock, and each of their calls that changes a file, a
schema or a cache is a step in which the other sessions can get in between.
CREATE TABLE is `CheckKeys`, `create_table` (the `stat()` of the data file),
`add_schema`, `save_schema`, `create_file`, one `make_reference` for each foreign key,
`EndCreate`.  DROP TABLE is `drop_table` (the data file is unlinked),
`unlink_schema`, `TakeMutex` and `drop_block_cache`, which waits for the users of the
cache with the mutex that others need (`CacheBusy`).

Kept from the code, because the properties depend on it: `make_primary_key()`
flags the leading columns, whichever the key names; a foreign key of CREATE TABLE
keeps the names of the referenced columns and one of ADD FOREIGN KEY those of its
own table; ADD INDEX flags the columns before an unknown one; DROP FOREIGN KEY
erases the key first; UPDATE removes the old row before the new value is verified;
a duplicate line of LOAD makes every later line count as that duplicate.
DROP INDEX of a name the table lacks, or of the primary key, is an error, but in a
table without rows it is answered "OK" and drops nothing, because `remove_index()`
returns at once where there is no root (btree.cpp:1288).  Only a statement that has
a flush to queue (`Flushing`: INSERT, LOAD DATA, UPDATE, DELETE, ADD and DROP INDEX)
waits for the mutex of the cache at its end, and only when it ends in order.

The installed tables are taken as statements leave them (`InstalledAssumption`), and
statements as the parser makes them (`StatementsAssumption`): lists in the grammar
are not empty, and rows are complete, as `make_value_list()` makes them.

Shown.  `RowsAsAsked`: `want` is computed from the statements as sets, without the
removals and insertions through the index, and `rows` agrees with it.  `KeyUnique`
and `RowsAsAsked` are about tables whose key names the leading columns
(`KeyIsFlagged`); for others UPDATE may assign to the key.  Both take a key that is
in the index to be found there: `BTree` shows that of indexes that only grow and of
those of one leaf, and refutes it of indexes of several leaves after removals
(section 9), where a row may be lost or a key come twice.

`SchemasAgree`: foreign keys are known to the tables they reference, or a CREATE
TABLE is about to tell them (`ToTell`), and the saved schemas are those in memory
unless a statement failed half way.  The first half excepts the tables in
`robbed`: those that were dropped or made anew, and those that lost the reference
of another table, since DROP FOREIGN KEY finds the reference it erases by the name
of the key alone (vm.cpp:2249).  The second half excepts the tables in `mixed`,
whose CREATE TABLE found no data file while another statement was dropping or
making the table: a DROP TABLE that has unlinked the data file (vm.cpp:2342) goes
on to unlink the schema file (vm.cpp:2350), and if a CREATE TABLE of the name came
in between, that is the new table's.  Without the exception TLC shows this in a
run of two sessions.  `StuckOnlyByOrder` names the statements without which
sessions never wait for each other in a circle, and the one other cause: tables
that the foreign keys put in no order, such as two that refer to each other
(`NoOrder`). Two unique locks by one thread (a table with two foreign keys to one
parent) are an error of `std::shared_mutex` which the code ignores before it
unlocks twice: `pc = "undefined"`, and nothing is said of what follows.  The same
end have a statement that holds the block cache of a table, or comes upon one,
after a CREATE TABLE has put another table under the name (`cache[t] = "old"`,
`LoseTrack`): it works on the schema and the blocks of a file that is gone.  So
has a `make_reference()` whose parent was made anew with fewer columns, and which
reads behind the last one.

Abstraction.  `make_reference()` appends to the reference lists of a parent without
its lock, which is a data race with an ALTER TABLE of the parent; it is one step
for each parent here, as if the appends could not be torn.

## 7. Expr and Query

`Expr` has values as the machine's strings read: NULL, a number in units of
`1/Scale`, a text, true or false, and the infinite and undefined quotients that
folding makes.  `exec_condition` is evaluation, where every result is printed with
`Sig` digits (`Printed`); `compact_condition` is folding, which is exact for integers
and does not look at the divisor.  `Meaning` is the reference: exact numbers.

`Query` executes one SELECT.  `chain` is the list of tables `m_head .. m_tail`;
`Join` builds it (JOIN alone marks the table before it), `make_query` turns it round
its last RIGHT JOIN, or turns its first half round, and chooses join indexes.
`exec_query`, `exec_outer`, `exec_scan`, `exec_scanned` and `exec_left_join` are the
nested loops, one row per step; `env` and `whereEnv` say from which rows the
columns of the expressions and of the condition were last set, so that a value
left from an earlier round is visible.  `exec_output` inserts a row by its key.
What is put out is not what was computed (`PutOut`): the result of an operation is
read again as a float and printed with `m_out_prec` decimals, that is, as a multiple
of `Unit`, an infinite one is read as 0, and NULL is not read at all, so that the
float keeps what its memory held (vm.cpp:5239), one of `Leftovers`.
`exec_inner_join_0_1` and `exec_left_join_0_1` (vm.cpp:2934-2968, 3111-3152) are
never called, since the first join never has an index.

Shown, against the set of combinations that SQL asks for (`Joined`, `Selected`):
inner joins on neighbouring tables without a join index are exact for chains of up
to five tables (`InnerExact`), a LEFT or RIGHT JOIN of two tables without WHERE is
exact (`OuterExact`), and without WHERE no combination comes twice and complete
ones conform to every condition (`OnlyJoined`); the three and the type are
`JoinsSound`.  `ValuesExact` says that a value put out is that of the expression
as written, and for an operation that it is within half of the last decimal put
out; it excepts numbers longer than a float prints, divisions by zero and
operations that are NULL.  `Sorted` is about the order of numbers that are not
negative.  What these properties leave out is not exact: put `JoinsExact`, the
plain statement, into `Query_select.cfg` and TLC shows a LEFT JOIN with WHERE,
whose unmatched rows come past the condition, or a chain through an index, whose
bare key is compared with a padded one.  Negative numbers and NULL sort by their
text.

## 8. Translator and Machine

`Translator` writes each production as a sequence of steps (match a token, push a
datum, emit a call, an alternative by lookahead, a list with its count), close to
the lines of the parser; `Run` performs them on a parser state.  The expression
productions, the joins and USING, whose code goes into vectors of their own, are
operators on that state.  `compile` reads the code from its end and drops NOP;
`UnknownCalls` are the calls the assembler's table lacks (ALTER DATABASE and ADD
UNIQUE INDEX are parsed and then refused).

`Machine` runs the code: `push`, `pusho`, `call`, `ret`.  A handler takes its operands
by a pattern (`Operands`), so that an empty stack or an item of another kind is a
state (`ub`) and not a gap of the model.  A call that executes a statement is
recorded with its operands and registers.  INSERT pops a set of values, checks it
and inserts its row before it pops the next one (`InsertSets`), so that a set of the
wrong length, or with a value the column does not take, ends it when the rows of
the sets before are in.  `make_foreign_key` keeps the columns of the referenced
table, as the code does (vm.cpp:4477), and not those of the key itself.

`MCMachine` prints statements as tokens with a printer that knows SQL and the
precedence of the operators, and says for each what it means; `AsWritten` compares
that with the recorded call.  The inputs are every kind of statement, 100 and more
expressions, inserts that fail half way, documented statements that the program
refuses, and each text with one token missing or two exchanged, for which
only `WellDefined` and `EffectLast` are claimed.

Shown.  Statements in full are accepted and executed as written, and take effect
last, except that an INSERT may fail after it has inserted rows.  `Accepted` gives
the documented statements that are refused, and that each of them is, without an
effect: ALTER DATABASE (`src/README.md:46`) and ADD UNIQUE INDEX, for which the
assembler has no call, DROP INDEX, DROP UNIQUE INDEX and DROP FOREIGN KEY with
lists of columns (`src/README.md:213-222`), GRANT and REVOKE of CREATE USER
(`src/README.md:301`), and tables separated by commas (`src/README.md:361`).  AND
without parentheses in a SELECT list or an ON condition, and a logical operator
without parentheses in SET, make the machine pop an empty stack or use an
expression of another kind; `WellDefined` says that nothing else does.

## 9. Runs

Every bound is a named constant used in a guard.

| run | bounds | checks |
| --- | --- | --- |
| `dialogue` | 1 statement per line, 3 blocks, 2 messages queued | `Framed`, `ChunkOpcode`, `ErrorShown`, `Answered` |
| `pipelined` | any client, or 2 statements per line; 2 blocks, 2 messages queued, silent statements too | type, `AuthBeforeExec` whatever is sent, where messages run together and both client threads use the buffer |
| `flush` | 1 table, 2 sessions, 2 statements, 2 changes each, 2 blocks | type, `EndOfFile`, `StatementEnds`, `Drained` |
| `drop` | as `flush`, 3 statements, DROP TABLE allowed | `HandleLive`, `JobCovers`, `NoHole` |
| `index_insert` | order 4, 10 rows, two for each key, 11 nodes, no removals | `LevelsLinked`, `LeavesExact`, `FindExact`, `Implements` |
| `index_leaf` | order 6, 8 rows, two for each key, unique, any order, 3 removals | `FindLeadsToRow`, `Implements` |
| `index_remove` | order 4, 10 rows, 9 nodes, 5 removals of 8 of the rows | `ChildrenExist`, type, `Balanced` |
| `users` | 2 sessions, 2 accounts, 5 statements out of 12 | type, `Authorized`, `ReadIsCurrent`, `OrphanOnlyByRace`, `StatementsEnd` |
| `tables` | 2 sessions, 3 tables, 5 statements out of 20 | type, `RowsAsAsked`, `KeyUnique`, `SchemasAgree`, `StuckOnlyByOrder` |
| `select` | 31 statements over up to 5 tables, 48 databases: none, one or two rows in each of three tables; numbers in hundredths, put out in tenths | `JoinsSound`, `ValuesExact`, `Sorted`, `SelectEnds` |
| `statements` | one statement at a time, 902 texts | `AsWritten`, `Accepted`, `WellDefined`, `EffectLast` |
| `foreign_keys` | 2 sessions, a parent and a child table, 2 statements | refutes `ForeignKeysHold` |

Why the bounds are enough to be interesting.  In `dialogue` three blocks are
needed to see a block that follows an acknowledged one twice; a queue of two is
the smallest in which messages can run together, so that `Framed` can fail.  In
`pipelined` two statements on a line are the smallest case in which a message
overtakes an acknowledgement, and two queued messages of another program one in
which a statement stands behind any other request.  In `flush` two blocks make one
block the predecessor of another, two changes make a statement list more than one
block, and two sessions contend for the table while the flush thread works.  In
`drop` three statements allow a writer, a DROP TABLE and a latecomer.  One table
is enough for every property checked there, since no action relates two tables
except through the queue and the mutex, which two statements on one table share as
well; the theorems cover any number.

For the index, order 4 is the smallest even order in which a split leaves a key
in both halves, and ten rows make a tree of three levels, in which inner nodes
are split, borrow and merge.  `Window` bounds how far an insert runs ahead of
lower keys; with two rows for a key the second comes at any later time, so that
leaves in the middle are split too.  Five removals are the least after which a
node that `merge()` has left twice among the children is merged with itself.
One leaf is the usual case of a small table (a block has room for about a
thousand keys of 20 bytes).

In `users` five statements allow an account to be created, granted something, used
by a second session that has signed on with it, and dropped meanwhile; two
databases or tables would add rows that no check relates.  In `tables` two tables
are the smallest case of a foreign key and of a circle of locks, the third is
installed with a key to the same parent, of the name that the second's key gets, and
DROP FOREIGN KEY confuses the two, and five statements allow a key to be added, a row inserted, the
table dropped, made again and used; two sessions let a CREATE TABLE come between
any two steps of a DROP TABLE, of another CREATE TABLE, or of an ALTER TABLE that
refers to the table.  In `select` two rows per table make a match, a failure to
match and a second match; five tables are the least for which `make_query()` turns
half a chain round.  `Scale` and `Sig` are small so that a product of two small
numbers has more digits than are printed, and `Unit` is ten hundredths, so that a
result falls between two numbers that can be put out.

What the refuted run shows: INSERT and LOAD look the parent rows up and ignore the
answer, and DELETE and UPDATE do not look for children, where `src/README.md:58`
promises "foreign/unique key enforcement".  TLC inserts a child without a parent.

The modules state more promises of the code, which TLC refutes when they replace
the properties of a listed configuration:

- `ChunkOpcode` (`Session_pipelined.cfg`): the comment in `fsm::flush()` relies on the
  acknowledgement leaving an equal opcode in the buffer; with two statements on a
  line another opcode arrives.
- `RowsDurable` (`FileCache_flush.cfg`): a block listed while `flush_cache()` walks the
  list is cleared from it unwritten.
- `LinksListed` (`FileCache_flush.cfg`): the block before a new data block gets its
  link in memory only.
- `HeaderWithinFile` (`FileCache_flush.cfg`): the saved next offset can name a block
  that is not in the file.
- `SchemaGone` (`FileCache_drop.cfg`): a flush under way writes the deleted schema
  again.
- `StatementEnds` (`FileCache_drop.cfg` with `FairSpec` and without symmetry):
  DROP TABLE waits under `m_mutex` for a session that needs `m_mutex`.
- `KeysInLeaves` (`BTree_insert.cfg` with order 5): `is_full()` says that the order is
  always even, `bcalc::order()` does not make it so, and a split loses the element
  between the halves.
- `KeysInLeaves` (`BTree_remove.cfg`): elements of inner nodes, which have no row, are
  put into leaves, and those of leaves into inner nodes, so that the first removal
  from a tree of two leaves can already lose another row: with `Window = 4`, rows
  1, 3, 4, 2 inserted in this order and 4 removed.
- `FindLeadsToRow` (`BTree_remove.cfg`): `find()` stops at an inner node, whose element
  has no row.
- `WalksEnd` (`BTree_remove.cfg`): the walk of `get_next_element()` asks the node it
  started from, and does not end in a tree of three levels.
- `LevelsLinked` (`BTree_remove.cfg`): `merge()` moves one child offset too few and
  updates one of the two links.
- `JoinsExact` (`Query_select.cfg`): see section 7.

The index is right in two cases: while one of even order only grows, it is the
sorted list of its rows (`index_insert`), and while it is a single leaf, removals
are right too and `find()` leads to the row (`index_leaf`).  For the rest,
`index_remove` shows what is left of the structure under removals: no node
overflows, every child offset that is read was put there, and the tree stays
balanced: its leaves are at one depth and its nodes keep `MinDegree - 1` keys, the
root excepted.

Deadlock is checked in `select` and `statements`, where the machine must get to its
end.  It is off in the other runs, because the modelled system may stop: a user
need not type, a session ends, and the number of statements is bounded.  That
threads do not wait for ever is stated by `Answered`, `StatementEnds`, `Drained`,
`StatementsEnd` and `StuckOnlyByOrder` instead.

**Fairness.**  `Session`: weak fairness of the client's main thread, of its agent
thread and of the server thread.  The operating system schedules runnable
threads and the connection delivers; nothing obliges the person at the prompt,
so `Input` has no fairness.  `FileCache` and `Users`: weak fairness of every session
within a statement, and of the flush thread.  Statements are bounded, so nobody
can be overtaken for ever at the mutex or a lock, and no strong fairness is
assumed.  `Query`: the one thread goes on.  `BTree`: an operation that has begun
goes on, since it is one call of one thread under a lock it holds.  `Tables` has no
fairness: sessions do block each other there, and `StuckOnlyByOrder` is an
invariant.

`Answered` is about `done` being set.  The wakeup of the main thread can be lost
between the test of the predicate and the wait, so that nothing stronger is
claimed.

Every property of a passing run has a mutant in `PROJECT.json`: a definition
changed the way a bug would change it (the operators commented "Fault for ..."),
under which TLC reports the property violated.

## 10. Proofs

`SessionProofs` assumes only `SessionAssumption`: bounds are natural numbers.

- `TypeCorrect`: `Spec => []TypeOK`.
- `AuthCorrect`: `Spec => []AuthBeforeExec` for any number of statements per line,
  any run-together of messages, and any program that connects: nothing is assumed
  of what is in `c2s`.  `AuthBeforeExec` is not inductive: that a
  statement may start depends on the row of the last opcode sent.  The invariant
  adds that `sopsent` is one of the opcodes behind an authentication only when
  `user` is set; OP_STMT_SYN is accepted in those rows only.
- `DialogueCorrect`, `ChunkCorrect`: for `MaxBatch = 1` and `AnyClient = FALSE`,
  `Framed` with `CliRowExists`, and `ChunkOpcode`, hold for any number of blocks
  and any queue length.  The invariant lists the phases of the dialogue: for each,
  who has the turn, what is under way, and what the two buffers and the two
  last-sent opcodes are.
- `ErrorCorrect`: under the same two hypotheses, `ErrorShown`.  Added to the
  dialogue: as long as no block of a result was sent, the client's last opcode is
  that of the statement, whose row admits an error.

That `MaxBatch = 1` is needed is the subject of section 9: with two statements on a
line `ChunkOpcode` is refuted.

`FileCacheProofs` assumes `FileCacheAssumption` and `MayFailAssumption`.

- `TypeCorrect`: `Spec => []TypeOK`, with the strengthening that a session about
  to change a block has a block number, not `None`.
- `HandleCorrect`: `Spec => []HandleLive`.  `Erase` is enabled only when the cache
  has no user, so the property is inductive with the type invariant.
- `JobCorrect`: `Spec => []JobCovers`.  It needs lock ownership: a session in a
  step that owns the lock is the `writer` of its table, and only such sessions
  are; so at most one session lists blocks of a table.
- `FileCorrect`, `NoHoleCorrect`: `Spec => []EndOfFile`, `Spec => []NoHole`.  The
  strengthening says where the block in work lies: a block chosen is inside the
  file, a new one is at its end, and the same holds for what the flush thread has
  still to write.

`UsersProofs` assumes `UsersAssumption` and `StatementsAssumption`.

- `TypeCorrect`, `NoLostUpdate`: `TypeOK` and `ReadIsCurrent`.  The invariant says of
  each place in a statement which lock the session owns: one about to write owns
  the lock of the table it writes, and the row it read is still in it.
- `PrivilegeCorrect`: `Authorized`.  The history `held` is set whenever a statement is
  permitted; the proof shows that the two scopes of `verify_privilege()` let nothing
  pass that was not permitted at that moment.
- `OrphanCorrect`: `OrphanOnlyByRace`.  Added: a GRANT behind its look at the account
  works for an account that is there, or that was dropped meanwhile and so is in
  `raced`.

`TablesProofs` and `TablesRows` assume `TablesAssumption`, `InstalledAssumption` and
`StatementsAssumption`.

- `TypeCorrect`: `TypeOK`, with what each session has locked and has still to lock.
- `StuckCorrect`: `StuckOnlyByOrder`.  The invariant adds that the tables a statement
  has locked come before those it has still to lock, in the order of its table's
  foreign keys.  The key list it opened is the one in the schema, because only a
  session with the unique lock of a table alters its keys.
- `SchemaCorrect`: the second half of `SchemasAgree` (`SchemaSaved`).  What a
  statement alters it saves in the same step.  CREATE TABLE does not: between
  `add_schema` and `save_schema` the schema in memory is not saved.  The invariant
  (`SavedInv`) says that a table outside `mixed` is made or dropped by one session
  at a time, and has no file then (`Alone`), and that it is saved as soon as it
  has a data file, or is about to get one (`Ripe`).
- `AgreeCorrect`: all of `SchemasAgree`, in every order of the steps of CREATE and
  DROP TABLE with the ALTER TABLE statements of other sessions.  The invariant
  (`SchemaInv`) has three parts.  `TablesOK`: a table in `Known`, which is one
  whose schema has columns, has well-formed keys and indexes, and a foreign key
  has a name of its own in its table and refers to a table in `Known`.
  `KnownInv`: a table with a data file or a block cache is in `Known`, and so are
  the tables of keys that a CREATE TABLE has checked.  `KeysTold`: a key of a
  known table is known to the table it refers to, or a CREATE TABLE has still to
  tell it, unless that table was robbed.  An ALTER TABLE (`AlterStep`) keeps the
  columns of every table; each key it leaves is an old one, or is new and known to
  the table it refers to (`AddKeyAlter`); and a reference that DROP FOREIGN KEY
  takes from another table's key has that key's name, which is when `Rob` puts the
  table into `robbed` (`DropKeyAlter`, `DropRefsFacts`).  A CREATE TABLE replaces
  the schema under a name (`NewTable`) and then tells one parent after the other
  (`ToldKeys`), whatever was altered meanwhile.
- `RowsCorrect`, `KeyCorrect`: `RowsAsAsked` and `KeyUnique`.  The invariant
  (`RowsInv`) is that each row has the columns of its table and, if the key names
  the flagged columns, that the rows are those of `want` and that no two rows have
  one key.  The second half carries the first: where keys are distinct the row
  that an index entry leads to is the only one, so that removing it removes what
  the statement matched.  UPDATE keeps keys distinct because it refuses to assign
  to a flagged column (`KeyStays`).  `RowsAsAsked` compares the length of the list
  with the number of rows asked for; both are equal because the list is a
  bijection onto its elements (`CountDistinct`).

The loops of the code over rows, keys and columns are folds in `Tables`.
`FoldKeeps` of `FoldTheorems` is their induction, proved once for a round and a
property given by INSTANCE: what holds before the loop and is kept by each round
holds after it.  Each loop has a lemma of its own (`InsertKeeps`, `LoadKeeps`,
`KeyListFacts`, `DeleteKeeps`, `UpdateKeeps`, `KeyRefsFacts`, `LeadFacts`,
`DropRefsFacts`) that says what is known after i rounds.

`BTreeProofs` assumes `BTreeAssumption`: an order of 4 or more, even or not, any
rows, keys and bounds.

- `FindKeyCorrect`: `find_key()` ends within `0..m_num_key`, and in a node whose
  keys are in order at the key or at the lowest greater one.  The loop is a
  recursive function of `lo`, `hi` and `alt_mid`; `Loop` proves that such a
  function exists when a measure goes down, from the least-number principle
  (`NatMin`), which stands for the induction that the prover cannot instantiate.
- `TypeCorrect`, `ChildrenCorrect`: `TypeOK`, in which a node has at most order - 1
  keys, and `ChildrenExist`.  Neither is inductive.  The invariant gives every block
  a height (`lev`): leaves have 0 and the children of an inner node are one lower.  A
  set `live` has the root and with a node its children; its members other than the
  root have MinDegree - 1 keys or more, without which a merge could overflow and a
  borrow read an element that is not there.  `Place` says what an operation under way
  has made sure of at its node: an insert that it is not full, a removal that it
  has a key to spare.  Since `merge()` leaves one child offset twice, two children may
  be one block; heights and `live` do not need them distinct.
- `BalanceCorrect`: all leaves are at one depth, and nodes other than the root are
  half full.  It does not say that keys are in order; after removals they are not.

`BTreeGrowth` shows what the index implements in the two cases in which it is right.

The first is an index of even order that only grows: `GrowthFind` and
`GrowthImplements` have the hypotheses `Order % 2 = 0` and `MaxRemovals = 0`, as
in the run `index_insert`. Both are needed, section 9 has the counterexamples.
Keys may be equal, and the index may or may not be unique.

- `GrowthFind`: `Spec => []FindExact`.
- `GrowthImplements`: `Spec => Implements`, the refinement of `Index`: `InsertFirst` and
  `InsertLeaf` are its `Insert`, and every other step stutters.

The invariant (`GInv`) adds to heights and `Place`, with every block in the tree,
a function `K`: `K[b]` are the keys that `insert_non_full()` brings to block b,
all keys at the root, and the keys of an inner node cut its `K` among its children
(`Cut`, `Apart`).  The keys of a node are in order and in its `K`, those of a leaf
have the places of their rows, and a slot behind the last key holds 0 or the key
of a row (`Sound`), because `find()` reads it.  Every block but the root is the
child of one block, once (`Linked`), and every row is in a leaf.  An insert under
way is at a block with its key in `K`; a split cuts the `K` of the full child at
the key that goes up (`SplitGrown`), and an odd order would lose the element
there.

What the recursive functions of `find()`, `end()` and `Refs` compute then follows by the
heights: the first two are loops that go down, and `Refs` exists as the least function
that gathers the leaves (`Gather`).  A row below a block has its key in the block's `K`,
so where `find_key()` meets no equal key there is one child to go to (`LookFinds`).
`verify_unique_key()` trusts `find()`, so that the uniqueness in `Implements` rests on
`FindExact`.

The second is an index that stays one leaf, with any number of removals, of any order,
unique or not.  Its hypothesis `OneLeaf` says that the table has fewer rows than the
order of the index, which is what keeps a real index in one block, or that the bound
leaves no block for a split (`MaxNodes <= 2`, the instance of `index_leaf`).

- `LeafLeads`: `Spec => []FindLeadsToRow`.  In a larger tree it is refuted (section 9).
- `LeafImplements`: `Spec => Implements`, with `RemoveFromLeaf` as `Remove`.

The invariant (`LeafInv`) has one block that holds each row of the table once, in the
order of the keys (`LeafOf`), and an operation under way at that block: an insert
with room for a row that is not there, a removal of one that is.  It uses `TypeOK`,
proved in `BTreeProofs`.  `LeafFind` reduces `find()` to one `find_key()`: the slot
behind the last key, which still holds what was removed or moved, may equal the
key, and `node::find()` answers with the same position as `end()`.  `LeafPut` and
`LeafDrop` say what the moves of `insert_non_full()` and `remove_from_leaf()` do to
the rows of a leaf.  That the leaf is never full when a row comes is the pigeonhole
principle of the library (`NeverFull`); the steps at inner nodes, and the end of
`remove()` without its key, are then never taken (`NoInner`).

The invariants of `BTree` quantify over heights and over `K`, which are functions,
and are not given to TLC; their consequences are.

Only model-checked:

- the liveness properties `Answered`, `StatementEnds`, `Drained`, `StatementsEnd` and
  `SelectEnds`: fairness and ENABLED are beyond the prover;
- `LevelsLinked` and `LeavesExact`, which are about the concatenation of the levels
  (`FlattenSeq`, a fold);
- `Query` and `Machine`, which use RECURSIVE operators over expressions and tokens
  (`Expr`, `Translator`);
- the refuted properties, which are false.

## 11. Not modelled

The lexers of the translator and of the assembler turn characters into tokens,
without state (the translator's has no word for ZEROFILL and IGNORE, so that the
productions which ask for them are in the model with no text that reaches them).
Several statements in one text are not in the instances: the client sends them one
by one.  The layout of printed results, SHOW, DESCRIBE and the creation of
database directories are I/O.  Encryption, logging and error texts are calls into
libraries.  History files, password input and terminal signals of the client, the
server's start-up and shutdown, and the agent thread ending in an exception are
left out.  O_DIRECT transfers and I/O errors are left out: a file is its existence
and its length.  Row bytes, the row chain of a data block, the tree's iterators,
`fill_index()` and the free list of dropped indexes are not modelled; `open_table()`
reading the head of the row list before the lock belongs to them.

## 12. Plan

In order of what the behaviour is worth:

1. `BlockAlloc`: the free list.  `get_offset()` and `next_offset()` after DROP INDEX
   move the header backwards; `remove_index()` follows the block offset of an inner
   element.  Abstract specification: an allocator that never hands out a block in
   use.
2. `BTreeScan`: the iterators and `fill_index()` over the sibling links.
3. `ServerLife`: accept loop, SIGTERM, shutdown, and the flush thread that is never
   joined; composes with `Session`.
4. `RowChain`: rows inside a data block as operators against a sequence.
