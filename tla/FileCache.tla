----------------------------- MODULE FileCache -----------------------------
(***************************************************************************)
(* The block caches of the tables (class block_cache), the cache of those  *)
(* caches with its flush thread (class file_cache) and the statements that *)
(* write through them: INSERT, LOAD DATA, DELETE, UPDATE and ADD INDEX     *)
(* change blocks in memory, list them, and queue ONE flush job when they   *)
(* end; DROP TABLE unlinks the files and waits for the last user.  The     *)
(* tables are ones no index was dropped from: the free list that DROP      *)
(* INDEX leaves behind, and get_offset() takes blocks from, is not here.   *)
(*                                                                         *)
(* A block is its number in the table's file, and its content is only      *)
(* "what the file holds" or something newer: stale[t] and loose[t] are the *)
(* cached blocks of t that differ from the file, because of a change to    *)
(* their rows or keys and because of a change to a sibling link.           *)
(*                                                                         *)
(* m_mutex of file_cache is taken inside one step by the short operations. *)
(* The flush thread holds it through the whole queue and DROP TABLE while  *)
(* it waits.  Neither m_flush_list nor the blocks are guarded by it: the   *)
(* flush thread walks the list while the session that holds the table's    *)
(* lock appends to it.                                                     *)
(***************************************************************************)
EXTENDS Integers, Sequences

CONSTANTS
  Tables,     \* the tables of the database
  Workers,    \* session threads of the server
  MaxBlocks,  \* bound: blocks of a table file
  MaxTouch,   \* bound: blocks one statement changes
  MaxStmts,   \* bound: statements begun
  Droppable,  \* the tables that DROP TABLE statements name
  MayFail     \* statements may end with an exception

ASSUME FileCacheAssumption ==
  /\ MaxBlocks \in Nat /\ MaxTouch \in Nat /\ MaxStmts \in Nat
  /\ Tables /= {} /\ Droppable \subseteq Tables
  /\ "free" \notin Workers /\ "flusher" \notin Workers

ASSUME MayFailAssumption == MayFail \in BOOLEAN

VARIABLES
  next,    \* header::m_next_offset of the schema in memory, in blocks
  data,    \* header::m_data_offset: the block that takes new rows, or None
  stale,   \* blocks whose rows or keys are newer than the file
  loose,   \* blocks whose sibling link is newer than the file
  list,    \* block_cache::m_flush_list
  size,    \* length of the table's file, in blocks
  saved,   \* next_offset as the JSON schema file has it
  files,   \* tables whose .d file exists
  json,    \* tables whose JSON schema file exists
  cached,  \* tables in file_cache::m_cache
  jobs,    \* file_cache::m_job_q
  mutex,   \* who holds file_cache::m_mutex across steps
  writer,  \* who holds the table's rwlock
  wpc, wtab, wblk, left,  \* per session: step, table, block, changes left
  fpc, ftab, todo, walk,  \* flush thread: step, table, rest of the list, and
                          \* whether the iterators of the walk are valid
  failed,  \* tables with a failed statement since their list was cleared
  stmts    \* statements begun

None == -1
Blocks == 0..(MaxBlocks - 1)

heap  == <<next, data, stale, loose>>
disk  == <<size, saved, files, json>>
flush == <<fpc, ftab, todo, walk>>
sess  == <<wpc, wtab, wblk, left>>
vars  == <<heap, list, disk, cached, jobs, mutex, writer, sess, flush,
           failed, stmts>>

(* The steps of a statement during which it owns a shared_ptr to the       *)
(* block_cache of its table, and those in which it owns the table's lock.  *)
Locked  == {"verify", "row", "newdata", "newnode", "touch", "list", "job",
            "release"}
Holding == Locked \union {"lock"}
Steps   == Holding \union {"idle", "unlink", "unschema", "take", "wait"}

Users(t) == {w \in Workers : wpc[w] \in Holding /\ wtab[w] = t}

MutexFree == mutex = "free"

Listed(t) == {list[t][i] : i \in 1..Len(list[t])}

(* The tables exist and are empty: CREATE TABLE wrote a schema and an      *)
(* empty file, and the caches are not loaded.                              *)
Init ==
  /\ next = [t \in Tables |-> 0] /\ data = [t \in Tables |-> None]
  /\ stale = [t \in Tables |-> {}] /\ loose = [t \in Tables |-> {}]
  /\ list = [t \in Tables |-> <<>>]
  /\ size = [t \in Tables |-> 0] /\ saved = [t \in Tables |-> 0]
  /\ files = Tables /\ json = Tables /\ cached = {}
  /\ jobs = <<>> /\ mutex = "free"
  /\ writer = [t \in Tables |-> "free"]
  /\ wpc = [w \in Workers |-> "idle"]
  /\ wtab = [w \in Workers |-> CHOOSE t \in Tables : TRUE]
  /\ wblk = [w \in Workers |-> None]
  /\ left = [w \in Workers |-> 0]
  /\ fpc = "idle" /\ ftab = (CHOOSE t \in Tables : TRUE) /\ todo = <<>>
  /\ walk = "valid"
  /\ failed = {} /\ stmts = 0

-----------------------------------------------------------------------------
(* A session that executes a writing statement.                            *)

Goto(w, pc) == wpc' = [wpc EXCEPT ![w] = pc]

(* open_table(): get_block_cache() under m_mutex finds the table's cache   *)
(* or loads it, which needs the .d file.                                   *)
Open(w, t) ==
  /\ wpc[w] = "idle" /\ stmts < MaxStmts
  /\ MutexFree
  /\ t \in cached \union files
  /\ cached' = cached \union {t}
  /\ wtab' = [wtab EXCEPT ![w] = t]
  /\ left' = [left EXCEPT ![w] = MaxTouch]
  /\ stmts' = stmts + 1
  /\ Goto(w, "lock")
  /\ UNCHANGED <<heap, list, disk, jobs, mutex, writer, wblk, flush, failed>>

(* Neither in the cache nor on disk: ERRNO_MALFORMED_TABLE_REF.            *)
OpenFails(w, t) ==
  /\ wpc[w] = "idle" /\ stmts < MaxStmts
  /\ MutexFree
  /\ t \notin cached \union files
  /\ stmts' = stmts + 1
  /\ UNCHANGED <<heap, list, disk, cached, jobs, mutex, writer, sess, flush,
                 failed>>

(* Fault for EndOfFile: the lock lets a second writer in.                  *)
LockShared(w) ==
  /\ wpc[w] = "lock"
  /\ writer' = [writer EXCEPT ![wtab[w]] = w]
  /\ Goto(w, "verify")
  /\ UNCHANGED <<heap, list, disk, cached, jobs, mutex, wtab, wblk, left,
                 flush, failed, stmts>>

(* unique_lock_tree(): pthread_rwlock_wrlock of the table.                 *)
Lock(w) ==
  /\ wpc[w] = "lock"
  /\ writer[wtab[w]] = "free"
  /\ writer' = [writer EXCEPT ![wtab[w]] = w]
  /\ Goto(w, "verify")
  /\ UNCHANGED <<heap, list, disk, cached, jobs, mutex, wtab, wblk, left,
                 flush, failed, stmts>>

(* verify_privilege(): get_block_cache() of the privilege tables, with the *)
(* table already open and locked.  It may deny the statement.              *)
Verify(w) ==
  /\ wpc[w] = "verify"
  /\ MutexFree
  /\ \E pc \in {"row", "release"} : Goto(w, pc)
  /\ UNCHANGED <<heap, list, disk, cached, jobs, mutex, writer, wtab, wblk,
                 left, flush, failed, stmts>>

(* The next change is to a block the table already has: a row that fits in *)
(* the current data block, a row that is updated or removed, or a key.     *)
Pick(w, b) ==
  /\ wpc[w] = "row" /\ left[w] > 0
  /\ b < next[wtab[w]]
  /\ wblk' = [wblk EXCEPT ![w] = b]
  /\ left' = [left EXCEPT ![w] = @ - 1]
  /\ Goto(w, "touch")
  /\ UNCHANGED <<heap, list, disk, cached, jobs, mutex, writer, wtab, flush,
                 failed, stmts>>

(* next_offset(): the header takes the new block into account before the   *)
(* block exists.  A data block also becomes the block for new rows; wblk   *)
(* keeps the one before it, whose link is set once the new one is there.   *)
GrowData(w) ==
  LET t == wtab[w] IN
  /\ wpc[w] = "row" /\ left[w] > 0
  /\ next[t] < MaxBlocks
  /\ wblk' = [wblk EXCEPT ![w] = data[t]]
  /\ data' = [data EXCEPT ![t] = next[t]]
  /\ next' = [next EXCEPT ![t] = @ + 1]
  /\ left' = [left EXCEPT ![w] = @ - 1]
  /\ Goto(w, "newdata")
  /\ UNCHANGED <<stale, loose, list, disk, cached, jobs, mutex, writer, wtab,
                 flush, failed, stmts>>

GrowIndex(w) ==
  LET t == wtab[w] IN
  /\ wpc[w] = "row" /\ left[w] > 0
  /\ next[t] < MaxBlocks
  /\ wblk' = [wblk EXCEPT ![w] = next[t]]
  /\ next' = [next EXCEPT ![t] = @ + 1]
  /\ left' = [left EXCEPT ![w] = @ - 1]
  /\ Goto(w, "newnode")
  /\ UNCHANGED <<data, stale, loose, list, disk, cached, jobs, mutex, writer,
                 wtab, flush, failed, stmts>>

(* write_block() at offset b extends the file when b is its end.           *)
Extend(t, b) ==
  size' = [size EXCEPT ![t] = IF @ <= b THEN b + 1 ELSE @]

(* Fault for TypeOK: insert() goes on with the block before the new one.   *)
NewDataKeepsOld(w) ==
  LET t == wtab[w] IN
  /\ wpc[w] = "newdata"
  /\ Extend(t, data[t])
  /\ stale' = [stale EXCEPT ![t] = @ \union {data[t]}]
  /\ loose' = [loose EXCEPT ![t] = @ \union ({wblk[w]} \ {None})]
  /\ Goto(w, "touch")
  /\ UNCHANGED <<next, data, list, saved, files, json, cached, jobs, mutex,
                 writer, wtab, wblk, left, flush, failed, stmts>>

(* new_data(): new_block() writes zeros, then the header fields of the     *)
(* block are set in memory; tree::insert() sets both sibling links.        *)
NewData(w) ==
  LET t == wtab[w]
      b == data[t]
  IN
  /\ wpc[w] = "newdata"
  /\ Extend(t, b)
  /\ stale' = [stale EXCEPT ![t] = @ \union {b}]
  /\ loose' = [loose EXCEPT ![t] = @ \union ({wblk[w]} \ {None})]
  /\ wblk' = [wblk EXCEPT ![w] = b]
  /\ Goto(w, "touch")
  /\ UNCHANGED <<next, data, list, saved, files, json, cached, jobs, mutex,
                 writer, wtab, left, flush, failed, stmts>>

(* Fault for NoHole: new_block() leaves the first write to the flush.      *)
NewNodeUnwritten(w) ==
  /\ wpc[w] = "newnode"
  /\ stale' = [stale EXCEPT ![wtab[w]] = @ \union {wblk[w]}]
  /\ Goto(w, "touch")
  /\ UNCHANGED <<next, data, loose, list, disk, cached, jobs, mutex, writer,
                 wtab, wblk, left, flush, failed, stmts>>

(* new_node(): the same for a node; its links are listed with the node.    *)
NewNode(w) ==
  LET t == wtab[w] IN
  /\ wpc[w] = "newnode"
  /\ Extend(t, wblk[w])
  /\ stale' = [stale EXCEPT ![t] = @ \union {wblk[w]}]
  /\ Goto(w, "touch")
  /\ UNCHANGED <<next, data, loose, list, saved, files, json, cached, jobs,
                 mutex, writer, wtab, wblk, left, flush, failed, stmts>>

(* The put_...() calls on the block's buffer.                              *)
Touch(w) ==
  /\ wpc[w] = "touch"
  /\ stale' = [stale EXCEPT ![wtab[w]] = @ \union {wblk[w]}]
  /\ Goto(w, "list")
  /\ UNCHANGED <<next, data, loose, list, disk, cached, jobs, mutex, writer,
                 wtab, wblk, left, flush, failed, stmts>>

(* data::commit() and node::flush(): flush_block() appends the block       *)
(* unless it is listed.  push_back() during the walk of the flush thread   *)
(* may move the vector and leaves the walk with invalid iterators.         *)
List(w) ==
  LET t == wtab[w] IN
  /\ wpc[w] = "list"
  /\ \/ /\ wblk[w] \in Listed(t)
        /\ UNCHANGED <<list, walk>>
     \/ /\ wblk[w] \notin Listed(t)
        /\ list' = [list EXCEPT ![t] = Append(@, wblk[w])]
        /\ walk' = IF fpc = "walk" /\ ftab = t THEN "invalid" ELSE walk
  /\ Goto(w, "row")
  /\ UNCHANGED <<heap, disk, cached, jobs, mutex, writer, wtab, wblk, left,
                 fpc, ftab, todo, failed, stmts>>

(* An exception (a value that does not convert, a malformed list) leaves   *)
(* the statement: what it changed and listed stays, no job is queued.      *)
Fail(w) ==
  /\ wpc[w] = "row" /\ MayFail
  /\ failed' = failed \union {wtab[w]}
  /\ Goto(w, "release")
  /\ UNCHANGED <<heap, list, disk, cached, jobs, mutex, writer, wtab, wblk,
                 left, flush, stmts>>

Rows(w) ==
  /\ wpc[w] = "row"
  /\ Goto(w, "job")
  /\ UNCHANGED <<heap, list, disk, cached, jobs, mutex, writer, wtab, wblk,
                 left, flush, failed, stmts>>

(* Fault for JobCovers: the statement ends without its flush job.          *)
AddJobForgotten(w) ==
  /\ wpc[w] = "job"
  /\ MutexFree
  /\ Goto(w, "release")
  /\ UNCHANGED <<heap, list, disk, cached, jobs, mutex, writer, wtab, wblk,
                 left, flush, failed, stmts>>

(* dbms::flush(): add_job(TYPE_FLUSH) under m_mutex, then notify_one().    *)
AddJob(w) ==
  /\ wpc[w] = "job"
  /\ MutexFree
  /\ jobs' = Append(jobs, wtab[w])
  /\ Goto(w, "release")
  /\ UNCHANGED <<heap, list, disk, cached, mutex, writer, wtab, wblk, left,
                 flush, failed, stmts>>

(* Fault for StatementEnds: the table stays locked.                        *)
ReleaseLeaks(w) ==
  /\ wpc[w] = "release"
  /\ Goto(w, "idle")
  /\ UNCHANGED <<heap, list, disk, cached, jobs, mutex, writer, wtab, wblk,
                 left, flush, failed, stmts>>

(* vm::~vm(): the tree list is cleared, the lock and the shared_ptr go.    *)
Release(w) ==
  /\ wpc[w] = "release"
  /\ writer' = [writer EXCEPT ![wtab[w]] = "free"]
  /\ Goto(w, "idle")
  /\ UNCHANGED <<heap, list, disk, cached, jobs, mutex, wtab, wblk, left,
                 flush, failed, stmts>>

-----------------------------------------------------------------------------
(* A session that executes DROP TABLE.  It takes no lock of the table.     *)

(* verify_privilege() passes.                                              *)
Drop(w, t) ==
  /\ wpc[w] = "idle" /\ stmts < MaxStmts
  /\ MutexFree
  /\ wtab' = [wtab EXCEPT ![w] = t]
  /\ stmts' = stmts + 1
  /\ Goto(w, "unlink")
  /\ UNCHANGED <<heap, list, disk, cached, jobs, mutex, writer, wblk, left,
                 flush, failed>>

(* unlink() of the .d file; ERRNO_SYSTEM_ERROR when it is not there.       *)
Unlink(w) ==
  /\ wpc[w] = "unlink"
  /\ files' = files \ {wtab[w]}
  /\ Goto(w, IF wtab[w] \in files THEN "unschema" ELSE "idle")
  /\ UNCHANGED <<heap, list, size, saved, json, cached, jobs, mutex, writer,
                 wtab, wblk, left, flush, failed, stmts>>

(* unlink() of the JSON schema.                                            *)
Unschema(w) ==
  /\ wpc[w] = "unschema"
  /\ json' = json \ {wtab[w]}
  /\ Goto(w, IF wtab[w] \in json THEN "take" ELSE "idle")
  /\ UNCHANGED <<heap, list, size, saved, files, cached, jobs, mutex, writer,
                 wtab, wblk, left, flush, failed, stmts>>

(* drop_block_cache(): m_mutex is taken and kept while use_count() > 1.    *)
Take(w) ==
  /\ wpc[w] = "take"
  /\ MutexFree
  /\ mutex' = w
  /\ Goto(w, "wait")
  /\ UNCHANGED <<heap, list, disk, cached, jobs, writer, wtab, wblk, left,
                 flush, failed, stmts>>

(* Fault for HandleLive: the cache is erased while sessions use it.        *)
EraseNow(w) ==
  LET t == wtab[w] IN
  /\ wpc[w] = "wait"
  /\ cached' = cached \ {t}
  /\ list' = [list EXCEPT ![t] = <<>>]
  /\ stale' = [stale EXCEPT ![t] = {}]
  /\ loose' = [loose EXCEPT ![t] = {}]
  /\ mutex' = "free"
  /\ Goto(w, "idle")
  /\ UNCHANGED <<next, data, disk, jobs, writer, wtab, wblk, left, flush,
                 failed, stmts>>

(* The cache goes with its flush list and its blocks.                      *)
Erase(w) ==
  LET t == wtab[w] IN
  /\ wpc[w] = "wait"
  /\ t \in cached => Users(t) = {}
  /\ cached' = cached \ {t}
  /\ list' = [list EXCEPT ![t] = <<>>]
  /\ stale' = [stale EXCEPT ![t] = {}]
  /\ loose' = [loose EXCEPT ![t] = {}]
  /\ mutex' = "free"
  /\ Goto(w, "idle")
  /\ UNCHANGED <<next, data, disk, jobs, writer, wtab, wblk, left, flush,
                 failed, stmts>>

-----------------------------------------------------------------------------
(* The flush thread: run() waits for a job, do_work() empties the queue.   *)

FStart ==
  /\ fpc = "idle" /\ jobs /= <<>>
  /\ MutexFree
  /\ mutex' = "flusher"
  /\ fpc' = "work"
  /\ UNCHANGED <<heap, list, disk, cached, jobs, writer, sess, ftab, todo,
                 walk, failed, stmts>>

(* The table's cache is found, or loaded again when its file is there, and *)
(* flush_cache() starts to walk the flush list.                            *)
FPop ==
  LET t == Head(jobs) IN
  /\ fpc = "work" /\ jobs /= <<>>
  /\ t \in cached \union files
  /\ cached' = cached \union {t}
  /\ jobs' = Tail(jobs)
  /\ ftab' = t
  /\ todo' = list[t]
  /\ walk' = "valid"
  /\ fpc' = "walk"
  /\ UNCHANGED <<heap, list, disk, mutex, writer, sess, failed, stmts>>

(* Fault for Drained: do_work() comes back with m_mutex still locked.      *)
FReturnLocked ==
  /\ fpc = "work" /\ jobs = <<>>
  /\ fpc' = "idle"
  /\ UNCHANGED <<heap, list, disk, cached, jobs, mutex, writer, sess, ftab,
                 todo, walk, failed, stmts>>

(* A dropped table has no cache: do_work() returns and leaves the rest of  *)
(* the queue to its next call.                                             *)
FReturn ==
  /\ fpc = "work"
  /\ \/ jobs = <<>> /\ UNCHANGED jobs
     \/ /\ jobs /= <<>> /\ Head(jobs) \notin cached \union files
        /\ jobs' = Tail(jobs)
  /\ mutex' = "free"
  /\ fpc' = "idle"
  /\ UNCHANGED <<heap, list, disk, cached, writer, sess, ftab, todo, walk,
                 failed, stmts>>

(* write_block() of the next block of the list, as it is in memory now.    *)
FWrite ==
  LET b == Head(todo) IN
  /\ fpc = "walk" /\ todo /= <<>>
  /\ Extend(ftab, b)
  /\ stale' = [stale EXCEPT ![ftab] = @ \ {b}]
  /\ loose' = [loose EXCEPT ![ftab] = @ \ {b}]
  /\ todo' = Tail(todo)
  /\ UNCHANGED <<next, data, list, saved, files, json, cached, jobs, mutex,
                 writer, sess, fpc, ftab, walk, failed, stmts>>

(* After the vector moved, the walk reads memory that is no longer its     *)
(* own; what it finds there is no block of the cache.                      *)
FSkip ==
  /\ fpc = "walk" /\ todo /= <<>>
  /\ walk = "invalid"
  /\ todo' = Tail(todo)
  /\ UNCHANGED <<heap, list, disk, cached, jobs, mutex, writer, sess, fpc,
                 ftab, walk, failed, stmts>>

(* m_flush_list.clear()                                                    *)
FClear ==
  /\ fpc = "walk" /\ todo = <<>>
  /\ list' = [list EXCEPT ![ftab] = <<>>]
  /\ failed' = failed \ {ftab}
  /\ fpc' = "save"
  /\ UNCHANGED <<heap, disk, cached, jobs, mutex, writer, sess, ftab, todo,
                 walk, stmts>>

(* save_schema(): the header as it is in memory now, with no lock of the   *)
(* table; the file is created when it is not there.                        *)
FSave ==
  /\ fpc = "save"
  /\ saved' = [saved EXCEPT ![ftab] = next[ftab]]
  /\ json' = json \union {ftab}
  /\ fpc' = "work"
  /\ UNCHANGED <<heap, list, size, files, cached, jobs, mutex, writer, sess,
                 ftab, todo, walk, failed, stmts>>

-----------------------------------------------------------------------------
Statement(w) ==
  \/ \E t \in Tables : Open(w, t) \/ OpenFails(w, t)
  \/ Lock(w) \/ Verify(w)
  \/ \E b \in Blocks : Pick(w, b)
  \/ GrowData(w) \/ GrowIndex(w) \/ NewData(w) \/ NewNode(w)
  \/ Touch(w) \/ List(w)
  \/ Fail(w) \/ Rows(w) \/ AddJob(w) \/ Release(w)

DropTable(w) ==
  \/ \E t \in Droppable : Drop(w, t)
  \/ Unlink(w) \/ Unschema(w) \/ Take(w) \/ Erase(w)

FlushThread ==
  FStart \/ FPop \/ FReturn \/ FWrite \/ FSkip \/ FClear \/ FSave

Next ==
  \/ \E w \in Workers : Statement(w) \/ DropTable(w)
  \/ FlushThread

Spec == Init /\ [][Next]_vars

(* Running threads are scheduled; nobody is forced to begin a statement.   *)
(* Statements are bounded, so a thread waiting for the mutex or a lock     *)
(* cannot be overtaken for ever and weak fairness is enough.               *)
Fairness ==
  /\ \A w \in Workers :
       WF_vars(wpc[w] /= "idle" /\ (Statement(w) \/ DropTable(w)))
  /\ WF_vars(FlushThread)

FairSpec == Spec /\ Fairness

-----------------------------------------------------------------------------
TypeOK ==
  /\ next \in [Tables -> 0..MaxBlocks]
  /\ data \in [Tables -> Blocks \union {None}]
  /\ stale \in [Tables -> SUBSET Blocks] /\ loose \in [Tables -> SUBSET Blocks]
  /\ list \in [Tables -> Seq(Blocks)]
  /\ size \in [Tables -> 0..MaxBlocks] /\ saved \in [Tables -> 0..MaxBlocks]
  /\ files \subseteq Tables /\ json \subseteq Tables /\ cached \subseteq Tables
  /\ jobs \in Seq(Tables)
  /\ mutex \in Workers \union {"free", "flusher"}
  /\ writer \in [Tables -> Workers \union {"free"}]
  /\ wpc \in [Workers -> Steps]
  /\ wtab \in [Workers -> Tables]
  /\ wblk \in [Workers -> Blocks \union {None}]
  /\ left \in [Workers -> 0..MaxTouch]
  /\ fpc \in {"idle", "work", "walk", "save"}
  /\ ftab \in Tables /\ todo \in Seq(Blocks) /\ walk \in {"valid", "invalid"}
  /\ failed \subseteq Tables
  /\ stmts \in 0..MaxStmts

Queued(t) == \E i \in 1..Len(jobs) : jobs[i] = t

(* Whoever lists a block answers for its flush: while the flush list of a  *)
(* table is not empty, a flush of it is queued, or under way, or a         *)
(* statement on the table is still to queue one; only a statement that     *)
(* failed leaves a list that waits for somebody else's flush.              *)
JobCovers ==
  \A t \in Tables : list[t] /= <<>> =>
    \/ Queued(t)
    \/ fpc = "walk" /\ ftab = t
    \/ writer[t] /= "free" /\ wpc[writer[t]] /= "release"
    \/ t \in failed

(* drop_block_cache() never takes a cache away from a session that works   *)
(* on it: the cache of every session's table is the one in m_cache, so     *)
(* that what the session lists is what the flush thread will find.         *)
HandleLive ==
  \A w \in Workers : wpc[w] \in Holding => wtab[w] \in cached

Pending(t) ==
  writer[t] /= "free" /\ wpc[writer[t]] \in {"newdata", "newnode"}

(* next_offset is the end of the file, except between next_offset() and    *)
(* new_block() of the one session that holds the table's lock.             *)
EndOfFile ==
  \A t \in Tables :
    next[t] = IF Pending(t) THEN size[t] + 1 ELSE size[t]

(* The flush thread overwrites, it never extends: every block that it is   *)
(* to write lies inside the file, so that no hole of unwritten blocks can  *)
(* come up between the old end of the file and the block.                  *)
NoHole ==
  /\ \A t \in Tables : \A b \in Listed(t) : b < size[t]
  /\ \A i \in 1..Len(todo) : todo[i] < size[ftab]

(* Every statement that has begun comes to its end.                        *)
StatementEnds == \A w \in Workers : wpc[w] /= "idle" ~> wpc[w] = "idle"

(* Every flush job is carried out and m_mutex is given back.               *)
Drained == jobs /= <<>> ~> jobs = <<>> /\ MutexFree

-----------------------------------------------------------------------------
(* What the code and its documentation promise and the runs refute.        *)

Quiet == jobs = <<>> /\ fpc = "idle" /\ \A w \in Workers : wpc[w] = "idle"

(* When everything that was queued has been flushed, every change made by  *)
(* statements that succeeded is in the file.                               *)
RowsDurable == Quiet => \A t \in Tables \ failed : stale[t] = {}

(* When a statement queues its flush, every block whose sibling link it    *)
(* changed is on the list of the blocks to write.                          *)
LinksListed ==
  \A w \in Workers : wpc[w] = "job" => loose[wtab[w]] \subseteq Listed(wtab[w])

(* The next offset in the schema file is never beyond the end of the data  *)
(* file: it is where a restarted server continues.                         *)
HeaderWithinFile == \A t \in json \intersect files : saved[t] <= size[t]

(* Once DROP TABLE has deleted the schema it stays deleted.                *)
SchemaGone == [][\A t \in Tables : t \notin files /\ t \notin json
                                     => t \notin json']_vars

=============================================================================
