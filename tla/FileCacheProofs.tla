-------------------------- MODULE FileCacheProofs --------------------------
(* Proofs about FileCache, for any tables, sessions and bounds.            *)
EXTENDS FileCache, TLAPS

(* TypeOK is inductive together with the steps at which wblk and data are  *)
(* known to name a block.                                                  *)
BlkOK ==
  \A w \in Workers :
    /\ wpc[w] \in {"newnode", "touch", "list"} => wblk[w] \in Blocks
    /\ wpc[w] = "newdata" => data[wtab[w]] \in Blocks

TypeInv == TypeOK /\ BlkOK

(* Where a statement may be, name by name; Steps itself stays folded.      *)
LEMMA StepNames ==
  /\ "idle" \in Steps /\ "lock" \in Steps /\ "verify" \in Steps
  /\ "row" \in Steps /\ "newdata" \in Steps /\ "newnode" \in Steps
  /\ "touch" \in Steps /\ "list" \in Steps /\ "job" \in Steps
  /\ "release" \in Steps /\ "unlink" \in Steps /\ "unschema" \in Steps
  /\ "take" \in Steps /\ "wait" \in Steps
  BY DEF Steps, Holding, Locked

LEMMA TypeInvInit == Init => TypeInv
<1>. SUFFICES ASSUME Init PROVE TypeInv
  OBVIOUS
<1>1. (CHOOSE t \in Tables : TRUE) \in Tables
  BY FileCacheAssumption
<1>. DEFINE T == CHOOSE t \in Tables : TRUE
<1>2. wtab = [w \in Workers |-> T] /\ ftab = T /\ T \in Tables
  BY <1>1 DEF Init
<1>. HIDE DEF T
<1>3. wtab \in [Workers -> Tables] /\ ftab \in Tables
  BY <1>2
<1>4. wpc \in [Workers -> Steps] /\ \A w \in Workers : wpc[w] = "idle"
  BY StepNames DEF Init
<1>5. /\ next \in [Tables -> 0..MaxBlocks]
      /\ data \in [Tables -> Blocks \union {None}]
      /\ stale \in [Tables -> SUBSET Blocks]
      /\ loose \in [Tables -> SUBSET Blocks]
      /\ list \in [Tables -> Seq(Blocks)]
      /\ size \in [Tables -> 0..MaxBlocks]
      /\ saved \in [Tables -> 0..MaxBlocks]
  BY FileCacheAssumption DEF Init
<1>6. /\ files \subseteq Tables /\ json \subseteq Tables
      /\ cached \subseteq Tables /\ jobs \in Seq(Tables)
      /\ mutex \in Workers \union {"free", "flusher"}
      /\ writer \in [Tables -> Workers \union {"free"}]
      /\ wblk \in [Workers -> Blocks \union {None}]
      /\ left \in [Workers -> 0..MaxTouch]
      /\ fpc \in {"idle", "work", "walk", "save"}
      /\ todo \in Seq(Blocks) /\ walk \in {"valid", "invalid"}
      /\ failed \subseteq Tables /\ stmts \in 0..MaxStmts
  BY FileCacheAssumption DEF Init
<1>. QED
  BY <1>3, <1>4, <1>5, <1>6 DEF TypeInv, TypeOK, BlkOK

(* An update at one place keeps the type of a function.                    *)
LEMMA UpdateType ==
  ASSUME NEW S, NEW T, NEW f \in [S -> T], NEW x \in S, NEW v \in T
  PROVE  [f EXCEPT ![x] = v] \in [S -> T]
  OBVIOUS

LEMMA LeftType ==
  ASSUME TypeOK, NEW w \in Workers, left[w] > 0
  PROVE  [left EXCEPT ![w] = @ - 1] \in [Workers -> 0..MaxTouch]
<1>1. left \in [Workers -> 0..MaxTouch] /\ MaxTouch \in Nat
  BY FileCacheAssumption DEF TypeOK
<1>2. left[w] - 1 \in 0..MaxTouch
  BY <1>1
<1>. QED
  BY <1>1, <1>2, UpdateType

LEMMA NextType ==
  ASSUME TypeOK, NEW t \in Tables, next[t] < MaxBlocks
  PROVE  /\ next[t] \in Blocks
         /\ [next EXCEPT ![t] = @ + 1] \in [Tables -> 0..MaxBlocks]
<1>1. next \in [Tables -> 0..MaxBlocks] /\ MaxBlocks \in Nat
  BY FileCacheAssumption DEF TypeOK
<1>2. next[t] + 1 \in 0..MaxBlocks /\ next[t] \in Blocks
  BY <1>1 DEF Blocks
<1>. QED
  BY <1>1, <1>2, UpdateType

LEMMA ExtendType ==
  ASSUME TypeOK, NEW t \in Tables, NEW b \in Blocks, Extend(t, b)
  PROVE  size' \in [Tables -> 0..MaxBlocks]
<1>. DEFINE v == IF size[t] <= b THEN b + 1 ELSE size[t]
<1>1. size \in [Tables -> 0..MaxBlocks] /\ MaxBlocks \in Nat
  BY FileCacheAssumption DEF TypeOK
<1>3. v \in 0..MaxBlocks
  BY <1>1 DEF Blocks
<1>2. size' = [size EXCEPT ![t] = v]
  BY DEF Extend
<1>. QED
  BY <1>1, <1>2, <1>3, UpdateType

(* Each step keeps the types; per step, one fact per variable it assigns.  *)
LEMMA TypeStatement ==
  ASSUME TypeOK, BlkOK, NEW w \in Workers, Statement(w) PROVE TypeOK'
<1>1. ASSUME NEW t \in Tables, Open(w, t) PROVE TypeOK'
  <2>1. cached' \subseteq Tables
    BY <1>1 DEF Open, TypeOK
  <2>2. wtab' \in [Workers -> Tables]
    BY <1>1 DEF Open, TypeOK
  <2>3. /\ left' \in [Workers -> 0..MaxTouch]
        /\ stmts' \in 0..MaxStmts
    BY <1>1, FileCacheAssumption DEF Open, TypeOK
  <2>4. wpc' \in [Workers -> Steps]
    BY <1>1, StepNames DEF Open, TypeOK, Goto
  <2>5. UNCHANGED <<next, data, stale, loose, list, size, saved, files, json,
                    jobs, mutex, writer, wblk, fpc, ftab, todo, walk, failed>>
    BY <1>1 DEF Open, heap, disk, flush, sess
  <2>. QED
    BY <2>1, <2>2, <2>3, <2>4, <2>5 DEF TypeOK
<1>2. ASSUME NEW t \in Tables, OpenFails(w, t) PROVE TypeOK'
  <2>1. stmts' \in 0..MaxStmts
    BY <1>2, FileCacheAssumption DEF OpenFails, TypeOK
  <2>2. UNCHANGED <<next, data, stale, loose, list, size, saved, files, json,
                    cached, jobs, mutex, writer, wpc, wtab, wblk, left, fpc,
                    ftab, todo, walk, failed>>
    BY <1>2 DEF OpenFails, heap, disk, flush, sess
  <2>. QED
    BY <2>1, <2>2 DEF TypeOK
<1>3. CASE Lock(w)
  <2>1. writer' \in [Tables -> Workers \union {"free"}]
    BY <1>3 DEF Lock, TypeOK
  <2>2. wpc' \in [Workers -> Steps]
    BY <1>3, StepNames DEF Lock, TypeOK, Goto
  <2>3. UNCHANGED <<next, data, stale, loose, list, size, saved, files, json,
                    cached, jobs, mutex, wtab, wblk, left, fpc, ftab, todo,
                    walk, failed, stmts>>
    BY <1>3 DEF Lock, heap, disk, flush, sess
  <2>. QED
    BY <2>1, <2>2, <2>3 DEF TypeOK
<1>4. CASE Verify(w)
  <2>1. wpc' \in [Workers -> Steps]
    BY <1>4, StepNames DEF Verify, TypeOK, Goto
  <2>2. UNCHANGED <<next, data, stale, loose, list, size, saved, files, json,
                    cached, jobs, mutex, writer, wtab, wblk, left, fpc, ftab,
                    todo, walk, failed, stmts>>
    BY <1>4 DEF Verify, heap, disk, flush, sess
  <2>. QED
    BY <2>1, <2>2 DEF TypeOK
<1>5. ASSUME NEW b \in Blocks, Pick(w, b) PROVE TypeOK'
  <2>1. wblk' \in [Workers -> Blocks \union {None}]
    BY <1>5 DEF Pick, TypeOK
  <2>2. left' \in [Workers -> 0..MaxTouch]
    BY <1>5, LeftType DEF Pick
  <2>3. wpc' \in [Workers -> Steps]
    BY <1>5, StepNames DEF Pick, TypeOK, Goto
  <2>4. UNCHANGED <<next, data, stale, loose, list, size, saved, files, json,
                    cached, jobs, mutex, writer, wtab, fpc, ftab, todo, walk,
                    failed, stmts>>
    BY <1>5 DEF Pick, heap, disk, flush, sess
  <2>. QED
    BY <2>1, <2>2, <2>3, <2>4 DEF TypeOK
<1>6. CASE GrowData(w)
  <2>1. wblk' \in [Workers -> Blocks \union {None}]
    BY <1>6 DEF GrowData, TypeOK
  <2>2. data' \in [Tables -> Blocks \union {None}]
    <3>1. next[wtab[w]] \in Blocks
      BY <1>6, NextType DEF GrowData, TypeOK
    <3>. QED
      BY <1>6, <3>1 DEF GrowData, TypeOK
  <2>3. /\ next' \in [Tables -> 0..MaxBlocks]
        /\ left' \in [Workers -> 0..MaxTouch]
    <3>1. next[wtab[w]] < MaxBlocks /\ left[w] > 0 /\ wtab[w] \in Tables
      BY <1>6 DEF GrowData, TypeOK
    <3>. QED
      BY <1>6, <3>1, LeftType, NextType DEF GrowData
  <2>4. wpc' \in [Workers -> Steps]
    BY <1>6, StepNames DEF GrowData, TypeOK, Goto
  <2>5. UNCHANGED <<stale, loose, list, size, saved, files, json, cached,
                    jobs, mutex, writer, wtab, fpc, ftab, todo, walk, failed,
                    stmts>>
    BY <1>6 DEF GrowData, heap, disk, flush, sess
  <2>. QED
    BY <2>1, <2>2, <2>3, <2>4, <2>5 DEF TypeOK
<1>7. CASE GrowIndex(w)
  <2>1. wblk' \in [Workers -> Blocks \union {None}]
    <3>1. next[wtab[w]] \in Blocks
      BY <1>7, NextType DEF GrowIndex, TypeOK
    <3>. QED
      BY <1>7, <3>1 DEF GrowIndex, TypeOK
  <2>2. /\ next' \in [Tables -> 0..MaxBlocks]
        /\ left' \in [Workers -> 0..MaxTouch]
    <3>1. next[wtab[w]] < MaxBlocks /\ left[w] > 0 /\ wtab[w] \in Tables
      BY <1>7 DEF GrowIndex, TypeOK
    <3>. QED
      BY <1>7, <3>1, LeftType, NextType DEF GrowIndex
  <2>3. wpc' \in [Workers -> Steps]
    BY <1>7, StepNames DEF GrowIndex, TypeOK, Goto
  <2>4. UNCHANGED <<data, stale, loose, list, size, saved, files, json,
                    cached, jobs, mutex, writer, wtab, fpc, ftab, todo, walk,
                    failed, stmts>>
    BY <1>7 DEF GrowIndex, heap, disk, flush, sess
  <2>. QED
    BY <2>1, <2>2, <2>3, <2>4 DEF TypeOK
<1>8. CASE NewData(w)
  <2>1. size' \in [Tables -> 0..MaxBlocks]
    BY <1>8, ExtendType DEF NewData, TypeOK, BlkOK
  <2>2. stale' \in [Tables -> SUBSET Blocks]
    BY <1>8, FileCacheAssumption DEF NewData, TypeOK, Blocks, BlkOK
  <2>3. loose' \in [Tables -> SUBSET Blocks]
    BY <1>8, FileCacheAssumption DEF NewData, TypeOK, Blocks, BlkOK
  <2>4. wblk' \in [Workers -> Blocks \union {None}]
    BY <1>8, FileCacheAssumption DEF NewData, TypeOK, Blocks, BlkOK
  <2>5. wpc' \in [Workers -> Steps]
    BY <1>8, StepNames DEF NewData, TypeOK, Goto
  <2>6. UNCHANGED <<next, data, list, saved, files, json, cached, jobs, mutex,
                    writer, wtab, left, fpc, ftab, todo, walk, failed, stmts>>
    BY <1>8 DEF NewData, heap, disk, flush, sess
  <2>. QED
    BY <2>1, <2>2, <2>3, <2>4, <2>5, <2>6 DEF TypeOK
<1>9. CASE NewNode(w)
  <2>1. size' \in [Tables -> 0..MaxBlocks]
    BY <1>9, ExtendType DEF NewNode, TypeOK, BlkOK
  <2>2. stale' \in [Tables -> SUBSET Blocks]
    BY <1>9, FileCacheAssumption DEF NewNode, TypeOK, Blocks, BlkOK
  <2>3. wpc' \in [Workers -> Steps]
    BY <1>9, StepNames DEF NewNode, TypeOK, Goto
  <2>4. UNCHANGED <<next, data, loose, list, saved, files, json, cached, jobs,
                    mutex, writer, wtab, wblk, left, fpc, ftab, todo, walk,
                    failed, stmts>>
    BY <1>9 DEF NewNode, heap, disk, flush, sess
  <2>. QED
    BY <2>1, <2>2, <2>3, <2>4 DEF TypeOK
<1>10. CASE Touch(w)
  <2>1. stale' \in [Tables -> SUBSET Blocks]
    BY <1>10, FileCacheAssumption DEF Touch, TypeOK, Blocks, BlkOK
  <2>2. wpc' \in [Workers -> Steps]
    BY <1>10, StepNames DEF Touch, TypeOK, Goto
  <2>3. UNCHANGED <<next, data, loose, list, size, saved, files, json, cached,
                    jobs, mutex, writer, wtab, wblk, left, fpc, ftab, todo,
                    walk, failed, stmts>>
    BY <1>10 DEF Touch, heap, disk, flush, sess
  <2>. QED
    BY <2>1, <2>2, <2>3 DEF TypeOK
<1>11. CASE List(w)
  <2>1. list' \in [Tables -> Seq(Blocks)]
    <3>1. Append(list[wtab[w]], wblk[w]) \in Seq(Blocks)
      BY <1>11 DEF List, TypeOK, BlkOK
    <3>. QED
      BY <1>11, <3>1 DEF List, TypeOK
  <2>2. walk' \in {"valid", "invalid"}
    BY <1>11 DEF List, TypeOK
  <2>3. wpc' \in [Workers -> Steps]
    BY <1>11, StepNames DEF List, TypeOK, Goto
  <2>4. UNCHANGED <<next, data, stale, loose, size, saved, files, json,
                    cached, jobs, mutex, writer, wtab, wblk, left, fpc, ftab,
                    todo, failed, stmts>>
    BY <1>11 DEF List, heap, disk, flush, sess
  <2>. QED
    BY <2>1, <2>2, <2>3, <2>4 DEF TypeOK
<1>12. CASE Fail(w)
  <2>1. failed' \subseteq Tables
    BY <1>12 DEF Fail, TypeOK
  <2>2. wpc' \in [Workers -> Steps]
    BY <1>12, StepNames DEF Fail, TypeOK, Goto
  <2>3. UNCHANGED <<next, data, stale, loose, list, size, saved, files, json,
                    cached, jobs, mutex, writer, wtab, wblk, left, fpc, ftab,
                    todo, walk, stmts>>
    BY <1>12 DEF Fail, heap, disk, flush, sess
  <2>. QED
    BY <2>1, <2>2, <2>3 DEF TypeOK
<1>13. CASE Rows(w)
  <2>1. wpc' \in [Workers -> Steps]
    BY <1>13, StepNames DEF Rows, TypeOK, Goto
  <2>2. UNCHANGED <<next, data, stale, loose, list, size, saved, files, json,
                    cached, jobs, mutex, writer, wtab, wblk, left, fpc, ftab,
                    todo, walk, failed, stmts>>
    BY <1>13 DEF Rows, heap, disk, flush, sess
  <2>. QED
    BY <2>1, <2>2 DEF TypeOK
<1>14. CASE AddJob(w)
  <2>1. jobs' \in Seq(Tables)
    BY <1>14 DEF AddJob, TypeOK
  <2>2. wpc' \in [Workers -> Steps]
    BY <1>14, StepNames DEF AddJob, TypeOK, Goto
  <2>3. UNCHANGED <<next, data, stale, loose, list, size, saved, files, json,
                    cached, mutex, writer, wtab, wblk, left, fpc, ftab, todo,
                    walk, failed, stmts>>
    BY <1>14 DEF AddJob, heap, disk, flush, sess
  <2>. QED
    BY <2>1, <2>2, <2>3 DEF TypeOK
<1>15. CASE Release(w)
  <2>1. writer' \in [Tables -> Workers \union {"free"}]
    BY <1>15 DEF Release, TypeOK
  <2>2. wpc' \in [Workers -> Steps]
    BY <1>15, StepNames DEF Release, TypeOK, Goto
  <2>3. UNCHANGED <<next, data, stale, loose, list, size, saved, files, json,
                    cached, jobs, mutex, wtab, wblk, left, fpc, ftab, todo,
                    walk, failed, stmts>>
    BY <1>15 DEF Release, heap, disk, flush, sess
  <2>. QED
    BY <2>1, <2>2, <2>3 DEF TypeOK
<1>. QED
  BY <1>1, <1>2, <1>3, <1>4, <1>5, <1>6, <1>7, <1>8, <1>9, <1>10, <1>11,
     <1>12, <1>13, <1>14, <1>15 DEF Statement

LEMMA TypeDrop ==
  ASSUME TypeOK, NEW w \in Workers, DropTable(w) PROVE TypeOK'
<1>1. ASSUME NEW t \in Droppable, Drop(w, t) PROVE TypeOK'
  <2>1. wtab' \in [Workers -> Tables]
    BY <1>1, FileCacheAssumption DEF Drop, TypeOK
  <2>2. stmts' \in 0..MaxStmts
    BY <1>1, FileCacheAssumption DEF Drop, TypeOK
  <2>3. wpc' \in [Workers -> Steps]
    BY <1>1, StepNames DEF Drop, TypeOK, Goto
  <2>4. UNCHANGED <<next, data, stale, loose, list, size, saved, files, json,
                    cached, jobs, mutex, writer, wblk, left, fpc, ftab, todo,
                    walk, failed>>
    BY <1>1 DEF Drop, heap, disk, flush, sess
  <2>. QED
    BY <2>1, <2>2, <2>3, <2>4 DEF TypeOK
<1>2. CASE Unlink(w)
  <2>1. files' \subseteq Tables
    BY <1>2 DEF Unlink, TypeOK
  <2>2. wpc' \in [Workers -> Steps]
    BY <1>2, StepNames DEF Unlink, TypeOK, Goto
  <2>3. UNCHANGED <<next, data, stale, loose, list, size, saved, json, cached,
                    jobs, mutex, writer, wtab, wblk, left, fpc, ftab, todo,
                    walk, failed, stmts>>
    BY <1>2 DEF Unlink, heap, disk, flush, sess
  <2>. QED
    BY <2>1, <2>2, <2>3 DEF TypeOK
<1>3. CASE Unschema(w)
  <2>1. json' \subseteq Tables
    BY <1>3 DEF Unschema, TypeOK
  <2>2. wpc' \in [Workers -> Steps]
    BY <1>3, StepNames DEF Unschema, TypeOK, Goto
  <2>3. UNCHANGED <<next, data, stale, loose, list, size, saved, files,
                    cached, jobs, mutex, writer, wtab, wblk, left, fpc, ftab,
                    todo, walk, failed, stmts>>
    BY <1>3 DEF Unschema, heap, disk, flush, sess
  <2>. QED
    BY <2>1, <2>2, <2>3 DEF TypeOK
<1>4. CASE Take(w)
  <2>1. mutex' \in Workers \union {"free", "flusher"}
    BY <1>4 DEF Take, TypeOK
  <2>2. wpc' \in [Workers -> Steps]
    BY <1>4, StepNames DEF Take, TypeOK, Goto
  <2>3. UNCHANGED <<next, data, stale, loose, list, size, saved, files, json,
                    cached, jobs, writer, wtab, wblk, left, fpc, ftab, todo,
                    walk, failed, stmts>>
    BY <1>4 DEF Take, heap, disk, flush, sess
  <2>. QED
    BY <2>1, <2>2, <2>3 DEF TypeOK
<1>5. CASE Erase(w)
  <2>1. cached' \subseteq Tables
    BY <1>5 DEF Erase, TypeOK
  <2>2. list' \in [Tables -> Seq(Blocks)]
    BY <1>5, FileCacheAssumption DEF Erase, TypeOK, Blocks, BlkOK
  <2>3. stale' \in [Tables -> SUBSET Blocks]
    BY <1>5, FileCacheAssumption DEF Erase, TypeOK, Blocks, BlkOK
  <2>4. loose' \in [Tables -> SUBSET Blocks]
    BY <1>5, FileCacheAssumption DEF Erase, TypeOK, Blocks, BlkOK
  <2>5. mutex' \in Workers \union {"free", "flusher"}
    BY <1>5 DEF Erase, TypeOK
  <2>6. wpc' \in [Workers -> Steps]
    BY <1>5, StepNames DEF Erase, TypeOK, Goto
  <2>7. UNCHANGED <<next, data, size, saved, files, json, jobs, writer, wtab,
                    wblk, left, fpc, ftab, todo, walk, failed, stmts>>
    BY <1>5 DEF Erase, heap, disk, flush, sess
  <2>. QED
    BY <2>1, <2>2, <2>3, <2>4, <2>5, <2>6, <2>7 DEF TypeOK
<1>. QED
  BY <1>1, <1>2, <1>3, <1>4, <1>5 DEF DropTable

LEMMA TypeFlush ==
  ASSUME TypeOK, FlushThread PROVE TypeOK'
<1>1. CASE FStart
  <2>1. mutex' \in Workers \union {"free", "flusher"}
    BY <1>1 DEF FStart, TypeOK
  <2>2. fpc' \in {"idle", "work", "walk", "save"}
    BY <1>1 DEF FStart, TypeOK
  <2>3. UNCHANGED <<next, data, stale, loose, list, size, saved, files, json,
                    cached, jobs, writer, wpc, wtab, wblk, left, ftab, todo,
                    walk, failed, stmts>>
    BY <1>1 DEF FStart, heap, disk, flush, sess
  <2>. QED
    BY <2>1, <2>2, <2>3 DEF TypeOK
<1>2. CASE FPop
  <2>1. cached' \subseteq Tables
    BY <1>2 DEF FPop, TypeOK
  <2>2. jobs' \in Seq(Tables)
    BY <1>2 DEF FPop, TypeOK
  <2>3. ftab' \in Tables
    BY <1>2 DEF FPop, TypeOK
  <2>4. todo' \in Seq(Blocks)
    BY <1>2, FileCacheAssumption DEF FPop, TypeOK, Blocks
  <2>5. walk' \in {"valid", "invalid"}
    BY <1>2 DEF FPop, TypeOK
  <2>6. fpc' \in {"idle", "work", "walk", "save"}
    BY <1>2 DEF FPop, TypeOK
  <2>7. UNCHANGED <<next, data, stale, loose, list, size, saved, files, json,
                    mutex, writer, wpc, wtab, wblk, left, failed, stmts>>
    BY <1>2 DEF FPop, heap, disk, flush, sess
  <2>. QED
    BY <2>1, <2>2, <2>3, <2>4, <2>5, <2>6, <2>7 DEF TypeOK
<1>3. CASE FReturn
  <2>1. jobs' \in Seq(Tables)
    <3>1. jobs /= <<>> => Tail(jobs) \in Seq(Tables)
      BY DEF TypeOK
    <3>. QED
      BY <1>3, <3>1 DEF FReturn, TypeOK
  <2>2. mutex' \in Workers \union {"free", "flusher"}
    BY <1>3 DEF FReturn, TypeOK
  <2>3. fpc' \in {"idle", "work", "walk", "save"}
    BY <1>3 DEF FReturn, TypeOK
  <2>4. UNCHANGED <<next, data, stale, loose, list, size, saved, files, json,
                    cached, writer, wpc, wtab, wblk, left, ftab, todo, walk,
                    failed, stmts>>
    BY <1>3 DEF FReturn, heap, disk, flush, sess
  <2>. QED
    BY <2>1, <2>2, <2>3, <2>4 DEF TypeOK
<1>4. CASE FWrite
  <2>1. size' \in [Tables -> 0..MaxBlocks]
    <3>1. Head(todo) \in Blocks
      BY <1>4 DEF FWrite, TypeOK
    <3>. QED
      BY <1>4, <3>1, ExtendType DEF FWrite, TypeOK
  <2>2. stale' \in [Tables -> SUBSET Blocks]
    BY <1>4, FileCacheAssumption DEF FWrite, TypeOK, Blocks
  <2>3. loose' \in [Tables -> SUBSET Blocks]
    BY <1>4, FileCacheAssumption DEF FWrite, TypeOK, Blocks
  <2>4. todo' \in Seq(Blocks)
    BY <1>4, FileCacheAssumption DEF FWrite, TypeOK, Blocks
  <2>5. UNCHANGED <<next, data, list, saved, files, json, cached, jobs, mutex,
                    writer, wpc, wtab, wblk, left, fpc, ftab, walk, failed,
                    stmts>>
    BY <1>4 DEF FWrite, heap, disk, flush, sess
  <2>. QED
    BY <2>1, <2>2, <2>3, <2>4, <2>5 DEF TypeOK
<1>5. CASE FSkip
  <2>1. todo' \in Seq(Blocks)
    BY <1>5, FileCacheAssumption DEF FSkip, TypeOK, Blocks
  <2>2. UNCHANGED <<next, data, stale, loose, list, size, saved, files, json,
                    cached, jobs, mutex, writer, wpc, wtab, wblk, left, fpc,
                    ftab, walk, failed, stmts>>
    BY <1>5 DEF FSkip, heap, disk, flush, sess
  <2>. QED
    BY <2>1, <2>2 DEF TypeOK
<1>6. CASE FClear
  <2>1. list' \in [Tables -> Seq(Blocks)]
    BY <1>6, FileCacheAssumption DEF FClear, TypeOK, Blocks
  <2>2. failed' \subseteq Tables
    BY <1>6 DEF FClear, TypeOK
  <2>3. fpc' \in {"idle", "work", "walk", "save"}
    BY <1>6 DEF FClear, TypeOK
  <2>4. UNCHANGED <<next, data, stale, loose, size, saved, files, json,
                    cached, jobs, mutex, writer, wpc, wtab, wblk, left, ftab,
                    todo, walk, stmts>>
    BY <1>6 DEF FClear, heap, disk, flush, sess
  <2>. QED
    BY <2>1, <2>2, <2>3, <2>4 DEF TypeOK
<1>7. CASE FSave
  <2>1. saved' \in [Tables -> 0..MaxBlocks]
    BY <1>7, FileCacheAssumption DEF FSave, TypeOK, Blocks
  <2>2. json' \subseteq Tables
    BY <1>7 DEF FSave, TypeOK
  <2>3. fpc' \in {"idle", "work", "walk", "save"}
    BY <1>7 DEF FSave, TypeOK
  <2>4. UNCHANGED <<next, data, stale, loose, list, size, files, cached, jobs,
                    mutex, writer, wpc, wtab, wblk, left, ftab, todo, walk,
                    failed, stmts>>
    BY <1>7 DEF FSave, heap, disk, flush, sess
  <2>. QED
    BY <2>1, <2>2, <2>3, <2>4 DEF TypeOK
<1>. QED
  BY <1>1, <1>2, <1>3, <1>4, <1>5, <1>6, <1>7 DEF FlushThread

LEMMA BlkNext == ASSUME TypeInv, Next PROVE BlkOK'
<1>. USE DEF TypeInv, TypeOK, BlkOK, Goto, heap, disk, flush, sess
<1>1. ASSUME NEW w \in Workers, Statement(w) PROVE BlkOK'
  <2>1. CASE \E t \in Tables : Open(w, t) \/ OpenFails(w, t)
    BY <2>1 DEF Open, OpenFails
  <2>2. CASE Lock(w) \/ Verify(w)
    BY <2>2 DEF Lock, Verify
  <2>3. CASE \E b \in Blocks : Pick(w, b)
    BY <2>3 DEF Pick
  <2>4. CASE GrowData(w)
    BY <2>4, NextType DEF GrowData
  <2>5. CASE GrowIndex(w)
    BY <2>5, NextType DEF GrowIndex
  <2>6. CASE NewData(w)
    BY <2>6 DEF NewData
  <2>8. CASE NewNode(w) \/ Touch(w) \/ List(w)
    BY <2>8 DEF NewNode, Touch, List
  <2>7. CASE Fail(w) \/ Rows(w) \/ AddJob(w) \/ Release(w)
    BY <2>7 DEF Fail, Rows, AddJob, Release
  <2>. QED
    BY <1>1, <2>1, <2>2, <2>3, <2>4, <2>5, <2>6, <2>7, <2>8 DEF Statement
<1>2. ASSUME NEW w \in Workers, DropTable(w) PROVE BlkOK'
  <2>1. /\ wpc' = [wpc EXCEPT ![w] = wpc'[w]]
        /\ wpc'[w] \in {"idle", "unlink", "unschema", "take", "wait"}
        /\ wtab' = [wtab EXCEPT ![w] = wtab'[w]]
        /\ UNCHANGED <<wblk, data>>
    BY <1>2 DEF DropTable, Drop, Unlink, Unschema, Take, Erase
  <2>. QED
    BY <2>1
<1>3. CASE FlushThread
  BY <1>3 DEF FlushThread, FStart, FPop, FReturn, FWrite, FSkip, FClear, FSave
<1>. QED
  BY <1>1, <1>2, <1>3 DEF Next

LEMMA TypeInvNext == TypeInv /\ [Next]_vars => TypeInv'
<1>1. ASSUME TypeInv, Next PROVE TypeInv'
  BY <1>1, BlkNext, TypeStatement, TypeDrop, TypeFlush DEF Next, TypeInv
<1>2. ASSUME TypeInv, UNCHANGED vars PROVE TypeInv'
  BY <1>2 DEF TypeInv, TypeOK, BlkOK, vars, heap, disk, flush, sess
<1>. QED
  BY <1>1, <1>2

(* Every variable keeps its type: in particular no step lists or writes a  *)
(* block outside the bound and no queue takes anything but tables.         *)
THEOREM TypeCorrect == Spec => []TypeOK
<1>1. TypeInv => TypeOK
  BY DEF TypeInv
<1>. QED
  BY <1>1, TypeInvInit, TypeInvNext, PTL DEF Spec

-----------------------------------------------------------------------------
(* Who holds the lock of a table is in the middle of a statement on it,    *)
(* and who is in the middle of a statement holds the lock of its table.    *)
Owned ==
  /\ \A w \in Workers : wpc[w] \in Locked => writer[wtab[w]] = w
  /\ \A t \in Tables : writer[t] /= "free" =>
       /\ wpc[writer[t]] \in Locked
       /\ wtab[writer[t]] = t

OwnInv == TypeInv /\ Owned /\ HandleLive

(* The steps between Lock and Release leave locks and tables alone.        *)
Inside(w) ==
  \/ Verify(w) \/ GrowData(w) \/ GrowIndex(w) \/ NewData(w) \/ NewNode(w)
  \/ Touch(w) \/ List(w) \/ Fail(w) \/ Rows(w) \/ AddJob(w)
  \/ \E b \in Blocks : Pick(w, b)

LEMMA InsideKeeps ==
  ASSUME NEW w \in Workers, Inside(w), TypeOK
  PROVE  /\ wpc[w] \in Locked /\ wpc'[w] \in Locked
         /\ wpc' = [wpc EXCEPT ![w] = wpc'[w]]
         /\ UNCHANGED <<wtab, writer, cached>>
<1>. USE DEF TypeOK, Goto, Locked, heap, disk, flush, sess
<1>1. CASE Verify(w) \/ Touch(w) \/ Fail(w) \/ Rows(w) \/ AddJob(w)
  BY <1>1 DEF Verify, Touch, Fail, Rows, AddJob
<1>2. CASE GrowData(w) \/ GrowIndex(w)
  BY <1>2 DEF GrowData, GrowIndex
<1>3. CASE NewData(w) \/ NewNode(w)
  BY <1>3 DEF NewData, NewNode
<1>4. CASE List(w)
  BY <1>4 DEF List
<1>5. CASE \E b \in Blocks : Pick(w, b)
  BY <1>5 DEF Pick
<1>. QED
  BY <1>1, <1>2, <1>3, <1>4, <1>5 DEF Inside

LEMMA OwnInvInit == Init => OwnInv
  BY TypeInvInit, FileCacheAssumption
  DEF OwnInv, Owned, HandleLive, Init, Holding, Locked

LEMMA OwnNext == ASSUME OwnInv, Next PROVE Owned' /\ HandleLive'
<1>0. /\ wpc \in [Workers -> Steps] /\ wtab \in [Workers -> Tables]
      /\ writer \in [Tables -> Workers \union {"free"}]
      /\ cached \subseteq Tables
      /\ TypeOK /\ Owned /\ HandleLive
  BY DEF OwnInv, TypeInv, TypeOK
<1>. USE <1>0 DEF Owned, HandleLive
<1>1. ASSUME NEW w \in Workers, Inside(w) PROVE Owned' /\ HandleLive'
  <2>1. /\ wpc[w] \in Locked /\ wpc'[w] \in Locked
        /\ wpc' = [wpc EXCEPT ![w] = wpc'[w]]
        /\ UNCHANGED <<wtab, writer, cached>>
    BY <1>1, InsideKeeps
  <2>. QED
    BY <2>1 DEF Holding
<1>2. ASSUME NEW w \in Workers, NEW t \in Tables, Open(w, t)
      PROVE  Owned' /\ HandleLive'
  BY <1>2 DEF Open, Goto, Holding, Locked
<1>3. ASSUME NEW w \in Workers, NEW t \in Tables, OpenFails(w, t)
      PROVE  Owned' /\ HandleLive'
  BY <1>3 DEF OpenFails, sess
<1>4. ASSUME NEW w \in Workers, Lock(w) PROVE Owned' /\ HandleLive'
  BY <1>4, FileCacheAssumption DEF Lock, Goto, Holding, Locked
<1>5. ASSUME NEW w \in Workers, Release(w) PROVE Owned' /\ HandleLive'
  BY <1>5, FileCacheAssumption DEF Release, Goto, Holding, Locked
<1>6. ASSUME NEW w \in Workers, DropTable(w) PROVE Owned' /\ HandleLive'
  <2>1. CASE Unlink(w) \/ Unschema(w) \/ Take(w) \/ \E t \in Droppable : Drop(w, t)
    BY <2>1, FileCacheAssumption
    DEF Unlink, Unschema, Take, Drop, Goto, Holding, Locked
  <2>2. CASE Erase(w)
    BY <2>2 DEF Erase, Users, Goto, Holding, Locked
  <2>. QED
    BY <1>6, <2>1, <2>2 DEF DropTable
<1>7. CASE FlushThread
  <2>1. UNCHANGED <<wpc, wtab, writer>> /\ cached \subseteq cached'
    BY <1>7 DEF FlushThread, FStart, FPop, FReturn, FWrite, FSkip, FClear,
                FSave, sess
  <2>. QED
    BY <2>1
<1>. QED
  BY <1>1, <1>2, <1>3, <1>4, <1>5, <1>6, <1>7 DEF Next, Statement, Inside

LEMMA OwnInvNext == OwnInv /\ [Next]_vars => OwnInv'
<1>1. ASSUME OwnInv, Next PROVE OwnInv'
  BY <1>1, OwnNext, TypeInvNext DEF OwnInv
<1>2. ASSUME OwnInv, UNCHANGED vars PROVE OwnInv'
  <2>1. TypeInv'
    BY <1>2, TypeInvNext DEF OwnInv
  <2>. QED
    BY <1>2, <2>1 DEF OwnInv, Owned, HandleLive, vars, sess
<1>. QED
  BY <1>1, <1>2

(* drop_block_cache() never erases the cache of a table that a session has *)
(* open, whatever the number of sessions and tables.                       *)
THEOREM HandleCorrect == Spec => []HandleLive
<1>1. OwnInv => HandleLive
  BY DEF OwnInv
<1>. QED
  BY <1>1, OwnInvInit, OwnInvNext, PTL DEF Spec

-----------------------------------------------------------------------------
(* JobCovers is not inductive: a statement in "verify" has queued nothing  *)
(* and will not if it is denied.  The list is the duty of a statement only *)
(* from the step on that can change blocks; and no cache, no list.         *)
Changing == {"row", "newdata", "newnode", "touch", "list", "job"}

Covered(t) ==
  \/ Queued(t)
  \/ fpc = "walk" /\ ftab = t
  \/ writer[t] /= "free" /\ wpc[writer[t]] \in Changing
  \/ t \in failed

Cover ==
  /\ \A t \in Tables : list[t] /= <<>> => Covered(t)
  /\ \A t \in Tables \ cached : list[t] = <<>>

CoverInv == OwnInv /\ Cover

LEMMA TailElements ==
  ASSUME NEW S, NEW q \in Seq(S), q /= <<>>
  PROVE  /\ Len(Tail(q)) = Len(q) - 1 /\ Len(q) \in Nat
         /\ \A j \in 1..Len(Tail(q)) : Tail(q)[j] = q[j + 1]
  OBVIOUS

LEMMA AppendElements ==
  ASSUME NEW S, NEW q \in Seq(S), NEW x \in S
  PROVE  /\ Len(Append(q, x)) = Len(q) + 1 /\ Len(q) \in Nat
         /\ \A j \in 1..Len(q) : Append(q, x)[j] = q[j]
         /\ Append(q, x)[Len(q) + 1] = x
  OBVIOUS

(* What is queued behind another job is still queued when that one goes.   *)
LEMMA QueuedTail ==
  ASSUME TypeOK, jobs /= <<>>, jobs' = Tail(jobs),
         NEW t \in Tables, Queued(t), t /= Head(jobs)
  PROVE  Queued(t)'
<1>1. PICK k \in 1..Len(jobs) : jobs[k] = t
  BY DEF Queued
<1>2. jobs \in Seq(Tables)
  BY DEF TypeOK
<1>3. k /= 1
  BY <1>1, <1>2
<1>4. k - 1 \in 1..Len(Tail(jobs)) /\ Tail(jobs)[k - 1] = t
  BY <1>1, <1>2, <1>3, TailElements
<1>. QED
  BY <1>4 DEF Queued

LEMMA QueuedAppend ==
  ASSUME TypeOK, NEW t \in Tables, jobs' = Append(jobs, t)
  PROVE  Queued(t)' /\ \A s \in Tables : Queued(s) => Queued(s)'
<1>1. jobs \in Seq(Tables)
  BY DEF TypeOK
<1>2. /\ Len(jobs') = Len(jobs) + 1 /\ Len(jobs) \in Nat
      /\ \A j \in 1..Len(jobs) : jobs'[j] = jobs[j]
      /\ jobs'[Len(jobs) + 1] = t
  BY <1>1, AppendElements
<1>. QED
  BY <1>2 DEF Queued

LEMMA CoverInvInit == Init => CoverInv
  BY OwnInvInit DEF CoverInv, Cover, Init

LEMMA CoverNext == ASSUME CoverInv, Next PROVE Cover'
<1>0. /\ wpc \in [Workers -> Steps] /\ wtab \in [Workers -> Tables]
      /\ writer \in [Tables -> Workers \union {"free"}]
      /\ cached \subseteq Tables /\ failed \subseteq Tables
      /\ list \in [Tables -> Seq(Blocks)]
      /\ TypeOK /\ Owned /\ HandleLive /\ Cover
  BY DEF CoverInv, OwnInv, TypeInv, TypeOK
<1>. USE <1>0, FileCacheAssumption DEF Owned, Cover, Covered, Changing, Locked
<1>1. ASSUME NEW w \in Workers,
             \/ GrowData(w) \/ GrowIndex(w) \/ NewData(w) \/ NewNode(w)
             \/ Touch(w) \/ Rows(w) \/ Verify(w) \/ \E b \in Blocks : Pick(w, b)
      PROVE  Cover'
  <2>1. /\ \/ wpc[w] \in Changing /\ wpc'[w] \in Changing
           \/ wpc[w] = "verify"
        /\ wpc' = [wpc EXCEPT ![w] = wpc'[w]]
        /\ UNCHANGED <<writer, cached, list, jobs, fpc, ftab, failed>>
    BY <1>1 DEF GrowData, GrowIndex, NewData, NewNode, Touch, Rows, Verify,
                Pick, Goto, flush
  <2>2. \A t \in Tables : Queued(t) => Queued(t)'
    BY <2>1 DEF Queued
  <2>3. \A t \in Tables : writer[t] /= "free" /\ wpc[writer[t]] \in Changing
                            => wpc'[writer[t]] \in Changing
    BY <2>1
  <2>. QED
    BY <2>1, <2>2, <2>3
<1>2. ASSUME NEW w \in Workers, List(w) PROVE Cover'
  <2>1. /\ wpc[w] = "list" /\ wpc' = [wpc EXCEPT ![w] = "row"]
        /\ \A t \in Tables : t /= wtab[w] => list'[t] = list[t]
        /\ UNCHANGED <<writer, cached, jobs, fpc, ftab, failed>>
    BY <1>2 DEF List, Goto
  <2>2. wtab[w] \in cached
    BY <2>1 DEF HandleLive, Holding
  <2>. QED
    BY <2>1, <2>2 DEF Queued
<1>3. ASSUME NEW w \in Workers, Fail(w) PROVE Cover'
  BY <1>3 DEF Fail, Goto, flush, Queued
<1>4. ASSUME NEW w \in Workers, AddJob(w) PROVE Cover'
  <2>1. /\ wpc[w] = "job" /\ wpc' = [wpc EXCEPT ![w] = "release"]
        /\ jobs' = Append(jobs, wtab[w])
        /\ UNCHANGED <<writer, cached, list, fpc, ftab, failed>>
    BY <1>4 DEF AddJob, Goto, flush
  <2>2. \A s \in Tables : Queued(s) \/ s = wtab[w] => Queued(s)'
    BY <2>1, QueuedAppend
  <2>3. \A s \in Tables : writer[s] /= "free" /\ s /= wtab[w]
                            => wpc'[writer[s]] = wpc[writer[s]]
    BY <2>1
  <2>. QED
    BY <2>1, <2>2, <2>3
<1>5. ASSUME NEW w \in Workers, Release(w) PROVE Cover'
  BY <1>5 DEF Release, Goto, flush, Queued
<1>6. ASSUME NEW w \in Workers, Lock(w) PROVE Cover'
  BY <1>6 DEF Lock, Goto, flush, Queued
<1>7. ASSUME NEW w \in Workers, NEW t \in Tables, Open(w, t) \/ OpenFails(w, t)
      PROVE  Cover'
  <2>1. /\ wpc[w] = "idle" /\ wpc' = [wpc EXCEPT ![w] = wpc'[w]]
        /\ cached \subseteq cached'
        /\ UNCHANGED <<writer, list, jobs, fpc, ftab, failed>>
    BY <1>7 DEF Open, OpenFails, Goto, flush, sess
  <2>. QED
    BY <2>1 DEF Queued
<1>8. ASSUME NEW w \in Workers, DropTable(w) PROVE Cover'
  <2>1. /\ wpc[w] \notin Locked /\ wpc' = [wpc EXCEPT ![w] = wpc'[w]]
        /\ UNCHANGED <<writer, jobs, fpc, ftab, failed>>
    BY <1>8 DEF DropTable, Drop, Unlink, Unschema, Take, Erase, Goto, flush
  <2>4. \A t \in Tables : Queued(t) => Queued(t)'
    BY <2>1 DEF Queued
  <2>5. \A t \in Tables : writer[t] /= "free" => wpc'[writer[t]] = wpc[writer[t]]
    BY <2>1
  <2>2. CASE UNCHANGED <<list, cached>>
    BY <2>1, <2>2, <2>4, <2>5
  <2>3. CASE Erase(w)
    BY <2>1, <2>3, <2>4, <2>5 DEF Erase
  <2>. QED
    BY <1>8, <2>2, <2>3 DEF DropTable, Drop, Unlink, Unschema, Take
<1>9. CASE FPop
  <2>1. /\ jobs /= <<>> /\ jobs' = Tail(jobs) /\ fpc = "work"
        /\ fpc' = "walk" /\ ftab' = Head(jobs) /\ cached \subseteq cached'
        /\ UNCHANGED <<list, writer, wpc, failed>>
    BY <1>9 DEF FPop, sess
  <2>. QED
    BY <2>1, QueuedTail
<1>10. CASE FReturn
  <2>1. /\ fpc = "work"
        /\ \/ UNCHANGED jobs
           \/ jobs /= <<>> /\ jobs' = Tail(jobs) /\ Head(jobs) \notin cached
        /\ UNCHANGED <<list, writer, wpc, failed, cached>>
    BY <1>10 DEF FReturn, sess
  <2>2. ASSUME NEW t \in Tables, Queued(t), list[t] /= <<>> PROVE Queued(t)'
    BY <2>1, <2>2, QueuedTail DEF Queued
  <2>. QED
    BY <2>1, <2>2
<1>11. CASE FClear
  BY <1>11 DEF FClear, sess, Queued
<1>12. CASE FStart \/ FWrite \/ FSkip \/ FSave
  <2>1. /\ fpc = "walk" => UNCHANGED <<fpc, ftab>>
        /\ UNCHANGED <<list, writer, wpc, failed, cached, jobs>>
    BY <1>12 DEF FStart, FWrite, FSkip, FSave, sess
  <2>. QED
    BY <2>1 DEF Queued
<1>. QED
  BY <1>1, <1>2, <1>3, <1>4, <1>5, <1>6, <1>7, <1>8, <1>9, <1>10, <1>11,
     <1>12 DEF Next, Statement, FlushThread

LEMMA CoverInvNext == CoverInv /\ [Next]_vars => CoverInv'
<1>1. ASSUME CoverInv, Next PROVE CoverInv'
  BY <1>1, CoverNext, OwnInvNext DEF CoverInv
<1>2. ASSUME CoverInv, UNCHANGED vars PROVE CoverInv'
  <2>1. OwnInv'
    BY <1>2, OwnInvNext DEF CoverInv
  <2>. QED
    BY <1>2, <2>1 DEF CoverInv, Cover, Covered, Queued, vars, sess, flush
<1>. QED
  BY <1>1, <1>2

(* No listed block is forgotten by everybody: a flush of its table is      *)
(* queued, under way, or still owed by the statement that holds the table; *)
(* the exception is a statement that failed.                               *)
THEOREM JobCorrect == Spec => []JobCovers
<1>1. CoverInv => JobCovers
  BY DEF CoverInv, Cover, Covered, Changing, JobCovers
<1>. QED
  BY <1>1, CoverInvInit, CoverInvNext, PTL DEF Spec

-----------------------------------------------------------------------------
(* EndOfFile and NoHole rest on each other: the flush thread leaves the    *)
(* end of the file alone because all it writes lies before it, and a block *)
(* is listed only after new_block() has written it.                        *)
Placed(w) ==
  /\ wpc[w] = "newdata" => data[wtab[w]] = size[wtab[w]]
  /\ wpc[w] = "newnode" => wblk[w] = size[wtab[w]]
  /\ wpc[w] \in {"touch", "list"} => wblk[w] < size[wtab[w]]

Sized ==
  /\ EndOfFile
  /\ \A w \in Workers : Placed(w)
  /\ \A t \in Tables : \A i \in 1..Len(list[t]) : list[t][i] < size[t]
  /\ \A i \in 1..Len(todo) : todo[i] < size[ftab]

SizeInv == OwnInv /\ Sized

LEMMA SizeInvInit == Init => SizeInv
<1>. SUFFICES ASSUME Init PROVE SizeInv
  OBVIOUS
<1>1. EndOfFile
  BY DEF Init, EndOfFile, Pending
<1>2. \A w \in Workers : Placed(w)
  BY DEF Init, Placed
<1>. QED
  BY <1>1, <1>2, OwnInvInit DEF SizeInv, Sized, Init

(* Steps that touch neither the header, the file nor the lists.            *)
LEMMA SizedFrame ==
  ASSUME SizeInv, NEW w \in Workers,
         wpc' = [wpc EXCEPT ![w] = wpc'[w]],
         wpc[w] \notin {"newdata", "newnode"},
         wpc'[w] \notin {"newdata", "newnode"},
         Placed(w)',
         \A v \in Workers \ {w} : wtab'[v] = wtab[v] /\ wblk'[v] = wblk[v],
         \A t \in Tables : \/ writer'[t] = writer[t]
                           \/ writer'[t] \in {w, "free"} /\ writer[t] \in {w, "free"},
         UNCHANGED <<next, data, size, todo, ftab>>,
         \A t \in Tables : list'[t] = list[t] \/ list'[t] = <<>>
  PROVE  Sized'
<1>0. /\ wpc \in [Workers -> Steps] /\ wtab \in [Workers -> Tables]
      /\ writer \in [Tables -> Workers \union {"free"}]
      /\ Sized
  BY DEF SizeInv, OwnInv, TypeInv, TypeOK
<1>1. \A t \in Tables : Pending(t)' <=> Pending(t)
  BY <1>0 DEF Pending
<1>2. EndOfFile'
  BY <1>0, <1>1 DEF Sized, EndOfFile
<1>3. \A v \in Workers : Placed(v)'
  BY <1>0 DEF Sized, Placed
<1>4. \A t \in Tables : \A i \in 1..Len(list'[t]) : list'[t][i] < size'[t]
  BY <1>0 DEF Sized
<1>. QED
  BY <1>0, <1>2, <1>3, <1>4 DEF Sized

LEMMA SizedStatement ==
  ASSUME SizeInv, NEW w \in Workers, Statement(w) PROVE Sized'
<1>0. /\ wpc \in [Workers -> Steps] /\ wtab \in [Workers -> Tables]
      /\ wblk \in [Workers -> Blocks \union {None}]
      /\ writer \in [Tables -> Workers \union {"free"}]
      /\ data \in [Tables -> Blocks \union {None}]
      /\ next \in [Tables -> 0..MaxBlocks] /\ size \in [Tables -> 0..MaxBlocks]
      /\ list \in [Tables -> Seq(Blocks)]
      /\ ftab \in Tables /\ todo \in Seq(Blocks)
      /\ Owned /\ Sized /\ MaxBlocks \in Nat
  BY FileCacheAssumption DEF SizeInv, OwnInv, TypeInv, TypeOK
<1>9. wpc[w] \in Locked => writer[wtab[w]] = w /\ w /= "free"
  BY <1>0, FileCacheAssumption DEF Owned
<1>1. ASSUME NEW t \in Tables, Open(w, t) \/ OpenFails(w, t) PROVE Sized'
  <2>1. wpc[w] = "idle" /\ wpc'[w] \in {"idle", "lock"} /\ wpc' = [wpc EXCEPT ![w] = wpc'[w]]
    BY <1>0, <1>1 DEF Open, OpenFails, Goto, sess
  <2>2. Placed(w)'
    BY <2>1 DEF Placed
  <2>. QED
    BY <1>0, <1>1, <2>1, <2>2, SizedFrame
    DEF Open, OpenFails, heap, disk, flush, sess
<1>2. CASE Lock(w) \/ Verify(w) \/ Fail(w) \/ Rows(w) \/ AddJob(w) \/ Release(w)
  <2>1. /\ wpc[w] \in {"lock", "verify", "row", "job", "release"}
        /\ wpc'[w] \in {"verify", "row", "job", "release", "idle"}
        /\ wpc' = [wpc EXCEPT ![w] = wpc'[w]]
        /\ UNCHANGED <<wtab, wblk, next, data, size, todo, ftab, list>>
    BY <1>0, <1>2 DEF Lock, Verify, Fail, Rows, AddJob, Release, Goto,
                      heap, disk, flush
  <2>2. Placed(w)'
    BY <2>1 DEF Placed
  <2>3. \A t \in Tables : \/ writer'[t] = writer[t]
                          \/ writer'[t] \in {w, "free"} /\ writer[t] \in {w, "free"}
    BY <1>0, <1>2, <1>9 DEF Lock, Verify, Fail, Rows, AddJob, Release, Locked
  <2>. QED
    BY <2>1, <2>2, <2>3, SizedFrame
<1>3. ASSUME NEW b \in Blocks, Pick(w, b) PROVE Sized'
  <2>1. /\ wpc[w] = "row" /\ wpc' = [wpc EXCEPT ![w] = "touch"]
        /\ wblk' = [wblk EXCEPT ![w] = b] /\ b < next[wtab[w]]
        /\ UNCHANGED <<wtab, writer, next, data, size, todo, ftab, list>>
    BY <1>3 DEF Pick, Goto, heap, disk, flush
  <2>2. ~ Pending(wtab[w])
    BY <1>0, <1>9, <2>1 DEF Pending, Locked
  <2>3. Placed(w)'
    BY <1>0, <2>1, <2>2 DEF Placed, Sized, EndOfFile
  <2>. QED
    BY <1>0, <2>1, <2>3, SizedFrame
<1>4. CASE Touch(w)
  <2>1. /\ wpc[w] = "touch" /\ wpc' = [wpc EXCEPT ![w] = "list"]
        /\ UNCHANGED <<wtab, wblk, writer, next, data, size, todo, ftab, list>>
    BY <1>4 DEF Touch, Goto, disk, flush
  <2>2. Placed(w)'
    BY <1>0, <2>1 DEF Placed, Sized
  <2>. QED
    BY <1>0, <2>1, <2>2, SizedFrame
<1>5. CASE GrowData(w) \/ GrowIndex(w)
  <2>0. PICK t \in Tables : t = wtab[w]
    BY <1>0
  <2>1. /\ wpc[w] = "row" /\ wpc' = [wpc EXCEPT ![w] = wpc'[w]]
        /\ next' = [next EXCEPT ![t] = next[t] + 1]
        /\ \/ /\ wpc'[w] = "newdata" /\ data' = [data EXCEPT ![t] = next[t]]
              /\ \A v \in Workers \ {w} : wblk'[v] = wblk[v]
           \/ /\ wpc'[w] = "newnode" /\ wblk' = [wblk EXCEPT ![w] = next[t]]
              /\ UNCHANGED data
        /\ UNCHANGED <<wtab, writer, size, todo, ftab, list>>
    BY <1>0, <1>5, <2>0 DEF GrowData, GrowIndex, Goto, disk, flush
  <2>2. t \in Tables /\ writer[t] = w /\ w /= "free"
    BY <1>0, <1>9, <2>0, <2>1 DEF Locked
  <2>3. /\ ~ Pending(t) /\ Pending(t)'
        /\ \A s \in Tables \ {t} : Pending(s)' <=> Pending(s)
    BY <1>0, <2>1, <2>2 DEF Pending, Owned
  <2>4. next[t] = size[t]
    BY <1>0, <2>2, <2>3 DEF Sized, EndOfFile
  <2>5. EndOfFile'
    BY <1>0, <2>1, <2>2, <2>3, <2>4 DEF Sized, EndOfFile
  <2>6. Placed(w)'
    BY <1>0, <2>0, <2>1, <2>2, <2>4 DEF Placed
  <2>7. ASSUME NEW v \in Workers \ {w} PROVE Placed(v)'
    <3>1. wpc[v] = "newdata" => wtab[v] /= t
      BY <1>0, <2>2 DEF Owned, Locked
    <3>. QED
      BY <1>0, <2>1, <2>2, <3>1 DEF Placed, Sized
  <2>. QED
    BY <1>0, <2>1, <2>5, <2>6, <2>7 DEF Sized
<1>6. CASE NewData(w) \/ NewNode(w)
  <2>0. PICK t \in Tables : t = wtab[w]
    BY <1>0
  <2>00. PICK b : b = IF wpc[w] = "newdata" THEN data[t] ELSE wblk[w]
    OBVIOUS
  <2>1. /\ wpc[w] \in {"newdata", "newnode"}
        /\ wpc' = [wpc EXCEPT ![w] = "touch"]
        /\ Extend(t, b) /\ wblk' = [wblk EXCEPT ![w] = b]
        /\ UNCHANGED <<wtab, writer, next, data, todo, ftab, list>>
    BY <1>0, <1>6, <2>0, <2>00 DEF NewData, NewNode, Goto, flush
  <2>2. t \in Tables /\ writer[t] = w /\ w /= "free" /\ b = size[t]
    BY <1>0, <1>9, <2>0, <2>00, <2>1 DEF Locked, Sized, Placed
  <2>3. size' = [size EXCEPT ![t] = size[t] + 1]
    <3>1. size[t] \in Nat /\ size[t] <= size[t]
      BY <1>0, <2>2
    <3>2. size' = [size EXCEPT ![t] = IF size[t] <= b THEN b + 1 ELSE size[t]]
      BY <2>1 DEF Extend
    <3>3. (IF size[t] <= b THEN b + 1 ELSE size[t]) = size[t] + 1
      BY <2>2, <3>1
    <3>. QED
      BY <3>2, <3>3
  <2>4. /\ Pending(t) /\ ~ Pending(t)'
        /\ \A s \in Tables \ {t} : Pending(s)' <=> Pending(s)
    BY <1>0, <2>1, <2>2 DEF Pending, Owned
  <2>5. EndOfFile'
    BY <1>0, <2>1, <2>2, <2>3, <2>4 DEF Sized, EndOfFile
  <2>6. Placed(w)'
    BY <1>0, <2>0, <2>1, <2>2, <2>3 DEF Placed
  <2>7. ASSUME NEW v \in Workers \ {w} PROVE Placed(v)'
    <3>1. wpc[v] \in {"newdata", "newnode", "touch", "list"} => wtab[v] /= t
      BY <1>0, <2>2 DEF Owned, Locked
    <3>. QED
      BY <1>0, <2>1, <2>2, <2>3, <3>1 DEF Placed, Sized
  <2>8. \A s \in Tables : size[s] <= size'[s] /\ size[s] \in Nat /\ size'[s] \in Nat
    BY <1>0, <2>2, <2>3
  <2>9. \A s \in Tables : \A i \in 1..Len(list[s]) : list[s][i] < size'[s]
    <3>1. \A s \in Tables : \A i \in 1..Len(list[s]) : list[s][i] < size[s]
      BY <1>0 DEF Sized
    <3>2. ASSUME NEW s \in Tables, NEW i \in 1..Len(list[s])
          PROVE  list[s][i] < size'[s]
      <4>1. PICK q \in Seq(Blocks) : q = list[s]
        BY <1>0
      <4>0. i \in 1..Len(q) /\ Blocks \subseteq Int
        BY <1>0, <3>2, <4>1 DEF Blocks
      <4>2. q[i] \in Int
        <5>1. q[i] \in Blocks
          BY <4>0, <4>1
        <5>. QED
          BY <4>0, <5>1
      <4>3. q[i] < size[s]
        BY <3>1, <3>2, <4>1
      <4>. QED
        BY <2>8, <4>1, <4>2, <4>3
    <3>. QED
      BY <3>2
  <2>10. \A i \in 1..Len(todo) : todo[i] < size'[ftab]
    <3>1. \A i \in 1..Len(todo) : todo[i] < size[ftab] /\ todo[i] \in Int
      BY <1>0 DEF Sized, Blocks
    <3>. QED
      BY <1>0, <2>8, <3>1
  <2>. QED
    BY <1>0, <2>1, <2>5, <2>6, <2>7, <2>9, <2>10 DEF Sized
<1>7. CASE List(w)
  <2>. DEFINE t == wtab[w]
  <2>1. /\ wpc[w] = "list" /\ wpc' = [wpc EXCEPT ![w] = "row"]
        /\ \/ UNCHANGED list
           \/ list' = [list EXCEPT ![t] = Append(list[t], wblk[w])]
        /\ UNCHANGED <<wtab, wblk, writer, next, data, size, todo, ftab>>
    BY <1>7 DEF List, Goto, heap, disk
  <2>2. t \in Tables /\ wblk[w] < size[t] /\ list[t] \in Seq(Blocks)
    BY <1>0, <2>1 DEF Sized, Placed
  <2>3. wblk[w] \in Blocks
    BY <2>1 DEF SizeInv, OwnInv, TypeInv, BlkOK
  <2>. HIDE DEF t
  <2>4. \A i \in 1..Len(Append(list[t], wblk[w])) :
          Append(list[t], wblk[w])[i] < size[t]
    <3>1. \A i \in 1..Len(list[t]) : list[t][i] < size[t]
      BY <1>0, <2>2 DEF Sized
    <3>. QED
      BY <2>2, <2>3, <3>1, AppendElements
  <2>5. \A s \in Tables : \A i \in 1..Len(list'[s]) : list'[s][i] < size[s]
    BY <1>0, <2>1, <2>2, <2>4 DEF Sized
  <2>6. \A s \in Tables : Pending(s)' <=> Pending(s)
    BY <1>0, <2>1 DEF Pending
  <2>7. EndOfFile'
    BY <1>0, <2>1, <2>6 DEF Sized, EndOfFile
  <2>8. \A v \in Workers : Placed(v)'
    BY <1>0, <2>1 DEF Sized, Placed
  <2>. QED
    BY <1>0, <2>1, <2>5, <2>7, <2>8 DEF Sized
<1>. QED
  BY <1>1, <1>2, <1>3, <1>4, <1>5, <1>6, <1>7 DEF Statement

LEMMA SizedDrop ==
  ASSUME SizeInv, NEW w \in Workers, DropTable(w) PROVE Sized'
<1>0. wpc \in [Workers -> Steps] /\ wtab \in [Workers -> Tables]
      /\ list \in [Tables -> Seq(Blocks)]
  BY DEF SizeInv, OwnInv, TypeInv, TypeOK
<1>1. /\ wpc[w] \in {"idle", "unlink", "unschema", "take", "wait"}
      /\ wpc'[w] \in {"idle", "unlink", "unschema", "take", "wait"}
      /\ wpc' = [wpc EXCEPT ![w] = wpc'[w]]
      /\ wtab' = [wtab EXCEPT ![w] = wtab'[w]]
      /\ UNCHANGED <<wblk, writer, next, data, size, todo, ftab>>
  BY <1>0 DEF DropTable, Drop, Unlink, Unschema, Take, Erase, Goto, heap,
              disk, flush
<1>2. Placed(w)'
  BY <1>1 DEF Placed
<1>3. \A t \in Tables : list'[t] = list[t] \/ list'[t] = <<>>
  BY <1>0 DEF DropTable, Drop, Unlink, Unschema, Take, Erase
<1>. QED
  BY <1>0, <1>1, <1>2, <1>3, SizedFrame

LEMMA SizedFlush == ASSUME SizeInv, FlushThread PROVE Sized'
<1>0. /\ size \in [Tables -> 0..MaxBlocks] /\ MaxBlocks \in Nat
      /\ list \in [Tables -> Seq(Blocks)]
      /\ ftab \in Tables /\ todo \in Seq(Blocks) /\ jobs \in Seq(Tables)
      /\ Sized
  BY FileCacheAssumption DEF SizeInv, OwnInv, TypeInv, TypeOK
<1>1. UNCHANGED <<wpc, wtab, wblk, writer, next, data>>
  BY DEF FlushThread, FStart, FPop, FReturn, FWrite, FSkip, FClear, FSave,
         heap, sess
<1>2. ASSUME UNCHANGED size PROVE EndOfFile' /\ \A w \in Workers : Placed(w)'
  BY <1>0, <1>1, <1>2 DEF Sized, EndOfFile, Pending, Placed
<1>3. CASE FStart \/ FReturn \/ FSave \/ FClear
  <2>1. /\ UNCHANGED <<size, todo, ftab>>
        /\ \A t \in Tables : list'[t] = list[t] \/ list'[t] = <<>>
    BY <1>0, <1>3 DEF FStart, FReturn, FSave, FClear, disk
  <2>2. \A t \in Tables : \A i \in 1..Len(list'[t]) : list'[t][i] < size'[t]
    BY <1>0, <2>1 DEF Sized
  <2>. QED
    BY <1>0, <1>2, <2>1, <2>2 DEF Sized
<1>4. CASE FPop
  <2>1. ftab' \in Tables /\ todo' = list[ftab'] /\ UNCHANGED <<size, list>>
    BY <1>0, <1>4 DEF FPop, disk
  <2>. QED
    BY <1>0, <1>2, <2>1 DEF Sized
<1>5. ASSUME FWrite \/ FSkip PROVE UNCHANGED <<size, list, ftab>>
  <2>1. /\ todo /= <<>> /\ UNCHANGED <<list, ftab>>
        /\ UNCHANGED size \/ Extend(ftab, Head(todo))
    BY <1>5 DEF FWrite, FSkip, disk
  <2>2. Head(todo) < size[ftab] /\ Head(todo) \in Int
    BY <1>0, <2>1 DEF Sized, Blocks
  <2>. QED
    BY <1>0, <2>1, <2>2 DEF Extend
<1>6. CASE FWrite \/ FSkip
  <2>1. todo /= <<>> /\ todo' = Tail(todo)
    BY <1>6 DEF FWrite, FSkip
  <2>2. \A i \in 1..Len(todo') : todo'[i] < size[ftab]
    BY <1>0, <2>1, TailElements DEF Sized
  <2>. QED
    BY <1>0, <1>2, <1>5, <1>6, <2>2 DEF Sized
<1>. QED
  BY <1>3, <1>4, <1>6 DEF FlushThread

LEMMA SizeInvNext == SizeInv /\ [Next]_vars => SizeInv'
<1>1. ASSUME SizeInv, Next PROVE SizeInv'
  BY <1>1, OwnInvNext, SizedStatement, SizedDrop, SizedFlush DEF SizeInv, Next
<1>2. ASSUME SizeInv, UNCHANGED vars PROVE SizeInv'
  <2>1. OwnInv'
    BY <1>2, OwnInvNext DEF SizeInv
  <2>. QED
    BY <1>2, <2>1 DEF SizeInv, Sized, EndOfFile, Pending, Placed,
                      vars, heap, disk, sess, flush
<1>. QED
  BY <1>1, <1>2

(* The header in memory and the file agree on where the file ends, up to   *)
(* the one block that a session is about to write.                         *)
THEOREM FileCorrect == Spec => []EndOfFile
<1>1. SizeInv => EndOfFile
  BY DEF SizeInv, Sized
<1>. QED
  BY <1>1, SizeInvInit, SizeInvNext, PTL DEF Spec

(* The flush thread never writes beyond the end of the file, so that a     *)
(* flush leaves no hole of blocks that were never written.                 *)
THEOREM NoHoleCorrect == Spec => []NoHole
<1>1. SizeInv => NoHole
  BY DEF SizeInv, Sized, NoHole, Listed
<1>. QED
  BY <1>1, SizeInvInit, SizeInvNext, PTL DEF Spec
=============================================================================
