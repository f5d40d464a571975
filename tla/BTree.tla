------------------------------- MODULE BTree -------------------------------
(***************************************************************************)
(* One index of a table: the B+tree of classes node and tree in btree.cpp. *)
(* The table's lock makes an insert or a removal exclusive; both descend   *)
(* the tree by tail calls, one step of the model for each node they visit. *)
(*                                                                         *)
(* A node is its block: the number of keys, the sibling links and the      *)
(* element vector, whose slots keep what they held before when the number  *)
(* of keys goes down.  The offset of a slot is the place of a row in a     *)
(* leaf and the block of a child in an inner node.  Blocks are numbered;   *)
(* block 0 is the first data block of the table, so that 0, which a new    *)
(* block is filled with, is neither a node nor the place of a row.         *)
(***************************************************************************)
EXTENDS Integers, FiniteSets, SequencesExt

CONSTANTS
  Order,       \* index::order(): a node is full with Order - 1 keys
  Rows,        \* the rows that may be in the table, by their place
  KeyOf,       \* the key of a row in this index, row::make_key()
  Unique,      \* FLAG_UNIQUE of the index
  Removable,   \* the rows that statements remove
  MaxNodes,    \* bound: nodes of the index
  Window,      \* bound: a key is inserted before at most this many lower ones
  MaxRemovals  \* bound: removals

ASSUME BTreeAssumption ==
  /\ Order \in Nat /\ Order >= 4
  /\ Rows \subseteq Nat \ {0} /\ Rows /= {} /\ Removable \subseteq Rows
  /\ KeyOf \in [Rows -> Nat \ {0}]
  /\ Unique \in BOOLEAN
  /\ MaxNodes \in Nat \ {0} /\ Window \in Nat /\ MaxRemovals \in Nat

VARIABLES
  nodes,  \* the blocks of the index
  used,   \* blocks handed out by next_offset()
  root,   \* index::root() of the schema, or None
  top,    \* the root the operation under way will leave behind
  pc,     \* "idle", "insert", "remove"; "loop" and "lost" are final
  cur,    \* the node the operation is at
  row,    \* the row it inserts or removes
  rows,   \* the rows of the table
  removals \* removals begun

vars == <<nodes, used, root, top, pc, cur, row, rows, removals>>

None == -1                  \* root -1, INVALID_SIBLING_REF
MinDegree == Order \div 2
Slots == 0..(Order - 1)
Ids == 1..MaxNodes

-----------------------------------------------------------------------------
(* A block and its accessors.                                              *)

(* alloc_block() fills the block with zeros, new_node() clears the links.  *)
NewNode(leaf) ==
  [leaf |-> leaf, num |-> 0, prev |-> None, next |-> None,
   slot |-> [i \in Slots |-> [off |-> 0, key |-> 0]]]

(* get_element(): there is a row place in a leaf only.                     *)
Elem(x, i) ==
  [ref |-> IF x.leaf THEN x.slot[i].off ELSE 0, key |-> x.slot[i].key]

Key(x, i) == x.slot[i].key

Child(x, i) == x.slot[i].off

(* Fault for TypeOK: is_full() compares with the order itself.             *)
FullLate(x) == x.num >= Order

Full(x) == x.num >= Order - 1

(* Fault for FindLeadsToRow: the place of the row is not put.              *)
PutElemsKeyOnly(x, es) ==
  [x EXCEPT !.slot = [i \in Slots |->
     IF i \notin DOMAIN es THEN x.slot[i]
     ELSE [x.slot[i] EXCEPT !.key = es[i].key]]]

(* put_element() for every index in the domain of es: an inner node takes  *)
(* only the key.                                                           *)
PutElems(x, es) ==
  [x EXCEPT !.slot = [i \in Slots |->
     IF i \notin DOMAIN es THEN x.slot[i]
     ELSE [off |-> IF x.leaf THEN es[i].ref ELSE x.slot[i].off,
           key |-> es[i].key]]]

(* Fault for ChildrenExist: the offset goes behind the key of its slot.    *)
PutChildrenBehind(x, cs) ==
  [x EXCEPT !.slot = [i \in Slots |->
     IF i - 1 \notin DOMAIN cs THEN x.slot[i]
     ELSE [x.slot[i] EXCEPT !.off = cs[i - 1]]]]

(* put_child_offset() for every index in the domain of cs.                 *)
PutChildren(x, cs) ==
  [x EXCEPT !.slot = [i \in Slots |->
     IF i \notin DOMAIN cs THEN x.slot[i]
     ELSE [x.slot[i] EXCEPT !.off = cs[i]]]]

(* The bounds of the binary search and its answer when they have crossed.  *)
Search == [lo : Nat, hi : Int, alt : Nat]

(* Fault for FindExact: the search leaves out the last key.                *)
FindKeyShort(x, k) ==
  LET search[s \in Search] ==
        LET mid == (s.lo + s.hi) \div 2 IN
        IF s.lo > s.hi THEN s.alt
        ELSE IF k < Key(x, mid)
        THEN search[[lo |-> s.lo, hi |-> mid - 1, alt |-> mid]]
        ELSE IF k > Key(x, mid)
        THEN search[[lo |-> mid + 1, hi |-> s.hi, alt |-> s.alt]]
        ELSE mid
  IN search[[lo |-> 0, hi |-> x.num - 2, alt |-> x.num]]

(* find_key(): the binary search, with the index of the lowest key that is *)
(* greater when the key is not there.                                      *)
FindKey(x, k) ==
  LET search[s \in Search] ==
        LET mid == (s.lo + s.hi) \div 2 IN
        IF s.lo > s.hi THEN s.alt
        ELSE IF k < Key(x, mid)
        THEN search[[lo |-> s.lo, hi |-> mid - 1, alt |-> mid]]
        ELSE IF k > Key(x, mid)
        THEN search[[lo |-> mid + 1, hi |-> s.hi, alt |-> s.alt]]
        ELSE mid
  IN search[[lo |-> 0, hi |-> x.num - 1, alt |-> x.num]]

(* The loops of insert_non_full(): from the right to the first element     *)
(* that is not greater than k; -1 when all are.                            *)
LastNotAbove(x, k) ==
  Max({i \in 0..(x.num - 1) : Key(x, i) <= k} \union {-1})

-----------------------------------------------------------------------------
(* Splitting, borrowing and merging, as functions of the blocks.           *)

(* Fault for LevelsLinked: the node behind keeps its link to c.            *)
LinkBehindOneWay(ns, c, z) ==
  [ns EXCEPT ![z].prev = c, ![z].next = ns[c].next, ![c].next = z]

(* insert_sibling(): z comes behind c in the list of its level.            *)
LinkBehind(ns, c, z) ==
  LET n == ns[c].next IN
  [b \in Ids |->
     CASE b = z -> [ns[b] EXCEPT !.prev = c, !.next = n]
       [] b = c -> [ns[b] EXCEPT !.next = z]
       [] b = n -> [ns[b] EXCEPT !.prev = z]
       [] OTHER -> ns[b]]

(* Fault for LeavesExact: a leaf gives its middle element away, as the     *)
(* nodes of a B-tree that is no B+tree do.                                 *)
KeptAsInner(x) == MinDegree - 1

(* The number of keys a node that is split keeps.                          *)
Kept(x) == IF x.leaf THEN MinDegree ELSE MinDegree - 1

(* split_child(): the upper half of child n of p, block c, goes to the new *)
(* block z; the key between them is copied into p.                         *)
Split(ns, p, n, c, z) ==
  LET P == ns[p]
      C == ns[c]
      t == MinDegree
      upper == PutElems(NewNode(C.leaf),
                        [i \in 0..(t - 2) |-> Elem(C, t + i)])
      Z == [(IF C.leaf THEN upper
             ELSE PutChildren(upper, [i \in 0..(t - 1) |-> Child(C, t + i)]))
            EXCEPT !.num = t - 1]
      kids == PutChildren(P, [i \in (n + 1)..(P.num + 1) |->
                                IF i = n + 1 THEN z ELSE Child(P, i - 1)])
      keys == PutElems(kids, [i \in n..P.num |->
                                IF i = n THEN Elem(C, t - 1)
                                ELSE Elem(P, i - 1)])
  IN LinkBehind([ns EXCEPT
       ![p] = [keys EXCEPT !.num = P.num + 1],
       ![c].num = Kept(C),
       ![z] = Z], c, z)

(* borrow_from_prev(): through element n - 1 of p, from child n - 1 to     *)
(* child n.                                                                *)
BorrowFromPrev(ns, p, n) ==
  LET P == ns[p]
      c == Child(P, n)
      s == Child(P, n - 1)
      C == ns[c]
      S == ns[s]
      keys == PutElems(C, [i \in 0..C.num |->
                IF i = 0 THEN Elem(P, n - 1) ELSE Elem(C, i - 1)])
      kids == IF C.leaf THEN keys
              ELSE PutChildren(keys, [i \in 0..(C.num + 2) |->
                IF i = 0 THEN Child(S, S.num) ELSE Child(C, i - 1)])
  IN [ns EXCEPT
       ![c] = [kids EXCEPT !.num = C.num + 1],
       ![p] = PutElems(P, [i \in {n - 1} |-> Elem(S, S.num - 1)]),
       ![s].num = S.num - 1]

(* borrow_from_next(): through element n of p, from child n + 1 to child n *)
BorrowFromNext(ns, p, n) ==
  LET P == ns[p]
      c == Child(P, n)
      s == Child(P, n + 1)
      C == ns[c]
      S == ns[s]
      keys == PutElems(C, [i \in {C.num} |-> Elem(P, n)])
      kids == IF C.leaf THEN keys
              ELSE PutChildren(keys, [i \in {C.num + 1} |-> Child(S, 0)])
      down == PutElems(S, [i \in 0..(S.num - 2) |-> Elem(S, i + 1)])
      rest == IF S.leaf THEN down
              ELSE PutChildren(down, [i \in 0..(S.num - 1) |-> Child(S, i + 1)])
  IN [ns EXCEPT
       ![c] = [kids EXCEPT !.num = C.num + 1],
       ![p] = PutElems(P, [i \in {n} |-> Elem(S, 0)]),
       ![s] = [rest EXCEPT !.num = S.num - 1]]

(* merge(): element n of p and child n + 1 go into child n.  The loop over *)
(* the child offsets of p stops before the last one, so that two of them   *)
(* may be one block: child n + 1 may be child n.                           *)
Merge(ns, p, n) ==
  LET P == ns[p]
      c == Child(P, n)
      C == ns[c]
      S == ns[Child(P, n + 1)]
      t == MinDegree
      left == PutElems(P, [i \in n..(P.num - 2) |-> Elem(P, i + 1)])
      keys == PutElems(C, [i \in (t - 1)..(t - 1 + S.num) |->
                IF i = t - 1 THEN Elem(P, n) ELSE Elem(S, i - t)])
      kids == IF C.leaf THEN keys
              ELSE PutChildren(keys, [i \in t..(t + S.num) |->
                                        Child(S, i - t)])
  IN [ns EXCEPT
       ![p] = [PutChildren(left, [i \in (n + 1)..(P.num - 2) |->
                                    Child(P, i + 1)])
               EXCEPT !.num = P.num - 1],
       ![c] = [kids EXCEPT !.num = C.num + S.num + 1, !.next = S.next]]

(* Fault for Balanced: a sibling gives away a key that it cannot spare.    *)
FillFromPoor(ns, p, n) ==
  LET P == ns[p]
      Rich(i) == ns[Child(P, i)].num >= MinDegree - 1
  IN IF n /= 0 /\ Rich(n - 1) THEN BorrowFromPrev(ns, p, n)
     ELSE IF n /= P.num /\ Rich(n + 1) THEN BorrowFromNext(ns, p, n)
     ELSE Merge(ns, p, IF n /= P.num THEN n ELSE n - 1)

(* fill(): child n of p gets a key from a neighbour or is merged with one. *)
Fill(ns, p, n) ==
  LET P == ns[p]
      Rich(i) == ns[Child(P, i)].num >= MinDegree
  IN IF n /= 0 /\ Rich(n - 1) THEN BorrowFromPrev(ns, p, n)
     ELSE IF n /= P.num /\ Rich(n + 1) THEN BorrowFromNext(ns, p, n)
     ELSE Merge(ns, p, IF n /= P.num THEN n ELSE n - 1)

-----------------------------------------------------------------------------
(* Searching.                                                              *)

NotFound == [node |-> None, at |-> 0]

(* tree::end(): one position behind the last element of the last leaf.     *)
End ==
  LET down[b \in Ids] ==
        IF nodes[b].leaf THEN b ELSE down[Child(nodes[b], nodes[b].num)]
  IN IF root = None THEN NotFound
     ELSE [node |-> down[root], at |-> nodes[down[root]].num]

(* tree::find() and node::find(): the first node on the way down whose     *)
(* element at the index of find_key() has the key.  The index may be the   *)
(* number of keys, and the slot there still holds what was there before.   *)
Find(k) ==
  LET down[b \in Ids] ==
        LET i == FindKey(nodes[b], k) IN
        IF Key(nodes[b], i) = k THEN [node |-> b, at |-> i]
        ELSE IF nodes[b].leaf THEN End
        ELSE down[Child(nodes[b], i)]
  IN IF root = None THEN NotFound ELSE down[root]

(* What the callers of find() test.                                        *)
Found(k) == Find(k) /= End

-----------------------------------------------------------------------------
Init ==
  /\ nodes = [b \in Ids |-> NewNode(TRUE)]
  /\ used = 0 /\ root = None /\ top = None
  /\ pc = "idle" /\ cur = 1 /\ row = (CHOOSE r \in Rows : TRUE)
  /\ rows = {} /\ removals = 0

(* An operation comes back: the schema gets the root.                      *)
Return(r) ==
  /\ pc' = "idle"
  /\ root' = r /\ top' = r

(* The keys below r's that no row of the table has so far.                 *)
Skipped(r) ==
  {k \in Range(KeyOf) : k < KeyOf[r] /\ \A s \in rows : KeyOf[s] /= k}

(* Fault for Implements: verify_unique_key() is not called.                *)
BeginUnverified(r) ==
  /\ pc = "idle"
  /\ r \notin rows
  /\ Cardinality(Skipped(r)) <= Window
  /\ row' = r

(* A row that is not in the table is to be inserted.                       *)
Begin(r) ==
  /\ pc = "idle"
  /\ r \notin rows
  /\ Cardinality(Skipped(r)) <= Window
  /\ Unique => ~Found(KeyOf[r])                   \* verify_unique_key()
  /\ row' = r

(* tree::insert() into an empty index: a leaf becomes the root.            *)
InsertFirst(r) ==
  /\ Begin(r)
  /\ root = None /\ used + 1 <= MaxNodes
  /\ used' = used + 1
  /\ nodes' = [nodes EXCEPT ![used'] =
       [PutElems(NewNode(TRUE),
                 [i \in {0} |-> [ref |-> r, key |-> KeyOf[r]]])
        EXCEPT !.num = 1]]
  /\ rows' = rows \union {r}
  /\ Return(used')
  /\ UNCHANGED <<cur, removals>>

(* The root is not full: insert_non_full() starts there.                   *)
InsertAtRoot(r) ==
  /\ Begin(r)
  /\ root /= None /\ ~Full(nodes[root])
  /\ pc' = "insert" /\ cur' = root
  /\ UNCHANGED <<nodes, used, root, top, rows, removals>>

(* The root is full: a new root gets it as child 0, it is split, and the   *)
(* insert goes on in one of the halves.                                    *)
InsertPromote(r) ==
  /\ Begin(r)
  /\ root /= None /\ Full(nodes[root])
  /\ used + 2 <= MaxNodes
  /\ LET a == used + 1
         up == [nodes EXCEPT ![a] =
                  PutChildren(NewNode(FALSE), [i \in {0} |-> root])]
         ns == Split(up, a, 0, root, used + 2)
     IN /\ nodes' = ns
        /\ top' = a
        /\ cur' = Child(ns[a], IF Key(ns[a], 0) < KeyOf[r] THEN 1 ELSE 0)
  /\ used' = used + 2
  /\ pc' = "insert"
  /\ UNCHANGED <<root, rows, removals>>

(* insert_non_full() at a leaf: greater elements move right.               *)
InsertLeaf ==
  /\ pc = "insert" /\ nodes[cur].leaf
  /\ LET x == nodes[cur]
         n == LastNotAbove(x, KeyOf[row]) + 1
     IN nodes' = [nodes EXCEPT ![cur] =
          [PutElems(x, [i \in n..x.num |->
              IF i = n THEN [ref |-> row, key |-> KeyOf[row]]
              ELSE Elem(x, i - 1)])
           EXCEPT !.num = x.num + 1]]
  /\ rows' = rows \union {row}
  /\ Return(top)
  /\ UNCHANGED <<used, cur, row, removals>>

(* insert_non_full() at an inner node: to the child for the key, split     *)
(* first when it is full.                                                  *)
InsertInner ==
  /\ pc = "insert" /\ ~nodes[cur].leaf
  /\ LET k == KeyOf[row]
         n == LastNotAbove(nodes[cur], k) + 1
         c == Child(nodes[cur], n)
         ns == Split(nodes, cur, n, c, used + 1)
     IN \/ /\ ~Full(nodes[c])
           /\ cur' = c
           /\ UNCHANGED <<nodes, used>>
        \/ /\ Full(nodes[c]) /\ used + 1 <= MaxNodes
           /\ nodes' = ns
           /\ used' = used + 1
           /\ cur' = Child(ns[cur], IF Key(ns[cur], n) < k THEN n + 1 ELSE n)
  /\ UNCHANGED <<root, top, pc, row, rows, removals>>

-----------------------------------------------------------------------------
(* tree::remove().                                                         *)

(* The key of a row of the table is removed from the index.                *)
RemoveStart(r) ==
  /\ pc = "idle"
  /\ r \in rows \intersect Removable
  /\ removals < MaxRemovals /\ removals' = removals + 1
  /\ root /= None
  /\ pc' = "remove" /\ cur' = root /\ row' = r
  /\ UNCHANGED <<nodes, used, root, top, rows>>

(* After node::remove(): an empty root is replaced.  The row that the      *)
(* removed element led to is taken out of the table.                       *)
RemoveReturn(ns, gone) ==
  /\ nodes' = ns
  /\ rows' = rows \ gone
  /\ Return(IF ns[root].num > 0 THEN root
            ELSE IF ns[root].leaf THEN None ELSE Child(ns[root], 0))
  /\ UNCHANGED <<used, cur, row, removals>>

At == FindKey(nodes[cur], KeyOf[row])

Here == At < nodes[cur].num /\ Key(nodes[cur], At) = KeyOf[row]

(* remove_from_leaf()                                                      *)
RemoveFromLeaf ==
  /\ pc = "remove" /\ nodes[cur].leaf /\ Here
  /\ LET x == nodes[cur] IN
     RemoveReturn([nodes EXCEPT ![cur] =
         [PutElems(x, [i \in At..(x.num - 2) |-> Elem(x, i + 1)])
          EXCEPT !.num = x.num - 1]],
       {Elem(x, At).ref})

RemoveMissing ==
  /\ pc = "remove" /\ nodes[cur].leaf /\ ~Here
  /\ RemoveReturn(nodes, {})

Descend(ns, b) ==
  /\ nodes' = ns
  /\ cur' = b
  /\ UNCHANGED <<used, root, top, pc, row, rows, removals>>

(* Not followed any further: a loop that never ends ("loop"), and one that *)
(* may read an offset behind the last child of a node ("lost").            *)
GiveUp(why) ==
  /\ pc' = why
  /\ UNCHANGED <<nodes, used, root, top, cur, row, rows, removals>>

(* Poor(i): child i of the current node has less than MinDegree keys.      *)
Kid(i) == nodes[Child(nodes[cur], i)]
Poor(i) == Kid(i).num < MinDegree

(* remove_from_non_leaf(), child n has keys enough: get_prev_element().    *)
(* Its loop asks this node, not the child, for the last child of the       *)
(* child: if child n is no leaf, it walks from neighbour to neighbour or   *)
(* out of the tree.                                                        *)
RemoveByPrev ==
  /\ pc = "remove" /\ ~nodes[cur].leaf /\ Here
  /\ ~Poor(At)
  /\ \/ /\ Kid(At).leaf
        /\ Descend([nodes EXCEPT ![cur] = PutElems(@,
                      [i \in {At} |-> Elem(Kid(At), Kid(At).num - 2)])],
                   Child(nodes[cur], At))
     \/ ~Kid(At).leaf /\ GiveUp("lost")

(* Otherwise child n + 1: get_next_element(), whose loop asks this node    *)
(* for child 0 for ever if child n + 1 is no leaf.                         *)
RemoveByNext ==
  /\ pc = "remove" /\ ~nodes[cur].leaf /\ Here
  /\ Poor(At) /\ ~Poor(At + 1)
  /\ \/ /\ Kid(At + 1).leaf
        /\ Descend([nodes EXCEPT ![cur] = PutElems(@,
                      [i \in {At} |-> Elem(Kid(At + 1), 0)])],
                   Child(nodes[cur], At + 1))
     \/ ~Kid(At + 1).leaf /\ GiveUp("loop")

(* Otherwise the two are merged.                                           *)
RemoveByMerge ==
  /\ pc = "remove" /\ ~nodes[cur].leaf /\ Here
  /\ Poor(At) /\ Poor(At + 1)
  /\ LET ns == Merge(nodes, cur, At) IN Descend(ns, Child(ns[cur], At))

(* remove() at an inner node without the key: the child it may be in is    *)
(* filled first.  A last child that was merged is child n - 1 now.         *)
RemoveBelow ==
  /\ pc = "remove" /\ ~nodes[cur].leaf /\ ~Here
  /\ LET x == nodes[cur]
         n == At
         ns == IF Poor(n) THEN Fill(nodes, cur, n) ELSE nodes
     IN Descend(ns, Child(ns[cur],
          IF n = x.num /\ n > ns[cur].num THEN n - 1 ELSE n))

-----------------------------------------------------------------------------
Inserting ==
  \/ \E r \in Rows : InsertFirst(r) \/ InsertAtRoot(r) \/ InsertPromote(r)
  \/ InsertLeaf \/ InsertInner

Removing ==
  \/ \E r \in Rows : RemoveStart(r)
  \/ RemoveFromLeaf \/ RemoveMissing
  \/ RemoveByPrev \/ RemoveByNext \/ RemoveByMerge \/ RemoveBelow

Next == Inserting \/ Removing

Spec == Init /\ [][Next]_vars

-----------------------------------------------------------------------------
Node == [leaf : BOOLEAN, num : 0..(Order - 1),
         prev : Ids \union {None}, next : Ids \union {None},
         slot : [Slots -> [off : Nat, key : Nat]]]

(* A node never has more keys than its block has room for, and the other   *)
(* variables have values of their kind.                                    *)
TypeOK ==
  /\ nodes \in [Ids -> Node]
  /\ used \in 0..MaxNodes
  /\ root \in Ids \union {None} /\ top \in Ids \union {None}
  /\ pc \in {"idle", "insert", "remove", "loop", "lost"}
  /\ cur \in Ids /\ row \in Rows
  /\ rows \subseteq Rows
  /\ removals \in 0..MaxRemovals

(* Whatever was split, borrowed and merged, an inner node has all its      *)
(* children: child_at() never reads an offset that was not put there.      *)
ChildrenExist ==
  \A b \in 1..used : ~nodes[b].leaf =>
    \A i \in 0..nodes[b].num : Child(nodes[b], i) \in 1..used

(* The steps down from a block to the first leaf under it.                 *)
Height ==
  LET height[b \in 1..used] ==
        IF nodes[b].leaf THEN 0 ELSE 1 + height[Child(nodes[b], 0)]
  IN height

(* All leaves are at one depth below the root, and every node that can be  *)
(* reached from the root has MinDegree - 1 keys or more: the tree stays    *)
(* balanced, and a walk down from the root ends at a leaf, whatever        *)
(* insert_non_full() and node::remove() have done.  The blocks that are    *)
(* gone are those that merges and empty roots left behind.                 *)
Balanced ==
  top /= None =>
    LET height == Height IN
    \E gone \in SUBSET (1..used) :
      LET live == (1..used) \ gone IN
      /\ top \in live
      /\ \A b \in live \ {top} : nodes[b].num >= MinDegree - 1
      /\ \A b \in live : ~nodes[b].leaf => \A i \in 0..nodes[b].num :
           /\ Child(nodes[b], i) \in live
           /\ height[b] = height[Child(nodes[b], i)] + 1

Kids(b) == [i \in 1..(nodes[b].num + 1) |-> Child(nodes[b], i - 1)]

(* Level[d] lists the nodes d steps below the root, from left to right.  A *)
(* tree of n nodes has less than n / 2 + 1 levels.                         *)
Level ==
  LET level[d \in 0..(MaxNodes \div 2)] ==
        IF d = 0 THEN <<top>>
        ELSE LET up == level[d - 1] IN
             IF \A i \in 1..Len(up) : ~nodes[up[i]].leaf
             THEN FlattenSeq([i \in 1..Len(up) |-> Kids(up[i])])
             ELSE <<>>
  IN level

(* Every level, read from left to right, is the list its sibling links     *)
(* form, in both directions, and is all leaves or all inner nodes.         *)
LevelsLinked ==
  top /= None => \A d \in 0..(MaxNodes \div 2) :
    LET l == Level[d] IN
    /\ l /= <<>> => nodes[l[1]].prev = None /\ nodes[l[Len(l)]].next = None
    /\ \A i \in 1..(Len(l) - 1) :
         /\ nodes[l[i]].next = l[i + 1] /\ nodes[l[i + 1]].prev = l[i]
         /\ nodes[l[i]].leaf = nodes[l[i + 1]].leaf

(* The leaves from left to right, and their elements.                      *)
Leaves ==
  LET down[d \in 0..(MaxNodes \div 2)] ==
        LET l == Level[d] IN
        IF \E i \in 1..Len(l) : nodes[l[i]].leaf THEN l ELSE down[d + 1]
  IN down[0]

Elements ==
  IF top = None THEN <<>>
  ELSE LET ls == Leaves IN
       FlattenSeq([i \in 1..Len(ls) |->
         LET x == nodes[ls[i]] IN [j \in 1..x.num |-> Elem(x, j - 1)]])

(* The rows the leaves below the root lead to.                             *)
Refs ==
  LET under[b \in Ids] ==
        IF nodes[b].leaf
        THEN {Elem(nodes[b], i).ref : i \in 0..(nodes[b].num - 1)}
        ELSE UNION {under[Child(nodes[b], i)] : i \in 0..nodes[b].num}
  IN IF top = None THEN {} ELSE under[top]

(* Read from leaf to leaf the index leads to the rows of the table, once   *)
(* each and in the order of their keys.                                    *)
LeavesExact ==
  LET es == Elements IN
  /\ {e.ref : e \in Range(es)} = rows
  /\ Len(es) = Cardinality(rows)
  /\ \A i \in 1..(Len(es) - 1) : es[i].key <= es[i + 1].key
  /\ \A e \in Range(es) : e.key = KeyOf[e.ref]

(* find() finds the keys of the rows of the table and no others.           *)
FindExact ==
  pc = "idle" => \A k \in Range(KeyOf) :
    Found(k) <=> \E r \in rows : KeyOf[r] = k

Abstract == INSTANCE Index WITH held <- Refs

(* The B+tree implements the index: splits and steps down are invisible,   *)
(* and a row comes or goes in one step.                                    *)
Implements == Abstract!Spec

-----------------------------------------------------------------------------
(* What comments of the code promise.  FindLeadsToRow and KeysInLeaves     *)
(* hold while an index is a single leaf.  In a larger one a removal may    *)
(* cost another row its place: with order 4, insert the keys 2, 3, 4 and 1 *)
(* and remove 4; borrow_from_prev() puts the key 3 of the inner node,      *)
(* which has no place, into the leaf.                                      *)

(* The row at the place find() returns has the key that was looked for.    *)
FindLeadsToRow ==
  pc = "idle" => \A k \in Range(KeyOf) : Found(k) =>
    LET e == Elem(nodes[Find(k).node], Find(k).at)
    IN e.ref \in rows /\ KeyOf[e.ref] = k

(* All keys exist at the leaf level, with the place of their row.          *)
KeysInLeaves == pc = "idle" => rows \subseteq Refs

(* The walk to the next key ends at a leaf.                                *)
WalksEnd == pc /= "loop"

=============================================================================
