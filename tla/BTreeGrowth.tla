---------------------------- MODULE BTreeGrowth ----------------------------
(***************************************************************************)
(* What find() answers and what the index implements.  An index of even    *)
(* order that only grows: it implements Index, and find() finds the keys   *)
(* of the rows and no others, for every even order, any rows, keys and     *)
(* bounds.  An index that stays one leaf, with removals and of any order:  *)
(* it implements Index, and find() leads to the row.                       *)
(***************************************************************************)
EXTENDS BTreeProofs, FiniteSetTheorems

-----------------------------------------------------------------------------
(* The keys of a block after put_element() and put_child_offset().         *)

LEMMA PutElemsKeys ==
  ASSUME NEW x \in Node, NEW es
  PROVE  /\ \A i \in 0..(Order - 1) : Key(PutElems(x, es), i)
              = IF i \in DOMAIN es THEN es[i].key ELSE Key(x, i)
         /\ x.leaf => \A i \in 0..(Order - 1) : Child(PutElems(x, es), i)
              = IF i \in DOMAIN es THEN es[i].ref ELSE Child(x, i)
  <1> DEFINE sl == [i \in Slots |->
               IF i \notin DOMAIN es THEN x.slot[i]
               ELSE [off |-> IF x.leaf THEN es[i].ref ELSE x.slot[i].off,
                     key |-> es[i].key]]
             y == [x EXCEPT !.slot = sl]
  <1>1. PutElems(x, es) = y
    BY DEF PutElems
  <1>2. ASSUME NEW i \in Slots
        PROVE  /\ sl[i].key = IF i \in DOMAIN es THEN es[i].key ELSE x.slot[i].key
               /\ x.leaf => sl[i].off = IF i \in DOMAIN es THEN es[i].ref ELSE x.slot[i].off
    OBVIOUS
  <1> HIDE DEF sl
  <1>3. y.slot = sl
    BY DEF Node
  <1> HIDE DEF y
  <1> QED
    BY <1>1, <1>2, <1>3 DEF Child, Key, Slots

LEMMA PutChildrenKeys ==
  ASSUME NEW x \in Node, NEW cs
  PROVE  \A i \in 0..(Order - 1) : Key(PutChildren(x, cs), i) = Key(x, i)
  <1> DEFINE sl == [i \in Slots |->
               IF i \notin DOMAIN cs THEN x.slot[i]
               ELSE [x.slot[i] EXCEPT !.off = cs[i]]]
             y == [x EXCEPT !.slot = sl]
  <1>1. PutChildren(x, cs) = y
    BY DEF PutChildren
  <1>2. x.slot \in [Slots -> [off : Nat, key : Nat]]
    BY DEF Node
  <1>3. ASSUME NEW i \in Slots
        PROVE  sl[i].key = x.slot[i].key
    BY <1>2
  <1> HIDE DEF sl
  <1>4. y.slot = sl
    BY DEF Node
  <1> HIDE DEF y
  <1> QED
    BY <1>1, <1>3, <1>4 DEF Key, Slots

LEMMA NewNodeKeys ==
  \A leaf, i : i \in 0..(Order - 1) => Key(NewNode(leaf), i) = 0
  BY DEF NewNode, Key, Slots

(* split_child() of a node of even order: the key between the halves goes  *)
(* to p, c keeps its lower part, and z gets the upper one.                 *)
IsHalf(S, ns, p, n, c, z) ==
  /\ \A i \in 0..(Order - 1) : Key(S[p], i)
       = IF i = n THEN Key(ns[c], MinDegree - 1)
         ELSE IF i > n /\ i <= ns[p].num THEN Key(ns[p], i - 1) ELSE Key(ns[p], i)
  /\ S[c].num = Kept(ns[c])
  /\ \A i : Key(S[c], i) = Key(ns[c], i)
  /\ \A i \in 0..(Order - 1) : Key(S[z], i)
       = IF i <= MinDegree - 2 THEN Key(ns[c], MinDegree + i) ELSE 0
  /\ ns[c].leaf => \A i \in 0..(MinDegree - 2) :
       Child(S[z], i) = Child(ns[c], MinDegree + i)

LEMMA SplitKeys ==
  ASSUME NEW ns \in [Ids -> Node], NEW p \in Ids, NEW c \in Ids, NEW z \in Ids,
         p # c, p # z, c # z,
         ~ns[p].leaf, ns[p].num < Order - 1, ns[c].num = Order - 1,
         NEW n \in 0..ns[p].num
  PROVE  IsHalf(Split(ns, p, n, c, z), ns, p, n, c, z)
  <1> DEFINE P == ns[p]
             C == ns[c]
             t == MinDegree
             ue == [i \in 0..(t - 2) |-> Elem(C, t + i)]
             upper == PutElems(NewNode(C.leaf), ue)
             uc == [i \in 0..(t - 1) |-> Child(C, t + i)]
             W == IF C.leaf THEN upper ELSE PutChildren(upper, uc)
             Z == [W EXCEPT !.num = t - 1]
             kc == [i \in (n + 1)..(P.num + 1) |->
                      IF i = n + 1 THEN z ELSE Child(P, i - 1)]
             kids == PutChildren(P, kc)
             ke == [i \in n..P.num |-> IF i = n THEN Elem(C, t - 1)
                                       ELSE Elem(P, i - 1)]
             keys == PutElems(kids, ke)
             Q == [keys EXCEPT !.num = P.num + 1]
             D == [C EXCEPT !.num = Kept(C)]
             ms == [ns EXCEPT ![p] = Q, ![c] = D, ![z] = Z]
             S == Split(ns, p, n, c, z)
  <1>1. S = LinkBehind(ms, c, z)
    <2>1. S = LinkBehind([ns EXCEPT ![p] = Q, ![c].num = Kept(C), ![z] = Z],
                         c, z)
      BY Zenon DEF Split
    <2>2. [ns EXCEPT ![p] = Q, ![c].num = Kept(C), ![z] = Z] = ms
      <3> HIDE DEF Q, Z
      <3> QED
        OBVIOUS
    <2> QED
      BY <2>1, <2>2, Zenon
  <1>2. /\ t \in Nat /\ t >= 2 /\ 2 * t <= Order /\ Order <= 2 * t + 1
        /\ Order \in Nat /\ Order >= 4
    BY Degree
  <1>3. P \in Node /\ C \in Node /\ P.num \in Nat /\ P.num < Order - 1 /\ n \in Nat
         /\ n <= P.num /\ C.leaf \in BOOLEAN /\ C.num = Order - 1 /\ ~P.leaf
         /\ z \in Nat
    <2>1. P \in Node /\ C \in Node
      OBVIOUS
    <2>2. P.num \in Nat /\ C.leaf \in BOOLEAN
      BY <2>1, NodeFacts
    <2> QED
      BY <2>1, <2>2 DEF Ids
  <1>4. /\ \A i \in 0..(Order - 1) : Child(P, i) \in Nat /\ Child(C, i) \in Nat
        /\ \A i \in 0..(Order - 1) : /\ Elem(P, i).ref \in Nat
                                     /\ Elem(P, i).key \in Nat
                                     /\ Elem(C, i).ref \in Nat
                                     /\ Elem(C, i).key \in Nat
    <2>1. ASSUME NEW i \in 0..(Order - 1)
          PROVE  /\ Elem(P, i).ref \in Nat /\ Elem(P, i).key \in Nat
                 /\ Elem(C, i).ref \in Nat /\ Elem(C, i).key \in Nat
      BY <1>3, ElemIn DEF Slots
    <2> QED
      BY <1>3, <2>1, NodeFacts
  <1>5. /\ \A i : Elem(C, i).key = Key(C, i) /\ Elem(P, i).key = Key(P, i)
        /\ C.leaf => \A i : Elem(C, i).ref = Child(C, i)
    BY DEF Elem, Key, Child
  <1> HIDE DEF P, C, t
  <1>6. /\ upper \in Node /\ upper.leaf = C.leaf
        /\ \A i \in 0..(Order - 1) : Key(upper, i) = IF i <= t - 2 THEN Key(C, t + i) ELSE 0
        /\ C.leaf => \A i \in 0..(t - 2) : Child(upper, i) = Child(C, t + i)
    <2>1. /\ NewNode(C.leaf) \in Node /\ NewNode(C.leaf).leaf = C.leaf
          /\ NewNode(C.leaf).num = 0
          /\ \A i \in 0..(Order - 1) : Key(NewNode(C.leaf), i) = 0
      BY <1>3, NewNodeIn, NewNodeKeys
    <2>2. /\ \A i \in DOMAIN ue : ue[i].ref \in Nat /\ ue[i].key \in Nat
          /\ DOMAIN ue = 0..(t - 2)
          /\ \A i \in 0..(t - 2) : ue[i].key = Key(C, t + i)
          /\ C.leaf => \A i \in 0..(t - 2) : ue[i].ref = Child(C, t + i)
      BY <1>2, <1>4, <1>5
    <2> HIDE DEF ue
    <2>3. upper \in Node /\ upper.leaf = C.leaf
      BY <2>1, <2>2, PutElemsIn
    <2>4. /\ \A i \in 0..(Order - 1) : Key(upper, i)
              = IF i \in DOMAIN ue THEN ue[i].key ELSE Key(NewNode(C.leaf), i)
          /\ C.leaf => \A i \in 0..(Order - 1) : Child(upper, i)
              = IF i \in DOMAIN ue THEN ue[i].ref ELSE Child(NewNode(C.leaf), i)
      BY <2>1, PutElemsKeys
    <2> HIDE DEF upper
    <2>5. \A i \in 0..(Order - 1) : i \in 0..(t - 2) <=> i <= t - 2
      BY <1>2
    <2>6. \A i \in 0..(t - 2) : i \in 0..(Order - 1)
      BY <1>2
    <2> QED
      BY <2>1, <2>2, <2>3, <2>4, <2>5, <2>6
  <1>7. /\ W \in Node
        /\ \A i \in 0..(Order - 1) : Key(W, i) = Key(upper, i)
        /\ C.leaf => \A i : Child(W, i) = Child(upper, i)
    <2> HIDE DEF upper
    <2>1. \A i \in DOMAIN uc : uc[i] \in Nat
      BY <1>2, <1>4
    <2> HIDE DEF uc
    <2>2. /\ PutChildren(upper, uc) \in Node
          /\ \A i \in 0..(Order - 1) : Key(PutChildren(upper, uc), i) = Key(upper, i)
      BY <1>6, <2>1, PutChildrenIn, PutChildrenKeys
    <2> QED
      BY <1>6, <2>2
  <1>8. /\ \A i \in 0..(Order - 1) : Key(Z, i) = IF i <= t - 2 THEN Key(C, t + i) ELSE 0
        /\ C.leaf => \A i \in 0..(t - 2) : Child(Z, i) = Child(C, t + i)
        /\ Z \in Node
    <2>1. t - 1 \in 0..(Order - 1)
      BY <1>2
    <2> HIDE DEF W, upper
    <2>2. Z \in Node /\ (\A i : Child(Z, i) = Child(W, i)) /\ (\A i : Key(Z, i) = Key(W, i))
      BY <1>7, <2>1, NumIn
    <2> HIDE DEF Z
    <2> QED
      BY <1>6, <1>7, <2>2
  <1>9. /\ kids \in Node
        /\ \A i \in 0..(Order - 1) : Key(kids, i) = Key(P, i)
    <2>1. \A i \in DOMAIN kc : kc[i] \in Nat
      BY <1>2, <1>3, <1>4
    <2> HIDE DEF kc
    <2> QED
      BY <1>3, <2>1, PutChildrenIn, PutChildrenKeys
  <1>10. /\ keys \in Node
         /\ \A i \in 0..(Order - 1) : Key(keys, i)
              = IF i = n THEN Key(C, t - 1)
                ELSE IF i > n /\ i <= P.num THEN Key(P, i - 1) ELSE Key(P, i)
    <2>1. /\ \A i \in DOMAIN ke : ke[i].ref \in Nat /\ ke[i].key \in Nat
          /\ DOMAIN ke = n..P.num
          /\ \A i \in n..P.num : ke[i].key = IF i = n THEN Key(C, t - 1) ELSE Key(P, i - 1)
      <3>1. ASSUME NEW i \in n..P.num
            PROVE  /\ ke[i] = IF i = n THEN Elem(C, t - 1) ELSE Elem(P, i - 1)
                   /\ t - 1 \in 0..(Order - 1)
                   /\ i = n \/ i - 1 \in 0..(Order - 1)
        BY <1>2, <1>3
      <3>2. DOMAIN ke = n..P.num
        OBVIOUS
      <3> HIDE DEF ke
      <3> QED
        BY <1>4, <1>5, <3>1, <3>2
    <2> HIDE DEF ke, kids
    <2>2. keys \in Node
      BY <1>9, <2>1, PutElemsIn
    <2>3. \A i \in 0..(Order - 1) : Key(keys, i)
              = IF i \in DOMAIN ke THEN ke[i].key ELSE Key(kids, i)
      BY <1>9, PutElemsKeys
    <2> HIDE DEF keys
    <2>4. ASSUME NEW i \in 0..(Order - 1)
          PROVE  Key(keys, i) = IF i = n THEN Key(C, t - 1)
                   ELSE IF i > n /\ i <= P.num THEN Key(P, i - 1) ELSE Key(P, i)
      <3>1. i \in DOMAIN ke <=> i >= n /\ i <= P.num
        BY <1>2, <1>3, <2>1
      <3>2. CASE i >= n /\ i <= P.num
        <4>1. i \in n..P.num
          BY <1>2, <1>3, <3>2
        <4>2. Key(keys, i) = ke[i].key
          BY <2>3, <3>1, <3>2
        <4>3. i = n \/ (i # n /\ i > n)
          BY <1>2, <1>3, <3>2
        <4> QED
          BY <2>1, <3>2, <4>1, <4>2, <4>3
      <3>3. CASE ~ (i >= n /\ i <= P.num)
        <4>1. Key(keys, i) = Key(P, i)
          BY <1>9, <2>3, <3>1, <3>3
        <4>2. i # n /\ ~ (i > n /\ i <= P.num)
          BY <1>2, <1>3, <3>3
        <4> QED
          BY <4>1, <4>2
      <3> QED
        BY <3>2, <3>3
    <2> QED
      BY <2>2, <2>4
  <1>11. /\ Q \in Node /\ \A i : Key(Q, i) = Key(keys, i)
    <2>1. P.num + 1 \in 0..(Order - 1)
      BY <1>2, <1>3
    <2> HIDE DEF keys
    <2> QED
      BY <1>10, <2>1, NumIn
  <1>12. /\ D \in Node /\ D.num = Kept(C)
         /\ \A i : Key(D, i) = Key(C, i)
    <2>1. Kept(C) \in {t - 1, t} /\ Kept(C) \in 0..(Order - 1)
      BY <1>2 DEF Kept, t
    <2> QED
      BY <1>3, <2>1, NumIn
  <1> HIDE DEF Q, D, Z, keys
  <1>13. ms \in [Ids -> Node] /\ ms[p] = Q /\ ms[c] = D /\ ms[z] = Z
    BY <1>8, <1>11, <1>12
  <1> HIDE DEF ms
  <1>14. \A b \in Ids : Alike(S[b], ms[b])
    BY <1>1, <1>13, LinkBehindIn
  <1> HIDE DEF S
  <1>15. Alike(S[p], Q) /\ Alike(S[c], D) /\ Alike(S[z], Z)
    BY <1>13, <1>14
  <1>16. /\ \A i : Key(S[p], i) = Key(Q, i)
         /\ S[c].num = D.num
         /\ \A i : Key(S[c], i) = Key(D, i)
         /\ \A i : Key(S[z], i) = Key(Z, i) /\ Child(S[z], i) = Child(Z, i)
    BY <1>15 DEF Alike, Child, Key
  <1>17. \A i \in 0..(Order - 1) : Key(S[p], i)
           = IF i = n THEN Key(C, t - 1)
             ELSE IF i > n /\ i <= P.num THEN Key(P, i - 1) ELSE Key(P, i)
    BY <1>10, <1>11, <1>16
  <1>18. /\ S[c].num = Kept(C)
         /\ \A i : Key(S[c], i) = Key(C, i)
         /\ \A i \in 0..(Order - 1) : Key(S[z], i) = IF i <= t - 2 THEN Key(C, t + i) ELSE 0
         /\ C.leaf => \A i \in 0..(t - 2) : Child(S[z], i) = Child(C, t + i)
    BY <1>8, <1>12, <1>16
  <1> QED
    BY <1>17, <1>18 DEF IsHalf, S, P, C, t

-----------------------------------------------------------------------------
(* A tree that only grows.                                                 *)

(* Of the keys X that may be below x, those that may be below child i.     *)
Cut(x, X, i) ==
  {k \in X : /\ \A j \in 0..(i - 1) : Key(x, j) <= k
             /\ \A j \in i..(x.num - 1) : k <= Key(x, j)}

(* x has keys out of X in order, those of a leaf with the places of their  *)
(* rows, and every slot has or had the key of a row.                       *)
Sound(x, X, rs) ==
  /\ Ordered(x)
  /\ \A i \in 0..(x.num - 1) : Key(x, i) \in X
  /\ x.leaf => \A i \in 0..(x.num - 1) :
       Child(x, i) \in rs /\ KeyOf[Child(x, i)] = Key(x, i)
  /\ \A i \in 0..(Order - 1) :
       Key(x, i) = 0 \/ \E r \in rs : KeyOf[r] = Key(x, i)

(* The keys of an inner node cut the keys below it among its children.     *)
Apart(x, X, K) ==
  ~x.leaf => \A i \in 0..x.num : K[Child(x, i)] = Cut(x, X, i)

IsKid(ns, p, i, b) ==
  ~ns[p].leaf /\ i \in 0..ns[p].num /\ Child(ns[p], i) = b

(* Every block but the root is the child of one block, once.               *)
Linked(ns, u, tp) ==
  /\ \A b \in 1..u : b # tp => \E p \in 1..u, i \in Nat : IsKid(ns, p, i, b)
  /\ \A p, q \in 1..u, i, j \in Nat, b \in 1..u :
       IsKid(ns, p, i, b) /\ IsKid(ns, q, j, b) => p = q /\ i = j

Holds(x, r) ==
  x.leaf /\ \E i \in 0..(x.num - 1) : Child(x, i) = r

(* The blocks 1..u are a search tree below tp whose leaves lead to rs.     *)
(* K[b] are the keys that insert_non_full() brings to block b.             *)
Grown(ns, u, tp, K, rs) ==
  /\ K \in [Ids -> SUBSET Nat]
  /\ IF tp = None THEN u = 0 ELSE tp \in 1..u /\ K[tp] = Nat
  /\ \A b \in Ids \ (1..u) : ns[b].leaf
  /\ \A b \in 1..u : Sound(ns[b], K[b], rs) /\ Apart(ns[b], K[b], K)
  /\ Linked(ns, u, tp)
  /\ \A r \in rs : \E b \in 1..u : Holds(ns[b], r)

LEMMA SoundAlike ==
  ASSUME NEW x, NEW y, Alike(y, x), NEW X, NEW K, NEW rs
  PROVE  /\ Sound(x, X, rs) => Sound(y, X, rs)
         /\ Apart(x, X, K) => Apart(y, X, K)
         /\ \A r : Holds(x, r) => Holds(y, r)
  <1>1. /\ \A i : Key(y, i) = Key(x, i) /\ Child(y, i) = Child(x, i)
        /\ y.num = x.num /\ y.leaf = x.leaf
    BY DEF Alike, Key, Child
  <1>2. \A i : Cut(y, X, i) = Cut(x, X, i)
    BY <1>1 DEF Cut
  <1>3. Ordered(x) => Ordered(y)
    BY <1>1 DEF Ordered
  <1> QED
    BY <1>1, <1>2, <1>3 DEF Sound, Apart, Holds

(* A key s goes between the keys of x at n.                                *)
Wedged(y, x, n, s) ==
  /\ y.num = x.num + 1
  /\ \A i \in 0..x.num : Key(y, i)
       = IF i = n THEN s ELSE IF i > n THEN Key(x, i - 1) ELSE Key(x, i)

(* The keys of x at n leave room for s.                                    *)
Room(x, n, s) ==
  /\ \A j \in 0..(n - 1) : Key(x, j) <= s
  /\ \A j \in n..(x.num - 1) : s <= Key(x, j)

LEMMA WedgedOrdered ==
  ASSUME NEW x \in Node, NEW y \in Node, NEW n \in 0..x.num, NEW s \in Nat,
         Wedged(y, x, n, s), Room(x, n, s), Ordered(x)
  PROVE  Ordered(y)
  <1>1. /\ x.num \in Nat /\ n \in Nat /\ n <= x.num /\ y.num = x.num + 1
        /\ \A i \in 0..x.num : Key(x, i) \in Nat
    BY NodeFacts DEF Wedged
  <1>2. ASSUME NEW i \in 0..x.num
        PROVE  /\ i = n => Key(y, i) = s
               /\ i > n => Key(y, i) = Key(x, i - 1)
               /\ i < n => Key(y, i) = Key(x, i)
    BY <1>1 DEF Wedged
  <1>3. ASSUME NEW i \in 0..(y.num - 1), NEW j \in 0..(y.num - 1), i < j
        PROVE  Key(y, i) <= Key(y, j)
    <2>1. i \in 0..x.num /\ j \in 0..x.num
      BY <1>1
    <2>2. CASE j < n
      <3>1. i \in 0..(x.num - 1) /\ j \in 0..(x.num - 1) /\ i < n
        BY <1>1, <1>3, <2>1, <2>2
      <3> QED
        BY <1>2, <1>3, <2>1, <2>2, <3>1 DEF Ordered
    <2>3. CASE j = n
      <3>1. i \in 0..(n - 1) /\ i < n
        BY <1>1, <1>3, <2>1, <2>3
      <3> QED
        BY <1>2, <2>1, <2>3, <3>1 DEF Room
    <2>4. CASE j > n /\ i < n
      <3>1. i \in 0..(n - 1) /\ j - 1 \in n..(x.num - 1) /\ i \in 0..x.num /\ j - 1 \in 0..x.num
        BY <1>1, <2>1, <2>4
      <3>2. Key(x, i) <= s /\ s <= Key(x, j - 1)
        BY <3>1 DEF Room
      <3>3. Key(x, i) \in Nat /\ Key(x, j - 1) \in Nat
        BY <1>1, <3>1
      <3> QED
        BY <1>2, <2>1, <2>4, <3>2, <3>3
    <2>5. CASE i = n
      <3>1. j - 1 \in n..(x.num - 1) /\ j > n
        BY <1>1, <1>3, <2>1, <2>5
      <3> QED
        BY <1>2, <2>1, <2>5, <3>1 DEF Room
    <2>6. CASE i > n
      <3>1. i - 1 \in 0..(x.num - 1) /\ j - 1 \in 0..(x.num - 1) /\ i - 1 < j - 1 /\ j > n
        BY <1>1, <1>3, <2>1, <2>6
      <3> QED
        BY <1>2, <2>1, <2>6, <3>1 DEF Ordered
    <2> QED
      BY <1>1, <2>1, <2>2, <2>3, <2>4, <2>5, <2>6
  <1> QED
    BY <1>3 DEF Ordered

(* How the keys are cut with s between the others.                         *)
LEMMA WedgedCut ==
  ASSUME NEW x \in Node, NEW y \in Node, NEW n \in 0..x.num, NEW s \in Nat,
         Wedged(y, x, n, s), Room(x, n, s), NEW X \in SUBSET Nat
  PROVE  /\ \A i \in 0..(n - 1) : Cut(y, X, i) = Cut(x, X, i)
         /\ Cut(y, X, n) = {k \in Cut(x, X, n) : k <= s}
         /\ Cut(y, X, n + 1) = {k \in Cut(x, X, n) : s <= k}
         /\ \A i \in (n + 2)..(x.num + 1) : Cut(y, X, i) = Cut(x, X, i - 1)
  <1>1. /\ x.num \in Nat /\ n \in Nat /\ n <= x.num /\ y.num = x.num + 1
        /\ \A i \in 0..x.num : Key(x, i) \in Nat
    BY NodeFacts DEF Wedged
  <1>2. ASSUME NEW i \in 0..x.num
        PROVE  /\ i = n => Key(y, i) = s
               /\ i > n => Key(y, i) = Key(x, i - 1)
               /\ i < n => Key(y, i) = Key(x, i)
    BY <1>1 DEF Wedged
  <1>3. /\ \A i \in 0..(n - 1) : i \in 0..x.num /\ i < n /\ Key(y, i) = Key(x, i)
        /\ n \in 0..x.num /\ Key(y, n) = s
        /\ \A i \in (n + 1)..x.num : i \in 0..x.num /\ i - 1 \in n..(x.num - 1) /\ Key(y, i) = Key(x, i - 1)
        /\ \A i \in n..(x.num - 1) : i + 1 \in (n + 1)..x.num /\ Key(y, i + 1) = Key(x, i)
    <2>1. \A i \in 0..(n - 1) : i \in 0..x.num /\ i < n
      BY <1>1
    <2>2. \A i \in (n + 1)..x.num : i \in 0..x.num /\ i - 1 \in n..(x.num - 1) /\ i > n
      BY <1>1
    <2>3. \A i \in n..(x.num - 1) : i + 1 \in (n + 1)..x.num /\ (i + 1) - 1 = i
      BY <1>1
    <2>4. n \in 0..x.num
      BY <1>1
    <2> QED
      BY <1>2, <2>1, <2>2, <2>3, <2>4
  (* Which keys are below and above k.                                     *)
  <1>4. ASSUME NEW k \in Nat, NEW i \in 0..n
        PROVE  (\A j \in 0..(i - 1) : Key(y, j) <= k) <=> (\A j \in 0..(i - 1) : Key(x, j) <= k)
    <2>1. \A j \in 0..(i - 1) : j \in 0..(n - 1)
      BY <1>1
    <2> QED
      BY <1>3, <2>1
  <1>5. ASSUME NEW k \in Nat, NEW i \in (n + 1)..(x.num + 1)
        PROVE  (\A j \in i..(y.num - 1) : k <= Key(y, j)) <=> (\A j \in (i - 1)..(x.num - 1) : k <= Key(x, j))
    <2>1. \A j \in i..(y.num - 1) : j \in (n + 1)..x.num /\ j - 1 \in (i - 1)..(x.num - 1)
      BY <1>1
    <2>2. \A j \in (i - 1)..(x.num - 1) : j \in n..(x.num - 1) /\ j + 1 \in i..(y.num - 1)
      BY <1>1
    <2> QED
      BY <1>3, <2>1, <2>2
  <1>6. ASSUME NEW k \in Nat, NEW i \in 0..n
        PROVE  (\A j \in i..(y.num - 1) : k <= Key(y, j))
                 <=> k <= s /\ (\A j \in i..(x.num - 1) : k <= Key(x, j))
    <2>1. ASSUME \A j \in i..(y.num - 1) : k <= Key(y, j)
          PROVE  k <= s /\ (\A j \in i..(x.num - 1) : k <= Key(x, j))
      <3>1. n \in i..(y.num - 1)
        BY <1>1
      <3>2. ASSUME NEW j \in i..(x.num - 1)
            PROVE  k <= Key(x, j)
        <4>1. CASE j < n
          <5>1. j \in 0..(n - 1) /\ j \in i..(y.num - 1)
            BY <1>1, <4>1
          <5> QED
            BY <1>3, <2>1, <5>1
        <4>2. CASE j >= n
          <5>1. j \in n..(x.num - 1) /\ j + 1 \in i..(y.num - 1)
            BY <1>1, <4>2
          <5> QED
            BY <1>3, <2>1, <5>1
        <4> QED
          BY <1>1, <4>1, <4>2
      <3> QED
        BY <1>3, <2>1, <3>1, <3>2
    <2>2. ASSUME k <= s, \A j \in i..(x.num - 1) : k <= Key(x, j), NEW j \in i..(y.num - 1)
          PROVE  k <= Key(y, j)
      <3>1. CASE j < n
        <4>1. j \in 0..(n - 1) /\ j \in i..(x.num - 1)
          BY <1>1, <3>1
        <4> QED
          BY <1>3, <2>2, <4>1
      <3>2. CASE j = n
        BY <1>3, <2>2, <3>2
      <3>3. CASE j > n
        <4>1. j \in (n + 1)..x.num /\ j - 1 \in i..(x.num - 1)
          BY <1>1, <3>3
        <4> QED
          BY <1>3, <2>2, <4>1
      <3> QED
        BY <1>1, <3>1, <3>2, <3>3
    <2> QED
      BY <2>1, <2>2
  <1>7. ASSUME NEW k \in Nat, NEW i \in (n + 1)..(x.num + 1)
        PROVE  (\A j \in 0..(i - 1) : Key(y, j) <= k)
                 <=> s <= k /\ (\A j \in 0..(i - 2) : Key(x, j) <= k)
    <2>1. ASSUME \A j \in 0..(i - 1) : Key(y, j) <= k
          PROVE  s <= k /\ (\A j \in 0..(i - 2) : Key(x, j) <= k)
      <3>1. n \in 0..(i - 1)
        BY <1>1
      <3>2. ASSUME NEW j \in 0..(i - 2)
            PROVE  Key(x, j) <= k
        <4>1. CASE j < n
          <5>1. j \in 0..(n - 1) /\ j \in 0..(i - 1)
            BY <1>1, <4>1
          <5> QED
            BY <1>3, <2>1, <5>1
        <4>2. CASE j >= n
          <5>1. j \in n..(x.num - 1) /\ j + 1 \in 0..(i - 1)
            BY <1>1, <4>2
          <5> QED
            BY <1>3, <2>1, <5>1
        <4> QED
          BY <1>1, <4>1, <4>2
      <3> QED
        BY <1>3, <2>1, <3>1, <3>2
    <2>2. ASSUME s <= k, \A j \in 0..(i - 2) : Key(x, j) <= k, NEW j \in 0..(i - 1)
          PROVE  Key(y, j) <= k
      <3>1. CASE j < n
        <4>1. j \in 0..(n - 1) /\ j \in 0..(i - 2)
          BY <1>1, <3>1
        <4> QED
          BY <1>3, <2>2, <4>1
      <3>2. CASE j = n
        BY <1>3, <2>2, <3>2
      <3>3. CASE j > n
        <4>1. j \in (n + 1)..x.num /\ j - 1 \in 0..(i - 2)
          BY <1>1, <3>3
        <4> QED
          BY <1>3, <2>2, <4>1
      <3> QED
        BY <1>1, <3>1, <3>2, <3>3
    <2> QED
      BY <2>1, <2>2
  <1>8. ASSUME NEW i \in 0..(n - 1)
        PROVE  Cut(y, X, i) = Cut(x, X, i)
    <2>1. i \in 0..n /\ n - 1 \in i..(x.num - 1) /\ n - 1 \in 0..(n - 1) /\ n - 1 \in 0..x.num
      BY <1>1
    <2>2. ASSUME NEW k \in Nat, \A j \in i..(x.num - 1) : k <= Key(x, j)
          PROVE  k <= s
      <3>1. k <= Key(x, n - 1) /\ Key(x, n - 1) <= s
        BY <2>1, <2>2 DEF Room
      <3>2. Key(x, n - 1) \in Nat
        BY <1>1, <2>1
      <3> QED
        BY <3>1, <3>2
    <2>3. \A k \in X : k \in Nat
      OBVIOUS
    <2>4. ASSUME NEW k \in X
          PROVE  k \in Cut(y, X, i) <=> k \in Cut(x, X, i)
      BY <1>4, <1>6, <2>1, <2>2, <2>3 DEF Cut
    <2> QED
      BY <2>4 DEF Cut
  <1>9. Cut(y, X, n) = {k \in Cut(x, X, n) : k <= s}
    <2>1. n \in 0..n
      BY <1>1
    <2>2. \A k \in X : k \in Nat
      OBVIOUS
    <2>3. ASSUME NEW k \in X
          PROVE  k \in Cut(y, X, n) <=> k \in Cut(x, X, n) /\ k <= s
      BY <1>4, <1>6, <2>1, <2>2 DEF Cut
    <2> QED
      BY <2>3 DEF Cut
  <1>10. Cut(y, X, n + 1) = {k \in Cut(x, X, n) : s <= k}
    <2>1. n + 1 \in (n + 1)..(x.num + 1) /\ (n + 1) - 1 = n /\ (n + 1) - 2 = n - 1
      BY <1>1
    <2>2. \A k \in X : k \in Nat
      OBVIOUS
    <2>3. ASSUME NEW k \in X
          PROVE  k \in Cut(y, X, n + 1) <=> k \in Cut(x, X, n) /\ s <= k
      <3>1. (\A j \in (n + 1)..(y.num - 1) : k <= Key(y, j)) <=> (\A j \in n..(x.num - 1) : k <= Key(x, j))
        BY <1>5, <2>1, <2>2
      <3>2. (\A j \in 0..n : Key(y, j) <= k) <=> s <= k /\ (\A j \in 0..(n - 1) : Key(x, j) <= k)
        BY <1>7, <2>1, <2>2
      <3> QED
        BY <2>1, <3>1, <3>2 DEF Cut
    <2> QED
      BY <2>3 DEF Cut
  <1>11. ASSUME NEW i \in (n + 2)..(x.num + 1)
         PROVE  Cut(y, X, i) = Cut(x, X, i - 1)
    <2>1. /\ i \in (n + 1)..(x.num + 1) /\ (i - 1) - 1 = i - 2
          /\ n \in 0..(i - 2) /\ n \in n..(x.num - 1) /\ n \in 0..x.num
      BY <1>1
    <2>2. ASSUME NEW k \in Nat, \A j \in 0..(i - 2) : Key(x, j) <= k
          PROVE  s <= k
      <3>1. Key(x, n) <= k /\ s <= Key(x, n)
        BY <2>1, <2>2 DEF Room
      <3>2. Key(x, n) \in Nat
        BY <1>1, <2>1
      <3> QED
        BY <3>1, <3>2
    <2>3. \A k \in X : k \in Nat
      OBVIOUS
    <2>4. ASSUME NEW k \in X
          PROVE  k \in Cut(y, X, i) <=> k \in Cut(x, X, i - 1)
      <3>1. (\A j \in i..(y.num - 1) : k <= Key(y, j)) <=> (\A j \in (i - 1)..(x.num - 1) : k <= Key(x, j))
        BY <1>5, <2>1, <2>3
      <3>2. (\A j \in 0..(i - 1) : Key(y, j) <= k) <=> (\A j \in 0..(i - 2) : Key(x, j) <= k)
        BY <1>7, <2>1, <2>2, <2>3
      <3> QED
        BY <2>1, <3>1, <3>2 DEF Cut
    <2> QED
      BY <2>4 DEF Cut
  <1> QED
    BY <1>8, <1>9, <1>10, <1>11

(* The lower half of an inner node.                                        *)
LEMMA LowerCut ==
  ASSUME NEW x \in Node, NEW y \in Node, NEW m \in Nat, m < x.num, y.num = m,
         \A i : Key(y, i) = Key(x, i), Ordered(x), NEW X \in SUBSET Nat,
         NEW i \in 0..m
  PROVE  Cut(y, {k \in X : k <= Key(x, m)}, i) = Cut(x, X, i)
  <1>1. x.num \in Nat /\ \A j \in 0..x.num : Key(x, j) \in Nat
    BY NodeFacts
  <1>2. /\ m \in 0..(x.num - 1) /\ m \in i..(x.num - 1) /\ m \in 0..x.num
        /\ \A j \in i..(y.num - 1) : j \in i..(x.num - 1)
        /\ \A j \in i..(x.num - 1) : j \in i..(y.num - 1) \/ (j >= m /\ j \in 0..(x.num - 1) /\ j \in 0..x.num)
    BY <1>1
  <1>3. ASSUME NEW k \in X
        PROVE  k \in Cut(y, {l \in X : l <= Key(x, m)}, i) <=> k \in Cut(x, X, i)
    <2>1. k \in Nat
      OBVIOUS
    <2>2. ASSUME k <= Key(x, m), \A j \in i..(y.num - 1) : k <= Key(x, j),
                 NEW j \in i..(x.num - 1)
          PROVE  k <= Key(x, j)
      <3>1. CASE j \in i..(y.num - 1)
        BY <2>2, <3>1
      <3>2. CASE j >= m /\ j \in 0..(x.num - 1) /\ j \in 0..x.num
        <4>1. j = m \/ m < j
          BY <3>2
        <4>2. Key(x, j) \in Nat /\ Key(x, m) \in Nat
          BY <1>1, <1>2, <3>2
        <4>3. j = m \/ Key(x, m) <= Key(x, j)
          BY <1>2, <3>2, <4>1 DEF Ordered
        <4> QED
          BY <2>1, <2>2, <4>2, <4>3
      <3> QED
        BY <1>2, <3>1, <3>2
    <2> QED
      BY <1>2, <2>2 DEF Cut
  <1> QED
    BY <1>3 DEF Cut

(* The upper half.                                                         *)
LEMMA UpperCut ==
  ASSUME NEW x \in Node, NEW y \in Node, NEW m \in Nat \ {0}, m + y.num = x.num,
         \A i \in 0..(y.num - 1) : Key(y, i) = Key(x, m + i),
         Ordered(x), NEW X \in SUBSET Nat,
         NEW i \in 0..y.num
  PROVE  Cut(y, {k \in X : Key(x, m - 1) <= k}, i) = Cut(x, X, m + i)
  <1>1. x.num \in Nat /\ y.num \in Nat /\ \A j \in 0..x.num : Key(x, j) \in Nat
    BY NodeFacts
  <1>2. /\ m - 1 \in 0..(m + i - 1) /\ m - 1 \in 0..x.num /\ m - 1 \in 0..(x.num - 1)
        /\ \A j \in 0..(i - 1) : j \in 0..(y.num - 1) /\ m + j \in 0..(m + i - 1)
        /\ \A j \in i..(y.num - 1) : j \in 0..(y.num - 1) /\ m + j \in (m + i)..(x.num - 1)
        /\ \A j \in 0..(m + i - 1) : \/ j - m \in 0..(i - 1) /\ m + (j - m) = j /\ j - m \in 0..(y.num - 1)
                                     \/ j <= m - 1 /\ j \in 0..(x.num - 1) /\ j \in 0..x.num
        /\ \A j \in (m + i)..(x.num - 1) : j - m \in i..(y.num - 1) /\ m + (j - m) = j /\ j - m \in 0..(y.num - 1)
    BY <1>1
  <1>3. ASSUME NEW k \in X
        PROVE  k \in Cut(y, {l \in X : Key(x, m - 1) <= l}, i) <=> k \in Cut(x, X, m + i)
    <2>1. k \in Nat
      OBVIOUS
    <2>2. ASSUME Key(x, m - 1) <= k, \A j \in 0..(i - 1) : Key(y, j) <= k,
                 NEW j \in 0..(m + i - 1)
          PROVE  Key(x, j) <= k
      <3>1. CASE j - m \in 0..(i - 1) /\ m + (j - m) = j /\ j - m \in 0..(y.num - 1)
        BY <2>2, <3>1
      <3>2. CASE j <= m - 1 /\ j \in 0..(x.num - 1) /\ j \in 0..x.num
        <4>1. j = m - 1 \/ j < m - 1
          BY <3>2
        <4>2. Key(x, j) \in Nat /\ Key(x, m - 1) \in Nat
          BY <1>1, <1>2, <3>2
        <4>3. j = m - 1 \/ Key(x, j) <= Key(x, m - 1)
          BY <1>2, <3>2, <4>1 DEF Ordered
        <4> QED
          BY <2>1, <2>2, <4>2, <4>3
      <3> QED
        BY <1>2, <3>1, <3>2
    <2>3. ASSUME \A j \in i..(y.num - 1) : k <= Key(y, j), NEW j \in (m + i)..(x.num - 1)
          PROVE  k <= Key(x, j)
      BY <1>2, <2>3
    <2>4. ASSUME k \in Cut(x, X, m + i)
          PROVE  k \in Cut(y, {l \in X : Key(x, m - 1) <= l}, i)
      <3>1. ASSUME NEW j \in 0..(i - 1)
            PROVE  Key(y, j) <= k
        BY <1>2, <2>4, <3>1 DEF Cut
      <3>2. ASSUME NEW j \in i..(y.num - 1)
            PROVE  k <= Key(y, j)
        BY <1>2, <2>4, <3>2 DEF Cut
      <3>3. Key(x, m - 1) <= k
        BY <1>2, <2>4 DEF Cut
      <3> QED
        BY <3>1, <3>2, <3>3 DEF Cut
    <2>5. ASSUME k \in Cut(y, {l \in X : Key(x, m - 1) <= l}, i)
          PROVE  k \in Cut(x, X, m + i)
      BY <2>2, <2>3, <2>5 DEF Cut
    <2> QED
      BY <2>4, <2>5
  <1> QED
    BY <1>3 DEF Cut

-----------------------------------------------------------------------------
(* split_child() keeps the search tree.                                    *)

(* Block c, child n of p, is full and is split in an index of even order.  *)
Cleaves(S, ns, u, p, n, c) ==
  /\ ns \in [Ids -> Node] /\ S \in [Ids -> Node]
  /\ u \in Nat /\ u + 1 \in Ids /\ 1..u \subseteq Ids
  /\ p \in 1..u /\ c \in 1..u /\ p # c /\ ~ns[p].leaf
  /\ n \in 0..ns[p].num /\ ns[p].num < Order - 1
  /\ c = Child(ns[p], n) /\ ns[c].num = Order - 1
  /\ Order = 2 * MinDegree
  /\ IsSplit(S, ns, p, n, c, u + 1)
  /\ IsHalf(S, ns, p, n, c, u + 1)
  /\ \A b \in 1..u : ~ns[b].leaf =>
       \A i \in 0..ns[b].num : Child(ns[b], i) \in 1..u

(* The keys that insert_non_full() brings to the halves.                   *)
Halving(K, c, z, s) ==
  [K EXCEPT ![c] = {k \in K[c] : k <= s}, ![z] = {k \in K[c] : s <= k}]

LEMMA CleaveFacts ==
  ASSUME NEW S, NEW ns, NEW u, NEW p, NEW n, NEW c, Cleaves(S, ns, u, p, n, c)
  PROVE  /\ ns[p] \in Node /\ ns[c] \in Node
         /\ S[p] \in Node /\ S[c] \in Node /\ S[u + 1] \in Node
         /\ p \in Ids /\ c \in Ids /\ u + 1 \in Ids
         /\ u \in Nat /\ u + 1 \notin 1..u /\ 1..(u + 1) = 1..u \union {u + 1}
         /\ MinDegree \in Nat /\ MinDegree >= 2 /\ Order = 2 * MinDegree
         /\ ns[c].num = 2 * MinDegree - 1
         /\ ns[p].num \in Nat /\ n \in Nat /\ n <= ns[p].num
         /\ ns[p].num < Order - 1
         /\ S[p].num = ns[p].num + 1
  <1>1. /\ ns \in [Ids -> Node] /\ S \in [Ids -> Node]
        /\ u \in Nat /\ u + 1 \in Ids /\ p \in Ids /\ c \in Ids
        /\ n \in 0..ns[p].num /\ ns[p].num < Order - 1
        /\ ns[c].num = Order - 1 /\ Order = 2 * MinDegree
        /\ S[p].num = ns[p].num + 1
    BY DEF Cleaves, IsSplit
  <1>2. MinDegree \in Nat /\ MinDegree >= 2
    BY Degree
  <1>3. /\ ns[p] \in Node /\ ns[c] \in Node
        /\ S[p] \in Node /\ S[c] \in Node /\ S[u + 1] \in Node
    BY <1>1
  <1>4. ns[p].num \in Nat
    BY <1>3, NodeFacts
  <1>5. u + 1 \notin 1..u /\ 1..(u + 1) = 1..u \union {u + 1}
    BY <1>1
  <1>6. n \in Nat /\ n <= ns[p].num /\ ns[c].num = 2 * MinDegree - 1
    BY <1>1, <1>2, <1>4
  <1> QED
    BY <1>1, <1>2, <1>3, <1>4, <1>5, <1>6

(* The key in the middle fits between those of p.                          *)
LEMMA SplitRoom ==
  ASSUME NEW S, NEW ns, NEW u, NEW p, NEW n, NEW c, Cleaves(S, ns, u, p, n, c),
         NEW tp, NEW K, NEW rs, Grown(ns, u, tp, K, rs),
         NEW s, s = Key(ns[c], MinDegree - 1)
  PROVE  /\ s \in Nat /\ s \in K[c] /\ K[c] = Cut(ns[p], K[p], n)
         /\ Room(ns[p], n, s) /\ Wedged(S[p], ns[p], n, s)
  <1>1. MinDegree - 1 \in 0..(ns[c].num - 1) /\ MinDegree - 1 \in 0..(Order - 1)
    BY CleaveFacts
  <1>2. s \in Nat
    BY <1>1, CleaveFacts, NodeFacts
  <1>3. Sound(ns[c], K[c], rs) /\ Apart(ns[p], K[p], K)
    BY DEF Grown, Cleaves
  <1>4. s \in K[c]
    BY <1>1, <1>3 DEF Sound
  <1>5. K[c] = Cut(ns[p], K[p], n)
    BY <1>3 DEF Apart, Cleaves
  <1>6. Room(ns[p], n, s)
    BY <1>4, <1>5 DEF Cut, Room
  <1>7. \A i \in 0..ns[p].num : i \in 0..(Order - 1) /\ i <= ns[p].num
    BY CleaveFacts
  <1>8. \A i \in 0..(Order - 1) : Key(S[p], i)
          = IF i = n THEN s
            ELSE IF i > n /\ i <= ns[p].num THEN Key(ns[p], i - 1) ELSE Key(ns[p], i)
    BY DEF Cleaves, IsHalf
  <1>9. Wedged(S[p], ns[p], n, s)
    BY <1>7, <1>8, CleaveFacts DEF Wedged
  <1> QED
    BY <1>2, <1>4, <1>5, <1>6, <1>9

LEMMA SplitSoundParent ==
  ASSUME NEW S, NEW ns, NEW u, NEW p, NEW n, NEW c, Cleaves(S, ns, u, p, n, c),
         NEW tp, NEW K, NEW rs, Grown(ns, u, tp, K, rs)
  PROVE  Sound(S[p], K[p], rs)
  <1> DEFINE s == Key(ns[c], MinDegree - 1)
  <1>1. /\ s \in Nat /\ s \in K[c] /\ K[c] = Cut(ns[p], K[p], n)
        /\ Room(ns[p], n, s) /\ Wedged(S[p], ns[p], n, s)
    BY SplitRoom
  <1>2. MinDegree - 1 \in 0..(Order - 1)
    BY CleaveFacts
  <1>3. Sound(ns[c], K[c], rs) /\ Sound(ns[p], K[p], rs)
    BY DEF Grown, Cleaves
  <1>4. s = 0 \/ \E r \in rs : KeyOf[r] = s
    BY <1>2, <1>3 DEF Sound
  <1>5. \A i \in 0..(Order - 1) : Key(S[p], i)
          = IF i = n THEN s
            ELSE IF i > n /\ i <= ns[p].num THEN Key(ns[p], i - 1) ELSE Key(ns[p], i)
    BY DEF Cleaves, IsHalf
  <1> HIDE DEF s
  <1>6. Ordered(S[p])
    BY <1>1, <1>3, CleaveFacts, WedgedOrdered DEF Sound
  <1>7. ~S[p].leaf
    BY DEF Cleaves, IsSplit
  <1>8. ASSUME NEW i \in 0..(S[p].num - 1)
        PROVE  Key(S[p], i) \in K[p]
    <2>1. i \in 0..(Order - 1) /\ i <= ns[p].num
      BY CleaveFacts
    <2>2. CASE i = n
      BY <1>1, <1>5, <2>1, <2>2 DEF Cut
    <2>3. CASE i # n /\ i > n
      <3>1. i - 1 \in 0..(ns[p].num - 1)
        BY <2>1, <2>3, CleaveFacts
      <3> QED
        BY <1>3, <1>5, <2>1, <2>3, <3>1 DEF Sound
    <2>4. CASE i # n /\ ~ (i > n)
      <3>1. i \in 0..(ns[p].num - 1)
        BY <2>1, <2>4, CleaveFacts
      <3> QED
        BY <1>3, <1>5, <2>1, <2>4, <3>1 DEF Sound
    <2> QED
      BY <2>2, <2>3, <2>4
  <1>9. ASSUME NEW i \in 0..(Order - 1)
        PROVE  Key(S[p], i) = 0 \/ \E r \in rs : KeyOf[r] = Key(S[p], i)
    <2>1. i > n => i - 1 \in 0..(Order - 1)
      BY CleaveFacts
    <2> QED
      BY <1>3, <1>4, <1>5, <2>1 DEF Sound
  <1> QED
    BY <1>6, <1>7, <1>8, <1>9 DEF Sound

LEMMA SplitSoundHalves ==
  ASSUME NEW S, NEW ns, NEW u, NEW p, NEW n, NEW c, Cleaves(S, ns, u, p, n, c),
         NEW tp, NEW K, NEW rs, Grown(ns, u, tp, K, rs),
         NEW s, s = Key(ns[c], MinDegree - 1),
         NEW L, L = Halving(K, c, u + 1, s)
  PROVE  Sound(S[c], L[c], rs) /\ Sound(S[u + 1], L[u + 1], rs)
  <1> DEFINE C == ns[c]
             t == MinDegree
             z == u + 1
  <1>1. /\ C \in Node /\ t \in Nat /\ t >= 2 /\ Order = 2 * t /\ C.num = 2 * t - 1
    BY CleaveFacts
  <1>2. Sound(C, K[c], rs)
    BY DEF Grown, Cleaves
  <1>3. /\ S[c].leaf = C.leaf /\ S[c].num \in {t - 1, t}
        /\ \A i : Child(S[c], i) = Child(C, i)
        /\ \A i : Key(S[c], i) = Key(C, i)
        /\ S[z].leaf = C.leaf /\ S[z].num = t - 1
        /\ \A i \in 0..(Order - 1) : Key(S[z], i)
             = IF i <= t - 2 THEN Key(C, t + i) ELSE 0
        /\ C.leaf => \A i \in 0..(t - 2) : Child(S[z], i) = Child(C, t + i)
    BY DEF Cleaves, IsSplit, IsHalf
  <1> HIDE DEF C, t, z
  <1>4. s = Key(C, t - 1)
    BY DEF C, t
  <1>5. \A i \in 0..(C.num - 1) : Key(C, i) \in Nat
    BY <1>1, NodeFacts
  <1>6. Sound(S[c], {k \in K[c] : k <= s}, rs)
    <2>1. \A i \in 0..(S[c].num - 1) : i \in 0..(C.num - 1) /\ i <= t - 1 /\ t - 1 \in 0..(C.num - 1)
      BY <1>1, <1>3
    <2>2. Ordered(S[c])
      BY <1>2, <1>3, <2>1 DEF Sound, Ordered
    <2>3. ASSUME NEW i \in 0..(S[c].num - 1)
          PROVE  Key(S[c], i) \in K[c] /\ Key(S[c], i) <= s
      <3>1. i = t - 1 \/ i < t - 1
        BY <1>1, <2>1
      <3>2. i = t - 1 \/ Key(C, i) <= Key(C, t - 1)
        BY <1>2, <2>1, <3>1 DEF Sound, Ordered
      <3>3. Key(C, i) \in Nat
        BY <1>5, <2>1
      <3> QED
        BY <1>2, <1>3, <1>4, <2>1, <3>2, <3>3 DEF Sound
    <2> QED
      BY <1>2, <1>3, <2>1, <2>2, <2>3 DEF Sound
  <1>7. Sound(S[z], {k \in K[c] : s <= k}, rs)
    <2>1. ASSUME NEW i \in 0..(S[z].num - 1)
          PROVE  /\ i \in 0..(Order - 1) /\ i <= t - 2 /\ i \in 0..(t - 2)
                 /\ t + i \in 0..(C.num - 1) /\ t - 1 < t + i /\ t - 1 \in 0..(C.num - 1)
      BY <1>1, <1>3
    <2>2. \A i \in 0..(S[z].num - 1) : Key(S[z], i) = Key(C, t + i)
      BY <1>3, <2>1
    <2>3. Ordered(S[z])
      <3>1. ASSUME NEW i \in 0..(S[z].num - 1), NEW j \in 0..(S[z].num - 1), i < j
            PROVE  Key(S[z], i) <= Key(S[z], j)
        <4>1. t + i < t + j
          BY <1>1, <3>1
        <4> QED
          BY <1>2, <2>1, <2>2, <4>1 DEF Sound, Ordered
      <3> QED
        BY <3>1 DEF Ordered
    <2>4. ASSUME NEW i \in 0..(S[z].num - 1)
          PROVE  Key(S[z], i) \in K[c] /\ s <= Key(S[z], i)
      BY <1>2, <1>4, <2>1, <2>2 DEF Sound, Ordered
    <2>5. ASSUME NEW i \in 0..(S[z].num - 1), C.leaf
          PROVE  Child(S[z], i) \in rs /\ KeyOf[Child(S[z], i)] = Key(S[z], i)
      BY <1>2, <1>3, <2>1, <2>2, <2>5 DEF Sound
    <2>6. ASSUME NEW i \in 0..(Order - 1)
          PROVE  Key(S[z], i) = 0 \/ \E r \in rs : KeyOf[r] = Key(S[z], i)
      <3>1. i <= t - 2 => t + i \in 0..(Order - 1)
        BY <1>1
      <3> QED
        BY <1>2, <1>3, <3>1 DEF Sound
    <2> QED
      BY <1>3, <2>3, <2>4, <2>5, <2>6 DEF Sound
  <1>8. L[c] = {k \in K[c] : k <= s} /\ L[z] = {k \in K[c] : s <= k}
    <2>1. K \in [Ids -> SUBSET Nat] /\ c \in Ids /\ u + 1 \in Ids /\ c # u + 1
      BY CleaveFacts DEF Grown, Cleaves
    <2> QED
      BY <2>1 DEF Halving, z
  <1> QED
    BY <1>6, <1>7, <1>8 DEF z

(* Where child i of q was before the split: child j of m.                  *)
From(q, i, m, j, p, n, c, z) ==
  \/ q = p /\ m = p /\ i <= n /\ j = i
  \/ q = p /\ m = p /\ i > n + 1 /\ j = i - 1
  \/ q = c /\ m = c /\ i <= MinDegree - 1 /\ j = i
  \/ q = z /\ m = c /\ j = MinDegree + i
  \/ q \notin {p, c, z} /\ m = q /\ j = i

LEMMA SplitKidFrom ==
  ASSUME NEW S, NEW ns, NEW u, NEW p, NEW n, NEW c, Cleaves(S, ns, u, p, n, c),
         NEW q \in 1..(u + 1), NEW i \in Nat, NEW b, IsKid(S, q, i, b)
  PROVE  \/ q = p /\ i = n + 1 /\ b = u + 1
         \/ \E m \in 1..u, j \in Nat :
              IsKid(ns, m, j, b) /\ From(q, i, m, j, p, n, c, u + 1)
  <1> DEFINE P == ns[p]
             C == ns[c]
             t == MinDegree
             z == u + 1
  <1>1. /\ P \in Node /\ C \in Node /\ t \in Nat /\ t >= 2 /\ C.num = 2 * t - 1
        /\ P.num \in Nat /\ n \in Nat /\ n <= P.num /\ z \notin 1..u
        /\ 1..z = 1..u \union {z} /\ S[p].num = P.num + 1
    BY CleaveFacts
  <1>2. /\ \A a \in Ids \ {p, c, z} : Alike(S[a], ns[a])
        /\ \A j \in 0..(P.num + 1) : Child(S[p], j)
             = IF j = n + 1 THEN z
               ELSE IF j > n + 1 THEN Child(P, j - 1) ELSE Child(P, j)
        /\ S[c].leaf = C.leaf /\ S[c].num = Kept(C)
        /\ \A j : Child(S[c], j) = Child(C, j)
        /\ S[z].leaf = C.leaf
        /\ S[z].num = t - 1
        /\ ~C.leaf => \A j \in 0..(t - 1) : Child(S[z], j) = Child(C, t + j)
    BY DEF Cleaves, IsSplit, IsHalf
  <1>3. p \in 1..u /\ c \in 1..u /\ ~P.leaf /\ p # c /\ 1..u \subseteq Ids
    BY DEF Cleaves
  <1>4. ~S[q].leaf /\ i \in 0..S[q].num /\ Child(S[q], i) = b
    BY DEF IsKid
  <1>5. CASE q = p
    <2>1. i \in 0..(P.num + 1)
      BY <1>1, <1>4, <1>5
    <2>2. CASE i = n + 1
      BY <1>2, <1>4, <1>5, <2>1, <2>2
    <2>3. CASE i > n + 1
      <3>1. i - 1 \in 0..P.num /\ i - 1 \in Nat /\ i # n + 1
        BY <1>1, <2>1, <2>3
      <3>2. Child(P, i - 1) = b
        BY <1>2, <1>4, <1>5, <2>1, <2>3, <3>1
      <3>3. IsKid(ns, p, i - 1, b)
        BY <1>3, <3>1, <3>2 DEF IsKid
      <3> QED
        BY <1>3, <1>5, <2>3, <3>1, <3>3 DEF From
    <2>4. CASE i <= n
      <3>1. i \in 0..P.num /\ i # n + 1 /\ ~ (i > n + 1)
        BY <1>1, <2>1, <2>4
      <3>2. Child(P, i) = b
        BY <1>2, <1>4, <1>5, <2>1, <3>1
      <3>3. IsKid(ns, p, i, b)
        BY <1>3, <3>1, <3>2 DEF IsKid
      <3> QED
        BY <1>3, <1>5, <2>4, <3>3 DEF From
    <2> QED
      BY <1>1, <2>1, <2>2, <2>3, <2>4
  <1>6. CASE q = c
    <2>1. ~C.leaf /\ S[c].num = t - 1
      BY <1>2, <1>4, <1>6 DEF Kept, t
    <2>2. i \in 0..C.num /\ i <= t - 1
      BY <1>1, <1>4, <1>6, <2>1
    <2>3. IsKid(ns, c, i, b)
      BY <1>2, <1>4, <1>6, <2>1, <2>2 DEF IsKid
    <2> QED
      BY <1>3, <1>6, <2>2, <2>3 DEF From, t
  <1>7. CASE q = z
    <2>1. ~C.leaf /\ i \in 0..(t - 1)
      BY <1>2, <1>4, <1>7
    <2>2. t + i \in 0..C.num /\ t + i \in Nat
      BY <1>1, <2>1
    <2>3. IsKid(ns, c, t + i, b)
      BY <1>2, <1>4, <1>7, <2>1, <2>2 DEF IsKid
    <2> QED
      BY <1>3, <1>7, <2>2, <2>3 DEF From, t, z
  <1>8. CASE q \notin {p, c, z}
    <2>1. q \in 1..u /\ Alike(S[q], ns[q])
      BY <1>1, <1>2, <1>3, <1>8
    <2>2. IsKid(ns, q, i, b)
      BY <1>4, <2>1 DEF IsKid, Alike, Child
    <2> QED
      BY <1>8, <2>1, <2>2 DEF From
  <1> QED
    BY <1>5, <1>6, <1>7, <1>8

LEMMA SplitKidTo ==
  ASSUME NEW S, NEW ns, NEW u, NEW p, NEW n, NEW c, Cleaves(S, ns, u, p, n, c),
         NEW m \in 1..u, NEW j \in Nat, NEW b, IsKid(ns, m, j, b)
  PROVE  \E q \in 1..(u + 1), i \in Nat : IsKid(S, q, i, b)
  <1> DEFINE P == ns[p]
             C == ns[c]
             t == MinDegree
             z == u + 1
  <1>1. /\ P \in Node /\ C \in Node /\ t \in Nat /\ t >= 2 /\ C.num = 2 * t - 1
        /\ P.num \in Nat /\ n \in Nat /\ n <= P.num /\ z \notin 1..u
        /\ 1..z = 1..u \union {z} /\ S[p].num = P.num + 1
    BY CleaveFacts
  <1>2. /\ \A a \in Ids \ {p, c, z} : Alike(S[a], ns[a])
        /\ S[p].leaf = FALSE
        /\ \A i \in 0..(P.num + 1) : Child(S[p], i)
             = IF i = n + 1 THEN z
               ELSE IF i > n + 1 THEN Child(P, i - 1) ELSE Child(P, i)
        /\ S[c].leaf = C.leaf /\ S[c].num = Kept(C)
        /\ \A i : Child(S[c], i) = Child(C, i)
        /\ S[z].leaf = C.leaf
        /\ S[z].num = t - 1
        /\ ~C.leaf => \A i \in 0..(t - 1) : Child(S[z], i) = Child(C, t + i)
    BY DEF Cleaves, IsSplit, IsHalf
  <1>3. p \in 1..u /\ c \in 1..u /\ ~P.leaf /\ p # c /\ 1..u \subseteq Ids
    BY DEF Cleaves
  <1>4. ~ns[m].leaf /\ j \in 0..ns[m].num /\ Child(ns[m], j) = b
    BY DEF IsKid
  <1>5. CASE m = p
    <2>1. CASE j <= n
      <3>1. j \in 0..(P.num + 1) /\ j # n + 1 /\ ~ (j > n + 1)
        BY <1>1, <1>4, <1>5, <2>1
      <3>2. IsKid(S, p, j, b)
        BY <1>1, <1>2, <1>4, <1>5, <3>1 DEF IsKid
      <3> QED
        BY <1>1, <1>3, <3>2
    <2>2. CASE j > n
      <3>1. /\ j + 1 \in 0..(P.num + 1) /\ j + 1 # n + 1 /\ j + 1 > n + 1
            /\ (j + 1) - 1 = j /\ j + 1 \in Nat
        BY <1>1, <1>4, <1>5, <2>2
      <3>2. IsKid(S, p, j + 1, b)
        BY <1>1, <1>2, <1>4, <1>5, <3>1 DEF IsKid
      <3> QED
        BY <1>1, <1>3, <3>1, <3>2
    <2> QED
      BY <1>1, <2>1, <2>2
  <1>6. CASE m = c
    <2>1. ~C.leaf /\ S[c].num = t - 1
      BY <1>2, <1>4, <1>6 DEF Kept, t
    <2>2. CASE j <= t - 1
      <3>1. j \in 0..S[c].num
        BY <1>1, <2>1, <2>2
      <3>2. IsKid(S, c, j, b)
        BY <1>2, <1>4, <1>6, <2>1, <3>1 DEF IsKid
      <3> QED
        BY <1>1, <1>3, <3>2
    <2>3. CASE ~ (j <= t - 1)
      <3>1. j - t \in 0..(t - 1) /\ t + (j - t) = j /\ j - t \in Nat
        BY <1>1, <1>4, <1>6, <2>3
      <3>2. Child(S[z], j - t) = b /\ ~S[z].leaf /\ j - t \in 0..S[z].num
        BY <1>2, <1>4, <1>6, <2>1, <3>1
      <3>3. IsKid(S, z, j - t, b) /\ z \in 1..z
        BY <1>1, <3>2 DEF IsKid
      <3> QED
        BY <3>1, <3>3
    <2> QED
      BY <2>2, <2>3
  <1>7. CASE m \notin {p, c}
    <2>1. Alike(S[m], ns[m])
      BY <1>1, <1>2, <1>3, <1>7
    <2>2. IsKid(S, m, j, b)
      BY <1>4, <2>1 DEF IsKid, Alike, Child
    <2> QED
      BY <1>1, <2>2
  <1> QED
    BY <1>5, <1>6, <1>7

LEMMA SplitLinked ==
  ASSUME NEW S, NEW ns, NEW u, NEW p, NEW n, NEW c, Cleaves(S, ns, u, p, n, c),
         NEW tp, Linked(ns, u, tp)
  PROVE  Linked(S, u + 1, tp)
  <1> DEFINE z == u + 1
  <1>1. /\ MinDegree \in Nat /\ u \in Nat /\ z \notin 1..u /\ 1..z = 1..u \union {z}
        /\ n \in Nat /\ ns[p].num \in Nat /\ n <= ns[p].num /\ S[p].num = ns[p].num + 1
    BY CleaveFacts
  <1>2. /\ S[p].leaf = FALSE /\ p \in 1..u /\ p # c /\ c \in 1..u
        /\ \A i \in 0..(ns[p].num + 1) : i = n + 1 => Child(S[p], i) = z
    BY DEF Cleaves, IsSplit
  <1>3. ASSUME NEW b \in 1..z, b # tp
        PROVE  \E q \in 1..z, i \in Nat : IsKid(S, q, i, b)
    <2>1. CASE b = z
      <3>1. n + 1 \in 0..(ns[p].num + 1) /\ n + 1 \in Nat
        BY <1>1
      <3>2. IsKid(S, p, n + 1, b)
        BY <1>1, <1>2, <2>1, <3>1 DEF IsKid
      <3> QED
        BY <1>1, <1>2, <3>1, <3>2
    <2>2. CASE b \in 1..u
      <3>1. PICK m \in 1..u, j \in Nat : IsKid(ns, m, j, b)
        BY <1>3, <2>2 DEF Linked
      <3> QED
        BY <3>1, SplitKidTo
    <2> QED
      BY <1>1, <2>1, <2>2
  <1>4. ASSUME NEW q1 \in 1..z, NEW q2 \in 1..z, NEW i1 \in Nat, NEW i2 \in Nat, NEW b \in 1..z,
               IsKid(S, q1, i1, b), IsKid(S, q2, i2, b)
        PROVE  q1 = q2 /\ i1 = i2
    <2>1. \A m \in 1..u, j \in Nat : IsKid(ns, m, j, b) => b \in 1..u
      BY DEF IsKid, Cleaves
    <2>2. \/ q1 = p /\ i1 = n + 1 /\ b = z
          \/ \E m \in 1..u, j \in Nat : IsKid(ns, m, j, b) /\ From(q1, i1, m, j, p, n, c, z)
      BY <1>4, SplitKidFrom
    <2>3. \/ q2 = p /\ i2 = n + 1 /\ b = z
          \/ \E m \in 1..u, j \in Nat : IsKid(ns, m, j, b) /\ From(q2, i2, m, j, p, n, c, z)
      BY <1>4, SplitKidFrom
    <2>4. CASE b = z
      BY <1>1, <2>1, <2>2, <2>3, <2>4
    <2>5. CASE b # z
      <3>1. PICK m1 \in 1..u, j1 \in Nat :
              IsKid(ns, m1, j1, b) /\ From(q1, i1, m1, j1, p, n, c, z)
        BY <2>2, <2>5
      <3>2. PICK m2 \in 1..u, j2 \in Nat :
              IsKid(ns, m2, j2, b) /\ From(q2, i2, m2, j2, p, n, c, z)
        BY <2>3, <2>5
      <3>3. m1 = m2 /\ j1 = j2
        BY <2>1, <3>1, <3>2 DEF Linked
      <3>4. From(q2, i2, m1, j1, p, n, c, z)
        BY <3>2, <3>3
      <3>5. z # p /\ z # c
        BY <1>1, <1>2
      <3> HIDE DEF z
      <3> QED
        BY <1>1, <1>2, <3>1, <3>4, <3>5 DEF From
    <2> QED
      BY <2>4, <2>5
  <1> QED
    BY <1>3, <1>4 DEF Linked

(* The rows are held by the halves.                                        *)
LEMMA SplitHolds ==
  ASSUME NEW S, NEW ns, NEW u, NEW p, NEW n, NEW c, Cleaves(S, ns, u, p, n, c),
         NEW b \in 1..u, NEW r, Holds(ns[b], r)
  PROVE  \E d \in 1..(u + 1) : Holds(S[d], r)
  <1> DEFINE C == ns[c]
             t == MinDegree
             z == u + 1
  <1>1. /\ C \in Node /\ t \in Nat /\ t >= 2 /\ C.num = 2 * t - 1
        /\ 1..z = 1..u \union {z} /\ z \notin 1..u
    BY CleaveFacts
  <1>2. /\ \A a \in Ids \ {p, c, z} : Alike(S[a], ns[a])
        /\ S[c].leaf = C.leaf /\ S[c].num = Kept(C)
        /\ \A i : Child(S[c], i) = Child(C, i)
        /\ S[z].leaf = C.leaf /\ S[z].num = t - 1
        /\ C.leaf => \A i \in 0..(t - 2) : Child(S[z], i) = Child(C, t + i)
    BY DEF Cleaves, IsSplit, IsHalf
  <1>3. p \in 1..u /\ c \in 1..u /\ ~ns[p].leaf /\ 1..u \subseteq Ids
    BY DEF Cleaves
  <1>4. b # p
    BY <1>3 DEF Holds
  <1>5. CASE b = c
    <2>1. PICK i \in 0..(C.num - 1) : Child(C, i) = r
      BY <1>5 DEF Holds
    <2>2. C.leaf
      BY <1>5 DEF Holds
    <2>3. S[c].num = t
      BY <1>2, <2>2 DEF Kept, t
    <2>4. CASE i <= t - 1
      <3>1. i \in 0..(S[c].num - 1)
        BY <1>1, <2>3, <2>4
      <3>2. Holds(S[c], r)
        BY <1>2, <2>1, <2>2, <3>1 DEF Holds
      <3> QED
        BY <1>1, <1>3, <3>2
    <2>5. CASE ~ (i <= t - 1)
      <3>1. i - t \in 0..(t - 2) /\ i - t \in 0..(S[z].num - 1) /\ t + (i - t) = i
        BY <1>1, <1>2, <2>5
      <3>2. Child(S[z], i - t) = r
        BY <1>2, <2>1, <2>2, <3>1
      <3>3. Holds(S[z], r)
        BY <1>2, <2>2, <3>1, <3>2 DEF Holds
      <3> QED
        BY <1>1, <3>3
    <2> QED
      BY <2>4, <2>5
  <1>6. CASE b # c
    <2>1. Alike(S[b], ns[b])
      BY <1>1, <1>2, <1>3, <1>4, <1>6
    <2>2. Holds(S[b], r)
      BY <2>1, SoundAlike
    <2> QED
      BY <1>1, <2>2
  <1> QED
    BY <1>5, <1>6

(* The keys are cut among the children as before, and those of c between   *)
(* the halves.                                                             *)
LEMMA SplitApart ==
  ASSUME NEW S, NEW ns, NEW u, NEW p, NEW n, NEW c, Cleaves(S, ns, u, p, n, c),
         NEW tp, NEW K, NEW rs, Grown(ns, u, tp, K, rs),
         NEW s, s = Key(ns[c], MinDegree - 1),
         NEW L, L = Halving(K, c, u + 1, s),
         NEW b \in 1..(u + 1)
  PROVE  Apart(S[b], L[b], L)
  <1> DEFINE P == ns[p]
             C == ns[c]
             t == MinDegree
             z == u + 1
  <1>1. /\ P \in Node /\ C \in Node /\ t \in Nat /\ t >= 2 /\ C.num = 2 * t - 1
        /\ S[p] \in Node /\ S[c] \in Node /\ S[z] \in Node
        /\ P.num \in Nat /\ n \in Nat /\ n <= P.num /\ z \notin 1..u
        /\ 1..z = 1..u \union {z} /\ S[p].num = P.num + 1 /\ z \in Ids /\ c \in Ids /\ p \in Ids
        /\ Order = 2 * t
    BY CleaveFacts
  <1>2. /\ \A a \in Ids \ {p, c, z} : Alike(S[a], ns[a])
        /\ \A i \in 0..(P.num + 1) : Child(S[p], i)
             = IF i = n + 1 THEN z
               ELSE IF i > n + 1 THEN Child(P, i - 1) ELSE Child(P, i)
        /\ S[c].leaf = C.leaf /\ S[c].num = Kept(C)
        /\ \A i : Child(S[c], i) = Child(C, i)
        /\ \A i : Key(S[c], i) = Key(C, i)
        /\ S[z].leaf = C.leaf
        /\ S[z].num = t - 1
        /\ \A i \in 0..(Order - 1) : Key(S[z], i) = IF i <= t - 2 THEN Key(C, t + i) ELSE 0
        /\ ~C.leaf => \A i \in 0..(t - 1) : Child(S[z], i) = Child(C, t + i)
    BY DEF Cleaves, IsSplit, IsHalf
  <1>3. /\ p \in 1..u /\ c \in 1..u /\ ~P.leaf /\ p # c /\ 1..u \subseteq Ids
        /\ n \in 0..P.num /\ c = Child(P, n)
        /\ \A a \in 1..u : ~ns[a].leaf => \A i \in 0..ns[a].num : Child(ns[a], i) \in 1..u
    BY DEF Cleaves
  <1>4. K \in [Ids -> SUBSET Nat]
    BY DEF Grown
  <1>5. /\ L[c] = {k \in K[c] : k <= s} /\ L[z] = {k \in K[c] : s <= k}
        /\ \A a \in Ids : a # c /\ a # z => L[a] = K[a]
        /\ p # z /\ c # z
    BY <1>1, <1>3, <1>4 DEF Halving
  (* The child of another node, or another child of p, is not c.           *)
  <1>6. ASSUME NEW m \in 1..u, NEW i \in 0..ns[m].num, ~ns[m].leaf, m # p \/ i # n
        PROVE  L[Child(ns[m], i)] = Cut(ns[m], K[m], i)
    <2>1. Child(ns[m], i) \in 1..u /\ Child(ns[m], i) \in Ids /\ Child(ns[m], i) # z
      BY <1>1, <1>3, <1>6
    <2>2. Child(ns[m], i) # c
      <3>1. ASSUME Child(ns[m], i) = c
            PROVE  FALSE
        <4>1. IsKid(ns, m, i, c) /\ i \in Nat
          BY <1>6, <3>1 DEF IsKid
        <4>2. IsKid(ns, p, n, c)
          BY <1>3 DEF IsKid
        <4>3. Linked(ns, u, tp)
          BY DEF Grown
        <4> QED
          BY <1>1, <1>3, <1>6, <4>1, <4>2, <4>3 DEF Linked
      <3> QED
        BY <3>1
    <2>3. K[Child(ns[m], i)] = Cut(ns[m], K[m], i)
      BY <1>6 DEF Grown, Apart
    <2> QED
      BY <1>5, <2>1, <2>2, <2>3
  <1>7. /\ s \in Nat /\ s \in K[c] /\ K[c] = Cut(P, K[p], n)
        /\ Room(P, n, s) /\ Wedged(S[p], P, n, s)
    BY SplitRoom
  <1>8. /\ Ordered(C) /\ s = Key(C, t - 1) /\ K[c] \in SUBSET Nat /\ K[p] \in SUBSET Nat
    BY <1>1, <1>3, <1>4 DEF Grown, Sound
  <1> HIDE DEF P, C, t, z
  <1>9. CASE b = p
    <2>1. /\ \A i \in 0..(n - 1) : Cut(S[p], K[p], i) = Cut(P, K[p], i)
          /\ Cut(S[p], K[p], n) = {k \in Cut(P, K[p], n) : k <= s}
          /\ Cut(S[p], K[p], n + 1) = {k \in Cut(P, K[p], n) : s <= k}
          /\ \A i \in (n + 2)..(P.num + 1) : Cut(S[p], K[p], i) = Cut(P, K[p], i - 1)
      BY <1>1, <1>3, <1>7, <1>8, WedgedCut
    <2>2. L[p] = K[p]
      BY <1>1, <1>3, <1>5
    <2>3. ASSUME NEW i \in 0..S[p].num
          PROVE  L[Child(S[p], i)] = Cut(S[p], L[p], i)
      <3>1. i \in 0..(P.num + 1)
        BY <1>1
      <3>2. CASE i < n
        <4>1. i \in 0..(n - 1) /\ i \in 0..P.num /\ i # n /\ i # n + 1 /\ ~ (i > n + 1)
          BY <1>1, <3>1, <3>2
        <4>2. Child(S[p], i) = Child(P, i)
          BY <1>2, <3>1, <4>1
        <4>3. L[Child(P, i)] = Cut(P, K[p], i)
          BY <1>3, <1>6, <4>1 DEF P
        <4> QED
          BY <2>1, <2>2, <4>1, <4>2, <4>3
      <3>3. CASE i = n
        <4>1. Child(S[p], i) = c
          <5>1. i # n + 1 /\ ~ (i > n + 1)
            BY <1>1, <3>3
          <5> QED
            BY <1>2, <1>3, <3>1, <3>3, <5>1
        <4> QED
          BY <1>5, <1>7, <2>1, <2>2, <3>3, <4>1
      <3>4. CASE i = n + 1
        BY <1>2, <1>5, <1>7, <2>1, <2>2, <3>1, <3>4
      <3>5. CASE i > n + 1
        <4>1. /\ i \in (n + 2)..(P.num + 1) /\ i - 1 \in 0..P.num /\ i - 1 # n /\ i # n + 1
          BY <1>1, <3>1, <3>5
        <4>2. Child(S[p], i) = Child(P, i - 1)
          BY <1>2, <3>1, <3>5, <4>1
        <4>3. L[Child(P, i - 1)] = Cut(P, K[p], i - 1)
          BY <1>3, <1>6, <4>1 DEF P
        <4> QED
          BY <2>1, <2>2, <4>1, <4>2, <4>3
      <3> QED
        BY <1>1, <3>1, <3>2, <3>3, <3>4, <3>5
    <2> QED
      BY <1>9, <2>3 DEF Apart
  <1>10. CASE b = c
    <2>1. ASSUME ~C.leaf, NEW i \in 0..S[c].num
          PROVE  L[Child(S[c], i)] = Cut(S[c], L[c], i)
      <3>1. S[c].num = t - 1
        BY <1>2, <2>1 DEF Kept, t
      <3>2. t - 1 \in Nat /\ t - 1 < C.num /\ i \in 0..(t - 1) /\ i \in 0..C.num
        BY <1>1, <2>1, <3>1
      <3>3. Cut(S[c], {k \in K[c] : k <= Key(C, t - 1)}, i) = Cut(C, K[c], i)
        BY <1>1, <1>2, <1>8, <3>1, <3>2, LowerCut
      <3>4. L[Child(C, i)] = Cut(C, K[c], i)
        BY <1>3, <1>6, <2>1, <3>2 DEF C
      <3> QED
        BY <1>2, <1>5, <1>8, <3>3, <3>4
    <2> QED
      BY <1>2, <1>10, <2>1 DEF Apart
  <1>11. CASE b = z
    <2>1. ASSUME ~C.leaf, NEW i \in 0..S[z].num
          PROVE  L[Child(S[z], i)] = Cut(S[z], L[z], i)
      <3>1. /\ t \in Nat \ {0} /\ t + S[z].num = C.num /\ i \in 0..(t - 1) /\ t + i \in 0..C.num
        BY <1>1, <1>2, <2>1
      <3>2. \A j \in 0..(S[z].num - 1) : j \in 0..(Order - 1) /\ j <= t - 2
        BY <1>1, <1>2
      <3>3. \A j \in 0..(S[z].num - 1) : Key(S[z], j) = Key(C, t + j)
        BY <1>2, <3>2
      <3>4. Cut(S[z], {k \in K[c] : Key(C, t - 1) <= k}, i) = Cut(C, K[c], t + i)
        <4>1. S[z] \in Node /\ C \in Node /\ i \in 0..S[z].num /\ K[c] \in SUBSET Nat /\ Ordered(C)
          BY <1>1, <1>8, <2>1
        <4> QED
          BY <3>1, <3>3, <4>1, UpperCut
      <3>5. L[Child(C, t + i)] = Cut(C, K[c], t + i)
        BY <1>3, <1>6, <2>1, <3>1 DEF C
      <3> QED
        BY <1>2, <1>5, <1>8, <2>1, <3>1, <3>4, <3>5
    <2> QED
      BY <1>2, <1>11, <2>1 DEF Apart
  <1>12. CASE b \notin {p, c, z}
    <2>1. b \in 1..u /\ b \in Ids /\ Alike(S[b], ns[b]) /\ L[b] = K[b]
      BY <1>1, <1>2, <1>3, <1>5, <1>12 DEF z
    <2>2. Apart(ns[b], K[b], L)
      BY <1>6, <1>12, <2>1 DEF Apart
    <2> QED
      BY <2>1, <2>2, SoundAlike
  <1> QED
    BY <1>9, <1>10, <1>11, <1>12

LEMMA SplitGrown ==
  ASSUME NEW S, NEW ns, NEW u, NEW p, NEW n, NEW c, Cleaves(S, ns, u, p, n, c),
         NEW tp, c # tp, tp # None, NEW K, NEW rs, Grown(ns, u, tp, K, rs),
         NEW s, s = Key(ns[c], MinDegree - 1)
  PROVE  Grown(S, u + 1, tp, Halving(K, c, u + 1, s), rs)
  <1>a. PICK L : L = Halving(K, c, u + 1, s)
    OBVIOUS
  <1> DEFINE z == u + 1
  <1>1. /\ 1..z = 1..u \union {z} /\ z \notin 1..u /\ c \in Ids /\ p \in Ids /\ z \in Ids
    BY CleaveFacts
  <1>2. /\ K \in [Ids -> SUBSET Nat] /\ tp \in 1..u /\ K[tp] = Nat
        /\ \A b \in Ids \ (1..u) : ns[b].leaf
        /\ \A b \in 1..u : Sound(ns[b], K[b], rs) /\ Apart(ns[b], K[b], K)
        /\ Linked(ns, u, tp)
        /\ \A r \in rs : \E b \in 1..u : Holds(ns[b], r)
    BY DEF Grown
  <1>3. /\ \A a \in Ids \ {p, c, z} : Alike(S[a], ns[a])
        /\ p \in 1..u /\ c \in 1..u /\ 1..u \subseteq Ids
    BY DEF Cleaves, IsSplit
  <1>4. /\ L[c] = {k \in K[c] : k <= s} /\ L[z] = {k \in K[c] : s <= k}
        /\ \A a \in Ids : a # c /\ a # z => L[a] = K[a]
        /\ L \in [Ids -> SUBSET Nat]
    <2>1. K[c] \in SUBSET Nat /\ c # z
      BY <1>1, <1>2, <1>3
    <2> QED
      BY <1>a, <1>1, <1>2, <2>1 DEF Halving
  <1> HIDE DEF z
  <1>5. tp \in 1..z /\ L[tp] = Nat
    BY <1>1, <1>2, <1>3, <1>4
  <1>6. \A b \in Ids \ (1..z) : S[b].leaf
    <2>1. ASSUME NEW b \in Ids \ (1..z)
          PROVE  S[b].leaf
      <3>1. b \notin {p, c, z} /\ b \in Ids \ (1..u)
        BY <1>1, <1>3
      <3> QED
        BY <1>2, <1>3, <3>1 DEF Alike
    <2> QED
      BY <2>1
  <1>7. ASSUME NEW b \in 1..z
        PROVE  Sound(S[b], L[b], rs)
    <2>1. CASE b = p
      BY <1>1, <1>3, <1>4, <2>1, SplitSoundParent DEF Cleaves
    <2>2. CASE b = c
      BY <1>a, <2>2, SplitSoundHalves
    <2>3. CASE b = z
      BY <1>a, <2>3, SplitSoundHalves DEF z
    <2>4. CASE b \notin {p, c, z}
      BY <1>1, <1>2, <1>3, <1>4, <2>4, SoundAlike
    <2> QED
      BY <2>1, <2>2, <2>3, <2>4
  <1>8. \A b \in 1..z : Apart(S[b], L[b], L)
    BY <1>a, SplitApart DEF z
  <1>9. Linked(S, z, tp)
    BY <1>2, SplitLinked DEF z
  <1>10. ASSUME NEW r \in rs
         PROVE  \E b \in 1..z : Holds(S[b], r)
    <2>1. PICK b \in 1..u : Holds(ns[b], r)
      BY <1>2
    <2> QED
      BY <2>1, SplitHolds DEF z
  <1>11. Grown(S, z, tp, L, rs)
    BY <1>4, <1>5, <1>6, <1>7, <1>8, <1>9, <1>10 DEF Grown
  <1> QED
    BY <1>a, <1>11 DEF z

-----------------------------------------------------------------------------
(* The other steps of an insert keep the search tree.                      *)

(* The loops of insert_non_full() in a node whose keys are in order.       *)
LEMMA LastNotAboveRoom ==
  ASSUME NEW x \in Node, NEW k \in Nat, Ordered(x)
  PROVE  /\ LastNotAbove(x, k) + 1 \in 0..x.num
         /\ Room(x, LastNotAbove(x, k) + 1, k)
  <1> DEFINE q == LastNotAbove(x, k)
  <1>1. /\ x.num \in Nat /\ \A i \in 0..x.num : Key(x, i) \in Nat
        /\ q + 1 \in 0..x.num
        /\ \A i \in (q + 1)..(x.num - 1) : Key(x, i) > k
        /\ q >= 0 => Key(x, q) <= k
    BY NodeFacts, LastNotAboveIn
  <1>2. q \in Int
    <2>1. q \in {i \in 0..(x.num - 1) : Key(x, i) <= k} \union {-1}
      <3> DEFINE M == {i \in 0..(x.num - 1) : Key(x, i) <= k} \union {-1}
      <3>1. M \subseteq Int /\ M # {}
        BY <1>1
      <3>2. \E m \in M : \A i \in M : m >= i
        <4> DEFINE U == {x.num - i : i \in M}
        <4>1. U \subseteq Nat /\ U # {}
          BY <1>1
        <4>2. PICK w \in U : \A y \in U : w <= y
          <5> HIDE DEF U
          <5> QED
            BY <4>1, NatMin
        <4>3. PICK m \in M : w = x.num - m
          OBVIOUS
        <4>4. ASSUME NEW i \in M
              PROVE  m >= i
          <5>1. x.num - i \in U
            OBVIOUS
          <5>2. x.num - m <= x.num - i
            <6> HIDE DEF U
            <6> QED
              BY <4>2, <4>3, <5>1
          <5>3. i \in Int /\ m \in Int
            BY <3>1
          <5> QED
            BY <1>1, <5>2, <5>3
        <4> QED
          BY <4>3, <4>4
      <3>3. Max(M) \in M
        <4> HIDE DEF M
        <4> QED
          BY <3>2, Zenon DEF Max
      <3> QED
        BY <3>3, Zenon DEF LastNotAbove
    <2> QED
      BY <1>1, <2>1
  <1> HIDE DEF q
  <1>3. ASSUME NEW j \in 0..((q + 1) - 1)
        PROVE  Key(x, j) <= k
    <2>1. /\ j \in 0..(x.num - 1) /\ q \in 0..(x.num - 1) /\ (j = q \/ j < q) /\ q >= 0
          /\ j \in 0..x.num /\ q \in 0..x.num
      BY <1>1, <1>2
    <2>2. j = q \/ Key(x, j) <= Key(x, q)
      BY <2>1 DEF Ordered
    <2>3. Key(x, j) \in Nat /\ Key(x, q) \in Nat
      BY <1>1, <2>1
    <2> QED
      BY <1>1, <2>1, <2>2, <2>3
  <1>4. ASSUME NEW j \in (q + 1)..(x.num - 1)
        PROVE  k <= Key(x, j)
    <2>1. j \in 0..x.num
      BY <1>1
    <2> QED
      BY <1>1, <2>1
  <1>5. Room(x, q + 1, k)
    BY <1>3, <1>4 DEF Room
  <1> QED
    BY <1>1, <1>5 DEF q

(* A new root above the old one.                                           *)
LEMMA PromoteGrown ==
  ASSUME NEW ns \in [Ids -> Node], NEW u \in Nat, u + 1 \in Ids, 1..u \subseteq Ids,
         NEW tp, tp # None, NEW K, NEW rs, Grown(ns, u, tp, K, rs),
         \A b \in 1..u : ~ns[b].leaf =>
           \A i \in 0..ns[b].num : Child(ns[b], i) \in 1..u /\ Child(ns[b], i) # tp,
         NEW x \in Node, x.leaf = FALSE, x.num = 0, Child(x, 0) = tp,
         \A i \in 0..(Order - 1) : Key(x, i) = 0
  PROVE  Grown([ns EXCEPT ![u + 1] = x], u + 1, u + 1, [K EXCEPT ![u + 1] = Nat], rs)
  <1> DEFINE a == u + 1
             ms == [ns EXCEPT ![a] = x]
             L == [K EXCEPT ![a] = Nat]
  <1>1. /\ 1..a = 1..u \union {a} /\ a \notin 1..u /\ a \in Ids /\ a # None
    BY DEF None
  <1>2. /\ K \in [Ids -> SUBSET Nat] /\ tp \in 1..u /\ K[tp] = Nat
        /\ \A b \in Ids \ (1..u) : ns[b].leaf
        /\ \A b \in 1..u : Sound(ns[b], K[b], rs) /\ Apart(ns[b], K[b], K)
        /\ Linked(ns, u, tp)
        /\ \A r \in rs : \E b \in 1..u : Holds(ns[b], r)
    BY DEF Grown
  <1>3. /\ ms[a] = x /\ \A b \in Ids : b # a => ms[b] = ns[b]
        /\ L \in [Ids -> SUBSET Nat] /\ L[a] = Nat /\ \A b \in Ids : b # a => L[b] = K[b]
    BY <1>1, <1>2
  <1> HIDE DEF ms, L, a
  <1>4. \A b \in 1..u : b \in Ids /\ b # a /\ ms[b] = ns[b] /\ L[b] = K[b]
    BY <1>1, <1>3
  <1>5. ASSUME NEW b \in 1..u
        PROVE  Sound(ms[b], L[b], rs) /\ Apart(ms[b], L[b], L)
    <2>1. Sound(ms[b], L[b], rs) /\ Apart(ns[b], K[b], K)
      BY <1>2, <1>4
    <2>2. Apart(ns[b], K[b], L)
      BY <1>4, <2>1 DEF Apart
    <2> QED
      BY <1>4, <2>1, <2>2
  <1>6. Sound(x, Nat, rs) /\ Apart(x, Nat, L)
    <2>1. Sound(x, Nat, rs)
      BY DEF Sound, Ordered
    <2>2. Cut(x, Nat, 0) = Nat
      BY DEF Cut
    <2>3. ASSUME NEW i \in 0..x.num
          PROVE  L[Child(x, i)] = Cut(x, Nat, i)
      <3>1. i = 0
        OBVIOUS
      <3> QED
        BY <1>2, <1>4, <2>2, <3>1
    <2> QED
      BY <2>1, <2>3 DEF Apart
  <1>7. Linked(ms, a, a)
    <2>1. ASSUME NEW m \in 1..a, NEW i \in Nat, NEW b, IsKid(ms, m, i, b)
          PROVE  \/ m = a /\ i = 0 /\ b = tp
                 \/ m \in 1..u /\ IsKid(ns, m, i, b) /\ b \in 1..u /\ b # tp
      <3>1. CASE m = a
        BY <1>3, <2>1, <3>1 DEF IsKid
      <3>2. CASE m \in 1..u
        BY <1>4, <2>1, <3>2 DEF IsKid
      <3> QED
        BY <1>1, <3>1, <3>2
    <2>2. ASSUME NEW b \in 1..a, b # a
          PROVE  \E m \in 1..a, i \in Nat : IsKid(ms, m, i, b)
      <3>1. b \in 1..u
        BY <1>1, <2>2
      <3>2. CASE b = tp
        <4>1. IsKid(ms, a, 0, b)
          BY <1>3, <3>2 DEF IsKid
        <4> QED
          BY <1>1, <4>1
      <3>3. CASE b # tp
        <4>1. PICK m \in 1..u, i \in Nat : IsKid(ns, m, i, b)
          BY <1>2, <3>1, <3>3 DEF Linked
        <4>2. IsKid(ms, m, i, b)
          BY <1>4, <4>1 DEF IsKid
        <4> QED
          BY <1>1, <4>2
      <3> QED
        BY <3>2, <3>3
    <2>3. ASSUME NEW m1 \in 1..a, NEW m2 \in 1..a, NEW i1 \in Nat, NEW i2 \in Nat,
                 NEW b \in 1..a, IsKid(ms, m1, i1, b), IsKid(ms, m2, i2, b)
          PROVE  m1 = m2 /\ i1 = i2
      <3>1. \/ m1 = a /\ i1 = 0 /\ b = tp
            \/ m1 \in 1..u /\ IsKid(ns, m1, i1, b) /\ b \in 1..u /\ b # tp
        BY <2>1, <2>3
      <3>2. \/ m2 = a /\ i2 = 0 /\ b = tp
            \/ m2 \in 1..u /\ IsKid(ns, m2, i2, b) /\ b \in 1..u /\ b # tp
        BY <2>1, <2>3
      <3> QED
        BY <1>2, <3>1, <3>2 DEF Linked
    <2> QED
      BY <2>2, <2>3 DEF Linked
  <1>8. \A b \in Ids \ (1..a) : ms[b].leaf
    BY <1>1, <1>2, <1>3
  <1>9. \A r \in rs : \E b \in 1..a : Holds(ms[b], r)
    BY <1>1, <1>2, <1>4
  <1>10. \A b \in 1..a : Sound(ms[b], L[b], rs) /\ Apart(ms[b], L[b], L)
    BY <1>1, <1>3, <1>5, <1>6
  <1>11. a \in 1..a
    BY <1>1
  <1>12. Grown(ms, a, a, L, rs)
    BY <1>1, <1>3, <1>7, <1>8, <1>9, <1>10, <1>11 DEF Grown
  <1> QED
    BY <1>12 DEF a, ms, L

(* A row that comes into a leaf.                                           *)
TakenIn(y, x, n, r) ==
  /\ y.leaf = TRUE
  /\ Wedged(y, x, n, KeyOf[r])
  /\ \A i \in 0..x.num : Child(y, i)
       = IF i = n THEN r ELSE IF i > n THEN Child(x, i - 1) ELSE Child(x, i)
  /\ \A i \in 0..(Order - 1) : i > x.num => Key(y, i) = Key(x, i)

LEMMA LeafGrown ==
  ASSUME NEW ns \in [Ids -> Node], NEW u \in Nat, 1..u \subseteq Ids,
         NEW tp, NEW K, NEW rs \in SUBSET Rows, Grown(ns, u, tp, K, rs),
         NEW c \in 1..u, NEW r \in Rows, KeyOf[r] \in K[c],
         ns[c].leaf = TRUE, ns[c].num < Order - 1,
         NEW n \in 0..ns[c].num, Room(ns[c], n, KeyOf[r]),
         NEW y \in Node, TakenIn(y, ns[c], n, r)
  PROVE  Grown([ns EXCEPT ![c] = y], u, tp, K, rs \union {r})
  <1> DEFINE ms == [ns EXCEPT ![c] = y]
             x == ns[c]
             k == KeyOf[r]
             rq == rs \union {r}
  <1>1. /\ K \in [Ids -> SUBSET Nat]
        /\ IF tp = None THEN u = 0 ELSE tp \in 1..u /\ K[tp] = Nat
        /\ \A b \in Ids \ (1..u) : ns[b].leaf
        /\ \A b \in 1..u : Sound(ns[b], K[b], rs) /\ Apart(ns[b], K[b], K)
        /\ Linked(ns, u, tp)
        /\ \A q \in rs : \E b \in 1..u : Holds(ns[b], q)
    BY DEF Grown
  <1>2. c \in Ids /\ ms[c] = y /\ \A b \in Ids : b # c => ms[b] = ns[b]
    OBVIOUS
  <1>3. x \in Node /\ x.num \in Nat /\ n \in Nat /\ n <= x.num /\ Order \in Nat
        /\ x.num < Order - 1 /\ x.leaf = TRUE
    BY <1>2, NodeFacts
  <1>4. k \in Nat
    BY BTreeAssumption
  <1>5. /\ y.leaf = TRUE /\ y.num = x.num + 1
        /\ \A i \in 0..x.num : Key(y, i)
             = IF i = n THEN k ELSE IF i > n THEN Key(x, i - 1) ELSE Key(x, i)
        /\ \A i \in 0..x.num : Child(y, i)
             = IF i = n THEN r ELSE IF i > n THEN Child(x, i - 1) ELSE Child(x, i)
        /\ \A i \in 0..(Order - 1) : i > x.num => Key(y, i) = Key(x, i)
    BY DEF TakenIn, Wedged
  <1>6. Sound(x, K[c], rs)
    BY <1>1
  <1>7. Ordered(y)
    BY <1>3, <1>4, <1>6, WedgedOrdered DEF TakenIn, Sound
  <1>8. KeyOf[r] \in K[c] /\ k = KeyOf[r]
    OBVIOUS
  <1> HIDE DEF ms, x, k
  <1>9. Sound(y, K[c], rq)
    <2>1. ASSUME NEW i \in 0..(y.num - 1)
          PROVE  /\ Key(y, i) \in K[c]
                 /\ Child(y, i) \in rq /\ KeyOf[Child(y, i)] = Key(y, i)
      <3>1. i \in 0..x.num
        BY <1>3, <1>5
      <3>2. CASE i = n
        BY <1>5, <1>8, <3>1, <3>2
      <3>3. CASE i > n
        <4>1. i - 1 \in 0..(x.num - 1) /\ i # n
          BY <1>3, <3>1, <3>3
        <4> QED
          BY <1>3, <1>5, <1>6, <3>1, <3>3, <4>1 DEF Sound
      <3>4. CASE i < n
        <4>1. i \in 0..(x.num - 1) /\ i # n /\ ~ (i > n)
          BY <1>3, <3>1, <3>4
        <4> QED
          BY <1>3, <1>5, <1>6, <3>1, <4>1 DEF Sound
      <3> QED
        BY <1>3, <3>1, <3>2, <3>3, <3>4
    <2>2. ASSUME NEW i \in 0..(Order - 1)
          PROVE  Key(y, i) = 0 \/ \E q \in rq : KeyOf[q] = Key(y, i)
      <3>1. \A j \in 0..(Order - 1) : Key(x, j) = 0 \/ \E q \in rq : KeyOf[q] = Key(x, j)
        BY <1>6 DEF Sound
      <3>2. CASE i > x.num
        BY <1>5, <3>1, <3>2
      <3>3. CASE ~ (i > x.num)
        <4>1. i \in 0..x.num
          BY <1>3, <3>3
        <4>2. CASE i = n
          BY <1>5, <1>8, <4>1, <4>2
        <4>3. CASE i # n /\ i > n
          <5>1. i - 1 \in 0..(Order - 1)
            BY <1>3, <4>1, <4>3
          <5> QED
            BY <1>5, <3>1, <4>1, <4>3, <5>1
        <4>4. CASE i # n /\ ~ (i > n)
          BY <1>5, <3>1, <4>1, <4>4
        <4> QED
          BY <4>2, <4>3, <4>4
      <3> QED
        BY <3>2, <3>3
    <2> QED
      BY <1>7, <2>1, <2>2 DEF Sound
  <1>10. ASSUME NEW b \in 1..u
         PROVE  Sound(ms[b], K[b], rq) /\ Apart(ms[b], K[b], K)
    <2>1. CASE b = c
      BY <1>2, <1>5, <1>9, <2>1 DEF Apart
    <2>2. CASE b # c
      <3>1. ms[b] = ns[b] /\ Sound(ns[b], K[b], rs) /\ Apart(ns[b], K[b], K)
        BY <1>1, <1>2, <2>2
      <3>2. Sound(ns[b], K[b], rq)
        BY <3>1 DEF Sound
      <3> QED
        BY <3>1, <3>2
    <2> QED
      BY <2>1, <2>2
  <1>11. \A m \in 1..u : \A i, b : IsKid(ms, m, i, b) <=> IsKid(ns, m, i, b)
    BY <1>2, <1>3, <1>5 DEF IsKid, x
  <1>12. Linked(ms, u, tp)
    BY <1>1, <1>11 DEF Linked
  <1>13. ASSUME NEW q \in rq
         PROVE  \E b \in 1..u : Holds(ms[b], q)
    <2>1. CASE q = r
      <3>1. n \in 0..(y.num - 1) /\ n \in 0..x.num
        BY <1>3, <1>5
      <3>2. Holds(y, r)
        BY <1>5, <3>1 DEF Holds
      <3> QED
        BY <1>2, <2>1, <3>2
    <2>2. CASE q \in rs
      <3>1. PICK b \in 1..u : Holds(ns[b], q)
        BY <1>1, <2>2
      <3>2. CASE b # c
        BY <1>2, <3>1, <3>2
      <3>3. CASE b = c
        <4>1. PICK i \in 0..(x.num - 1) : Child(x, i) = q
          BY <3>1, <3>3 DEF Holds, x
        <4>2. CASE i < n
          <5>1. i \in 0..x.num /\ i \in 0..(y.num - 1) /\ i # n /\ ~ (i > n)
            BY <1>3, <1>5, <4>2
          <5>2. Holds(y, q)
            BY <1>5, <4>1, <5>1 DEF Holds
          <5> QED
            BY <1>2, <5>2
        <4>3. CASE ~ (i < n)
          <5>1. i + 1 \in 0..x.num /\ i + 1 \in 0..(y.num - 1) /\ i + 1 # n /\ i + 1 > n /\ (i + 1) - 1 = i
            BY <1>3, <1>5, <4>3
          <5>2. Holds(y, q)
            BY <1>5, <4>1, <5>1 DEF Holds
          <5> QED
            BY <1>2, <5>2
        <4> QED
          BY <4>2, <4>3
      <3> QED
        BY <3>2, <3>3
    <2> QED
      BY <2>1, <2>2
  <1>14. \A b \in Ids \ (1..u) : ms[b].leaf
    BY <1>1, <1>2
  <1>15. Grown(ms, u, tp, K, rq)
    BY <1>1, <1>10, <1>12, <1>13, <1>14 DEF Grown
  <1> QED
    BY <1>15 DEF ms

-----------------------------------------------------------------------------
(* What a walk down the tree reads.                                        *)

(* f[b] is gathered from the children of b, or it is v[b] for b in L.      *)
IsGather(f, D, U, L, v, kids) ==
  /\ f \in [D -> SUBSET U]
  /\ \A b \in D, e \in U :
       e \in f[b] <=> IF b \in L THEN e \in v[b]
                      ELSE \E c \in kids[b] : e \in f[c]

(* There is such a function: the least one.                                *)
LEMMA Gather ==
  ASSUME NEW D, NEW U, NEW L, NEW v \in [D -> SUBSET U],
         NEW kids \in [D -> SUBSET D]
  PROVE  \E f : IsGather(f, D, U, L, v, kids)
  <1> DEFINE Step(g, b, e) == IF b \in L THEN e \in v[b]
                              ELSE \E c \in kids[b] : e \in g[c]
             Pre == {g \in [D -> SUBSET U] :
                       \A b \in D, e \in U : Step(g, b, e) => e \in g[b]}
             f == [b \in D |-> {e \in U : \A g \in Pre : e \in g[b]}]
             h == [b \in D |-> {e \in U : Step(f, b, e)}]
  <1>1. f \in [D -> SUBSET U]
    <2> HIDE DEF Pre
    <2> QED
      OBVIOUS
  <1>2. \A b \in D, e \in U : e \in f[b] <=> \A g \in Pre : e \in g[b]
    <2> HIDE DEF Pre
    <2> QED
      OBVIOUS
  <1> HIDE DEF f
  <1>3. ASSUME NEW b \in D, NEW e \in U, Step(f, b, e)
        PROVE  e \in f[b]
    <2> SUFFICES ASSUME NEW g \in Pre
                 PROVE  e \in g[b]
      BY <1>2
    <2>1. \A c \in D : e \in f[c] => e \in g[c]
      BY <1>2
    <2>2. Step(g, b, e)
      <3>1. kids[b] \subseteq D
        OBVIOUS
      <3> QED
        BY <1>3, <2>1, <3>1
    <2>3. Step(g, b, e) => e \in g[b]
      <3> HIDE DEF Step
      <3> QED
        OBVIOUS
    <2> QED
      BY <2>2, <2>3
  <1>4. h \in Pre
    <2>1. h \in [D -> SUBSET U] /\ \A b \in D, e \in U : e \in h[b] <=> Step(f, b, e)
      <3> HIDE DEF Step
      <3> QED
        OBVIOUS
    <2> HIDE DEF h
    <2>2. \A b \in D, e \in U : e \in h[b] => e \in f[b]
      BY <1>3, <2>1
    <2>3. ASSUME NEW b \in D, NEW e \in U, Step(h, b, e)
          PROVE  e \in h[b]
      <3>1. kids[b] \subseteq D
        OBVIOUS
      <3>2. Step(f, b, e)
        BY <2>2, <2>3, <3>1
      <3> QED
        BY <2>1, <3>2
    <2> HIDE DEF Step
    <2> QED
      BY <2>1, <2>3
  <1>5. ASSUME NEW b \in D, NEW e \in U, e \in f[b]
        PROVE  Step(f, b, e)
    <2>1. e \in h[b]
      <3> HIDE DEF h, Pre
      <3> QED
        BY <1>2, <1>4, <1>5
    <2> HIDE DEF Step
    <2> QED
      BY <2>1
  <1>6. \A b \in D, e \in U : e \in f[b] <=> Step(f, b, e)
    <2> HIDE DEF Step
    <2> QED
      BY <1>3, <1>5
  <1> QED
    BY <1>1, <1>6 DEF IsGather

(* The blocks are a search tree, and every one of them is a part of it.    *)
Tree(ns, u, tp, lev, K, rs) ==
  /\ ns \in [Ids -> Node] /\ u \in 0..MaxNodes
  /\ rs \in SUBSET Rows
  /\ Shape(ns, u, tp, lev, 1..u)
  /\ Grown(ns, u, tp, K, rs)

LEMMA TreeFacts ==
  ASSUME NEW ns, NEW u, NEW tp, NEW lev, NEW K, NEW rs, Tree(ns, u, tp, lev, K, rs)
  PROVE  /\ ns \in [Ids -> Node] /\ u \in Nat /\ 1..u \subseteq Ids
         /\ rs \subseteq Rows /\ rs \subseteq Nat
         /\ lev \in [Ids -> Nat]
         /\ \A b \in Ids \ (1..u) : ns[b].leaf
         /\ \A b \in 1..u : b \in Ids /\ ns[b] \in Node /\ lev[b] \in Nat
         /\ \A b \in 1..u : ~ns[b].leaf => \A i \in 0..ns[b].num :
              Child(ns[b], i) \in 1..u /\ lev[b] = lev[Child(ns[b], i)] + 1
  <1>1. /\ ns \in [Ids -> Node] /\ u \in Nat /\ 1..u \subseteq Ids
        /\ rs \subseteq Rows /\ rs \subseteq Nat /\ lev \in [Ids -> Nat]
        /\ \A b \in Ids \ (1..u) : ns[b].leaf
    BY BTreeAssumption DEF Tree, Shape, Grown, Ids
  <1>2. \A b \in 1..u : Fit(ns[b], lev[b], 1..u, lev)
    BY DEF Tree, Shape
  <1> QED
    BY <1>1, <1>2 DEF Fit

(* f is the function that gathers the rows below a block.                  *)
IsUnder(f, ns) ==
  f = [b \in Ids |->
        IF ns[b].leaf
        THEN {Elem(ns[b], i).ref : i \in 0..(ns[b].num - 1)}
        ELSE UNION {f[Child(ns[b], i)] : i \in 0..ns[b].num}]

LEMMA UnderAt ==
  ASSUME NEW f, NEW ns, IsUnder(f, ns), NEW b \in Ids
  PROVE  /\ ns[b].leaf => \A e : e \in f[b] <=>
              \E i \in 0..(ns[b].num - 1) : e = Child(ns[b], i)
         /\ ~ns[b].leaf => \A e : e \in f[b] <=>
              \E i \in 0..ns[b].num : e \in f[Child(ns[b], i)]
  <1>1. f[b] = IF ns[b].leaf
               THEN {Elem(ns[b], i).ref : i \in 0..(ns[b].num - 1)}
               ELSE UNION {f[Child(ns[b], i)] : i \in 0..ns[b].num}
    <2> DEFINE g == [a \in Ids |->
                 IF ns[a].leaf
                 THEN {Elem(ns[a], i).ref : i \in 0..(ns[a].num - 1)}
                 ELSE UNION {f[Child(ns[a], i)] : i \in 0..ns[a].num}]
    <2>1. f = g
      BY Zenon DEF IsUnder
    <2>2. g[b] = IF ns[b].leaf
               THEN {Elem(ns[b], i).ref : i \in 0..(ns[b].num - 1)}
               ELSE UNION {f[Child(ns[b], i)] : i \in 0..ns[b].num}
      BY Zenon
    <2> HIDE DEF g
    <2> QED
      BY <2>1, <2>2, Zenon
  <1>2. ns[b].leaf => \A i : Elem(ns[b], i).ref = Child(ns[b], i)
    BY DEF Elem, Child
  <1>3. ASSUME ns[b].leaf, NEW e
        PROVE  e \in f[b] <=> \E i \in 0..(ns[b].num - 1) : e = Child(ns[b], i)
    <2>1. f[b] = {Elem(ns[b], i).ref : i \in 0..(ns[b].num - 1)}
      BY <1>1, <1>3, Zenon
    <2> QED
      BY <1>2, <1>3, <2>1
  <1>4. ASSUME ~ns[b].leaf, NEW e
        PROVE  e \in f[b] <=> \E i \in 0..ns[b].num : e \in f[Child(ns[b], i)]
    <2>1. f[b] = UNION {f[Child(ns[b], i)] : i \in 0..ns[b].num}
      BY <1>1, <1>4, Zenon
    <2> QED
      BY <2>1
  <1> QED
    BY <1>3, <1>4, Zenon

LEMMA UnderExists ==
  ASSUME NEW ns, NEW u, NEW tp, NEW lev, NEW K, NEW rs, Tree(ns, u, tp, lev, K, rs)
  PROVE  \E f : IsUnder(f, ns)
  <1> DEFINE L == {b \in Ids : ns[b].leaf}
             v == [b \in Ids |-> IF ns[b].leaf
                                 THEN {Elem(ns[b], i).ref : i \in 0..(ns[b].num - 1)}
                                 ELSE {}]
             kids == [b \in Ids |-> IF ns[b].leaf THEN {}
                                    ELSE {Child(ns[b], i) : i \in 0..ns[b].num}]
  <1>1. ASSUME NEW b \in Ids
        PROVE  /\ ns[b].leaf => {Elem(ns[b], i).ref : i \in 0..(ns[b].num - 1)} \subseteq Nat
               /\ ~ns[b].leaf => {Child(ns[b], i) : i \in 0..ns[b].num} \subseteq Ids
    <2>1. ns[b] \in Node
      BY TreeFacts
    <2>2. ns[b].leaf => \A i \in 0..(ns[b].num - 1) : Elem(ns[b], i).ref \in Nat
      BY <2>1, NodeFacts DEF Elem, Child
    <2>3. ~ns[b].leaf => b \in 1..u
      BY TreeFacts
    <2>4. ~ns[b].leaf => \A i \in 0..ns[b].num : Child(ns[b], i) \in Ids
      BY <2>3, TreeFacts
    <2> QED
      BY <2>2, <2>4
  <1>2. v \in [Ids -> SUBSET Nat] /\ kids \in [Ids -> SUBSET Ids]
    BY <1>1
  <1>3. \A b \in Ids : /\ b \in L <=> ns[b].leaf
                       /\ ns[b].leaf => v[b] = {Elem(ns[b], i).ref : i \in 0..(ns[b].num - 1)}
                       /\ ~ns[b].leaf => kids[b] = {Child(ns[b], i) : i \in 0..ns[b].num}
    BY Zenon
  <1> HIDE DEF L, v, kids
  <1>a. PICK f : IsGather(f, Ids, Nat, L, v, kids)
    BY <1>2, Gather
  <1>4. /\ f \in [Ids -> SUBSET Nat]
        /\ \A b \in Ids, e \in Nat :
             e \in f[b] <=> IF b \in L THEN e \in v[b]
                            ELSE \E c \in kids[b] : e \in f[c]
    BY <1>a DEF IsGather
  <1>5. ASSUME NEW b \in Ids
        PROVE  f[b] = IF ns[b].leaf
                      THEN {Elem(ns[b], i).ref : i \in 0..(ns[b].num - 1)}
                      ELSE UNION {f[Child(ns[b], i)] : i \in 0..ns[b].num}
    <2>1. CASE ns[b].leaf
      <3>1. v[b] \subseteq Nat /\ f[b] \subseteq Nat
        BY <1>2, <1>4
      <3>2. f[b] = v[b]
        BY <1>3, <1>4, <2>1, <3>1
      <3> QED
        BY <1>3, <2>1, <3>2, Zenon
    <2>2. CASE ~ns[b].leaf
      <3>1. kids[b] \subseteq Ids /\ f[b] \subseteq Nat
        BY <1>2, <1>4
      <3>2. \A e \in Nat : e \in f[b] <=> \E c \in kids[b] : e \in f[c]
        BY <1>3, <1>4, <2>2
      <3>3. \A c \in kids[b] : f[c] \subseteq Nat
        BY <1>4, <3>1
      <3>4. f[b] = UNION {f[c] : c \in kids[b]}
        BY <3>1, <3>2, <3>3
      <3>5. {f[c] : c \in kids[b]} = {f[Child(ns[b], i)] : i \in 0..ns[b].num}
        <4>1. kids[b] = {Child(ns[b], i) : i \in 0..ns[b].num}
          BY <1>3, <2>2
        <4> QED
          BY <4>1
      <3> QED
        BY <2>2, <3>4, <3>5, Zenon
    <2> QED
      BY <2>1, <2>2
  <1>6. IsUnder(f, ns)
    <2> DEFINE X(b) == IF ns[b].leaf
                      THEN {Elem(ns[b], i).ref : i \in 0..(ns[b].num - 1)}
                      ELSE UNION {f[Child(ns[b], i)] : i \in 0..ns[b].num}
    <2>1. \A b \in Ids : f[b] = X(b)
      BY <1>5, Zenon
    <2>2. f = [b \in Ids |-> X(b)]
      <3> HIDE DEF X
      <3> QED
        BY <1>4, <2>1
    <2> QED
      BY <2>2, Zenon DEF IsUnder
  <1> QED
    BY <1>6

(* Below a block there are rows of the table, with keys that insert would  *)
(* bring there.                                                            *)
LEMMA UnderWithin ==
  ASSUME NEW ns, NEW u, NEW tp, NEW lev, NEW K, NEW rs, Tree(ns, u, tp, lev, K, rs),
         NEW f, IsUnder(f, ns)
  PROVE  \A b \in 1..u : \A r \in f[b] : r \in rs /\ KeyOf[r] \in K[b]
  <1> DEFINE Good(b) == \A r \in f[b] : r \in rs /\ KeyOf[r] \in K[b]
             Bad == {b \in 1..u : ~Good(b)}
             Mus == {lev[b] : b \in Bad}
  <1> SUFFICES ASSUME Bad # {}
               PROVE  FALSE
    OBVIOUS
  <1>1. \A b \in Bad : b \in 1..u /\ ~Good(b)
    OBVIOUS
  <1>a. \A b \in 1..u : b \notin Bad => Good(b)
    OBVIOUS
  <1> HIDE DEF Bad
  <1>2. Mus \subseteq Nat /\ Mus # {}
    BY <1>1, TreeFacts
  <1>3. PICK m \in Mus : \A y \in Mus : m <= y
    <2> HIDE DEF Mus
    <2> QED
      BY <1>2, NatMin
  <1>4. PICK b \in Bad : m = lev[b]
    BY <1>3
  <1>5. /\ b \in 1..u /\ b \in Ids /\ ns[b] \in Node /\ lev[b] \in Nat
        /\ ~ns[b].leaf => \A i \in 0..ns[b].num :
              Child(ns[b], i) \in 1..u /\ lev[b] = lev[Child(ns[b], i)] + 1
    BY <1>1, <1>4, TreeFacts
  <1>6. Sound(ns[b], K[b], rs) /\ Apart(ns[b], K[b], K)
    BY <1>5 DEF Tree, Grown
  <1>7. Good(b)
    <2> SUFFICES ASSUME NEW r \in f[b]
                 PROVE  r \in rs /\ KeyOf[r] \in K[b]
      OBVIOUS
    <2>1. CASE ns[b].leaf
      <3>1. PICK i \in 0..(ns[b].num - 1) : r = Child(ns[b], i)
        BY <1>5, <2>1, UnderAt
      <3> QED
        BY <1>6, <2>1, <3>1 DEF Sound
    <2>2. CASE ~ns[b].leaf
      <3>1. PICK i \in 0..ns[b].num : r \in f[Child(ns[b], i)]
        BY <1>5, <2>2, UnderAt
      <3> DEFINE c == Child(ns[b], i)
      <3>2. c \in 1..u /\ lev[b] = lev[c] + 1
        BY <1>5, <2>2
      <3>3. lev[c] \in Nat
        BY <3>2, TreeFacts
      <3> HIDE DEF c
      <3>4. c \notin Bad
        <4> SUFFICES ASSUME c \in Bad
                     PROVE  FALSE
          OBVIOUS
        <4>1. lev[c] \in Mus
          OBVIOUS
        <4> HIDE DEF Mus
        <4>2. lev[b] <= lev[c]
          BY <4>1, <1>3, <1>4
        <4> QED
          BY <4>2, <3>2, <3>3
      <3>5. Good(c)
        BY <1>a, <3>2, <3>4
      <3>6. r \in rs /\ KeyOf[r] \in K[c]
        BY <3>1, <3>5 DEF c
      <3>7. K[c] = Cut(ns[b], K[b], i)
        BY <1>6, <2>2 DEF Apart, c
      <3> QED
        BY <3>6, <3>7 DEF Cut
    <2> QED
      BY <2>1, <2>2
  <1> QED
    BY <1>1, <1>4, <1>7

(* Every row is below the root.                                            *)
LEMMA UnderTop ==
  ASSUME NEW ns, NEW u, NEW tp, NEW lev, NEW K, NEW rs, Tree(ns, u, tp, lev, K, rs),
         tp # None, NEW f, IsUnder(f, ns), NEW r \in rs
  PROVE  r \in f[tp]
  <1>0. tp \in 1..u /\ \A b \in 1..u : lev[b] <= lev[tp]
    <2>1. tp \in 1..u /\ \A b \in (1..u) \ {tp} : lev[b] < lev[tp]
      BY DEF Tree, Shape
    <2> QED
      BY <2>1, TreeFacts
  <1> DEFINE On == {b \in 1..u : r \in f[b]}
             Mus == {lev[tp] - lev[b] : b \in On}
  <1>1. \A b \in 1..u : b \in On <=> r \in f[b]
    OBVIOUS
  <1>2. On \subseteq 1..u /\ On # {}
    <2>1. PICK b \in 1..u : Holds(ns[b], r)
      BY DEF Tree, Grown
    <2>2. r \in f[b]
      BY <2>1, UnderAt, TreeFacts DEF Holds
    <2> QED
      BY <2>2
  <1> HIDE DEF On
  <1>3. Mus \subseteq Nat /\ Mus # {}
    <2>1. ASSUME NEW b \in On
          PROVE  lev[tp] - lev[b] \in Nat
      <3>1. lev[b] \in Nat /\ lev[tp] \in Nat /\ lev[b] <= lev[tp]
        BY <1>0, <1>2, TreeFacts
      <3> QED
        BY <3>1
    <2> QED
      BY <1>2, <2>1
  <1>4. PICK m \in Mus : \A y \in Mus : m <= y
    <2> HIDE DEF Mus
    <2> QED
      BY <1>3, NatMin
  <1>5. PICK b \in On : m = lev[tp] - lev[b]
    BY <1>4
  <1>6. b \in 1..u /\ r \in f[b]
    BY <1>1, <1>2
  <1>7. CASE b # tp
    <2>1. PICK p \in 1..u, i \in Nat : IsKid(ns, p, i, b)
      BY <1>6, <1>7 DEF Tree, Grown, Linked
    <2>2. ~ns[p].leaf /\ i \in 0..ns[p].num /\ Child(ns[p], i) = b
      BY <2>1 DEF IsKid
    <2>3. lev[p] = lev[b] + 1 /\ lev[p] \in Nat /\ lev[b] \in Nat /\ lev[tp] \in Nat /\ p \in Ids
      BY <1>0, <1>6, <2>2, TreeFacts
    <2>4. r \in f[p]
      BY <1>6, <2>2, <2>3, UnderAt
    <2>5. lev[tp] - lev[p] \in Mus
      BY <1>1, <2>4
    <2> HIDE DEF Mus
    <2>6. lev[tp] - lev[b] <= lev[tp] - lev[p]
      BY <1>4, <1>5, <2>5
    <2> QED
      BY <2>3, <2>6
  <1> QED
    BY <1>6, <1>7

(* The leaves of a tree that has only grown lead to the rows of the table. *)
LEMMA RefsExact ==
  ASSUME NEW lev, NEW K, Tree(nodes, used, top, lev, K, rows)
  PROVE  Refs = rows
  <1>1. CASE top = None
    <2>1. used = 0
      BY <1>1 DEF Tree, Grown
    <2>2. 1..used = {}
      BY <2>1
    <2>3. rows = {}
      BY <2>2 DEF Tree, Grown
    <2>4. Refs = {}
      BY <1>1, Zenon DEF Refs
    <2> QED
      BY <2>3, <2>4
  <1>2. CASE top # None
    <2> DEFINE f == CHOOSE f : IsUnder(f, nodes)
    <2>1. IsUnder(f, nodes)
      BY UnderExists, Zenon
    <2>2. Refs = IF top = None THEN {} ELSE f[top]
      BY Zenon DEF Refs, IsUnder
    <2> HIDE DEF f
    <2>3. top \in 1..used
      BY <1>2 DEF Tree, Grown
    <2>4. \A r \in f[top] : r \in rows
      BY <2>1, <2>3, UnderWithin
    <2>5. \A r \in rows : r \in f[top]
      BY <1>2, <2>1, UnderTop
    <2> QED
      BY <1>2, <2>2, <2>4, <2>5
  <1> QED
    BY <1>1, <1>2

(* The walk of tree::end().                                                *)
IsLast(f, ns) ==
  f = [b \in Ids |-> IF ns[b].leaf THEN b ELSE f[Child(ns[b], ns[b].num)]]

(* A walk from a block to one of its children ends.                        *)
LEMMA WalkSinks ==
  ASSUME NEW ns, NEW u, NEW tp, NEW lev, NEW K, NEW rs, Tree(ns, u, tp, lev, K, rs),
         NEW T, \A b \in Ids : ns[b].leaf => b \in T,
         NEW nx, \A b \in Ids \ T : \E i \in 0..ns[b].num : nx[b] = Child(ns[b], i)
  PROVE  Sinks(Ids, lev, T, nx)
  <1>1. lev \in [Ids -> Nat]
    BY TreeFacts
  <1>2. ASSUME NEW b \in Ids \ T
        PROVE  nx[b] \in Ids /\ lev[nx[b]] < lev[b]
    <2>1. ~ns[b].leaf /\ b \in 1..u
      BY TreeFacts
    <2>2. PICK i \in 0..ns[b].num : nx[b] = Child(ns[b], i)
      OBVIOUS
    <2>3. nx[b] \in 1..u /\ lev[b] = lev[nx[b]] + 1
      BY <2>1, <2>2, TreeFacts
    <2>4. nx[b] \in Ids /\ lev[nx[b]] \in Nat
      BY <2>3, TreeFacts
    <2> QED
      BY <2>3, <2>4
  <1> QED
    BY <1>1, <1>2 DEF Sinks

LEMMA LastExists ==
  ASSUME NEW ns, NEW u, NEW tp, NEW lev, NEW K, NEW rs, Tree(ns, u, tp, lev, K, rs)
  PROVE  \E f : IsLast(f, ns)
  <1> DEFINE T == {b \in Ids : ns[b].leaf}
             v == [b \in Ids |-> b]
             nx == [b \in Ids |-> Child(ns[b], ns[b].num)]
  <1>1. PICK f : IsLoop(f, Ids, T, v, nx)
    <2>1. \A b \in Ids : ns[b].leaf => b \in T
      OBVIOUS
    <2>2. \A b \in Ids \ T : \E i \in 0..ns[b].num : nx[b] = Child(ns[b], i)
      <3>1. ASSUME NEW b \in Ids
            PROVE  ns[b].num \in 0..ns[b].num
        BY TreeFacts, NodeFacts
      <3> QED
        BY <3>1
    <2> HIDE DEF v, T, nx
    <2>3. Sinks(Ids, lev, T, nx)
      BY <2>1, <2>2, WalkSinks
    <2> QED
      BY <2>3, Loop
  <1> DEFINE X(b) == IF ns[b].leaf THEN b ELSE f[Child(ns[b], ns[b].num)]
  <1>2. \A b \in Ids : (IF b \in T THEN v[b] ELSE f[nx[b]]) = X(b)
    OBVIOUS
  <1>3. f = [b \in Ids |-> X(b)]
    <2> HIDE DEF X, T, v, nx
    <2> QED
      BY <1>1, <1>2 DEF IsLoop
  <1>4. IsLast(f, ns)
    BY <1>3, Zenon DEF IsLast
  <1> QED
    BY <1>4

(* tree::end() is behind the last element of a leaf.                       *)
LEMMA EndAtLeaf ==
  ASSUME NEW lev, NEW K, Tree(nodes, used, top, lev, K, rows), root = top, top # None
  PROVE  \E e \in 1..used : nodes[e].leaf /\ End = [node |-> e, at |-> nodes[e].num]
  <1> DEFINE f == CHOOSE f : IsLast(f, nodes)
  <1>1. IsLast(f, nodes)
    BY LastExists, Zenon
  <1>2. End = IF root = None THEN NotFound
              ELSE [node |-> f[root], at |-> nodes[f[root]].num]
    BY Zenon DEF End, IsLast
  <1> HIDE DEF f
  <1>3. ASSUME NEW b \in Ids
        PROVE  f[b] = IF nodes[b].leaf THEN b ELSE f[Child(nodes[b], nodes[b].num)]
    BY <1>1 DEF IsLast
  <1> DEFINE Bad == {b \in 1..used : ~(f[b] \in 1..used /\ nodes[f[b]].leaf)}
             Mus == {lev[b] : b \in Bad}
  <1>4. Bad = {}
    <2> SUFFICES ASSUME Bad # {}
                 PROVE  FALSE
      OBVIOUS
    <2>1. \A b \in 1..used : b \in Bad <=> ~(f[b] \in 1..used /\ nodes[f[b]].leaf)
      OBVIOUS
    <2>2. Bad \subseteq 1..used
      OBVIOUS
    <2> HIDE DEF Bad
    <2>3. Mus \subseteq Nat /\ Mus # {}
      BY <2>2, TreeFacts
    <2>4. PICK m \in Mus : \A y \in Mus : m <= y
      <3> HIDE DEF Mus
      <3> QED
        BY <2>3, NatMin
    <2>5. PICK b \in Bad : m = lev[b]
      BY <2>4
    <2>6. b \in 1..used /\ b \in Ids /\ nodes[b] \in Node /\ lev[b] \in Nat
      BY <2>2, TreeFacts
    <2>7. ~nodes[b].leaf
      BY <1>3, <2>1, <2>6
    <2> DEFINE c == Child(nodes[b], nodes[b].num)
    <2>8. nodes[b].num \in 0..nodes[b].num
      BY <2>6, NodeFacts
    <2>9. c \in 1..used /\ lev[b] = lev[c] + 1
      BY <2>6, <2>7, <2>8, TreeFacts
    <2>10. lev[c] \in Nat
      BY <2>9, TreeFacts
    <2>11. f[b] = f[c]
      BY <1>3, <2>6, <2>7
    <2> HIDE DEF c
    <2>12. c \in Bad
      BY <2>1, <2>6, <2>9, <2>11
    <2>13. lev[c] \in Mus
      BY <2>12
    <2> HIDE DEF Mus
    <2> QED
      BY <2>4, <2>5, <2>9, <2>10, <2>13
  <1>5. top \in 1..used
    BY DEF Tree, Grown
  <1>6. f[top] \in 1..used /\ nodes[f[top]].leaf
    BY <1>4, <1>5
  <1>7. End = [node |-> f[top], at |-> nodes[f[top]].num]
    BY <1>2
  <1> QED
    BY <1>6, <1>7

(* The walk of node::find() for the key k, where end is tree::end().       *)
IsLook(f, ns, k, end) ==
  f = [b \in Ids |->
        LET i == FindKey(ns[b], k) IN
        IF Key(ns[b], i) = k THEN [node |-> b, at |-> i]
        ELSE IF ns[b].leaf THEN end
        ELSE f[Child(ns[b], i)]]

LEMMA LookExists ==
  ASSUME NEW ns, NEW u, NEW tp, NEW lev, NEW K, NEW rs, Tree(ns, u, tp, lev, K, rs),
         NEW k \in Nat, NEW end
  PROVE  \E f : IsLook(f, ns, k, end)
  <1> DEFINE at(b) == FindKey(ns[b], k)
             T == {b \in Ids : ns[b].leaf \/ Key(ns[b], at(b)) = k}
             v == [b \in Ids |-> IF Key(ns[b], at(b)) = k THEN [node |-> b, at |-> at(b)]
                                 ELSE end]
             nx == [b \in Ids |-> Child(ns[b], at(b))]
  <1>a. \A b \in Ids : at(b) \in 0..ns[b].num
    BY TreeFacts, FindKeyCorrect DEF Answer
  <1> HIDE DEF at
  <1>1. PICK f : IsLoop(f, Ids, T, v, nx)
    <2>1. \A b \in Ids : ns[b].leaf => b \in T
      OBVIOUS
    <2>2. \A b \in Ids \ T : \E i \in 0..ns[b].num : nx[b] = Child(ns[b], i)
      BY <1>a
    <2> HIDE DEF v, T, nx
    <2>3. Sinks(Ids, lev, T, nx)
      BY <2>1, <2>2, WalkSinks
    <2> QED
      BY <2>3, Loop
  <1> DEFINE X(b) == IF Key(ns[b], at(b)) = k THEN [node |-> b, at |-> at(b)]
                     ELSE IF ns[b].leaf THEN end
                     ELSE f[Child(ns[b], at(b))]
  <1>2. \A b \in Ids : (IF b \in T THEN v[b] ELSE f[nx[b]]) = X(b)
    OBVIOUS
  <1>3. f = [b \in Ids |-> X(b)]
    <2> HIDE DEF X, T, v, nx
    <2> QED
      BY <1>1, <1>2 DEF IsLoop
  <1>4. IsLook(f, ns, k, end)
    BY <1>3, Zenon DEF IsLook, at
  <1> QED
    BY <1>4

LEMMA LookAt ==
  ASSUME NEW f, NEW ns, NEW k, NEW end, IsLook(f, ns, k, end), NEW b \in Ids,
         NEW i, i = FindKey(ns[b], k)
  PROVE  /\ Key(ns[b], i) = k => f[b] = [node |-> b, at |-> i]
         /\ Key(ns[b], i) # k /\ ns[b].leaf => f[b] = end
         /\ Key(ns[b], i) # k /\ ~ns[b].leaf => f[b] = f[Child(ns[b], i)]
  <1> DEFINE X(a) == LET j == FindKey(ns[a], k) IN
                     IF Key(ns[a], j) = k THEN [node |-> a, at |-> j]
                     ELSE IF ns[a].leaf THEN end
                     ELSE f[Child(ns[a], j)]
  <1>1. f = [a \in Ids |-> X(a)]
    BY Zenon DEF IsLook
  <1>2. f[b] = X(b)
    <2> HIDE DEF X
    <2> QED
      BY <1>1
  <1>3. f[b] = IF Key(ns[b], i) = k THEN [node |-> b, at |-> i]
               ELSE IF ns[b].leaf THEN end ELSE f[Child(ns[b], i)]
    BY <1>2, Zenon
  <1> QED
    BY <1>3

(* node::find() from block b finds the key of a row that is below b.       *)
LEMMA LookFinds ==
  ASSUME NEW ns, NEW u, NEW tp, NEW lev, NEW K, NEW rs, Tree(ns, u, tp, lev, K, rs),
         NEW und, IsUnder(und, ns),
         NEW r \in rs, NEW k \in Nat, k = KeyOf[r],
         NEW e \in 1..u, ns[e].leaf, NEW end, end = [node |-> e, at |-> ns[e].num],
         NEW f, IsLook(f, ns, k, end)
  PROVE  \A b \in 1..u : r \in und[b] => f[b] # end
  <1> DEFINE Bad == {b \in 1..u : r \in und[b] /\ f[b] = end}
             Mus == {lev[b] : b \in Bad}
  <1> SUFFICES ASSUME Bad # {}
               PROVE  FALSE
    OBVIOUS
  <1>1. Bad \subseteq 1..u /\ \A b \in 1..u : b \in Bad <=> r \in und[b] /\ f[b] = end
    OBVIOUS
  <1> HIDE DEF Bad
  <1>2. Mus \subseteq Nat /\ Mus # {}
    BY <1>1, TreeFacts
  <1>3. PICK m \in Mus : \A y \in Mus : m <= y
    <2> HIDE DEF Mus
    <2> QED
      BY <1>2, NatMin
  <1>4. PICK b \in Bad : m = lev[b]
    BY <1>3
  <1>5. /\ b \in 1..u /\ b \in Ids /\ ns[b] \in Node /\ lev[b] \in Nat
        /\ r \in und[b] /\ f[b] = end
    BY <1>1, <1>4, TreeFacts
  <1>6. Sound(ns[b], K[b], rs) /\ Apart(ns[b], K[b], K)
    BY <1>5 DEF Tree, Grown
  <1> DEFINE x == ns[b]
  <1>7. PICK i : i = FindKey(x, k)
    OBVIOUS
  <1>8. /\ i \in 0..x.num /\ x.num \in Nat
        /\ \A j \in 0..x.num : Key(x, j) \in Nat
        /\ \/ i < x.num /\ Key(x, i) = k
           \/ /\ \A j \in 0..(i - 1) : Key(x, j) < k
              /\ \A j \in i..(x.num - 1) : Key(x, j) > k
    <2>1. Answer(i, x, k)
      BY <1>5, <1>7, FindKeyCorrect
    <2> QED
      BY <1>5, <1>6, <2>1, NodeFacts DEF Answer, Sound
  <1>9. /\ Key(x, i) = k => f[b] = [node |-> b, at |-> i]
        /\ Key(x, i) # k /\ ~x.leaf => f[b] = f[Child(x, i)]
    BY <1>5, <1>7, LookAt
  <1>10. CASE x.leaf
    <2>1. PICK j \in 0..(x.num - 1) : r = Child(x, j)
      BY <1>5, <1>10, UnderAt
    <2>2. Key(x, j) = k
      BY <1>6, <1>10, <2>1 DEF Sound
    <2>3. i < x.num /\ Key(x, i) = k
      <3>1. j \in 0..(i - 1) \/ j \in i..(x.num - 1)
        BY <1>8
      <3> QED
        BY <1>8, <2>2, <3>1
    <2>4. [node |-> b, at |-> i] = [node |-> e, at |-> ns[e].num]
      BY <1>5, <1>9, <2>3
    <2>5. i = ns[e].num /\ b = e
      BY <2>4
    <2> QED
      BY <1>8, <2>3, <2>5
  <1>11. CASE ~x.leaf
    <2>1. Key(x, i) # k
      <3> SUFFICES ASSUME Key(x, i) = k
                   PROVE  FALSE
        OBVIOUS
      <3>1. [node |-> b, at |-> i] = [node |-> e, at |-> ns[e].num]
        BY <1>5, <1>9
      <3>2. b = e
        BY <3>1
      <3> QED
        BY <1>11, <3>2
    <2>2. PICK j \in 0..x.num : r \in und[Child(x, j)]
      BY <1>5, <1>11, UnderAt
    <2>3. Child(x, j) \in 1..u /\ lev[b] = lev[Child(x, j)] + 1
      BY <1>5, <1>11, TreeFacts
    <2>4. k \in K[Child(x, j)]
      BY <2>2, <2>3, UnderWithin
    <2>5. K[Child(x, j)] = Cut(x, K[b], j)
      BY <1>6, <1>11 DEF Apart
    <2>6. /\ \A l \in 0..(j - 1) : Key(x, l) <= k
          /\ \A l \in j..(x.num - 1) : k <= Key(x, l)
      BY <2>4, <2>5 DEF Cut
    <2>7. i = j
      <3>1. CASE i < j
        <4>1. i \in 0..(j - 1) /\ i \in i..(x.num - 1) /\ i \in 0..x.num
          BY <1>8, <3>1
        <4> QED
          BY <1>8, <2>1, <2>6, <4>1
      <3>2. CASE j < i
        <4>1. j \in 0..(i - 1) /\ j \in j..(x.num - 1) /\ j \in 0..x.num
          BY <1>8, <3>2
        <4> QED
          BY <1>8, <2>1, <2>6, <4>1
      <3> QED
        BY <1>8, <3>1, <3>2
    <2> DEFINE c == Child(x, j)
    <2>8. c \in 1..u /\ r \in und[c] /\ f[c] = end /\ lev[b] = lev[c] + 1
      BY <1>5, <1>9, <1>11, <2>1, <2>2, <2>3, <2>7
    <2> HIDE DEF c
    <2>9. lev[c] \in Mus
      BY <1>1, <2>8
    <2>10. lev[c] \in Nat
      BY <2>8, TreeFacts
    <2> HIDE DEF Mus
    <2> QED
      BY <1>3, <1>4, <2>8, <2>9, <2>10
  <1> QED
    BY <1>10, <1>11

(* What node::find() finds is the key of a row.                            *)
LEMMA LookSound ==
  ASSUME NEW ns, NEW u, NEW tp, NEW lev, NEW K, NEW rs, Tree(ns, u, tp, lev, K, rs),
         NEW k \in Nat \ {0}, NEW end, NEW f, IsLook(f, ns, k, end)
  PROVE  \A b \in 1..u : f[b] # end => \E r \in rs : KeyOf[r] = k
  <1> SUFFICES ASSUME ~ \E r \in rs : KeyOf[r] = k
               PROVE  \A b \in 1..u : f[b] = end
    OBVIOUS
  <1> DEFINE Bad == {b \in 1..u : f[b] # end}
             Mus == {lev[b] : b \in Bad}
  <1> SUFFICES ASSUME Bad # {}
               PROVE  FALSE
    OBVIOUS
  <1>1. Bad \subseteq 1..u /\ \A b \in 1..u : b \in Bad <=> f[b] # end
    OBVIOUS
  <1> HIDE DEF Bad
  <1>2. Mus \subseteq Nat /\ Mus # {}
    BY <1>1, TreeFacts
  <1>3. PICK m \in Mus : \A y \in Mus : m <= y
    <2> HIDE DEF Mus
    <2> QED
      BY <1>2, NatMin
  <1>4. PICK b \in Bad : m = lev[b]
    BY <1>3
  <1>5. b \in 1..u /\ b \in Ids /\ ns[b] \in Node /\ lev[b] \in Nat /\ f[b] # end
    BY <1>1, <1>4, TreeFacts
  <1> DEFINE x == ns[b]
  <1>6. PICK i : i = FindKey(x, k)
    OBVIOUS
  <1>7. i \in 0..x.num /\ i \in 0..(Order - 1)
    <2>1. Answer(i, x, k)
      BY <1>5, <1>6, FindKeyCorrect
    <2>2. i \in 0..x.num
      BY <2>1 DEF Answer
    <2> QED
      BY <1>5, <2>2, NodeFacts
  <1>8. Key(x, i) # k
    <2>1. Sound(x, K[b], rs)
      BY <1>5 DEF Tree, Grown
    <2> QED
      BY <1>7, <2>1 DEF Sound
  <1>9. ~x.leaf /\ f[b] = f[Child(x, i)]
    <2>1. b \in Ids /\ i = FindKey(ns[b], k)
      BY <1>5, <1>6
    <2>2. /\ Key(ns[b], i) = k => f[b] = [node |-> b, at |-> i]
          /\ Key(ns[b], i) # k /\ ns[b].leaf => f[b] = end
          /\ Key(ns[b], i) # k /\ ~ns[b].leaf => f[b] = f[Child(ns[b], i)]
      BY <2>1, LookAt
    <2> QED
      BY <1>5, <1>8, <2>2
  <1> DEFINE c == Child(x, i)
  <1>10. c \in 1..u /\ lev[b] = lev[c] + 1
    BY <1>5, <1>7, <1>9, TreeFacts
  <1>11. f[c] # end
    BY <1>5, <1>9
  <1> HIDE DEF c
  <1>12. lev[c] \in Mus /\ lev[c] \in Nat
    BY <1>1, <1>10, <1>11, TreeFacts
  <1> HIDE DEF Mus
  <1> QED
    BY <1>3, <1>4, <1>5, <1>10, <1>12

(* tree::find() finds the keys of the rows, and no others.                 *)
LEMMA FoundExact ==
  ASSUME NEW lev, NEW K, Tree(nodes, used, top, lev, K, rows), root = top,
         NEW k \in Nat \ {0}
  PROVE  Found(k) <=> \E r \in rows : KeyOf[r] = k
  <1>1. CASE top = None
    <2>1. used = 0
      BY <1>1 DEF Tree, Grown
    <2>2. 1..used = {}
      BY <2>1
    <2>3. rows = {}
      BY <2>2 DEF Tree, Grown
    <2>4. End = NotFound /\ Find(k) = NotFound
      BY <1>1, Zenon DEF End, Find
    <2> QED
      BY <2>3, <2>4 DEF Found
  <1>2. CASE top # None
    <2>1. PICK end : end = End
      OBVIOUS
    <2>2. PICK e \in 1..used : nodes[e].leaf /\ end = [node |-> e, at |-> nodes[e].num]
      BY <1>2, <2>1, EndAtLeaf
    <2> DEFINE f == CHOOSE f : IsLook(f, nodes, k, End)
    <2>3. IsLook(f, nodes, k, End)
      BY LookExists, Zenon
    <2>4. Find(k) = IF root = None THEN NotFound ELSE f[root]
      BY Zenon DEF Find, IsLook
    <2> HIDE DEF f
    <2>5. Find(k) = f[top] /\ top \in 1..used /\ IsLook(f, nodes, k, end)
      BY <1>2, <2>1, <2>3, <2>4 DEF Tree, Grown
    <2>6. Found(k) <=> f[top] # end
      BY <2>1, <2>5 DEF Found
    <2>7. f[top] # end => \E r \in rows : KeyOf[r] = k
      BY <2>5, LookSound
    <2>8. ASSUME NEW r \in rows, KeyOf[r] = k
          PROVE  f[top] # end
      <3>1. PICK und : IsUnder(und, nodes)
        BY UnderExists
      <3>2. r \in und[top]
        BY <1>2, <3>1, UnderTop
      <3> QED
        BY <2>2, <2>5, <2>8, <3>1, <3>2, LookFinds
    <2> QED
      BY <2>6, <2>7, <2>8
  <1> QED
    BY <1>1, <1>2

-----------------------------------------------------------------------------
(* What the steps of an insert do to the tree.                             *)

(* The first leaf.                                                         *)
LEMMA FirstTree ==
  ASSUME NEW ns, NEW u, NEW lev, NEW K, NEW rs, Tree(ns, u, None, lev, K, rs),
         NEW a, a = u + 1, a \in Ids, NEW r \in Rows,
         NEW x \in Node, x.leaf = TRUE, x.num = 1, Child(x, 0) = r,
         Key(x, 0) = KeyOf[r], \A i \in 0..(Order - 1) : i # 0 => Key(x, i) = 0
  PROVE  \E lev2, K2 : Tree([ns EXCEPT ![a] = x], a, a, lev2, K2, rs \union {r})
  <1> DEFINE ms == [ns EXCEPT ![a] = x]
             K2 == [b \in Ids |-> Nat]
             lev2 == [b \in Ids |-> 0]
             rq == rs \union {r}
  <1>1. u = 0
    BY DEF Tree, Grown
  <1>2. a = 1 /\ 1..u = {} /\ 1..a = {a} /\ a # None
    BY <1>1 DEF None
  <1>3. rs = {} /\ rq = {r} /\ rq \in SUBSET Rows /\ KeyOf[r] \in Nat
    BY <1>2, BTreeAssumption DEF Tree, Grown
  <1>4. ms \in [Ids -> Node] /\ ms[a] = x /\ \A b \in Ids \ {a} : ms[b].leaf
    BY <1>2 DEF Tree, Grown
  <1>5. a \in 0..MaxNodes
    BY <1>2, BTreeAssumption DEF Ids
  <1>6. Fit(x, 0, 1..a, lev2)
    BY DEF Fit
  <1>7. lev2 \in [Ids -> Nat] /\ lev2[a] = 0 /\ K2 \in [Ids -> SUBSET Nat] /\ K2[a] = Nat
    OBVIOUS
  <1> HIDE DEF ms, K2, lev2, rq
  <1>8. Shape(ms, a, a, lev2, 1..a)
    BY <1>2, <1>4, <1>6, <1>7 DEF Shape
  <1>9. Sound(x, Nat, rq) /\ Apart(x, Nat, K2)
    <2>1. Ordered(x)
      BY DEF Ordered
    <2>2. \A i \in 0..(x.num - 1) : i = 0
      OBVIOUS
    <2> QED
      BY <1>3, <2>1, <2>2 DEF Sound, Apart
  <1>10. Linked(ms, a, a)
    <2>1. \A p \in 1..a : ms[p].leaf = TRUE
      BY <1>2, <1>4
    <2> QED
      BY <1>2, <2>1 DEF Linked, IsKid
  <1>11. Holds(x, r)
    BY DEF Holds
  <1>12. Grown(ms, a, a, K2, rq)
    <2>1. \A b \in 1..a : Sound(ms[b], K2[b], rq) /\ Apart(ms[b], K2[b], K2)
      BY <1>2, <1>4, <1>7, <1>9
    <2>2. \A s \in rq : \E b \in 1..a : Holds(ms[b], s)
      BY <1>2, <1>3, <1>4, <1>11
    <2> QED
      BY <1>2, <1>4, <1>7, <1>10, <2>1, <2>2 DEF Grown
  <1>13. Tree(ms, a, a, lev2, K2, rq)
    BY <1>3, <1>4, <1>5, <1>8, <1>12 DEF Tree
  <1> QED
    BY <1>13 DEF ms, rq

(* The blocks are a tree in which an insert of k may go on at block b.     *)
Goes(ns, u, tp, rs, b, k) ==
  \E lev, K : Tree(ns, u, tp, lev, K, rs) /\ k \in K[b]

(* A new root above the old one.                                           *)
LEMMA PromoteTree ==
  ASSUME NEW ns, NEW u, NEW tp, NEW lev, NEW K, NEW rs, Tree(ns, u, tp, lev, K, rs),
         tp # None, ns[tp].num >= MinDegree - 1,
         NEW a, a = u + 1, a <= MaxNodes,
         NEW x \in Node, x.leaf = FALSE, x.num = 0, Child(x, 0) = tp,
         \A i \in 0..(Order - 1) : Key(x, i) = 0,
         NEW k \in Nat, NEW ms, ms = [ns EXCEPT ![a] = x]
  PROVE  Goes(ms, a, a, rs, tp, k)
  <1> DEFINE lev2 == [lev EXCEPT ![a] = lev[tp] + 1]
             K2 == [K EXCEPT ![a] = Nat]
  <1>1. /\ ns \in [Ids -> Node] /\ u \in 0..MaxNodes /\ u \in Nat /\ rs \in SUBSET Rows
        /\ Shape(ns, u, tp, lev, 1..u) /\ Grown(ns, u, tp, K, rs) /\ 1..u \subseteq Ids
    BY TreeFacts DEF Tree
  <1>2. a \in Ids /\ 1..a = 1..u \union {a} /\ a \notin 1..u /\ a \in 0..MaxNodes
    BY <1>1, BTreeAssumption DEF Ids
  <1>3. tp \in 1..u /\ K[tp] = Nat /\ K \in [Ids -> SUBSET Nat]
    BY <1>1 DEF Grown
  <1>4. ms \in [Ids -> Node] /\ Shape(ms, a, a, lev2, 1..a)
    <2>1. ~x.leaf /\ u + 1 <= MaxNodes
      OBVIOUS
    <2>2. /\ [ns EXCEPT ![u + 1] = x] \in [Ids -> Node]
          /\ Shape([ns EXCEPT ![u + 1] = x], u + 1, u + 1,
                   [lev EXCEPT ![u + 1] = lev[tp] + 1], (1..u) \union {u + 1})
      BY <1>1, <2>1, GrowKeeps
    <2> QED
      BY <1>2, <2>2
  <1>5. \A b \in 1..u : ~ns[b].leaf =>
           \A i \in 0..ns[b].num : Child(ns[b], i) \in 1..u /\ Child(ns[b], i) # tp
    BY <1>1, KidFacts
  <1>6. Grown(ms, a, a, K2, rs)
    <2>1. u + 1 \in Ids
      BY <1>2
    <2>2. Grown([ns EXCEPT ![u + 1] = x], u + 1, u + 1, [K EXCEPT ![u + 1] = Nat], rs)
      BY <1>1, <1>5, <2>1, PromoteGrown
    <2> QED
      BY <2>2
  <1>7. K2[tp] = Nat
    BY <1>1, <1>2, <1>3
  <1> HIDE DEF lev2, K2
  <1>8. Tree(ms, a, a, lev2, K2, rs)
    BY <1>1, <1>2, <1>4, <1>6 DEF Tree
  <1> QED
    BY <1>7, <1>8 DEF Goes

(* A full child is split, and the insert goes on in the half for its key.  *)
LEMMA SplitTree ==
  ASSUME Order % 2 = 0,
         NEW ns, NEW u, NEW tp, NEW lev, NEW K, NEW rs, Tree(ns, u, tp, lev, K, rs),
         tp # None, NEW z, z = u + 1, z <= MaxNodes,
         NEW p \in 1..u, ~ns[p].leaf, ns[p].num < Order - 1,
         NEW n \in 0..ns[p].num, NEW c, c = Child(ns[p], n), ns[c].num = Order - 1,
         NEW k \in K[c], NEW ms, ms = Split(ns, p, n, c, z),
         NEW d, d = Child(ms[p], IF Key(ms[p], n) < k THEN n + 1 ELSE n)
  PROVE  Goes(ms, z, tp, rs, d, k)
  <1>1. /\ ns \in [Ids -> Node] /\ u \in 0..MaxNodes /\ u \in Nat /\ rs \in SUBSET Rows
        /\ Shape(ns, u, tp, lev, 1..u) /\ Grown(ns, u, tp, K, rs) /\ 1..u \subseteq Ids
    BY TreeFacts DEF Tree
  <1>2. z \in Ids /\ 1..z = 1..u \union {z} /\ z \notin 1..u /\ z \in 0..MaxNodes
    BY <1>1, BTreeAssumption DEF Ids
  <1>3. /\ c \in 1..u /\ c \in Ids /\ p \in Ids /\ c # p /\ c # tp /\ c # z /\ p # z
    BY <1>1, <1>2, KidFacts
  <1>4. IsSplit(ms, ns, p, n, c, z)
    BY <1>1, <1>2, <1>3, SplitShape
  <1>5. IsHalf(ms, ns, p, n, c, z)
    BY <1>1, <1>2, <1>3, SplitKeys
  <1>6. Order = 2 * MinDegree
    BY BTreeAssumption DEF MinDegree
  <1>7. Cleaves(ms, ns, u, p, n, c)
    <2>1. \A b \in 1..u : ~ns[b].leaf =>
            \A i \in 0..ns[b].num : Child(ns[b], i) \in 1..u
      BY TreeFacts
    <2>2. ms \in [Ids -> Node]
      BY <1>4 DEF IsSplit
    <2> QED
      BY <1>1, <1>2, <1>3, <1>4, <1>5, <1>6, <2>1, <2>2 DEF Cleaves
  <1> DEFINE s == Key(ns[c], MinDegree - 1)
             K2 == Halving(K, c, z, s)
             lev2 == [lev EXCEPT ![z] = lev[c]]
  <1>8. Grown(ms, z, tp, K2, rs)
    BY <1>1, <1>3, <1>7, SplitGrown
  <1>9. Shape(ms, z, tp, lev2, 1..z)
    <2>1. Halved(ms, ns, tp, lev, 1..u, p, n, c, z)
      BY <1>1, SplitKeeps
    <2> QED
      BY <1>2, <2>1 DEF Halved
  <1>10. Tree(ms, z, tp, lev2, K2, rs)
    <2> HIDE DEF lev2, K2
    <2> QED
      BY <1>1, <1>2, <1>4, <1>8, <1>9 DEF Tree, IsSplit
  <1>11. s \in Nat /\ K \in [Ids -> SUBSET Nat] /\ k \in Nat
    <2>1. K \in [Ids -> SUBSET Nat]
      BY <1>1 DEF Grown
    <2>2. s \in Nat
      <3>1. ns[c] \in Node /\ MinDegree - 1 \in 0..(Order - 1)
        BY <1>1, <1>3, <1>6, Degree
      <3> QED
        BY <3>1, NodeFacts
    <2>3. K[c] \subseteq Nat
      BY <1>3, <2>1
    <2> HIDE DEF s
    <2> QED
      BY <2>1, <2>2, <2>3
  <1>12. /\ n \in Nat /\ n + 1 \in 0..(ns[p].num + 1) /\ n \in 0..(ns[p].num + 1)
         /\ n \in 0..(Order - 1)
    <2>1. ns[p] \in Node
      BY <1>1, <1>3
    <2>2. ns[p].num \in Nat /\ Order \in Nat /\ ns[p].num <= Order - 1
      BY <2>1, NodeFacts
    <2> QED
      BY <2>2
  <1>13. Child(ms[p], n) = c /\ Child(ms[p], n + 1) = z /\ Key(ms[p], n) = s
    <2>1. /\ Child(ms[p], n + 1) = z
          /\ Child(ms[p], n) = Child(ns[p], n)
      BY <1>4, <1>12 DEF IsSplit
    <2>2. Key(ms[p], n) = s
      BY <1>5, <1>12 DEF IsHalf
    <2> QED
      BY <2>1, <2>2
  <1>14. /\ K2[c] = {l \in K[c] : l <= s} /\ K2[z] = {l \in K[c] : s <= l}
    BY <1>2, <1>3, <1>11 DEF Halving
  <1>15. k \in K2[d]
    <2> HIDE DEF K2, s
    <2>1. CASE s < k
      <3>1. (IF Key(ms[p], n) < k THEN n + 1 ELSE n) = n + 1
        BY <1>13, <2>1
      <3>2. k \in K2[z]
        BY <1>11, <1>14, <2>1
      <3> QED
        BY <1>13, <3>1, <3>2
    <2>2. CASE ~(s < k)
      <3>1. (IF Key(ms[p], n) < k THEN n + 1 ELSE n) = n
        BY <1>13, <2>2
      <3>2. k \in K2[c]
        BY <1>11, <1>14, <2>2
      <3> QED
        BY <1>13, <3>1, <3>2
    <2> QED
      BY <2>1, <2>2
  <1> HIDE DEF K2, lev2
  <1> QED
    BY <1>10, <1>15 DEF Goes

(* insert_non_full() at a leaf.                                            *)
LEMMA LeafTree ==
  ASSUME NEW ns, NEW u, NEW tp, NEW lev, NEW K, NEW rs, Tree(ns, u, tp, lev, K, rs),
         NEW c \in 1..u, NEW r \in Rows, KeyOf[r] \in K[c],
         ns[c].leaf = TRUE, ns[c].num < Order - 1, tp # None,
         NEW n \in 0..ns[c].num, Room(ns[c], n, KeyOf[r]),
         NEW y \in Node, TakenIn(y, ns[c], n, r)
  PROVE  Tree([ns EXCEPT ![c] = y], u, tp, lev, K, rs \union {r})
  <1> DEFINE ms == [ns EXCEPT ![c] = y]
  <1>1. /\ ns \in [Ids -> Node] /\ u \in 0..MaxNodes /\ u \in Nat /\ rs \in SUBSET Rows
        /\ Shape(ns, u, tp, lev, 1..u) /\ Grown(ns, u, tp, K, rs) /\ 1..u \subseteq Ids
    BY TreeFacts DEF Tree
  <1>2. Grown(ms, u, tp, K, rs \union {r})
    BY <1>1, LeafGrown
  <1>3. y.leaf = ns[c].leaf /\ y.num = ns[c].num + 1
    BY DEF TakenIn, Wedged
  <1>4. c # tp => y.num >= MinDegree - 1
    <2>1. c # tp => ns[c].num >= MinDegree - 1
      BY <1>1 DEF Shape
    <2>2. ns[c].num \in Nat
      BY <1>1, NodeFacts
    <2> QED
      BY <1>3, <2>1, <2>2, Degree
  <1>5. ms \in [Ids -> Node] /\ Shape(ms, u, tp, lev, 1..u)
    BY <1>1, <1>3, <1>4, OneKept
  <1> HIDE DEF ms
  <1>6. Tree(ms, u, tp, lev, K, rs \union {r})
    BY <1>1, <1>2, <1>5 DEF Tree
  <1> QED
    BY <1>6 DEF ms

-----------------------------------------------------------------------------
(* The inductive invariant of an index that only grows.                    *)

(* The insert of r under way belongs to block c.                           *)
Aims(K, c, r, rs) ==
  /\ KeyOf[r] \in K[c]
  /\ r \notin rs
  /\ Unique => \A s \in rs : KeyOf[s] # KeyOf[r]

GInv ==
  /\ TypeOK
  /\ pc \in {"idle", "insert"} /\ removals = 0
  /\ \E lev, K :
       /\ Tree(nodes, used, top, lev, K, rows)
       /\ Place(nodes, root, top, pc, cur, 1..used)
       /\ pc = "insert" => Aims(K, cur, row, rows)

LEMMA GrowthShape ==
  ASSUME GInv
  PROVE  IInv
  <1>1. PICK lev, K : /\ Tree(nodes, used, top, lev, K, rows)
                      /\ Place(nodes, root, top, pc, cur, 1..used)
    BY DEF GInv
  <1>2. lev \in [Ids -> Nat] /\ 1..used \subseteq Ids
    BY <1>1, TreeFacts
  <1>3. Shape(nodes, used, top, lev, 1..used) /\ TypeOK
    BY <1>1 DEF Tree, GInv
  <1> QED
    BY <1>1, <1>2, <1>3 DEF IInv

LEMMA PlaceMore ==
  ASSUME NEW ns, NEW rt, NEW tp, NEW at, NEW c, NEW live, NEW L, live \subseteq L,
         Place(ns, rt, tp, at, c, live)
  PROVE  Place(ns, rt, tp, at, c, L)
  BY DEF Place

LEMMA Regain ==
  ASSUME IInv', pc' \in {"idle", "insert"}, removals' = 0, NEW lev, NEW K,
         Tree(nodes', used', top', lev, K, rows'),
         pc' = "insert" => Aims(K, cur', row', rows')
  PROVE  GInv'
  <1>1. TypeOK'
    BY DEF IInv
  <1>2. PICK l, live : /\ Shape(nodes', used', top', l, live)
                       /\ Place(nodes', root', top', pc', cur', live)
    BY DEF IInv
  <1>3. live \subseteq 1..used'
    BY <1>2 DEF Shape
  <1>4. Place(nodes', root', top', pc', cur', 1..used')
    BY <1>2, <1>3, PlaceMore
  <1> QED
    BY <1>1, <1>4 DEF GInv

LEMMA InitGrowth ==
  ASSUME Init
  PROVE  GInv
  <1>1. IInv
    BY Initially
  <1> DEFINE lev == [b \in Ids |-> 0]
             K == [b \in Ids |-> Nat]
  <1>2. TypeOK
    BY <1>1 DEF IInv
  <1>3. Shape(nodes, used, top, lev, 1..used)
    BY DEF Init, Shape
  <1>4. Grown(nodes, used, top, K, rows)
    <2>1. \A b \in Ids : nodes[b].leaf
      BY NewNodeIn DEF Init
    <2>2. 1..used = {}
      BY DEF Init
    <2> QED
      BY <2>1, <2>2 DEF Init, Grown, Linked
  <1> HIDE DEF lev, K
  <1>5. Tree(nodes, used, top, lev, K, rows)
    BY <1>2, <1>3, <1>4 DEF Tree, TypeOK
  <1>6. Place(nodes, root, top, pc, cur, 1..used)
    BY DEF Init, Place
  <1> QED
    BY <1>2, <1>5, <1>6 DEF GInv, Init

(* What verify_unique_key() has shown when an insert starts.               *)
LEMMA BeginFacts ==
  ASSUME GInv, NEW r \in Rows, Begin(r)
  PROVE  /\ pc = "idle" /\ row' = r /\ r \notin rows
         /\ Unique => \A s \in rows : KeyOf[s] # KeyOf[r]
         /\ \E lev, K : Tree(nodes, used, top, lev, K, rows)
         /\ root = top
  <1>1. /\ pc = "idle" /\ row' = r /\ r \notin rows
        /\ Unique => ~Found(KeyOf[r])
    BY DEF Begin
  <1>2. PICK lev, K : /\ Tree(nodes, used, top, lev, K, rows)
                      /\ Place(nodes, root, top, pc, cur, 1..used)
    BY DEF GInv
  <1>3. root = top
    BY <1>1, <1>2, AtIdle
  <1>4. KeyOf[r] \in Nat \ {0}
    BY BTreeAssumption
  <1>5. Found(KeyOf[r]) <=> \E s \in rows : KeyOf[s] = KeyOf[r]
    BY <1>2, <1>3, <1>4, FoundExact
  <1> QED
    BY <1>1, <1>2, <1>3, <1>5

LEMMA InsertFirstGrows ==
  ASSUME GInv, NEW r \in Rows, InsertFirst(r)
  PROVE  GInv'
  <1>1. IInv
    BY GrowthShape
  <1>2. IInv'
    BY <1>1, InsertFirstKeeps
  <1>3. Begin(r)
    BY DEF InsertFirst
  <1>4. PICK lev, K : Tree(nodes, used, top, lev, K, rows)
    BY <1>3, BeginFacts
  <1>a. PICK a : a = used + 1
    OBVIOUS
  <1> DEFINE es == [i \in {0} |-> [ref |-> r, key |-> KeyOf[r]]]
             y == PutElems(NewNode(TRUE), es)
             x == [y EXCEPT !.num = 1]
  <1>5. /\ pc = "idle" /\ root = None /\ a <= MaxNodes /\ used' = a
        /\ nodes' = [nodes EXCEPT ![a] = x] /\ row' = r
        /\ rows' = rows \union {r} /\ pc' = "idle" /\ root' = a /\ top' = a
        /\ UNCHANGED <<cur, removals>>
    BY <1>a DEF InsertFirst, Begin, Return
  <1>6. top = None /\ removals = 0
    BY <1>3, <1>5, BeginFacts DEF GInv
  <1>7. used \in Nat /\ a \in Ids
    <2>1. used \in Nat
      BY <1>4, TreeFacts
    <2> QED
      BY <1>a, <1>5, <2>1, BTreeAssumption DEF Ids
  <1>8. /\ x \in Node /\ x.leaf = TRUE /\ x.num = 1 /\ Child(x, 0) = r
        /\ Key(x, 0) = KeyOf[r] /\ \A i \in 0..(Order - 1) : i # 0 => Key(x, i) = 0
    <2>1. NewNode(TRUE) \in Node /\ NewNode(TRUE).leaf = TRUE
      BY NewNodeIn
    <2>2. r \in Nat /\ KeyOf[r] \in Nat
      BY BTreeAssumption
    <2>3. \A i \in DOMAIN es : es[i].ref \in Nat /\ es[i].key \in Nat
      BY <2>2
    <2>4. DOMAIN es = {0} /\ es[0].ref = r /\ es[0].key = KeyOf[r]
      OBVIOUS
    <2>5. \A i \in 0..(Order - 1) : Key(NewNode(TRUE), i) = 0
      BY NewNodeKeys
    <2>6. 1 \in 0..(Order - 1) /\ 0 \in 0..(Order - 1)
      BY Degree
    <2> HIDE DEF es
    <2>7. y \in Node /\ y.leaf = TRUE
      BY <2>1, <2>3, PutElemsIn
    <2>8. Key(y, 0) = KeyOf[r] /\ Child(y, 0) = r
      BY <2>1, <2>4, <2>6, PutElemsKeys
    <2>9. \A i \in 0..(Order - 1) : i # 0 => Key(y, i) = 0
      BY <2>1, <2>4, <2>5, PutElemsKeys
    <2> HIDE DEF y
    <2> QED
      BY <2>6, <2>7, <2>8, <2>9, NumIn
  <1> HIDE DEF x
  <1>9. PICK lev2, K2 : Tree([nodes EXCEPT ![a] = x], a, a, lev2, K2, rows \union {r})
    BY <1>a, <1>4, <1>6, <1>7, <1>8, FirstTree
  <1>10. Tree(nodes', used', top', lev2, K2, rows')
    BY <1>5, <1>9
  <1> QED
    BY <1>2, <1>5, <1>6, <1>10, Regain

LEMMA InsertAtRootGrows ==
  ASSUME GInv, NEW r \in Rows, InsertAtRoot(r)
  PROVE  GInv'
  <1>1. IInv
    BY GrowthShape
  <1>2. IInv'
    BY <1>1, InsertAtRootKeeps
  <1>3. Begin(r)
    BY DEF InsertAtRoot
  <1>4. PICK lev, K : Tree(nodes, used, top, lev, K, rows)
    BY <1>3, BeginFacts
  <1>5. /\ root # None /\ pc' = "insert" /\ cur' = root
        /\ UNCHANGED <<nodes, used, root, top, rows, removals>>
    BY DEF InsertAtRoot
  <1>6. /\ root = top /\ row' = r /\ r \notin rows /\ removals = 0
        /\ Unique => \A s \in rows : KeyOf[s] # KeyOf[r]
    BY <1>3, BeginFacts DEF GInv
  <1>7. KeyOf[r] \in K[top]
    BY <1>4, <1>5, <1>6, BTreeAssumption DEF Tree, Grown
  <1>8. Aims(K, cur', row', rows')
    BY <1>5, <1>6, <1>7 DEF Aims
  <1>9. Tree(nodes', used', top', lev, K, rows')
    BY <1>4, <1>5
  <1> QED
    BY <1>2, <1>5, <1>6, <1>8, <1>9, Regain

LEMMA InsertPromoteGrows ==
  ASSUME Order % 2 = 0, GInv, NEW r \in Rows, InsertPromote(r)
  PROVE  GInv'
  <1>1. IInv
    BY GrowthShape
  <1>2. IInv'
    BY <1>1, InsertPromoteKeeps
  <1>3. Begin(r)
    BY DEF InsertPromote
  <1>4. PICK lev, K : Tree(nodes, used, top, lev, K, rows)
    BY <1>3, BeginFacts
  <1>a. PICK a : a = used + 1
    OBVIOUS
  <1>b. PICK tp : tp = top
    OBVIOUS
  <1> DEFINE cs == [i \in {0} |-> root]
             x == PutChildren(NewNode(FALSE), cs)
             up == [nodes EXCEPT ![a] = x]
             ms == Split(up, a, 0, root, used + 2)
  <1>5. /\ pc = "idle" /\ root # None /\ Full(nodes[root]) /\ used + 2 <= MaxNodes
        /\ row' = r /\ used' = used + 2 /\ pc' = "insert" /\ top' = a
        /\ nodes' = ms
        /\ cur' = Child(ms[a], IF Key(ms[a], 0) < KeyOf[r] THEN 1 ELSE 0)
        /\ UNCHANGED <<root, rows, removals>>
    BY <1>a, Zenon DEF InsertPromote, Begin
  <1>6. /\ root = top /\ r \notin rows /\ removals = 0
        /\ Unique => \A s \in rows : KeyOf[s] # KeyOf[r]
    BY <1>3, BeginFacts DEF GInv
  <1>7. tp # None /\ tp = root /\ tp \in 1..used /\ tp \in Ids
    <2>1. tp # None /\ tp = root /\ tp \in 1..used
      BY <1>b, <1>4, <1>5, <1>6 DEF Tree, Grown
    <2> QED
      BY <1>4, <2>1, TreeFacts
  <1>8. used \in Nat /\ used + 2 = a + 1 /\ a + 1 <= MaxNodes /\ a <= MaxNodes /\ a \in Ids
        /\ a \in 1..a /\ tp # a
    <2>1. used \in Nat
      BY <1>4, TreeFacts
    <2> QED
      BY <1>a, <1>5, <1>7, <2>1, BTreeAssumption DEF Ids
  <1>9. nodes[tp].num = Order - 1 /\ nodes[tp].num >= MinDegree - 1
    <2>1. nodes[tp].num \in Nat /\ nodes[tp].num <= Order - 1 /\ Order \in Nat
      BY <1>4, <1>7, TreeFacts, NodeFacts
    <2>2. nodes[tp].num >= Order - 1
      BY <1>5, <1>7 DEF Full
    <2> QED
      BY <2>1, <2>2, Degree
  <1>10. /\ x \in Node /\ x.leaf = FALSE /\ x.num = 0 /\ Child(x, 0) = tp
         /\ \A i \in 0..(Order - 1) : Key(x, i) = 0
    <2>1. /\ NewNode(FALSE) \in Node /\ NewNode(FALSE).leaf = FALSE
          /\ NewNode(FALSE).num = 0
      BY NewNodeIn
    <2>2. /\ \A i \in DOMAIN cs : cs[i] \in Nat
          /\ 0 \in DOMAIN cs /\ cs[0] = tp
      BY <1>7 DEF Ids
    <2>3. 0 \in 0..(Order - 1)
      BY Degree
    <2>4. \A i \in 0..(Order - 1) : Key(NewNode(FALSE), i) = 0
      BY NewNodeKeys
    <2> HIDE DEF cs
    <2>5. x \in Node /\ x.leaf = FALSE /\ x.num = 0 /\ Child(x, 0) = tp
      BY <2>1, <2>2, <2>3, PutChildrenIn
    <2>6. \A i \in 0..(Order - 1) : Key(x, i) = 0
      BY <2>1, <2>4, PutChildrenKeys
    <2> QED
      BY <2>5, <2>6
  <1> HIDE DEF x
  <1>c. PICK k \in Nat : k = KeyOf[r]
    BY BTreeAssumption
  <1>11. PICK lev1, K1 : Tree(up, a, a, lev1, K1, rows) /\ k \in K1[tp]
    <2>1. Tree(nodes, used, tp, lev, K, rows)
      BY <1>b, <1>4
    <2>2. up = [nodes EXCEPT ![a] = x]
      OBVIOUS
    <2> HIDE DEF up
    <2>3. Goes(up, a, a, rows, tp, k)
      BY <1>a, <1>7, <1>8, <1>9, <1>10, <2>1, <2>2, PromoteTree
    <2> QED
      BY <2>3 DEF Goes
  <1>12. up[a] = x /\ up[tp] = nodes[tp]
    <2>1. nodes \in [Ids -> Node]
      BY <1>4, TreeFacts
    <2> QED
      BY <1>7, <1>8, <2>1
  <1> HIDE DEF up
  <1>13. /\ ~up[a].leaf /\ up[a].num < Order - 1 /\ 0 \in 0..up[a].num
         /\ tp = Child(up[a], 0) /\ up[tp].num = Order - 1
    BY <1>9, <1>10, <1>12, Degree
  <1>14. a # None
    BY <1>8 DEF Ids, None
  <1>15. ms = Split(up, a, 0, tp, a + 1)
    BY <1>7, <1>8
  <1>d. PICK d : d = Child(ms[a], IF Key(ms[a], 0) < k THEN 0 + 1 ELSE 0)
    OBVIOUS
  <1> HIDE DEF ms
  <1>16. PICK lev2, K2 : Tree(ms, a + 1, a, lev2, K2, rows) /\ k \in K2[d]
    <2>1. Goes(ms, a + 1, a, rows, d, k)
      BY <1>d, <1>8, <1>11, <1>13, <1>14, <1>15, SplitTree
    <2> QED
      BY <2>1 DEF Goes
  <1>17. KeyOf[r] \in K2[cur']
    <2>1. 0 + 1 = 1
      OBVIOUS
    <2> QED
      BY <1>c, <1>d, <1>5, <1>16, <2>1
  <1>18. Aims(K2, cur', row', rows')
    BY <1>5, <1>6, <1>17 DEF Aims
  <1>19. Tree(nodes', used', top', lev2, K2, rows')
    BY <1>5, <1>8, <1>16
  <1> QED
    BY <1>2, <1>5, <1>6, <1>18, <1>19, Regain

(* insert_non_full() at a leaf: the greater elements move one place up.    *)
LEMMA LeafTakes ==
  ASSUME NEW x \in Node, x.leaf = TRUE, x.num < Order - 1, NEW n \in 0..x.num,
         NEW r \in Rows
  PROVE  LET y == [PutElems(x, [i \in n..x.num |->
                       IF i = n THEN [ref |-> r, key |-> KeyOf[r]]
                       ELSE Elem(x, i - 1)])
                   EXCEPT !.num = x.num + 1]
         IN  y \in Node /\ TakenIn(y, x, n, r)
  <1> DEFINE es == [i \in n..x.num |->
                      IF i = n THEN [ref |-> r, key |-> KeyOf[r]]
                      ELSE Elem(x, i - 1)]
             e == PutElems(x, es)
             y == [e EXCEPT !.num = x.num + 1]
  <1>0. /\ x.num \in Nat /\ n \in Nat /\ n <= x.num /\ Order \in Nat
        /\ r \in Nat /\ KeyOf[r] \in Nat
    BY NodeFacts, BTreeAssumption
  <1>1. DOMAIN es = n..x.num
    OBVIOUS
  <1>2. ASSUME NEW i \in n..x.num
        PROVE  /\ i \in 0..(Order - 1)
               /\ es[i].ref = IF i = n THEN r ELSE Child(x, i - 1)
               /\ es[i].key = IF i = n THEN KeyOf[r] ELSE Key(x, i - 1)
               /\ es[i].ref \in Nat /\ es[i].key \in Nat
    <2>1. /\ i \in 0..(Order - 1) /\ (i = n \/ i - 1 \in 0..(Order - 1))
          /\ es[i] = IF i = n THEN [ref |-> r, key |-> KeyOf[r]]
                     ELSE Elem(x, i - 1)
      BY <1>0
    <2> HIDE DEF es
    <2>2. CASE i = n
      BY <1>0, <2>1, <2>2
    <2>3. CASE i # n
      <3>1. es[i].ref \in Nat /\ es[i].key \in Nat
        BY <1>0, <2>1, <2>3, ElemIn
      <3>2. Elem(x, i - 1).ref = Child(x, i - 1) /\ Elem(x, i - 1).key = Key(x, i - 1)
        BY <1>0 DEF Elem, Child, Key
      <3> QED
        BY <2>1, <2>3, <3>1, <3>2
    <2> QED
      BY <2>2, <2>3
  <1> HIDE DEF es
  <1>3. e \in Node /\ e.leaf = TRUE
    BY <1>0, <1>1, <1>2, PutElemsIn
  <1>4. /\ \A i \in 0..(Order - 1) : Key(e, i)
             = IF i \in DOMAIN es THEN es[i].key ELSE Key(x, i)
        /\ \A i \in 0..(Order - 1) : Child(e, i)
             = IF i \in DOMAIN es THEN es[i].ref ELSE Child(x, i)
    BY <1>0, PutElemsKeys
  <1> HIDE DEF e
  <1>5. x.num + 1 \in 0..(Order - 1)
    BY <1>0
  <1>6. /\ y \in Node /\ y.leaf = TRUE /\ y.num = x.num + 1
        /\ \A i : Child(y, i) = Child(e, i)
        /\ \A i : Key(y, i) = Key(e, i)
    BY <1>3, <1>5, NumIn
  <1> HIDE DEF y
  <1>7. ASSUME NEW i \in 0..x.num
        PROVE  /\ Key(y, i) = IF i = n THEN KeyOf[r]
                              ELSE IF i > n THEN Key(x, i - 1) ELSE Key(x, i)
               /\ Child(y, i) = IF i = n THEN r
                                ELSE IF i > n THEN Child(x, i - 1) ELSE Child(x, i)
    <2>1. /\ i \in 0..(Order - 1) /\ i >= n => i \in n..x.num
          /\ i < n => i \notin n..x.num
      BY <1>0
    <2>2. i \in 0..(Order - 1) /\ (i >= n \/ i < n)
      BY <1>0
    <2>3. CASE i >= n
      <3>1. i \in n..x.num
        BY <2>1, <2>2, <2>3
      <3>2. Key(y, i) = es[i].key /\ Child(y, i) = es[i].ref
        BY <1>1, <1>4, <1>6, <2>2, <3>1
      <3> QED
        BY <1>0, <1>2, <2>3, <3>1, <3>2
    <2>4. CASE i < n
      <3>1. i \notin n..x.num /\ i # n /\ ~(i > n)
        BY <1>0, <2>1, <2>4
      <3>2. Key(y, i) = Key(x, i) /\ Child(y, i) = Child(x, i)
        BY <1>1, <1>4, <1>6, <2>2, <3>1
      <3> QED
        BY <3>1, <3>2
    <2> QED
      BY <2>2, <2>3, <2>4
  <1>8. ASSUME NEW i \in 0..(Order - 1), i > x.num
        PROVE  Key(y, i) = Key(x, i)
    <2>1. i \notin n..x.num
      BY <1>0, <1>8
    <2> QED
      BY <1>1, <1>4, <1>6, <2>1
  <1>9. y \in Node /\ TakenIn(y, x, n, r)
    BY <1>6, <1>7, <1>8 DEF TakenIn, Wedged
  <1> QED
    BY <1>9 DEF y, e, es

LEMMA InsertLeafGrows ==
  ASSUME GInv, InsertLeaf
  PROVE  GInv'
  <1>1. IInv
    BY GrowthShape
  <1>2. IInv'
    BY <1>1, InsertLeafKeeps
  <1>3. TypeOK /\ removals = 0
    BY DEF GInv
  <1> DEFINE x == nodes[cur]
             n == LastNotAbove(x, KeyOf[row]) + 1
             es == [i \in n..x.num |->
                      IF i = n THEN [ref |-> row, key |-> KeyOf[row]]
                      ELSE Elem(x, i - 1)]
             e == PutElems(x, es)
             y == [e EXCEPT !.num = x.num + 1]
  <1>4. /\ pc = "insert" /\ x.leaf /\ nodes' = [nodes EXCEPT ![cur] = y]
        /\ rows' = rows \union {row} /\ pc' = "idle" /\ root' = top /\ top' = top
        /\ UNCHANGED <<used, cur, row, removals>>
    BY Zenon DEF InsertLeaf, Return
  <1>5. PICK lev, K : /\ Tree(nodes, used, top, lev, K, rows)
                      /\ Place(nodes, root, top, pc, cur, 1..used)
                      /\ Aims(K, cur, row, rows)
    BY <1>4 DEF GInv
  <1>6. cur \in 1..used /\ ~Full(x) /\ top # None
    <2>1. cur \in 1..used /\ ~Full(nodes[cur])
      BY <1>4, <1>5, AtInsert
    <2> QED
      BY <1>5, <2>1 DEF Tree, Shape
  <1>7. /\ x \in Node /\ x.num \in Nat /\ x.num < Order - 1 /\ Order \in Nat
        /\ x.leaf = TRUE
    <2>1. x \in Node /\ x.num \in Nat /\ Order \in Nat /\ x.leaf \in BOOLEAN
      BY <1>5, <1>6, TreeFacts, NodeFacts
    <2> QED
      BY <1>4, <1>6, <2>1 DEF Full
  <1>8. row \in Rows /\ row \in Nat /\ KeyOf[row] \in Nat /\ KeyOf[row] \in K[cur]
    BY <1>3, <1>5, BTreeAssumption DEF TypeOK, Aims
  <1>9. n \in 0..x.num /\ Room(x, n, KeyOf[row])
    <2>1. Sound(x, K[cur], rows)
      BY <1>5, <1>6 DEF Tree, Grown
    <2>2. Ordered(x)
      BY <2>1 DEF Sound
    <2> HIDE DEF x
    <2> QED
      BY <1>7, <1>8, <2>2, LastNotAboveRoom
  <1> HIDE DEF x, n
  <1>10. y \in Node /\ TakenIn(y, x, n, row)
    BY <1>7, <1>8, <1>9, LeafTakes
  <1> HIDE DEF y
  <1>11. Tree([nodes EXCEPT ![cur] = y], used, top, lev, K, rows \union {row})
    BY <1>5, <1>6, <1>7, <1>8, <1>9, <1>10, LeafTree DEF x
  <1>12. Tree(nodes', used', top', lev, K, rows')
    BY <1>4, <1>11
  <1> QED
    BY <1>2, <1>3, <1>4, <1>12, Regain

LEMMA InsertInnerGrows ==
  ASSUME Order % 2 = 0, GInv, InsertInner
  PROVE  GInv'
  <1>1. IInv
    BY GrowthShape
  <1>2. IInv'
    BY <1>1, InsertInnerKeeps
  <1>3. TypeOK /\ removals = 0
    BY DEF GInv
  <1>a. PICK z : z = used + 1
    OBVIOUS
  <1> DEFINE k == KeyOf[row]
             x == nodes[cur]
             n == LastNotAbove(x, k) + 1
             c == Child(x, n)
             ms == Split(nodes, cur, n, c, z)
             d == Child(ms[cur], IF Key(ms[cur], n) < k THEN n + 1 ELSE n)
  <1>4. /\ pc = "insert" /\ ~x.leaf
        /\ \/ ~Full(nodes[c]) /\ cur' = c /\ UNCHANGED <<nodes, used>>
           \/ /\ Full(nodes[c]) /\ z <= MaxNodes /\ nodes' = ms /\ used' = z
              /\ cur' = d
        /\ UNCHANGED <<root, top, pc, row, rows, removals>>
    BY <1>a, Zenon DEF InsertInner
  <1>5. PICK lev, K : /\ Tree(nodes, used, top, lev, K, rows)
                      /\ Place(nodes, root, top, pc, cur, 1..used)
                      /\ Aims(K, cur, row, rows)
    BY <1>4 DEF GInv
  <1>6. cur \in 1..used /\ ~Full(x) /\ top # None
    <2>1. cur \in 1..used /\ ~Full(nodes[cur])
      BY <1>4, <1>5, AtInsert
    <2> QED
      BY <1>5, <2>1 DEF Tree, Shape
  <1>7. /\ x \in Node /\ x.num \in Nat /\ x.num < Order - 1 /\ Order \in Nat
    <2>1. x \in Node /\ x.num \in Nat /\ Order \in Nat
      BY <1>5, <1>6, TreeFacts, NodeFacts
    <2> QED
      BY <1>6, <2>1 DEF Full
  <1>8. k \in Nat /\ k \in K[cur] /\ row \notin rows
        /\ (Unique => \A s \in rows : KeyOf[s] # KeyOf[row])
    BY <1>3, <1>5, BTreeAssumption DEF TypeOK, Aims
  <1>9. n \in 0..x.num /\ Room(x, n, k)
    <2>1. Sound(x, K[cur], rows)
      BY <1>5, <1>6 DEF Tree, Grown
    <2>2. Ordered(x)
      BY <2>1 DEF Sound
    <2> HIDE DEF x
    <2> QED
      BY <1>7, <1>8, <2>2, LastNotAboveRoom
  <1>10. k \in K[c]
    <2>1. Apart(x, K[cur], K)
      BY <1>5, <1>6 DEF Tree, Grown
    <2> HIDE DEF x, n
    <2>2. K[c] = Cut(x, K[cur], n)
      BY <1>4, <1>9, <2>1 DEF Apart
    <2> HIDE DEF c, k
    <2> QED
      BY <1>8, <1>9, <2>2 DEF Cut, Room
  <1>11. CASE ~Full(nodes[c]) /\ cur' = c /\ UNCHANGED <<nodes, used>>
    <2> HIDE DEF c
    <2>1. Aims(K, cur', row', rows')
      BY <1>4, <1>8, <1>10, <1>11 DEF Aims
    <2>2. Tree(nodes', used', top', lev, K, rows')
      BY <1>4, <1>5, <1>11
    <2> QED
      BY <1>2, <1>3, <1>4, <2>1, <2>2, Regain
  <1>12. CASE /\ Full(nodes[c]) /\ z <= MaxNodes /\ nodes' = ms /\ used' = z
              /\ cur' = d
    <2>1. c \in Ids
      BY <1>4, <1>5, <1>6, <1>9, TreeFacts
    <2>2. nodes[c].num = Order - 1
      <3>1. nodes[c] \in Node
        BY <1>5, <2>1, TreeFacts
      <3> HIDE DEF c
      <3>2. nodes[c].num \in Nat /\ nodes[c].num <= Order - 1
        BY <3>1, NodeFacts
      <3> QED
        BY <1>7, <1>12, <3>2 DEF Full
    <2>3. Goes(ms, z, top, rows, d, k)
      <3>1. c = Child(nodes[cur], n)
        OBVIOUS
      <3>2. ms = Split(nodes, cur, n, c, z)
        OBVIOUS
      <3>3. d = Child(ms[cur], IF Key(ms[cur], n) < k THEN n + 1 ELSE n)
        OBVIOUS
      <3>4. ~nodes[cur].leaf /\ nodes[cur].num < Order - 1 /\ n \in 0..nodes[cur].num
        BY <1>4, <1>7, <1>9
      <3> HIDE DEF d, ms, c, n, k, x
      <3> QED
        BY <1>a, <1>5, <1>6, <1>10, <1>12, <2>2, <3>1, <3>2, <3>3, <3>4, SplitTree
    <2>4. PICK lev2, K2 : Tree(ms, z, top, lev2, K2, rows) /\ k \in K2[d]
      BY <2>3 DEF Goes
    <2> HIDE DEF d, ms, c, n
    <2>5. Aims(K2, cur', row', rows')
      BY <1>4, <1>8, <1>12, <2>4 DEF Aims
    <2>6. Tree(nodes', used', top', lev2, K2, rows')
      BY <1>4, <1>12, <2>4
    <2> QED
      BY <1>2, <1>3, <1>4, <2>5, <2>6, Regain
  <1> QED
    BY <1>4, <1>11, <1>12

(* Nothing is removed.                                                     *)
LEMMA GrowthKeeps ==
  ASSUME Order % 2 = 0, MaxRemovals = 0, GInv, [Next]_vars
  PROVE  GInv'
  <1>1. CASE UNCHANGED vars
    <2>1. GInv
      OBVIOUS
    <2> QED
      BY <1>1, <2>1 DEF GInv, TypeOK, vars
  <1>2. CASE Inserting
    <2>1. CASE \E r \in Rows : InsertFirst(r) \/ InsertAtRoot(r) \/ InsertPromote(r)
      BY <2>1, InsertFirstGrows, InsertAtRootGrows, InsertPromoteGrows
    <2>2. CASE InsertLeaf
      BY <2>2, InsertLeafGrows
    <2>3. CASE InsertInner
      BY <2>3, InsertInnerGrows
    <2> QED
      BY <1>2, <2>1, <2>2, <2>3 DEF Inserting
  <1>3. CASE Removing
    <2>1. pc # "remove" /\ removals = 0
      BY DEF GInv
    <2>2. ASSUME NEW r \in Rows
          PROVE  ~RemoveStart(r)
      BY <2>1 DEF RemoveStart
    <2>3. /\ ~RemoveFromLeaf /\ ~RemoveMissing /\ ~RemoveByPrev
          /\ ~RemoveByNext /\ ~RemoveByMerge /\ ~RemoveBelow
      BY <2>1 DEF RemoveFromLeaf, RemoveMissing, RemoveByPrev, RemoveByNext,
                  RemoveByMerge, RemoveBelow
    <2> QED
      BY <1>3, <2>2, <2>3 DEF Removing
  <1> QED
    BY <1>1, <1>2, <1>3 DEF Next

LEMMA GrowthReads ==
  GInv => FindExact /\ Refs = rows
  <1> SUFFICES ASSUME GInv
               PROVE  FindExact /\ Refs = rows
    OBVIOUS
  <1>1. PICK lev, K : /\ Tree(nodes, used, top, lev, K, rows)
                      /\ Place(nodes, root, top, pc, cur, 1..used)
    BY DEF GInv
  <1>2. Refs = rows
    BY <1>1, RefsExact
  <1>3. ASSUME pc = "idle", NEW k \in Range(KeyOf)
        PROVE  Found(k) <=> \E r \in rows : KeyOf[r] = k
    <2>1. root = top
      BY <1>1, <1>3, AtIdle
    <2>2. k \in Nat \ {0}
      BY BTreeAssumption DEF Range
    <2> QED
      BY <1>1, <2>1, <2>2, FoundExact
  <1> QED
    BY <1>2, <1>3 DEF FindExact

-----------------------------------------------------------------------------
(* In an index of even order that only grows, find() finds the keys of the *)
(* rows of the table and no others, whatever split_child() has done and    *)
(* although node::find() may read a slot behind the last key of a node.    *)
(* It is what verify_unique_key() relies on.                               *)
THEOREM GrowthFind ==
  ASSUME Order % 2 = 0, MaxRemovals = 0
  PROVE  Spec => []FindExact
  <1>1. Init => GInv
    BY InitGrowth
  <1>2. GInv /\ [Next]_vars => GInv'
    BY GrowthKeeps
  <1>3. GInv => FindExact
    BY GrowthReads
  <1> QED
    BY <1>1, <1>2, <1>3, PTL DEF Spec

LEMMA GrowthStep ==
  ASSUME GInv, MaxRemovals = 0, Refs = rows, (Refs = rows)', [Next]_vars
  PROVE  [Abstract!Next]_<<rows, Refs>>
  <1>0. Refs' = rows'
    OBVIOUS
  <1>1. ASSUME NEW r \in Rows, r \notin rows, rows' = rows \union {r},
               Unique => \A s \in rows : KeyOf[s] # KeyOf[r]
        PROVE  Abstract!Next
    <2>1. Abstract!Insert(r)
      BY <1>0, <1>1 DEF Abstract!Insert
    <2> QED
      BY <2>1 DEF Abstract!Next
  <1>2. ASSUME rows' = rows
        PROVE  UNCHANGED <<rows, Refs>>
    BY <1>0, <1>2
  <1>3. CASE UNCHANGED vars
    BY <1>2, <1>3 DEF vars
  <1>4. ASSUME NEW r \in Rows, InsertFirst(r)
        PROVE  Abstract!Next
    <2>1. Begin(r) /\ rows' = rows \union {r}
      BY <1>4 DEF InsertFirst
    <2> QED
      BY <1>1, <2>1, BeginFacts
  <1>5. ASSUME NEW r \in Rows, InsertAtRoot(r) \/ InsertPromote(r)
        PROVE  UNCHANGED <<rows, Refs>>
    BY <1>2, <1>5 DEF InsertAtRoot, InsertPromote
  <1>6. CASE InsertLeaf
    <2>1. pc = "insert" /\ rows' = rows \union {row}
      BY <1>6 DEF InsertLeaf
    <2>2. row \in Rows /\ \E K : Aims(K, cur, row, rows)
      BY <2>1 DEF GInv, TypeOK
    <2> QED
      BY <1>1, <2>1, <2>2 DEF Aims
  <1>7. CASE InsertInner
    BY <1>2, <1>7 DEF InsertInner
  <1>8. ~Removing
    <2>1. pc # "remove" /\ removals = 0
      BY DEF GInv
    <2> QED
      BY <2>1 DEF Removing, RemoveStart, RemoveFromLeaf, RemoveMissing,
                  RemoveByPrev, RemoveByNext, RemoveByMerge, RemoveBelow
  <1> QED
    BY <1>3, <1>4, <1>5, <1>6, <1>7, <1>8 DEF Next, Inserting

(* An index of even order that only grows implements Index: read from the  *)
(* root down, its leaves lead to the rows of the table after every step, a *)
(* row comes into the table and into the index in one step, splits and the *)
(* way down are invisible, and in an index with FLAG_UNIQUE no two rows    *)
(* have the same key.                                                      *)
THEOREM GrowthImplements ==
  ASSUME Order % 2 = 0, MaxRemovals = 0
  PROVE  Spec => Implements
  <1>1. Init => GInv
    BY InitGrowth
  <1>2. GInv /\ [Next]_vars => GInv'
    BY GrowthKeeps
  <1>3. GInv => Refs = rows
    BY GrowthReads
  <1>4. Init => Abstract!Init
    <2> SUFFICES ASSUME Init
                 PROVE  Abstract!Init
      OBVIOUS
    <2>1. Refs = rows /\ rows = {}
      BY <1>1, <1>3 DEF Init
    <2> QED
      BY <2>1 DEF Abstract!Init
  <1>5. GInv /\ Refs = rows /\ (Refs = rows)' /\ [Next]_vars
          => [Abstract!Next]_<<rows, Refs>>
    BY GrowthStep
  <1> QED
    BY <1>1, <1>2, <1>3, <1>4, <1>5, PTL DEF Spec, Implements, Abstract!Spec

-----------------------------------------------------------------------------
(* An index that stays one leaf: the table has fewer rows than the order,  *)
(* so that the root is never full when a row comes, or the bound on blocks *)
(* leaves none for a split, as in the run index_leaf.                      *)

OneLeaf == MaxNodes <= 2 \/ (IsFiniteSet(Rows) /\ Cardinality(Rows) < Order)

(* The leaf x holds each of the rows rs once, in the order of their keys.  *)
LeafOf(x, rs) ==
  /\ x.leaf = TRUE /\ x.num # 0 /\ Ordered(x)
  /\ \A i \in 0..(x.num - 1) : Child(x, i) \in rs /\ KeyOf[Child(x, i)] = Key(x, i)
  /\ \A i, j \in 0..(x.num - 1) : Child(x, i) = Child(x, j) => i = j
  /\ \A r \in rs : \E i \in 0..(x.num - 1) : Child(x, i) = r

LeafInv ==
  /\ \A b \in Ids : nodes[b].leaf = TRUE
  /\ root = top /\ pc \in {"idle", "insert", "remove"}
  /\ IF root = None THEN rows = {} ELSE root \in 1..used /\ LeafOf(nodes[root], rows)
  /\ pc # "idle" => root # None /\ cur = root
  /\ pc = "insert" => /\ row \notin rows /\ ~Full(nodes[root])
                      /\ Unique => \A s \in rows : KeyOf[s] # KeyOf[row]
  /\ pc = "remove" => row \in rows

LEMMA LeafRoot ==
  ASSUME TypeOK, LeafInv, root # None
  PROVE  /\ root \in Ids /\ nodes[root] \in Node /\ nodes[root].num \in Nat
         /\ nodes[root].num <= Order - 1 /\ Order \in Nat /\ nodes[root].num # 0
         /\ nodes[root].leaf = TRUE /\ LeafOf(nodes[root], rows)
  <1>1. root \in Ids /\ nodes \in [Ids -> Node]
    BY DEF TypeOK
  <1>2. nodes[root] \in Node
    BY <1>1
  <1> QED
    BY <1>1, <1>2, NodeFacts DEF LeafInv, LeafOf

(* tree::end() of a leaf.                                                  *)
LEMMA LeafEnd ==
  ASSUME TypeOK, LeafInv, root # None
  PROVE  End = [node |-> root, at |-> nodes[root].num]
  <1> DEFINE f == CHOOSE f : IsLast(f, nodes)
  <1>0. \A b \in Ids : nodes[b].leaf = TRUE
    BY DEF LeafInv
  <1>1. IsLast(f, nodes)
    <2> DEFINE g == [b \in Ids |-> b]
    <2>1. \A b \in Ids : g[b] = IF nodes[b].leaf THEN b ELSE g[Child(nodes[b], nodes[b].num)]
      BY <1>0
    <2>2. g = [b \in Ids |-> IF nodes[b].leaf THEN b ELSE g[Child(nodes[b], nodes[b].num)]]
      <3>1. \A b \in Ids : (IF nodes[b].leaf THEN b ELSE g[Child(nodes[b], nodes[b].num)]) = b
        BY <1>0
      <3> HIDE DEF g
      <3>2. [b \in Ids |-> IF nodes[b].leaf THEN b ELSE g[Child(nodes[b], nodes[b].num)]] = [b \in Ids |-> b]
        BY <3>1
      <3> QED
        BY <3>2 DEF g
    <2> HIDE DEF g
    <2>3. \E h : IsLast(h, nodes)
      BY <2>2 DEF IsLast
    <2> QED
      BY <2>3, Zenon
  <1>2. End = IF root = None THEN NotFound
              ELSE [node |-> f[root], at |-> nodes[f[root]].num]
    BY Zenon DEF End, IsLast
  <1> HIDE DEF f
  <1>3. root \in Ids
    BY LeafRoot
  <1>4. f[root] = IF nodes[root].leaf THEN root ELSE f[Child(nodes[root], nodes[root].num)]
    BY <1>1, <1>3 DEF IsLast
  <1>5. f[root] = root
    BY <1>0, <1>3, <1>4
  <1> QED
    BY <1>2, <1>5

(* node::find() in a leaf: where find_key() leads to, or the end.          *)
LEMMA LeafFind ==
  ASSUME TypeOK, LeafInv, root # None, NEW k \in Nat, NEW i, i = FindKey(nodes[root], k)
  PROVE  /\ i \in 0..nodes[root].num
         /\ Found(k) <=> i < nodes[root].num /\ Key(nodes[root], i) = k
         /\ Found(k) => Find(k) = [node |-> root, at |-> i]
         /\ ~Found(k) => \A j \in 0..(nodes[root].num - 1) : Key(nodes[root], j) # k
  <1> DEFINE f == CHOOSE f : IsLook(f, nodes, k, End)
             at(b) == FindKey(nodes[b], k)
             g == [b \in Ids |-> IF Key(nodes[b], at(b)) = k THEN [node |-> b, at |-> at(b)] ELSE End]
             X(b) == IF Key(nodes[b], at(b)) = k THEN [node |-> b, at |-> at(b)]
                     ELSE IF nodes[b].leaf THEN End ELSE g[Child(nodes[b], at(b))]
  <1>0. \A b \in Ids : nodes[b].leaf = TRUE
    BY DEF LeafInv
  <1>1. IsLook(f, nodes, k, End)
    <2>1. \A b \in Ids : X(b) = g[b]
      <3> HIDE DEF at
      <3> QED
        BY <1>0
    <2>2. g = [b \in Ids |-> X(b)]
      <3>1. g = [b \in Ids |-> g[b]]
        OBVIOUS
      <3> HIDE DEF g, X
      <3> QED
        BY <2>1, <3>1
    <2> HIDE DEF g
    <2>3. IsLook(g, nodes, k, End)
      BY <2>2, Zenon DEF IsLook, X, at
    <2>4. \E h : IsLook(h, nodes, k, End)
      BY <2>3, Zenon
    <2> QED
      BY <2>4, Zenon
  <1>2. Find(k) = IF root = None THEN NotFound ELSE f[root]
    BY Zenon DEF Find, IsLook
  <1> HIDE DEF f, g, X, at
  <1> DEFINE x == nodes[root]
  <1>3. root \in Ids /\ x \in Node /\ x.leaf = TRUE /\ x.num \in Nat /\ Ordered(x)
    BY LeafRoot DEF LeafOf
  <1>4. End = [node |-> root, at |-> x.num]
    BY LeafEnd
  <1>5. /\ Key(x, i) = k => f[root] = [node |-> root, at |-> i]
        /\ Key(x, i) # k => f[root] = End
    BY <1>1, <1>3, LookAt
  <1>6. Answer(i, x, k)
    BY <1>3, FindKeyCorrect
  <1> HIDE DEF x
  <1>7. i \in 0..x.num /\ i \in Nat
    BY <1>3, <1>6 DEF Answer
  <1>8. /\ i < x.num /\ Key(x, i) = k => Found(k) /\ Find(k) = [node |-> root, at |-> i]
        /\ ~(i < x.num /\ Key(x, i) = k) => ~Found(k)
    <2>1. CASE Key(x, i) = k
      <3>1. Find(k) = [node |-> root, at |-> i]
        BY <1>2, <1>5, <2>1
      <3>2. Found(k) <=> i # x.num
        BY <1>4, <3>1 DEF Found
      <3> QED
        BY <1>3, <1>7, <2>1, <3>1, <3>2
    <2>2. CASE Key(x, i) # k
      <3>1. Find(k) = End
        BY <1>2, <1>5, <2>2
      <3> QED
        BY <2>2, <3>1 DEF Found
    <2> QED
      BY <2>1, <2>2
  <1>9. ~(i < x.num /\ Key(x, i) = k) => \A j \in 0..(x.num - 1) : Key(x, j) # k
    <2>1. \A j \in 0..(x.num - 1) : Key(x, j) \in Nat
      BY <1>3, NodeFacts
    <2>2. \A j \in 0..(x.num - 1) : j \in 0..(i - 1) \/ j \in i..(x.num - 1)
      BY <1>3, <1>7
    <2> QED
      BY <1>3, <1>6, <2>1, <2>2 DEF Answer
  <1> QED
    BY <1>7, <1>8, <1>9 DEF x

(* What can be read from the one leaf.                                     *)
LEMMA LeafReads ==
  ASSUME TypeOK, LeafInv
  PROVE  /\ Refs = rows
         /\ \A k \in Nat : Found(k) <=> \E r \in rows : KeyOf[r] = k
         /\ \A k \in Nat : Found(k) =>
              LET e == Elem(nodes[Find(k).node], Find(k).at)
              IN  e.ref \in rows /\ KeyOf[e.ref] = k
  <1>1. CASE root = None
    <2>1. rows = {} /\ top = None
      BY <1>1 DEF LeafInv
    <2>2. Refs = {}
      BY <2>1, Zenon DEF Refs
    <2>3. \A k : End = NotFound /\ Find(k) = NotFound
      BY <1>1, Zenon DEF End, Find
    <2>4. \A k : ~Found(k)
      BY <2>3 DEF Found
    <2> QED
      BY <2>1, <2>2, <2>4
  <1>2. CASE root # None
    <2> DEFINE x == nodes[root]
    <2>1. /\ root \in Ids /\ x.leaf = TRUE /\ x.num \in Nat /\ LeafOf(x, rows) /\ root = top
      BY <1>2, LeafRoot DEF LeafInv
    <2>2. Refs = rows
      <3> DEFINE f == CHOOSE f : IsUnder(f, nodes)
      <3>1. IsUnder(f, nodes)
        <4> DEFINE g == [b \in Ids |-> {Elem(nodes[b], i).ref : i \in 0..(nodes[b].num - 1)}]
                   X(b) == IF nodes[b].leaf
                           THEN {Elem(nodes[b], i).ref : i \in 0..(nodes[b].num - 1)}
                           ELSE UNION {g[Child(nodes[b], i)] : i \in 0..nodes[b].num}
        <4>0. \A b \in Ids : nodes[b].leaf = TRUE
          BY DEF LeafInv
        <4>1. \A b \in Ids : X(b) = g[b]
          BY <4>0
        <4>2. g = [b \in Ids |-> X(b)]
          <5>1. g = [b \in Ids |-> g[b]]
            OBVIOUS
          <5> HIDE DEF g, X
          <5> QED
            BY <4>1, <5>1
        <4> HIDE DEF g
        <4>3. \E h : IsUnder(h, nodes)
          BY <4>2, Zenon DEF IsUnder
        <4> QED
          BY <4>3, Zenon
      <3>2. Refs = IF top = None THEN {} ELSE f[top]
        BY Zenon DEF Refs, IsUnder
      <3> HIDE DEF f
      <3>3. \A e : e \in f[top] <=> \E i \in 0..(x.num - 1) : e = Child(x, i)
        BY <2>1, <3>1, UnderAt
      <3> HIDE DEF x
      <3>4. \A e : e \in f[top] <=> e \in rows
        BY <2>1, <3>3 DEF LeafOf
      <3>5. f[top] = rows
        <4>1. \A e \in f[top] : e \in rows
          BY <3>4
        <4>2. \A e \in rows : e \in f[top]
          BY <3>4
        <4> QED
          BY <4>1, <4>2
      <3> QED
        BY <1>2, <2>1, <3>2, <3>5
    <2>3. ASSUME NEW k \in Nat
          PROVE  /\ Found(k) <=> \E r \in rows : KeyOf[r] = k
                 /\ Found(k) => LET e == Elem(nodes[Find(k).node], Find(k).at)
                                IN  e.ref \in rows /\ KeyOf[e.ref] = k
      <3>1. PICK i : i = FindKey(x, k)
        OBVIOUS
      <3>2. /\ i \in 0..x.num
            /\ Found(k) <=> i < x.num /\ Key(x, i) = k
            /\ Found(k) => Find(k) = [node |-> root, at |-> i]
            /\ ~Found(k) => \A j \in 0..(x.num - 1) : Key(x, j) # k
        BY <1>2, <3>1, LeafFind
      <3>3. ASSUME Found(k)
            PROVE  LET e == Elem(nodes[Find(k).node], Find(k).at)
                   IN  e.ref \in rows /\ KeyOf[e.ref] = k
        <4>1. Find(k).node = root /\ Find(k).at = i
          BY <3>2, <3>3
        <4>2. i \in 0..(x.num - 1) /\ Key(x, i) = k
          BY <2>1, <3>2, <3>3
        <4>3. Child(x, i) \in rows /\ KeyOf[Child(x, i)] = k
          BY <2>1, <4>2 DEF LeafOf
        <4>4. Elem(x, i).ref = Child(x, i)
          BY <2>1 DEF Elem, Child
        <4> QED
          BY <4>1, <4>3, <4>4
      <3>4. ASSUME NEW r \in rows, KeyOf[r] = k PROVE Found(k)
        <4>1. PICK j \in 0..(x.num - 1) : Child(x, j) = r
          BY <2>1 DEF LeafOf
        <4>2. Key(x, j) = k
          BY <2>1, <3>4, <4>1 DEF LeafOf
        <4> QED
          BY <3>2, <4>2
      <3> QED
        BY <3>3, <3>4
    <2> QED
      BY <2>2, <2>3
  <1> QED
    BY <1>1, <1>2

(* A row comes into the leaf.                                              *)
LEMMA LeafPut ==
  ASSUME NEW x \in Node, NEW rs, LeafOf(x, rs), NEW r \in Rows, r \notin rs,
         NEW n \in 0..x.num, Room(x, n, KeyOf[r]), NEW y \in Node, TakenIn(y, x, n, r)
  PROVE  LeafOf(y, rs \union {r})
  <1>1. /\ x.num \in Nat /\ n \in Nat /\ n <= x.num /\ y.num = x.num + 1 /\ y.leaf = TRUE
        /\ KeyOf[r] \in Nat
    BY NodeFacts, BTreeAssumption DEF TakenIn, Wedged
  <1>2. Ordered(y)
    BY <1>1, WedgedOrdered DEF TakenIn, LeafOf
  <1> DEFINE f(i) == IF i > n THEN i - 1 ELSE i
  <1>3. ASSUME NEW i \in 0..(y.num - 1)
        PROVE  /\ i = n => Child(y, i) = r /\ Key(y, i) = KeyOf[r]
               /\ i # n => /\ f(i) \in 0..(x.num - 1)
                           /\ Child(y, i) = Child(x, f(i)) /\ Key(y, i) = Key(x, f(i))
    <2>1. i \in 0..x.num
      BY <1>1
    <2>2. /\ Key(y, i) = IF i = n THEN KeyOf[r] ELSE IF i > n THEN Key(x, i - 1) ELSE Key(x, i)
          /\ Child(y, i) = IF i = n THEN r ELSE IF i > n THEN Child(x, i - 1) ELSE Child(x, i)
      BY <2>1 DEF TakenIn, Wedged
    <2>3. i # n => f(i) \in 0..(x.num - 1)
      BY <1>1, <2>1
    <2> QED
      BY <2>2, <2>3
  <1>4. ASSUME NEW j \in 0..(x.num - 1)
        PROVE  \E i \in 0..(y.num - 1) : i # n /\ f(i) = j
    <2>1. CASE j < n
      BY <1>1, <2>1
    <2>2. CASE j >= n
      <3>1. j + 1 \in 0..(y.num - 1) /\ j + 1 # n /\ f(j + 1) = j
        BY <1>1, <2>2
      <3> QED
        BY <3>1
    <2> QED
      BY <1>1, <2>1, <2>2
  <1>5. \A i, j \in 0..(y.num - 1) : i # n /\ j # n /\ f(i) = f(j) => i = j
    BY <1>1
  <1>6. n \in 0..(y.num - 1) /\ y.num # 0
    BY <1>1
  <1> HIDE DEF f
  <1>7. /\ \A i \in 0..(x.num - 1) : Child(x, i) \in rs /\ KeyOf[Child(x, i)] = Key(x, i)
        /\ \A i, j \in 0..(x.num - 1) : Child(x, i) = Child(x, j) => i = j
        /\ \A q \in rs : \E i \in 0..(x.num - 1) : Child(x, i) = q
    BY DEF LeafOf
  <1>8. \A i \in 0..(y.num - 1) : Child(y, i) \in rs \union {r} /\ KeyOf[Child(y, i)] = Key(y, i)
    BY <1>3, <1>7
  <1>9. ASSUME NEW i \in 0..(y.num - 1), NEW j \in 0..(y.num - 1), Child(y, i) = Child(y, j)
        PROVE  i = j
    <2>1. i # n => Child(y, i) \in rs
      BY <1>3, <1>7
    <2>2. j # n => Child(y, j) \in rs
      BY <1>3, <1>7
    <2>3. i = n <=> j = n
      BY <1>3, <1>9, <2>1, <2>2
    <2> QED
      BY <1>3, <1>5, <1>7, <1>9, <2>3
  <1>10. \A q \in rs \union {r} : \E i \in 0..(y.num - 1) : Child(y, i) = q
    BY <1>3, <1>4, <1>6, <1>7
  <1> QED
    BY <1>1, <1>2, <1>6, <1>8, <1>9, <1>10 DEF LeafOf

(* The element n of the leaf is taken out.                                 *)
Without(y, x, n) ==
  /\ y.leaf = TRUE /\ y.num = x.num - 1
  /\ \A i \in 0..(x.num - 2) :
       /\ Key(y, i) = IF i < n THEN Key(x, i) ELSE Key(x, i + 1)
       /\ Child(y, i) = IF i < n THEN Child(x, i) ELSE Child(x, i + 1)

LEMMA LeafDrop ==
  ASSUME NEW x \in Node, NEW rs, LeafOf(x, rs), NEW n \in 0..(x.num - 1), NEW y, Without(y, x, n)
  PROVE  IF y.num = 0 THEN rs \ {Child(x, n)} = {} ELSE LeafOf(y, rs \ {Child(x, n)})
  <1> DEFINE f(i) == IF i < n THEN i ELSE i + 1
             rq == rs \ {Child(x, n)}
  <1>1. x.num \in Nat /\ n \in Nat /\ n < x.num /\ y.num = x.num - 1 /\ y.leaf = TRUE
    BY NodeFacts DEF Without
  <1>2. ASSUME NEW i \in 0..(y.num - 1)
        PROVE  /\ f(i) \in 0..(x.num - 1) /\ f(i) # n
               /\ Child(y, i) = Child(x, f(i)) /\ Key(y, i) = Key(x, f(i))
    <2>1. i \in 0..(x.num - 2)
      BY <1>1
    <2>2. f(i) \in 0..(x.num - 1) /\ f(i) # n
      BY <1>1, <2>1
    <2> QED
      BY <2>1, <2>2 DEF Without
  <1>3. ASSUME NEW j \in 0..(x.num - 1), j # n
        PROVE  \E i \in 0..(y.num - 1) : f(i) = j
    <2>1. CASE j < n
      BY <1>1, <2>1
    <2>2. CASE j > n
      <3>1. j - 1 \in 0..(y.num - 1) /\ f(j - 1) = j
        BY <1>1, <2>2
      <3> QED
        BY <3>1
    <2> QED
      BY <1>1, <1>3, <2>1, <2>2
  <1>4. \A i, j \in 0..(y.num - 1) : /\ f(i) = f(j) => i = j
                                     /\ i < j => f(i) < f(j)
    BY <1>1
  <1> HIDE DEF f
  <1>5. /\ \A i, j \in 0..(x.num - 1) : i < j => Key(x, i) <= Key(x, j)
        /\ \A i \in 0..(x.num - 1) : Child(x, i) \in rs /\ KeyOf[Child(x, i)] = Key(x, i)
        /\ \A i, j \in 0..(x.num - 1) : Child(x, i) = Child(x, j) => i = j
        /\ \A q \in rs : \E i \in 0..(x.num - 1) : Child(x, i) = q
    BY DEF LeafOf, Ordered
  <1>6. \A i \in 0..(y.num - 1) : Child(y, i) \in rq /\ KeyOf[Child(y, i)] = Key(y, i)
    BY <1>2, <1>5
  <1>7. \A i, j \in 0..(y.num - 1) : /\ Child(y, i) = Child(y, j) => i = j
                                     /\ i < j => Key(y, i) <= Key(y, j)
    <2> SUFFICES ASSUME NEW i \in 0..(y.num - 1), NEW j \in 0..(y.num - 1)
                 PROVE  /\ Child(y, i) = Child(y, j) => i = j
                        /\ i < j => Key(y, i) <= Key(y, j)
      OBVIOUS
    <2>1. /\ f(i) \in 0..(x.num - 1) /\ Child(y, i) = Child(x, f(i)) /\ Key(y, i) = Key(x, f(i))
          /\ f(j) \in 0..(x.num - 1) /\ Child(y, j) = Child(x, f(j)) /\ Key(y, j) = Key(x, f(j))
      BY <1>2
    <2> QED
      BY <1>4, <1>5, <2>1
  <1>8. ASSUME NEW q \in rq
        PROVE  \E i \in 0..(y.num - 1) : Child(y, i) = q
    <2>1. PICK j \in 0..(x.num - 1) : Child(x, j) = q
      BY <1>5
    <2>2. j # n
      BY <2>1
    <2>3. PICK i \in 0..(y.num - 1) : f(i) = j
      BY <1>3, <2>2
    <2> QED
      BY <1>2, <2>1, <2>3
  <1>9. CASE y.num = 0
    <2>1. 0..(y.num - 1) = {}
      BY <1>9
    <2> QED
      BY <1>8, <1>9, <2>1
  <1>10. CASE y.num # 0
    <2>1. Ordered(y)
      BY <1>7 DEF Ordered
    <2> QED
      BY <1>1, <1>6, <1>7, <1>8, <1>10, <2>1 DEF LeafOf
  <1> QED
    BY <1>9, <1>10

(* remove_from_leaf(): the elements behind n move one place down.          *)
LEMMA LeafGives ==
  ASSUME NEW x \in Node, x.leaf = TRUE, NEW n \in 0..(x.num - 1)
  PROVE  LET y == [PutElems(x, [i \in n..(x.num - 2) |-> Elem(x, i + 1)]) EXCEPT !.num = x.num - 1]
         IN  y \in Node /\ Without(y, x, n)
  <1> DEFINE es == [i \in n..(x.num - 2) |-> Elem(x, i + 1)]
             e == PutElems(x, es)
             y == [e EXCEPT !.num = x.num - 1]
  <1>1. x.num \in Nat /\ n \in Nat /\ n < x.num /\ Order \in Nat /\ x.num <= Order - 1
    BY NodeFacts
  <1>2. DOMAIN es = n..(x.num - 2)
    OBVIOUS
  <1>3. ASSUME NEW i \in n..(x.num - 2)
        PROVE  /\ es[i].ref = Child(x, i + 1) /\ es[i].key = Key(x, i + 1)
               /\ es[i].ref \in Nat /\ es[i].key \in Nat
    <2>1. i + 1 \in 0..(Order - 1) /\ es[i] = Elem(x, i + 1)
      BY <1>1
    <2> HIDE DEF es
    <2>2. es[i].ref \in Nat /\ es[i].key \in Nat
      BY <2>1, ElemIn
    <2>3. Elem(x, i + 1).ref = Child(x, i + 1) /\ Elem(x, i + 1).key = Key(x, i + 1)
      BY DEF Elem, Child, Key
    <2> QED
      BY <2>1, <2>2, <2>3
  <1> HIDE DEF es
  <1>4. e \in Node /\ e.leaf = TRUE
    BY <1>2, <1>3, PutElemsIn
  <1>5. \A i \in 0..(Order - 1) :
          /\ Key(e, i) = IF i \in DOMAIN es THEN es[i].key ELSE Key(x, i)
          /\ Child(e, i) = IF i \in DOMAIN es THEN es[i].ref ELSE Child(x, i)
    BY PutElemsKeys
  <1> HIDE DEF e
  <1>6. x.num - 1 \in 0..(Order - 1)
    BY <1>1
  <1>7. /\ y \in Node /\ y.leaf = TRUE /\ y.num = x.num - 1
        /\ \A i : Child(y, i) = Child(e, i)
        /\ \A i : Key(y, i) = Key(e, i)
    BY <1>4, <1>6, NumIn
  <1> HIDE DEF y
  <1>8. ASSUME NEW i \in 0..(x.num - 2)
        PROVE  /\ Key(y, i) = IF i < n THEN Key(x, i) ELSE Key(x, i + 1)
               /\ Child(y, i) = IF i < n THEN Child(x, i) ELSE Child(x, i + 1)
    <2>1. i \in 0..(Order - 1) /\ (i < n <=> i \notin DOMAIN es) /\ (~(i < n) => i \in n..(x.num - 2))
      BY <1>1, <1>2
    <2> QED
      BY <1>3, <1>5, <1>7, <2>1
  <1>9. y \in Node /\ Without(y, x, n)
    BY <1>7, <1>8 DEF Without
  <1> QED
    BY <1>9 DEF y, e, es

(* A full leaf is never asked to take one more row: it would need blocks   *)
(* that the bound does not leave, or there is no such row.                 *)
LEMMA NeverFull ==
  ASSUME OneLeaf, TypeOK, LeafInv, root # None, Full(nodes[root]), NEW r \in Rows, r \notin rows,
         used + 2 <= MaxNodes
  PROVE  FALSE
  <1> DEFINE x == nodes[root]
  <1>1. /\ x.num \in Nat /\ x.num = Order - 1 /\ Order \in Nat /\ LeafOf(x, rows) /\ Order >= 4
    BY LeafRoot, Degree DEF Full
  <1>2. used \in Nat /\ MaxNodes \in Nat /\ used >= 1 /\ rows \subseteq Rows
    BY BTreeAssumption DEF LeafInv, TypeOK
  <1>3. IsFiniteSet(Rows) /\ Cardinality(Rows) < Order
    BY <1>2 DEF OneLeaf
  <1> HIDE DEF x
  <1> DEFINE S == 1..Order
             f == [i \in S |-> IF i = Order THEN r ELSE Child(x, i - 1)]
  <1>4. IsFiniteSet(S) /\ Cardinality(S) = Order
    <2>1. IsFiniteSet(S) /\ Cardinality(S) = IF 1 > Order THEN 0 ELSE Order - 1 + 1
      BY <1>1, FS_Interval
    <2> QED
      BY <1>1, <2>1
  <1>5. ASSUME NEW i \in S, i # Order
        PROVE  i - 1 \in 0..(x.num - 1) /\ Child(x, i - 1) \in rows
    <2>1. i - 1 \in 0..(x.num - 1)
      BY <1>1, <1>5
    <2> QED
      BY <1>1, <2>1 DEF LeafOf
  <1>6. f \in [S -> Rows]
    BY <1>2, <1>5
  <1>7. \A i, j \in S : f[i] = f[j] => i = j
    <2> SUFFICES ASSUME NEW i \in S, NEW j \in S, f[i] = f[j] PROVE i = j
      OBVIOUS
    <2>1. i = Order <=> j = Order
      BY <1>5
    <2>2. ASSUME i # Order, j # Order PROVE i = j
      <3>1. Child(x, i - 1) = Child(x, j - 1) /\ i - 1 \in 0..(x.num - 1) /\ j - 1 \in 0..(x.num - 1)
        BY <1>5, <2>2
      <3>2. i - 1 = j - 1
        BY <1>1, <3>1 DEF LeafOf
      <3> QED
        BY <1>1, <3>2
    <2> QED
      BY <2>1, <2>2
  <1>8. Cardinality(Rows) < Cardinality(S)
    BY <1>3, <1>4
  <1> HIDE DEF f, S
  <1>9. \E i, j \in S : i # j /\ f[i] = f[j]
    BY <1>3, <1>4, <1>6, <1>8, FS_PigeonHole
  <1> QED
    BY <1>7, <1>9

(* verify_unique_key() has seen every row of the table.                    *)
LEMMA LeafBegin ==
  ASSUME TypeOK, LeafInv, NEW r \in Rows, Begin(r)
  PROVE  /\ pc = "idle" /\ row' = r /\ r \notin rows
         /\ Unique => \A s \in rows : KeyOf[s] # KeyOf[r]
  <1>1. /\ pc = "idle" /\ row' = r /\ r \notin rows
        /\ Unique => ~Found(KeyOf[r])
    BY DEF Begin
  <1>2. KeyOf[r] \in Nat
    BY BTreeAssumption
  <1> QED
    BY <1>1, <1>2, LeafReads

LEMMA LeafInit ==
  Init => LeafInv
  <1> SUFFICES ASSUME Init
               PROVE  LeafInv
    OBVIOUS
  <1>1. \A b \in Ids : nodes[b].leaf = TRUE
    BY DEF Init, NewNode
  <1> QED
    BY <1>1 DEF Init, LeafInv

LEMMA InsertFirstLeaf ==
  ASSUME TypeOK, LeafInv, NEW r \in Rows, InsertFirst(r)
  PROVE  LeafInv'
  <1>1. Begin(r)
    BY DEF InsertFirst
  <1>2. PICK a : a = used + 1
    OBVIOUS
  <1> DEFINE es == [i \in {0} |-> [ref |-> r, key |-> KeyOf[r]]]
             y == PutElems(NewNode(TRUE), es)
             x == [y EXCEPT !.num = 1]
  <1>3. /\ root = None /\ a <= MaxNodes /\ used' = a
        /\ nodes' = [nodes EXCEPT ![a] = x]
        /\ rows' = rows \union {r} /\ pc' = "idle" /\ root' = a /\ top' = a
    BY <1>2 DEF InsertFirst, Return
  <1>4. a \in Ids /\ a \in 1..used' /\ a # None /\ nodes \in [Ids -> Node]
    BY <1>2, <1>3, BTreeAssumption DEF TypeOK, Ids, None
  <1>5. /\ x.leaf = TRUE /\ x.num = 1 /\ Child(x, 0) = r /\ Key(x, 0) = KeyOf[r]
    <2>1. NewNode(TRUE) \in Node /\ NewNode(TRUE).leaf = TRUE
      BY NewNodeIn
    <2>2. r \in Nat /\ KeyOf[r] \in Nat
      BY BTreeAssumption
    <2>3. \A i \in DOMAIN es : es[i].ref \in Nat /\ es[i].key \in Nat
      BY <2>2
    <2>4. DOMAIN es = {0} /\ es[0].ref = r /\ es[0].key = KeyOf[r]
      OBVIOUS
    <2>5. 1 \in 0..(Order - 1) /\ 0 \in 0..(Order - 1)
      BY Degree
    <2> HIDE DEF es
    <2>6. y \in Node /\ y.leaf = TRUE
      BY <2>1, <2>3, PutElemsIn
    <2>7. Key(y, 0) = KeyOf[r] /\ Child(y, 0) = r
      BY <2>1, <2>4, <2>5, PutElemsKeys
    <2> HIDE DEF y
    <2> QED
      BY <2>5, <2>6, <2>7, NumIn
  <1> HIDE DEF x
  <1>6. rows' = {r}
    BY <1>3 DEF LeafInv
  <1>7. LeafOf(x, {r})
    <2>1. \A i \in 0..(x.num - 1) : i = 0
      BY <1>5
    <2>2. 0 \in 0..(x.num - 1)
      BY <1>5
    <2>3. Ordered(x)
      BY <2>1 DEF Ordered
    <2> QED
      BY <1>5, <2>1, <2>2, <2>3 DEF LeafOf
  <1>8. nodes'[a] = x /\ \A b \in Ids : nodes'[b].leaf = TRUE
    BY <1>3, <1>4, <1>5 DEF LeafInv
  <1> QED
    BY <1>3, <1>4, <1>6, <1>7, <1>8 DEF LeafInv

LEMMA InsertAtRootLeaf ==
  ASSUME TypeOK, LeafInv, NEW r \in Rows, InsertAtRoot(r)
  PROVE  LeafInv'
  <1>1. Begin(r) /\ root # None /\ ~Full(nodes[root]) /\ pc' = "insert" /\ cur' = root
        /\ UNCHANGED <<nodes, used, root, top, rows>>
    BY DEF InsertAtRoot
  <1>2. /\ row' = r /\ r \notin rows
        /\ Unique => \A s \in rows : KeyOf[s] # KeyOf[r]
    BY <1>1, LeafBegin
  <1> QED
    BY <1>1, <1>2 DEF LeafInv

LEMMA InsertPromoteNever ==
  ASSUME OneLeaf, TypeOK, LeafInv, NEW r \in Rows
  PROVE  ~InsertPromote(r)
  <1> SUFFICES ASSUME InsertPromote(r)
               PROVE  FALSE
    OBVIOUS
  <1>1. Begin(r) /\ root # None /\ Full(nodes[root]) /\ used + 2 <= MaxNodes
    BY DEF InsertPromote
  <1>2. r \notin rows
    BY <1>1 DEF Begin
  <1> QED
    BY <1>1, <1>2, NeverFull

LEMMA InsertLeafLeaf ==
  ASSUME TypeOK, LeafInv, InsertLeaf
  PROVE  LeafInv'
  <1> DEFINE x == nodes[root]
             n == LastNotAbove(x, KeyOf[row]) + 1
             y == [PutElems(x, [i \in n..x.num |->
                      IF i = n THEN [ref |-> row, key |-> KeyOf[row]]
                      ELSE Elem(x, i - 1)])
                   EXCEPT !.num = x.num + 1]
  <1>1. pc = "insert"
    BY DEF InsertLeaf
  <1>2. root # None /\ cur = root /\ root = top /\ row \notin rows /\ ~Full(x)
    BY <1>1 DEF LeafInv
  <1>3. /\ nodes' = [nodes EXCEPT ![root] = y]
        /\ rows' = rows \union {row} /\ pc' = "idle" /\ root' = root /\ top' = root
        /\ used' = used
    BY <1>2, Zenon DEF InsertLeaf, Return
  <1>4. /\ root \in Ids /\ root \in 1..used /\ nodes \in [Ids -> Node] /\ x \in Node
        /\ x.leaf = TRUE /\ LeafOf(x, rows) /\ row \in Rows /\ KeyOf[row] \in Nat
        /\ \A b \in Ids : nodes[b].leaf = TRUE
    BY <1>2, LeafRoot, BTreeAssumption DEF TypeOK, LeafInv
  <1>5. x.num < Order - 1
    <2>1. x.num \in Nat /\ Order \in Nat
      BY <1>4, NodeFacts
    <2> QED
      BY <1>2, <2>1 DEF Full
  <1>6. n \in 0..x.num /\ Room(x, n, KeyOf[row])
    <2>1. Ordered(x)
      BY <1>4 DEF LeafOf
    <2> HIDE DEF x
    <2> QED
      BY <1>4, <2>1, LastNotAboveRoom
  <1> HIDE DEF x, n
  <1>7. y \in Node /\ TakenIn(y, x, n, row)
    BY <1>4, <1>5, <1>6, LeafTakes
  <1> HIDE DEF y
  <1>8. LeafOf(y, rows \union {row})
    BY <1>2, <1>4, <1>6, <1>7, LeafPut
  <1>9. nodes'[root] = y /\ \A b \in Ids : nodes'[b].leaf = TRUE
    BY <1>3, <1>4, <1>7 DEF TakenIn
  <1> QED
    BY <1>2, <1>3, <1>4, <1>8, <1>9 DEF LeafInv

LEMMA RemoveStartLeaf ==
  ASSUME TypeOK, LeafInv, NEW r \in Rows, RemoveStart(r)
  PROVE  LeafInv'
  <1>1. /\ r \in rows /\ root # None /\ pc' = "remove" /\ cur' = root /\ row' = r
        /\ UNCHANGED <<nodes, used, root, top, rows>>
    BY DEF RemoveStart
  <1> QED
    BY <1>1 DEF LeafInv

(* remove() finds the key of the row in the leaf.                          *)
LEMMA LeafHere ==
  ASSUME TypeOK, LeafInv, pc = "remove"
  PROVE  /\ root # None /\ cur = root /\ Here
         /\ At \in 0..(nodes[root].num - 1)
  <1>1. root # None /\ cur = root /\ row \in rows
    BY DEF LeafInv
  <1> DEFINE k == KeyOf[row]
             x == nodes[root]
             i == FindKey(x, k)
  <1>2. At = i /\ (Here <=> i < x.num /\ Key(x, i) = k)
    BY <1>1, Zenon DEF At, Here
  <1>3. k \in Nat
    BY <1>1, BTreeAssumption DEF TypeOK
  <1>4. /\ i \in 0..x.num
        /\ Found(k) <=> i < x.num /\ Key(x, i) = k
    BY <1>1, <1>3, LeafFind
  <1>5. Found(k)
    BY <1>1, <1>3, LeafReads
  <1>6. x.num \in Nat
    BY <1>1, LeafRoot
  <1> HIDE DEF i, x, k
  <1> QED
    BY <1>1, <1>2, <1>4, <1>5, <1>6 DEF x

LEMMA RemoveFromLeafLeaf ==
  ASSUME TypeOK, LeafInv, RemoveFromLeaf
  PROVE  LeafInv' /\ \E r \in rows : rows' = rows \ {r}
  <1>1. pc = "remove"
    BY DEF RemoveFromLeaf
  <1>2. root # None /\ cur = root /\ At \in 0..(nodes[root].num - 1)
    BY <1>1, LeafHere
  <1>a. PICK n : n = At
    OBVIOUS
  <1> DEFINE x == nodes[root]
             y == [PutElems(x, [i \in n..(x.num - 2) |-> Elem(x, i + 1)])
                   EXCEPT !.num = x.num - 1]
             ns == [nodes EXCEPT ![root] = y]
  <1>3. RemoveReturn(ns, {Elem(x, n).ref})
    BY <1>a, <1>2, Zenon DEF RemoveFromLeaf
  <1>4. /\ root \in Ids /\ root \in 1..used /\ root = top /\ nodes \in [Ids -> Node]
        /\ x \in Node /\ x.leaf = TRUE /\ LeafOf(x, rows)
        /\ \A b \in Ids : nodes[b].leaf = TRUE
    BY <1>2, LeafRoot DEF TypeOK, LeafInv
  <1>5. n \in 0..(x.num - 1)
    BY <1>a, <1>2
  <1> HIDE DEF x
  <1>6. y \in Node /\ Without(y, x, n)
    BY <1>4, <1>5, LeafGives
  <1> HIDE DEF y
  <1>7. y.num \in Nat /\ y.leaf = TRUE
    BY <1>6, NodeFacts DEF Without
  <1>8. ns[root] = y /\ \A b \in Ids : ns[b].leaf = TRUE
    BY <1>4, <1>7
  <1> HIDE DEF ns
  <1>9. Elem(x, n).ref = Child(x, n) /\ Child(x, n) \in rows
    BY <1>4, <1>5 DEF Elem, Child, LeafOf
  <1>10. /\ nodes' = ns /\ rows' = rows \ {Child(x, n)} /\ pc' = "idle"
         /\ root' = (IF y.num > 0 THEN root ELSE None) /\ top' = root' /\ used' = used
    BY <1>3, <1>7, <1>8, <1>9 DEF RemoveReturn, Return
  <1>11. IF y.num = 0 THEN rows' = {} ELSE LeafOf(y, rows')
    BY <1>4, <1>5, <1>6, <1>10, LeafDrop
  <1>12. ASSUME y.num = 0 PROVE LeafInv'
    <2>1. root' = None /\ rows' = {}
      BY <1>10, <1>11, <1>12
    <2> QED
      BY <1>8, <1>10, <2>1 DEF LeafInv
  <1>13. ASSUME y.num # 0 PROVE LeafInv'
    <2>1. root' = root /\ LeafOf(y, rows') /\ nodes'[root'] = y
      BY <1>7, <1>8, <1>10, <1>11, <1>13
    <2> QED
      BY <1>2, <1>4, <1>8, <1>10, <2>1 DEF LeafInv
  <1>14. \E r \in rows : rows' = rows \ {r}
    BY <1>9, <1>10
  <1> QED
    BY <1>12, <1>13, <1>14

(* The steps at an inner node are never taken.                             *)
LEMMA NoInner ==
  ASSUME TypeOK, LeafInv
  PROVE  /\ ~InsertInner /\ ~RemoveMissing
         /\ ~RemoveByPrev /\ ~RemoveByNext /\ ~RemoveByMerge /\ ~RemoveBelow
  <1>1. nodes[cur].leaf
    BY DEF TypeOK, LeafInv
  <1>2. pc = "remove" => Here
    BY LeafHere
  <1> QED
    BY <1>1, <1>2, Zenon DEF InsertInner, RemoveMissing, RemoveByPrev, RemoveByNext,
                      RemoveByMerge, RemoveBelow

(* What a step does to the rows of the table.                              *)
Comes(r) ==
  /\ r \notin rows /\ rows' = rows \union {r}
  /\ Unique => \A s \in rows : KeyOf[s] # KeyOf[r]

LEMMA LeafKeeps ==
  ASSUME OneLeaf, TypeOK, LeafInv, [Next]_vars
  PROVE  /\ LeafInv'
         /\ \/ rows' = rows
            \/ \E r \in Rows : Comes(r)
            \/ \E r \in rows : rows' = rows \ {r}
  <1>1. CASE UNCHANGED vars
    BY <1>1 DEF LeafInv, vars
  <1>2. ASSUME NEW r \in Rows, InsertFirst(r)
        PROVE  LeafInv' /\ Comes(r)
    <2>1. Begin(r) /\ rows' = rows \union {r}
      BY <1>2 DEF InsertFirst
    <2>2. LeafInv'
      BY <1>2, InsertFirstLeaf
    <2> QED
      BY <2>1, <2>2, LeafBegin DEF Comes
  <1>3. ASSUME NEW r \in Rows, InsertAtRoot(r)
        PROVE  LeafInv' /\ rows' = rows
    BY <1>3, InsertAtRootLeaf DEF InsertAtRoot
  <1>4. CASE InsertLeaf
    <2>1. pc = "insert" /\ rows' = rows \union {row} /\ row \in Rows
      BY <1>4 DEF InsertLeaf, TypeOK
    <2>2. Comes(row)
      BY <2>1 DEF LeafInv, Comes
    <2> QED
      BY <1>4, <2>1, <2>2, InsertLeafLeaf
  <1>5. ASSUME NEW r \in Rows, RemoveStart(r)
        PROVE  LeafInv' /\ rows' = rows
    BY <1>5, RemoveStartLeaf DEF RemoveStart
  <1>6. CASE RemoveFromLeaf
    BY <1>6, RemoveFromLeafLeaf
  <1>7. \A r \in Rows : ~InsertPromote(r)
    BY InsertPromoteNever
  <1> QED
    BY <1>1, <1>2, <1>3, <1>4, <1>5, <1>6, <1>7, NoInner DEF Next, Inserting, Removing

LEMMA LeafLeadsNow ==
  TypeOK /\ LeafInv => FindExact /\ FindLeadsToRow /\ Refs = rows
  <1> SUFFICES ASSUME TypeOK, LeafInv
               PROVE  FindExact /\ FindLeadsToRow /\ Refs = rows
    OBVIOUS
  <1>1. \A k \in Range(KeyOf) : k \in Nat
    BY BTreeAssumption DEF Range
  <1> QED
    BY <1>1, LeafReads DEF FindExact, FindLeadsToRow

LEMMA LeafStep ==
  ASSUME OneLeaf, TypeOK, LeafInv, Refs = rows, (Refs = rows)', [Next]_vars
  PROVE  [Abstract!Next]_<<rows, Refs>>
  <1>0. Refs' = rows'
    OBVIOUS
  <1>1. ASSUME NEW r \in Rows, Comes(r)
        PROVE  Abstract!Next
    <2>1. Abstract!Insert(r)
      BY <1>0, <1>1 DEF Abstract!Insert, Comes
    <2> QED
      BY <2>1 DEF Abstract!Next
  <1>2. ASSUME NEW r \in rows, rows' = rows \ {r}
        PROVE  Abstract!Next
    <2>1. Abstract!Remove(r) /\ r \in Rows
      BY <1>0, <1>2 DEF Abstract!Remove, TypeOK
    <2> QED
      BY <2>1 DEF Abstract!Next
  <1>3. ASSUME rows' = rows
        PROVE  UNCHANGED <<rows, Refs>>
    BY <1>0, <1>3
  <1> QED
    BY <1>1, <1>2, <1>3, LeafKeeps

(* While the index of a table is one leaf, because the table has fewer     *)
(* rows than the order of the index or no blocks are left for a split, the *)
(* row at the place find() returns is a row of the table and has the key   *)
(* that was looked for, whatever insert_non_full() and remove_from_leaf()  *)
(* have moved and whatever order the rows come, go and come back in: the   *)
(* slots behind the last key, which find_key() may lead to, still hold     *)
(* what was removed and are never taken for an answer.                     *)
THEOREM LeafLeads ==
  ASSUME OneLeaf
  PROVE  Spec => []FindLeadsToRow
  <1>1. Init => LeafInv
    BY LeafInit
  <1>2. TypeOK /\ LeafInv /\ [Next]_vars => LeafInv'
    BY LeafKeeps
  <1>3. TypeOK /\ LeafInv => FindLeadsToRow
    BY LeafLeadsNow
  <1>4. Spec => []TypeOK
    BY TypeCorrect
  <1> QED
    BY <1>1, <1>2, <1>3, <1>4, PTL DEF Spec

(* The index of one leaf implements Index with its removals: remove() of   *)
(* the key of a row takes one row out of the table and out of the index in *)
(* the same step, the last removal leaves an empty index that takes rows   *)
(* again, and verify_unique_key() keeps two rows with the same key out of  *)
(* an index with FLAG_UNIQUE, also after removals.                         *)
THEOREM LeafImplements ==
  ASSUME OneLeaf
  PROVE  Spec => Implements
  <1>1. Init => LeafInv
    BY LeafInit
  <1>2. TypeOK /\ LeafInv /\ [Next]_vars => LeafInv'
    BY LeafKeeps
  <1>3. TypeOK /\ LeafInv => Refs = rows
    BY LeafLeadsNow
  <1>4. Spec => []TypeOK
    BY TypeCorrect
  <1>5. Init => Abstract!Init
    <2> SUFFICES ASSUME Init
                 PROVE  Abstract!Init
      OBVIOUS
    <2>1. rows = {} /\ top = None
      BY DEF Init
    <2>2. Refs = {}
      BY <2>1, Zenon DEF Refs
    <2> QED
      BY <2>1, <2>2 DEF Abstract!Init
  <1>6. TypeOK /\ LeafInv /\ Refs = rows /\ (Refs = rows)' /\ [Next]_vars
          => [Abstract!Next]_<<rows, Refs>>
    BY LeafStep
  <1> QED
    BY <1>1, <1>2, <1>3, <1>4, <1>5, <1>6, PTL DEF Spec, Implements, Abstract!Spec

=============================================================================
