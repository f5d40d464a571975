----------------------------- MODULE TablesRows -----------------------------
(* Theorems about Tables, continued: the rows of the tables.               *)
EXTENDS TablesProofs
-----------------------------------------------------------------------------
(* The keys of rows.                                                       *)

KeyOf(z, r) == MakeKey(KeyColumns(z), r)

\* No two rows of the list have one primary key.
Distinct(z, list) == \A i, j \in DOMAIN list : KeyOf(z, list[i]) = KeyOf(z, list[j]) => i = j

\* Find() and the row it leads to first.
LEMMA FindFacts ==
  ASSUME NEW z, NEW list, IsList(list), NEW key
  PROVE  /\ Find(z, list, key) = {} <=> \A r \in ToSet(list) : KeyOf(z, r) # key
         /\ Find(z, list, key) # {} =>
              /\ FirstOf(z, list, key) \in DOMAIN list
              /\ KeyOf(z, list[FirstOf(z, list, key)]) = key
  <1> DEFINE F == Find(z, list, key)
  <1>1. F = {i \in DOMAIN list : KeyOf(z, list[i]) = key}
    BY DEF Find, KeyOf
  <1>2. Len(list) \in Nat /\ DOMAIN list = 1..Len(list)
    BY ListFacts
  <1> HIDE DEF F
  <1>3. F \subseteq Nat
    BY <1>1, <1>2
  <1>4. F = {} <=> \A r \in ToSet(list) : KeyOf(z, r) # key
    BY <1>1 DEF ToSet
  <1>5. ASSUME F # {} PROVE FirstOf(z, list, key) \in F
    <2>1. \E n \in F : \A y \in F : n <= y
      BY <1>3, <1>5, KeyRefLoop!NatMin
    <2> QED
      BY <2>1, Zenon DEF FirstOf, F
  <1> QED
    BY <1>1, <1>4, <1>5 DEF F

\* A row with another key is added; a row is removed.
LEMMA AppendDistinct ==
  ASSUME NEW z, NEW x, IsList(x), Distinct(z, x), NEW e, \A r \in ToSet(x) : KeyOf(z, r) # KeyOf(z, e)
  PROVE  Distinct(z, Append(x, e))
  <1> DEFINE y == Append(x, e)
  <1>1. /\ Len(x) \in Nat /\ DOMAIN x = 1..Len(x) /\ \A i \in DOMAIN x : x[i] \in ToSet(x)
    BY ListFacts
  <1>2. /\ \A i \in DOMAIN x : y[i] = x[i]
        /\ y[Len(x) + 1] = e /\ DOMAIN y = 1..(Len(x) + 1)
    BY AppendFacts
  <1> HIDE DEF y
  <1>3. ASSUME NEW i \in DOMAIN y, NEW j \in DOMAIN y, KeyOf(z, y[i]) = KeyOf(z, y[j]) PROVE i = j
    <2>1. (i \in DOMAIN x \/ i = Len(x) + 1) /\ (j \in DOMAIN x \/ j = Len(x) + 1)
      BY <1>1, <1>2
    <2>2. CASE i \in DOMAIN x /\ j \in DOMAIN x
      <3>1. KeyOf(z, x[i]) = KeyOf(z, x[j])
        BY <1>2, <1>3, <2>2
      <3> QED
        BY <2>2, <3>1 DEF Distinct
    <2>3. CASE i \in DOMAIN x /\ j = Len(x) + 1
      <3>1. KeyOf(z, x[i]) = KeyOf(z, e) /\ x[i] \in ToSet(x)
        BY <1>1, <1>2, <1>3, <2>3
      <3> QED
        BY <3>1
    <2>4. CASE i = Len(x) + 1 /\ j \in DOMAIN x
      <3>1. KeyOf(z, x[j]) = KeyOf(z, e) /\ x[j] \in ToSet(x)
        BY <1>1, <1>2, <1>3, <2>4
      <3> QED
        BY <3>1
    <2> QED
      BY <2>1, <2>2, <2>3, <2>4
  <1>4. Distinct(z, y)
    BY <1>3 DEF Distinct
  <1> QED
    BY <1>4 DEF y

LEMMA RemoveDistinct ==
  ASSUME NEW z, NEW x, IsList(x), NEW k \in DOMAIN x
  PROVE  LET y == RemoveAt(x, k)
         IN  /\ IsList(y) /\ ToSet(y) \subseteq ToSet(x) /\ ToSet(x) \ {x[k]} \subseteq ToSet(y)
             /\ Distinct(z, x) => /\ Distinct(z, y) /\ ToSet(y) = ToSet(x) \ {x[k]}
                                  /\ \A r \in ToSet(y) : KeyOf(z, r) # KeyOf(z, x[k])
  <1> DEFINE y == RemoveAt(x, k)
             f(i) == IF i < k THEN i ELSE i + 1
  <1>1. Len(x) \in Nat /\ DOMAIN x = 1..Len(x)
    BY ListFacts
  <1>2. /\ IsList(y) /\ Len(y) = Len(x) - 1 /\ DOMAIN y = 1..(Len(x) - 1)
        /\ \A i \in DOMAIN y : y[i] = x[f(i)]
    BY RemoveFacts
  <1> HIDE DEF y
  <1>3. /\ \A i \in DOMAIN y : f(i) \in DOMAIN x \ {k}
        /\ \A i, j \in DOMAIN y : f(i) = f(j) => i = j
    BY <1>1, <1>2
  <1>4. ToSet(y) = {x[m] : m \in DOMAIN x \ {k}}
    BY RemoveElements DEF y
  <1>5. ToSet(y) \subseteq ToSet(x) /\ ToSet(x) \ {x[k]} \subseteq ToSet(y)
    BY RemoveElements DEF y
  <1>6. ASSUME Distinct(z, x)
        PROVE  /\ Distinct(z, y) /\ ToSet(y) = ToSet(x) \ {x[k]}
               /\ \A r \in ToSet(y) : KeyOf(z, r) # KeyOf(z, x[k])
    <2>1. Distinct(z, y)
      BY <1>2, <1>3, <1>6 DEF Distinct
    <2>2. \A r \in ToSet(y) : KeyOf(z, r) # KeyOf(z, x[k])
      BY <1>4, <1>6 DEF Distinct
    <2> QED
      BY <1>5, <2>1, <2>2
  <1> QED
    BY <1>2, <1>5, <1>6 DEF y

-----------------------------------------------------------------------------
(* The loops over rows.                                                    *)

InsertRound(c, acc, r) == IF verify_unique_key(c.z, acc, r) THEN Append(acc, r) ELSE acc

\* After i rounds: the rows of the list, and those of new that were fresh.
InsertKept(c, i, acc) ==
  /\ IsList(acc)
  /\ ToSet(acc) = ToSet(c.list) \cup {c.new[j] : j \in {k \in 1..i : Fresh(c.z, ToSet(c.list), c.new, k)}}
  /\ \A j \in 1..i : \E r \in ToSet(acc) : KeyOf(c.z, r) = KeyOf(c.z, c.new[j])
  /\ Distinct(c.z, c.list) => Distinct(c.z, acc)

Inserts == INSTANCE FoldTheorems WITH Round <- InsertRound, Kept <- InsertKept

\* INSERT adds the fresh rows, and no key twice.
LEMMA InsertKeeps ==
  ASSUME NEW z, NEW list, IsList(list), NEW new, IsList(new)
  PROVE  LET y == InsertRows(z, list, new)
         IN  /\ IsList(y)
             /\ ToSet(y) = ToSet(list) \cup {new[j] : j \in {i \in DOMAIN new : Fresh(z, ToSet(list), new, i)}}
             /\ Distinct(z, list) => Distinct(z, y)
  <1>0. PICK c : c = [z |-> z, list |-> list, new |-> new]
    OBVIOUS
  <1>1. c.z = z /\ c.list = list /\ c.new = new
    BY <1>0
  <1>2. InsertRows(c.z, list, new) = Inserts!Fold(c, list, new)
    BY Zenon DEF InsertRows, Inserts!Fold, InsertRound, FoldLeft, MapThenFoldSet, Max,
                 Inserts!FoldLeft, Inserts!MapThenFoldSet, Inserts!Max
  <1>3. new \in Seq(ToSet(new)) /\ Len(new) \in Nat /\ DOMAIN new = 1..Len(new)
    BY ListFacts
  <1>4. InsertKept(c, 0, list)
    BY <1>1 DEF InsertKept
  <1>5. ASSUME NEW i \in 1..Len(new), NEW acc, InsertKept(c, i - 1, acc)
        PROVE  InsertKept(c, i, InsertRound(c, acc, new[i]))
    <2> DEFINE W == {k \in 1..(i - 1) : Fresh(z, ToSet(list), new, k)}
               W2 == {k \in 1..i : Fresh(z, ToSet(list), new, k)}
               e == new[i]
    <2>0. i \in Nat /\ i \in 1..i /\ \A k \in 1..i : k \in 1..(i - 1) \/ k = i
      BY <1>3
    <2>1. /\ IsList(acc) /\ ToSet(acc) = ToSet(list) \cup {new[j] : j \in W}
          /\ \A j \in 1..(i - 1) : \E r \in ToSet(acc) : KeyOf(z, r) = KeyOf(z, new[j])
          /\ Distinct(z, list) => Distinct(z, acc)
      BY <1>1, <1>5 DEF InsertKept
    <2>2. verify_unique_key(z, acc, e) <=> \A r \in ToSet(acc) : KeyOf(z, r) # KeyOf(z, e)
      BY <2>1, FindFacts DEF verify_unique_key, KeyOf
    <2>3. Fresh(z, ToSet(list), new, i) <=>
             /\ \A r \in ToSet(list) : KeyOf(z, r) # KeyOf(z, e)
             /\ \A k \in 1..(i - 1) : KeyOf(z, new[k]) # KeyOf(z, e)
      BY DEF Fresh, KeyOf
    <2>4. Fresh(z, ToSet(list), new, i) <=> verify_unique_key(z, acc, e)
      <3>1. W \subseteq 1..(i - 1)
        OBVIOUS
      <3> HIDE DEF W, e
      <3> QED
        BY <2>1, <2>2, <2>3, <3>1
    <2>5. InsertRound(c, acc, e) = IF verify_unique_key(z, acc, e) THEN Append(acc, e) ELSE acc
      BY <1>1 DEF InsertRound
    <2>6. CASE verify_unique_key(z, acc, e)
      <3>1. W2 = W \cup {i}
        BY <2>0, <2>4, <2>6
      <3>2. InsertRound(c, acc, e) = Append(acc, e)
        BY <2>5, <2>6
      <3>3. IsList(Append(acc, e)) /\ ToSet(Append(acc, e)) = ToSet(acc) \cup {e}
        BY <2>1, AppendFacts
      <3>4. Distinct(z, list) => Distinct(z, Append(acc, e))
        BY <2>1, <2>2, <2>6, AppendDistinct
      <3>5. ToSet(Append(acc, e)) = ToSet(list) \cup {new[j] : j \in W2}
        <4> HIDE DEF W, W2
        <4> QED
          BY <2>1, <3>1, <3>3
      <3>6. \A j \in 1..i : \E r \in ToSet(Append(acc, e)) : KeyOf(z, r) = KeyOf(z, new[j])
        BY <2>0, <2>1, <3>3
      <3> QED
        BY <1>1, <3>2, <3>3, <3>4, <3>5, <3>6 DEF InsertKept
    <2>7. CASE ~ verify_unique_key(z, acc, e)
      <3>1. W2 = W
        BY <2>0, <2>4, <2>7
      <3>2. InsertRound(c, acc, e) = acc
        BY <2>5, <2>7
      <3>3. \A j \in 1..i : \E r \in ToSet(acc) : KeyOf(z, r) = KeyOf(z, new[j])
        BY <2>0, <2>1, <2>2, <2>7
      <3> QED
        BY <1>1, <2>1, <3>1, <3>2, <3>3 DEF InsertKept
    <2> QED
      BY <2>6, <2>7
  <1>6. InsertKept(c, Len(new), Inserts!Fold(c, list, new))
    BY <1>3, <1>4, <1>5, Inserts!FoldKeeps
  <1> QED
    BY <1>1, <1>2, <1>3, <1>6 DEF InsertKept

LoadRound(c, acc, r) ==
  IF acc.dup = <<>> /\ verify_unique_key(c.z, acc.list, r)
  THEN [acc EXCEPT !.list = Append(@, r)] ELSE [acc EXCEPT !.dup = <<r>>]

AllFresh(z, list, new, i) == \A k \in 1..i : Fresh(z, ToSet(list), new, k)

\* After i rounds: the rows of the list, and the lines before the first that was not fresh.
LoadKept(c, i, acc) ==
  /\ acc = [list |-> acc.list, dup |-> acc.dup] /\ IsList(acc.list)
  /\ acc.dup = <<>> <=> AllFresh(c.z, c.list, c.new, i)
  /\ ToSet(acc.list) = ToSet(c.list) \cup {c.new[j] : j \in {k \in 1..i : AllFresh(c.z, c.list, c.new, k)}}
  /\ Distinct(c.z, c.list) => Distinct(c.z, acc.list)

Loads == INSTANCE FoldTheorems WITH Round <- LoadRound, Kept <- LoadKept

\* LOAD adds the lines before the first duplicate.
LEMMA LoadKeeps ==
  ASSUME NEW z, NEW list, IsList(list), NEW new, IsList(new)
  PROVE  LET y == LoadRows(z, list, new)
         IN  /\ IsList(y)
             /\ ToSet(y) = ToSet(list) \cup
                  {new[j] : j \in {i \in DOMAIN new : \A k \in 1..i : Fresh(z, ToSet(list), new, k)}}
             /\ Distinct(z, list) => Distinct(z, y)
  <1>0. PICK c : c = [z |-> z, list |-> list, new |-> new]
    OBVIOUS
  <1>1. c.z = z /\ c.list = list /\ c.new = new
    BY <1>0
  <1> DEFINE base == [list |-> list, dup |-> <<>>]
  <1>2. LoadRows(c.z, list, new) = Loads!Fold(c, base, new).list
    BY Zenon DEF LoadRows, Loads!Fold, LoadRound, FoldLeft, MapThenFoldSet, Max,
                 Loads!FoldLeft, Loads!MapThenFoldSet, Loads!Max
  <1>3. new \in Seq(ToSet(new)) /\ Len(new) \in Nat /\ DOMAIN new = 1..Len(new)
    BY ListFacts
  <1>4. LoadKept(c, 0, base)
    BY <1>1 DEF LoadKept, AllFresh
  <1>5. ASSUME NEW i \in 1..Len(new), NEW acc, LoadKept(c, i - 1, acc)
        PROVE  LoadKept(c, i, LoadRound(c, acc, new[i]))
    <2> DEFINE W == {k \in 1..(i - 1) : AllFresh(z, list, new, k)}
               W2 == {k \in 1..i : AllFresh(z, list, new, k)}
               e == new[i]
    <2>0. i \in Nat /\ i \in 1..i /\ \A k \in 1..i : k \in 1..(i - 1) \/ k = i
      BY <1>3
    <2>1. /\ acc = [list |-> acc.list, dup |-> acc.dup] /\ IsList(acc.list)
          /\ acc.dup = <<>> <=> AllFresh(z, list, new, i - 1)
          /\ ToSet(acc.list) = ToSet(list) \cup {new[j] : j \in W}
          /\ Distinct(z, list) => Distinct(z, acc.list)
      BY <1>1, <1>5 DEF LoadKept
    <2>2. verify_unique_key(z, acc.list, e) <=> \A r \in ToSet(acc.list) : KeyOf(z, r) # KeyOf(z, e)
      BY <2>1, FindFacts DEF verify_unique_key, KeyOf
    <2>3. Fresh(z, ToSet(list), new, i) <=>
             /\ \A r \in ToSet(list) : KeyOf(z, r) # KeyOf(z, e)
             /\ \A k \in 1..(i - 1) : KeyOf(z, new[k]) # KeyOf(z, e)
      BY DEF Fresh, KeyOf
    <2>4. AllFresh(z, list, new, i) <=> AllFresh(z, list, new, i - 1) /\ Fresh(z, ToSet(list), new, i)
      BY <2>0 DEF AllFresh
    <2>5. \A k \in 1..(i - 1) : AllFresh(z, list, new, i - 1) => AllFresh(z, list, new, k)
      BY <2>0 DEF AllFresh
    <2>6. AllFresh(z, list, new, i) <=> acc.dup = <<>> /\ verify_unique_key(z, acc.list, e)
      <3>1. W \subseteq 1..(i - 1)
        OBVIOUS
      <3>2. AllFresh(z, list, new, i - 1) => W = 1..(i - 1)
        BY <2>5
      <3> HIDE DEF W, e
      <3> QED
        BY <2>1, <2>2, <2>3, <2>4, <3>1, <3>2
    <2>7. CASE acc.dup = <<>> /\ verify_unique_key(z, acc.list, e)
      <3>1. W2 = W \cup {i}
        BY <2>0, <2>6, <2>7
      <3> DEFINE y == Append(acc.list, e)
                 n == LoadRound(c, acc, e)
      <3>2. n = [list |-> y, dup |-> acc.dup]
        BY <1>1, <2>1, <2>7 DEF LoadRound
      <3>3. IsList(y) /\ ToSet(y) = ToSet(acc.list) \cup {e}
        BY <2>1, AppendFacts
      <3>4. Distinct(z, list) => Distinct(z, y)
        BY <2>1, <2>2, <2>7, AppendDistinct
      <3>5. ToSet(y) = ToSet(list) \cup {new[j] : j \in W2}
        <4> HIDE DEF W, W2, y
        <4> QED
          BY <2>1, <3>1, <3>3
      <3> HIDE DEF y, n
      <3>6. n.list = y /\ n.dup = acc.dup
        BY <3>2
      <3>7. LoadKept(c, i, n)
        BY <1>1, <2>6, <2>7, <3>2, <3>3, <3>4, <3>5, <3>6 DEF LoadKept
      <3> QED
        BY <3>7 DEF n
    <2>8. CASE ~ (acc.dup = <<>> /\ verify_unique_key(z, acc.list, e))
      <3> DEFINE n == LoadRound(c, acc, e)
      <3>1. W2 = W
        BY <2>0, <2>6, <2>8
      <3>2. n = [list |-> acc.list, dup |-> <<e>>]
        BY <1>1, <2>1, <2>8 DEF LoadRound
      <3> HIDE DEF n
      <3>3. n.list = acc.list /\ n.dup = <<e>> /\ n.dup # <<>>
        BY <3>2
      <3>4. LoadKept(c, i, n)
        BY <1>1, <2>1, <2>6, <2>8, <3>1, <3>2, <3>3 DEF LoadKept
      <3> QED
        BY <3>4 DEF n
    <2> QED
      BY <2>7, <2>8
  <1>6. LoadKept(c, Len(new), Loads!Fold(c, base, new))
    <2> HIDE DEF base
    <2> QED
      BY <1>3, <1>4, <1>5, Loads!FoldKeeps
  <1> QED
    BY <1>1, <1>2, <1>3, <1>6 DEF LoadKept, AllFresh

KeyRound(c, acc, r) == IF Matches(c, r) THEN Append(acc, MakeKey(KeyColumns(sch[c.tbl]), r)) ELSE acc

\* After i rounds: the keys of the matching rows among the first i.
KeyKept(c, i, acc) ==
  /\ IsList(acc)
  /\ ToSet(acc) = {KeyOf(sch[c.tbl], rows[c.tbl][j]) : j \in {k \in 1..i : Matches(c, rows[c.tbl][k])}}

KeyLoop == INSTANCE FoldTheorems WITH Round <- KeyRound, Kept <- KeyKept

\* The keys are those of the matching rows.
LEMMA KeyListFacts ==
  ASSUME NEW st, IsList(rows[st.tbl])
  PROVE  /\ IsList(KeyList(st))
         /\ ToSet(KeyList(st)) = {KeyOf(sch[st.tbl], r) : r \in {q \in ToSet(rows[st.tbl]) : Matches(st, q)}}
  <1> DEFINE z == sch[st.tbl]
             list == rows[st.tbl]
  <1>2. KeyList(st) = KeyLoop!Fold(st, <<>>, list)
    BY Zenon DEF KeyList, KeyLoop!Fold, KeyRound, FoldLeft, MapThenFoldSet, Max,
                 KeyLoop!FoldLeft, KeyLoop!MapThenFoldSet, KeyLoop!Max
  <1>3. IsList(list) /\ list \in Seq(ToSet(list)) /\ Len(list) \in Nat /\ DOMAIN list = 1..Len(list)
    BY ListFacts
  <1> HIDE DEF list, z
  <1>4. KeyKept(st, 0, <<>>)
    BY EmptyIsList DEF KeyKept, z, list
  <1>5. ASSUME NEW i \in 1..Len(list), NEW acc, KeyKept(st, i - 1, acc)
        PROVE  KeyKept(st, i, KeyRound(st, acc, list[i]))
    <2> DEFINE W == {k \in 1..(i - 1) : Matches(st, list[k])}
               W2 == {k \in 1..i : Matches(st, list[k])}
    <2>0. i \in Nat /\ i \in 1..i /\ \A k \in 1..i : k \in 1..(i - 1) \/ k = i
      BY <1>3
    <2>1. IsList(acc) /\ ToSet(acc) = {KeyOf(z, list[j]) : j \in W}
      BY <1>5 DEF KeyKept, z, list
    <2>2. CASE Matches(st, list[i])
      <3>1. W2 = W \cup {i}
        BY <2>0, <2>2
      <3> DEFINE y == Append(acc, KeyOf(z, list[i]))
      <3>2. KeyRound(st, acc, list[i]) = y
        BY <2>2 DEF KeyRound, z, list, KeyOf
      <3>3. IsList(y) /\ ToSet(y) = ToSet(acc) \cup {KeyOf(z, list[i])}
        BY <2>1, AppendFacts
      <3> HIDE DEF y
      <3>4. ToSet(y) = {KeyOf(z, list[j]) : j \in W2}
        <4> HIDE DEF W, W2
        <4> QED
          BY <2>1, <3>1, <3>3
      <3> QED
        BY <3>2, <3>3, <3>4 DEF KeyKept, z, list
    <2>3. CASE ~ Matches(st, list[i])
      <3>1. W2 = W
        BY <2>0, <2>3
      <3>2. KeyRound(st, acc, list[i]) = acc
        BY <2>3 DEF KeyRound, z, list
      <3> QED
        BY <2>1, <3>1, <3>2 DEF KeyKept, z, list
    <2> QED
      BY <2>2, <2>3
  <1>6. KeyKept(st, Len(list), KeyLoop!Fold(st, <<>>, list))
    BY <1>3, <1>4, <1>5, KeyLoop!FoldKeeps
  <1>7. IsList(KeyList(st)) /\ ToSet(KeyList(st)) = {KeyOf(z, list[j]) : j \in {k \in DOMAIN list : Matches(st, list[k])}}
    BY <1>2, <1>3, <1>6 DEF KeyKept, z, list
  <1>8. {KeyOf(z, list[j]) : j \in {k \in DOMAIN list : Matches(st, list[k])}} = {KeyOf(z, r) : r \in {q \in ToSet(list) : Matches(st, q)}}
    BY DEF ToSet
  <1> QED
    BY <1>7, <1>8 DEF z, list

DeleteRound(c, acc, key) ==
  IF Find(c.z, acc, key) = {} THEN acc ELSE RemoveAt(acc, FirstOf(c.z, acc, key))

\* After i rounds: the rows with none of the first i keys.
DeleteKept(c, i, acc) ==
  /\ IsList(acc) /\ ToSet(acc) \subseteq ToSet(c.list)
  /\ Distinct(c.z, c.list) =>
       /\ Distinct(c.z, acc)
       /\ ToSet(acc) = {r \in ToSet(c.list) : \A j \in 1..i : KeyOf(c.z, r) # c.keys[j]}

Deletes == INSTANCE FoldTheorems WITH Round <- DeleteRound, Kept <- DeleteKept

\* The rows that delete_row leaves.
DeleteRows(z, list, keys) ==
  LET Del(acc, key) == IF Find(z, acc, key) = {} THEN acc
                       ELSE RemoveAt(acc, FirstOf(z, acc, key))
  IN  FoldLeft(Del, list, keys)

\* DELETE removes the rows with these keys, when keys are distinct.
LEMMA DeleteKeeps ==
  ASSUME NEW z, NEW list, IsList(list), NEW keys, IsList(keys)
  PROVE  LET y == DeleteRows(z, list, keys)
         IN  /\ IsList(y) /\ ToSet(y) \subseteq ToSet(list)
             /\ Distinct(z, list) =>
                  Distinct(z, y) /\ ToSet(y) = {r \in ToSet(list) : KeyOf(z, r) \notin ToSet(keys)}
  <1>0. PICK c : c = [z |-> z, list |-> list, keys |-> keys]
    OBVIOUS
  <1>1. c.z = z /\ c.list = list /\ c.keys = keys
    BY <1>0
  <1>2. DeleteRows(c.z, list, keys) = Deletes!Fold(c, list, keys)
    BY Zenon DEF DeleteRows, Deletes!Fold, DeleteRound, FoldLeft, MapThenFoldSet, Max,
                 Deletes!FoldLeft, Deletes!MapThenFoldSet, Deletes!Max
  <1>3. keys \in Seq(ToSet(keys)) /\ Len(keys) \in Nat /\ DOMAIN keys = 1..Len(keys)
    BY ListFacts
  <1>4. DeleteKept(c, 0, list)
    BY <1>1 DEF DeleteKept
  <1>5. ASSUME NEW i \in 1..Len(keys), NEW acc, DeleteKept(c, i - 1, acc)
        PROVE  DeleteKept(c, i, DeleteRound(c, acc, keys[i]))
    <2> DEFINE e == keys[i]
               R == {r \in ToSet(list) : \A j \in 1..(i - 1) : KeyOf(z, r) # keys[j]}
               R2 == {r \in ToSet(list) : \A j \in 1..i : KeyOf(z, r) # keys[j]}
    <2>0. i \in Nat /\ i \in 1..i /\ (\A k \in 1..i : k \in 1..(i - 1) \/ k = i) /\ 1..(i - 1) \subseteq 1..i
      BY <1>3
    <2>1. /\ IsList(acc) /\ ToSet(acc) \subseteq ToSet(list)
          /\ Distinct(z, list) => Distinct(z, acc) /\ ToSet(acc) = R
      BY <1>1, <1>5 DEF DeleteKept
    <2>2. R2 = {r \in R : KeyOf(z, r) # e}
      BY <2>0
    <2>3. CASE Find(z, acc, e) = {}
      <3>1. DeleteRound(c, acc, e) = acc
        BY <1>1, <2>3 DEF DeleteRound
      <3>2. \A r \in ToSet(acc) : KeyOf(z, r) # e
        BY <2>1, <2>3, FindFacts
      <3>3. Distinct(z, list) => ToSet(acc) = R2
        <4> HIDE DEF R, R2
        <4> QED
          BY <2>1, <2>2, <3>2
      <3> QED
        BY <1>1, <2>1, <3>1, <3>3 DEF DeleteKept
    <2>4. CASE Find(z, acc, e) # {}
      <3> DEFINE k == FirstOf(z, acc, e)
                 y == RemoveAt(acc, k)
      <3>1. DeleteRound(c, acc, e) = y
        BY <1>1, <2>4 DEF DeleteRound
      <3>2. k \in DOMAIN acc /\ KeyOf(z, acc[k]) = e
        BY <2>1, <2>4, FindFacts
      <3>3. /\ IsList(y) /\ ToSet(y) \subseteq ToSet(acc)
            /\ Distinct(z, acc) => /\ Distinct(z, y) /\ ToSet(y) = ToSet(acc) \ {acc[k]}
                                   /\ \A r \in ToSet(y) : KeyOf(z, r) # KeyOf(z, acc[k])
        <4> HIDE DEF k
        <4> QED
          BY <2>1, <3>2, RemoveDistinct
      <3> HIDE DEF y
      <3>4. ASSUME Distinct(z, list) PROVE Distinct(z, y) /\ ToSet(y) = R2
        <4> HIDE DEF R, R2, k, e
        <4> QED
          BY <2>1, <2>2, <3>2, <3>3, <3>4
      <3> QED
        BY <1>1, <2>1, <3>1, <3>3, <3>4 DEF DeleteKept
    <2> QED
      BY <2>3, <2>4
  <1>6. DeleteKept(c, Len(keys), Deletes!Fold(c, list, keys))
    BY <1>3, <1>4, <1>5, Deletes!FoldKeeps
  <1>7. \A r : (\A j \in 1..Len(keys) : KeyOf(z, r) # keys[j]) <=> KeyOf(z, r) \notin ToSet(keys)
    BY <1>3 DEF ToSet
  <1> QED
    BY <1>1, <1>2, <1>6, <1>7 DEF DeleteKept

-----------------------------------------------------------------------------
\* The rows have values for the columns of the primary key, and the column that
\* is assigned is not one of these.
KeyStays(z, st, list) ==
  /\ st.set.col \notin ToSet(KeyColumns(z))
  /\ \A r \in ToSet(list) : ToSet(KeyColumns(z)) \subseteq DOMAIN r

\* An assignment leaves the other columns, and so the key.
LEMMA AssignedFacts ==
  ASSUME NEW st, NEW r
  PROVE  /\ DOMAIN Assigned(st, r) = DOMAIN r
         /\ Assigned(st, Assigned(st, r)) = Assigned(st, r)
         /\ \A z : st.set.col \notin ToSet(KeyColumns(z)) /\ ToSet(KeyColumns(z)) \subseteq DOMAIN r =>
              KeyOf(z, Assigned(st, r)) = KeyOf(z, r)
  <1>1. PICK col, val : col = st.set.col /\ val = st.set.val
    OBVIOUS
  <1>2. \A q : Assigned(st, q) = [n \in DOMAIN q |-> IF n = col THEN val ELSE q[n]]
    BY <1>1 DEF Assigned
  <1>3. DOMAIN Assigned(st, r) = DOMAIN r
    BY <1>2
  <1>4. Assigned(st, Assigned(st, r)) = Assigned(st, r)
    BY <1>2
  <1>5. ASSUME NEW z, col \notin ToSet(KeyColumns(z)), ToSet(KeyColumns(z)) \subseteq DOMAIN r
        PROVE  KeyOf(z, Assigned(st, r)) = KeyOf(z, r)
    <2> DEFINE q == Assigned(st, r)
               K == KeyColumns(z)
    <2>1. \A n \in DOMAIN r : n # col => q[n] = r[n]
      BY <1>2
    <2>2. \A i \in DOMAIN K : K[i] \in ToSet(K)
      BY DEF ToSet
    <2> HIDE DEF q, K
    <2>3. \A i \in DOMAIN K : q[K[i]] = r[K[i]]
      BY <1>5, <2>1, <2>2 DEF K
    <2>4. MakeKey(K, q) = MakeKey(K, r)
      BY <2>3 DEF MakeKey
    <2> QED
      BY <2>4 DEF KeyOf, q, K
  <1> QED
    BY <1>1, <1>3, <1>4, <1>5

UpdateRound(c, acc, key) ==
  IF Find(c.z, acc, key) = {} THEN acc
  ELSE Append(RemoveAt(acc, FirstOf(c.z, acc, key)), Assigned(c.st, acc[FirstOf(c.z, acc, key)]))

\* The row that r has become after i rounds.
Become(c, i, r) == IF \E j \in 1..i : KeyOf(c.z, r) = c.keys[j] THEN Assigned(c.st, r) ELSE r

UpdateKept(c, i, acc) ==
  /\ IsList(acc) /\ \A r \in ToSet(acc) : \E q \in ToSet(c.list) : DOMAIN r = DOMAIN q
  /\ Distinct(c.z, c.list) /\ KeyStays(c.z, c.st, c.list) =>
       Distinct(c.z, acc) /\ ToSet(acc) = {Become(c, i, r) : r \in ToSet(c.list)}

Updates == INSTANCE FoldTheorems WITH Round <- UpdateRound, Kept <- UpdateKept

\* UPDATE assigns to the rows with these keys, when keys are distinct.
LEMMA UpdateKeeps ==
  ASSUME NEW z, NEW st, NEW list, IsList(list), NEW keys, IsList(keys)
  PROVE  LET y == UpdateRows(z, st, list, keys)
         IN  /\ IsList(y) /\ \A r \in ToSet(y) : \E q \in ToSet(list) : DOMAIN r = DOMAIN q
             /\ Distinct(z, list) /\ KeyStays(z, st, list) =>
                  /\ Distinct(z, y)
                  /\ ToSet(y) = {IF KeyOf(z, r) \in ToSet(keys) THEN Assigned(st, r) ELSE r : r \in ToSet(list)}
  <1>0. PICK c : c = [z |-> z, st |-> st, list |-> list, keys |-> keys]
    OBVIOUS
  <1>1. c.z = z /\ c.st = st /\ c.list = list /\ c.keys = keys
    BY <1>0
  <1>2. UpdateRows(c.z, c.st, list, keys) = Updates!Fold(c, list, keys)
    BY Zenon DEF UpdateRows, Updates!Fold, UpdateRound, FoldLeft, MapThenFoldSet, Max,
                 Updates!FoldLeft, Updates!MapThenFoldSet, Updates!Max
  <1>3. keys \in Seq(ToSet(keys)) /\ Len(keys) \in Nat /\ DOMAIN keys = 1..Len(keys)
    BY ListFacts
  <1>4. UpdateKept(c, 0, list)
    <2>1. \A r : Become(c, 0, r) = r
      BY DEF Become
    <2> QED
      BY <1>1, <2>1 DEF UpdateKept
  <1>5. ASSUME NEW i \in 1..Len(keys), NEW acc, UpdateKept(c, i - 1, acc)
        PROVE  UpdateKept(c, i, UpdateRound(c, acc, keys[i]))
    <2> DEFINE e == keys[i]
               B(r) == Become(c, i - 1, r)
               B2(r) == Become(c, i, r)
    <2>0. i \in Nat /\ i \in 1..i /\ (\A k \in 1..i : k \in 1..(i - 1) \/ k = i) /\ 1..(i - 1) \subseteq 1..i
      BY <1>3
    <2>1. /\ IsList(acc) /\ \A r \in ToSet(acc) : \E q \in ToSet(list) : DOMAIN r = DOMAIN q
          /\ Distinct(z, list) /\ KeyStays(z, st, list) =>
               Distinct(z, acc) /\ ToSet(acc) = {B(r) : r \in ToSet(list)}
      BY <1>1, <1>5 DEF UpdateKept
    <2>2. \A r : /\ KeyOf(z, r) = e => B2(r) = Assigned(st, r)
                 /\ KeyOf(z, r) # e => B2(r) = B(r)
                 /\ B(r) = r \/ B(r) = Assigned(st, r)
      BY <1>1, <2>0 DEF Become
    <2>3. ASSUME KeyStays(z, st, list), NEW r \in ToSet(list)
          PROVE  KeyOf(z, Assigned(st, r)) = KeyOf(z, r) /\ Assigned(st, Assigned(st, r)) = Assigned(st, r)
      BY <2>3, AssignedFacts DEF KeyStays
    <2> HIDE DEF B, B2, e
    <2>4. ASSUME KeyStays(z, st, list), NEW r \in ToSet(list)
          PROVE  KeyOf(z, B(r)) = KeyOf(z, r) /\ Assigned(st, B(r)) = Assigned(st, r)
      BY <2>2, <2>3, <2>4
    <2>5. CASE Find(z, acc, e) = {}
      <3>1. UpdateRound(c, acc, e) = acc
        BY <1>1, <2>5 DEF UpdateRound
      <3>2. \A r \in ToSet(acc) : KeyOf(z, r) # e
        BY <2>1, <2>5, FindFacts
      <3>3. ASSUME Distinct(z, list), KeyStays(z, st, list)
            PROVE  ToSet(acc) = {B2(r) : r \in ToSet(list)}
        <4>1. \A r \in ToSet(list) : B2(r) = B(r)
          BY <2>1, <2>2, <2>4, <3>2, <3>3
        <4> QED
          BY <2>1, <3>3, <4>1
      <3> QED
        BY <1>1, <2>1, <3>1, <3>3 DEF UpdateKept, B2, e
    <2>6. CASE Find(z, acc, e) # {}
      <3> DEFINE k == FirstOf(z, acc, e)
                 x == acc[k]
                 w == RemoveAt(acc, k)
                 y == Append(w, Assigned(st, x))
      <3>1. UpdateRound(c, acc, e) = y
        BY <1>1, <2>6 DEF UpdateRound
      <3>2. k \in DOMAIN acc /\ KeyOf(z, x) = e
        BY <2>1, <2>6, FindFacts
      <3>3. x \in ToSet(acc)
        BY <3>2 DEF ToSet
      <3>4. /\ IsList(w) /\ ToSet(w) \subseteq ToSet(acc)
            /\ Distinct(z, acc) => /\ Distinct(z, w) /\ ToSet(w) = ToSet(acc) \ {x}
                                   /\ \A r \in ToSet(w) : KeyOf(z, r) # KeyOf(z, x)
        <4> HIDE DEF k
        <4> QED
          BY <2>1, <3>2, RemoveDistinct
      <3> HIDE DEF w, x
      <3>5. IsList(y) /\ ToSet(y) = ToSet(w) \cup {Assigned(st, x)}
        BY <3>4, AppendFacts
      <3>6. ASSUME NEW r \in ToSet(y) PROVE \E q \in ToSet(list) : DOMAIN r = DOMAIN q
        <4>1. CASE r \in ToSet(w)
          BY <2>1, <3>4, <4>1
        <4>2. CASE r = Assigned(st, x)
          BY <2>1, <3>3, <4>2, AssignedFacts
        <4> QED
          BY <3>5, <3>6, <4>1, <4>2
      <3>7. ASSUME Distinct(z, list), KeyStays(z, st, list)
            PROVE  Distinct(z, y) /\ ToSet(y) = {B2(r) : r \in ToSet(list)}
        <4>1. Distinct(z, acc) /\ ToSet(acc) = {B(r) : r \in ToSet(list)}
          BY <2>1, <3>7
        <4>2. PICK p \in ToSet(list) : x = B(p)
          BY <3>3, <4>1
        <4>3. KeyOf(z, p) = e /\ Assigned(st, x) = Assigned(st, p) /\ KeyOf(z, Assigned(st, x)) = e
          BY <2>3, <2>4, <3>2, <3>7, <4>2
        <4>4. \A r \in ToSet(list) : KeyOf(z, r) = e => B(r) = x
          <5> SUFFICES ASSUME NEW r \in ToSet(list), KeyOf(z, r) = e, B(r) # x PROVE FALSE
            OBVIOUS
          <5>1. B(r) \in ToSet(w)
            BY <3>4, <4>1
          <5>2. KeyOf(z, B(r)) # KeyOf(z, x)
            BY <3>4, <4>1, <5>1
          <5> QED
            BY <2>4, <3>2, <3>7, <5>2
        <4>5. \A r \in ToSet(list) : KeyOf(z, r) = e => B2(r) = Assigned(st, x)
          <5> SUFFICES ASSUME NEW r \in ToSet(list), KeyOf(z, r) = e PROVE B2(r) = Assigned(st, x)
            OBVIOUS
          <5>1. B(r) = x /\ Assigned(st, B(r)) = Assigned(st, r)
            BY <2>4, <3>7, <4>4
          <5> QED
            BY <2>2, <5>1
        <4>6. \A r \in ToSet(list) : KeyOf(z, r) # e => B2(r) = B(r) /\ B(r) # x
          BY <2>2, <2>4, <3>2, <3>7
        <4>7. ToSet(y) = {B2(r) : r \in ToSet(list)}
          <5>1. ToSet(y) = ({B(r) : r \in ToSet(list)} \ {x}) \cup {Assigned(st, x)}
            BY <3>4, <3>5, <4>1
          <5>2. ASSUME NEW v \in ToSet(y) PROVE \E r \in ToSet(list) : v = B2(r)
            BY <4>3, <4>4, <4>5, <4>6, <5>1
          <5>3. ASSUME NEW r \in ToSet(list) PROVE B2(r) \in ToSet(y)
            BY <4>5, <4>6, <5>1
          <5> QED
            BY <5>2, <5>3
        <4>8. Distinct(z, y)
          BY <3>2, <3>4, <4>1, <4>3, AppendDistinct
        <4> QED
          BY <4>7, <4>8
      <3> HIDE DEF y
      <3> QED
        BY <1>1, <3>1, <3>5, <3>6, <3>7 DEF UpdateKept, B2, e
    <2> QED
      BY <2>5, <2>6 DEF e
  <1>6. UpdateKept(c, Len(keys), Updates!Fold(c, list, keys))
    BY <1>3, <1>4, <1>5, Updates!FoldKeeps
  <1>7. \A r : Become(c, Len(keys), r) = IF KeyOf(z, r) \in ToSet(keys) THEN Assigned(st, r) ELSE r
    BY <1>1, <1>3 DEF ToSet, Become
  <1> QED
    BY <1>1, <1>2, <1>6, <1>7 DEF UpdateKept

\* The rows before the first invalid one are rows of the statement.
LEMMA PrefixFacts ==
  ASSUME NEW new, IsList(new)
  PROVE  IsList(Prefix(new)) /\ ToSet(Prefix(new)) \subseteq ToSet(new)
  <1> DEFINE good == {n \in 0..Len(new) : \A i \in 1..n : Valid(new[i])}
             k == CHOOSE n \in good : \A m \in good : m <= n
             T == {Len(new) - n : n \in good}
  <1>1. Len(new) \in Nat /\ DOMAIN new = 1..Len(new) /\ new \in Seq(ToSet(new))
    BY ListFacts
  <1>2. T \subseteq Nat /\ T # {}
    <2>1. 0 \in good /\ \A n \in good : Len(new) - n \in Nat
      BY <1>1
    <2> HIDE DEF good
    <2> QED
      BY <2>1
  <1>3. PICK t \in T : \A y \in T : t <= y
    <2> HIDE DEF T
    <2> QED
      BY <1>2, KeyRefLoop!NatMin
  <1>4. \E n \in good : \A m \in good : m <= n
    <2>1. PICK n \in good : t = Len(new) - n
      BY <1>3
    <2>2. ASSUME NEW m \in good PROVE m <= n
      <3>1. Len(new) - m \in T
        OBVIOUS
      <3>2. t <= Len(new) - m
        <4> HIDE DEF T
        <4> QED
          BY <1>3, <3>1
      <3>3. m \in Int /\ n \in Int
        BY <1>1
      <3> HIDE DEF good, T
      <3> QED
        BY <1>1, <2>1, <3>2, <3>3
    <2> QED
      BY <2>2
  <1>5. k \in good
    <2> HIDE DEF good
    <2> QED
      BY <1>4, Zenon
  <1>6. k \in 0..Len(new)
    <2> HIDE DEF k
    <2> QED
      BY <1>5
  <1> HIDE DEF k
  <1>7. SubSeq(new, 1, k) \in Seq(ToSet(new))
    <2>1. 1 \in Int /\ k \in Int /\ \A i \in 1..k : new[i] \in ToSet(new)
      BY <1>1, <1>6 DEF ToSet
    <2> QED
      BY <2>1, SubSeqProperties
  <1>8. Prefix(new) = SubSeq(new, 1, k)
    BY Zenon DEF Prefix, k
  <1>9. IsList(Prefix(new)) /\ Prefix(new) \in Seq(ToSet(new))
    BY <1>7, <1>8, SeqIsList
  <1>10. \A i \in DOMAIN Prefix(new) : Prefix(new)[i] \in ToSet(new)
    BY <1>9, ElementOfSeq
  <1> QED
    BY <1>9, <1>10 DEF ToSet

-----------------------------------------------------------------------------
(* Rows.                                                                   *)

\* Every row of a table has its columns; if the primary key names the flagged
\* columns, the rows are those asked for, each with a key of its own.
RowsOK(z, list, asked) ==
  /\ IsList(list)
  /\ \A r \in ToSet(list) : z.cols # <<>> /\ DOMAIN r = ColumnNames(z)
  /\ FlaggedKey(z) => Distinct(z, list) /\ ToSet(list) = asked

RowsInv ==
  /\ rows = [t \in Names |-> rows[t]] /\ want = [t \in Names |-> want[t]]
  /\ \A t \in Names : RowsOK(sch[t], rows[t], want[t])

\* A table whose rows a statement may change.
LEMMA LockedTable ==
  ASSUME Inv, SchemaInv, NEW s \in Sessions, ses[s].pc = "parents", ses[s].st.op # "select"
  PROVE  LET t == ses[s].st.tbl
             z == sch[t]
         IN  /\ t \in Names /\ z.cols # <<>> /\ ColumnNames(z) \in ColumnSets(t) /\ IsTable(z)
             /\ HasKey(z) => ToSet(KeyColumns(z)) \subseteq ColumnNames(z)
  <1> DEFINE t == ses[s].st.tbl
  <1>1. t \in Names /\ UniqueLock(s, t) \in locks
    BY LockedKnown
  <1> HIDE DEF t
  <1>2. t \in Known
    <2>1. UniqueLock(s, t).tbl = t
      BY DEF UniqueLock
    <2>2. cache[t] # "none"
      BY <1>1, <2>1 DEF Inv, LockInv
    <2> QED
      BY <1>1, <2>2 DEF SchemaInv, KnownInv
  <1>3. sch[t].cols # <<>> /\ ColumnNames(sch[t]) \in ColumnSets(t) /\ IsTable(sch[t])
    BY <1>1, <1>2 DEF SchemaInv, TablesOK, Known
  <1>4. HasKey(sch[t]) => ToSet(KeyColumns(sch[t])) \subseteq ColumnNames(sch[t])
    BY <1>1, KeyedKnown DEF SchemaInv
  <1> QED
    BY <1>1, <1>3, <1>4 DEF t

\* A statement on the rows of one table.
LEMMA RowsModified ==
  ASSUME Inv, RowsInv, NEW s \in Sessions, ses[s].st.tbl \in Names, NEW op, NEW new, NEW asked,
         ModifyRows(s, op, new, asked), RowsOK(sch[ses[s].st.tbl], new, asked)
  PROVE  RowsInv'
  <1> DEFINE t == ses[s].st.tbl
  <1>1. /\ sch' = sch
        /\ \/ rows' = rows /\ want' = want
           \/ rows' = [rows EXCEPT ![t] = new] /\ want' = [want EXCEPT ![t] = asked]
    BY Zenon DEF ModifyRows
  <1>2. CASE rows' = rows /\ want' = want
    BY <1>1, <1>2 DEF RowsInv
  <1>3. CASE rows' = [rows EXCEPT ![t] = new] /\ want' = [want EXCEPT ![t] = asked]
    <2> HIDE DEF t
    <2>1. /\ rows' = [u \in Names |-> IF u = t THEN new ELSE rows[u]]
          /\ want' = [u \in Names |-> IF u = t THEN asked ELSE want[u]]
      BY <1>3, Zenon DEF RowsInv
    <2>2. ASSUME NEW u \in Names PROVE RowsOK(sch[u], rows'[u], want'[u])
      <3>1. CASE u = t
        BY <2>1, <3>1 DEF t
      <3>2. CASE u # t
        BY <2>1, <3>2 DEF RowsInv
      <3> QED
        BY <3>1, <3>2
    <2>3. rows' = [u \in Names |-> rows'[u]] /\ want' = [u \in Names |-> want'[u]]
      BY <2>1
    <2> QED
      BY <1>1, <2>2, <2>3 DEF RowsInv
  <1> QED
    BY <1>1, <1>2, <1>3

\* The rows before the first invalid value are complete.
LEMMA NewRows ==
  ASSUME Inv, SchemaInv, NEW s \in Sessions, ses[s].pc = "parents", ses[s].st.op \in {"insert", "load"}
  PROVE  LET new == Prefix(ses[s].st.new)
         IN  IsList(new) /\ \A i \in DOMAIN new : DOMAIN new[i] = ColumnNames(sch[ses[s].st.tbl])
  <1> DEFINE st == ses[s].st
             new == Prefix(st.new)
  <1>1. st \in Statements /\ ColumnNames(sch[st.tbl]) \in ColumnSets(st.tbl)
    BY LockedTable, SessionTypes
  <1> HIDE DEF st
  <1>2. /\ IsList(st.new)
        /\ \A i \in DOMAIN st.new : DOMAIN st.new[i] = ColumnNames(sch[st.tbl])
    BY <1>1, StatementsAssumption DEF st
  <1>3. IsList(new) /\ ToSet(new) \subseteq ToSet(st.new)
    BY <1>2, PrefixFacts
  <1> HIDE DEF new
  <1>4. \A i \in DOMAIN new : new[i] \in ToSet(st.new)
    BY <1>3 DEF ToSet
  <1>5. \A i \in DOMAIN new : DOMAIN new[i] = ColumnNames(sch[st.tbl])
    BY <1>2, <1>4 DEF ToSet
  <1> QED
    BY <1>3, <1>5 DEF new, st

\* INSERT, LOAD, DELETE and UPDATE keep what is known of rows.
LEMMA InsertRowsOK ==
  ASSUME Inv, SchemaInv, RowsInv, NEW s \in Sessions, insert(s)
  PROVE  RowsInv'
  <1> DEFINE st == ses[s].st
             t == st.tbl
             z == sch[t]
             new == Prefix(st.new)
             F == {i \in DOMAIN new : Fresh(z, want[t], new, i)}
             G == {i \in DOMAIN new : Fresh(z, ToSet(rows[t]), new, i)}
             y == InsertRows(z, rows[t], new)
             asked == want[t] \cup {new[j] : j \in F}
  <1>1. ses[s].pc = "parents" /\ st.op = "insert"
    BY Zenon DEF insert, Ready
  <1>2. ModifyRows(s, "insert", y, asked)
    BY Zenon DEF insert
  <1>3. t \in Names /\ z.cols # <<>>
    BY <1>1, LockedTable
  <1>4. IsList(new) /\ \A i \in DOMAIN new : DOMAIN new[i] = ColumnNames(z)
    BY <1>1, NewRows
  <1>5. RowsOK(z, rows[t], want[t])
    BY <1>3 DEF RowsInv
  <1>6. IsList(y) /\ ToSet(y) = ToSet(rows[t]) \cup {new[j] : j \in G} /\ (Distinct(z, rows[t]) => Distinct(z, y))
    BY <1>4, <1>5, InsertKeeps DEF RowsOK
  <1> HIDE DEF y, new, z
  <1>7. RowsOK(z, y, asked)
    BY <1>3, <1>4, <1>5, <1>6 DEF RowsOK
  <1> QED
    BY <1>2, <1>3, <1>7, RowsModified DEF z

LEMMA LoadRowsOK ==
  ASSUME Inv, SchemaInv, RowsInv, NEW s \in Sessions, load_data(s)
  PROVE  RowsInv'
  <1> DEFINE st == ses[s].st
             t == st.tbl
             z == sch[t]
             new == Prefix(st.new)
             F == {i \in DOMAIN new : \A k \in 1..i : Fresh(z, want[t], new, k)}
             G == {i \in DOMAIN new : \A k \in 1..i : Fresh(z, ToSet(rows[t]), new, k)}
             y == LoadRows(z, rows[t], new)
             asked == want[t] \cup {new[j] : j \in F}
  <1>1. ses[s].pc = "parents" /\ st.op = "load"
    BY Zenon DEF load_data, Ready
  <1>2. ModifyRows(s, "load", y, asked)
    BY Zenon DEF load_data
  <1>3. t \in Names /\ z.cols # <<>>
    BY <1>1, LockedTable
  <1>4. IsList(new) /\ \A i \in DOMAIN new : DOMAIN new[i] = ColumnNames(z)
    BY <1>1, NewRows
  <1>5. RowsOK(z, rows[t], want[t])
    BY <1>3 DEF RowsInv
  <1>6. IsList(y) /\ ToSet(y) = ToSet(rows[t]) \cup {new[j] : j \in G} /\ (Distinct(z, rows[t]) => Distinct(z, y))
    BY <1>4, <1>5, LoadKeeps DEF RowsOK
  <1> HIDE DEF y, new, z
  <1>7. RowsOK(z, y, asked)
    BY <1>3, <1>4, <1>5, <1>6 DEF RowsOK
  <1> QED
    BY <1>2, <1>3, <1>7, RowsModified DEF z

\* With distinct keys, a row is one that the WHERE clause selects just if its key
\* is the key of such a row.
LEMMA KeyOfMatch ==
  ASSUME NEW st, IsList(rows[st.tbl]), Distinct(sch[st.tbl], rows[st.tbl]), NEW r \in ToSet(rows[st.tbl])
  PROVE  KeyOf(sch[st.tbl], r) \in ToSet(KeyList(st)) <=> Matches(st, r)
  <1> DEFINE z == sch[st.tbl]
             x == rows[st.tbl]
  <1>1. ToSet(KeyList(st)) = {KeyOf(z, q) : q \in {p \in ToSet(x) : Matches(st, p)}}
    BY KeyListFacts
  <1>2. ASSUME NEW q \in ToSet(x), KeyOf(z, q) = KeyOf(z, r) PROVE q = r
    <2>1. PICK i \in DOMAIN x : x[i] = q
      BY ListFacts
    <2>2. PICK j \in DOMAIN x : x[j] = r
      BY ListFacts
    <2> QED
      BY <1>2, <2>1, <2>2 DEF Distinct
  <1> HIDE DEF z, x
  <1>3. KeyOf(z, r) \in ToSet(KeyList(st)) <=> Matches(st, r)
    BY <1>1, <1>2 DEF x
  <1> QED
    BY <1>3 DEF z

LEMMA DeleteRowsOK ==
  ASSUME Inv, SchemaInv, RowsInv, NEW s \in Sessions, delete_row(s)
  PROVE  RowsInv'
  <1> DEFINE st == ses[s].st
             t == st.tbl
             z == sch[t]
             x == rows[t]
             keys == KeyList(st)
             y == DeleteRows(z, x, keys)
             asked == {r \in want[t] : ~ Matches(st, r)}
  <1>1. ses[s].pc = "parents" /\ st.op = "delete"
    BY Zenon DEF delete_row, Ready
  <1>2. ModifyRows(s, "delete", y, asked)
    BY Zenon DEF delete_row, DeleteRows
  <1>3. t \in Names /\ z.cols # <<>>
    BY <1>1, LockedTable
  <1>4. RowsOK(z, x, want[t])
    BY <1>3 DEF RowsInv
  <1>5. IsList(keys)
    BY <1>4, KeyListFacts DEF RowsOK
  <1>6. /\ IsList(y) /\ ToSet(y) \subseteq ToSet(x)
        /\ Distinct(z, x) => Distinct(z, y) /\ ToSet(y) = {r \in ToSet(x) : KeyOf(z, r) \notin ToSet(keys)}
    BY <1>4, <1>5, DeleteKeeps DEF RowsOK
  <1>7. Distinct(z, x) => \A r \in ToSet(x) : KeyOf(z, r) \in ToSet(keys) <=> Matches(st, r)
    BY <1>4, KeyOfMatch DEF RowsOK
  <1> HIDE DEF y, keys, x, z
  <1>8. RowsOK(z, y, asked)
    BY <1>4, <1>6, <1>7 DEF RowsOK
  <1> QED
    BY <1>2, <1>3, <1>8, RowsModified DEF z

LEMMA UpdateRowsOK ==
  ASSUME Inv, SchemaInv, RowsInv, NEW s \in Sessions, update(s)
  PROVE  RowsInv'
  <1> DEFINE st == ses[s].st
             t == st.tbl
             z == sch[t]
             x == rows[t]
             keys == KeyList(st)
             k == FirstOf(z, x, Head(keys))
             fails == UpdateFails(st)
             y == UpdateRows(z, st, x, keys)
             asked == {IF Matches(st, r) THEN Assigned(st, r) ELSE r : r \in want[t]}
  <1>1. ses[s].pc = "parents" /\ st.op = "update"
    BY Zenon DEF update, Ready
  <1>2. \/ sch' = sch /\ rows' = rows /\ want' = want
        \/ keys # <<>> /\ ModifyRows(s, "update", fails, want[t] \ {x[k]})
        \/ Assignable(st) /\ ModifyRows(s, "update", y, asked)
    BY Zenon DEF update, Refused
  <1>3. t \in Names /\ z.cols # <<>> /\ (HasKey(z) => ToSet(KeyColumns(z)) \subseteq ColumnNames(z))
    BY <1>1, LockedTable
  <1>4. RowsOK(z, x, want[t])
    BY <1>3 DEF RowsInv
  <1>5. IsList(keys) /\ ToSet(keys) = {KeyOf(z, r) : r \in {q \in ToSet(x) : Matches(st, q)}}
    BY <1>4, KeyListFacts DEF RowsOK
  <1>6. ASSUME sch' = sch, rows' = rows, want' = want PROVE RowsInv'
    BY <1>6 DEF RowsInv
  <1>7. ASSUME keys # <<>>, ModifyRows(s, "update", fails, want[t] \ {x[k]}) PROVE RowsInv'
    <2>1. fails = RemoveAt(x, k)
      BY Zenon DEF UpdateFails
    <2>2. Head(keys) \in ToSet(keys)
      <3> HIDE DEF keys
      <3>1. Len(keys) \in Nat /\ DOMAIN keys = 1..Len(keys) /\ Len(keys) # 0 /\ keys \in Seq(ToSet(keys))
        BY <1>5, <1>7, ListFacts
      <3>2. Head(keys) = keys[1] /\ 1 \in DOMAIN keys
        BY <3>1
      <3> QED
        BY <3>2 DEF ToSet
    <2> HIDE DEF keys, fails, k, x, z
    <2>3. \E r \in ToSet(x) : KeyOf(z, r) = Head(keys)
      BY <1>5, <2>2
    <2>4. k \in DOMAIN x
      BY <1>4, <2>3, FindFacts DEF RowsOK, k
    <2>5. /\ IsList(fails) /\ ToSet(fails) \subseteq ToSet(x)
          /\ Distinct(z, x) => Distinct(z, fails) /\ ToSet(fails) = ToSet(x) \ {x[k]}
      BY <1>4, <2>1, <2>4, RemoveDistinct DEF RowsOK
    <2>6. RowsOK(z, fails, want[t] \ {x[k]})
      BY <1>4, <2>5 DEF RowsOK
    <2> QED
      BY <1>3, <1>7, <2>6, RowsModified DEF z
  <1>8. ASSUME Assignable(st), ModifyRows(s, "update", y, asked) PROVE RowsInv'
    <2>1. /\ IsList(y) /\ \A r \in ToSet(y) : \E q \in ToSet(x) : DOMAIN r = DOMAIN q
          /\ Distinct(z, x) /\ KeyStays(z, st, x) =>
               /\ Distinct(z, y)
               /\ ToSet(y) = {IF KeyOf(z, r) \in ToSet(keys) THEN Assigned(st, r) ELSE r : r \in ToSet(x)}
      BY <1>4, <1>5, UpdateKeeps DEF RowsOK
    <2>2. Distinct(z, x) => \A r \in ToSet(x) : KeyOf(z, r) \in ToSet(keys) <=> Matches(st, r)
      BY <1>4, KeyOfMatch DEF RowsOK
    <2>3. ASSUME FlaggedKey(z) PROVE KeyStays(z, st, x)
      <3>1. HasKey(z) /\ ToSet(KeyColumns(z)) \subseteq ColumnNames(z)
        BY <1>3, <2>3 DEF FlaggedKey
      <3>2. ASSUME st.set.col \in ToSet(KeyColumns(z)) PROVE FALSE
        <4> DEFINE i == ColumnPos(z, st.set.col)
        <4>1. st.set.col \in ColumnNames(z)
          BY <3>1, <3>2
        <4>2. i \in DOMAIN z.cols /\ z.cols[i].name = st.set.col
          BY <4>1, Zenon DEF ColumnNames, ColumnPos
        <4>3. "PRIMARY" \notin z.cols[i].flag
          BY <1>8, Zenon DEF Assignable
        <4> HIDE DEF i
        <4>4. ("PRIMARY" \in z.cols[i].flag) = (z.cols[i].name \in ToSet(KeyColumns(z)))
          BY <2>3, <4>2, Zenon DEF FlaggedKey
        <4> QED
          BY <3>2, <4>2, <4>3, <4>4
      <3>3. \A r \in ToSet(x) : ToSet(KeyColumns(z)) \subseteq DOMAIN r
        BY <1>4, <3>1 DEF RowsOK
      <3> QED
        BY <3>2, <3>3 DEF KeyStays
    <2> HIDE DEF y, keys, x, z
    <2>4. RowsOK(z, y, asked)
      <3>1. \A r \in ToSet(y) : z.cols # <<>> /\ DOMAIN r = ColumnNames(z)
        BY <1>3, <1>4, <2>1 DEF RowsOK
      <3>2. ASSUME FlaggedKey(z) PROVE Distinct(z, y) /\ ToSet(y) = asked
        <4>1. /\ Distinct(z, x) /\ ToSet(x) = want[t] /\ Distinct(z, y)
              /\ ToSet(y) = {IF KeyOf(z, r) \in ToSet(keys) THEN Assigned(st, r) ELSE r : r \in ToSet(x)}
          BY <1>4, <2>1, <2>3, <3>2 DEF RowsOK
        <4>2. \A r \in ToSet(x) : (IF KeyOf(z, r) \in ToSet(keys) THEN Assigned(st, r) ELSE r)
                                    = (IF Matches(st, r) THEN Assigned(st, r) ELSE r)
          BY <2>2, <4>1
        <4> QED
          BY <4>1, <4>2
      <3> QED
        BY <2>1, <3>1, <3>2 DEF RowsOK
    <2> QED
      BY <1>3, <1>8, <2>4, RowsModified DEF z
  <1> QED
    BY <1>2, <1>6, <1>7, <1>8

\* An altered table keeps its rows.
LEMMA RowsAltered ==
  ASSUME NEW z, IsTable(z), NEW y, Altered(z, y), NEW list, NEW asked, RowsOK(z, list, asked)
  PROVE  RowsOK(y, list, asked)
  <1>1. /\ ColumnNames(y) = ColumnNames(z) /\ (y.cols = <<>> <=> z.cols = <<>>)
        /\ FlaggedKey(y) => FlaggedKey(z) /\ KeyColumns(y) = KeyColumns(z)
    BY AlteredFacts
  <1>2. ASSUME FlaggedKey(y) PROVE Distinct(y, list) /\ ToSet(list) = asked
    BY <1>1, <1>2 DEF RowsOK, Distinct, KeyOf
  <1> QED
    BY <1>1, <1>2 DEF RowsOK

\* Tables have no rows at first.
LEMMA RowsInit == Init => RowsInv
  <1> SUFFICES ASSUME Init PROVE RowsInv
    OBVIOUS
  <1>1. rows = [t \in Names |-> <<>>] /\ want = [t \in Names |-> {}]
    BY DEF Init
  <1>2. \A z : RowsOK(z, <<>>, {})
    BY EmptyIsList DEF RowsOK, Distinct
  <1>3. rows = [t \in Names |-> rows[t]] /\ want = [t \in Names |-> want[t]]
    BY <1>1
  <1>4. \A t \in Names : RowsOK(sch[t], rows[t], want[t])
    BY <1>1, <1>2
  <1> QED
    BY <1>3, <1>4 DEF RowsInv

\* A table is emptied, and the schemas of the others stay.
LEMMA RowsEmptied ==
  ASSUME Inv, RowsInv, NEW t \in Names, Empty(t), \A u \in Names \ {t} : sch'[u] = sch[u]
  PROVE  RowsInv'
  <1>1. /\ rows' = [u \in Names |-> IF u = t THEN <<>> ELSE rows[u]]
        /\ want' = [u \in Names |-> IF u = t THEN {} ELSE want[u]]
    BY Zenon DEF RowsInv, Empty
  <1>2. ASSUME NEW u \in Names PROVE RowsOK(sch'[u], rows'[u], want'[u])
    <2>1. CASE u = t
      BY <1>1, <2>1, EmptyIsList DEF RowsOK, Distinct
    <2>2. CASE u # t
      BY <1>1, <2>2 DEF RowsInv
    <2> QED
      BY <2>1, <2>2
  <1>3. rows' = [u \in Names |-> rows'[u]] /\ want' = [u \in Names |-> want'[u]]
    BY <1>1
  <1> QED
    BY <1>2, <1>3 DEF RowsInv

\* The steps of CREATE TABLE: the table is empty when its schema is added, also in
\* the place of a dropped one, and when its file is made.
LEMMA RowsCreate ==
  ASSUME Inv, RowsInv, NEW s \in Sessions, add_schema(s) \/ create_file(s)
  PROVE  RowsInv'
  <1> DEFINE st == ses[s].st
             t == st.tbl
  <1>1. ses[s].pc \in {"add", "make"} /\ Empty(t)
    BY DEF add_schema, create_file
  <1>2. sch' = [sch EXCEPT ![t] = NewSchema(st)] \/ sch' = sch
    BY DEF add_schema, create_file
  <1>3. t \in Names
    <2>1. st \in Statements /\ st.op = "create"
      BY <1>1, SessionTypes DEF SessionOK
    <2> QED
      BY <2>1, TablesAssumption
  <1>4. \A u \in Names \ {t} : sch'[u] = sch[u]
    BY <1>2, <1>3 DEF Inv, SchemasOK
  <1> HIDE DEF t
  <1> QED
    BY <1>1, <1>3, <1>4, RowsEmptied

\* The invariant about rows is inductive.
LEMMA RowsNext == Inv /\ SchemaInv /\ RowsInv /\ [Next]_vars => RowsInv'
  <1> SUFFICES ASSUME Inv, SchemaInv, RowsInv, [Next]_vars PROVE RowsInv'
    OBVIOUS
  <1>1. ASSUME sch' = sch, rows' = rows, want' = want PROVE RowsInv'
    BY <1>1 DEF RowsInv
  <1>2. CASE UNCHANGED vars
    BY <1>1, <1>2 DEF vars
  <1>3. ASSUME NEW s \in Sessions, Step(s) PROVE RowsInv'
    <2>1. CASE \/ OpenAndLock(s) \/ LoseTrack(s) \/ select(s)
               \/ CheckKeys(s) \/ create_table(s) \/ save_schema(s) \/ EndCreate(s)
               \/ drop_table(s) \/ unlink_schema(s) \/ TakeMutex(s) \/ drop_block_cache(s)
      <3>1. sch' = sch /\ rows' = rows /\ want' = want
        BY <2>1, Zenon DEF OpenAndLock, LoseTrack, select, CheckKeys, create_table, save_schema, EndCreate,
                           drop_table, unlink_schema, TakeMutex, drop_block_cache
      <3> QED
        BY <1>1, <3>1
    <2>2. CASE insert(s)
      BY <2>2, InsertRowsOK
    <2>3. CASE load_data(s)
      BY <2>3, LoadRowsOK
    <2>4. CASE delete_row(s)
      BY <2>4, DeleteRowsOK
    <2>5. CASE update(s)
      BY <2>5, UpdateRowsOK
    <2>6. CASE \/ add_foreign_key(s) \/ drop_foreign_key(s)
               \/ add_index(s) \/ drop_index(s) \/ alter_column(s)
      <3>1. PICK z : AlterStep(s, z) /\ ((\E names : Alter(s, z, names)) \/ Throw(s, z))
        BY <2>6, StatementAlters DEF SchemaInv
      <3>2. sch' = z /\ rows' = rows /\ want' = want
        BY <3>1, Zenon DEF Alter, Throw
      <3>3. ASSUME NEW t \in Names PROVE RowsOK(z[t], rows[t], want[t])
        <4>1. Altered(sch[t], z[t]) /\ IsTable(sch[t]) /\ RowsOK(sch[t], rows[t], want[t])
          BY <3>1 DEF AlterStep, SchemaInv, TablesOK, RowsInv
        <4> QED
          BY <4>1, RowsAltered
      <3> QED
        BY <3>2, <3>3 DEF RowsInv
    <2>7. CASE add_schema(s) \/ create_file(s)
      BY <2>7, RowsCreate
    <2>8. CASE make_reference(s)
      <3>1. rows' = rows /\ want' = want /\ \A t \in Names : Altered(sch[t], sch'[t])
        BY <2>8, ReferenceAlters DEF make_reference
      <3>2. ASSUME NEW t \in Names PROVE RowsOK(sch'[t], rows[t], want[t])
        <4>1. Altered(sch[t], sch'[t]) /\ IsTable(sch[t]) /\ RowsOK(sch[t], rows[t], want[t])
          BY <3>1 DEF SchemaInv, TablesOK, RowsInv
        <4> QED
          BY <4>1, RowsAltered
      <3> QED
        BY <3>1, <3>2 DEF RowsInv
    <2> QED
      BY <1>3, <2>1, <2>2, <2>3, <2>4, <2>5, <2>6, <2>7, <2>8 DEF Step
  <1>4. ASSUME NEW s \in Sessions, NEW st \in Statements, Send(s, st) PROVE RowsInv'
    <2>1. sch' = sch /\ rows' = rows /\ want' = want
      BY <1>4, Zenon DEF Send
    <2> QED
      BY <1>1, <2>1
  <1> QED
    BY <1>2, <1>3, <1>4 DEF Next

LEMMA RowsInvCorrect == Spec => [](Inv /\ SchemaInv /\ RowsInv)
  <1>1. Init => Inv /\ SchemaInv /\ RowsInv
    BY InvInit, SchemaInit, RowsInit
  <1>2. (Inv /\ SchemaInv /\ RowsInv) /\ [Next]_vars => (Inv /\ SchemaInv /\ RowsInv)'
    BY InvNext, SchemaNext, RowsNext
  <1> QED
    BY <1>1, <1>2, PTL DEF Spec

\* Rows with keys of their own are counted by their list.
LEMMA CountDistinct ==
  ASSUME NEW z, NEW x, IsList(x), Distinct(z, x)
  PROVE  Len(x) = Cardinality(ToSet(x))
  <1> DEFINE S == ToSet(x)
  <1>1. Len(x) \in Nat /\ DOMAIN x = 1..Len(x) /\ x \in Seq(S)
    BY ListFacts
  <1>2. x \in [1..Len(x) -> S]
    BY <1>1
  <1>3. \A i, j \in 1..Len(x) : x[i] = x[j] => i = j
    BY <1>1 DEF Distinct
  <1>4. \A r \in S : \E i \in 1..Len(x) : x[i] = r
    BY <1>1, ListFacts
  <1>5. IsInjective(x)
    BY <1>1, <1>3 DEF IsInjective
  <1> HIDE DEF S
  <1>6. x \in Bijection(1..Len(x), S)
    BY <1>2, <1>4, <1>5, Zenon DEF Bijection, Injection, Surjection
  <1>7. ExistsBijection(1..Len(x), S)
    BY <1>6, Zenon DEF ExistsBijection
  <1> QED
    BY <1>1, <1>7, FS_CountingElements DEF S

\* INSERT, LOAD, UPDATE and DELETE of any sessions, with any lists of rows and
\* conditions, keep exactly the rows they were asked for, each once; and every
\* row has a value for each column of its table, through all CREATE, ALTER and
\* DROP TABLE statements in between.
THEOREM RowsCorrect == Spec => []RowsAsAsked
  <1>1. Inv /\ SchemaInv /\ RowsInv => RowsAsAsked
    <2> SUFFICES ASSUME Inv, SchemaInv, RowsInv PROVE RowsAsAsked
      OBVIOUS
    <2>1. ASSUME NEW t \in file, KeyIsFlagged(t)
          PROVE  Len(rows[t]) = Cardinality(want[t]) /\ ToSet(rows[t]) = want[t]
      <3>1. t \in Names
        BY DEF Inv, TypeInv
      <3>2. FlaggedKey(sch[t])
        BY <2>1, Zenon DEF KeyIsFlagged, FlaggedKey
      <3>3. IsList(rows[t]) /\ Distinct(sch[t], rows[t]) /\ ToSet(rows[t]) = want[t]
        BY <3>1, <3>2 DEF RowsInv, RowsOK
      <3>4. Len(rows[t]) = Cardinality(ToSet(rows[t]))
        BY <3>3, CountDistinct
      <3> QED
        BY <3>3, <3>4
    <2>2. ASSUME NEW t \in Names, NEW i \in DOMAIN rows[t]
          PROVE  sch[t] # NoSchema /\ DOMAIN rows[t][i] = ColumnNames(sch[t])
      <3>1. rows[t][i] \in ToSet(rows[t])
        BY DEF ToSet
      <3>2. sch[t].cols # <<>> /\ DOMAIN rows[t][i] = ColumnNames(sch[t])
        BY <3>1 DEF RowsInv, RowsOK
      <3>3. NoSchema.cols = <<>>
        BY DEF NoSchema
      <3> QED
        BY <3>2, <3>3
    <2> QED
      BY <2>1, <2>2 DEF RowsAsAsked
  <1> QED
    BY <1>1, RowsInvCorrect, PTL

\* No two rows of a table have the same primary key, when make_primary_key()
\* flagged the columns that the key names: INSERT and LOAD look for the key under
\* the lock of the table, and UPDATE does not assign a flagged column.
THEOREM KeyCorrect == Spec => []KeyUnique
  <1>1. Inv /\ SchemaInv /\ RowsInv => KeyUnique
    <2> SUFFICES ASSUME Inv, SchemaInv, RowsInv, NEW t \in file, KeyIsFlagged(t),
                        NEW i \in DOMAIN rows[t], NEW j \in DOMAIN rows[t],
                        MakeKey(KeyColumns(sch[t]), rows[t][i]) = MakeKey(KeyColumns(sch[t]), rows[t][j])
                 PROVE  i = j
      BY DEF KeyUnique
    <2>1. t \in Names
      BY DEF Inv, TypeInv
    <2>2. FlaggedKey(sch[t])
      BY Zenon DEF KeyIsFlagged, FlaggedKey
    <2>3. Distinct(sch[t], rows[t])
      BY <2>1, <2>2 DEF RowsInv, RowsOK
    <2> QED
      BY <2>3 DEF Distinct, KeyOf
  <1> QED
    BY <1>1, RowsInvCorrect, PTL

=============================================================================
