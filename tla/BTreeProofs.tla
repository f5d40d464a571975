---------------------------- MODULE BTreeProofs ----------------------------
(***************************************************************************)
(* What holds of an index for every order, any rows, keys and bounds.      *)
(***************************************************************************)
EXTENDS BTree, WellFoundedInduction, TLAPS

-----------------------------------------------------------------------------
(* A loop of the code is a recursive function of its state in the model,   *)
(* f[s] == IF s is final THEN its result ELSE f[the next state].  Such a   *)
(* definition means something only if the function exists: it does when a  *)
(* measure goes down with every round.                                     *)

(* The least-number principle, which stands for induction below.           *)
LEMMA NatMin ==
  ASSUME NEW T, T \subseteq Nat, T # {}
  PROVE  \E x \in T : \A y \in T : x <= y
  <1> DEFINE R == OpToRel(<, Nat)
  <1>1. IsWellFoundedOn(R, Nat)
    BY NatLessThanWellFounded, Zenon
  <1>2. \A x, y \in Nat : <<y, x>> \in R <=> y < x
    BY Zenon DEF OpToRel
  <1> HIDE DEF R
  <1>3. PICK x \in T : \A y \in T : ~ (<<y, x>> \in R)
    BY <1>1, WFMin, Zenon
  <1>4. ASSUME NEW y \in T
        PROVE  x <= y
    <2>1. x \in Nat /\ y \in Nat
      OBVIOUS
    <2>2. ~ (y < x)
      BY <1>2, <1>3, <2>1
    <2> QED
      BY <2>1, <2>2
  <1> QED
    BY <1>4

(* f is the loop over the states B: the states of T are final, with the    *)
(* results v, and the others are followed by nx.                           *)
IsLoop(f, B, T, v, nx) ==
  f = [s \in B |-> IF s \in T THEN v[s] ELSE f[nx[s]]]

(* The measure mu goes down with every round.                              *)
Sinks(D, mu, T, nx) ==
  /\ mu \in [D -> Nat]
  /\ \A s \in D \ T : nx[s] \in D /\ mu[nx[s]] < mu[s]

(* The states from which the loop ends in less than m rounds.              *)
Below(D, mu, m) == {s \in D : mu[s] < m}

(* The loop exists on the states with a small measure.                     *)
LEMMA LoopTo ==
  ASSUME NEW D, NEW mu, NEW T, NEW v, NEW nx, Sinks(D, mu, T, nx),
         NEW m \in Nat
  PROVE  \E f : IsLoop(f, Below(D, mu, m), T, v, nx)
  <1> USE DEF Sinks
  <1> DEFINE Bad == {n \in Nat : ~ \E f : IsLoop(f, Below(D, mu, n), T, v, nx)}
  <1> SUFFICES ASSUME Bad # {}
               PROVE  FALSE
    OBVIOUS
  <1>1. PICK n \in Bad : \A y \in Bad : n <= y
    <2>1. Bad \subseteq Nat
      OBVIOUS
    <2> HIDE DEF Bad
    <2> QED
      BY <2>1, NatMin
  <1>2. n \in Nat
    OBVIOUS
  <1>3. CASE n = 0
    <2>1. Below(D, mu, n) = {}
      BY <1>3 DEF Below
    <2> DEFINE f == [s \in {} |-> 0]
    <2>2. IsLoop(f, {}, T, v, nx)
      BY DEF IsLoop
    <2> HIDE DEF f
    <2> QED
      BY <2>1, <2>2
  <1>4. CASE n # 0
    <2>1. n - 1 \in Nat /\ n - 1 \notin Bad
      <3>1. n - 1 \in Nat /\ ~ (n <= n - 1)
        BY <1>2, <1>4
      <3> HIDE DEF Bad
      <3> QED
        BY <3>1, <1>1
    <2>2. PICK g : IsLoop(g, Below(D, mu, n - 1), T, v, nx)
      BY <2>1
    <2> DEFINE B == Below(D, mu, n)
               f == [s \in B |-> IF s \in T THEN v[s] ELSE g[nx[s]]]
    <2>3. \A s \in B \ T : nx[s] \in Below(D, mu, n - 1)
      BY <1>2 DEF Below
    <2>4. \A s \in Below(D, mu, n - 1) : s \in B
      BY <1>2 DEF Below
    <2>5. \A s \in Below(D, mu, n - 1) : g[s] = IF s \in T THEN v[s] ELSE g[nx[s]]
      <3> DEFINE G == Below(D, mu, n - 1)
      <3> HIDE DEF G
      <3>1. g = [s \in G |-> IF s \in T THEN v[s] ELSE g[nx[s]]]
        BY <2>2 DEF IsLoop, G
      <3>2. \A s \in G : g[s] = IF s \in T THEN v[s] ELSE g[nx[s]]
        BY <3>1
      <3> QED
        BY <3>2 DEF G
    <2> HIDE DEF B
    <2>6. \A s \in Below(D, mu, n - 1) : f[s] = g[s]
      BY <2>4, <2>5
    <2>7. \A s \in B \ T : f[nx[s]] = g[nx[s]]
      BY <2>3, <2>6
    <2>8. f = [s \in B |-> IF s \in T THEN v[s] ELSE f[nx[s]]]
      <3>1. ASSUME NEW s \in B
            PROVE  (IF s \in T THEN v[s] ELSE g[nx[s]])
                     = IF s \in T THEN v[s] ELSE f[nx[s]]
        BY <2>7
      <3> HIDE DEF f
      <3> DEFINE h == [s \in B |-> IF s \in T THEN v[s] ELSE f[nx[s]]]
      <3>2. \A s \in B : f[s] = h[s]
        BY <3>1 DEF f
      <3>3. f = h
        BY <3>2 DEF f
      <3> QED
        BY <3>3
    <2> HIDE DEF f
    <2>9. IsLoop(f, Below(D, mu, n), T, v, nx)
      BY <2>8 DEF IsLoop, B
    <2> QED
      BY <2>9
  <1> QED
    BY <1>3, <1>4

(* One round of a loop.                                                    *)
LEMMA LoopAt ==
  ASSUME NEW B, NEW T, NEW v, NEW nx, NEW f, IsLoop(f, B, T, v, nx),
         NEW s \in B
  PROVE  f[s] = IF s \in T THEN v[s] ELSE f[nx[s]]
  <1>1. f = [r \in B |-> IF r \in T THEN v[r] ELSE f[nx[r]]]
    BY DEF IsLoop
  <1>2. \A r \in B : f[r] = IF r \in T THEN v[r] ELSE f[nx[r]]
    BY <1>1
  <1> QED
    BY <1>2

(* Two such loops agree where both are defined.                            *)
LEMMA LoopAgree ==
  ASSUME NEW D, NEW mu, NEW T, NEW v, NEW nx, Sinks(D, mu, T, nx),
         NEW m \in Nat, NEW n \in Nat, m <= n,
         NEW f, IsLoop(f, Below(D, mu, m), T, v, nx),
         NEW g, IsLoop(g, Below(D, mu, n), T, v, nx)
  PROVE  \A s \in Below(D, mu, m) : f[s] = g[s]
  <1> USE DEF Sinks
  <1> DEFINE Bad == {s \in Below(D, mu, m) : f[s] # g[s]}
             Mus == {mu[s] : s \in Bad}
  <1> SUFFICES ASSUME Bad # {}
               PROVE  FALSE
    OBVIOUS
  <1>0. Below(D, mu, m) \subseteq D /\ Below(D, mu, m) \subseteq Below(D, mu, n)
    BY DEF Below
  <1>1. PICK q \in Mus : \A y \in Mus : q <= y
    <2>1. Mus \subseteq Nat /\ Mus # {}
      BY <1>0
    <2> HIDE DEF Mus
    <2> QED
      BY <2>1, NatMin
  <1>2. PICK s \in Bad : q = mu[s]
    BY <1>1
  <1>3. s \in Below(D, mu, m) /\ s \in Below(D, mu, n) /\ s \in D /\ f[s] # g[s]
    BY <1>0, <1>2
  <1>4. f[s] = IF s \in T THEN v[s] ELSE f[nx[s]]
    BY <1>3, LoopAt
  <1>5. g[s] = IF s \in T THEN v[s] ELSE g[nx[s]]
    BY <1>3, LoopAt
  <1>6. s \notin T /\ f[nx[s]] # g[nx[s]]
    BY <1>3, <1>4, <1>5
  <1>7. nx[s] \in D /\ mu[nx[s]] < mu[s] /\ mu[nx[s]] \in Nat /\ mu[s] \in Nat
    BY <1>3, <1>6
  <1>8. nx[s] \in Below(D, mu, m)
    BY <1>3, <1>7 DEF Below
  <1>9. mu[nx[s]] \in Mus
    BY <1>6, <1>8
  <1> HIDE DEF Mus
  <1>10. mu[s] <= mu[nx[s]]
    BY <1>1, <1>2, <1>9
  <1> QED
    BY <1>7, <1>10

(* A loop whose measure goes down is defined everywhere.                   *)
LEMMA Loop ==
  ASSUME NEW D, NEW mu, NEW T, NEW v, NEW nx, Sinks(D, mu, T, nx)
  PROVE  \E f : IsLoop(f, D, T, v, nx)
  <1>0. \A m \in Nat : \E g : IsLoop(g, Below(D, mu, m), T, v, nx)
    BY LoopTo, Zenon
  <1> DEFINE Upto(m) == CHOOSE f : IsLoop(f, Below(D, mu, m), T, v, nx)
             f == [s \in D |-> Upto(mu[s] + 1)[s]]
  <1>1. ASSUME NEW m \in Nat
        PROVE  IsLoop(Upto(m), Below(D, mu, m), T, v, nx)
    <2>1. \E g : IsLoop(g, Below(D, mu, m), T, v, nx)
      BY <1>0
    <2> QED
      BY <2>1, Zenon
  <1> HIDE DEF Upto
  <1>a. mu \in [D -> Nat] /\ \A s \in D \ T : nx[s] \in D /\ mu[nx[s]] < mu[s]
    BY DEF Sinks
  <1>2. ASSUME NEW s \in D
        PROVE  f[s] = IF s \in T THEN v[s] ELSE f[nx[s]]
    <2>1. mu[s] \in Nat /\ mu[s] + 1 \in Nat
      BY <1>a
    <2>2. s \in Below(D, mu, mu[s] + 1)
      BY <2>1 DEF Below
    <2>3. f[s] = IF s \in T THEN v[s] ELSE Upto(mu[s] + 1)[nx[s]]
      BY <1>1, <2>1, <2>2, LoopAt
    <2>4. CASE s \notin T
      <3>1. nx[s] \in D /\ mu[nx[s]] \in Nat /\ mu[nx[s]] + 1 \in Nat
              /\ mu[nx[s]] + 1 <= mu[s] + 1
        BY <1>a, <2>1, <2>4
      <3>2. nx[s] \in Below(D, mu, mu[nx[s]] + 1)
        BY <3>1 DEF Below
      <3>3. Upto(mu[nx[s]] + 1)[nx[s]] = Upto(mu[s] + 1)[nx[s]]
        <4> DEFINE m == mu[nx[s]] + 1
                   n == mu[s] + 1
        <4>1. m \in Nat /\ n \in Nat /\ m <= n
          BY <2>1, <3>1
        <4>2. nx[s] \in Below(D, mu, m)
          BY <3>2
        <4> HIDE DEF m, n
        <4>3. /\ IsLoop(Upto(m), Below(D, mu, m), T, v, nx)
              /\ IsLoop(Upto(n), Below(D, mu, n), T, v, nx)
          BY <1>1, <4>1
        <4>4. \A r \in Below(D, mu, m) : Upto(m)[r] = Upto(n)[r]
          BY <4>1, <4>3, LoopAgree
        <4> QED
          BY <4>2, <4>4 DEF m, n
      <3>4. f[nx[s]] = Upto(mu[nx[s]] + 1)[nx[s]]
        BY <3>1
      <3> QED
        BY <2>3, <2>4, <3>3, <3>4
    <2> QED
      BY <2>3, <2>4
  <1>3. IsLoop(f, D, T, v, nx)
    <2> DEFINE h == [s \in D |-> IF s \in T THEN v[s] ELSE f[nx[s]]]
    <2>1. \A s \in D : f[s] = h[s]
      <3> HIDE DEF f
      <3> QED
        BY <1>2
    <2>2. f = h
      <3> DEFINE e == [s \in D |-> h[s]]
      <3>1. h = e
        OBVIOUS
      <3>2. f = e
        <4>1. \A s \in D : Upto(mu[s] + 1)[s] = h[s]
          BY <2>1
        <4> HIDE DEF h
        <4> QED
          BY <4>1
      <3> QED
        BY <3>1, <3>2
    <2> HIDE DEF f
    <2> QED
      BY <2>2 DEF IsLoop
  <1> QED
    BY <1>3, Zenon

-----------------------------------------------------------------------------
(* find_key(): the loop ends, and what it returns.                         *)

Mid(s) == (s.lo + s.hi) \div 2

(* f is the function that find_key() of x and k defines.                   *)
IsSearch(f, x, k) ==
  f = [s \in Search |->
        LET mid == (s.lo + s.hi) \div 2 IN
        IF s.lo > s.hi THEN s.alt
        ELSE IF k < Key(x, mid)
        THEN f[[lo |-> s.lo, hi |-> mid - 1, alt |-> mid]]
        ELSE IF k > Key(x, mid)
        THEN f[[lo |-> mid + 1, hi |-> s.hi, alt |-> s.alt]]
        ELSE mid]

SearchEnds(x, k) ==
  {s \in Search : \/ s.lo > s.hi
                  \/ ~ (k < Key(x, Mid(s))) /\ ~ (k > Key(x, Mid(s)))}

SearchNext(x, k) ==
  [s \in Search |->
     IF k < Key(x, Mid(s))
     THEN [lo |-> s.lo, hi |-> Mid(s) - 1, alt |-> Mid(s)]
     ELSE [lo |-> Mid(s) + 1, hi |-> s.hi, alt |-> s.alt]]

Width == [s \in Search |-> IF s.lo > s.hi THEN 0 ELSE s.hi - s.lo + 1]

LEMMA MidWithin ==
  ASSUME NEW s \in Search, s.lo <= s.hi
  PROVE  Mid(s) \in Nat /\ s.lo <= Mid(s) /\ Mid(s) <= s.hi
  <1>1. s.lo \in Nat /\ s.hi \in Int
    BY DEF Search
  <1> DEFINE a == s.lo
             b == s.hi
  <1>2. a \in Nat /\ b \in Int /\ a <= b
    BY <1>1
  <1> HIDE DEF a, b
  <1>3. (a + b) \div 2 \in Nat /\ a <= (a + b) \div 2 /\ (a + b) \div 2 <= b
    BY <1>2
  <1> QED
    BY <1>3 DEF Mid, a, b

LEMMA SearchSinks ==
  ASSUME NEW x, NEW k
  PROVE  Sinks(Search, Width, SearchEnds(x, k), SearchNext(x, k))
  <1>1. Width \in [Search -> Nat]
    BY DEF Width, Search
  <1>2. ASSUME NEW s \in Search, s \notin SearchEnds(x, k)
        PROVE  /\ SearchNext(x, k)[s] \in Search
               /\ Width[SearchNext(x, k)[s]] < Width[s]
    <2>1. s.lo \in Nat /\ s.hi \in Int /\ s.alt \in Nat /\ s.lo <= s.hi
      BY <1>2 DEF Search, SearchEnds
    <2>2. Mid(s) \in Nat /\ s.lo <= Mid(s) /\ Mid(s) <= s.hi
      BY <2>1, MidWithin
    <2> DEFINE m == Mid(s)
    <2> HIDE DEF m
    <2>3. m \in Nat /\ s.lo <= m /\ m <= s.hi
      BY <2>2 DEF m
    <2> DEFINE a == [lo |-> s.lo, hi |-> m - 1, alt |-> m]
               b == [lo |-> m + 1, hi |-> s.hi, alt |-> s.alt]
    <2>4. a \in Search /\ a.lo = s.lo /\ a.hi = m - 1
      BY <2>1, <2>3 DEF Search
    <2>5. b \in Search /\ b.lo = m + 1 /\ b.hi = s.hi
      BY <2>1, <2>3 DEF Search
    <2>6. SearchNext(x, k)[s] = a \/ SearchNext(x, k)[s] = b
      BY DEF SearchNext, m
    <2> HIDE DEF a, b
    <2>7. Width[a] < Width[s]
      BY <2>1, <2>3, <2>4 DEF Width
    <2>8. Width[b] < Width[s]
      BY <2>1, <2>3, <2>5 DEF Width
    <2> QED
      BY <2>4, <2>5, <2>6, <2>7, <2>8
  <1> QED
    BY <1>1, <1>2 DEF Sinks

LEMMA SearchExists ==
  ASSUME NEW x, NEW k
  PROVE  \E f : IsSearch(f, x, k)
  <1> DEFINE v == [s \in Search |-> IF s.lo > s.hi THEN s.alt ELSE Mid(s)]
             T == SearchEnds(x, k)
             nx == SearchNext(x, k)
  <1>1. PICK f : IsLoop(f, Search, T, v, nx)
    <2>1. Sinks(Search, Width, T, nx)
      BY SearchSinks
    <2> HIDE DEF v, T, nx
    <2> QED
      BY <2>1, Loop
  <1> DEFINE Next1(s) ==
        LET mid == (s.lo + s.hi) \div 2 IN
        IF s.lo > s.hi THEN s.alt
        ELSE IF k < Key(x, mid)
        THEN f[[lo |-> s.lo, hi |-> mid - 1, alt |-> mid]]
        ELSE IF k > Key(x, mid)
        THEN f[[lo |-> mid + 1, hi |-> s.hi, alt |-> s.alt]]
        ELSE mid
  <1>2. \A s \in Search : (IF s \in T THEN v[s] ELSE f[nx[s]]) = Next1(s)
    BY DEF SearchEnds, SearchNext, Mid
  <1>3. f = [s \in Search |-> Next1(s)]
    <2> HIDE DEF Next1, T, v, nx
    <2> QED
      BY <1>1, <1>2 DEF IsLoop
  <1>4. IsSearch(f, x, k)
    BY <1>3, Zenon DEF IsSearch
  <1> QED
    BY <1>4

LEMMA FindKeySearch ==
  ASSUME NEW x, NEW k
  PROVE  \E f : /\ IsSearch(f, x, k)
                /\ FindKey(x, k) = f[[lo |-> 0, hi |-> x.num - 1, alt |-> x.num]]
  <1> DEFINE f == CHOOSE f : IsSearch(f, x, k)
  <1>1. IsSearch(f, x, k)
    BY SearchExists, Zenon
  <1>2. FindKey(x, k) = f[[lo |-> 0, hi |-> x.num - 1, alt |-> x.num]]
    BY Zenon DEF FindKey, IsSearch
  <1> HIDE DEF f
  <1> QED
    BY <1>1, <1>2

(* The keys of a node are in order.                                        *)
Ordered(x) ==
  \A i, j \in 0..(x.num - 1) : i < j => Key(x, i) <= Key(x, j)

(* What find_key() is for: the index of the key, or of the lowest that is  *)
(* greater.                                                                *)
Answer(r, x, k) ==
  /\ r \in 0..x.num
  /\ Ordered(x) =>
       \/ r < x.num /\ Key(x, r) = k
       \/ /\ \A i \in 0..(r - 1) : Key(x, i) < k
          /\ \A i \in r..(x.num - 1) : Key(x, i) > k

(* The invariant of the loop.                                              *)
Between(s, x, k) ==
  /\ s.lo <= s.hi + 1 /\ s.hi < x.num /\ s.alt = s.hi + 1
  /\ Ordered(x) => /\ \A i \in 0..(s.lo - 1) : Key(x, i) < k
                   /\ \A i \in s.alt..(x.num - 1) : Key(x, i) > k

LEMMA NodeFacts ==
  ASSUME NEW x \in Node
  PROVE  /\ x.num \in Nat /\ x.num <= Order - 1 /\ Order \in Nat /\ Order >= 4
         /\ \A i \in 0..(Order - 1) : Key(x, i) \in Nat /\ Child(x, i) \in Nat
         /\ \A i \in 0..x.num : Key(x, i) \in Nat /\ Child(x, i) \in Nat
         /\ x.leaf \in BOOLEAN
         /\ x.prev \in Ids \union {None} /\ x.next \in Ids \union {None}
         /\ x.slot \in [Slots -> [off : Nat, key : Nat]]
  BY BTreeAssumption DEF Node, Key, Child, Slots

LEMMA SearchLeft ==
  ASSUME NEW x \in Node, NEW k \in Nat, NEW s \in Search, Between(s, x, k),
         s.lo <= s.hi, k < Key(x, Mid(s))
  PROVE  Between([lo |-> s.lo, hi |-> Mid(s) - 1, alt |-> Mid(s)], x, k)
  <1>1. s.lo \in Nat /\ s.hi \in Int /\ s.alt \in Nat
    BY DEF Search
  <1>2. Mid(s) \in Nat /\ s.lo <= Mid(s) /\ Mid(s) <= s.hi
    BY MidWithin
  <1>3. x.num \in Nat /\ \A i \in 0..x.num : Key(x, i) \in Nat
    BY NodeFacts
  <1>4. s.hi < x.num
    BY DEF Between
  <1> DEFINE m == Mid(s)
  <1> HIDE DEF m
  <1>5. m \in Nat /\ s.lo <= m /\ m <= s.hi /\ m < x.num /\ k < Key(x, m)
    BY <1>1, <1>2, <1>3, <1>4 DEF m
  <1>6. ASSUME Ordered(x), NEW i \in m..(x.num - 1)
        PROVE  Key(x, i) > k
    <2>1. i \in 0..(x.num - 1) /\ m \in 0..(x.num - 1) /\ (i = m \/ m < i)
      BY <1>3, <1>5
    <2>2. Key(x, i) \in Nat /\ Key(x, m) \in Nat
      BY <1>3, <2>1
    <2>3. i = m \/ Key(x, m) <= Key(x, i)
      BY <1>6, <2>1 DEF Ordered
    <2> QED
      BY <1>5, <2>2, <2>3
  <1>7. Ordered(x) => \A i \in 0..(s.lo - 1) : Key(x, i) < k
    BY DEF Between
  <1> QED
    BY <1>1, <1>3, <1>4, <1>5, <1>6, <1>7 DEF Between, m

LEMMA SearchRight ==
  ASSUME NEW x \in Node, NEW k \in Nat, NEW s \in Search, Between(s, x, k),
         s.lo <= s.hi, k > Key(x, Mid(s))
  PROVE  Between([lo |-> Mid(s) + 1, hi |-> s.hi, alt |-> s.alt], x, k)
  <1>1. s.lo \in Nat /\ s.hi \in Int /\ s.alt \in Nat
    BY DEF Search
  <1>2. Mid(s) \in Nat /\ s.lo <= Mid(s) /\ Mid(s) <= s.hi
    BY MidWithin
  <1>3. x.num \in Nat /\ \A i \in 0..x.num : Key(x, i) \in Nat
    BY NodeFacts
  <1>4. s.hi < x.num /\ s.alt = s.hi + 1
    BY DEF Between
  <1> DEFINE m == Mid(s)
  <1> HIDE DEF m
  <1>5. m \in Nat /\ s.lo <= m /\ m <= s.hi /\ m < x.num /\ k > Key(x, m)
    BY <1>1, <1>2, <1>3, <1>4 DEF m
  <1>6. ASSUME Ordered(x), NEW i \in 0..m
        PROVE  Key(x, i) < k
    <2>1. i \in 0..(x.num - 1) /\ m \in 0..(x.num - 1) /\ (i = m \/ i < m)
      BY <1>3, <1>5
    <2>2. Key(x, i) \in Nat /\ Key(x, m) \in Nat
      BY <1>3, <2>1
    <2>3. i = m \/ Key(x, i) <= Key(x, m)
      BY <1>6, <2>1 DEF Ordered
    <2> QED
      BY <1>5, <2>2, <2>3
  <1>7. Ordered(x) => \A i \in s.alt..(x.num - 1) : Key(x, i) > k
    BY DEF Between
  <1> QED
    BY <1>1, <1>3, <1>4, <1>5, <1>6, <1>7 DEF Between, m

(* A round of the search: it is over, or goes on in one of the halves.     *)
LEMMA SearchRound ==
  ASSUME NEW x \in Node, NEW k \in Nat, NEW s \in Search, Between(s, x, k),
         NEW f, IsSearch(f, x, k)
  PROVE  \/ Answer(f[s], x, k)
         \/ \E r \in Search : /\ Between(r, x, k) /\ f[s] = f[r]
                              /\ Width[r] < Width[s]
  <1>1. s.lo \in Nat /\ s.hi \in Int /\ s.alt \in Nat
    BY DEF Search
  <1>2. x.num \in Nat /\ \A i \in 0..x.num : Key(x, i) \in Nat
    BY NodeFacts
  <1>3. s.lo <= s.hi + 1 /\ s.hi < x.num /\ s.alt = s.hi + 1
    BY DEF Between
  <1>4. f[s] = IF s.lo > s.hi THEN s.alt
               ELSE IF k < Key(x, Mid(s))
               THEN f[[lo |-> s.lo, hi |-> Mid(s) - 1, alt |-> Mid(s)]]
               ELSE IF k > Key(x, Mid(s))
               THEN f[[lo |-> Mid(s) + 1, hi |-> s.hi, alt |-> s.alt]]
               ELSE Mid(s)
    <2> DEFINE V(r) == IF r.lo > r.hi THEN r.alt
               ELSE IF k < Key(x, Mid(r))
               THEN f[[lo |-> r.lo, hi |-> Mid(r) - 1, alt |-> Mid(r)]]
               ELSE IF k > Key(x, Mid(r))
               THEN f[[lo |-> Mid(r) + 1, hi |-> r.hi, alt |-> r.alt]]
               ELSE Mid(r)
    <2>1. f = [r \in Search |-> V(r)]
      BY Zenon DEF IsSearch, Mid
    <2> HIDE DEF V
    <2>2. f[s] = V(s)
      BY <2>1
    <2> QED
      BY <2>2 DEF V
  <1>5. CASE s.lo > s.hi
    <2>1. f[s] = s.alt /\ s.alt = s.lo /\ s.alt \in 0..x.num
      BY <1>1, <1>2, <1>3, <1>4, <1>5
    <2> QED
      BY <2>1 DEF Answer, Between
  <1>6. CASE s.lo <= s.hi
    <2>1. Mid(s) \in Nat /\ s.lo <= Mid(s) /\ Mid(s) <= s.hi
      BY <1>6, MidWithin
    <2>2. Mid(s) \in 0..x.num /\ Mid(s) < x.num /\ Key(x, Mid(s)) \in Nat
      BY <1>1, <1>2, <1>3, <2>1
    <2> DEFINE m == Mid(s)
               l == [lo |-> s.lo, hi |-> m - 1, alt |-> m]
               r == [lo |-> m + 1, hi |-> s.hi, alt |-> s.alt]
    <2>3. m \in Nat /\ s.lo <= m /\ m <= s.hi
      BY <2>1
    <2>4. CASE k < Key(x, m)
      <3>1. Between(l, x, k)
        BY <1>6, <2>4, SearchLeft
      <3>2. f[s] = f[l]
        BY <1>1, <1>4, <1>6, <2>4
      <3> HIDE DEF m
      <3>3. l \in Search /\ l.lo = s.lo /\ l.hi = m - 1
        BY <1>1, <2>3 DEF Search
      <3> HIDE DEF l
      <3>4. Width[l] < Width[s]
        BY <1>1, <1>6, <2>3, <3>3 DEF Width
      <3> QED
        BY <3>1, <3>2, <3>3, <3>4
    <2>5. CASE k > Key(x, m)
      <3>1. Between(r, x, k)
        BY <1>6, <2>5, SearchRight
      <3>2. f[s] = f[r]
        BY <1>1, <1>4, <1>6, <2>2, <2>5
      <3> HIDE DEF m
      <3>3. r \in Search /\ r.lo = m + 1 /\ r.hi = s.hi
        BY <1>1, <2>3 DEF Search
      <3> HIDE DEF r
      <3>4. Width[r] < Width[s]
        BY <1>1, <1>6, <2>3, <3>3 DEF Width
      <3> QED
        BY <3>1, <3>2, <3>3, <3>4
    <2>6. CASE k = Key(x, m)
      BY <1>1, <1>4, <1>6, <2>2, <2>6 DEF Answer
    <2> QED
      BY <2>2, <2>4, <2>5, <2>6
  <1> QED
    BY <1>1, <1>5, <1>6

(* node::find_key(): for every node of every order and every key, the loop *)
(* ends within 0..m_num_key, and if the keys of the node are in order, it  *)
(* ends at the key, or at the lowest key that is greater, as the comment   *)
(* above it says.                                                          *)
THEOREM FindKeyCorrect ==
  ASSUME NEW x \in Node, NEW k \in Nat
  PROVE  Answer(FindKey(x, k), x, k)
  <1>1. PICK f : /\ IsSearch(f, x, k)
                 /\ FindKey(x, k)
                      = f[[lo |-> 0, hi |-> x.num - 1, alt |-> x.num]]
    BY FindKeySearch, Zenon
  <1>2. x.num \in Nat
    BY NodeFacts
  <1> DEFINE s0 == [lo |-> 0, hi |-> x.num - 1, alt |-> x.num]
  <1>3. s0 \in Search /\ Between(s0, x, k)
    BY <1>2 DEF Search, Between
  <1> DEFINE Bad == {s \in Search : Between(s, x, k) /\ ~ Answer(f[s], x, k)}
             Widths == {Width[s] : s \in Bad}
  <1> SUFFICES ASSUME Bad # {}
               PROVE  FALSE
    BY <1>1, <1>3
  <1>4. PICK w \in Widths : \A y \in Widths : w <= y
    <2>1. Width \in [Search -> Nat]
      BY SearchSinks DEF Sinks
    <2>2. Widths \subseteq Nat /\ Widths # {}
      BY <2>1
    <2> HIDE DEF Widths
    <2> QED
      BY <2>2, NatMin
  <1>5. PICK s \in Bad : w = Width[s]
    BY <1>4
  <1>6. PICK r \in Search : /\ Between(r, x, k) /\ f[s] = f[r]
                            /\ Width[r] < Width[s]
    BY <1>1, <1>5, SearchRound
  <1>7. Width[r] \in Widths
    BY <1>5, <1>6
  <1>8. Width[r] \in Nat /\ Width[s] \in Nat
    BY <1>5, SearchSinks DEF Sinks
  <1> HIDE DEF Widths
  <1> QED
    BY <1>4, <1>5, <1>6, <1>7, <1>8

(* The loops of insert_non_full() stop within the node, behind the last    *)
(* element that is not greater.                                            *)
LEMMA LastNotAboveIn ==
  ASSUME NEW x \in Node, NEW k \in Nat
  PROVE  /\ LastNotAbove(x, k) + 1 \in 0..x.num
         /\ \A i \in (LastNotAbove(x, k) + 1)..(x.num - 1) : Key(x, i) > k
         /\ LastNotAbove(x, k) >= 0 => Key(x, LastNotAbove(x, k)) <= k
  <1>1. x.num \in Nat /\ \A i \in 0..x.num : Key(x, i) \in Nat
    BY NodeFacts
  <1> DEFINE S == {i \in 0..(x.num - 1) : Key(x, i) <= k} \union {-1}
             U == {x.num - i : i \in S}
  <1>2. S \subseteq Int /\ \A i \in S : i < x.num
    BY <1>1
  <1>3. U \subseteq Nat /\ U # {}
    <2>1. -1 \in S
      OBVIOUS
    <2> HIDE DEF S
    <2> QED
      BY <1>1, <1>2, <2>1
  <1>4. PICK u \in U : \A y \in U : u <= y
    <2> HIDE DEF U
    <2> QED
      BY <1>3, NatMin
  <1>5. PICK m \in S : u = x.num - m
    OBVIOUS
  <1>6. \A i \in S : m >= i
    <2> SUFFICES ASSUME NEW i \in S
                 PROVE  m >= i
      OBVIOUS
    <2>1. x.num - i \in U
      OBVIOUS
    <2>2. x.num - m <= x.num - i
      <3> HIDE DEF U
      <3> QED
        BY <1>4, <1>5, <2>1
    <2>3. i \in Int /\ m \in Int
      BY <1>2, <1>5
    <2> QED
      BY <1>1, <2>2, <2>3
  <1> HIDE DEF U
  <1>7. Max(S) \in S /\ \A i \in S : Max(S) >= i
    <2> HIDE DEF S
    <2>1. \E q \in S : \A i \in S : q >= i
      BY <1>5, <1>6
    <2> QED
      BY <2>1, Zenon DEF Max
  <1>8. LastNotAbove(x, k) = Max(S)
    BY Zenon DEF LastNotAbove
  <1> DEFINE q == Max(S)
  <1> HIDE DEF q
  <1>9. q \in S /\ \A i \in S : q >= i
    BY <1>7 DEF q
  <1>10. q \in Int /\ q + 1 \in 0..x.num /\ (q >= 0 => Key(x, q) <= k)
    BY <1>1, <1>9
  <1>11. ASSUME NEW i \in (q + 1)..(x.num - 1)
         PROVE  Key(x, i) > k
    <2>1. i \in 0..(x.num - 1) /\ Key(x, i) \in Nat /\ ~ (q >= i)
      BY <1>1, <1>10
    <2>2. i \notin S
      BY <1>9, <2>1
    <2> QED
      BY <2>1, <2>2
  <1> QED
    BY <1>8, <1>10, <1>11 DEF q

-----------------------------------------------------------------------------
(* What the accessors of a block do to it.                                 *)

LEMMA Degree ==
  /\ Order \in Nat /\ Order >= 4 /\ MinDegree \in Nat /\ MinDegree >= 2
  /\ 2 * MinDegree <= Order /\ Order <= 2 * MinDegree + 1
  BY BTreeAssumption DEF MinDegree

LEMMA NewNodeIn ==
  ASSUME NEW leaf \in BOOLEAN
  PROVE  /\ NewNode(leaf) \in Node
         /\ NewNode(leaf).leaf = leaf /\ NewNode(leaf).num = 0
  BY Degree DEF NewNode, Node, None

LEMMA ElemIn ==
  ASSUME NEW x \in Node, NEW i \in 0..(Order - 1)
  PROVE  Elem(x, i).ref \in Nat /\ Elem(x, i).key \in Nat
  BY DEF Elem, Node, Slots

LEMMA PutElemsIn ==
  ASSUME NEW x \in Node, NEW es,
         \A i \in DOMAIN es : i \in Slots =>
           es[i].ref \in Nat /\ es[i].key \in Nat
  PROVE  /\ PutElems(x, es) \in Node
         /\ PutElems(x, es).leaf = x.leaf /\ PutElems(x, es).num = x.num
         /\ PutElems(x, es).prev = x.prev /\ PutElems(x, es).next = x.next
         /\ ~x.leaf => \A i \in 0..(Order - 1) :
              Child(PutElems(x, es), i) = Child(x, i)
  <1> DEFINE sl == [i \in Slots |->
               IF i \notin DOMAIN es THEN x.slot[i]
               ELSE [off |-> IF x.leaf THEN es[i].ref ELSE x.slot[i].off,
                     key |-> es[i].key]]
             y == [x EXCEPT !.slot = sl]
  <1>1. PutElems(x, es) = y
    BY DEF PutElems
  <1>2. x.slot \in [Slots -> [off : Nat, key : Nat]] /\ x.leaf \in BOOLEAN
    BY DEF Node
  <1>3. sl \in [Slots -> [off : Nat, key : Nat]]
    <2>1. ASSUME NEW i \in Slots
          PROVE  sl[i] \in [off : Nat, key : Nat]
      BY <1>2
    <2> QED
      BY <2>1
  <1>4. ~x.leaf => \A i \in Slots : sl[i].off = x.slot[i].off
    BY <1>2
  <1> HIDE DEF sl
  <1>5. /\ y \in Node /\ y.leaf = x.leaf /\ y.num = x.num
        /\ y.prev = x.prev /\ y.next = x.next /\ y.slot = sl
    BY <1>3 DEF Node
  <1> HIDE DEF y
  <1> QED
    BY <1>1, <1>4, <1>5 DEF Child, Slots

LEMMA PutChildrenIn ==
  ASSUME NEW x \in Node, NEW cs,
         \A i \in DOMAIN cs : i \in Slots => cs[i] \in Nat
  PROVE  /\ PutChildren(x, cs) \in Node
         /\ PutChildren(x, cs).leaf = x.leaf /\ PutChildren(x, cs).num = x.num
         /\ PutChildren(x, cs).prev = x.prev /\ PutChildren(x, cs).next = x.next
         /\ \A i \in 0..(Order - 1) : Child(PutChildren(x, cs), i)
              = IF i \in DOMAIN cs THEN cs[i] ELSE Child(x, i)
  <1> DEFINE sl == [i \in Slots |->
               IF i \notin DOMAIN cs THEN x.slot[i]
               ELSE [x.slot[i] EXCEPT !.off = cs[i]]]
             y == [x EXCEPT !.slot = sl]
  <1>1. PutChildren(x, cs) = y
    BY DEF PutChildren
  <1>2. x.slot \in [Slots -> [off : Nat, key : Nat]]
    BY DEF Node
  <1>3. ASSUME NEW i \in Slots
        PROVE  /\ sl[i] \in [off : Nat, key : Nat]
               /\ sl[i].off = IF i \in DOMAIN cs THEN cs[i] ELSE x.slot[i].off
    BY <1>2
  <1>4. sl \in [Slots -> [off : Nat, key : Nat]]
    BY <1>3
  <1> HIDE DEF sl
  <1>5. /\ y \in Node /\ y.leaf = x.leaf /\ y.num = x.num
        /\ y.prev = x.prev /\ y.next = x.next /\ y.slot = sl
    BY <1>4 DEF Node
  <1> HIDE DEF y
  <1> QED
    BY <1>1, <1>3, <1>5 DEF Child, Slots

LEMMA NumIn ==
  ASSUME NEW x \in Node, NEW n \in 0..(Order - 1)
  PROVE  /\ [x EXCEPT !.num = n] \in Node
         /\ [x EXCEPT !.num = n].leaf = x.leaf
         /\ [x EXCEPT !.num = n].num = n
         /\ \A i : Child([x EXCEPT !.num = n], i) = Child(x, i)
         /\ \A i : Key([x EXCEPT !.num = n], i) = Key(x, i)
  BY DEF Node, Child, Key

(* insert_sibling() changes the links only.                                *)
Alike(y, x) == y.leaf = x.leaf /\ y.num = x.num /\ y.slot = x.slot

LEMMA LinkBehindIn ==
  ASSUME NEW ns \in [Ids -> Node], NEW c \in Ids, NEW z \in Ids
  PROVE  /\ LinkBehind(ns, c, z) \in [Ids -> Node]
         /\ \A b \in Ids : Alike(LinkBehind(ns, c, z)[b], ns[b])
  <1> DEFINE n == ns[c].next
             L(b) == CASE b = z -> [ns[b] EXCEPT !.prev = c, !.next = n]
                       [] b = c -> [ns[b] EXCEPT !.next = z]
                       [] b = n -> [ns[b] EXCEPT !.prev = z]
                       [] OTHER -> ns[b]
  <1>1. LinkBehind(ns, c, z) = [b \in Ids |-> L(b)]
    BY Zenon DEF LinkBehind
  <1>2. n \in Ids \union {None}
    BY DEF Node
  <1> HIDE DEF n
  <1>3. ASSUME NEW b \in Ids
        PROVE  L(b) \in Node /\ Alike(L(b), ns[b])
    <2> DEFINE x == ns[b]
               y1 == [x EXCEPT !.prev = c, !.next = n]
               y2 == [x EXCEPT !.next = z]
               y3 == [x EXCEPT !.prev = z]
    <2>1. x \in Node
      OBVIOUS
    <2>2. L(b) = y1 \/ L(b) = y2 \/ L(b) = y3 \/ L(b) = x
      OBVIOUS
    <2> HIDE DEF x, L
    <2>3. y1 \in Node /\ Alike(y1, x)
      BY <1>2, <2>1 DEF Node, Alike
    <2>4. y2 \in Node /\ Alike(y2, x)
      BY <1>2, <2>1 DEF Node, Alike
    <2>5. y3 \in Node /\ Alike(y3, x)
      BY <1>2, <2>1 DEF Node, Alike
    <2>6. Alike(x, x)
      BY DEF Alike
    <2> HIDE DEF y1, y2, y3
    <2>7. L(b) \in Node /\ Alike(L(b), x)
      BY <2>1, <2>2, <2>3, <2>4, <2>5, <2>6
    <2> QED
      BY <2>7 DEF x
  <1> HIDE DEF L
  <1> QED
    BY <1>1, <1>3

-----------------------------------------------------------------------------
(* What splitting, borrowing and merging do to the shape of the blocks.    *)

(* split_child(): p gets z behind child n, c keeps its lower children and  *)
(* z gets the upper ones; the other blocks keep their shape.               *)
IsSplit(S, ns, p, n, c, z) ==
  /\ S \in [Ids -> Node]
  /\ \A b \in Ids \ {p, c, z} : Alike(S[b], ns[b])
  /\ S[p].leaf = FALSE
  /\ S[p].num = ns[p].num + 1
  /\ \A i \in 0..(ns[p].num + 1) : Child(S[p], i)
       = IF i = n + 1 THEN z
         ELSE IF i > n + 1 THEN Child(ns[p], i - 1) ELSE Child(ns[p], i)
  /\ S[c].leaf = ns[c].leaf
  /\ S[c].num \in {MinDegree - 1, MinDegree}
  /\ \A i : Child(S[c], i) = Child(ns[c], i)
  /\ S[z].leaf = ns[c].leaf
  /\ S[z].num = MinDegree - 1
  /\ ~ns[c].leaf => \A i \in 0..(MinDegree - 1) :
       Child(S[z], i) = Child(ns[c], MinDegree + i)

LEMMA SplitShape ==
  ASSUME NEW ns \in [Ids -> Node], NEW p \in Ids, NEW c \in Ids, NEW z \in Ids,
         p # c, p # z, c # z,
         ~ns[p].leaf, ns[p].num < Order - 1, ns[c].num = Order - 1,
         NEW n \in 0..ns[p].num
  PROVE  IsSplit(Split(ns, p, n, c, z), ns, p, n, c, z)
  <1> DEFINE P == ns[p]
             C == ns[c]
             t == MinDegree
             ue == [i \in 0..(t - 2) |-> Elem(C, t + i)]
             upper == PutElems(NewNode(C.leaf), ue)
             uc == [i \in 0..(t - 1) |-> Child(C, t + i)]
             W == IF C.leaf THEN upper ELSE PutChildren(upper, uc)
             Z == [W EXCEPT !.num = t - 1]
             kc == [i \in (n + 1)..(P.num + 1) |->
                      IF i = n + 1 THEN z ELSE Child(P, i - 1)]
             kids == PutChildren(P, kc)
             ke == [i \in n..P.num |-> IF i = n THEN Elem(C, t - 1)
                                       ELSE Elem(P, i - 1)]
             keys == PutElems(kids, ke)
             Q == [keys EXCEPT !.num = P.num + 1]
             D == [C EXCEPT !.num = Kept(C)]
             ms == [ns EXCEPT ![p] = Q, ![c] = D, ![z] = Z]
             S == Split(ns, p, n, c, z)
  <1>1. S = LinkBehind(ms, c, z)
    <2>1. S = LinkBehind([ns EXCEPT ![p] = Q, ![c].num = Kept(C), ![z] = Z],
                         c, z)
      BY Zenon DEF Split
    <2>2. [ns EXCEPT ![p] = Q, ![c].num = Kept(C), ![z] = Z] = ms
      <3> HIDE DEF Q, Z
      <3> QED
        OBVIOUS
    <2> QED
      BY <2>1, <2>2, Zenon
  <1>2. /\ t \in Nat /\ t >= 2 /\ 2 * t <= Order /\ Order <= 2 * t + 1
        /\ Order \in Nat /\ Order >= 4
    BY Degree
  <1>3. P \in Node /\ C \in Node /\ P.num \in Nat /\ P.num < Order - 1 /\ n \in Nat
         /\ n <= P.num /\ C.leaf \in BOOLEAN /\ C.num = Order - 1 /\ ~P.leaf
         /\ z \in Nat
    BY NodeFacts DEF Ids
  <1>4. /\ \A i \in 0..(Order - 1) : Child(P, i) \in Nat /\ Child(C, i) \in Nat
        /\ \A i \in 0..(Order - 1) : /\ Elem(P, i).ref \in Nat
                                     /\ Elem(P, i).key \in Nat
                                     /\ Elem(C, i).ref \in Nat
                                     /\ Elem(C, i).key \in Nat
    BY <1>3, NodeFacts, ElemIn
  <1> HIDE DEF P, C, t
  <1>5. /\ upper \in Node /\ upper.leaf = C.leaf /\ upper.num = 0
    <2>1. \A i \in DOMAIN ue : ue[i].ref \in Nat /\ ue[i].key \in Nat
      BY <1>2, <1>4
    <2>2. /\ NewNode(C.leaf) \in Node /\ NewNode(C.leaf).leaf = C.leaf
          /\ NewNode(C.leaf).num = 0
      BY <1>3, NewNodeIn
    <2> HIDE DEF ue
    <2> QED
      BY <2>1, <2>2, PutElemsIn
  <1>6. /\ W \in Node /\ W.leaf = C.leaf
        /\ ~C.leaf => \A i \in 0..(t - 1) : Child(W, i) = Child(C, t + i)
    <2> HIDE DEF upper
    <2>1. \A i \in DOMAIN uc : uc[i] \in Nat
      BY <1>2, <1>4
    <2>2. DOMAIN uc = 0..(t - 1) /\ \A i \in 0..(t - 1) : uc[i] = Child(C, t + i)
      OBVIOUS
    <2>3. \A i \in 0..(t - 1) : i \in 0..(Order - 1)
      BY <1>2
    <2> HIDE DEF uc
    <2> QED
      BY <1>5, <2>1, <2>2, <2>3, PutChildrenIn
  <1>7. /\ Z \in Node /\ Z.leaf = C.leaf /\ Z.num = t - 1
        /\ ~C.leaf => \A i \in 0..(t - 1) : Child(Z, i) = Child(C, t + i)
    <2>1. t - 1 \in 0..(Order - 1)
      BY <1>2
    <2> HIDE DEF W
    <2> QED
      BY <1>6, <2>1, NumIn
  <1>8. /\ kids \in Node /\ kids.leaf = P.leaf /\ kids.num = P.num
        /\ \A i \in 0..(P.num + 1) : Child(kids, i)
              = IF i = n + 1 THEN z
                ELSE IF i > n + 1 THEN Child(P, i - 1) ELSE Child(P, i)
    <2>1. \A i \in DOMAIN kc : kc[i] \in Nat
      BY <1>2, <1>3, <1>4
    <2>2. /\ DOMAIN kc = (n + 1)..(P.num + 1)
          /\ \A i \in (n + 1)..(P.num + 1) :
               kc[i] = IF i = n + 1 THEN z ELSE Child(P, i - 1)
      OBVIOUS
    <2> HIDE DEF kc
    <2>3. /\ kids \in Node /\ kids.leaf = P.leaf /\ kids.num = P.num
          /\ \A i \in 0..(Order - 1) : Child(kids, i)
               = IF i \in DOMAIN kc THEN kc[i] ELSE Child(P, i)
      BY <1>3, <2>1, PutChildrenIn
    <2> HIDE DEF kids
    <2>4. ASSUME NEW i \in 0..(P.num + 1)
          PROVE  Child(kids, i)
              = IF i = n + 1 THEN z
                ELSE IF i > n + 1 THEN Child(P, i - 1) ELSE Child(P, i)
      <3>1. i \in 0..(Order - 1) /\ (i \in DOMAIN kc <=> i >= n + 1)
        BY <1>2, <1>3, <2>2
      <3>2. CASE i >= n + 1
        BY <1>3, <2>2, <2>3, <3>1, <3>2
      <3>3. CASE ~ (i >= n + 1)
        BY <1>3, <2>3, <3>1, <3>3
      <3> QED
        BY <3>2, <3>3
    <2> QED
      BY <2>3, <2>4
  <1>9. /\ keys \in Node /\ keys.leaf = P.leaf
        /\ \A i \in 0..(Order - 1) : Child(keys, i) = Child(kids, i)
    <2>1. \A i \in DOMAIN ke : ke[i].ref \in Nat /\ ke[i].key \in Nat
      BY <1>2, <1>3, <1>4
    <2> HIDE DEF ke, kids
    <2> QED
      BY <1>3, <1>8, <2>1, PutElemsIn
  <1>10. /\ Q \in Node /\ Q.leaf = FALSE /\ Q.num = P.num + 1
         /\ \A i \in 0..(P.num + 1) : Child(Q, i)
              = IF i = n + 1 THEN z
                ELSE IF i > n + 1 THEN Child(P, i - 1) ELSE Child(P, i)
    <2>1. P.num + 1 \in 0..(Order - 1) /\ \A i \in 0..(P.num + 1) : i \in 0..(Order - 1)
      BY <1>2, <1>3
    <2> HIDE DEF keys
    <2>2. /\ Q \in Node /\ Q.leaf = keys.leaf /\ Q.num = P.num + 1
          /\ \A i : Child(Q, i) = Child(keys, i)
      BY <1>9, <2>1, NumIn
    <2>3. keys.leaf = FALSE
      BY <1>3, <1>9, NodeFacts
    <2> HIDE DEF Q, kids
    <2> QED
      BY <1>8, <1>9, <2>1, <2>2, <2>3
  <1>11. /\ D \in Node /\ D.leaf = C.leaf /\ D.num \in {t - 1, t}
         /\ \A i : Child(D, i) = Child(C, i)
    <2>1. Kept(C) \in {t - 1, t} /\ Kept(C) \in 0..(Order - 1)
      BY <1>2 DEF Kept, t
    <2> QED
      BY <1>3, <2>1, NumIn
  <1> HIDE DEF Q, D, Z
  <1>12. /\ ms \in [Ids -> Node] /\ ms[p] = Q /\ ms[c] = D /\ ms[z] = Z
         /\ \A b \in Ids \ {p, c, z} : ms[b] = ns[b]
    BY <1>7, <1>10, <1>11
  <1> HIDE DEF ms
  <1>13. S \in [Ids -> Node] /\ \A b \in Ids : Alike(S[b], ms[b])
    BY <1>1, <1>12, LinkBehindIn
  <1> HIDE DEF S
  <1>14. Alike(S[p], Q) /\ Alike(S[c], D) /\ Alike(S[z], Z)
    BY <1>12, <1>13
  <1>15. /\ S[p].leaf = Q.leaf /\ S[p].num = Q.num
         /\ \A i : Child(S[p], i) = Child(Q, i)
         /\ S[c].leaf = D.leaf /\ S[c].num = D.num
         /\ \A i : Child(S[c], i) = Child(D, i)
         /\ S[z].leaf = Z.leaf /\ S[z].num = Z.num
         /\ \A i : Child(S[z], i) = Child(Z, i)
    BY <1>14 DEF Alike, Child
  <1>16. \A b \in Ids \ {p, c, z} : Alike(S[b], ns[b])
    BY <1>12, <1>13
  <1>17. \A i \in 0..(P.num + 1) : Child(S[p], i)
              = IF i = n + 1 THEN z
                ELSE IF i > n + 1 THEN Child(P, i - 1) ELSE Child(P, i)
    BY <1>10, <1>15
  <1>18. /\ S[p].leaf = FALSE /\ S[p].num = P.num + 1
         /\ S[c].leaf = C.leaf /\ S[c].num \in {t - 1, t}
         /\ \A i : Child(S[c], i) = Child(C, i)
         /\ S[z].leaf = C.leaf /\ S[z].num = t - 1
         /\ ~C.leaf => \A i \in 0..(t - 1) : Child(S[z], i) = Child(C, t + i)
    BY <1>7, <1>10, <1>11, <1>15
  <1> QED
    BY <1>13, <1>16, <1>17, <1>18 DEF IsSplit, S, P, C, t

(* borrow_from_prev(): the last child of child n - 1 becomes the first one *)
(* of child n.                                                             *)
IsBorrowFromPrev(S, ns, p, n, c, s) ==
  /\ S \in [Ids -> Node]
  /\ \A b \in Ids \ {p, c, s} : S[b] = ns[b]
  /\ S[p].leaf = FALSE
  /\ S[p].num = ns[p].num
  /\ \A i \in 0..ns[p].num :
       Child(S[p], i) = Child(ns[p], i)
  /\ S[s].leaf = ns[s].leaf
  /\ S[s].num = ns[s].num - 1
  /\ \A i : Child(S[s], i) = Child(ns[s], i)
  /\ S[c].leaf = ns[c].leaf
  /\ S[c].num = ns[c].num + 1
  /\ ~ns[c].leaf => \A i \in 0..(ns[c].num + 1) :
       Child(S[c], i)
         = IF i = 0 THEN Child(ns[s], ns[s].num) ELSE Child(ns[c], i - 1)

LEMMA BorrowFromPrevShape ==
  ASSUME NEW ns \in [Ids -> Node], NEW p \in Ids, NEW c \in Ids, NEW s \in Ids,
         p # c, p # s, c # s, ~ns[p].leaf,
         NEW n \in 1..ns[p].num, c = Child(ns[p], n), s = Child(ns[p], n - 1),
         ns[c].num < MinDegree, ns[s].num >= MinDegree
  PROVE  IsBorrowFromPrev(BorrowFromPrev(ns, p, n), ns, p, n, c, s)
  <1> DEFINE P == ns[p]
             C == ns[c]
             S == ns[s]
             ke == [i \in 0..C.num |->
                      IF i = 0 THEN Elem(P, n - 1) ELSE Elem(C, i - 1)]
             keys == PutElems(C, ke)
             kc == [i \in 0..(C.num + 2) |->
                      IF i = 0 THEN Child(S, S.num) ELSE Child(C, i - 1)]
             kids == IF C.leaf THEN keys ELSE PutChildren(keys, kc)
             D == [kids EXCEPT !.num = C.num + 1]
             pe == [i \in {n - 1} |-> Elem(S, S.num - 1)]
             Q == PutElems(P, pe)
             R == [S EXCEPT !.num = S.num - 1]
             F == BorrowFromPrev(ns, p, n)
  <1>1. F = [ns EXCEPT ![c] = D, ![p] = Q, ![s] = R]
    <2>1. F = [ns EXCEPT ![c] = D, ![p] = Q, ![s].num = S.num - 1]
      BY Zenon DEF BorrowFromPrev
    <2>2. [ns EXCEPT ![c] = D, ![p] = Q, ![s].num = S.num - 1]
            = [ns EXCEPT ![c] = D, ![p] = Q, ![s] = R]
      <3> HIDE DEF D, Q
      <3> QED
        OBVIOUS
    <2> QED
      BY <2>1, <2>2, Zenon
  <1>2. /\ MinDegree \in Nat /\ MinDegree >= 2 /\ 2 * MinDegree <= Order
        /\ Order \in Nat /\ Order >= 4
    BY Degree
  <1>3. /\ P \in Node /\ C \in Node /\ S \in Node
        /\ P.num \in Nat /\ P.num <= Order - 1 /\ n \in Nat /\ 1 <= n /\ n <= P.num
        /\ C.num \in Nat /\ C.num < MinDegree
        /\ S.num \in Nat /\ S.num >= MinDegree /\ S.num <= Order - 1
        /\ C.leaf \in BOOLEAN /\ P.leaf = FALSE
    BY NodeFacts
  <1>4. /\ \A i \in 0..(Order - 1) : Child(S, i) \in Nat /\ Child(C, i) \in Nat
        /\ \A i \in 0..(Order - 1) : /\ Elem(P, i).ref \in Nat
                                     /\ Elem(P, i).key \in Nat
                                     /\ Elem(C, i).ref \in Nat
                                     /\ Elem(C, i).key \in Nat
                                     /\ Elem(S, i).ref \in Nat
                                     /\ Elem(S, i).key \in Nat
    BY <1>3, NodeFacts, ElemIn
  <1> HIDE DEF P, C, S
  <1>5. keys \in Node /\ keys.leaf = C.leaf
    <2>1. ASSUME NEW i \in DOMAIN ke
          PROVE  ke[i].ref \in Nat /\ ke[i].key \in Nat
      <3>1. /\ i \in 0..C.num /\ n - 1 \in 0..(Order - 1)
            /\ i = 0 \/ i - 1 \in 0..(Order - 1)
        BY <1>2, <1>3
      <3>2. ke[i] = IF i = 0 THEN Elem(P, n - 1) ELSE Elem(C, i - 1)
        BY <3>1
      <3> HIDE DEF ke
      <3> QED
        BY <1>4, <3>1, <3>2
    <2> HIDE DEF ke
    <2> QED
      BY <1>3, <2>1, PutElemsIn
  <1>6. /\ kids \in Node /\ kids.leaf = C.leaf
        /\ ~C.leaf => \A i \in 0..(C.num + 1) : Child(kids, i)
              = IF i = 0 THEN Child(S, S.num) ELSE Child(C, i - 1)
    <2> HIDE DEF keys
    <2>1. ASSUME NEW i \in DOMAIN kc, i \in Slots
          PROVE  kc[i] \in Nat
      <3>1. /\ i \in 0..(C.num + 2) /\ S.num \in 0..(Order - 1)
            /\ i = 0 \/ i - 1 \in 0..(Order - 1)
        BY <1>2, <1>3, <2>1 DEF Slots
      <3>2. kc[i] = IF i = 0 THEN Child(S, S.num) ELSE Child(C, i - 1)
        BY <3>1
      <3> HIDE DEF kc
      <3> QED
        BY <1>4, <3>1, <3>2
    <2>2. \A i \in 0..(C.num + 1) : /\ i \in 0..(Order - 1) /\ i \in DOMAIN kc
              /\ kc[i] = IF i = 0 THEN Child(S, S.num) ELSE Child(C, i - 1)
      BY <1>2, <1>3
    <2> HIDE DEF kc
    <2> QED
      BY <1>5, <2>1, <2>2, PutChildrenIn
  <1>7. /\ D \in Node /\ D.leaf = C.leaf /\ D.num = C.num + 1
        /\ ~C.leaf => \A i \in 0..(C.num + 1) : Child(D, i)
              = IF i = 0 THEN Child(S, S.num) ELSE Child(C, i - 1)
    <2>1. C.num + 1 \in 0..(Order - 1)
      BY <1>2, <1>3
    <2> HIDE DEF kids
    <2> QED
      BY <1>6, <2>1, NumIn
  <1>8. /\ Q \in Node /\ Q.leaf = FALSE /\ Q.num = P.num
        /\ \A i \in 0..P.num : Child(Q, i) = Child(P, i)
    <2>1. \A i \in DOMAIN pe : pe[i].ref \in Nat /\ pe[i].key \in Nat
      BY <1>2, <1>3, <1>4
    <2>2. \A i \in 0..P.num : i \in 0..(Order - 1)
      BY <1>2, <1>3
    <2> HIDE DEF pe
    <2> QED
      BY <1>3, <2>1, <2>2, PutElemsIn
  <1>9. /\ R \in Node /\ R.leaf = S.leaf /\ R.num = S.num - 1
        /\ \A i : Child(R, i) = Child(S, i)
    <2>1. S.num - 1 \in 0..(Order - 1)
      BY <1>2, <1>3
    <2> QED
      BY <1>3, <2>1, NumIn
  <1> HIDE DEF D, Q, R, F
  <1>10. /\ F \in [Ids -> Node] /\ F[p] = Q /\ F[c] = D /\ F[s] = R
         /\ \A b \in Ids \ {p, c, s} : F[b] = ns[b]
    BY <1>1, <1>7, <1>8, <1>9
  <1> QED
    BY <1>7, <1>8, <1>9, <1>10 DEF IsBorrowFromPrev, F, P, C, S

(* borrow_from_next(): the first child of child n + 1 becomes the last one *)
(* of child n.                                                             *)
IsBorrowFromNext(S, ns, p, n, c, s) ==
  /\ S \in [Ids -> Node]
  /\ \A b \in Ids \ {p, c, s} : S[b] = ns[b]
  /\ S[p].leaf = FALSE
  /\ S[p].num = ns[p].num
  /\ \A i \in 0..ns[p].num :
       Child(S[p], i) = Child(ns[p], i)
  /\ S[s].leaf = ns[s].leaf
  /\ S[s].num = ns[s].num - 1
  /\ ~ns[s].leaf => \A i \in 0..(ns[s].num - 1) :
       Child(S[s], i) = Child(ns[s], i + 1)
  /\ S[c].leaf = ns[c].leaf
  /\ S[c].num = ns[c].num + 1
  /\ ~ns[c].leaf => \A i \in 0..(ns[c].num + 1) :
       Child(S[c], i)
         = IF i = ns[c].num + 1 THEN Child(ns[s], 0) ELSE Child(ns[c], i)

LEMMA BorrowFromNextShape ==
  ASSUME NEW ns \in [Ids -> Node], NEW p \in Ids, NEW c \in Ids, NEW s \in Ids,
         p # c, p # s, c # s, ~ns[p].leaf,
         NEW n \in 0..(ns[p].num - 1),
         c = Child(ns[p], n), s = Child(ns[p], n + 1),
         ns[c].num < MinDegree, ns[s].num >= MinDegree
  PROVE  IsBorrowFromNext(BorrowFromNext(ns, p, n), ns, p, n, c, s)
  <1> DEFINE P == ns[p]
             C == ns[c]
             S == ns[s]
             ke == [i \in {C.num} |-> Elem(P, n)]
             keys == PutElems(C, ke)
             kc == [i \in {C.num + 1} |-> Child(S, 0)]
             kids == IF C.leaf THEN keys ELSE PutChildren(keys, kc)
             D == [kids EXCEPT !.num = C.num + 1]
             pe == [i \in {n} |-> Elem(S, 0)]
             Q == PutElems(P, pe)
             de == [i \in 0..(S.num - 2) |-> Elem(S, i + 1)]
             down == PutElems(S, de)
             dc == [i \in 0..(S.num - 1) |-> Child(S, i + 1)]
             rest == IF S.leaf THEN down ELSE PutChildren(down, dc)
             R == [rest EXCEPT !.num = S.num - 1]
             F == BorrowFromNext(ns, p, n)
  <1>1. F = [ns EXCEPT ![c] = D, ![p] = Q, ![s] = R]
    BY Zenon DEF BorrowFromNext
  <1>2. /\ MinDegree \in Nat /\ MinDegree >= 2 /\ 2 * MinDegree <= Order
        /\ Order \in Nat /\ Order >= 4
    BY Degree
  <1>3. /\ P \in Node /\ C \in Node /\ S \in Node
        /\ P.num \in Nat /\ P.num <= Order - 1 /\ n \in Nat /\ n < P.num
        /\ C.num \in Nat /\ C.num < MinDegree
        /\ S.num \in Nat /\ S.num >= MinDegree /\ S.num <= Order - 1
        /\ C.leaf \in BOOLEAN /\ S.leaf \in BOOLEAN /\ P.leaf = FALSE
    BY NodeFacts
  <1>4. /\ \A i \in 0..(Order - 1) : Child(S, i) \in Nat /\ Child(C, i) \in Nat
        /\ \A i \in 0..(Order - 1) : /\ Elem(P, i).ref \in Nat
                                     /\ Elem(P, i).key \in Nat
                                     /\ Elem(S, i).ref \in Nat
                                     /\ Elem(S, i).key \in Nat
    BY <1>3, NodeFacts, ElemIn
  <1> HIDE DEF P, C, S
  <1>5. /\ keys \in Node /\ keys.leaf = C.leaf
        /\ ~C.leaf => \A i \in 0..(Order - 1) : Child(keys, i) = Child(C, i)
    <2>1. \A i \in DOMAIN ke : ke[i].ref \in Nat /\ ke[i].key \in Nat
      BY <1>2, <1>3, <1>4
    <2> HIDE DEF ke
    <2> QED
      BY <1>3, <2>1, PutElemsIn
  <1>6. /\ kids \in Node /\ kids.leaf = C.leaf
        /\ ~C.leaf => \A i \in 0..(C.num + 1) : Child(kids, i)
              = IF i = C.num + 1 THEN Child(S, 0) ELSE Child(C, i)
    <2> HIDE DEF keys
    <2>1. \A i \in DOMAIN kc : i \in Slots => kc[i] \in Nat
      BY <1>2, <1>3, <1>4
    <2>2. /\ DOMAIN kc = {C.num + 1} /\ kc[C.num + 1] = Child(S, 0)
          /\ \A i \in 0..(C.num + 1) : i \in 0..(Order - 1)
      BY <1>2, <1>3
    <2> HIDE DEF kc
    <2> QED
      BY <1>5, <2>1, <2>2, PutChildrenIn
  <1>7. /\ D \in Node /\ D.leaf = C.leaf /\ D.num = C.num + 1
        /\ ~C.leaf => \A i \in 0..(C.num + 1) : Child(D, i)
              = IF i = C.num + 1 THEN Child(S, 0) ELSE Child(C, i)
    <2>1. C.num + 1 \in 0..(Order - 1)
      BY <1>2, <1>3
    <2> HIDE DEF kids
    <2> QED
      BY <1>6, <2>1, NumIn
  <1>8. /\ Q \in Node /\ Q.leaf = FALSE /\ Q.num = P.num
        /\ \A i \in 0..P.num : Child(Q, i) = Child(P, i)
    <2>1. \A i \in DOMAIN pe : pe[i].ref \in Nat /\ pe[i].key \in Nat
      BY <1>2, <1>3, <1>4
    <2>2. \A i \in 0..P.num : i \in 0..(Order - 1)
      BY <1>2, <1>3
    <2> HIDE DEF pe
    <2> QED
      BY <1>3, <2>1, <2>2, PutElemsIn
  <1>9. /\ R \in Node /\ R.leaf = S.leaf /\ R.num = S.num - 1
        /\ ~S.leaf => \A i \in 0..(S.num - 1) : Child(R, i) = Child(S, i + 1)
    <2>1. down \in Node /\ down.leaf = S.leaf
      <3>1. ASSUME NEW i \in DOMAIN de
            PROVE  de[i].ref \in Nat /\ de[i].key \in Nat
        <4>1. i \in 0..(S.num - 2) /\ i + 1 \in 0..(Order - 1)
          BY <1>2, <1>3
        <4>2. de[i] = Elem(S, i + 1)
          BY <4>1
        <4> HIDE DEF de
        <4> QED
          BY <1>4, <4>1, <4>2
      <3> HIDE DEF de
      <3> QED
        BY <1>3, <3>1, PutElemsIn
    <2>2. /\ rest \in Node /\ rest.leaf = S.leaf
          /\ ~S.leaf => \A i \in 0..(S.num - 1) : Child(rest, i) = Child(S, i + 1)
      <3> HIDE DEF down
      <3>1. \A i \in DOMAIN dc : i \in Slots => dc[i] \in Nat
        BY <1>2, <1>3, <1>4
      <3>2. \A i \in 0..(S.num - 1) : /\ i \in 0..(Order - 1) /\ i \in DOMAIN dc
                                      /\ dc[i] = Child(S, i + 1)
        BY <1>2, <1>3
      <3> HIDE DEF dc
      <3> QED
        BY <2>1, <3>1, <3>2, PutChildrenIn
    <2>3. S.num - 1 \in 0..(Order - 1)
      BY <1>2, <1>3
    <2> HIDE DEF rest
    <2> QED
      BY <2>2, <2>3, NumIn
  <1> HIDE DEF D, Q, R, F
  <1>10. /\ F \in [Ids -> Node] /\ F[p] = Q /\ F[c] = D /\ F[s] = R
         /\ \A b \in Ids \ {p, c, s} : F[b] = ns[b]
    BY <1>1, <1>7, <1>8, <1>9
  <1> QED
    BY <1>7, <1>8, <1>9, <1>10 DEF IsBorrowFromNext, F, P, C, S

(* merge(): child n of p takes the children of child n + 1, which may be   *)
(* the same block; p keeps the offsets behind them, the last one twice.    *)
IsMerge(S, ns, p, n, c, s) ==
  /\ S \in [Ids -> Node]
  /\ \A b \in Ids \ {p, c} : S[b] = ns[b]
  /\ S[p].leaf = FALSE
  /\ S[p].num = ns[p].num - 1
  /\ \A i \in 0..(ns[p].num - 1) : Child(S[p], i)
       = IF i \in (n + 1)..(ns[p].num - 2) THEN Child(ns[p], i + 1)
         ELSE Child(ns[p], i)
  /\ S[c].leaf = ns[c].leaf
  /\ S[c].num = 2 * MinDegree - 1
  /\ ~ns[c].leaf => \A i \in 0..(2 * MinDegree - 1) :
       Child(S[c], i)
         = IF i >= MinDegree THEN Child(ns[s], i - MinDegree)
           ELSE Child(ns[c], i)

LEMMA MergeShape ==
  ASSUME NEW ns \in [Ids -> Node], NEW p \in Ids, NEW c \in Ids, NEW s \in Ids,
         p # c, p # s, ~ns[p].leaf,
         NEW n \in 0..(ns[p].num - 1),
         c = Child(ns[p], n), s = Child(ns[p], n + 1),
         ns[c].num = MinDegree - 1, ns[s].num = MinDegree - 1
  PROVE  IsMerge(Merge(ns, p, n), ns, p, n, c, s)
  <1> DEFINE P == ns[p]
             C == ns[c]
             S == ns[s]
             t == MinDegree
             le == [i \in n..(P.num - 2) |-> Elem(P, i + 1)]
             left == PutElems(P, le)
             ke == [i \in (t - 1)..(t - 1 + S.num) |->
                      IF i = t - 1 THEN Elem(P, n) ELSE Elem(S, i - t)]
             keys == PutElems(C, ke)
             kc == [i \in t..(t + S.num) |-> Child(S, i - t)]
             kids == IF C.leaf THEN keys ELSE PutChildren(keys, kc)
             D0 == [kids EXCEPT !.num = C.num + S.num + 1]
             D == [kids EXCEPT !.num = C.num + S.num + 1, !.next = S.next]
             lc == [i \in (n + 1)..(P.num - 2) |-> Child(P, i + 1)]
             side == PutChildren(left, lc)
             Q == [side EXCEPT !.num = P.num - 1]
             F == Merge(ns, p, n)
  <1>1. F = [ns EXCEPT ![p] = Q, ![c] = D]
    BY Zenon DEF Merge
  <1>2. /\ t \in Nat /\ t >= 2 /\ 2 * t <= Order
        /\ Order \in Nat /\ Order >= 4
    BY Degree
  <1>3. /\ P \in Node /\ C \in Node /\ S \in Node
        /\ P.num \in Nat /\ P.num <= Order - 1 /\ n \in Nat /\ n < P.num
        /\ C.num = t - 1 /\ S.num = t - 1
        /\ C.leaf \in BOOLEAN /\ P.leaf = FALSE
        /\ S.next \in Ids \union {None}
    BY NodeFacts
  <1>4. /\ \A i \in 0..(Order - 1) : /\ Child(S, i) \in Nat /\ Child(C, i) \in Nat
                                     /\ Child(P, i) \in Nat
        /\ \A i \in 0..(Order - 1) : /\ Elem(P, i).ref \in Nat
                                     /\ Elem(P, i).key \in Nat
                                     /\ Elem(S, i).ref \in Nat
                                     /\ Elem(S, i).key \in Nat
    BY <1>3, NodeFacts, ElemIn
  <1> HIDE DEF P, C, S, t
  <1>5. /\ keys \in Node /\ keys.leaf = C.leaf
        /\ ~C.leaf => \A i \in 0..(Order - 1) : Child(keys, i) = Child(C, i)
    <2>1. \A i \in DOMAIN ke : ke[i].ref \in Nat /\ ke[i].key \in Nat
      BY <1>2, <1>3, <1>4
    <2> HIDE DEF ke
    <2> QED
      BY <1>3, <2>1, PutElemsIn
  <1>6. /\ kids \in Node /\ kids.leaf = C.leaf
        /\ ~C.leaf => \A i \in 0..(2 * t - 1) : Child(kids, i)
              = IF i >= t THEN Child(S, i - t) ELSE Child(C, i)
    <2> HIDE DEF keys
    <2>1. \A i \in DOMAIN kc : i \in Slots => kc[i] \in Nat
      BY <1>2, <1>3, <1>4
    <2>2. \A i \in 0..(2 * t - 1) :
            /\ i \in 0..(Order - 1) /\ (i \in DOMAIN kc <=> i >= t)
            /\ i >= t => kc[i] = Child(S, i - t)
      BY <1>2, <1>3
    <2> HIDE DEF kc
    <2> QED
      BY <1>5, <2>1, <2>2, PutChildrenIn
  <1>7. /\ D0 \in Node /\ D0.leaf = C.leaf /\ D0.num = 2 * t - 1
        /\ ~C.leaf => \A i \in 0..(2 * t - 1) : Child(D0, i)
              = IF i >= t THEN Child(S, i - t) ELSE Child(C, i)
    <2>1. C.num + S.num + 1 = 2 * t - 1 /\ 2 * t - 1 \in 0..(Order - 1)
      BY <1>2, <1>3
    <2> HIDE DEF kids
    <2> QED
      BY <1>6, <2>1, NumIn
  <1>8. D \in Node /\ Alike(D, D0)
    <2> HIDE DEF kids
    <2>1. D = [D0 EXCEPT !.next = S.next]
      BY <1>6 DEF Node
    <2> HIDE DEF D0, D
    <2> QED
      BY <1>3, <1>7, <2>1 DEF Node, Alike
  <1>9. /\ D.leaf = C.leaf /\ D.num = 2 * t - 1
        /\ ~C.leaf => \A i \in 0..(2 * t - 1) : Child(D, i)
              = IF i >= t THEN Child(S, i - t) ELSE Child(C, i)
    <2> HIDE DEF D0, D
    <2> QED
      BY <1>7, <1>8 DEF Alike, Child
  <1>10. /\ left \in Node /\ left.leaf = FALSE /\ left.num = P.num
         /\ \A i \in 0..(Order - 1) : Child(left, i) = Child(P, i)
    <2>1. ASSUME NEW i \in DOMAIN le
          PROVE  le[i].ref \in Nat /\ le[i].key \in Nat
      <3>1. i \in n..(P.num - 2) /\ i + 1 \in 0..(Order - 1)
        BY <1>2, <1>3
      <3>2. le[i] = Elem(P, i + 1)
        BY <3>1
      <3> HIDE DEF le
      <3> QED
        BY <1>4, <3>1, <3>2
    <2> HIDE DEF le
    <2> QED
      BY <1>3, <2>1, PutElemsIn
  <1>11. /\ side \in Node /\ side.leaf = FALSE
         /\ \A i \in 0..(P.num - 1) : Child(side, i)
              = IF i \in (n + 1)..(P.num - 2) THEN Child(P, i + 1) ELSE Child(P, i)
    <2> HIDE DEF left
    <2>1. ASSUME NEW i \in DOMAIN lc
          PROVE  lc[i] \in Nat
      <3>1. i \in (n + 1)..(P.num - 2) /\ i + 1 \in 0..(Order - 1)
        BY <1>2, <1>3
      <3>2. lc[i] = Child(P, i + 1)
        BY <3>1
      <3> HIDE DEF lc
      <3> QED
        BY <1>4, <3>1, <3>2
    <2>2. /\ DOMAIN lc = (n + 1)..(P.num - 2)
          /\ \A i \in (n + 1)..(P.num - 2) : lc[i] = Child(P, i + 1)
          /\ \A i \in 0..(P.num - 1) : i \in 0..(Order - 1)
      BY <1>2, <1>3
    <2> HIDE DEF lc
    <2> QED
      BY <1>10, <2>1, <2>2, PutChildrenIn
  <1>12. /\ Q \in Node /\ Q.leaf = FALSE /\ Q.num = P.num - 1
         /\ \A i \in 0..(P.num - 1) : Child(Q, i)
              = IF i \in (n + 1)..(P.num - 2) THEN Child(P, i + 1) ELSE Child(P, i)
    <2>1. P.num - 1 \in 0..(Order - 1)
      BY <1>2, <1>3
    <2> HIDE DEF side
    <2> QED
      BY <1>11, <2>1, NumIn
  <1> HIDE DEF D, Q, F
  <1>13. /\ F \in [Ids -> Node] /\ F[p] = Q /\ F[c] = D
         /\ \A b \in Ids \ {p, c} : F[b] = ns[b]
    BY <1>1, <1>8, <1>12
  <1> QED
    BY <1>9, <1>12, <1>13 DEF IsMerge, F, P, C, S, t

-----------------------------------------------------------------------------
(* The shape of the tree.                                                  *)

(* x is a node of height l, and its children are in K and one lower.       *)
Fit(x, l, K, lev) ==
  /\ x.leaf <=> l = 0
  /\ ~x.leaf => \A i \in 0..x.num :
       Child(x, i) \in K /\ l = lev[Child(x, i)] + 1

(* Every block has a height, lev: leaves have none, and the children of a  *)
(* block are one lower than it is.  live is a part of the blocks that has  *)
(* the root, the children of its members, and no block higher than the     *)
(* root; all but the root have MinDegree - 1 keys at least.                *)
Shape(ns, u, tp, lev, live) ==
  /\ lev \in [Ids -> Nat]
  /\ live \subseteq 1..u
  /\ \A b \in 1..u : Fit(ns[b], lev[b], 1..u, lev)
  /\ \A b \in live : Fit(ns[b], lev[b], live, lev)
  /\ IF tp = None THEN live = {} ELSE tp \in live
  /\ \A b \in live \ {tp} : lev[b] < lev[tp] /\ ns[b].num >= MinDegree - 1

(* Where the operation under way is: an insert never at a full node, a     *)
(* removal, below the root, never at one that it could leave with less     *)
(* than MinDegree - 1 keys.  An inner root has a key, but while a removal  *)
(* that has merged its last two children is below it.                      *)
Place(ns, rt, tp, at, c, live) ==
  /\ at # "insert" => rt = tp
  /\ at = "insert" => c \in live /\ ~Full(ns[c])
  /\ at = "remove" => c \in live /\ (c # tp => ns[c].num >= MinDegree)
  /\ (tp # None /\ ~ns[tp].leaf /\ at \in {"idle", "insert", "remove"})
       => ns[tp].num >= 1 \/ (at = "remove" /\ c # tp)

IInv ==
  /\ TypeOK
  /\ \E lev \in [Ids -> Nat], live \in SUBSET Ids :
       /\ Shape(nodes, used, top, lev, live)
       /\ Place(nodes, root, top, pc, cur, live)

LEMMA FitAlike ==
  ASSUME NEW x, NEW y, NEW l, NEW K, NEW lev, Alike(y, x), Fit(x, l, K, lev)
  PROVE  Fit(y, l, K, lev)
  BY DEF Alike, Fit, Child

LEMMA FitMore ==
  ASSUME NEW x, NEW l, NEW K, NEW lev, Fit(x, l, K, lev),
         NEW K2, NEW lev2, K \subseteq K2, \A b \in K : lev2[b] = lev[b]
  PROVE  Fit(x, l, K2, lev2)
  BY DEF Fit

(* A node with some of the children it had, or of a node of its height.    *)
LEMMA FitSome ==
  ASSUME NEW x, NEW y, NEW l, NEW K, NEW lev, Fit(x, l, K, lev),
         y.leaf = x.leaf,
         ~x.leaf => \A i \in 0..y.num :
           Child(y, i) \in K /\ l = lev[Child(y, i)] + 1
  PROVE  Fit(y, l, K, lev)
  BY DEF Fit

(* What the shape says of a block of the tree and one of its children.     *)
LEMMA KidFacts ==
  ASSUME NEW ns \in [Ids -> Node], NEW u \in 0..MaxNodes, NEW tp, NEW lev,
         NEW live, Shape(ns, u, tp, lev, live), tp # None,
         NEW p \in live, ~ns[p].leaf, NEW n \in 0..ns[p].num
  PROVE  /\ p \in 1..u /\ p \in Ids
         /\ Child(ns[p], n) \in live /\ Child(ns[p], n) \in 1..u
         /\ Child(ns[p], n) \in Ids
         /\ lev[p] \in Nat /\ lev[Child(ns[p], n)] \in Nat
         /\ lev[p] = lev[Child(ns[p], n)] + 1
         /\ Child(ns[p], n) # p /\ Child(ns[p], n) # tp
         /\ ns[Child(ns[p], n)].num >= MinDegree - 1
         /\ ns[Child(ns[p], n)].leaf <=> lev[Child(ns[p], n)] = 0
  <1>1. p \in 1..u /\ 1..u \subseteq Ids /\ live \subseteq 1..u /\ lev \in [Ids -> Nat]
    BY BTreeAssumption DEF Shape, Ids
  <1>2. p \in Ids /\ ns[p] \in Node /\ Fit(ns[p], lev[p], live, lev)
    BY <1>1 DEF Shape
  <1> DEFINE c == Child(ns[p], n)
  <1>3. c \in live /\ lev[p] = lev[c] + 1
    BY <1>2 DEF Fit
  <1> HIDE DEF c
  <1>4. c \in 1..u /\ c \in Ids /\ lev[p] \in Nat /\ lev[c] \in Nat
    BY <1>1, <1>2, <1>3
  <1>5. p = tp \/ lev[p] < lev[tp]
    BY DEF Shape
  <1>6. tp \in Ids /\ lev[tp] \in Nat
    BY <1>1 DEF Shape
  <1>7. c # p /\ c # tp
    BY <1>3, <1>4, <1>5, <1>6
  <1>8. ns[c].num >= MinDegree - 1
    BY <1>3, <1>7 DEF Shape
  <1>9. ns[c].leaf <=> lev[c] = 0
    BY <1>3 DEF Shape, Fit
  <1> QED
    BY <1>1, <1>2, <1>3, <1>4, <1>7, <1>8, <1>9 DEF c

(* What an insert needs after a split: the shape, with the new block z as  *)
(* high as its sibling c, and two halves that are not full.                *)
Halved(ms, ns, tp, lev, live, p, n, c, z) ==
  /\ ms \in [Ids -> Node]
  /\ Shape(ms, z, tp, [lev EXCEPT ![z] = lev[c]], live \union {z})
  /\ \A i \in {n, n + 1} :
       Child(ms[p], i) \in {c, z} /\ ~Full(ms[Child(ms[p], i)])
  /\ c \in live
  /\ ~ms[p].leaf /\ ms[p].num = ns[p].num + 1
  /\ tp # p => ms[tp].num = ns[tp].num /\ ms[tp].leaf = ns[tp].leaf

LEMMA SplitKeeps ==
  ASSUME NEW ns \in [Ids -> Node], NEW u \in 0..MaxNodes, u + 1 <= MaxNodes,
         NEW tp, NEW lev, NEW live, Shape(ns, u, tp, lev, live), tp # None,
         NEW p \in live, ~ns[p].leaf, ns[p].num < Order - 1,
         NEW n \in 0..ns[p].num, NEW c, c = Child(ns[p], n),
         ns[c].num = Order - 1
  PROVE  Halved(Split(ns, p, n, c, u + 1), ns, tp, lev, live, p, n, c, u + 1)
  <1> DEFINE z == u + 1
             S == Split(ns, p, n, c, z)
             lev2 == [lev EXCEPT ![z] = lev[c]]
             live2 == live \union {z}
  <1>1. /\ p \in 1..u /\ p \in Ids /\ c \in live /\ c \in 1..u /\ c \in Ids
        /\ lev[p] \in Nat /\ lev[c] \in Nat /\ lev[p] = lev[c] + 1
        /\ c # p /\ c # tp /\ (ns[c].leaf <=> lev[c] = 0)
    BY KidFacts
  <1>2. z \in Ids /\ z \notin 1..u /\ u \in Nat /\ MaxNodes \in Nat /\ z \in Nat
    BY BTreeAssumption DEF Ids
  <1>3. 1..u \subseteq Ids /\ 1..z = 1..u \union {z} /\ 1..z \subseteq Ids
    BY <1>2 DEF Ids
  <1>4. /\ lev \in [Ids -> Nat] /\ live \subseteq 1..u /\ tp \in live
        /\ \A b \in 1..u : Fit(ns[b], lev[b], 1..u, lev)
        /\ \A b \in live : Fit(ns[b], lev[b], live, lev)
        /\ \A b \in live \ {tp} : lev[b] < lev[tp] /\ ns[b].num >= MinDegree - 1
    BY DEF Shape
  <1>5. p # z /\ c # z
    BY <1>1, <1>2
  <1> HIDE DEF z
  <1>6. /\ S \in [Ids -> Node]
        /\ \A b \in Ids \ {p, c, z} : Alike(S[b], ns[b])
        /\ S[p].leaf = FALSE
        /\ S[p].num = ns[p].num + 1
        /\ \A i \in 0..(ns[p].num + 1) : Child(S[p], i)
              = IF i = n + 1 THEN z
                ELSE IF i > n + 1 THEN Child(ns[p], i - 1) ELSE Child(ns[p], i)
        /\ S[c].leaf = ns[c].leaf
        /\ S[c].num \in {MinDegree - 1, MinDegree}
        /\ \A i : Child(S[c], i) = Child(ns[c], i)
        /\ S[z].leaf = ns[c].leaf
        /\ S[z].num = MinDegree - 1
        /\ ~ns[c].leaf => \A i \in 0..(MinDegree - 1) :
              Child(S[z], i) = Child(ns[c], MinDegree + i)
    <2>1. IsSplit(S, ns, p, n, c, z)
      BY <1>1, <1>2, <1>5, SplitShape
    <2> QED
      BY <2>1 DEF IsSplit
  <1> HIDE DEF S
  <1>7. lev2 \in [Ids -> Nat] /\ lev2[z] = lev[c] /\ \A b \in 1..u : lev2[b] = lev[b]
    BY <1>1, <1>2, <1>3, <1>4
  <1> HIDE DEF lev2
  <1>8. /\ MinDegree \in Nat /\ MinDegree >= 2 /\ 2 * MinDegree <= Order
        /\ Order \in Nat /\ Order >= 4 /\ ns[p].num \in Nat /\ n \in Nat
        /\ n <= ns[p].num
    BY <1>1, Degree, NodeFacts
  <1>9. ASSUME NEW K, K \subseteq 1..u, p \in K, c \in K,
               \A b \in K : Fit(ns[b], lev[b], K, lev)
        PROVE  \A b \in K \union {z} : Fit(S[b], lev2[b], K \union {z}, lev2)
    <2> DEFINE K2 == K \union {z}
    <2>1. \A b \in K : Fit(ns[b], lev2[b], K2, lev2)
      <3> SUFFICES ASSUME NEW b \in K
                   PROVE  Fit(ns[b], lev2[b], K2, lev2)
        OBVIOUS
      <3>1. lev2[b] = lev[b] /\ \A d \in K : lev2[d] = lev[d]
        BY <1>7, <1>9
      <3>2. Fit(ns[b], lev[b], K, lev)
        BY <1>9
      <3> QED
        BY <3>1, <3>2, FitMore
    <2>2. lev2[p] = lev2[z] + 1 /\ z \in K2 /\ lev2[z] = lev2[c]
      BY <1>1, <1>7
    <2> HIDE DEF K2
    <2>3. Fit(S[p], lev2[p], K2, lev2)
      <3>1. Fit(ns[p], lev2[p], K2, lev2) /\ ns[p].leaf = FALSE
        BY <1>1, <1>9, <2>1, NodeFacts
      <3>2. ASSUME NEW i \in 0..S[p].num
            PROVE  Child(S[p], i) \in K2 /\ lev2[p] = lev2[Child(S[p], i)] + 1
        <4>1. i \in 0..(ns[p].num + 1)
          BY <1>6
        <4>2. CASE i = n + 1
          BY <1>6, <2>2, <4>1, <4>2
        <4>3. CASE i > n + 1
          <5>1. Child(S[p], i) = Child(ns[p], i - 1) /\ i - 1 \in 0..ns[p].num
            BY <1>6, <1>8, <4>1, <4>3
          <5> QED
            BY <3>1, <5>1 DEF Fit
        <4>4. CASE i < n + 1
          <5>1. Child(S[p], i) = Child(ns[p], i) /\ i \in 0..ns[p].num
            BY <1>6, <1>8, <4>1, <4>4
          <5> QED
            BY <3>1, <5>1 DEF Fit
        <4> QED
          BY <1>8, <4>1, <4>2, <4>3, <4>4
      <3> QED
        BY <1>6, <3>1, <3>2 DEF Fit
    <2>4. Fit(ns[c], lev2[c], K2, lev2)
      BY <1>9, <2>1
    <2>5. Fit(S[c], lev2[c], K2, lev2)
      <3>1. \A i \in 0..S[c].num : i \in 0..ns[c].num
        BY <1>6, <1>8
      <3> QED
        BY <1>6, <2>4, <3>1 DEF Fit
    <2>6. Fit(S[z], lev2[z], K2, lev2)
      <3>1. \A i \in 0..S[z].num : i \in 0..(MinDegree - 1)
                                   /\ MinDegree + i \in 0..ns[c].num
        BY <1>6, <1>8
      <3> QED
        BY <1>6, <2>2, <2>4, <3>1 DEF Fit
    <2>7. ASSUME NEW b \in K2
          PROVE  Fit(S[b], lev2[b], K2, lev2)
      <3>1. CASE b \in {p, c, z}
        BY <2>3, <2>5, <2>6, <3>1
      <3>2. CASE b \notin {p, c, z}
        <4>1. b \in K /\ b \in Ids
          BY <1>3, <1>9, <3>2 DEF K2
        <4>2. Alike(S[b], ns[b]) /\ Fit(ns[b], lev2[b], K2, lev2)
          BY <1>6, <2>1, <3>2, <4>1
        <4> QED
          BY <4>2, FitAlike
      <3> QED
        BY <3>1, <3>2
    <2> QED
      BY <2>7 DEF K2
  <1>10. \A b \in 1..z : Fit(S[b], lev2[b], 1..z, lev2)
    BY <1>1, <1>3, <1>4, <1>9
  <1>11. \A b \in live2 : Fit(S[b], lev2[b], live2, lev2)
    BY <1>1, <1>4, <1>9
  <1>12. ASSUME NEW b \in live2 \ {tp}
         PROVE  lev2[b] < lev2[tp] /\ S[b].num >= MinDegree - 1
    <2>1. lev2[tp] = lev[tp] /\ lev[tp] \in Nat /\ lev[c] < lev[tp]
      BY <1>1, <1>3, <1>4, <1>7
    <2>2. CASE b = z
      BY <1>6, <1>7, <1>8, <2>1, <2>2
    <2>3. CASE b \in live
      <3>1. lev2[b] = lev[b] /\ lev[b] < lev[tp] /\ ns[b].num >= MinDegree - 1
        BY <1>4, <1>7, <2>3, <1>12
      <3>2. b \in Ids /\ b # z
        BY <1>2, <1>3, <1>4, <2>3
      <3>3. S[b].num >= MinDegree - 1
        <4>1. CASE b = p
          BY <1>6, <1>8, <3>1, <4>1
        <4>2. CASE b = c
          BY <1>6, <1>8, <4>2
        <4>3. CASE b \notin {p, c}
          BY <1>6, <3>1, <3>2, <4>3 DEF Alike
        <4> QED
          BY <4>1, <4>2, <4>3
      <3> QED
        BY <2>1, <3>1, <3>3
    <2> QED
      BY <2>2, <2>3
  <1>13. live2 \subseteq 1..z /\ tp \in live2
    BY <1>3, <1>4
  <1>14. Shape(S, z, tp, lev2, live2)
    BY <1>7, <1>10, <1>11, <1>12, <1>13 DEF Shape
  <1>15. ASSUME NEW i \in {n, n + 1}
         PROVE  Child(S[p], i) \in {c, z} /\ ~Full(S[Child(S[p], i)])
    <2>1. i \in 0..(ns[p].num + 1) /\ ~ (i > n + 1)
      BY <1>8
    <2>2. Child(S[p], i) = z \/ Child(S[p], i) = c
      BY <1>6, <1>8, <2>1
    <2>3. ~Full(S[z]) /\ ~Full(S[c])
      BY <1>6, <1>8 DEF Full
    <2> QED
      BY <2>2, <2>3
  <1>16. tp # p => S[tp].num = ns[tp].num /\ S[tp].leaf = ns[tp].leaf
    <2>1. tp \in Ids /\ tp # z /\ tp # c
      BY <1>1, <1>2, <1>3, <1>4
    <2> QED
      BY <1>6, <2>1 DEF Alike
  <1>17. c \in live /\ ~S[p].leaf /\ S[p].num = ns[p].num + 1
    BY <1>1, <1>6
  <1> QED
    BY <1>6, <1>14, <1>15, <1>16, <1>17 DEF Halved, S, lev2, z

(* Blocks of the tree that change and still fit keep the shape.            *)
LEMMA ShapeKept ==
  ASSUME NEW ns, NEW u, NEW tp, NEW lev, NEW live, Shape(ns, u, tp, lev, live),
         tp # None, NEW ms,
         \A b \in (1..u) \ live : ms[b] = ns[b],
         \A b \in live : Fit(ms[b], lev[b], live, lev),
         \A b \in live \ {tp} : ms[b].num >= MinDegree - 1
  PROVE  Shape(ms, u, tp, lev, live)
  <1>1. /\ lev \in [Ids -> Nat] /\ live \subseteq 1..u /\ tp \in live
        /\ \A b \in 1..u : Fit(ns[b], lev[b], 1..u, lev)
        /\ \A b \in live \ {tp} : lev[b] < lev[tp]
    BY DEF Shape
  <1>2. ASSUME NEW b \in 1..u
        PROVE  Fit(ms[b], lev[b], 1..u, lev)
    <2>1. CASE b \in live
      <3>1. Fit(ms[b], lev[b], live, lev)
        BY <2>1
      <3> QED
        BY <1>1, <3>1, FitMore
    <2>2. CASE b \notin live
      BY <1>1, <2>2
    <2> QED
      BY <2>1, <2>2
  <1> QED
    BY <1>1, <1>2 DEF Shape

(* One block that keeps its kind, its number of keys and its children; a   *)
(* leaf may change its number of keys.                                     *)
LEMMA OneKept ==
  ASSUME NEW ns \in [Ids -> Node], NEW u \in 0..MaxNodes, NEW tp, NEW lev,
         NEW live, Shape(ns, u, tp, lev, live), tp # None,
         NEW p \in live, NEW x \in Node, x.leaf = ns[p].leaf,
         ~ns[p].leaf => \A i \in 0..x.num : i \in 0..ns[p].num
                                            /\ Child(x, i) = Child(ns[p], i),
         p # tp => x.num >= MinDegree - 1
  PROVE  /\ [ns EXCEPT ![p] = x] \in [Ids -> Node]
         /\ Shape([ns EXCEPT ![p] = x], u, tp, lev, live)
  <1>1. 1..u \subseteq Ids /\ live \subseteq 1..u /\ p \in Ids
    BY BTreeAssumption DEF Shape, Ids
  <1> DEFINE ms == [ns EXCEPT ![p] = x]
  <1>2. /\ ms \in [Ids -> Node] /\ ms[p] = x
        /\ \A b \in Ids \ {p} : ms[b] = ns[b]
    BY <1>1
  <1> HIDE DEF ms
  <1>3. /\ \A b \in live : Fit(ns[b], lev[b], live, lev)
        /\ \A b \in live \ {tp} : ns[b].num >= MinDegree - 1
    BY DEF Shape
  <1>4. Fit(x, lev[p], live, lev)
    <2>1. Fit(ns[p], lev[p], live, lev)
      BY <1>3
    <2> QED
      BY <2>1 DEF Fit
  <1>5. \A b \in (1..u) \ live : ms[b] = ns[b]
    BY <1>1, <1>2
  <1>6. \A b \in live : Fit(ms[b], lev[b], live, lev)
    BY <1>1, <1>2, <1>3, <1>4
  <1>7. \A b \in live \ {tp} : ms[b].num >= MinDegree - 1
    BY <1>1, <1>2, <1>3
  <1>8. Shape(ms, u, tp, lev, live)
    BY <1>5, <1>6, <1>7, ShapeKept
  <1> QED
    BY <1>2, <1>8 DEF ms

(* A new root above the old one.                                           *)
LEMMA GrowKeeps ==
  ASSUME NEW ns \in [Ids -> Node], NEW u \in 0..MaxNodes, u + 1 <= MaxNodes,
         NEW tp, NEW lev, NEW live, Shape(ns, u, tp, lev, live), tp # None,
         ns[tp].num >= MinDegree - 1,
         NEW x \in Node, ~x.leaf, x.num = 0, Child(x, 0) = tp
  PROVE  /\ [ns EXCEPT ![u + 1] = x] \in [Ids -> Node]
         /\ Shape([ns EXCEPT ![u + 1] = x], u + 1, u + 1,
                  [lev EXCEPT ![u + 1] = lev[tp] + 1], live \union {u + 1})
  <1> DEFINE a == u + 1
             ms == [ns EXCEPT ![a] = x]
             lev2 == [lev EXCEPT ![a] = lev[tp] + 1]
             live2 == live \union {a}
  <1>1. a \in Ids /\ a \notin 1..u /\ u \in Nat /\ MaxNodes \in Nat /\ a # None
    BY BTreeAssumption DEF Ids, None
  <1>2. 1..u \subseteq Ids /\ 1..a = 1..u \union {a}
    BY <1>1 DEF Ids
  <1>3. /\ lev \in [Ids -> Nat] /\ live \subseteq 1..u /\ tp \in live
        /\ \A b \in 1..u : Fit(ns[b], lev[b], 1..u, lev)
        /\ \A b \in live : Fit(ns[b], lev[b], live, lev)
        /\ \A b \in live \ {tp} : lev[b] < lev[tp] /\ ns[b].num >= MinDegree - 1
    BY DEF Shape
  <1> HIDE DEF a
  <1>4. /\ ms \in [Ids -> Node] /\ ms[a] = x /\ \A b \in 1..u : ms[b] = ns[b]
        /\ lev2 \in [Ids -> Nat] /\ lev2[a] = lev[tp] + 1 /\ lev[tp] \in Nat
        /\ \A b \in 1..u : lev2[b] = lev[b]
    BY <1>1, <1>2, <1>3
  <1> HIDE DEF ms, lev2
  <1>5. ASSUME NEW K, K \subseteq 1..u, tp \in K,
               \A b \in K : Fit(ns[b], lev[b], K, lev)
        PROVE  \A b \in K \union {a} : Fit(ms[b], lev2[b], K \union {a}, lev2)
    <2> DEFINE K2 == K \union {a}
    <2>1. ASSUME NEW b \in K
          PROVE  Fit(ms[b], lev2[b], K2, lev2)
      <3>1. ms[b] = ns[b] /\ lev2[b] = lev[b] /\ \A d \in K : lev2[d] = lev[d]
        BY <1>4, <1>5
      <3>2. Fit(ns[b], lev[b], K, lev)
        BY <1>5
      <3> QED
        BY <3>1, <3>2, FitMore
    <2>2. Fit(ms[a], lev2[a], K2, lev2)
      <3>1. tp \in K2 /\ lev2[a] = lev2[tp] + 1 /\ lev2[a] # 0
        BY <1>4, <1>5
      <3>2. ~ms[a].leaf /\ \A i \in 0..ms[a].num : Child(ms[a], i) = tp
        BY <1>4
      <3> QED
        BY <3>1, <3>2 DEF Fit
    <2> QED
      BY <2>1, <2>2
  <1>6. \A b \in 1..a : Fit(ms[b], lev2[b], 1..a, lev2)
    BY <1>2, <1>3, <1>5
  <1>7. \A b \in live2 : Fit(ms[b], lev2[b], live2, lev2)
    BY <1>3, <1>5
  <1>8. ASSUME NEW b \in live2 \ {a}
        PROVE  lev2[b] < lev2[a] /\ ms[b].num >= MinDegree - 1
    <2>1. /\ b \in live /\ b \in 1..u /\ b \in Ids
          /\ ms[b] = ns[b] /\ lev2[b] = lev[b] /\ lev[b] \in Nat
      BY <1>2, <1>3, <1>4, <1>8
    <2>2. b = tp \/ (lev[b] < lev[tp] /\ ns[b].num >= MinDegree - 1)
      BY <1>3, <2>1
    <2> QED
      BY <1>4, <2>1, <2>2
  <1>9. Shape(ms, a, a, lev2, live2)
    BY <1>1, <1>2, <1>3, <1>4, <1>6, <1>7, <1>8 DEF Shape
  <1> QED
    BY <1>4, <1>9 DEF ms, lev2, a

(* A child takes the place of a root without keys.                         *)
LEMMA ShrinkKeeps ==
  ASSUME NEW ns \in [Ids -> Node], NEW u \in 0..MaxNodes, NEW tp, NEW lev,
         NEW live, Shape(ns, u, tp, lev, live), tp # None, ~ns[tp].leaf
  PROVE  /\ Child(ns[tp], 0) \in live /\ Child(ns[tp], 0) \in Ids
         /\ ns[Child(ns[tp], 0)].num >= MinDegree - 1
         /\ \E kept \in SUBSET live :
              Shape(ns, u, Child(ns[tp], 0), lev, kept)
  <1>1. tp \in live /\ live \subseteq 1..u /\ lev \in [Ids -> Nat]
    BY DEF Shape
  <1>2. 1..u \subseteq Ids /\ tp \in Ids
    BY <1>1, BTreeAssumption DEF Ids
  <1>3. 0 \in 0..ns[tp].num
    BY <1>2, NodeFacts
  <1> DEFINE c == Child(ns[tp], 0)
             kept == {b \in live : b = c \/ lev[b] < lev[c]}
  <1>4. /\ c \in live /\ c \in 1..u /\ c \in Ids /\ c # tp
        /\ lev[c] \in Nat /\ ns[c].num >= MinDegree - 1
    BY <1>1, <1>3, KidFacts
  <1> HIDE DEF c
  <1>5. \A b \in live : lev[b] \in Nat
    BY <1>1, <1>2
  <1>6. ASSUME NEW b \in kept
        PROVE  Fit(ns[b], lev[b], kept, lev)
    <2>1. b \in live /\ lev[b] <= lev[c] /\ Fit(ns[b], lev[b], live, lev)
      BY <1>4, <1>5, <1>6 DEF Shape
    <2>2. \A i \in 0..ns[b].num : ~ns[b].leaf => Child(ns[b], i) \in kept
      <3> SUFFICES ASSUME NEW i \in 0..ns[b].num, ~ns[b].leaf
                   PROVE  Child(ns[b], i) \in kept
        OBVIOUS
      <3> DEFINE d == Child(ns[b], i)
      <3>1. d \in live /\ lev[b] = lev[d] + 1
        BY <2>1 DEF Fit
      <3> HIDE DEF d
      <3>2. lev[d] < lev[c]
        BY <1>4, <1>5, <2>1, <3>1
      <3>3. d \in kept
        BY <3>1, <3>2
      <3> QED
        BY <3>3 DEF d
    <2> HIDE DEF kept
    <2> QED
      BY <2>1, <2>2 DEF Fit
  <1>7. c # None
    BY <1>4 DEF Ids, None
  <1>8. \A b \in kept \ {c} : lev[b] < lev[c] /\ ns[b].num >= MinDegree - 1
    <2> SUFFICES ASSUME NEW b \in kept \ {c}
                 PROVE  lev[b] < lev[c] /\ ns[b].num >= MinDegree - 1
      OBVIOUS
    <2>1. b \in live /\ lev[b] < lev[c]
      OBVIOUS
    <2>2. lev[c] < lev[tp] /\ lev[tp] \in Nat /\ lev[b] \in Nat
      BY <1>1, <1>4, <1>5, <2>1 DEF Shape
    <2>3. b # tp
      BY <1>4, <2>1, <2>2
    <2> QED
      BY <2>1, <2>3 DEF Shape
  <1>9. kept \subseteq 1..u /\ kept \in SUBSET live /\ c \in kept
    BY <1>1, <1>4
  <1> HIDE DEF kept
  <1>10. Shape(ns, u, c, lev, kept)
    BY <1>1, <1>6, <1>7, <1>8, <1>9 DEF Shape
  <1> QED
    BY <1>4, <1>9, <1>10 DEF c

(* What a removal needs after it has filled a child: the shape, and a node, *)
(* d, to go on at, below the root and with a key to lose.                   *)
Filled(ms, u, tp, lev, live, d) ==
  /\ ms \in [Ids -> Node]
  /\ Shape(ms, u, tp, lev, live)
  /\ d \in live /\ d # tp /\ ms[d].num >= MinDegree

LEMMA BorrowFromPrevKeeps ==
  ASSUME NEW ns \in [Ids -> Node], NEW u \in 0..MaxNodes, NEW tp, NEW lev,
         NEW live, Shape(ns, u, tp, lev, live), tp # None,
         NEW p \in live, ~ns[p].leaf, NEW n \in 1..ns[p].num,
         ns[Child(ns[p], n)].num < MinDegree,
         ns[Child(ns[p], n - 1)].num >= MinDegree
  PROVE  /\ Filled(BorrowFromPrev(ns, p, n), u, tp, lev, live,
                   Child(BorrowFromPrev(ns, p, n)[p], n))
         /\ BorrowFromPrev(ns, p, n)[p].num = ns[p].num
  <1>0. n \in 0..ns[p].num /\ n - 1 \in 0..ns[p].num /\ n \in Nat
    <2>1. p \in Ids
      BY BTreeAssumption DEF Shape, Ids
    <2>2. ns[p].num \in Nat
      BY <2>1, NodeFacts
    <2> QED
      BY <2>2
  <1> DEFINE c == Child(ns[p], n)
             s == Child(ns[p], n - 1)
             F == BorrowFromPrev(ns, p, n)
  <1>1. /\ p \in 1..u /\ p \in Ids /\ c \in live /\ c \in Ids
        /\ lev[c] \in Nat /\ lev[p] = lev[c] + 1 /\ c # p /\ c # tp
        /\ ns[c].num >= MinDegree - 1 /\ (ns[c].leaf <=> lev[c] = 0)
    BY <1>0, KidFacts
  <1>2. /\ s \in live /\ s \in Ids
        /\ lev[s] \in Nat /\ lev[p] = lev[s] + 1 /\ s # p /\ s # tp
        /\ ns[s].num >= MinDegree - 1 /\ (ns[s].leaf <=> lev[s] = 0)
    BY <1>0, KidFacts
  <1>3. ns[c].num < MinDegree /\ ns[s].num >= MinDegree
    OBVIOUS
  <1>4. /\ MinDegree \in Nat /\ MinDegree >= 2 /\ ns[c].num \in Nat
        /\ ns[s].num \in Nat /\ ns[p].num \in Nat
    BY <1>1, <1>2, Degree, NodeFacts
  <1>5. c # s /\ ns[c].num = MinDegree - 1 /\ lev[c] = lev[s]
    BY <1>1, <1>2, <1>3, <1>4
  <1>6. IsBorrowFromPrev(F, ns, p, n, c, s)
    BY <1>1, <1>2, <1>3, <1>5, BorrowFromPrevShape
  <1>7. Child(F[p], n) = c
    BY <1>0, <1>6 DEF IsBorrowFromPrev
  <1> HIDE DEF F, c, s
  <1>8. 1..u \subseteq Ids /\ live \subseteq 1..u
    BY BTreeAssumption DEF Shape, Ids
  <1>9. /\ \A b \in live : Fit(ns[b], lev[b], live, lev)
        /\ \A b \in live \ {tp} : ns[b].num >= MinDegree - 1
    BY DEF Shape
  <1>10. Fit(F[p], lev[p], live, lev)
    BY <1>6, <1>9 DEF IsBorrowFromPrev, Fit
  <1>11. Fit(F[s], lev[s], live, lev)
    <2>1. Fit(ns[s], lev[s], live, lev) /\ F[s].num = ns[s].num - 1
      BY <1>2, <1>6, <1>9 DEF IsBorrowFromPrev
    <2>2. \A i \in 0..F[s].num : i \in 0..ns[s].num
      BY <1>4, <2>1
    <2> QED
      BY <1>6, <2>1, <2>2 DEF IsBorrowFromPrev, Fit
  <1>12. Fit(F[c], lev[c], live, lev)
    <2>1. Fit(ns[s], lev[c], live, lev) /\ Fit(ns[c], lev[c], live, lev)
      BY <1>1, <1>2, <1>5, <1>9
    <2>2. F[c].leaf = ns[c].leaf /\ F[c].num = ns[c].num + 1
      BY <1>6 DEF IsBorrowFromPrev
    <2>3. ASSUME NEW i \in 0..F[c].num, ~ns[c].leaf
          PROVE  Child(F[c], i) \in live /\ lev[c] = lev[Child(F[c], i)] + 1
      <3>1. CASE i = 0
        <4>1. Child(F[c], i) = Child(ns[s], ns[s].num) /\ ns[s].num \in 0..ns[s].num
          BY <1>4, <1>6, <2>2, <2>3, <3>1 DEF IsBorrowFromPrev
        <4>2. ~ns[s].leaf
          BY <1>1, <1>2, <1>5, <2>3
        <4> QED
          BY <2>1, <4>1, <4>2 DEF Fit
      <3>2. CASE i # 0
        <4>1. Child(F[c], i) = Child(ns[c], i - 1) /\ i - 1 \in 0..ns[c].num
          BY <1>4, <1>6, <2>2, <2>3, <3>2 DEF IsBorrowFromPrev
        <4> QED
          BY <2>1, <2>3, <4>1 DEF Fit
      <3> QED
        BY <3>1, <3>2
    <2> QED
      BY <2>1, <2>2, <2>3, FitSome
  <1>13. \A b \in Ids \ {p, c, s} : F[b] = ns[b]
    BY <1>6 DEF IsBorrowFromPrev
  <1>14. \A b \in live : Fit(F[b], lev[b], live, lev)
    BY <1>8, <1>9, <1>10, <1>11, <1>12, <1>13
  <1>15. /\ F[p].num = ns[p].num /\ F[c].num = MinDegree
         /\ F[s].num >= MinDegree - 1
    BY <1>3, <1>4, <1>5, <1>6 DEF IsBorrowFromPrev
  <1>16. \A b \in live \ {tp} : F[b].num >= MinDegree - 1
    BY <1>4, <1>8, <1>9, <1>13, <1>15
  <1>17. \A b \in (1..u) \ live : F[b] = ns[b]
    BY <1>1, <1>2, <1>8, <1>13
  <1>18. Shape(F, u, tp, lev, live)
    BY <1>14, <1>16, <1>17, ShapeKept
  <1>19. F \in [Ids -> Node]
    BY <1>6 DEF IsBorrowFromPrev
  <1>20. Filled(F, u, tp, lev, live, Child(F[p], n))
    BY <1>1, <1>4, <1>7, <1>15, <1>18, <1>19 DEF Filled
  <1> QED
    BY <1>15, <1>20 DEF F

LEMMA BorrowFromNextKeeps ==
  ASSUME NEW ns \in [Ids -> Node], NEW u \in 0..MaxNodes, NEW tp, NEW lev,
         NEW live, Shape(ns, u, tp, lev, live), tp # None,
         NEW p \in live, ~ns[p].leaf, NEW n \in 0..(ns[p].num - 1),
         ns[Child(ns[p], n)].num < MinDegree,
         ns[Child(ns[p], n + 1)].num >= MinDegree
  PROVE  /\ Filled(BorrowFromNext(ns, p, n), u, tp, lev, live,
                   Child(BorrowFromNext(ns, p, n)[p], n))
         /\ BorrowFromNext(ns, p, n)[p].num = ns[p].num
  <1>0. n \in 0..ns[p].num /\ n + 1 \in 0..ns[p].num /\ n \in Nat
    <2>1. p \in Ids
      BY BTreeAssumption DEF Shape, Ids
    <2>2. ns[p].num \in Nat
      BY <2>1, NodeFacts
    <2> QED
      BY <2>2
  <1> DEFINE c == Child(ns[p], n)
             s == Child(ns[p], n + 1)
             F == BorrowFromNext(ns, p, n)
  <1>1. /\ p \in 1..u /\ p \in Ids /\ c \in live /\ c \in Ids
        /\ lev[c] \in Nat /\ lev[p] = lev[c] + 1 /\ c # p /\ c # tp
        /\ ns[c].num >= MinDegree - 1 /\ (ns[c].leaf <=> lev[c] = 0)
    BY <1>0, KidFacts
  <1>2. /\ s \in live /\ s \in Ids
        /\ lev[s] \in Nat /\ lev[p] = lev[s] + 1 /\ s # p /\ s # tp
        /\ ns[s].num >= MinDegree - 1 /\ (ns[s].leaf <=> lev[s] = 0)
    BY <1>0, KidFacts
  <1>3. ns[c].num < MinDegree /\ ns[s].num >= MinDegree
    OBVIOUS
  <1>4. /\ MinDegree \in Nat /\ MinDegree >= 2 /\ ns[c].num \in Nat
        /\ ns[s].num \in Nat /\ ns[p].num \in Nat
    BY <1>1, <1>2, Degree, NodeFacts
  <1>5. c # s /\ ns[c].num = MinDegree - 1 /\ lev[c] = lev[s]
    BY <1>1, <1>2, <1>3, <1>4
  <1>6. IsBorrowFromNext(F, ns, p, n, c, s)
    BY <1>1, <1>2, <1>3, <1>5, BorrowFromNextShape
  <1>7. Child(F[p], n) = c
    BY <1>0, <1>6 DEF IsBorrowFromNext
  <1> HIDE DEF F, c, s
  <1>8. 1..u \subseteq Ids /\ live \subseteq 1..u
    BY BTreeAssumption DEF Shape, Ids
  <1>9. /\ \A b \in live : Fit(ns[b], lev[b], live, lev)
        /\ \A b \in live \ {tp} : ns[b].num >= MinDegree - 1
    BY DEF Shape
  <1>10. Fit(F[p], lev[p], live, lev)
    BY <1>6, <1>9 DEF IsBorrowFromNext, Fit
  <1>11. Fit(F[s], lev[s], live, lev)
    <2>1. /\ Fit(ns[s], lev[s], live, lev)
          /\ F[s].leaf = ns[s].leaf /\ F[s].num = ns[s].num - 1
      BY <1>2, <1>6, <1>9 DEF IsBorrowFromNext
    <2>2. \A i \in 0..F[s].num : i \in 0..(ns[s].num - 1) /\ i + 1 \in 0..ns[s].num
      BY <1>4, <2>1
    <2> QED
      BY <1>6, <2>1, <2>2 DEF IsBorrowFromNext, Fit
  <1>12. Fit(F[c], lev[c], live, lev)
    <2>1. Fit(ns[s], lev[c], live, lev) /\ Fit(ns[c], lev[c], live, lev)
      BY <1>1, <1>2, <1>5, <1>9
    <2>2. F[c].leaf = ns[c].leaf /\ F[c].num = ns[c].num + 1
      BY <1>6 DEF IsBorrowFromNext
    <2>3. ASSUME NEW i \in 0..F[c].num, ~ns[c].leaf
          PROVE  Child(F[c], i) \in live /\ lev[c] = lev[Child(F[c], i)] + 1
      <3>1. CASE i = ns[c].num + 1
        <4>1. Child(F[c], i) = Child(ns[s], 0) /\ 0 \in 0..ns[s].num
          BY <1>4, <1>6, <2>2, <2>3, <3>1 DEF IsBorrowFromNext
        <4>2. ~ns[s].leaf
          BY <1>1, <1>2, <1>5, <2>3
        <4> QED
          BY <2>1, <4>1, <4>2 DEF Fit
      <3>2. CASE i # ns[c].num + 1
        <4>1. Child(F[c], i) = Child(ns[c], i) /\ i \in 0..ns[c].num
          BY <1>4, <1>6, <2>2, <2>3, <3>2 DEF IsBorrowFromNext
        <4> QED
          BY <2>1, <2>3, <4>1 DEF Fit
      <3> QED
        BY <3>1, <3>2
    <2> QED
      BY <2>1, <2>2, <2>3, FitSome
  <1>13. \A b \in Ids \ {p, c, s} : F[b] = ns[b]
    BY <1>6 DEF IsBorrowFromNext
  <1>14. \A b \in live : Fit(F[b], lev[b], live, lev)
    BY <1>8, <1>9, <1>10, <1>11, <1>12, <1>13
  <1>15. /\ F[p].num = ns[p].num /\ F[c].num = MinDegree
         /\ F[s].num >= MinDegree - 1
    BY <1>3, <1>4, <1>5, <1>6 DEF IsBorrowFromNext
  <1>16. \A b \in live \ {tp} : F[b].num >= MinDegree - 1
    BY <1>4, <1>8, <1>9, <1>13, <1>15
  <1>17. \A b \in (1..u) \ live : F[b] = ns[b]
    BY <1>1, <1>2, <1>8, <1>13
  <1>18. Shape(F, u, tp, lev, live)
    BY <1>14, <1>16, <1>17, ShapeKept
  <1>19. F \in [Ids -> Node]
    BY <1>6 DEF IsBorrowFromNext
  <1>20. Filled(F, u, tp, lev, live, Child(F[p], n))
    BY <1>1, <1>4, <1>7, <1>15, <1>18, <1>19 DEF Filled
  <1> QED
    BY <1>15, <1>20 DEF F

LEMMA MergeKeeps ==
  ASSUME NEW ns \in [Ids -> Node], NEW u \in 0..MaxNodes, NEW tp, NEW lev,
         NEW live, Shape(ns, u, tp, lev, live), tp # None,
         NEW p \in live, ~ns[p].leaf, NEW n \in 0..(ns[p].num - 1),
         p # tp => ns[p].num >= MinDegree,
         ns[Child(ns[p], n)].num < MinDegree,
         ns[Child(ns[p], n + 1)].num < MinDegree
  PROVE  /\ Filled(Merge(ns, p, n), u, tp, lev, live,
                   Child(Merge(ns, p, n)[p], n))
         /\ Merge(ns, p, n)[p].num = ns[p].num - 1
  <1>0. /\ n \in 0..ns[p].num /\ n + 1 \in 0..ns[p].num /\ n \in Nat
        /\ ns[p].num \in Nat
    <2>1. p \in Ids
      BY BTreeAssumption DEF Shape, Ids
    <2>2. ns[p].num \in Nat
      BY <2>1, NodeFacts
    <2> QED
      BY <2>2
  <1> DEFINE c == Child(ns[p], n)
             s == Child(ns[p], n + 1)
             F == Merge(ns, p, n)
  <1>1. /\ p \in 1..u /\ p \in Ids /\ c \in live /\ c \in Ids
        /\ lev[c] \in Nat /\ lev[p] = lev[c] + 1 /\ c # p /\ c # tp
        /\ ns[c].num >= MinDegree - 1 /\ (ns[c].leaf <=> lev[c] = 0)
    BY <1>0, KidFacts
  <1>2. /\ s \in live /\ s \in Ids
        /\ lev[s] \in Nat /\ lev[p] = lev[s] + 1 /\ s # p /\ s # tp
        /\ ns[s].num >= MinDegree - 1 /\ (ns[s].leaf <=> lev[s] = 0)
    BY <1>0, KidFacts
  <1>3. ns[c].num < MinDegree /\ ns[s].num < MinDegree
    OBVIOUS
  <1>4. /\ MinDegree \in Nat /\ MinDegree >= 2 /\ ns[c].num \in Nat
        /\ ns[s].num \in Nat
    BY <1>1, <1>2, Degree, NodeFacts
  <1>5. /\ ns[c].num = MinDegree - 1 /\ ns[s].num = MinDegree - 1
        /\ lev[c] = lev[s]
    BY <1>1, <1>2, <1>3, <1>4
  <1>6. IsMerge(F, ns, p, n, c, s)
    BY <1>1, <1>2, <1>5, MergeShape
  <1>7. Child(F[p], n) = c
    <2>1. n \in 0..(ns[p].num - 1) /\ n \notin (n + 1)..(ns[p].num - 2)
      BY <1>0
    <2> QED
      BY <1>6, <2>1 DEF IsMerge
  <1> HIDE DEF F, c, s
  <1>8. 1..u \subseteq Ids /\ live \subseteq 1..u
    BY BTreeAssumption DEF Shape, Ids
  <1>9. /\ \A b \in live : Fit(ns[b], lev[b], live, lev)
        /\ \A b \in live \ {tp} : ns[b].num >= MinDegree - 1
    BY DEF Shape
  <1>10. Fit(F[p], lev[p], live, lev)
    <2>1. Fit(ns[p], lev[p], live, lev) /\ F[p].num = ns[p].num - 1
          /\ F[p].leaf = ns[p].leaf
      <3>1. ns[p].leaf = FALSE
        BY <1>1, NodeFacts
      <3> QED
        BY <1>6, <1>9, <3>1 DEF IsMerge
    <2>2. ASSUME NEW i \in 0..F[p].num
          PROVE  Child(F[p], i) \in live /\ lev[p] = lev[Child(F[p], i)] + 1
      <3>1. i \in 0..(ns[p].num - 1)
        BY <2>1
      <3>2. \E j \in 0..ns[p].num : Child(F[p], i) = Child(ns[p], j)
        <4>1. CASE i \in (n + 1)..(ns[p].num - 2)
          <5>1. i + 1 \in 0..ns[p].num /\ Child(F[p], i) = Child(ns[p], i + 1)
            BY <1>0, <1>6, <3>1, <4>1 DEF IsMerge
          <5> QED
            BY <5>1
        <4>2. CASE i \notin (n + 1)..(ns[p].num - 2)
          <5>1. i \in 0..ns[p].num /\ Child(F[p], i) = Child(ns[p], i)
            BY <1>0, <1>6, <3>1, <4>2 DEF IsMerge
          <5> QED
            BY <5>1
        <4> QED
          BY <4>1, <4>2
      <3> QED
        BY <2>1, <3>2 DEF Fit
    <2> QED
      BY <2>1, <2>2, FitSome
  <1>11. Fit(F[c], lev[c], live, lev)
    <2>1. Fit(ns[s], lev[c], live, lev) /\ Fit(ns[c], lev[c], live, lev)
      BY <1>1, <1>2, <1>5, <1>9
    <2>2. F[c].leaf = ns[c].leaf /\ F[c].num = 2 * MinDegree - 1
      BY <1>6 DEF IsMerge
    <2>3. ASSUME NEW i \in 0..F[c].num, ~ns[c].leaf
          PROVE  Child(F[c], i) \in live /\ lev[c] = lev[Child(F[c], i)] + 1
      <3>1. i \in 0..(2 * MinDegree - 1)
        BY <2>2
      <3>2. CASE i >= MinDegree
        <4>1. /\ Child(F[c], i) = Child(ns[s], i - MinDegree)
              /\ i - MinDegree \in 0..ns[s].num
          BY <1>4, <1>5, <1>6, <2>3, <3>1, <3>2 DEF IsMerge
        <4>2. ~ns[s].leaf
          BY <1>1, <1>2, <1>5, <2>3
        <4> QED
          BY <2>1, <4>1, <4>2 DEF Fit
      <3>3. CASE ~ (i >= MinDegree)
        <4>1. Child(F[c], i) = Child(ns[c], i) /\ i \in 0..ns[c].num
          BY <1>4, <1>5, <1>6, <2>3, <3>1, <3>3 DEF IsMerge
        <4> QED
          BY <2>1, <2>3, <4>1 DEF Fit
      <3> QED
        BY <3>2, <3>3
    <2> QED
      BY <2>1, <2>2, <2>3, FitSome
  <1>12. \A b \in Ids \ {p, c} : F[b] = ns[b]
    BY <1>6 DEF IsMerge
  <1>13. \A b \in live : Fit(F[b], lev[b], live, lev)
    BY <1>8, <1>9, <1>10, <1>11, <1>12
  <1>14. F[p].num = ns[p].num - 1 /\ F[c].num >= MinDegree
    BY <1>4, <1>6 DEF IsMerge
  <1>15. \A b \in live \ {tp} : F[b].num >= MinDegree - 1
    <2> SUFFICES ASSUME NEW b \in live \ {tp}
                 PROVE  F[b].num >= MinDegree - 1
      OBVIOUS
    <2>1. CASE b = p
      BY <1>0, <1>4, <1>14, <2>1
    <2>2. CASE b = c
      <3>1. F[c].num \in Nat
        BY <1>1, <1>6, NodeFacts DEF IsMerge
      <3> QED
        BY <1>4, <1>14, <2>2, <3>1
    <2>3. CASE b \notin {p, c}
      BY <1>8, <1>9, <1>12, <2>3
    <2> QED
      BY <2>1, <2>2, <2>3
  <1>16. \A b \in (1..u) \ live : F[b] = ns[b]
    BY <1>1, <1>8, <1>12
  <1>17. Shape(F, u, tp, lev, live)
    BY <1>13, <1>15, <1>16, ShapeKept
  <1>18. F \in [Ids -> Node]
    BY <1>6 DEF IsMerge
  <1>19. Filled(F, u, tp, lev, live, Child(F[p], n))
    BY <1>1, <1>7, <1>14, <1>17, <1>18 DEF Filled
  <1> QED
    BY <1>14, <1>19 DEF F

(* fill(): the child to go on at is child n, or n - 1 if the last child    *)
(* was merged.                                                             *)
LEMMA FillKeeps ==
  ASSUME NEW ns \in [Ids -> Node], NEW u \in 0..MaxNodes, NEW tp, NEW lev,
         NEW live, Shape(ns, u, tp, lev, live), tp # None,
         NEW p \in live, ~ns[p].leaf, NEW n \in 0..ns[p].num, ns[p].num >= 1,
         p # tp => ns[p].num >= MinDegree,
         ns[Child(ns[p], n)].num < MinDegree
  PROVE  Filled(Fill(ns, p, n), u, tp, lev, live,
           Child(Fill(ns, p, n)[p],
             IF n = ns[p].num /\ n > Fill(ns, p, n)[p].num THEN n - 1 ELSE n))
  <1>1. p \in Ids
    BY BTreeAssumption DEF Shape, Ids
  <1>2. ns[p].num \in Nat /\ n \in Nat /\ n <= ns[p].num /\ MinDegree \in Nat
    BY <1>1, NodeFacts, Degree
  <1>3. ASSUME NEW i \in 0..ns[p].num
        PROVE  ns[Child(ns[p], i)].num \in Nat
    <2>1. Child(ns[p], i) \in Ids
      BY KidFacts
    <2> QED
      BY <2>1, NodeFacts
  <1> DEFINE F == Fill(ns, p, n)
             m == IF n = ns[p].num /\ n > F[p].num THEN n - 1 ELSE n
  <1>4. \/ /\ n # 0 /\ ns[Child(ns[p], n - 1)].num >= MinDegree
           /\ F = BorrowFromPrev(ns, p, n)
        \/ /\ n # ns[p].num /\ ns[Child(ns[p], n + 1)].num >= MinDegree
           /\ F = BorrowFromNext(ns, p, n)
        \/ /\ n # 0 => ~ (ns[Child(ns[p], n - 1)].num >= MinDegree)
           /\ n # ns[p].num => ~ (ns[Child(ns[p], n + 1)].num >= MinDegree)
           /\ F = Merge(ns, p, IF n # ns[p].num THEN n ELSE n - 1)
    BY Zenon DEF Fill
  <1> HIDE DEF F
  <1>5. CASE /\ n # 0 /\ ns[Child(ns[p], n - 1)].num >= MinDegree
             /\ F = BorrowFromPrev(ns, p, n)
    <2>1. n \in 1..ns[p].num
      BY <1>2, <1>5
    <2>2. Filled(F, u, tp, lev, live, Child(F[p], n)) /\ F[p].num = ns[p].num
      BY <1>5, <2>1, BorrowFromPrevKeeps
    <2>3. m = n
      BY <1>2, <2>2
    <2> QED
      BY <2>2, <2>3 DEF F
  <1>6. CASE /\ n # ns[p].num /\ ns[Child(ns[p], n + 1)].num >= MinDegree
             /\ F = BorrowFromNext(ns, p, n)
    <2>1. n \in 0..(ns[p].num - 1)
      BY <1>2, <1>6
    <2>2. Filled(F, u, tp, lev, live, Child(F[p], n)) /\ F[p].num = ns[p].num
      BY <1>6, <2>1, BorrowFromNextKeeps
    <2>3. m = n
      BY <1>2, <2>2
    <2> QED
      BY <2>2, <2>3 DEF F
  <1>7. CASE /\ n # 0 => ~ (ns[Child(ns[p], n - 1)].num >= MinDegree)
             /\ n # ns[p].num => ~ (ns[Child(ns[p], n + 1)].num >= MinDegree)
             /\ F = Merge(ns, p, IF n # ns[p].num THEN n ELSE n - 1)
    <2>1. CASE n # ns[p].num
      <3>1. n \in 0..(ns[p].num - 1) /\ n + 1 \in 0..ns[p].num
        BY <1>2, <2>1
      <3>2. ns[Child(ns[p], n + 1)].num < MinDegree
        BY <1>2, <1>3, <1>7, <2>1, <3>1
      <3>3. Filled(F, u, tp, lev, live, Child(F[p], n))
        BY <1>7, <2>1, <3>1, <3>2, MergeKeeps
      <3>4. m = n
        BY <2>1
      <3> QED
        BY <3>3, <3>4 DEF F
    <2>2. CASE n = ns[p].num
      <3> DEFINE q == n - 1
      <3>1. q \in 0..(ns[p].num - 1) /\ q \in 0..ns[p].num /\ q + 1 = n /\ n # 0
        BY <1>2, <2>2
      <3>2. F = Merge(ns, p, q)
        BY <1>7, <2>2
      <3>3. ns[Child(ns[p], q)].num < MinDegree
        BY <1>2, <1>3, <1>7, <3>1
      <3> HIDE DEF q
      <3>4. ns[Child(ns[p], q + 1)].num < MinDegree
        BY <3>1
      <3>5. Filled(F, u, tp, lev, live, Child(F[p], q)) /\ F[p].num = ns[p].num - 1
        BY <3>1, <3>2, <3>3, <3>4, MergeKeeps
      <3>6. m = q
        BY <1>2, <2>2, <3>5 DEF q
      <3> QED
        BY <3>5, <3>6 DEF F
    <2> QED
      BY <2>1, <2>2
  <1> QED
    BY <1>4, <1>5, <1>6, <1>7

-----------------------------------------------------------------------------
(* The steps.                                                              *)

LEMMA AtIdle ==
  ASSUME NEW ns, NEW rt, NEW tp, NEW c, NEW live
  PROVE  Place(ns, rt, tp, "idle", c, live)
           <=> rt = tp /\ (tp # None /\ ~ns[tp].leaf => ns[tp].num >= 1)
  BY DEF Place

LEMMA AtInsert ==
  ASSUME NEW ns, NEW rt, NEW tp, NEW c, NEW live
  PROVE  Place(ns, rt, tp, "insert", c, live)
           <=> /\ c \in live /\ ~Full(ns[c])
               /\ tp # None /\ ~ns[tp].leaf => ns[tp].num >= 1
  BY DEF Place

LEMMA AtRemove ==
  ASSUME NEW ns, NEW rt, NEW tp, NEW c, NEW live
  PROVE  Place(ns, rt, tp, "remove", c, live)
           <=> /\ rt = tp /\ c \in live
               /\ c # tp => ns[c].num >= MinDegree
               /\ c = tp /\ tp # None /\ ~ns[tp].leaf => ns[tp].num >= 1
  BY DEF Place

(* What an operation has to start from.                                    *)
LEMMA Given ==
  ASSUME TypeOK, NEW lev, NEW live, Shape(nodes, used, top, lev, live)
  PROVE  /\ nodes \in [Ids -> Node] /\ used \in 0..MaxNodes /\ used \in Nat
         /\ 1..used \subseteq Ids /\ live \subseteq 1..used
         /\ MaxNodes \in Nat /\ KeyOf[row] \in Nat
         /\ lev \in [Ids -> Nat] /\ live \in SUBSET Ids
         /\ top # None => top \in live /\ top \in Ids
         /\ \A b \in live : b \in Ids /\ nodes[b] \in Node /\ b # None
  <1>1. nodes \in [Ids -> Node] /\ used \in 0..MaxNodes /\ row \in Rows
    BY DEF TypeOK
  <1>2. MaxNodes \in Nat /\ KeyOf[row] \in Nat /\ used \in Nat
    BY <1>1, BTreeAssumption
  <1>3. 1..used \subseteq Ids /\ live \subseteq 1..used
    BY <1>1, <1>2 DEF Shape, Ids
  <1>4. lev \in [Ids -> Nat] /\ (top # None => top \in live)
    BY DEF Shape
  <1>5. \A b \in Ids : b # None
    BY DEF Ids, None
  <1> QED
    BY <1>1, <1>2, <1>3, <1>4, <1>5

LEMMA Initially ==
  Init => IInv
  <1> SUFFICES ASSUME Init
               PROVE  IInv
    OBVIOUS
  <1>1. \A b \in Ids : NewNode(TRUE) \in Node
    BY NewNodeIn
  <1>2. 1 \in Ids /\ (CHOOSE r \in Rows : TRUE) \in Rows /\ 0 \in 0..MaxNodes
        /\ 0 \in 0..MaxRemovals
    BY BTreeAssumption DEF Ids
  <1>3. TypeOK
    BY <1>1, <1>2 DEF Init, TypeOK
  <1> DEFINE lev == [b \in Ids |-> 0]
  <1>4. lev \in [Ids -> Nat]
    OBVIOUS
  <1>5. Shape(nodes, used, top, lev, {}) /\ Place(nodes, root, top, pc, cur, {})
    BY <1>4 DEF Init, Shape, Place
  <1> QED
    BY <1>3, <1>4, <1>5 DEF IInv

(* A removal goes on at d.                                                 *)
LEMMA DescendKeeps ==
  ASSUME TypeOK, pc = "remove", NEW lev, NEW live,
         Shape(nodes, used, top, lev, live), Place(nodes, root, top, pc, cur, live), top # None,
         NEW ms, NEW d, Filled(ms, used, top, lev, live, d), Descend(ms, d)
  PROVE  IInv'
  <1>1. /\ lev \in [Ids -> Nat] /\ live \in SUBSET Ids
        /\ \A b \in live : b \in Ids
    BY Given
  <1>2. /\ ms \in [Ids -> Node] /\ Shape(ms, used, top, lev, live)
        /\ d \in live /\ d # top /\ ms[d].num >= MinDegree
    BY DEF Filled
  <1>3. nodes' = ms /\ cur' = d /\ UNCHANGED <<used, root, top, pc, row, rows, removals>>
    BY DEF Descend
  <1>4. TypeOK'
    BY <1>1, <1>2, <1>3 DEF TypeOK
  <1>5. Shape(nodes', used', top', lev, live)
    BY <1>2, <1>3
  <1>6. Place(nodes', root', top', pc', cur', live)
    BY <1>2, <1>3 DEF Place
  <1> QED
    BY <1>1, <1>4, <1>5, <1>6 DEF IInv

(* A removal comes back.                                                   *)
LEMMA ReturnKeeps ==
  ASSUME TypeOK, root = top, NEW lev, NEW live,
         Shape(nodes, used, top, lev, live), top # None,
         NEW ms \in [Ids -> Node], Shape(ms, used, top, lev, live),
         NEW gone, RemoveReturn(ms, gone)
  PROVE  IInv'
  <1>1. /\ lev \in [Ids -> Nat] /\ live \in SUBSET Ids /\ used \in 0..MaxNodes
        /\ top \in live /\ top \in Ids /\ \A b \in live : b \in Ids
        /\ live \subseteq 1..used
    BY Given
  <1>2. /\ nodes' = ms /\ pc' = "idle" /\ rows' \subseteq rows
        /\ UNCHANGED <<used, cur, row, removals>> /\ root' = top'
        /\ top' = IF ms[top].num > 0 THEN top
                  ELSE IF ms[top].leaf THEN None ELSE Child(ms[top], 0)
    BY DEF RemoveReturn, Return
  <1>3. ms[top].num \in Nat
    BY <1>1, NodeFacts
  <1>4. SUFFICES \E kept \in SUBSET Ids :
                   /\ Shape(ms, used, top', lev, kept)
                   /\ top' \in Ids \union {None}
                   /\ top' # None /\ ~ms[top'].leaf => ms[top'].num >= 1
    <2>1. PICK kept \in SUBSET Ids :
                   /\ Shape(ms, used, top', lev, kept)
                   /\ top' \in Ids \union {None}
                   /\ top' # None /\ ~ms[top'].leaf => ms[top'].num >= 1
      BY <1>4
    <2>2. TypeOK'
      BY <1>2, <2>1 DEF TypeOK
    <2>3. Place(nodes', root', top', pc', cur', kept)
      BY <1>2, <2>1 DEF Place
    <2> QED
      BY <1>1, <1>2, <2>1, <2>2, <2>3 DEF IInv
  <1>5. CASE ms[top].num > 0
    BY <1>1, <1>2, <1>3, <1>5
  <1>6. CASE ~ (ms[top].num > 0) /\ ms[top].leaf
    <2>1. top' = None
      BY <1>2, <1>6
    <2>2. Shape(ms, used, None, lev, {})
      BY DEF Shape
    <2> QED
      BY <2>1, <2>2
  <1>7. CASE ~ (ms[top].num > 0) /\ ~ms[top].leaf
    <2> DEFINE c == Child(ms[top], 0)
    <2>1. /\ c \in Ids /\ ms[c].num >= MinDegree - 1
          /\ \E kept \in SUBSET live : Shape(ms, used, c, lev, kept)
      BY <1>1, <1>7, ShrinkKeeps
    <2>2. top' = c
      BY <1>2, <1>7
    <2> HIDE DEF c
    <2>3. ms[c].num >= 1
      BY <2>1, NodeFacts, Degree
    <2> QED
      BY <1>1, <2>1, <2>2, <2>3
  <1> QED
    BY <1>5, <1>6, <1>7

LEMMA InsertFirstKeeps ==
  ASSUME IInv, NEW r \in Rows, InsertFirst(r)
  PROVE  IInv'
  <1>1. TypeOK
    BY DEF IInv
  <1>2. PICK lev \in [Ids -> Nat], live \in SUBSET Ids :
          /\ Shape(nodes, used, top, lev, live)
          /\ Place(nodes, root, top, pc, cur, live)
    BY DEF IInv
  <1>a. PICK a : a = used + 1
    OBVIOUS
  <1> DEFINE es == [i \in {0} |-> [ref |-> r, key |-> KeyOf[r]]]
             y == PutElems(NewNode(TRUE), es)
             x == [y EXCEPT !.num = 1]
             lev2 == [lev EXCEPT ![a] = 0]
  <1>3. /\ pc = "idle" /\ root = None /\ a <= MaxNodes /\ used' = a
        /\ nodes' = [nodes EXCEPT ![a] = x] /\ row' = r
        /\ rows' = rows \union {r} /\ pc' = "idle" /\ root' = a /\ top' = a
        /\ UNCHANGED <<cur, removals>>
    BY <1>a DEF InsertFirst, Begin, Return
  <1>4. /\ nodes \in [Ids -> Node] /\ used \in Nat /\ 1..used \subseteq Ids
        /\ live \subseteq 1..used /\ MaxNodes \in Nat
    BY <1>1, <1>2, Given
  <1>5. a \in Ids /\ a \notin 1..used /\ 1..a = 1..used \union {a} /\ a # None
        /\ a \in 0..MaxNodes
    BY <1>a, <1>3, <1>4 DEF Ids, None
  <1>6. x \in Node /\ x.leaf = TRUE /\ x.num = 1
    <2>1. NewNode(TRUE) \in Node /\ NewNode(TRUE).leaf = TRUE
      BY NewNodeIn
    <2>2. r \in Nat /\ KeyOf[r] \in Nat
      BY BTreeAssumption
    <2>3. \A i \in DOMAIN es : es[i].ref \in Nat /\ es[i].key \in Nat
      BY <2>2
    <2> HIDE DEF es
    <2>4. y \in Node /\ y.leaf = TRUE
      BY <2>1, <2>3, PutElemsIn
    <2> HIDE DEF y
    <2>5. 1 \in 0..(Order - 1)
      BY Degree
    <2> QED
      BY <2>4, <2>5, NumIn
  <1> HIDE DEF x
  <1>7. TypeOK'
    BY <1>1, <1>3, <1>4, <1>5, <1>6 DEF TypeOK
  <1>8. /\ nodes'[a] = x /\ \A b \in 1..used : nodes'[b] = nodes[b]
        /\ lev2 \in [Ids -> Nat] /\ lev2[a] = 0
        /\ \A b \in 1..used : lev2[b] = lev[b]
    BY <1>3, <1>4, <1>5
  <1> HIDE DEF lev2
  <1>9. Fit(x, lev2[a], {a}, lev2) /\ Fit(x, lev2[a], 1..a, lev2)
    BY <1>6, <1>8 DEF Fit
  <1>10. ASSUME NEW b \in 1..used
         PROVE  Fit(nodes[b], lev2[b], 1..a, lev2)
    <2>1. Fit(nodes[b], lev[b], 1..used, lev)
      BY <1>2 DEF Shape
    <2>2. 1..used \subseteq 1..a
      BY <1>5
    <2>3. Fit(nodes[b], lev[b], 1..a, lev2)
      BY <1>8, <2>1, <2>2, FitMore
    <2> QED
      BY <1>8, <2>3
  <1>11. Shape(nodes', used', top', lev2, {a})
    <2>1. \A b \in 1..a : Fit(nodes'[b], lev2[b], 1..a, lev2)
      BY <1>5, <1>8, <1>9, <1>10
    <2>2. \A b \in {a} : Fit(nodes'[b], lev2[b], {a}, lev2)
      BY <1>8, <1>9
    <2> QED
      BY <1>3, <1>5, <1>8, <2>1, <2>2 DEF Shape
  <1>12. Place(nodes', root', top', pc', cur', {a})
    <2>1. nodes'[top'].num >= 1
      BY <1>3, <1>6, <1>8
    <2> QED
      BY <1>3, <2>1, AtIdle
  <1>13. {a} \in SUBSET Ids
    BY <1>5
  <1> QED
    BY <1>7, <1>8, <1>11, <1>12, <1>13 DEF IInv

LEMMA InsertAtRootKeeps ==
  ASSUME IInv, NEW r \in Rows, InsertAtRoot(r)
  PROVE  IInv'
  <1>1. TypeOK
    BY DEF IInv
  <1>2. PICK lev \in [Ids -> Nat], live \in SUBSET Ids :
          /\ Shape(nodes, used, top, lev, live)
          /\ Place(nodes, root, top, pc, cur, live)
    BY DEF IInv
  <1>3. /\ pc = "idle" /\ root # None /\ ~Full(nodes[root]) /\ row' = r
        /\ pc' = "insert" /\ cur' = root
        /\ UNCHANGED <<nodes, used, root, top, rows, removals>>
    BY DEF InsertAtRoot, Begin
  <1>4. root = top /\ top \in live /\ top \in Ids
    <2>1. root = top
      BY <1>2, <1>3, AtIdle
    <2> QED
      BY <1>1, <1>2, <1>3, <2>1, Given
  <1>5. TypeOK'
    BY <1>1, <1>3, <1>4 DEF TypeOK
  <1>6. Place(nodes', root', top', pc', cur', live)
    <2>1. ~nodes[top].leaf => nodes[top].num >= 1
      BY <1>2, <1>3, <1>4, AtIdle
    <2> QED
      BY <1>3, <1>4, <2>1, AtInsert
  <1> QED
    BY <1>2, <1>3, <1>5, <1>6 DEF IInv

LEMMA InsertPromoteKeeps ==
  ASSUME IInv, NEW r \in Rows, InsertPromote(r)
  PROVE  IInv'
  <1>1. TypeOK
    BY DEF IInv
  <1>2. PICK lev \in [Ids -> Nat], live \in SUBSET Ids :
          /\ Shape(nodes, used, top, lev, live)
          /\ Place(nodes, root, top, pc, cur, live)
    BY DEF IInv
  <1>a. PICK a : a = used + 1
    OBVIOUS
  <1>b. PICK tp : tp = top
    OBVIOUS
  <1> DEFINE cs == [i \in {0} |-> root]
             x == PutChildren(NewNode(FALSE), cs)
             up == [nodes EXCEPT ![a] = x]
             ms == Split(up, a, 0, root, a + 1)
             i0 == IF Key(ms[a], 0) < KeyOf[r] THEN 1 ELSE 0
  <1>3. /\ pc = "idle" /\ root # None /\ Full(nodes[root]) /\ used + 2 <= MaxNodes
        /\ row' = r /\ used' = used + 2 /\ pc' = "insert" /\ top' = a
        /\ nodes' = Split(up, a, 0, root, used + 2)
        /\ cur' = Child(Split(up, a, 0, root, used + 2)[a],
             IF Key(Split(up, a, 0, root, used + 2)[a], 0) < KeyOf[r] THEN 1 ELSE 0)
        /\ UNCHANGED <<root, rows, removals>>
    BY <1>a, Zenon DEF InsertPromote, Begin
  <1>4. /\ nodes \in [Ids -> Node] /\ used \in Nat /\ used \in 0..MaxNodes
        /\ MaxNodes \in Nat /\ live \in SUBSET Ids
        /\ top # None => top \in live /\ top \in Ids
    BY <1>1, <1>2, Given
  <1>5. root = top /\ top # None /\ top \in live /\ top \in Ids
    BY <1>2, <1>3, <1>4, AtIdle
  <1>6. used + 2 = a + 1
    BY <1>a, <1>4
  <1>7. nodes' = ms /\ cur' = Child(ms[a], i0) /\ used' = a + 1
    BY <1>3, <1>6
  <1>8. nodes[top].num = Order - 1 /\ nodes[top].num >= MinDegree - 1
    <2>1. nodes[top].num \in 0..(Order - 1) /\ Order \in Nat
      BY <1>4, <1>5, NodeFacts
    <2>2. nodes[top].num >= Order - 1
      BY <1>3, <1>5 DEF Full
    <2> QED
      BY <2>1, <2>2, Degree
  <1>9. x \in Node /\ x.leaf = FALSE /\ x.num = 0 /\ Child(x, 0) = top
    <2>1. /\ NewNode(FALSE) \in Node /\ NewNode(FALSE).leaf = FALSE
          /\ NewNode(FALSE).num = 0
      BY NewNodeIn
    <2>2. /\ \A i \in DOMAIN cs : cs[i] \in Nat
          /\ 0 \in DOMAIN cs /\ cs[0] = top
      BY <1>5 DEF Ids
    <2>3. 0 \in 0..(Order - 1)
      BY Degree
    <2> HIDE DEF cs
    <2> QED
      BY <2>1, <2>2, <2>3, PutChildrenIn
  <1> HIDE DEF x
  <1> DEFINE lev1 == [lev EXCEPT ![a] = lev[tp] + 1]
             live1 == live \union {a}
  <1>10. a \in 0..MaxNodes /\ a \in Ids /\ a + 1 <= MaxNodes /\ a + 1 \in Ids
          /\ a + 1 \in 0..MaxNodes /\ a # None /\ used + 1 <= MaxNodes
    BY <1>a, <1>3, <1>4 DEF Ids, None
  <1>11. up \in [Ids -> Node] /\ Shape(up, a, a, lev1, live1)
    BY <1>a, <1>b, <1>2, <1>4, <1>5, <1>8, <1>9, <1>10, GrowKeeps
  <1>12. up[a] = x /\ (top # a => up[top] = nodes[top])
    BY <1>4, <1>5, <1>10
  <1>13. top # a
    <2>1. top \in 1..used
      BY <1>2, <1>5 DEF Shape
    <2> QED
      BY <1>a, <1>4, <2>1
  <1> HIDE DEF up, live1, lev1
  <1>14. a \in live1
    BY DEF live1
  <1>15. /\ ~up[a].leaf /\ up[a].num < Order - 1 /\ 0 \in 0..up[a].num
         /\ top = Child(up[a], 0) /\ up[top].num = Order - 1
    BY <1>8, <1>9, <1>12, <1>13, Degree
  <1> DEFINE lev2 == [lev1 EXCEPT ![a + 1] = lev1[tp]]
             live2 == live1 \union {a + 1}
  <1>16. /\ ms \in [Ids -> Node] /\ Shape(ms, a + 1, a, lev2, live2)
         /\ \A i \in {0, 0 + 1} :
              Child(ms[a], i) \in {top, a + 1} /\ ~Full(ms[Child(ms[a], i)])
         /\ top \in live1 /\ ~ms[a].leaf /\ ms[a].num = up[a].num + 1
    <2>1. ms = Split(up, a, 0, top, a + 1)
      BY <1>5
    <2> HIDE DEF ms
    <2>2. Halved(ms, up, a, lev1, live1, a, 0, top, a + 1)
      BY <1>10, <1>11, <1>14, <1>15, <2>1, SplitKeeps
    <2> QED
      BY <1>b, <2>2 DEF Halved
  <1> HIDE DEF ms
  <1>17. i0 \in {0, 0 + 1}
    OBVIOUS
  <1> HIDE DEF i0
  <1>18. cur' \in {top, a + 1} /\ ~Full(ms[cur'])
    BY <1>7, <1>16, <1>17
  <1>19. cur' \in live2 /\ cur' \in Ids
    BY <1>5, <1>10, <1>16, <1>18
  <1>20. TypeOK'
    BY <1>1, <1>3, <1>7, <1>10, <1>16, <1>19 DEF TypeOK
  <1>21. Shape(nodes', used', top', lev2, live2)
    BY <1>3, <1>7, <1>16
  <1>22. ms[a].num = 1
    BY <1>9, <1>12, <1>16
  <1>23. Place(nodes', root', top', pc', cur', live2)
    <2>1. ~Full(nodes'[cur'])
      BY <1>7, <1>18
    <2>2. nodes'[top'].num >= 1
      BY <1>3, <1>7, <1>22
    <2> QED
      BY <1>3, <1>19, <2>1, <2>2, AtInsert
  <1>24. lev2 \in [Ids -> Nat] /\ live2 \in SUBSET Ids
    BY <1>4, <1>10, <1>16 DEF Shape, live1
  <1> HIDE DEF lev2, live2
  <1> QED
    BY <1>20, <1>21, <1>23, <1>24 DEF IInv

LEMMA InsertLeafKeeps ==
  ASSUME IInv, InsertLeaf
  PROVE  IInv'
  <1>1. TypeOK
    BY DEF IInv
  <1>2. PICK lev \in [Ids -> Nat], live \in SUBSET Ids :
          /\ Shape(nodes, used, top, lev, live)
          /\ Place(nodes, root, top, pc, cur, live)
    BY DEF IInv
  <1> DEFINE x == nodes[cur]
             n == LastNotAbove(x, KeyOf[row]) + 1
             es == [i \in n..x.num |->
                      IF i = n THEN [ref |-> row, key |-> KeyOf[row]]
                      ELSE Elem(x, i - 1)]
             e == PutElems(x, es)
             y == [e EXCEPT !.num = x.num + 1]
  <1>3. /\ pc = "insert" /\ x.leaf /\ nodes' = [nodes EXCEPT ![cur] = y]
        /\ rows' = rows \union {row} /\ pc' = "idle" /\ root' = top /\ top' = top
        /\ UNCHANGED <<used, cur, row, removals>>
    BY Zenon DEF InsertLeaf, Return
  <1>4. /\ nodes \in [Ids -> Node] /\ used \in 0..MaxNodes /\ KeyOf[row] \in Nat
        /\ \A b \in live : b \in Ids /\ nodes[b] \in Node
        /\ top # None => top \in live /\ top \in Ids
    BY <1>1, <1>2, Given
  <1>5. cur \in live /\ ~Full(x) /\ top # None
    <2>1. cur \in live /\ ~Full(nodes[cur])
      BY <1>2, <1>3, AtInsert
    <2> QED
      BY <1>2, <2>1 DEF Shape
  <1>6. /\ x \in Node /\ x.num \in Nat /\ x.num < Order - 1 /\ Order \in Nat
        /\ x.leaf = TRUE
    <2>1. x \in Node /\ x.num \in Nat /\ Order \in Nat /\ x.leaf \in BOOLEAN
      BY <1>4, <1>5, NodeFacts
    <2> QED
      BY <1>3, <1>5, <2>1 DEF Full
  <1>7. n \in 0..x.num
    BY <1>4, <1>6, LastNotAboveIn
  <1> HIDE DEF x, n
  <1>8. y \in Node /\ y.leaf = TRUE /\ y.num = x.num + 1
    <2>1. row \in Nat
      BY <1>1, BTreeAssumption DEF TypeOK
    <2>2. ASSUME NEW i \in DOMAIN es
          PROVE  es[i].ref \in Nat /\ es[i].key \in Nat
      <3>1. /\ i \in n..x.num /\ (i = n \/ i - 1 \in 0..(Order - 1))
            /\ es[i] = IF i = n THEN [ref |-> row, key |-> KeyOf[row]]
                       ELSE Elem(x, i - 1)
        BY <1>6, <1>7
      <3> HIDE DEF es
      <3>2. CASE i = n
        BY <1>4, <2>1, <3>1, <3>2
      <3>3. CASE i # n
        BY <1>6, <3>1, <3>3, ElemIn
      <3> QED
        BY <3>2, <3>3
    <2> HIDE DEF es
    <2>3. e \in Node /\ e.leaf = TRUE
      BY <1>6, <2>2, PutElemsIn
    <2> HIDE DEF e
    <2>4. x.num + 1 \in 0..(Order - 1)
      BY <1>6
    <2> QED
      BY <2>3, <2>4, NumIn
  <1> HIDE DEF y
  <1>9. cur # top => y.num >= MinDegree - 1
    <2>1. cur # top => x.num >= MinDegree - 1
      BY <1>2, <1>5 DEF Shape, x
    <2> QED
      BY <1>6, <1>8, <2>1, Degree
  <1> DEFINE ms == [nodes EXCEPT ![cur] = y]
  <1>10. ms \in [Ids -> Node] /\ Shape(ms, used, top, lev, live)
    <2>1. nodes[cur].leaf = TRUE
      BY <1>6 DEF x
    <2> QED
      BY <1>2, <1>4, <1>5, <1>8, <1>9, <2>1, OneKept
  <1>11. TypeOK'
    BY <1>1, <1>3, <1>4, <1>10 DEF TypeOK
  <1>12. ~ms[top].leaf => ms[top].num >= 1
    <2>1. CASE cur = top
      BY <1>4, <1>5, <1>8, <2>1
    <2>2. CASE cur # top
      <3>1. ms[top] = nodes[top]
        BY <1>4, <1>5, <2>2
      <3> QED
        BY <1>2, <1>3, <1>5, <3>1, AtInsert
    <2> QED
      BY <2>1, <2>2
  <1> HIDE DEF ms
  <1>13. nodes' = ms
    BY <1>3 DEF ms
  <1>14. Place(nodes', root', top', pc', cur', live)
    BY <1>3, <1>12, <1>13, AtIdle
  <1>15. Shape(nodes', used', top', lev, live)
    BY <1>3, <1>10, <1>13
  <1> QED
    BY <1>2, <1>11, <1>14, <1>15 DEF IInv

LEMMA InsertInnerKeeps ==
  ASSUME IInv, InsertInner
  PROVE  IInv'
  <1>1. TypeOK
    BY DEF IInv
  <1>2. PICK lev \in [Ids -> Nat], live \in SUBSET Ids :
          /\ Shape(nodes, used, top, lev, live)
          /\ Place(nodes, root, top, pc, cur, live)
    BY DEF IInv
  <1>a. PICK z : z = used + 1
    OBVIOUS
  <1> DEFINE k == KeyOf[row]
             n == LastNotAbove(nodes[cur], k) + 1
             c == Child(nodes[cur], n)
             ms == Split(nodes, cur, n, c, z)
             j == IF Key(ms[cur], n) < k THEN n + 1 ELSE n
  <1>3. /\ pc = "insert" /\ ~nodes[cur].leaf
        /\ \/ ~Full(nodes[c]) /\ cur' = c /\ UNCHANGED <<nodes, used>>
           \/ /\ Full(nodes[c]) /\ z <= MaxNodes /\ nodes' = ms /\ used' = z
              /\ cur' = Child(ms[cur], j)
        /\ UNCHANGED <<root, top, pc, row, rows, removals>>
    BY <1>a, Zenon DEF InsertInner
  <1>4. /\ nodes \in [Ids -> Node] /\ used \in 0..MaxNodes /\ KeyOf[row] \in Nat
        /\ \A b \in live : b \in Ids /\ nodes[b] \in Node
        /\ top # None => top \in live /\ top \in Ids
        /\ used \in Nat /\ MaxNodes \in Nat /\ live \subseteq 1..used
    BY <1>1, <1>2, Given
  <1>5. cur \in live /\ ~Full(nodes[cur]) /\ top # None
    <2>1. cur \in live /\ ~Full(nodes[cur])
      BY <1>2, <1>3, AtInsert
    <2> QED
      BY <1>2, <2>1 DEF Shape
  <1>6. n \in 0..nodes[cur].num
    BY <1>4, <1>5, LastNotAboveIn
  <1>7. c \in live /\ c \in Ids /\ nodes[c] \in Node
    BY <1>2, <1>3, <1>4, <1>5, <1>6, KidFacts
  <1>8. CASE ~Full(nodes[c]) /\ cur' = c /\ UNCHANGED <<nodes, used>>
    <2> HIDE DEF c
    <2>1. TypeOK'
      BY <1>1, <1>3, <1>7, <1>8 DEF TypeOK
    <2>2. Place(nodes', root', top', pc', cur', live)
      <3>1. ~Full(nodes'[cur'])
        BY <1>8
      <3>2. top # None /\ ~nodes[top].leaf => nodes[top].num >= 1
        BY <1>2, <1>3, AtInsert
      <3> QED
        BY <1>3, <1>7, <1>8, <3>1, <3>2, AtInsert
    <2>3. Shape(nodes', used', top', lev, live)
      BY <1>2, <1>3, <1>8
    <2> QED
      BY <1>2, <2>1, <2>2, <2>3 DEF IInv
  <1>9. CASE /\ Full(nodes[c]) /\ z <= MaxNodes /\ nodes' = ms /\ used' = z
             /\ cur' = Child(ms[cur], j)
    <2>a. PICK l : l = lev[c]
      OBVIOUS
    <2> DEFINE lev2 == [lev EXCEPT ![z] = l]
               live2 == live \union {z}
    <2>1. nodes[c].num = Order - 1 /\ nodes[cur].num < Order - 1
          /\ nodes[cur].num \in Nat
      <3>1. /\ nodes[c].num \in Nat /\ nodes[c].num <= Order - 1 /\ Order \in Nat
            /\ nodes[cur].num \in Nat
        BY <1>4, <1>5, <1>7, NodeFacts
      <3> QED
        BY <1>5, <1>9, <3>1 DEF Full
    <2>2. /\ ms \in [Ids -> Node] /\ Shape(ms, z, top, lev2, live2)
          /\ \A i \in {n, n + 1} :
               Child(ms[cur], i) \in {c, z} /\ ~Full(ms[Child(ms[cur], i)])
          /\ ~ms[cur].leaf /\ ms[cur].num = nodes[cur].num + 1
          /\ top # cur => ms[top].num = nodes[top].num /\ ms[top].leaf = nodes[top].leaf
      <3>1. Halved(ms, nodes, top, lev, live, cur, n, c, z)
        BY <1>a, <1>2, <1>3, <1>4, <1>5, <1>6, <1>9, <2>1, SplitKeeps
      <3> HIDE DEF ms, c, n
      <3> QED
        BY <2>a, <3>1 DEF Halved
    <2>3. j \in {n, n + 1}
      OBVIOUS
    <2>4. z \in Ids /\ z \in 0..MaxNodes
      BY <1>a, <1>4, <1>9 DEF Ids
    <2> HIDE DEF ms, j, c, n
    <2>5. cur' \in {c, z} /\ ~Full(ms[cur'])
      BY <1>9, <2>2, <2>3
    <2>6. cur' \in live2 /\ cur' \in Ids
      BY <1>7, <2>4, <2>5
    <2>7. TypeOK'
      BY <1>1, <1>3, <1>9, <2>2, <2>4, <2>6 DEF TypeOK
    <2>8. Shape(nodes', used', top', lev2, live2)
      BY <1>3, <1>9, <2>2
    <2>9. ~ms[top].leaf => ms[top].num >= 1
      <3>1. CASE top = cur
        BY <2>1, <2>2, <3>1
      <3>2. CASE top # cur
        BY <1>2, <1>3, <1>5, <2>2, <3>2, AtInsert
      <3> QED
        BY <3>1, <3>2
    <2>10. Place(nodes', root', top', pc', cur', live2)
      <3>1. ~Full(nodes'[cur'])
        BY <1>9, <2>5
      <3> QED
        BY <1>3, <1>9, <2>6, <2>9, <3>1, AtInsert
    <2>11. lev2 \in [Ids -> Nat] /\ live2 \in SUBSET Ids
      BY <1>2, <2>2, <2>4 DEF Shape
    <2> HIDE DEF lev2, live2
    <2> QED
      BY <2>7, <2>8, <2>10, <2>11 DEF IInv
  <1> QED
    BY <1>3, <1>8, <1>9

LEMMA RemoveStartKeeps ==
  ASSUME IInv, NEW r \in Rows, RemoveStart(r)
  PROVE  IInv'
  <1>1. TypeOK
    BY DEF IInv
  <1>2. PICK lev \in [Ids -> Nat], live \in SUBSET Ids :
          /\ Shape(nodes, used, top, lev, live)
          /\ Place(nodes, root, top, pc, cur, live)
    BY DEF IInv
  <1>3. /\ pc = "idle" /\ root # None /\ removals < MaxRemovals
        /\ removals' = removals + 1 /\ pc' = "remove" /\ cur' = root /\ row' = r
        /\ UNCHANGED <<nodes, used, root, top, rows>>
    BY DEF RemoveStart
  <1>4. root = top /\ (~nodes[top].leaf => nodes[top].num >= 1)
    BY <1>2, <1>3, AtIdle
  <1>5. top \in live /\ top \in Ids
    BY <1>1, <1>2, <1>3, <1>4, Given
  <1>6. removals' \in 0..MaxRemovals
    BY <1>1, <1>3, BTreeAssumption DEF TypeOK
  <1>7. TypeOK'
    BY <1>1, <1>3, <1>4, <1>5, <1>6 DEF TypeOK
  <1>8. Place(nodes', root', top', pc', cur', live)
    BY <1>3, <1>4, <1>5, AtRemove
  <1> QED
    BY <1>2, <1>3, <1>7, <1>8 DEF IInv

(* Where a removal is, and the index find_key() gives there.               *)
LEMMA Removal ==
  ASSUME TypeOK, NEW lev, NEW live, Shape(nodes, used, top, lev, live),
         Place(nodes, root, top, pc, cur, live), pc = "remove"
  PROVE  /\ root = top /\ top # None /\ cur \in live /\ cur \in Ids
         /\ nodes \in [Ids -> Node] /\ nodes[cur] \in Node
         /\ used \in 0..MaxNodes
         /\ nodes[cur].num \in Nat /\ nodes[cur].num <= Order - 1
         /\ At \in 0..nodes[cur].num
         /\ cur # top => nodes[cur].num >= MinDegree
         /\ ~nodes[cur].leaf => nodes[cur].num >= 1
  <1>1. /\ root = top /\ cur \in live /\ (cur # top => nodes[cur].num >= MinDegree)
        /\ cur = top /\ top # None /\ ~nodes[top].leaf => nodes[top].num >= 1
    BY AtRemove
  <1>2. top # None
    BY <1>1 DEF Shape
  <1>3. /\ nodes \in [Ids -> Node] /\ cur \in Ids /\ nodes[cur] \in Node
        /\ KeyOf[row] \in Nat /\ used \in 0..MaxNodes
    BY <1>1, Given
  <1>4. nodes[cur].num \in Nat /\ nodes[cur].num <= Order - 1
    BY <1>3, NodeFacts
  <1>5. At \in 0..nodes[cur].num
    BY <1>3, FindKeyCorrect DEF Answer, At
  <1>6. ~nodes[cur].leaf => nodes[cur].num >= 1
    BY <1>1, <1>2, <1>4, Degree
  <1> QED
    BY <1>1, <1>2, <1>3, <1>4, <1>5, <1>6

LEMMA RemoveFromLeafKeeps ==
  ASSUME IInv, RemoveFromLeaf
  PROVE  IInv'
  <1>1. TypeOK
    BY DEF IInv
  <1>2. PICK lev \in [Ids -> Nat], live \in SUBSET Ids :
          /\ Shape(nodes, used, top, lev, live)
          /\ Place(nodes, root, top, pc, cur, live)
    BY DEF IInv
  <1> DEFINE x == nodes[cur]
             n == At
             es == [i \in n..(x.num - 2) |-> Elem(x, i + 1)]
             e == PutElems(x, es)
             y == [e EXCEPT !.num = x.num - 1]
             ms == [nodes EXCEPT ![cur] = y]
             gone == {Elem(x, n).ref}
  <1>3. pc = "remove" /\ x.leaf /\ n < x.num /\ RemoveReturn(ms, gone)
    BY Zenon DEF RemoveFromLeaf, Here
  <1>4. /\ root = top /\ top # None /\ cur \in live /\ cur \in Ids
        /\ nodes \in [Ids -> Node] /\ x \in Node /\ used \in 0..MaxNodes
        /\ x.num \in Nat /\ x.num <= Order - 1 /\ n \in 0..x.num
        /\ cur # top => x.num >= MinDegree
    BY <1>1, <1>2, <1>3, Removal
  <1> HIDE DEF x, n
  <1>5. y \in Node /\ y.leaf = x.leaf /\ y.num = x.num - 1
    <2>1. ASSUME NEW i \in DOMAIN es
          PROVE  es[i].ref \in Nat /\ es[i].key \in Nat
      <3>1. i + 1 \in 0..(Order - 1) /\ es[i] = Elem(x, i + 1)
        BY <1>4, Degree
      <3> HIDE DEF es
      <3> QED
        BY <1>4, <3>1, ElemIn
    <2> HIDE DEF es
    <2>2. e \in Node /\ e.leaf = x.leaf
      BY <1>4, <2>1, PutElemsIn
    <2> HIDE DEF e
    <2>3. x.num - 1 \in 0..(Order - 1)
      BY <1>3, <1>4, Degree
    <2> QED
      BY <2>2, <2>3, NumIn
  <1> HIDE DEF y
  <1>6. cur # top => y.num >= MinDegree - 1
    BY <1>4, <1>5, Degree
  <1>7. ms \in [Ids -> Node] /\ Shape(ms, used, top, lev, live)
    <2>1. nodes[cur].leaf /\ y.leaf = nodes[cur].leaf
      BY <1>3, <1>5 DEF x
    <2> QED
      BY <1>2, <1>4, <1>5, <1>6, <2>1, OneKept
  <1> HIDE DEF ms, gone
  <1> QED
    BY <1>1, <1>2, <1>3, <1>4, <1>7, ReturnKeeps

LEMMA RemoveMissingKeeps ==
  ASSUME IInv, RemoveMissing
  PROVE  IInv'
  <1>1. TypeOK
    BY DEF IInv
  <1>2. PICK lev \in [Ids -> Nat], live \in SUBSET Ids :
          /\ Shape(nodes, used, top, lev, live)
          /\ Place(nodes, root, top, pc, cur, live)
    BY DEF IInv
  <1>3. pc = "remove" /\ RemoveReturn(nodes, {})
    BY DEF RemoveMissing
  <1>4. root = top /\ top # None /\ nodes \in [Ids -> Node]
    BY <1>1, <1>2, <1>3, Removal
  <1> QED
    BY <1>1, <1>2, <1>3, <1>4, ReturnKeeps

(* A walk that is not followed any further.                                *)
LEMMA GiveUpKeeps ==
  ASSUME IInv, pc = "remove", NEW why \in {"loop", "lost"}, GiveUp(why)
  PROVE  IInv'
  <1>1. TypeOK
    BY DEF IInv
  <1>2. PICK lev \in [Ids -> Nat], live \in SUBSET Ids :
          /\ Shape(nodes, used, top, lev, live)
          /\ Place(nodes, root, top, pc, cur, live)
    BY DEF IInv
  <1>3. pc' = why /\ UNCHANGED <<nodes, used, root, top, cur, row, rows, removals>>
    BY DEF GiveUp
  <1>4. TypeOK'
    BY <1>1, <1>3 DEF TypeOK
  <1>5. root = top
    BY <1>2, AtRemove
  <1>6. Place(nodes', root', top', pc', cur', live)
    BY <1>3, <1>5 DEF Place
  <1> QED
    BY <1>2, <1>3, <1>4, <1>6 DEF IInv

(* The key of the current node is replaced, and the removal goes on in a   *)
(* child that has keys enough.                                             *)
LEMMA ReplaceKeeps ==
  ASSUME TypeOK, pc = "remove", NEW lev \in [Ids -> Nat], NEW live \in SUBSET Ids,
         Shape(nodes, used, top, lev, live),
         Place(nodes, root, top, pc, cur, live), ~nodes[cur].leaf,
         NEW es, \A i \in DOMAIN es : es[i].ref \in Nat /\ es[i].key \in Nat,
         NEW m \in 0..nodes[cur].num,
         nodes[Child(nodes[cur], m)].num >= MinDegree,
         Descend([nodes EXCEPT ![cur] = PutElems(@, es)], Child(nodes[cur], m))
  PROVE  IInv'
  <1>1. /\ top # None /\ cur \in live /\ cur \in Ids /\ nodes \in [Ids -> Node]
        /\ nodes[cur] \in Node /\ used \in 0..MaxNodes
        /\ nodes[cur].num \in Nat /\ nodes[cur].num <= Order - 1
        /\ cur # top => nodes[cur].num >= MinDegree
    BY Removal
  <1> DEFINE x == PutElems(nodes[cur], es)
             d == Child(nodes[cur], m)
             ms == [nodes EXCEPT ![cur] = x]
  <1>2. /\ x \in Node /\ x.leaf = nodes[cur].leaf /\ x.num = nodes[cur].num
        /\ \A i \in 0..(Order - 1) : Child(x, i) = Child(nodes[cur], i)
    BY <1>1, PutElemsIn
  <1>3. d \in live /\ d \in Ids /\ d # cur /\ d # top
    BY <1>1, KidFacts
  <1>4. Descend(ms, d)
    OBVIOUS
  <1> HIDE DEF x, d
  <1>5. /\ \A i \in 0..x.num : i \in 0..nodes[cur].num
                               /\ Child(x, i) = Child(nodes[cur], i)
        /\ cur # top => x.num >= MinDegree - 1
    BY <1>1, <1>2, Degree
  <1>6. ms \in [Ids -> Node] /\ Shape(ms, used, top, lev, live)
    BY <1>1, <1>2, <1>5, OneKept
  <1>7. ms[d] = nodes[d] /\ nodes[d].num >= MinDegree
    BY <1>1, <1>3 DEF d
  <1> HIDE DEF ms
  <1>8. Filled(ms, used, top, lev, live, d)
    BY <1>3, <1>6, <1>7 DEF Filled
  <1> QED
    BY <1>1, <1>4, <1>8, DescendKeeps

LEMMA RemoveByPrevKeeps ==
  ASSUME IInv, RemoveByPrev
  PROVE  IInv'
  <1>1. TypeOK
    BY DEF IInv
  <1>2. PICK lev \in [Ids -> Nat], live \in SUBSET Ids :
          /\ Shape(nodes, used, top, lev, live)
          /\ Place(nodes, root, top, pc, cur, live)
    BY DEF IInv
  <1> DEFINE n == At
             K == Kid(n)
             es == [i \in {n} |-> Elem(K, K.num - 2)]
  <1>3. /\ pc = "remove" /\ ~nodes[cur].leaf /\ ~ (K.num < MinDegree)
        /\ \/ Descend([nodes EXCEPT ![cur] = PutElems(@, es)], Child(nodes[cur], n))
           \/ GiveUp("lost")
    BY Zenon DEF RemoveByPrev, Poor
  <1>4. CASE GiveUp("lost")
    BY <1>3, <1>4, GiveUpKeeps
  <1>5. CASE Descend([nodes EXCEPT ![cur] = PutElems(@, es)], Child(nodes[cur], n))
    <2>1. /\ top # None /\ cur \in live /\ nodes \in [Ids -> Node]
          /\ used \in 0..MaxNodes /\ n \in 0..nodes[cur].num
      BY <1>1, <1>2, <1>3, Removal
    <2>2. K = nodes[Child(nodes[cur], n)] /\ K \in Node
      <3>1. Child(nodes[cur], n) \in Ids
        BY <1>2, <1>3, <2>1, KidFacts
      <3> QED
        BY <2>1, <3>1 DEF Kid
    <2> HIDE DEF n, K
    <2>3. K.num >= MinDegree /\ K.num - 2 \in 0..(Order - 1)
      BY <1>3, <2>2, NodeFacts, Degree
    <2>4. \A i \in DOMAIN es : es[i].ref \in Nat /\ es[i].key \in Nat
      BY <2>2, <2>3, ElemIn
    <2> HIDE DEF es
    <2> QED
      BY <1>1, <1>2, <1>3, <1>5, <2>1, <2>2, <2>3, <2>4, ReplaceKeeps
  <1> QED
    BY <1>3, <1>4, <1>5

LEMMA RemoveByNextKeeps ==
  ASSUME IInv, RemoveByNext
  PROVE  IInv'
  <1>1. TypeOK
    BY DEF IInv
  <1>2. PICK lev \in [Ids -> Nat], live \in SUBSET Ids :
          /\ Shape(nodes, used, top, lev, live)
          /\ Place(nodes, root, top, pc, cur, live)
    BY DEF IInv
  <1> DEFINE n == At + 1
             K == Kid(n)
             es == [i \in {At} |-> Elem(K, 0)]
  <1>3. /\ pc = "remove" /\ ~nodes[cur].leaf /\ ~ (K.num < MinDegree)
        /\ At < nodes[cur].num
        /\ \/ Descend([nodes EXCEPT ![cur] = PutElems(@, es)], Child(nodes[cur], n))
           \/ GiveUp("loop")
    BY Zenon DEF RemoveByNext, Poor, Here
  <1>4. CASE GiveUp("loop")
    BY <1>3, <1>4, GiveUpKeeps
  <1>5. CASE Descend([nodes EXCEPT ![cur] = PutElems(@, es)], Child(nodes[cur], n))
    <2>1. /\ top # None /\ cur \in live /\ nodes \in [Ids -> Node]
          /\ used \in 0..MaxNodes /\ n \in 0..nodes[cur].num
      BY <1>1, <1>2, <1>3, Removal
    <2>2. K = nodes[Child(nodes[cur], n)] /\ K \in Node
      <3>1. Child(nodes[cur], n) \in Ids
        BY <1>2, <1>3, <2>1, KidFacts
      <3> QED
        BY <2>1, <3>1 DEF Kid
    <2> HIDE DEF n, K
    <2>3. K.num >= MinDegree /\ 0 \in 0..(Order - 1)
      BY <1>3, <2>2, NodeFacts, Degree
    <2>4. \A i \in DOMAIN es : es[i].ref \in Nat /\ es[i].key \in Nat
      BY <2>2, <2>3, ElemIn
    <2> HIDE DEF es
    <2> QED
      BY <1>1, <1>2, <1>3, <1>5, <2>1, <2>2, <2>3, <2>4, ReplaceKeeps
  <1> QED
    BY <1>3, <1>4, <1>5

LEMMA RemoveByMergeKeeps ==
  ASSUME IInv, RemoveByMerge
  PROVE  IInv'
  <1>1. TypeOK
    BY DEF IInv
  <1>2. PICK lev \in [Ids -> Nat], live \in SUBSET Ids :
          /\ Shape(nodes, used, top, lev, live)
          /\ Place(nodes, root, top, pc, cur, live)
    BY DEF IInv
  <1> DEFINE n == At
             ms == Merge(nodes, cur, n)
             d == Child(ms[cur], n)
  <1>3. /\ pc = "remove" /\ ~nodes[cur].leaf /\ n < nodes[cur].num
        /\ nodes[Child(nodes[cur], n)].num < MinDegree
        /\ nodes[Child(nodes[cur], n + 1)].num < MinDegree
        /\ Descend(ms, d)
    BY Zenon DEF RemoveByMerge, Poor, Here, Kid
  <1>4. /\ top # None /\ cur \in live /\ nodes \in [Ids -> Node]
        /\ used \in 0..MaxNodes /\ n \in 0..(nodes[cur].num - 1)
        /\ cur # top => nodes[cur].num >= MinDegree
    BY <1>1, <1>2, <1>3, Removal
  <1>5. Filled(ms, used, top, lev, live, d)
    <2> HIDE DEF n
    <2> QED
      BY <1>2, <1>3, <1>4, MergeKeeps
  <1> HIDE DEF ms, d
  <1> QED
    BY <1>1, <1>2, <1>3, <1>4, <1>5, DescendKeeps

LEMMA RemoveBelowKeeps ==
  ASSUME IInv, RemoveBelow
  PROVE  IInv'
  <1>1. TypeOK
    BY DEF IInv
  <1>2. PICK lev \in [Ids -> Nat], live \in SUBSET Ids :
          /\ Shape(nodes, used, top, lev, live)
          /\ Place(nodes, root, top, pc, cur, live)
    BY DEF IInv
  <1> DEFINE n == At
             c == Child(nodes[cur], n)
             ms == IF nodes[c].num < MinDegree THEN Fill(nodes, cur, n) ELSE nodes
             d == Child(ms[cur],
                    IF n = nodes[cur].num /\ n > ms[cur].num THEN n - 1 ELSE n)
  <1>3. pc = "remove" /\ ~nodes[cur].leaf /\ Descend(ms, d)
    BY Zenon DEF RemoveBelow, Poor, Kid
  <1>4. /\ top # None /\ cur \in live /\ nodes \in [Ids -> Node]
        /\ used \in 0..MaxNodes /\ n \in 0..nodes[cur].num
        /\ cur # top => nodes[cur].num >= MinDegree
        /\ nodes[cur].num \in Nat /\ nodes[cur].num >= 1
    BY <1>1, <1>2, <1>3, Removal
  <1> HIDE DEF n
  <1>5. Filled(ms, used, top, lev, live, d)
    <2>1. CASE nodes[c].num < MinDegree
      <3>1. ms = Fill(nodes, cur, n)
        BY <2>1
      <3> QED
        BY <1>2, <1>3, <1>4, <2>1, <3>1, FillKeeps
    <2>2. CASE ~ (nodes[c].num < MinDegree)
      <3>1. ms = nodes /\ d = c
        BY <1>4, <2>2
      <3>2. c \in live /\ c \in Ids /\ c # top
        BY <1>2, <1>3, <1>4, KidFacts
      <3>3. nodes[c].num >= MinDegree
        BY <1>4, <2>2, <3>2, NodeFacts, Degree
      <3> HIDE DEF ms, d, c
      <3> QED
        BY <1>2, <1>4, <3>1, <3>2, <3>3 DEF Filled
    <2> QED
      BY <2>1, <2>2
  <1> HIDE DEF ms, d
  <1> QED
    BY <1>1, <1>2, <1>3, <1>4, <1>5, DescendKeeps

LEMMA Inductive ==
  IInv /\ [Next]_vars => IInv'
  <1> SUFFICES ASSUME IInv, [Next]_vars
               PROVE  IInv'
    OBVIOUS
  <1>1. ASSUME NEW r \in Rows, InsertFirst(r) \/ InsertAtRoot(r) \/ InsertPromote(r)
        PROVE  IInv'
    BY <1>1, InsertFirstKeeps, InsertAtRootKeeps, InsertPromoteKeeps
  <1>2. CASE InsertLeaf
    BY <1>2, InsertLeafKeeps
  <1>3. CASE InsertInner
    BY <1>3, InsertInnerKeeps
  <1>4. ASSUME NEW r \in Rows, RemoveStart(r)
        PROVE  IInv'
    BY <1>4, RemoveStartKeeps
  <1>5. CASE RemoveFromLeaf
    BY <1>5, RemoveFromLeafKeeps
  <1>6. CASE RemoveMissing
    BY <1>6, RemoveMissingKeeps
  <1>7. CASE RemoveByPrev
    BY <1>7, RemoveByPrevKeeps
  <1>8. CASE RemoveByNext
    BY <1>8, RemoveByNextKeeps
  <1>9. CASE RemoveByMerge
    BY <1>9, RemoveByMergeKeeps
  <1>10. CASE RemoveBelow
    BY <1>10, RemoveBelowKeeps
  <1>11. CASE UNCHANGED vars
    <2>1. TypeOK'
      BY <1>11 DEF IInv, TypeOK, vars
    <2>2. \E lev \in [Ids -> Nat], live \in SUBSET Ids :
            /\ Shape(nodes', used', top', lev, live)
            /\ Place(nodes', root', top', pc', cur', live)
      BY <1>11 DEF IInv, vars
    <2> QED
      BY <2>1, <2>2 DEF IInv
  <1> QED
    BY <1>1, <1>2, <1>3, <1>4, <1>5, <1>6, <1>7, <1>8, <1>9, <1>10, <1>11
       DEF Next, Inserting, Removing

-----------------------------------------------------------------------------
(* Whatever tree::insert() and tree::remove() do, every block has a height *)
(* by which the children of an inner node are all one lower, the nodes     *)
(* that can be reached are at least half full, and an operation under way  *)
(* is at a node that can take what it is about to do: insert_non_full() at *)
(* one that is not full, node::remove() at one with a key to spare.        *)
THEOREM Invariance ==
  Spec => []IInv
  <1>1. Init => IInv
    BY Initially
  <1>2. IInv /\ [Next]_vars => IInv'
    BY Inductive
  <1> QED
    BY <1>1, <1>2, PTL DEF Spec

(* No split, borrow or merge of btree.cpp, in any order of inserts and     *)
(* removals and for every order of the tree, gives a node more keys than   *)
(* its block has room for, and put_element() and put_child_offset() never  *)
(* leave a value of the wrong kind behind.                                 *)
THEOREM TypeCorrect ==
  Spec => []TypeOK
  <1>1. IInv => TypeOK
    BY DEF IInv
  <1> QED
    BY <1>1, Invariance, PTL

(* child_at() of an inner node always leads to a block that was handed     *)
(* out, although merge() leaves one offset twice in the parent.            *)
THEOREM ChildrenCorrect ==
  Spec => []ChildrenExist
  <1>1. IInv => ChildrenExist
    BY DEF IInv, Shape, Fit, ChildrenExist
  <1> QED
    BY <1>1, Invariance, PTL

(* What the definition of Height says of a function.                       *)
IsHeight(f) ==
  f = [b \in 1..used |-> IF nodes[b].leaf THEN 0 ELSE 1 + f[Child(nodes[b], 0)]]

(* The recursive function of Height exists and is the height of Shape.     *)
LEMMA HeightFacts ==
  ASSUME NEW lev \in [Ids -> Nat], 1..used \subseteq Ids,
         \A b \in 1..used : Fit(nodes[b], lev[b], 1..used, lev),
         \A b \in 1..used : 0 \in 0..nodes[b].num
  PROVE  \A b \in 1..used : Height[b] = lev[b]
  <1>1. ASSUME NEW b \in 1..used
        PROVE  /\ nodes[b].leaf => lev[b] = 0
               /\ ~nodes[b].leaf => /\ Child(nodes[b], 0) \in 1..used
                                    /\ lev[Child(nodes[b], 0)] \in Nat
                                    /\ lev[b] = 1 + lev[Child(nodes[b], 0)]
    <2>1. Fit(nodes[b], lev[b], 1..used, lev) /\ 0 \in 0..nodes[b].num
      OBVIOUS
    <2>2. ASSUME ~nodes[b].leaf
          PROVE  /\ Child(nodes[b], 0) \in 1..used
                 /\ lev[b] = lev[Child(nodes[b], 0)] + 1
      BY <2>1, <2>2 DEF Fit
    <2> QED
      BY <2>1, <2>2 DEF Fit
  <1> DEFINE g == [b \in 1..used |-> lev[b]]
             X(f, b) == IF nodes[b].leaf THEN 0 ELSE 1 + f[Child(nodes[b], 0)]
  <1>2. IsHeight(g)
    <2>1. \A b \in 1..used : X(g, b) = lev[b]
      BY <1>1
    <2>2. g = [b \in 1..used |-> X(g, b)]
      BY <2>1
    <2> QED
      BY <2>2, Zenon DEF IsHeight
  <1>3. IsHeight(Height)
    <2>1. Height = CHOOSE f : IsHeight(f)
      BY Zenon DEF Height, IsHeight
    <2> HIDE DEF g
    <2> QED
      BY <1>2, <2>1, Zenon
  <1>4. ASSUME NEW b \in 1..used
        PROVE  Height[b] = IF nodes[b].leaf THEN 0 ELSE 1 + Height[Child(nodes[b], 0)]
    BY <1>3 DEF IsHeight
  <1> DEFINE Bad == {b \in 1..used : Height[b] # lev[b]}
             Mus == {lev[b] : b \in Bad}
  <1> SUFFICES ASSUME Bad # {}
               PROVE  FALSE
    OBVIOUS
  <1>5. Bad \subseteq 1..used /\ \A b \in 1..used : b \in Bad <=> Height[b] # lev[b]
    OBVIOUS
  <1> HIDE DEF Bad
  <1>6. Mus \subseteq Nat /\ Mus # {}
    BY <1>5
  <1>7. PICK m \in Mus : \A y \in Mus : m <= y
    <2> HIDE DEF Mus
    <2> QED
      BY <1>6, NatMin
  <1>8. PICK b \in Bad : m = lev[b]
    BY <1>7
  <1>9. b \in 1..used /\ Height[b] # lev[b]
    BY <1>5, <1>8
  <1>10. ~nodes[b].leaf
    BY <1>1, <1>4, <1>9
  <1> DEFINE c == Child(nodes[b], 0)
  <1>11. c \in 1..used /\ lev[c] \in Nat /\ lev[b] = 1 + lev[c] /\ Height[b] = 1 + Height[c]
    BY <1>1, <1>4, <1>9, <1>10
  <1>12. lev[c] # Height[c]
    BY <1>9, <1>11
  <1>13. lev[c] \in Mus
    BY <1>5, <1>11, <1>12
  <1> QED
    BY <1>7, <1>8, <1>11, <1>13

(* tree::insert() and tree::remove() keep the tree balanced.               *)
THEOREM BalanceCorrect ==
  Spec => []Balanced
  <1>1. IInv => Balanced
    <2> SUFFICES ASSUME IInv, top # None
                 PROVE  Balanced
      BY DEF Balanced
    <2>1. PICK lev \in [Ids -> Nat], live \in SUBSET Ids :
            Shape(nodes, used, top, lev, live)
      BY DEF IInv
    <2>2. 1..used \subseteq Ids /\ \A b \in 1..used : 0 \in 0..nodes[b].num
      <3>1. nodes \in [Ids -> Node] /\ used \in 0..MaxNodes
        BY DEF IInv, TypeOK
      <3>2. 1..used \subseteq Ids
        BY <3>1, BTreeAssumption DEF Ids
      <3>3. \A x \in Node : 0 \in 0..x.num
        BY BTreeAssumption DEF Node
      <3> QED
        BY <3>1, <3>2, <3>3
    <2>3. /\ live \subseteq 1..used /\ top \in live
          /\ \A b \in 1..used : Fit(nodes[b], lev[b], 1..used, lev)
          /\ \A b \in live : Fit(nodes[b], lev[b], live, lev)
          /\ \A b \in live \ {top} : nodes[b].num >= MinDegree - 1
      BY <2>1 DEF Shape
    <2>4. \A b \in 1..used : Height[b] = lev[b]
      BY <2>2, <2>3, HeightFacts
    <2>5. ASSUME NEW b \in live, ~nodes[b].leaf, NEW i \in 0..nodes[b].num
          PROVE  /\ Child(nodes[b], i) \in live
                 /\ Height[b] = Height[Child(nodes[b], i)] + 1
      <3>1. Child(nodes[b], i) \in live /\ lev[b] = lev[Child(nodes[b], i)] + 1
        BY <2>3, <2>5 DEF Fit
      <3> QED
        BY <2>3, <2>4, <3>1
    <2> DEFINE gone == (1..used) \ live
    <2>6. gone \in SUBSET (1..used) /\ (1..used) \ gone = live
      BY <2>3
    <2>7. /\ \A b \in live \ {top} : nodes[b].num >= MinDegree - 1
          /\ \A b \in live : ~nodes[b].leaf => \A i \in 0..nodes[b].num :
               /\ Child(nodes[b], i) \in live
               /\ Height[b] = Height[Child(nodes[b], i)] + 1
      BY <2>3, <2>5
    <2> HIDE DEF gone
    <2>8. /\ gone \in SUBSET (1..used)
          /\ top \in (1..used) \ gone
          /\ \A b \in ((1..used) \ gone) \ {top} : nodes[b].num >= MinDegree - 1
          /\ \A b \in (1..used) \ gone : ~nodes[b].leaf => \A i \in 0..nodes[b].num :
               /\ Child(nodes[b], i) \in (1..used) \ gone
               /\ Height[b] = Height[Child(nodes[b], i)] + 1
      BY <2>3, <2>6, <2>7, Zenon
    <2> QED
      BY <2>8, Zenon DEF Balanced
  <1> QED
    BY <1>1, Invariance, PTL

=============================================================================
