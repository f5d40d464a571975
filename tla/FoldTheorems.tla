---------------------------- MODULE FoldTheorems ----------------------------
(***************************************************************************)
(* A loop of the code over a vector is a FoldLeft in the models.  Whatever *)
(* holds before such a loop and is kept by every round holds after it.     *)
(* The round and what it keeps are operators, given by the INSTANCE of the *)
(* module that uses this one; c is what they have besides their own        *)
(* arguments.                                                              *)
(***************************************************************************)
EXTENDS Integers, SequencesExt, WellFoundedInduction, TLAPS

(* The least-number principle, which stands for induction below.           *)
LEMMA NatMin ==
  ASSUME NEW T, T \subseteq Nat, T # {}
  PROVE  \E x \in T : \A y \in T : x <= y
  <1> DEFINE R == OpToRel(<, Nat)
  <1>1. IsWellFoundedOn(R, Nat)
    BY NatLessThanWellFounded, Zenon
  <1>2. \A x, y \in Nat : <<y, x>> \in R <=> y < x
    BY Zenon DEF OpToRel
  <1> HIDE DEF R
  <1>3. PICK x \in T : \A y \in T : ~ (<<y, x>> \in R)
    BY <1>1, WFMin, Zenon
  <1>4. ASSUME NEW y \in T
        PROVE  x <= y
    <2>1. x \in Nat /\ y \in Nat
      OBVIOUS
    <2>2. ~ (y < x)
      BY <1>2, <1>3, <2>1
    <2> QED
      BY <2>1, <2>2
  <1> QED
    BY <1>4

CONSTANTS
  Round(_, _, _),  \* Round(c, acc, x): acc after the round with element x
  Kept(_, _, _)    \* Kept(c, i, acc): what is known of acc after i rounds

Fold(c, base, seq) == FoldLeft(LAMBDA acc, x : Round(c, acc, x), base, seq)

(* The function in the definition of FoldLeft, on the subsets of 1..m.     *)
IsIter(g, c, base, seq, m) ==
  g = [s \in SUBSET (1..m) |->
         IF s = {} THEN base ELSE Round(c, g[s \ {Max(s)}], seq[Max(s)])]

LEMMA MaxUpTo ==
  ASSUME NEW m \in Nat, NEW s \in SUBSET (1..m), s # {}
  PROVE  Max(s) \in s /\ \A y \in s : y <= Max(s)
  <1> DEFINE T == {m - x : x \in s}
  <1>1. T \subseteq Nat /\ T # {}
    <2>1. \A x \in s : m - x \in Nat
      OBVIOUS
    <2> QED
      BY <2>1
  <1>2. PICK t \in T : \A y \in T : t <= y
    <2> HIDE DEF T
    <2> QED
      BY <1>1, NatMin
  <1>3. PICK x \in s : t = m - x
    BY <1>2
  <1>4. ASSUME NEW y \in s PROVE x >= y
    <2>1. m - y \in T
      OBVIOUS
    <2>2. t <= m - y
      <3> HIDE DEF T
      <3> QED
        BY <1>2, <2>1
    <2> QED
      BY <1>3, <2>2
  <1>5. \E z \in s : \A y \in s : z >= y
    BY <1>4
  <1>6. Max(s) \in s /\ \A y \in s : Max(s) >= y
    BY <1>5, Zenon DEF Max
  <1> QED
    BY <1>6

LEMMA IterTo ==
  ASSUME NEW c, NEW base, NEW seq, NEW m \in Nat
  PROVE  \E g : IsIter(g, c, base, seq, m)
  <1> DEFINE Bad == {n \in Nat : ~ \E g : IsIter(g, c, base, seq, n)}
  <1> SUFFICES ASSUME Bad # {} PROVE FALSE
    OBVIOUS
  <1>1. PICK n \in Bad : \A y \in Bad : n <= y
    <2>1. Bad \subseteq Nat
      OBVIOUS
    <2> HIDE DEF Bad
    <2> QED
      BY <2>1, NatMin
  <1>2. n \in Nat
    OBVIOUS
  <1>3. CASE n = 0
    <2> DEFINE g == [s \in SUBSET (1..0) |-> base]
    <2>1. \A s \in SUBSET (1..0) : s = {}
      OBVIOUS
    <2>2. IsIter(g, c, base, seq, 0)
      BY <2>1 DEF IsIter
    <2> HIDE DEF g
    <2> QED
      BY <1>3, <2>2
  <1>4. CASE n # 0
    <2>1. n - 1 \in Nat /\ n - 1 \notin Bad
      <3>1. n - 1 \in Nat /\ ~ (n <= n - 1)
        BY <1>2, <1>4
      <3> HIDE DEF Bad
      <3> QED
        BY <3>1, <1>1
    <2>2. PICK h : IsIter(h, c, base, seq, n - 1)
      BY <2>1
    <2> DEFINE body(f, s) == IF s = {} THEN base ELSE Round(c, f[s \ {Max(s)}], seq[Max(s)])
               g == [s \in SUBSET (1..n) |-> body(h, s)]
    <2>3. \A s \in SUBSET (1..(n - 1)) : h[s] = body(h, s)
      <3> DEFINE D == SUBSET (1..(n - 1))
      <3>1. h = [s \in D |-> body(h, s)]
        BY <2>2 DEF IsIter
      <3> HIDE DEF D, body
      <3>2. \A s \in D : h[s] = body(h, s)
        BY <3>1
      <3> QED
        BY <3>2 DEF D
    <2>4. ASSUME NEW s \in SUBSET (1..n), s # {}
          PROVE  s \ {Max(s)} \in SUBSET (1..(n - 1)) /\ s \ {Max(s)} \in SUBSET (1..n)
      <3>1. Max(s) \in s /\ \A y \in s : y <= Max(s)
        BY <1>2, <2>4, MaxUpTo
      <3>2. Max(s) \in 1..n
        BY <3>1
      <3>3. ASSUME NEW y \in s \ {Max(s)} PROVE y \in 1..(n - 1)
        <4>1. y \in 1..n /\ y <= Max(s) /\ y # Max(s)
          BY <3>1
        <4> QED
          BY <1>2, <3>2, <4>1
      <3> QED
        BY <3>3
    <2>5. \A s \in SUBSET (1..(n - 1)) : s \in SUBSET (1..n)
      BY <1>2
    <2>6. \A s \in SUBSET (1..(n - 1)) : g[s] = h[s]
      <3> HIDE DEF body
      <3> QED
        BY <2>3, <2>5
    <2>7. ASSUME NEW s \in SUBSET (1..n) PROVE body(h, s) = body(g, s)
      <3>1. CASE s = {}
        BY <3>1
      <3>2. CASE s # {}
        <4>1. g[s \ {Max(s)}] = h[s \ {Max(s)}]
          <5> HIDE DEF g
          <5> QED
            BY <2>4, <2>6, <3>2
        <4> QED
          <5> HIDE DEF g
          <5> QED
            BY <4>1
      <3> QED
        BY <3>1, <3>2
    <2>8. g = [s \in SUBSET (1..n) |-> body(g, s)]
      <3> DEFINE D == SUBSET (1..n)
                 k == [s \in D |-> body(g, s)]
      <3>1. \A s \in D : body(h, s) = body(g, s)
        BY <2>7
      <3>2. g = [s \in D |-> body(h, s)]
        OBVIOUS
      <3> HIDE DEF D, body, g
      <3>3. [s \in D |-> body(h, s)] = k
        BY <3>1
      <3>4. g = k
        BY <3>2, <3>3
      <3> QED
        BY <3>4 DEF D
    <2>9. IsIter(g, c, base, seq, n)
      <3> HIDE DEF g
      <3> QED
        BY <2>8 DEF IsIter
    <2> HIDE DEF g
    <2> QED
      BY <2>9
  <1> QED
    BY <1>3, <1>4

(* What holds of the base and is kept by the rounds holds of the fold.     *)
THEOREM FoldKeeps ==
  ASSUME NEW c, NEW base, NEW S, NEW seq \in Seq(S), Kept(c, 0, base),
         \A i \in 1..Len(seq) : \A acc :
           Kept(c, i - 1, acc) => Kept(c, i, Round(c, acc, seq[i]))
  PROVE  Kept(c, Len(seq), Fold(c, base, seq))
  <1> DEFINE n == Len(seq)
             body(f, s) == IF s = {} THEN base ELSE Round(c, f[s \ {Max(s)}], seq[Max(s)])
             g == CHOOSE f : f = [s \in SUBSET (1..n) |-> body(f, s)]
             Bad == {i \in 0..n : ~ Kept(c, i, g[1..i])}
  <1>1. n \in Nat /\ DOMAIN seq = 1..n
    OBVIOUS
  <1>2. Fold(c, base, seq) = g[1..n]
    BY <1>1, Zenon DEF Fold, FoldLeft, MapThenFoldSet
  <1>3. g = [s \in SUBSET (1..n) |-> body(g, s)]
    <2>1. \E f : IsIter(f, c, base, seq, n)
      BY <1>1, IterTo, Zenon
    <2>2. \E f : f = [s \in SUBSET (1..n) |-> body(f, s)]
      BY <2>1, Zenon DEF IsIter
    <2> HIDE DEF body
    <2> QED
      BY <2>2, Zenon
  <1> HIDE DEF g, n
  <1>4. \A s \in SUBSET (1..n) : g[s] = body(g, s)
    <2> DEFINE D == SUBSET (1..n)
    <2>1. g = [s \in D |-> body(g, s)]
      BY <1>3
    <2> HIDE DEF D, body
    <2>2. \A s \in D : g[s] = body(g, s)
      BY <2>1
    <2> QED
      BY <2>2 DEF D
  <1>5. Bad = {}
    <2> SUFFICES ASSUME Bad # {} PROVE FALSE
      OBVIOUS
    <2>1. PICK i \in Bad : \A y \in Bad : i <= y
      <3>1. Bad \subseteq Nat
        BY <1>1
      <3> HIDE DEF Bad
      <3> QED
        BY <3>1, NatMin
    <2>2. i \in 0..n /\ ~ Kept(c, i, g[1..i])
      BY <2>1
    <2>3. CASE i = 0
      <3>1. 1..i = {} /\ 1..i \in SUBSET (1..n)
        BY <2>3
      <3>2. g[1..i] = base
        BY <3>1, <1>4
      <3> QED
        BY <2>2, <2>3, <3>2
    <2>4. CASE i # 0
      <3>1. i - 1 \in 0..n /\ i \in 1..n /\ ~ (i <= i - 1)
        BY <1>1, <2>2, <2>4
      <3>2. Kept(c, i - 1, g[1..(i - 1)])
        <4>1. i - 1 \notin Bad
          <5> HIDE DEF Bad
          <5> QED
            BY <2>1, <3>1
        <4> QED
          BY <3>1, <4>1
      <3>3. 1..i \in SUBSET (1..n) /\ 1..i # {} /\ i \in Nat /\ 1..i \in SUBSET (1..i)
        BY <1>1, <3>1
      <3>4. Max(1..i) = i
        <4>1. Max(1..i) \in 1..i /\ \A y \in 1..i : y <= Max(1..i)
          BY <3>3, MaxUpTo
        <4>2. i \in 1..i
          BY <3>1
        <4>3. i <= Max(1..i)
          BY <4>1, <4>2
        <4> QED
          BY <3>1, <4>1, <4>3
      <3>5. (1..i) \ {i} = 1..(i - 1)
        BY <1>1, <3>1
      <3>6. g[1..i] = Round(c, g[1..(i - 1)], seq[i])
        BY <1>4, <3>3, <3>4, <3>5
      <3>7. Kept(c, i, Round(c, g[1..(i - 1)], seq[i]))
        BY <3>1, <3>2 DEF n
      <3> QED
        BY <2>2, <3>6, <3>7
    <2> QED
      BY <2>3, <2>4
  <1>6. n \in 0..n
    BY <1>1
  <1>7. Kept(c, n, g[1..n])
    BY <1>5, <1>6
  <1> QED
    BY <1>2, <1>7 DEF n
=============================================================================
