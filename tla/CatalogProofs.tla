---------------------------- MODULE CatalogProofs ----------------------------
(***************************************************************************)
(* A catalog of any size is found in as it is meant (FindsItsMessages):    *)
(* the way of a string through a hash table of prime size passes every     *)
(* slot once, so insertion always finds a free one and the lookup meets    *)
(* the string before any free slot; the binary search keeps the message    *)
(* between its bounds.                                                     *)
(*                                                                         *)
(* A recursive function over 0 .. N is a CHOOSE of a function with its     *)
(* equation: Recursion shows that there is one, Induction what its values  *)
(* are.                                                                    *)
(***************************************************************************)
EXTENDS Catalog, FiniteSetTheorems, WellFoundedInduction, TLAPS

(***************************************************************************)
(* Induction over data, without an operator as a parameter.                *)
(***************************************************************************)
LEMMA Least ==
  ASSUME NEW S \in SUBSET Nat, S # {}
  PROVE  \E n \in S : \A m \in S : n <= m
<1>1. IsWellFoundedOn(OpToRel(<, Nat), Nat)
  BY NatLessThanWellFounded
<1>2. PICK n \in S : \A m \in S : ~ (<<m, n>> \in OpToRel(<, Nat))
  BY <1>1, WFMin
<1>3. \A m \in S : ~ (m < n)
  BY <1>2 DEF OpToRel
<1> QED
  BY <1>3

LEMMA Induction ==
  ASSUME NEW N \in Nat, NEW T, 0 \in T, \A n \in 1 .. N : n - 1 \in T => n \in T
  PROVE  \A n \in 0 .. N : n \in T
<1> DEFINE Bad == {n \in 0 .. N : n \notin T}
<1>1. SUFFICES ASSUME Bad # {}
               PROVE  FALSE
  OBVIOUS
<1>2. Bad \in SUBSET Nat
  OBVIOUS
<1>3. PICK n \in Bad : \A m \in Bad : n <= m
  BY <1>1, <1>2, Least
<1>4. n \in 1 .. N /\ n - 1 \in 0 .. N /\ ~ (n <= n - 1)
  BY <1>3
<1> QED
  BY <1>3, <1>4

Iterates(f, N, S, base, step) ==
  /\ f \in [0 .. N -> S] /\ f[0] = base
  /\ \A n \in 1 .. N : f[n] = step[<<n, f[n - 1]>>]

LEMMA Recursion ==
  ASSUME NEW N \in Nat, NEW S, NEW base \in S, NEW step \in [(1 .. N) \X S -> S]
  PROVE  \E f : Iterates(f, N, S, base, step)
<1> DEFINE IsUpTo(f, m) == f[0] = base /\ \A n \in 1 .. m : f[n] = step[<<n, f[n - 1]>>]
           T == {m \in 0 .. N : \E f \in [0 .. m -> S] : IsUpTo(f, m)}
<1>1. 0 \in T
  <2> DEFINE g == [n \in 0 .. 0 |-> base]
  <2>1. g \in [0 .. 0 -> S] /\ IsUpTo(g, 0)
    OBVIOUS
  <2> HIDE DEF g
  <2> QED
    BY <2>1
<1>2. ASSUME NEW m \in 1 .. N, m - 1 \in T
      PROVE  m \in T
  <2>1. PICK f \in [0 .. m - 1 -> S] : IsUpTo(f, m - 1)
    BY <1>2
  <2> DEFINE g == [n \in 0 .. m |-> IF n = m THEN step[<<m, f[m - 1]>>] ELSE f[n]]
  <2>2. g \in [0 .. m -> S]
    <3>1. f[m - 1] \in S /\ step[<<m, f[m - 1]>>] \in S
      BY <2>1
    <3>2. \A n \in 0 .. m : n # m => f[n] \in S
      BY <2>1
    <3> QED
      BY <3>1, <3>2
  <2>3. g[0] = base
    BY <2>1
  <2>4. ASSUME NEW n \in 1 .. m
        PROVE  g[n] = step[<<n, g[n - 1]>>]
    <3>1. g[n - 1] = f[n - 1]
      OBVIOUS
    <3>2. CASE n = m
      <4>1. g[n] = step[<<m, f[m - 1]>>]
        BY <3>2
      <4> QED
        BY <3>1, <3>2, <4>1, Zenon
    <3>3. CASE n # m
      <4>1. n \in 1 .. m - 1 /\ g[n] = f[n]
        BY <3>3
      <4> QED
        BY <2>1, <3>1, <4>1
    <3> QED
      BY <3>2, <3>3
  <2> HIDE DEF g
  <2> QED
    BY <2>2, <2>3, <2>4
<1> HIDE DEF T
<1>3. N \in T
  BY <1>1, <1>2, Induction
<1> QED
  BY <1>3 DEF T, Iterates

LEMMA IteratesEach ==
  ASSUME NEW N \in Nat, NEW S, NEW base, NEW step, NEW f, Iterates(f, N, S, base, step),
         NEW n \in 1 .. N
  PROVE  f[n - 1] \in S /\ f[n] = step[<<n, f[n - 1]>>]
<1>1. n - 1 \in 0 .. N
  OBVIOUS
<1> QED
  BY <1>1, Zenon DEF Iterates
-----------------------------------------------------------------------------
(***************************************************************************)
(* The way of a string through the hash table.                             *)
(***************************************************************************)
LEMMA HashIsNat ==
  ASSUME NEW s \in Seq(Nat)
  PROVE  __hash_string(s) \in Nat
<1> DEFINE hval == CHOOSE h : h = [n \in 0 .. Len(s) |-> IF n = 0 THEN 0 ELSE 16 * h[n - 1] + s[n]]
           N    == Len(s)
           step == [p \in (1 .. N) \X Nat |-> 16 * p[2] + s[p[1]]]
<1>1. N \in Nat /\ \A n \in 1 .. N : s[n] \in Nat
  OBVIOUS
<1> HIDE DEF N
<1>2. PICK f : Iterates(f, N, Nat, 0, step)
  <2>1. step \in [(1 .. N) \X Nat -> Nat] /\ 0 \in Nat
    BY <1>1
  <2> HIDE DEF step
  <2> QED
    BY <1>1, <2>1, Recursion
<1>3. ASSUME NEW n \in 1 .. N
      PROVE  f[n] = 16 * f[n - 1] + s[n]
  <2>1. f[n - 1] \in Nat
    BY <1>1, <1>2 DEF Iterates
  <2>2. f[n] = step[<<n, f[n - 1]>>]
    BY <1>2, Zenon DEF Iterates
  <2> QED
    BY <2>1, <2>2
<1>4. f = [n \in 0 .. N |-> IF n = 0 THEN 0 ELSE 16 * f[n - 1] + s[n]]
  <2> HIDE DEF step
  <2> QED
    BY <1>1, <1>2, <1>3 DEF Iterates
<1>5. hval = [n \in 0 .. N |-> IF n = 0 THEN 0 ELSE 16 * hval[n - 1] + s[n]]
  BY <1>4, Zenon DEF N
<1>6. __hash_string(s) = hval[N]
  BY Zenon DEF __hash_string, N
<1> HIDE DEF hval
<1> DEFINE T == {n \in 0 .. N : hval[n] \in Nat}
<1>7. 0 \in T
  BY <1>1, <1>5
<1>8. ASSUME NEW n \in 1 .. N, n - 1 \in T
      PROVE  n \in T
  <2>1. n \in 0 .. N /\ n # 0 /\ hval[n - 1] \in Nat
    BY <1>1, <1>8
  <2>2. hval[n] = 16 * hval[n - 1] + s[n]
    BY <1>5, <2>1, Zenon
  <2>3. s[n] \in Nat
    BY <1>1
  <2>4. hval[n] \in Nat
    BY <2>1, <2>2, <2>3
  <2> QED
    BY <2>1, <2>4
<1> HIDE DEF T
<1>9. \A n \in 0 .. N : n \in T
  BY <1>1, <1>7, <1>8, Induction, Zenon
<1> QED
  BY <1>1, <1>6, <1>9 DEF T

LEMMA Remainder ==
  ASSUME NEW x \in Nat, NEW m \in Nat, m > 0
  PROVE  x % m \in 0 .. m - 1
  BY Z3

LEMMA IncrInRange ==
  ASSUME NEW size \in Nat, size > 2, NEW s \in Seq(Nat)
  PROVE  incr(size, s) \in 1 .. size - 2 /\ __hash_string(s) % size \in 0 .. size - 1
<1> DEFINE h == __hash_string(s)
<1>1. h \in Nat
  BY HashIsNat
<1> HIDE DEF h
<1>2. size - 2 \in Nat /\ size - 2 > 0 /\ size > 0
  OBVIOUS
<1>3. h % (size - 2) \in 0 .. (size - 2) - 1 /\ h % size \in 0 .. size - 1
  BY <1>1, <1>2, Remainder
<1>4. 1 + (h % (size - 2)) \in 1 .. size - 2
  <2> DEFINE r == h % (size - 2)
  <2> HIDE DEF r
  <2>1. r \in 0 .. (size - 2) - 1
    BY <1>3 DEF r
  <2>2. 1 + r \in 1 .. size - 2
    BY <2>1
  <2> QED
    BY <2>2 DEF r
<1> QED
  BY <1>3, <1>4, Zenon DEF incr, h

LEMMA NextInRange ==
  ASSUME NEW size \in Nat, size > 2, NEW s \in Seq(Nat), NEW idx \in 0 .. size - 1
  PROVE  NextIndex(size, s, idx) \in 0 .. size - 1
<1> DEFINE b == incr(size, s)
<1>1. b \in 1 .. size - 2
  BY IncrInRange
<1> HIDE DEF b
<1>2. (IF idx >= size - b THEN idx - (size - b) ELSE idx + b) \in 0 .. size - 1
  BY <1>1
<1> QED
  BY <1>2, Zenon DEF NextIndex, b

LEMMA WayInRange ==
  ASSUME NEW size \in Nat, size > 2, NEW s \in Seq(Nat)
  PROVE  /\ Way(size, s) \in [0 .. size - 1 -> 0 .. size - 1]
         /\ Way(size, s)[0] = __hash_string(s) % size
         /\ \A k \in 1 .. size - 1 : Way(size, s)[k] = NextIndex(size, s, Way(size, s)[k - 1])
<1> DEFINE first == __hash_string(s) % size
           way   == CHOOSE w : w = [k \in 0 .. size - 1 |->
                      IF k = 0 THEN first ELSE NextIndex(size, s, w[k - 1])]
           N     == size - 1
           step  == [p \in (1 .. N) \X (0 .. N) |-> NextIndex(size, s, p[2])]
<1>0. N \in Nat
  OBVIOUS
<1>1. first \in 0 .. N /\ \A idx \in 0 .. N : NextIndex(size, s, idx) \in 0 .. N
  BY IncrInRange, NextInRange
<1> HIDE DEF N, first
<1>2. PICK f : Iterates(f, N, 0 .. N, first, step)
  <2>1. step \in [(1 .. N) \X (0 .. N) -> 0 .. N]
    BY <1>1
  <2> HIDE DEF step
  <2> QED
    BY <1>0, <1>1, <2>1, Recursion
<1>3. ASSUME NEW k \in 1 .. N
      PROVE  f[k] = NextIndex(size, s, f[k - 1])
  <2>1. f[k - 1] \in 0 .. N /\ f[k] = step[<<k, f[k - 1]>>]
    <3> HIDE DEF step
    <3> QED
      BY <1>0, <1>2, IteratesEach
  <2> QED
    BY <2>1
<1>4. f = [k \in 0 .. N |-> IF k = 0 THEN first ELSE NextIndex(size, s, f[k - 1])]
  <2> HIDE DEF step
  <2> QED
    BY <1>0, <1>2, <1>3 DEF Iterates
<1>5. way = [k \in 0 .. N |-> IF k = 0 THEN first ELSE NextIndex(size, s, way[k - 1])]
  BY <1>4, Zenon DEF N
<1>6. Way(size, s) = way
  BY Zenon DEF Way, first
<1> HIDE DEF way
<1> DEFINE T == {k \in 0 .. N : way[k] \in 0 .. N}
<1>7. 0 \in T /\ way[0] = first
  BY <1>0, <1>1, <1>5
<1>8. ASSUME NEW k \in 1 .. N
      PROVE  way[k] = NextIndex(size, s, way[k - 1])
  <2>1. k \in 0 .. N /\ k # 0
    BY <1>0
  <2> QED
    BY <1>5, <2>1, Zenon
<1>9. ASSUME NEW k \in 1 .. N, k - 1 \in T
      PROVE  k \in T
  <2>1. k \in 0 .. N
    BY <1>0
  <2>2. way[k - 1] \in 0 .. N
    BY <1>9
  <2>3. way[k] \in 0 .. N
    BY <1>1, <1>8, <2>2, Zenon
  <2> QED
    BY <2>1, <2>3
<1> HIDE DEF T
<1>10. \A k \in 0 .. N : k \in T
  BY <1>0, <1>7, <1>9, Induction, Zenon
<1>11. way \in [0 .. N -> 0 .. N]
  BY <1>5, <1>10 DEF T
<1> QED
  BY <1>6, <1>7, <1>8, <1>11, Zenon DEF N, first

(* The multiples k * b, with k and b below a prime, are no multiples of it. *)
LEMMA NoMultiple ==
  ASSUME NEW p \in Nat, Prime(p), NEW b \in 1 .. p - 1, NEW k \in 1 .. p - 1, NEW c \in Int
  PROVE  k * b # c * p
<1> DEFINE D == {d \in 1 .. p - 1 : \E x \in Int : d * b = x * p}
<1>1. SUFFICES ASSUME D # {}
               PROVE  FALSE
  OBVIOUS
<1>2. PICK d \in D : \A e \in D : d <= e
  <2>1. D \in SUBSET Nat
    OBVIOUS
  <2> HIDE DEF D
  <2> QED
    BY <1>1, <2>1, Least
<1>3. PICK x \in Int : d * b = x * p
  OBVIOUS
<1>4. d \in 1 .. p - 1
  OBVIOUS
<1>5. CASE d = 1
  <2>1. b = x * p
    BY <1>3, <1>5
  <2>2. CASE x <= 0
    <3>1. x * p <= 0
      BY <2>2
    <3> QED
      BY <2>1, <3>1
  <2>3. CASE x > 0
    <3>1. x * p >= p
      BY <2>3
    <3> QED
      BY <2>1, <3>1
  <2> QED
    BY <2>2, <2>3
<1>6. CASE d # 1
  <2>1. PICK q \in Nat, r \in 0 .. d - 1 : p = q * d + r
    <3>1. p = (p \div d) * d + (p % d) /\ p \div d \in Nat /\ p % d \in 0 .. d - 1
      BY <1>4, Z3
    <3> QED
      BY <3>1
  <2>2. CASE r = 0
    <3>1. p = q * d
      BY <2>1, <2>2
    <3>2. d \in 2 .. p - 1
      BY <1>4, <1>6
    <3>3. q \in 2 .. p - 1
      <4>1. q # 0
        BY <3>1, <3>2
      <4>2. q # 1
        BY <3>1, <3>2
      <4>3. q * d >= q * 2
        BY <3>2
      <4> QED
        BY <3>1, <4>1, <4>2, <4>3
    <3> QED
      BY <3>1, <3>2, <3>3 DEF Prime
  <2>3. CASE r # 0
    <3>1. r \in 1 .. p - 1 /\ r < d
      BY <1>4, <2>3
    <3>2. r * b = (b - q * x) * p
      <4>1. r = p - q * d
        BY <2>1
      <4>2. r * b = p * b - q * (d * b)
        BY <4>1
      <4>3. q * (x * p) = (q * x) * p
        OBVIOUS
      <4> QED
        BY <1>3, <4>2, <4>3
    <3>3. b - q * x \in Int
      OBVIOUS
    <3>4. r \in D
      BY <3>1, <3>2, <3>3
    <3> QED
      BY <1>2, <3>1, <3>4
  <2> QED
    BY <2>2, <2>3
<1> QED
  BY <1>5, <1>6

LEMMA WayAt ==
  ASSUME NEW size \in Nat, size > 2, NEW s \in Seq(Nat), NEW k \in 0 .. size - 1
  PROVE  \E c \in Int : Way(size, s)[k] = (__hash_string(s) % size) + k * incr(size, s) - c * size
<1> DEFINE way   == Way(size, s)
           first == __hash_string(s) % size
           b     == incr(size, s)
           N     == size - 1
           At(n, c) == way[n] = first + n * b - c * size
           T     == {n \in 0 .. N : \E c \in Int : At(n, c)}
<1>1. /\ way \in [0 .. N -> 0 .. N] /\ way[0] = first
      /\ \A n \in 1 .. N : way[n] = NextIndex(size, s, way[n - 1])
  BY WayInRange, Zenon
<1>2. b \in Int /\ first \in Int /\ N \in Nat
  BY IncrInRange
<1>3. \A n \in 1 .. N : n \in 0 .. N /\ n - 1 \in 0 .. N /\ n \in Int /\ n - 1 \in Int
  BY <1>2
<1>4. \A idx \in Int : \/ NextIndex(size, s, idx) = idx + b - size
                       \/ NextIndex(size, s, idx) = idx + b
  BY <1>2 DEF NextIndex
<1> HIDE DEF way, first, b
<1>5. 0 \in T
  <2>1. way[0] = first + 0 * b - 0 * size /\ 0 \in 0 .. N
    BY <1>1, <1>2
  <2>2. At(0, 0)
    BY <2>1
  <2> HIDE DEF At
  <2> QED
    BY <2>1, <2>2
<1>6. ASSUME NEW n \in 1 .. N, n - 1 \in T
      PROVE  n \in T
  <2>1. PICK c \in Int : At(n - 1, c)
    <3> HIDE DEF At
    <3> QED
      BY <1>6
  <2>2. way[n - 1] \in Int /\ way[n] = NextIndex(size, s, way[n - 1])
    <3>1. n - 1 \in 0 .. N
      BY <1>3
    <3>2. way[n - 1] \in 0 .. N
      BY <1>1, <3>1, Zenon
    <3> QED
      BY <1>1, <1>2, <3>2
  <2>3. way[n] = way[n - 1] + b - size \/ way[n] = way[n - 1] + b
    BY <1>4, <2>2
  <2>4. (n - 1) * b = n * b - b /\ (c + 1) * size = c * size + size
    BY <1>2, <1>3
  <2> DEFINE nb == n * b
             nb1 == (n - 1) * b
             cs == c * size
             cs1 == (c + 1) * size
  <2>5. nb \in Int /\ cs \in Int /\ nb1 = nb - b /\ cs1 = cs + size
    BY <1>2, <1>3, <2>4
  <2> HIDE DEF nb, nb1, cs, cs1
  <2>6. way[n - 1] = first + nb1 - cs
    BY <2>1 DEF nb1, cs
  <2>7. way[n] = first + nb - cs1 \/ way[n] = first + nb - cs
    BY <1>2, <2>3, <2>5, <2>6
  <2>8. At(n, c + 1) \/ At(n, c)
    BY <2>7 DEF nb, cs, cs1
  <2>9. c + 1 \in Int /\ n \in 0 .. N
    BY <1>3
  <2> HIDE DEF At
  <2> QED
    BY <2>8, <2>9
<1> HIDE DEF T
<1>7. \A n \in 0 .. N : n \in T
  BY <1>2, <1>5, <1>6, Induction, Zenon
<1> QED
  BY <1>7, Zenon DEF T, way, first, b, N

(* The way of a string through a table of prime size passes every slot.     *)
LEMMA WayPassesEverySlot ==
  ASSUME NEW size \in Nat, size > 2, Prime(size), NEW s \in Seq(Nat), NEW slot \in 0 .. size - 1
  PROVE  \E k \in 0 .. size - 1 : Way(size, s)[k] = slot
<1> DEFINE way == Way(size, s)
           R   == 0 .. size - 1
<1>1. way \in [R -> R]
  BY WayInRange, Zenon
<1>2. ASSUME NEW j \in R, NEW k \in R, j < k, way[j] = way[k]
      PROVE  FALSE
  <2> DEFINE first == __hash_string(s) % size
             b     == incr(size, s)
  <2>1. b \in 1 .. size - 1 /\ first \in Int
    BY IncrInRange
  <2>2. /\ \E c \in Int : way[j] = first + j * b - c * size
        /\ \E c \in Int : way[k] = first + k * b - c * size
    BY WayAt, Zenon
  <2> HIDE DEF first, b, way
  <2>3. PICK c \in Int : way[j] = first + j * b - c * size
    BY <2>2
  <2>4. PICK d \in Int : way[k] = first + k * b - d * size
    BY <2>2
  <2>5. k * b - j * b = d * size - c * size
    <3>1. j * b \in Int /\ k * b \in Int /\ c * size \in Int /\ d * size \in Int
      BY <2>1
    <3>2. first + j * b - c * size = first + k * b - d * size
      BY <1>2, <2>3, <2>4, Zenon
    <3> DEFINE jb == j * b
               kb == k * b
               cs == c * size
               ds == d * size
    <3> HIDE DEF jb, kb, cs, ds
    <3>3. first + jb - cs = first + kb - ds /\ jb \in Int /\ kb \in Int /\ cs \in Int /\ ds \in Int
      BY <3>1, <3>2 DEF jb, kb, cs, ds
    <3>4. kb - jb = ds - cs
      BY <2>1, <3>3
    <3> QED
      BY <3>4 DEF jb, kb, cs, ds
  <2>6. (k - j) * b = (d - c) * size
    <3>1. (k - j) * b = k * b - j * b
      BY <2>1
    <3>2. (d - c) * size = d * size - c * size
      OBVIOUS
    <3> QED
      BY <2>5, <3>1, <3>2, Zenon
  <2>7. k - j \in 1 .. size - 1 /\ d - c \in Int
    BY <1>2
  <2> QED
    BY <2>1, <2>6, <2>7, NoMultiple
<1> HIDE DEF way
<1>3. \A j \in R, k \in R : j # k => way[j] # way[k]
  BY <1>2
<1>4. way \in Injection(R, R)
  BY <1>1, <1>3 DEF Injection, IsInjective
<1>5. IsFiniteSet(R)
  BY FS_Interval
<1>6. way \in Surjection(R, R)
  BY <1>4, <1>5, FS_Injection
<1> QED
  BY <1>6, Zenon DEF Surjection, way

LEMMA ProbeStopsFirst ==
  ASSUME NEW size \in Nat, size > 2, Prime(size), NEW s \in Seq(Nat),
         NEW stops, NEW slot \in 0 .. size - 1, slot \in stops
  PROVE  \E k \in 0 .. size - 1 : /\ Probe(size, s, stops) = Way(size, s)[k]
                                  /\ Way(size, s)[k] \in stops
                                  /\ \A j \in 0 .. k - 1 : Way(size, s)[j] \notin stops
<1> DEFINE way == Way(size, s)
           ks  == {k \in 0 .. size - 1 : way[k] \in stops}
<1>1. \E k \in 0 .. size - 1 : way[k] = slot
  BY WayPassesEverySlot, Zenon
<1> HIDE DEF way
<1>2. ks # {} /\ ks \in SUBSET Nat
  BY <1>1
<1> HIDE DEF ks
<1>3. \E k \in ks : \A j \in ks : k <= j
  BY <1>2, Least
<1>4. PICK k \in ks : k = (CHOOSE n \in ks : \A j \in ks : n <= j) /\ \A j \in ks : k <= j
  BY <1>3, Zenon
<1>5. Probe(size, s, stops) = way[k]
  BY <1>2, <1>4, Zenon DEF Probe, ks, way
<1>6. k \in 0 .. size - 1 /\ way[k] \in stops
  BY <1>4 DEF ks
<1>7. ASSUME NEW j \in 0 .. k - 1
      PROVE  way[j] \notin stops
  <2>1. j \in 0 .. size - 1 /\ ~ (k <= j)
    BY <1>6
  <2>2. j \notin ks
    BY <1>4, <2>1, Zenon
  <2> QED
    BY <2>1, <2>2 DEF ks
<1> QED
  BY <1>5, <1>6, <1>7, Zenon DEF way
-----------------------------------------------------------------------------
(***************************************************************************)
(* The table after m entries: each is in one slot, and a string meets its  *)
(* entry before any free slot.                                             *)
(***************************************************************************)
Met(table, way, entry) ==
  \E k \in DOMAIN table : /\ table[way[k]] = entry
                          /\ \A j \in 0 .. k - 1 : table[way[j]] # 0

Table(table, size, name, m) ==
  /\ table \in [0 .. size - 1 -> 0 .. m]
  /\ \A i \in DOMAIN table, j \in DOMAIN table : table[i] = table[j] => i = j \/ table[i] = 0
  /\ \A e \in 1 .. m : Met(table, Way(size, name[e]), e)

LEMMA FreeSlot ==
  ASSUME NEW size \in Nat, NEW m \in Nat, m < size, NEW table, NEW name,
         Table(table, size, name, m)
  PROVE  \E slot \in 0 .. size - 1 : table[slot] = 0
<1> DEFINE R == 0 .. size - 1
           E == 1 .. m
<1>1. SUFFICES ASSUME \A slot \in R : table[slot] # 0
               PROVE  FALSE
  OBVIOUS
<1>2. table \in [R -> 0 .. m]
  BY Zenon DEF Table
<1>3. \A slot \in R : table[slot] \in E
  BY <1>1, <1>2
<1>4. IsFiniteSet(R) /\ IsFiniteSet(E) /\ Cardinality(E) < Cardinality(R)
  <2>0. 0 \in Int /\ size - 1 \in Int
    OBVIOUS
  <2>1. IsFiniteSet(R) /\ Cardinality(R) = (IF 0 > size - 1 THEN 0 ELSE (size - 1) - 0 + 1)
    BY <2>0, FS_Interval, Zenon
  <2>2. IsFiniteSet(E) /\ Cardinality(E) = (IF 1 > m THEN 0 ELSE m - 1 + 1)
    BY FS_Interval
  <2> QED
    BY <2>1, <2>2
<1>5. DOMAIN table = R
  BY <1>2, Zenon
<1> HIDE DEF R, E
<1>6. table \in [R -> E]
  BY <1>2, <1>3, Zenon
<1>7. \E x \in R, y \in R : x # y /\ table[x] = table[y]
  BY <1>4, <1>6, FS_PigeonHole
<1> QED
  BY <1>1, <1>5, <1>7, Zenon DEF Table

LEMMA InsertKeeps ==
  ASSUME NEW size \in Nat, size > 2, Prime(size), NEW m \in 1 .. size - 1, NEW table, NEW name,
         Table(table, size, name, m - 1), \A e \in 1 .. m : name[e] \in Seq(Nat)
  PROVE  Table(Insert(table, size, name[m], m), size, name, m)
<1> DEFINE R   == 0 .. size - 1
           s   == name[m]
           new == Insert(table, size, s, m)
<1>1. /\ table \in [R -> 0 .. m - 1] /\ DOMAIN table = R
      /\ \A i \in R, j \in R : table[i] = table[j] => i = j \/ table[i] = 0
  BY Zenon DEF Table
<1>2. s \in Seq(Nat)
  OBVIOUS
<1>3. PICK k \in R : /\ Probe(size, s, FreeSlots(table)) = Way(size, s)[k]
                     /\ Way(size, s)[k] \in FreeSlots(table)
                     /\ \A j \in 0 .. k - 1 : Way(size, s)[j] \notin FreeSlots(table)
  <2>1. m - 1 \in Nat /\ m - 1 < size
    OBVIOUS
  <2>2. PICK slot \in R : table[slot] = 0
    BY <2>1, FreeSlot
  <2>3. slot \in FreeSlots(table)
    BY <1>1, <2>2, Zenon DEF FreeSlots
  <2> QED
    BY <1>2, <2>3, ProbeStopsFirst, Zenon
<1> DEFINE free == Way(size, s)[k]
<1>4. free \in R /\ table[free] = 0
  BY <1>1, <1>3, Zenon DEF FreeSlots
<1>5. new = [table EXCEPT ![free] = m]
  BY <1>3, Zenon DEF Insert
<1> HIDE DEF new, free
<1>6. new[free] = m /\ DOMAIN new = R /\ \A i \in R : i # free => new[i] = table[i]
  BY <1>1, <1>4, <1>5, Zenon
<1>7. \A i \in R : table[i] \in 0 .. m - 1
  BY <1>1, Zenon
<1>8. \A i \in R : new[i] \in 0 .. m /\ (table[i] # 0 => new[i] # 0)
  BY <1>4, <1>6, <1>7
<1>9. new \in [R -> 0 .. m]
  <2>1. new = [i \in R |-> new[i]]
    BY <1>1, <1>5, Zenon
  <2> QED
    BY <1>8, <2>1, Zenon
<1>10. ASSUME NEW i \in R, NEW j \in R, new[i] = new[j]
       PROVE  i = j \/ new[i] = 0
  <2>1. \A n \in R : n # free => new[n] # m
    BY <1>6, <1>7
  <2>2. CASE i = free \/ j = free
    BY <1>6, <1>10, <2>1, <2>2, Zenon
  <2>3. CASE i # free /\ j # free
    BY <1>1, <1>6, <1>10, <2>3, Zenon
  <2> QED
    BY <2>2, <2>3
<1>11. ASSUME NEW e \in 1 .. m
       PROVE  Met(new, Way(size, name[e]), e)
  <2> DEFINE way == Way(size, name[e])
  <2>1. way \in [R -> R]
    BY WayInRange, Zenon
  <2>2. CASE e = m
    <3>1. new[way[k]] = e
      BY <1>6, <2>2, Zenon DEF free
    <3>2. ASSUME NEW j \in 0 .. k - 1
          PROVE  new[way[j]] # 0
      <4>1. j \in R
        OBVIOUS
      <4>2. way[j] \in R /\ way[j] \notin FreeSlots(table)
        BY <1>3, <2>1, <2>2, <4>1, Zenon
      <4> QED
        BY <1>1, <1>8, <4>2, Zenon DEF FreeSlots
    <3> QED
      BY <1>6, <3>1, <3>2, Zenon DEF Met
  <2>3. CASE e # m
    <3>1. e \in 1 .. m - 1 /\ e # 0
      BY <2>3
    <3>2. PICK n \in R : table[way[n]] = e /\ \A j \in 0 .. n - 1 : table[way[j]] # 0
      BY <1>1, <3>1, Zenon DEF Table, Met
    <3>3. new[way[n]] = e
      BY <1>4, <1>6, <2>1, <3>1, <3>2, Zenon
    <3>4. ASSUME NEW j \in 0 .. n - 1
          PROVE  new[way[j]] # 0
      <4>1. j \in R
        OBVIOUS
      <4> QED
        BY <1>8, <2>1, <3>2, <4>1, Zenon
    <3> QED
      BY <1>6, <3>3, <3>4, Zenon DEF Met
  <2> QED
    BY <2>2, <2>3
<1>12. Table(new, size, name, m)
  BY <1>6, <1>9, <1>10, <1>11, Zenon DEF Table
<1> QED
  BY <1>12 DEF new

LEMMA InsertedAll ==
  ASSUME NEW size \in Nat, size > 2, Prime(size), NEW n0 \in Nat, NEW strings \in Seq(Seq(Nat)),
         n0 + Len(strings) < size, NEW table0, NEW name, Table(table0, size, name, n0),
         \A e \in 1 .. n0 + Len(strings) : name[e] \in Seq(Nat),
         \A i \in 1 .. Len(strings) : name[n0 + i] = strings[i]
  PROVE  Table(Inserted(table0, size, n0, strings), size, name, n0 + Len(strings))
<1> DEFINE N     == Len(strings)
           S     == [0 .. size - 1 -> Nat]
           tab   == CHOOSE t : t = [i \in 0 .. N |->
                      IF i = 0 THEN table0 ELSE Insert(t[i - 1], size, strings[i], n0 + i)]
           step  == [p \in (1 .. N) \X S |-> Insert(p[2], size, strings[p[1]], n0 + p[1])]
<1>0. N \in Nat /\ n0 + N < size
  OBVIOUS
<1>a. \A i \in 1 .. N : strings[i] = name[n0 + i]
  OBVIOUS
<1>b. \A e \in 1 .. n0 + N : name[e] \in Seq(Nat)
  OBVIOUS
<1>1. table0 \in S
  <2>1. table0 \in [0 .. size - 1 -> 0 .. n0]
    BY Zenon DEF Table
  <2>2. \A x \in 0 .. n0 : x \in Nat
    OBVIOUS
  <2> QED
    BY <2>1, <2>2, Zenon
<1>2. ASSUME NEW t \in S, NEW i \in 1 .. N
      PROVE  Insert(t, size, strings[i], n0 + i) \in S
  <2>1. n0 + i \in Nat
    BY <1>0
  <2> QED
    BY <2>1, Zenon DEF Insert
<1> HIDE DEF N
<1>3. PICK f : Iterates(f, N, S, table0, step)
  <2>1. step \in [(1 .. N) \X S -> S]
    <3> HIDE DEF S
    <3>1. \A p \in (1 .. N) \X S : p[1] \in 1 .. N /\ p[2] \in S
      OBVIOUS
    <3> QED
      BY <1>2, <3>1, Zenon
  <2> HIDE DEF step, S
  <2> QED
    BY <1>0, <1>1, <2>1, Recursion
<1> HIDE DEF S
<1>4. ASSUME NEW i \in 1 .. N
      PROVE  f[i] = Insert(f[i - 1], size, strings[i], n0 + i)
  <2>1. f[i - 1] \in S /\ f[i] = step[<<i, f[i - 1]>>]
    <3> HIDE DEF step
    <3> QED
      BY <1>0, <1>3, IteratesEach
  <2> QED
    BY <2>1
<1>5. f = [i \in 0 .. N |-> IF i = 0 THEN table0 ELSE Insert(f[i - 1], size, strings[i], n0 + i)]
  <2> HIDE DEF step
  <2> QED
    BY <1>0, <1>3, <1>4 DEF Iterates
<1>6. tab = [i \in 0 .. N |-> IF i = 0 THEN table0 ELSE Insert(tab[i - 1], size, strings[i], n0 + i)]
  BY <1>5, Zenon
<1>7. Inserted(table0, size, n0, strings) = tab[N]
  BY Zenon DEF Inserted, N
<1> HIDE DEF tab
<1> DEFINE T == {i \in 0 .. N : Table(tab[i], size, name, n0 + i)}
<1>8. 0 \in T
  <2>1. 0 \in 0 .. N /\ n0 + 0 = n0
    BY <1>0
  <2>2. tab[0] = table0
    BY <1>6, <2>1, Zenon
  <2> QED
    BY <2>1, <2>2, Zenon
<1>9. ASSUME NEW i \in 1 .. N, i - 1 \in T
      PROVE  i \in T
  <2>1. i \in 0 .. N /\ i # 0 /\ (n0 + i) - 1 = n0 + (i - 1) /\ n0 + i \in 1 .. size - 1
    BY <1>0
  <2>2. tab[i] = Insert(tab[i - 1], size, name[n0 + i], n0 + i)
    BY <1>6, <1>a, <2>1, Zenon
  <2>3. Table(tab[i - 1], size, name, (n0 + i) - 1)
    BY <1>9, <2>1, Zenon
  <2>4. \A e \in 1 .. n0 + i : name[e] \in Seq(Nat)
    <3>1. \A e \in 1 .. n0 + i : e \in 1 .. n0 + N
      BY <1>0
    <3> QED
      BY <1>b, <3>1, Zenon
  <2>5. Table(tab[i], size, name, n0 + i)
    BY <2>1, <2>2, <2>3, <2>4, InsertKeeps
  <2> QED
    BY <2>1, <2>5, Zenon
<1> HIDE DEF T
<1>10. N \in T
  <2>1. \A n \in 0 .. N : n \in T
    BY <1>0, <1>8, <1>9, Induction, Zenon
  <2>2. N \in 0 .. N
    BY <1>0
  <2> QED
    BY <2>1, <2>2, Zenon
<1>11. Table(tab[N], size, name, n0 + N)
  BY <1>10, Zenon DEF T
<1> QED
  BY <1>7, <1>11, Zenon DEF N
-----------------------------------------------------------------------------
(***************************************************************************)
(* The lookups: the index of the message among m strings, or NoIndex.     *)
(***************************************************************************)
Finds(domain, m, msgid, act) ==
  /\ act \in 0 .. m
  /\ act # 0 => Original(domain, act) = msgid
  /\ act = 0 => \A e \in 1 .. m : Original(domain, e) # msgid

LEMMA HashedFinds ==
  ASSUME NEW domain, NEW m \in Nat, NEW name, NEW msgid \in Seq(Nat),
         domain.hash_size \in Nat, domain.hash_size > 2, Prime(domain.hash_size),
         m < domain.hash_size, Table(domain.hash_tab, domain.hash_size, name, m),
         \A e \in 1 .. m : name[e] = Original(domain, e)
  PROVE  Finds(domain, m, msgid, Hashed(domain, msgid))
<1> DEFINE size  == domain.hash_size
           table == domain.hash_tab
           R     == 0 .. size - 1
           way   == Way(size, msgid)
           ends  == {i \in DOMAIN table : table[i] = 0 \/ Has(domain, table[i], msgid)}
<1>0. size \in Nat /\ size > 2 /\ Prime(size) /\ m < size /\ Table(table, size, name, m)
  OBVIOUS
<1> HIDE DEF size, table
<1>1. /\ table \in [R -> 0 .. m] /\ DOMAIN table = R
      /\ \A e \in 1 .. m : Met(table, Way(size, name[e]), e)
  BY <1>0, Zenon DEF Table
<1>2. PICK slot \in R : table[slot] = 0
  BY <1>0, FreeSlot
<1>3. slot \in ends
  BY <1>1, <1>2, Zenon
<1> HIDE DEF ends
<1>4. PICK k \in R : /\ Probe(size, msgid, ends) = way[k] /\ way[k] \in ends
                     /\ \A j \in 0 .. k - 1 : way[j] \notin ends
  BY <1>0, <1>3, ProbeStopsFirst, Zenon
<1>5. way \in [R -> R]
  BY <1>0, WayInRange, Zenon
<1>6. way[k] \in R /\ way[k] # -1
  <2>1. way[k] \in R
    BY <1>5, Zenon
  <2> HIDE DEF way
  <2> QED
    BY <2>1
<1> DEFINE act == table[way[k]]
<1>7. Hashed(domain, msgid) = act
  BY <1>4, <1>6, Zenon DEF Hashed, ends, size, table
<1>8. act \in 0 .. m
  BY <1>1, <1>6, Zenon
<1>9. ASSUME act # 0
      PROVE  Original(domain, act) = msgid
  BY <1>4, <1>9, Zenon DEF ends, Has
<1>10. ASSUME act = 0, NEW e \in 1 .. m, Original(domain, e) = msgid
       PROVE  FALSE
  <2>0. Met(table, way, e)
    <3>1. name[e] = msgid
      BY <1>10, Zenon
    <3> QED
      BY <1>1, <3>1, Zenon
  <2>1. PICK n \in R : table[way[n]] = e /\ \A j \in 0 .. n - 1 : table[way[j]] # 0
    BY <1>1, <2>0, Zenon DEF Met
  <2>2. e # 0
    OBVIOUS
  <2>3. way[n] \in R
    BY <1>5, Zenon
  <2>4. way[n] \in ends
    BY <1>1, <1>10, <2>1, <2>2, <2>3, Zenon DEF ends, Has
  <2>5. n \notin 0 .. k - 1
    BY <1>4, <2>4, Zenon
  <2>6. k \notin 0 .. n - 1
    BY <1>10, <2>1, Zenon
  <2>7. k = n
    BY <1>0, <2>5, <2>6
  <2> QED
    BY <1>10, <2>1, <2>2, <2>7, Zenon
<1> HIDE DEF act
<1> QED
  BY <1>7, <1>8, <1>9, <1>10, Zenon DEF Finds

LEMMA SmallerTrichotomy ==
  ASSUME NEW s \in Seq(Nat), NEW t \in Seq(Nat)
  PROVE  s = t \/ Smaller(s, t) \/ Smaller(t, s)
<1> DEFINE M == Len(s)
           N == Len(t)
           D == {n \in 0 .. M : n = M \/ n = N \/ s[n + 1] # t[n + 1]}
<1>0. M \in Nat /\ N \in Nat
  OBVIOUS
<1>1. \A n \in 1 .. M : s[n] \in Nat
  OBVIOUS
<1>2. \A n \in 1 .. N : t[n] \in Nat
  OBVIOUS
<1> HIDE DEF M, N
<1>3. PICK n \in D : \A m \in D : n <= m
  <2>1. D \in SUBSET Nat /\ D # {}
    BY <1>0
  <2> HIDE DEF D
  <2> QED
    BY <2>1, Least
<1>4. ASSUME NEW m \in 1 .. n
      PROVE  s[m] = t[m] /\ m <= N
  <2>1. m - 1 \in 0 .. M /\ ~ (n <= m - 1) /\ (m - 1) + 1 = m
    BY <1>0, <1>3
  <2>2. m - 1 \notin D
    BY <1>3, <2>1, Zenon
  <2>3. m - 1 # N /\ s[m] = t[m]
    BY <2>1, <2>2
  <2>4. m - 1 < N
    <3>1. N \notin 0 .. n - 1
      <4>1. SUFFICES ASSUME N \in 0 .. n - 1
                     PROVE  FALSE
        OBVIOUS
      <4>2. N \in D
        BY <1>0, <1>3, <4>1
      <4>3. n <= N
        BY <1>3, <4>2, Zenon
      <4> QED
        BY <1>0, <1>3, <4>1, <4>3
    <3> QED
      BY <1>0, <1>3, <2>1, <3>1
  <2> QED
    BY <1>0, <2>3, <2>4
<1>5. n \in 0 .. M /\ n <= N
  <2>1. CASE n = 0
    BY <1>0, <2>1
  <2>2. CASE n # 0
    <3>1. n \in 1 .. n
      BY <1>0, <2>2
    <3> QED
      BY <1>4, <3>1
  <2> QED
    BY <2>1, <2>2
<1>6. CASE n = M /\ n = N
  <2>1. Len(s) = Len(t) /\ \A m \in 1 .. Len(s) : s[m] = t[m]
    BY <1>4, <1>6 DEF M, N
  <2>2. s = [m \in 1 .. Len(s) |-> s[m]] /\ t = [m \in 1 .. Len(t) |-> t[m]]
    OBVIOUS
  <2>3. s = t
    BY <2>1, <2>2, Zenon
  <2> QED
    BY <2>3
<1>7. CASE n = M /\ n < N
  <2>1. Smaller(s, t)
    BY <1>4, <1>5, <1>7 DEF Smaller, M, N
  <2> QED
    BY <2>1
<1>8. CASE n < M /\ n = N
  <2>1. Smaller(t, s)
    <3>1. n \in 0 .. N /\ \A m \in 1 .. n : t[m] = s[m]
      BY <1>0, <1>4, <1>8
    <3> QED
      BY <1>8, <3>1 DEF Smaller, M, N
  <2> QED
    BY <2>1
<1>9. CASE n < M /\ n < N
  <2>1. s[n + 1] # t[n + 1] /\ s[n + 1] \in Nat /\ t[n + 1] \in Nat
    <3>1. n + 1 \in 1 .. M /\ n + 1 \in 1 .. N /\ n # M /\ n # N
      BY <1>0, <1>9
    <3>2. s[n + 1] # t[n + 1]
      BY <3>1
    <3> QED
      BY <1>1, <1>2, <3>1, <3>2, Zenon
  <2>2. n \in 0 .. M /\ n \in 0 .. N
    BY <1>0, <1>9
  <2>3. CASE s[n + 1] < t[n + 1]
    BY <1>4, <1>9, <2>2, <2>3, Zenon DEF Smaller, M, N
  <2>4. CASE t[n + 1] < s[n + 1]
    BY <1>4, <1>9, <2>2, <2>4, Zenon DEF Smaller, M, N
  <2> QED
    BY <2>1, <2>3, <2>4
<1> QED
  BY <1>0, <1>5, <1>6, <1>7, <1>8, <1>9

LEMMA SmallerIsStrict ==
  ASSUME NEW s \in Seq(Nat)
  PROVE  ~ Smaller(s, s)
BY DEF Smaller

LEMMA SmallerTransitive ==
  ASSUME NEW s \in Seq(Nat), NEW t \in Seq(Nat), NEW u \in Seq(Nat), Smaller(s, t), Smaller(t, u)
  PROVE  Smaller(s, u)
<1>0. Len(s) \in Nat /\ Len(t) \in Nat /\ Len(u) \in Nat
  OBVIOUS
<1>a. /\ \A i \in 1 .. Len(s) : s[i] \in Nat
      /\ \A i \in 1 .. Len(t) : t[i] \in Nat
      /\ \A i \in 1 .. Len(u) : u[i] \in Nat
  OBVIOUS
<1>1. PICK m \in 0 .. Len(s) : /\ m < Len(t) /\ \A i \in 1 .. m : s[i] = t[i]
                               /\ m = Len(s) \/ s[m + 1] < t[m + 1]
  BY Zenon DEF Smaller
<1>2. PICK n \in 0 .. Len(t) : /\ n < Len(u) /\ \A i \in 1 .. n : t[i] = u[i]
                               /\ n = Len(t) \/ t[n + 1] < u[n + 1]
  BY Zenon DEF Smaller
<1>3. CASE m <= n
  <2>1. \A i \in 1 .. m : s[i] = u[i]
    <3>1. \A i \in 1 .. m : i \in 1 .. n
      BY <1>3
    <3> QED
      BY <1>1, <1>2, <3>1, Zenon
  <2>2. m < Len(u)
    BY <1>0, <1>2, <1>3
  <2>3. m = Len(s) \/ s[m + 1] < u[m + 1]
    <3>1. CASE m = n
      <4>1. SUFFICES ASSUME m # Len(s)
                     PROVE  s[m + 1] < u[m + 1]
        OBVIOUS
      <4>2. s[m + 1] < t[m + 1] /\ t[m + 1] < u[m + 1]
        BY <1>0, <1>1, <1>2, <3>1, <4>1
      <4>3. m + 1 \in 1 .. Len(s) /\ m + 1 \in 1 .. Len(t) /\ m + 1 \in 1 .. Len(u)
        <5>1. m + 1 \in 1 .. Len(s)
          BY <1>0, <1>1, <4>1
        <5>2. m + 1 \in 1 .. Len(t)
          BY <1>0, <1>1
        <5>3. m + 1 \in 1 .. Len(u)
          BY <1>0, <1>1, <2>2
        <5> QED
          BY <5>1, <5>2, <5>3
      <4>4. s[m + 1] \in Nat /\ t[m + 1] \in Nat /\ u[m + 1] \in Nat
        BY <1>a, <4>3, Zenon
      <4>5. \A x, y, z \in Nat : x < y /\ y < z => x < z
        OBVIOUS
      <4> QED
        BY <4>2, <4>4, <4>5, Zenon
    <3>2. CASE m # n
      <4>1. m + 1 \in 1 .. n
        BY <1>3, <3>2
      <4>2. t[m + 1] = u[m + 1]
        BY <1>2, <4>1, Zenon
      <4> QED
        BY <1>1, <4>2, Zenon
    <3> QED
      BY <3>1, <3>2
  <2> QED
    BY <2>1, <2>2, <2>3, Zenon DEF Smaller
<1>4. CASE n < m
  <2>1. n \in 0 .. Len(s) /\ n # Len(t) /\ n + 1 \in 1 .. m
    BY <1>0, <1>1, <1>4
  <2>2. \A i \in 1 .. n : s[i] = u[i]
    <3>1. \A i \in 1 .. n : i \in 1 .. m
      BY <1>4
    <3> QED
      BY <1>1, <1>2, <3>1, Zenon
  <2>3. s[n + 1] < u[n + 1]
    BY <1>1, <1>2, <2>1, Zenon
  <2> QED
    BY <1>2, <2>1, <2>2, <2>3, Zenon DEF Smaller
<1> QED
  BY <1>0, <1>3, <1>4

(* The range after a turn: the strings below it are smaller than the        *)
(* message and those above it greater; the message is in its middle, or it  *)
(* is as small as the turns left.                                           *)
Sorted(orig_tab) ==
  \A m \in DOMAIN orig_tab, n \in DOMAIN orig_tab : m < n => Smaller(orig_tab[m], orig_tab[n])

Between(orig_tab, n, msgid, bottom, top) ==
  /\ bottom \in 0 .. n /\ top \in 0 .. n /\ bottom <= top
  /\ \A i \in 1 .. bottom : Smaller(orig_tab[i], msgid)
  /\ \A i \in top + 1 .. n : Smaller(msgid, orig_tab[i])

InMiddle(orig_tab, msgid, range) ==
  range.bottom < range.top /\ orig_tab[Middle(range) + 1] = msgid

LEMMA MiddleInside ==
  ASSUME NEW bottom \in Nat, NEW top \in Nat, bottom < top
  PROVE  (bottom + top) \div 2 \in bottom .. top - 1
BY Z3

LEMMA Narrows ==
  ASSUME NEW n \in Nat, NEW domain, NEW msgid \in Seq(Nat), NEW bottom, NEW top,
         domain.orig_tab \in Seq(Seq(Nat)), Len(domain.orig_tab) = n, Sorted(domain.orig_tab),
         Between(domain.orig_tab, n, msgid, bottom, top)
  PROVE  LET range == [bottom |-> bottom, top |-> top]
             next  == Narrowed(domain, msgid, range)
         IN /\ Between(domain.orig_tab, n, msgid, next.bottom, next.top)
            /\ IF bottom = top \/ InMiddle(domain.orig_tab, msgid, range)
               THEN next = range
               ELSE next.top - next.bottom < top - bottom
<1> DEFINE range == [bottom |-> bottom, top |-> top]
           tab   == domain.orig_tab
           next  == Narrowed(domain, msgid, range)
           mid   == Middle(range)
<1>1. /\ bottom \in 0 .. n /\ top \in 0 .. n /\ bottom <= top
      /\ \A i \in 1 .. bottom : Smaller(tab[i], msgid)
      /\ \A i \in top + 1 .. n : Smaller(msgid, tab[i])
  BY Zenon DEF Between
<1>2. \A i \in 1 .. n : tab[i] \in Seq(Nat)
  OBVIOUS
<1>3. \A i \in 1 .. n, j \in 1 .. n : i < j => Smaller(tab[i], tab[j])
  <2>1. DOMAIN tab = 1 .. n
    OBVIOUS
  <2> QED
    BY <2>1, Zenon DEF Sorted
<1>4. range.bottom = bottom /\ range.top = top
  OBVIOUS
<1> HIDE DEF range, tab
<1>5. CASE bottom >= top
  <2>1. next = range
    BY <1>4, <1>5, Zenon DEF Narrowed
  <2>2. bottom = top
    BY <1>1, <1>5
  <2> QED
    BY <1>1, <1>4, <2>1, <2>2, Zenon DEF Between, range, tab
<1>6. CASE bottom < top
  <2>1. ~ (bottom >= top)
    BY <1>1, <1>6
  <2>2. mid \in bottom .. top - 1
    BY <1>1, <1>4, <1>6, MiddleInside DEF Middle
  <2> HIDE DEF mid
  <2>3. mid + 1 \in 1 .. n /\ mid \in 0 .. n /\ mid + 1 \in 0 .. n
    BY <1>1, <2>2
  <2>4. tab[mid + 1] \in Seq(Nat)
    BY <1>2, <2>3, Zenon
  <2>5. CASE Smaller(msgid, tab[mid + 1])
    <3>1. next = [bottom |-> bottom, top |-> mid]
      BY <1>4, <2>1, <2>5, Zenon DEF Narrowed, tab, mid
    <3>2. ASSUME NEW i \in mid + 1 .. n
          PROVE  Smaller(msgid, tab[i])
      <4>1. CASE i = mid + 1
        BY <2>5, <4>1, Zenon
      <4>2. CASE i # mid + 1
        <5>1. i \in 1 .. n /\ mid + 1 < i
          BY <2>3, <4>2
        <5>2. Smaller(tab[mid + 1], tab[i]) /\ tab[i] \in Seq(Nat)
          BY <1>2, <1>3, <2>3, <5>1, Zenon
        <5> QED
          BY <2>4, <2>5, <5>2, SmallerTransitive, Zenon
      <4> QED
        BY <4>1, <4>2
    <3>3. next.bottom = bottom /\ next.top = mid
      BY <3>1
    <3>4. bottom <= mid /\ mid - bottom < top - bottom
      BY <1>1, <2>2
    <3>5. Between(tab, n, msgid, bottom, mid)
      BY <1>1, <2>3, <3>2, <3>4, Zenon DEF Between
    <3>6. ~ (bottom = top \/ InMiddle(tab, msgid, range))
      <4>1. bottom # top
        BY <1>1, <1>6
      <4>2. ~ Smaller(msgid, msgid)
        BY SmallerIsStrict
      <4> QED
        BY <2>5, <4>1, <4>2, Zenon DEF InMiddle, mid
    <3> QED
      BY <3>3, <3>4, <3>5, <3>6, Zenon DEF range, tab
  <2>6. CASE ~ Smaller(msgid, tab[mid + 1]) /\ Smaller(tab[mid + 1], msgid)
    <3>1. next = [bottom |-> mid + 1, top |-> top]
      BY <1>4, <2>1, <2>6, Zenon DEF Narrowed, tab, mid
    <3>2. ASSUME NEW i \in 1 .. mid + 1
          PROVE  Smaller(tab[i], msgid)
      <4>1. CASE i = mid + 1
        BY <2>6, <4>1, Zenon
      <4>2. CASE i # mid + 1
        <5>1. i \in 1 .. n /\ i < mid + 1
          BY <2>3, <4>2
        <5>2. Smaller(tab[i], tab[mid + 1]) /\ tab[i] \in Seq(Nat)
          BY <1>2, <1>3, <2>3, <5>1, Zenon
        <5> QED
          BY <2>4, <2>6, <5>2, SmallerTransitive, Zenon
      <4> QED
        BY <4>1, <4>2
    <3>3. next.bottom = mid + 1 /\ next.top = top
      BY <3>1
    <3>4. mid + 1 <= top /\ top - (mid + 1) < top - bottom
      BY <1>1, <2>2
    <3>5. Between(tab, n, msgid, mid + 1, top)
      BY <1>1, <2>3, <3>2, <3>4, Zenon DEF Between
    <3>6. ~ (bottom = top \/ InMiddle(tab, msgid, range))
      <4>1. bottom # top
        BY <1>1, <1>6
      <4>2. ~ Smaller(msgid, msgid)
        BY SmallerIsStrict
      <4> QED
        BY <2>6, <4>1, <4>2, Zenon DEF InMiddle, mid
    <3> QED
      BY <3>3, <3>4, <3>5, <3>6, Zenon DEF range, tab
  <2>7. CASE ~ Smaller(msgid, tab[mid + 1]) /\ ~ Smaller(tab[mid + 1], msgid)
    <3>1. next = range
      BY <1>4, <2>1, <2>7, Zenon DEF Narrowed, tab, mid
    <3>2. tab[mid + 1] = msgid
      BY <2>4, <2>7, SmallerTrichotomy, Zenon
    <3> QED
      BY <1>1, <1>4, <1>6, <3>1, <3>2, Zenon DEF Between, InMiddle, range, tab, mid
  <2> QED
    BY <2>5, <2>6, <2>7
<1> QED
  BY <1>1, <1>5, <1>6

LEMMA SearchFinds ==
  ASSUME NEW domain, NEW msgid \in Seq(Nat), domain.orig_tab \in Seq(Seq(Nat)),
         Sorted(domain.orig_tab)
  PROVE  Finds(domain, Len(domain.orig_tab), msgid, Search(domain, msgid))
<1> DEFINE tab   == domain.orig_tab
           N     == Len(tab)
           S     == [bottom : Int, top : Int]
           first == [bottom |-> 0, top |-> N]
           step  == [p \in (1 .. N) \X S |-> Narrowed(domain, msgid, p[2])]
           rng   == CHOOSE r : r = [i \in 0 .. N |->
                      IF i = 0 THEN first ELSE Narrowed(domain, msgid, r[i - 1])]
<1>0. N \in Nat /\ \A i \in 1 .. N : tab[i] \in Seq(Nat)
  OBVIOUS
<1>1. first \in S
  BY <1>0
<1>2. ASSUME NEW r \in S
      PROVE  Narrowed(domain, msgid, r) \in S
  <2>1. Middle(r) \in Int
    <3>1. \A a \in Int, b \in Int : (a + b) \div 2 \in Int
      BY Z3
    <3>2. r.bottom \in Int /\ r.top \in Int
      OBVIOUS
    <3> QED
      BY <3>1, <3>2, Zenon DEF Middle
  <2> DEFINE mid == Middle(r)
  <2> HIDE DEF mid
  <2>2. [bottom |-> r.bottom, top |-> mid] \in S /\ [bottom |-> mid + 1, top |-> r.top] \in S
    BY <2>1 DEF mid
  <2> HIDE DEF S
  <2> QED
    BY <2>2, Zenon DEF Narrowed, mid
<1> HIDE DEF N
<1>3. PICK f : Iterates(f, N, S, first, step)
  <2>1. step \in [(1 .. N) \X S -> S]
    <3> HIDE DEF S
    <3>1. \A p \in (1 .. N) \X S : p[2] \in S
      OBVIOUS
    <3> QED
      BY <1>2, <3>1, Zenon
  <2> HIDE DEF step, S, first
  <2> QED
    BY <1>0, <1>1, <2>1, Recursion
<1> HIDE DEF S, first
<1>4. ASSUME NEW i \in 1 .. N
      PROVE  f[i] = Narrowed(domain, msgid, f[i - 1])
  <2>1. f[i - 1] \in S /\ f[i] = step[<<i, f[i - 1]>>]
    <3> HIDE DEF step
    <3> QED
      BY <1>0, <1>3, IteratesEach
  <2> QED
    BY <2>1
<1>5. f = [i \in 0 .. N |-> IF i = 0 THEN first ELSE Narrowed(domain, msgid, f[i - 1])]
  <2> HIDE DEF step
  <2> QED
    BY <1>0, <1>3, <1>4 DEF Iterates
<1>6. rng = [i \in 0 .. N |-> IF i = 0 THEN first ELSE Narrowed(domain, msgid, rng[i - 1])]
  BY <1>5, Zenon
<1>7. Ranges(domain, msgid) = rng
  BY Zenon DEF Ranges, N, first
<1> HIDE DEF rng
<1> DEFINE Settled(b, t) == b = t \/ InMiddle(tab, msgid, [bottom |-> b, top |-> t])
           Good(i, b, t) == /\ rng[i] = [bottom |-> b, top |-> t] /\ Between(tab, N, msgid, b, t)
                            /\ Settled(b, t) \/ t - b <= N - i
           T == {i \in 0 .. N : Good(i, rng[i].bottom, rng[i].top)}
<1>8. 0 \in T
  <2>1. rng[0] = [bottom |-> 0, top |-> N] /\ 0 \in 0 .. N
    BY <1>0, <1>6 DEF first
  <2>2. rng[0].bottom = 0 /\ rng[0].top = N
    BY <2>1
  <2>3. Between(tab, N, msgid, 0, N)
    BY <1>0 DEF Between
  <2>4. N - 0 <= N - 0
    BY <1>0
  <2> QED
    BY <2>1, <2>2, <2>3, <2>4, Zenon
<1>9. ASSUME NEW i \in 1 .. N, i - 1 \in T
      PROVE  i \in T
  <2>1. i \in 0 .. N /\ i # 0
    BY <1>0
  <2> DEFINE b == rng[i - 1].bottom
             t == rng[i - 1].top
             range == [bottom |-> b, top |-> t]
  <2>2. Good(i - 1, b, t)
    BY <1>9, Zenon
  <2> DEFINE next == Narrowed(domain, msgid, range)
  <2>3. rng[i] = next
    BY <1>6, <2>1, <2>2, Zenon
  <2>4. /\ Between(tab, N, msgid, next.bottom, next.top)
        /\ IF b = t \/ InMiddle(tab, msgid, range) THEN next = range
           ELSE next.top - next.bottom < t - b
    <3> HIDE DEF b, t
    <3> QED
      BY <1>0, <2>2, Narrows DEF N
  <2>5. next = [bottom |-> next.bottom, top |-> next.top]
    <3> DEFINE mid == Middle(range)
               up  == Middle(range) + 1
    <3>1. range.bottom = b /\ range.top = t
      OBVIOUS
    <3> HIDE DEF range, b, t
    <3>2. \/ next = range
          \/ next = [bottom |-> b, top |-> mid]
          \/ next = [bottom |-> up, top |-> t]
      BY <3>1, Zenon DEF Narrowed
    <3> HIDE DEF next, mid, up
    <3>3. range = [bottom |-> b, top |-> t]
      BY DEF range
    <3> QED
      BY <3>2, <3>3
  <2>6. Settled(next.bottom, next.top) \/ next.top - next.bottom <= N - i
    <3>1. CASE b = t \/ InMiddle(tab, msgid, range)
      <4>1. next = range
        BY <2>4, <3>1, Zenon
      <4>2. next.bottom = b /\ next.top = t
        <5> HIDE DEF next
        <5> QED
          BY <4>1
      <4> QED
        BY <3>1, <4>2, Zenon
    <3>2. CASE ~ (b = t \/ InMiddle(tab, msgid, range))
      <4>1. next.top - next.bottom < t - b /\ t - b <= N - (i - 1)
        BY <2>2, <2>4, <3>2, Zenon
      <4>2. Between(tab, N, msgid, next.bottom, next.top) /\ Between(tab, N, msgid, b, t)
        BY <2>2, <2>4, Zenon
      <4> HIDE DEF next, b, t
      <4>3. b \in Int /\ t \in Int /\ next.bottom \in Int /\ next.top \in Int
        BY <4>2 DEF Between
      <4> QED
        BY <1>0, <4>1, <4>3
    <3> QED
      BY <3>1, <3>2
  <2> HIDE DEF next
  <2>7. rng[i].bottom = next.bottom /\ rng[i].top = next.top
    BY <2>3
  <2> QED
    BY <2>1, <2>3, <2>4, <2>5, <2>6, <2>7, Zenon
<1> DEFINE b == rng[N].bottom
           t == rng[N].top
<1>10. Good(N, b, t)
  <2> HIDE DEF T, Good
  <2>1. \A i \in 0 .. N : i \in T
    BY <1>0, <1>8, <1>9, Induction, Zenon
  <2>2. N \in T
    BY <1>0, <2>1
  <2> QED
    BY <2>2, Zenon DEF T
<1> DEFINE last == [bottom |-> b, top |-> t]
<1>11. Search(domain, msgid) = IF last.bottom >= last.top THEN NoIndex ELSE Middle(last) + 1
  BY <1>7, <1>10, Zenon DEF Search, N
<1>12. Between(tab, N, msgid, b, t) /\ (Settled(b, t) \/ t - b <= N - N)
  BY <1>10, Zenon
<1>13. last.bottom = b /\ last.top = t
  OBVIOUS
<1> HIDE DEF last, b, t
<1>14. /\ b \in 0 .. N /\ t \in 0 .. N /\ b <= t
       /\ \A i \in 1 .. b : Smaller(tab[i], msgid)
       /\ \A i \in t + 1 .. N : Smaller(msgid, tab[i])
  BY <1>12, Zenon DEF Between
<1>15. \A e \in 1 .. N : Original(domain, e) = tab[e]
  <2>1. \A e \in 1 .. N : e <= N
    BY <1>0
  <2> QED
    BY <2>1, Zenon DEF Original, N
<1>16. CASE b = t
  <2>1. Search(domain, msgid) = 0
    BY <1>0, <1>11, <1>13, <1>14, <1>16 DEF NoIndex
  <2>2. ASSUME NEW e \in 1 .. N
        PROVE  tab[e] # msgid
    <3>1. e \in 1 .. b \/ e \in t + 1 .. N
      BY <1>0, <1>14, <1>16
    <3> QED
      BY <1>14, <3>1, SmallerIsStrict, Zenon
  <2>3. 0 \in 0 .. N
    BY <1>0
  <2> QED
    BY <1>15, <2>1, <2>2, <2>3, Zenon DEF Finds, N
<1>17. CASE b < t
  <2>1. InMiddle(tab, msgid, last)
    <3>1. Settled(b, t)
      BY <1>0, <1>12, <1>14, <1>17
    <3>2. b # t
      BY <1>0, <1>14, <1>17
    <3> QED
      BY <3>1, <3>2, Zenon DEF last
  <2> DEFINE act == Middle(last) + 1
  <2>2. tab[act] = msgid
    BY <2>1, Zenon DEF InMiddle
  <2>3. act \in 1 .. N
    <3>1. (b + t) \div 2 \in b .. t - 1
      BY <1>0, <1>14, <1>17, MiddleInside
    <3>2. Middle(last) = (b + t) \div 2
      BY <1>13, Zenon DEF Middle
    <3> DEFINE mid == (b + t) \div 2
    <3> HIDE DEF mid
    <3>3. mid \in b .. t - 1
      BY <3>1 DEF mid
    <3>4. mid + 1 \in 1 .. N
      BY <1>0, <1>14, <3>3
    <3> QED
      BY <3>2, <3>4 DEF mid
  <2> HIDE DEF act
  <2>4. Search(domain, msgid) = act
    BY <1>0, <1>11, <1>13, <1>14, <1>17 DEF act
  <2>5. act \in 0 .. N /\ act # 0
    BY <1>0, <2>3
  <2> QED
    BY <1>15, <2>2, <2>3, <2>4, <2>5, Zenon DEF Finds, N
<1> QED
  BY <1>0, <1>14, <1>16, <1>17
-----------------------------------------------------------------------------
(***************************************************************************)
(* The strings with system dependent segments.                             *)
(***************************************************************************)
Known(string, values) ==
  \A i \in DOMAIN string :
    string[i].sysdepref = SEGMENTS_END \/ values[string[i].sysdepref] \in Seq(Nat)

LEMMA KnownSegments ==
  ASSUME NEW file, WrittenByMsgfmt(file), NEW pair, pair.orig \in Segmented,
         ValidPair(pair, SegmentValues(file)), ~ BadPair(pair, SegmentValues(file))
  PROVE  Known(pair.orig, SegmentValues(file))
<1> DEFINE values == SegmentValues(file)
           string == pair.orig
<1>1. DOMAIN values = DOMAIN file.segments /\ SEGMENTS_END \notin DOMAIN values
  BY Zenon DEF SegmentValues, WrittenByMsgfmt
<1>2. \A r \in DOMAIN values : values[r] # Undefined => values[r] \in Seq(Nat)
  BY <1>1, Zenon DEF WrittenByMsgfmt
<1>3. \A r \in References(string) : values[r] # Undefined
  BY Zenon DEF ValidPair
<1>4. ~ BadReference(string, values)
  BY Zenon DEF BadPair
<1> HIDE DEF values, string
<1>5. \A i \in DOMAIN string : string[i].sysdepref \in References(string) \cup {SEGMENTS_END}
  BY DEF References, ToSet
<1>6. DOMAIN string = 1 .. Len(string) /\ Len(string) \in Nat
  BY DEF Segmented, string
<1>7. ASSUME NEW i \in DOMAIN string, string[i].sysdepref # SEGMENTS_END
      PROVE  values[string[i].sysdepref] \in Seq(Nat)
  <2> DEFINE r == string[i].sysdepref
  <2>1. values[r] # Undefined
    BY <1>3, <1>5, <1>7, Zenon
  <2>2. SUFFICES ASSUME r \notin DOMAIN values
                 PROVE  FALSE
    BY <1>2, <2>1, Zenon
  <2>3. \A j \in 1 .. i - 1 : j \in DOMAIN string
    BY <1>6
  <2>4. PICK j \in 1 .. i - 1 : /\ string[j].sysdepref \in DOMAIN values
                                /\ values[string[j].sysdepref] = Undefined
    BY <1>4, <1>7, <2>2, Zenon DEF BadReference
  <2>5. string[j].sysdepref \in References(string)
    BY <1>1, <1>5, <2>3, <2>4, Zenon
  <2> QED
    BY <1>3, <2>4, <2>5, Zenon
<1> QED
  BY <1>7, Zenon DEF Known, values, string

LEMMA ExpandedIsText ==
  ASSUME NEW string \in Segmented, NEW values, Known(string, values)
  PROVE  Expanded(string, values) \in Seq(Nat)
<1> DEFINE N    == Len(string)
           S    == Seq(Nat)
           text == CHOOSE t : t = [n \in 0 .. N |->
                     IF n = 0 THEN <<>> ELSE t[n - 1] \o Segment(string, values, n)]
           step == [p \in (1 .. N) \X S |-> p[2] \o Segment(string, values, p[1])]
<1>0. N \in Nat /\ DOMAIN string = 1 .. N
  BY DEF Segmented
<1>1. <<>> \in S
  OBVIOUS
<1>2. ASSUME NEW n \in 1 .. N
      PROVE  Segment(string, values, n) \in S
  <2>1. string[n].text \in S
    <3>1. string[n] \in [text : Seq(Nat), sysdepref : Nat \cup {SEGMENTS_END}]
      <4> DEFINE R == [text : Seq(Nat), sysdepref : Nat \cup {SEGMENTS_END}]
      <4>1. string \in Seq(R)
        BY DEF Segmented
      <4> HIDE DEF R
      <4>2. string[n] \in R
        BY <4>1
      <4> QED
        BY <4>2 DEF R
    <3> QED
      BY <3>1
  <2>2. CASE string[n].sysdepref = SEGMENTS_END
    BY <1>1, <2>1, <2>2 DEF Segment
  <2>3. CASE string[n].sysdepref # SEGMENTS_END
    <3>1. values[string[n].sysdepref] \in S
      BY <1>0, <2>3, Zenon DEF Known
    <3>2. string[n].text \o values[string[n].sysdepref] \in S
      BY <2>1, <3>1
    <3> QED
      BY <2>3, <3>2, Zenon DEF Segment
  <2> QED
    BY <2>2, <2>3
<1>3. \A t \in S, n \in 1 .. N : t \o Segment(string, values, n) \in S
  <2> TAKE t \in S, n \in 1 .. N
  <2> DEFINE u == Segment(string, values, n)
  <2>1. u \in S
    BY <1>2
  <2> HIDE DEF u
  <2>2. t \o u \in S
    BY <2>1
  <2> QED
    BY <2>2 DEF u
<1> HIDE DEF N
<1>a. N \in Nat
  BY <1>0
<1>4. PICK f : Iterates(f, N, S, <<>>, step)
  <2>1. step \in [(1 .. N) \X S -> S]
    <3> HIDE DEF S
    <3>1. \A p \in (1 .. N) \X S : p[1] \in 1 .. N /\ p[2] \in S
      OBVIOUS
    <3> QED
      BY <1>3, <3>1, Zenon
  <2> HIDE DEF step, S
  <2> QED
    BY <1>0, <1>1, <2>1, Recursion
<1> HIDE DEF S
<1>5. ASSUME NEW n \in 1 .. N
      PROVE  f[n] = f[n - 1] \o Segment(string, values, n)
  <2>1. f[n - 1] \in S /\ f[n] = step[<<n, f[n - 1]>>]
    <3> HIDE DEF step
    <3> QED
      BY <1>0, <1>4, IteratesEach
  <2> QED
    BY <2>1
<1>6. f = [n \in 0 .. N |-> IF n = 0 THEN <<>> ELSE f[n - 1] \o Segment(string, values, n)]
  <2> HIDE DEF step
  <2> QED
    BY <1>a, <1>4, <1>5 DEF Iterates
<1>7. text = [n \in 0 .. N |-> IF n = 0 THEN <<>> ELSE text[n - 1] \o Segment(string, values, n)]
  BY <1>6, Zenon
<1>8. Expanded(string, values) = text[N]
  BY Zenon DEF Expanded, N
<1> HIDE DEF text
<1> DEFINE T == {n \in 0 .. N : text[n] \in S}
<1>9. 0 \in T
  BY <1>0, <1>1, <1>7
<1>10. ASSUME NEW n \in 1 .. N, n - 1 \in T
       PROVE  n \in T
  <2>1. n \in 0 .. N /\ n # 0
    BY <1>0
  <2>2. text[n] = text[n - 1] \o Segment(string, values, n)
    BY <1>7, <2>1, Zenon
  <2>3. text[n] \in S
    BY <1>3, <1>10, <2>2, Zenon
  <2> QED
    BY <2>1, <2>3, Zenon
<1> HIDE DEF T
<1>11. \A n \in 0 .. N : n \in T
  BY <1>0, <1>9, <1>10, Induction, Zenon
<1>12. N \in 0 .. N
  BY <1>0
<1> QED
  BY <1>8, <1>11, <1>12, Zenon DEF T, S

KeepsValid(pairs, sysdep, values) ==
  /\ Len(pairs) <= Len(sysdep)
  /\ \A i \in 1 .. Len(pairs) :
       ValidPair(pairs[i], values) /\ \E m \in 1 .. Len(sysdep) : sysdep[m] = pairs[i]
  /\ \A m \in 1 .. Len(sysdep) :
       ValidPair(sysdep[m], values) => \E i \in 1 .. Len(pairs) : pairs[i] = sysdep[m]

LEMMA ValidPairsAre ==
  ASSUME NEW P, NEW sysdep \in Seq(P), NEW values
  PROVE  /\ ValidPairs(sysdep, values) \in Seq(P)
         /\ KeepsValid(ValidPairs(sysdep, values), sysdep, values)
<1> DEFINE N     == Len(sysdep)
           S     == Seq(P)
           Next(n, pairs) ==
             IF ValidPair(sysdep[n], values) THEN Append(pairs, sysdep[n]) ELSE pairs
           tab   == CHOOSE t : t = [n \in 0 .. N |->
                      IF n = 0 THEN <<>>
                      ELSE IF ValidPair(sysdep[n], values) THEN Append(t[n - 1], sysdep[n])
                      ELSE t[n - 1]]
           step  == [p \in (1 .. N) \X S |-> Next(p[1], p[2])]
<1>0. N \in Nat
  OBVIOUS
<1>1. \A n \in 1 .. N : sysdep[n] \in P
  OBVIOUS
<1> HIDE DEF N
<1>2. <<>> \in S /\ \A t \in S, p \in P : Append(t, p) \in S
  OBVIOUS
<1> HIDE DEF S
<1>3. \A n \in 1 .. N, t \in S : Next(n, t) \in S
  BY <1>1, <1>2, Zenon
<1> HIDE DEF Next
<1>4. PICK f : Iterates(f, N, S, <<>>, step)
  <2>1. step \in [(1 .. N) \X S -> S]
    <3>1. \A p \in (1 .. N) \X S : p[1] \in 1 .. N /\ p[2] \in S
      OBVIOUS
    <3> QED
      BY <1>3, <3>1, Zenon
  <2> HIDE DEF step
  <2> QED
    BY <1>0, <1>2, <2>1, Recursion
<1>5. ASSUME NEW n \in 1 .. N
      PROVE  f[n] = Next(n, f[n - 1])
  <2>1. f[n - 1] \in S /\ f[n] = step[<<n, f[n - 1]>>]
    <3> HIDE DEF step
    <3> QED
      BY <1>0, <1>4, IteratesEach
  <2> QED
    BY <2>1
<1>6. f = [n \in 0 .. N |-> IF n = 0 THEN <<>> ELSE Next(n, f[n - 1])]
  <2> HIDE DEF step
  <2> QED
    BY <1>0, <1>4, <1>5 DEF Iterates
<1>7. tab = [n \in 0 .. N |->
               IF n = 0 THEN <<>>
               ELSE IF ValidPair(sysdep[n], values) THEN Append(tab[n - 1], sysdep[n])
               ELSE tab[n - 1]]
  <2>1. f = [n \in 0 .. N |->
               IF n = 0 THEN <<>>
               ELSE IF ValidPair(sysdep[n], values) THEN Append(f[n - 1], sysdep[n])
               ELSE f[n - 1]]
    BY <1>6, Zenon DEF Next
  <2> QED
    BY <2>1, Zenon
<1>8. ValidPairs(sysdep, values) = tab[N]
  BY Zenon DEF ValidPairs, N
<1> HIDE DEF tab
<1> DEFINE Kept(t, n) == \A i \in 1 .. Len(t) :
                           ValidPair(t[i], values) /\ \E m \in 1 .. n : sysdep[m] = t[i]
           Holds(t, n) == \A m \in 1 .. n : ValidPair(sysdep[m], values) =>
                            \E i \in 1 .. Len(t) : t[i] = sysdep[m]
           Good(t, n) == t \in S /\ Len(t) <= n /\ Kept(t, n) /\ Holds(t, n)
           T == {n \in 0 .. N : Good(tab[n], n)}
<1>9. 0 \in T
  <2>1. tab[0] = <<>> /\ 0 \in 0 .. N
    BY <1>0, <1>7
  <2>2. Good(<<>>, 0)
    BY <1>2
  <2> HIDE DEF Good
  <2> QED
    BY <2>1, <2>2, Zenon
<1>10. ASSUME NEW n \in 1 .. N, n - 1 \in T
       PROVE  n \in T
  <2> DEFINE old == tab[n - 1]
  <2>1. n \in 0 .. N /\ n # 0 /\ n \in 1 .. n /\ \A m \in 1 .. n : m = n \/ m \in 1 .. n - 1
    BY <1>0
  <2>2. Good(old, n - 1)
    BY <1>10, Zenon
  <2>3. tab[n] = Next(n, old)
    BY <1>7, <2>1, Zenon DEF Next
  <2> HIDE DEF old
  <2>4. old \in Seq(P) /\ Len(old) \in Nat
    BY <2>2 DEF S
  <2>5. \A m \in 1 .. n - 1 : m \in 1 .. n
    OBVIOUS
  <2>6. Good(Next(n, old), n)
    <3>1. CASE ~ ValidPair(sysdep[n], values)
      <4>1. Next(n, old) = old
        BY <3>1, Zenon DEF Next
      <4>2. Len(old) <= n
        BY <2>2, <2>4
      <4>3. Kept(old, n)
        BY <2>2, <2>5, Zenon
      <4>4. Holds(old, n)
        BY <2>1, <2>2, <3>1, Zenon
      <4> QED
        BY <2>2, <4>1, <4>2, <4>3, <4>4, Zenon
    <3>2. CASE ValidPair(sysdep[n], values)
      <4> DEFINE new == Append(old, sysdep[n])
                 L   == Len(old)
      <4>1. Next(n, old) = new
        BY <3>2, Zenon DEF Next
      <4>2. new \in S
        BY <1>1, <1>2, <2>2, Zenon
      <4>3. /\ Len(new) = L + 1 /\ new[L + 1] = sysdep[n]
            /\ \A i \in 1 .. L : new[i] = old[i]
        BY <1>1, <2>4
      <4> HIDE DEF new, L
      <4>4. L \in Nat /\ L <= n - 1 /\ L + 1 \in 1 .. L + 1 /\ \A i \in 1 .. L : i \in 1 .. L + 1
        BY <2>2, <2>4 DEF L
      <4>5. Len(new) <= n
        BY <4>3, <4>4
      <4>6. Kept(new, n)
        <5> SUFFICES ASSUME NEW i \in 1 .. L + 1
                     PROVE  ValidPair(new[i], values) /\ \E m \in 1 .. n : sysdep[m] = new[i]
          BY <4>3
        <5>1. CASE i = L + 1
          BY <2>1, <3>2, <4>3, <5>1, Zenon
        <5>2. CASE i # L + 1
          <6>1. i \in 1 .. L
            BY <4>4, <5>2
          <6>2. ValidPair(old[i], values) /\ \E m \in 1 .. n - 1 : sysdep[m] = old[i]
            BY <2>2, <6>1, Zenon DEF L
          <6>3. PICK m \in 1 .. n - 1 : sysdep[m] = old[i]
            BY <6>2
          <6>4. new[i] = old[i] /\ m \in 1 .. n
            BY <2>5, <4>3, <6>1, Zenon
          <6> QED
            BY <6>2, <6>3, <6>4, Zenon
        <5> QED
          BY <5>1, <5>2
      <4>7. Holds(new, n)
        <5> SUFFICES ASSUME NEW m \in 1 .. n, ValidPair(sysdep[m], values)
                     PROVE  \E i \in 1 .. L + 1 : new[i] = sysdep[m]
          BY <4>3
        <5>1. CASE m = n
          BY <4>3, <4>4, <5>1, Zenon
        <5>2. CASE m # n
          <6>1. PICK i \in 1 .. L : old[i] = sysdep[m]
            BY <2>1, <2>2, <5>2, Zenon DEF L
          <6> QED
            BY <4>3, <4>4, <6>1, Zenon
        <5> QED
          BY <5>1, <5>2
      <4> QED
        BY <4>1, <4>2, <4>5, <4>6, <4>7, Zenon
    <3> QED
      BY <3>1, <3>2
  <2> HIDE DEF Good
  <2> QED
    BY <2>1, <2>3, <2>6, Zenon DEF old
<1> HIDE DEF T, Good
<1>11. \A n \in 0 .. N : n \in T
  BY <1>0, <1>9, <1>10, Induction, Zenon
<1>12. N \in 0 .. N
  BY <1>0
<1>13. Good(tab[N], N)
  BY <1>11, <1>12, Zenon DEF T
<1> QED
  BY <1>8, <1>13, Zenon DEF Good, S, N, KeepsValid
-----------------------------------------------------------------------------
(***************************************************************************)
(* The domain a file is loaded into: its entries are the pairs the file    *)
(* means, and each is found.                                               *)
(***************************************************************************)
TranslationAt(domain, n) ==
  IF n <= Len(domain.orig_tab) THEN domain.trans_tab[n]
  ELSE domain.trans_sysdep_tab[n - Len(domain.orig_tab)]

Holds(domain, m, file) ==
  /\ \A n \in 1 .. m : <<Original(domain, n), TranslationAt(domain, n)>> \in Pairs(file)
  /\ \A pair \in Pairs(file) : \E n \in 1 .. m : Original(domain, n) = pair[1]

LEMMA FindsWhatIsMeant ==
  ASSUME NEW file, NEW domain, NEW m \in Nat, NEW msgid, Holds(domain, m, file),
         Finds(domain, m, msgid, _nl_find_msg(domain, msgid))
  PROVE  FindsMeant(file, domain, msgid)
<1> DEFINE act   == _nl_find_msg(domain, msgid)
           asked == {q \in Pairs(file) : q[1] = msgid}
           meant == {pair[2] : pair \in asked}
<1>1. /\ act \in 0 .. m
      /\ act # 0 => Original(domain, act) = msgid
      /\ act = 0 => \A e \in 1 .. m : Original(domain, e) # msgid
  BY Zenon DEF Finds
<1>2. act # -1
  <2> HIDE DEF act
  <2> QED
    BY <1>1
<1>3. CASE act = 0
  <2>1. asked = {}
    BY <1>1, <1>3, Zenon DEF Holds
  <2>2. meant = {}
    BY <2>1, Zenon
  <2>3. Translation(domain, msgid) = Undefined
    BY <1>3, Zenon DEF Translation, NoIndex
  <2> QED
    BY <1>2, <2>2, <2>3, Zenon DEF FindsMeant
<1>4. CASE act # 0
  <2>1. act \in 1 .. m
    <3> HIDE DEF act
    <3> QED
      BY <1>1, <1>4
  <2>2. Translation(domain, msgid) = TranslationAt(domain, act)
    BY <1>4, Zenon DEF Translation, TranslationAt, NoIndex
  <2> DEFINE pair == <<Original(domain, act), TranslationAt(domain, act)>>
  <2>3. pair \in Pairs(file)
    BY <2>1, Zenon DEF Holds
  <2>4. pair[1] = msgid /\ pair[2] = TranslationAt(domain, act)
    BY <1>1, <1>4
  <2> HIDE DEF pair
  <2>5. pair \in asked
    BY <2>3, <2>4, Zenon
  <2>6. TranslationAt(domain, act) \in meant
    BY <2>4, <2>5, Zenon
  <2> HIDE DEF meant
  <2>7. meant # {}
    BY <2>6
  <2> QED
    BY <1>2, <2>2, <2>6, <2>7, Zenon DEF meant, FindsMeant
<1> QED
  BY <1>3, <1>4

(* The hash table of a file leads to its strings.                           *)
LEMMA TableOfFile ==
  ASSUME NEW file, WrittenByMsgfmt(file), file.hash_tab_size > 2, NEW name,
         \A e \in 1 .. Len(file.orig_tab) : name[e] = file.orig_tab[e]
  PROVE  Table(file.hash_tab, file.hash_tab_size, name, Len(file.orig_tab))
<1> DEFINE size == file.hash_tab_size
           tab  == file.orig_tab
           N    == Len(tab)
           zero == [i \in 0 .. size - 1 |-> 0]
<1>1. /\ size \in Nat /\ size > 2 /\ Prime(size) /\ N + Len(file.sysdep) < size
      /\ file.hash_tab = Inserted(zero, size, 0, tab) /\ tab \in Seq(Seq(Nat))
  BY Zenon DEF WrittenByMsgfmt, WithTable
<1>2. Len(file.sysdep) \in Nat
  BY DEF WrittenByMsgfmt
<1>3. N \in Nat /\ \A e \in 1 .. N : tab[e] \in Seq(Nat)
  BY <1>1
<1> DEFINE K == Len(file.sysdep)
<1>4. 0 + N = N /\ N < size /\ \A i \in 1 .. N : 0 + i = i
  <2>1. N \in Nat /\ K \in Nat /\ size \in Nat /\ N + K < size
    BY <1>1, <1>2, <1>3
  <2> HIDE DEF N, K, size
  <2> QED
    BY <2>1
<1>5. \A e \in 1 .. N : name[e] = tab[e]
  OBVIOUS
<1> HIDE DEF N, tab, size
<1>6. Table(zero, size, name, 0)
  <2>1. zero \in [0 .. size - 1 -> 0 .. 0]
    OBVIOUS
  <2>2. \A i \in DOMAIN zero, j \in DOMAIN zero : zero[i] = zero[j] => i = j \/ zero[i] = 0
    OBVIOUS
  <2>3. \A e \in 1 .. 0 : Met(zero, Way(size, name[e]), e)
    OBVIOUS
  <2> HIDE DEF zero
  <2> QED
    BY <2>1, <2>2, <2>3, Zenon DEF Table
<1> HIDE DEF zero
<1>7. \A e \in 1 .. 0 + N : name[e] \in Seq(Nat)
  BY <1>3, <1>4, <1>5, Zenon
<1>8. \A i \in 1 .. N : name[0 + i] = tab[i]
  BY <1>4, <1>5, Zenon
<1>9. Table(Inserted(zero, size, 0, tab), size, name, 0 + N)
  <2>1. 0 \in Nat /\ size \in Nat /\ size > 2 /\ Prime(size) /\ 0 + N < size /\ tab \in Seq(Seq(Nat))
    BY <1>1, <1>4
  <2> QED
    BY <1>6, <1>7, <1>8, <2>1, InsertedAll DEF N
<1> QED
  BY <1>1, <1>4, <1>9, Zenon DEF N, tab, size, zero

LEMMA WithoutFinds ==
  ASSUME NEW file, WrittenByMsgfmt(file), file.minor = 0, NEW msgid \in Seq(Nat)
  PROVE  \E m \in Nat : /\ Holds(Without(file), m, file)
                        /\ Finds(Without(file), m, msgid, _nl_find_msg(Without(file), msgid))
<1> DEFINE domain == Without(file)
           tab    == file.orig_tab
           N      == Len(tab)
<1>1. /\ domain.orig_tab = tab /\ domain.trans_tab = file.trans_tab
      /\ domain.hash_size = file.hash_tab_size /\ domain.hash_tab = file.hash_tab
  BY DEF Without
<1>2. tab \in Seq(Seq(Nat)) /\ file.sysdep \in Seq([orig : Segmented, trans : Segmented])
  BY Zenon DEF WrittenByMsgfmt
<1>3. N \in Nat /\ DOMAIN tab = 1 .. N
  BY <1>2
<1>4. \A n \in 1 .. N : n <= N /\ n \in Nat
  BY <1>3
<1> HIDE DEF domain, N
<1>5. \A n \in 1 .. N : Original(domain, n) = tab[n] /\ TranslationAt(domain, n) = file.trans_tab[n]
  BY <1>1, <1>4, Zenon DEF Original, TranslationAt, N
<1>6. Pairs(file) = {<<tab[i], file.trans_tab[i]>> : i \in 1 .. N}
  <2>1. Pairs(file) = {<<tab[i], file.trans_tab[i]>> : i \in DOMAIN tab} \cup {}
    BY Zenon DEF Pairs
  <2> QED
    BY <1>3, <2>1
<1>7. Holds(domain, N, file)
  <2>1. \A n \in 1 .. N : <<Original(domain, n), TranslationAt(domain, n)>> \in Pairs(file)
    BY <1>5, <1>6
  <2>2. ASSUME NEW pair \in Pairs(file)
        PROVE  \E n \in 1 .. N : Original(domain, n) = pair[1]
    <3>1. PICK n \in 1 .. N : pair = <<tab[n], file.trans_tab[n]>>
      BY <1>6, Zenon
    <3>2. pair[1] = tab[n]
      BY <3>1
    <3> QED
      BY <1>5, <3>2, Zenon
  <2> QED
    BY <2>1, <2>2, Zenon DEF Holds
<1>8. CASE HasHashTable(domain)
  <2> DEFINE name == [e \in 1 .. N |-> tab[e]]
  <2>1. file.hash_tab_size > 2
    BY <1>1, <1>8, Zenon DEF HasHashTable
  <2>2. \A e \in 1 .. N : name[e] = tab[e]
    OBVIOUS
  <2> HIDE DEF name
  <2>3. Table(domain.hash_tab, domain.hash_size, name, N)
    BY <1>1, <2>1, <2>2, TableOfFile, Zenon DEF N
  <2>4. /\ domain.hash_size \in Nat /\ Prime(domain.hash_size)
        /\ N + Len(file.sysdep) < domain.hash_size
    BY <1>1, <2>1, Zenon DEF WrittenByMsgfmt, WithTable, N
  <2>5. Len(file.sysdep) \in Nat
    BY <1>2
  <2>6. N < domain.hash_size
    BY <1>3, <2>4, <2>5
  <2>7. \A e \in 1 .. N : name[e] = Original(domain, e)
    BY <1>5, <2>2, Zenon
  <2>8. domain.hash_size > 2
    BY <1>1, <2>1, Zenon
  <2>9. Finds(domain, N, msgid, Hashed(domain, msgid))
    BY <1>3, <2>3, <2>4, <2>6, <2>7, <2>8, HashedFinds
  <2>10. _nl_find_msg(domain, msgid) = Hashed(domain, msgid)
    BY <1>8, Zenon DEF _nl_find_msg
  <2> QED
    BY <1>3, <1>7, <2>9, <2>10, Zenon DEF domain
<1>9. CASE ~ HasHashTable(domain)
  <2>1. Sorted(domain.orig_tab)
    BY <1>1, Zenon DEF Sorted, WrittenByMsgfmt
  <2>2. Finds(domain, N, msgid, Search(domain, msgid))
    BY <1>1, <1>2, <2>1, SearchFinds, Zenon DEF N
  <2>3. _nl_find_msg(domain, msgid) = Search(domain, msgid)
    BY <1>9, Zenon DEF _nl_find_msg
  <2> QED
    BY <1>3, <1>7, <2>2, <2>3, Zenon DEF domain
<1> QED
  BY <1>8, <1>9

LEMMA WithSysdepFinds ==
  ASSUME NEW file, WrittenByMsgfmt(file), file.minor # 0, file.hash_tab_size > 2,
         \A pair \in ToSet(file.sysdep) : ~ BadPair(pair, SegmentValues(file)),
         NEW msgid \in Seq(Nat)
  PROVE  \E m \in Nat : /\ Holds(WithSysdep(file), m, file)
                        /\ Finds(WithSysdep(file), m, msgid, _nl_find_msg(WithSysdep(file), msgid))
<1> DEFINE domain == WithSysdep(file)
           values == SegmentValues(file)
           P      == [orig : Segmented, trans : Segmented]
           sysdep == file.sysdep
           M      == Len(sysdep)
           pairs  == ValidPairs(sysdep, values)
           K      == Len(pairs)
           tab    == file.orig_tab
           N      == Len(tab)
           size   == file.hash_tab_size
           orig   == [i \in DOMAIN pairs |-> Expanded(pairs[i].orig, values)]
           trans  == [i \in DOMAIN pairs |-> Expanded(pairs[i].trans, values)]
<1>1. /\ domain.orig_tab = tab /\ domain.trans_tab = file.trans_tab /\ domain.hash_size = size
      /\ domain.orig_sysdep_tab = orig /\ domain.trans_sysdep_tab = trans
      /\ domain.hash_tab = Inserted(file.hash_tab, size, N, orig)
  BY DEF WithSysdep
<1>2. tab \in Seq(Seq(Nat)) /\ sysdep \in Seq(P) /\ size \in Nat /\ Prime(size) /\ N + M < size
  BY Zenon DEF WrittenByMsgfmt, WithTable
<1>3. /\ N \in Nat /\ DOMAIN tab = 1 .. N /\ M \in Nat /\ DOMAIN sysdep = 1 .. M
      /\ \A n \in 1 .. N : tab[n] \in Seq(Nat)
  <2> HIDE DEF P, size
  <2> QED
    BY <1>2
<1>4. ToSet(sysdep) = {sysdep[m] : m \in 1 .. M}
  BY <1>3, Zenon DEF ToSet
<1>5. /\ pairs \in Seq(P) /\ K <= M
      /\ \A i \in 1 .. K : ValidPair(pairs[i], values) /\ \E m \in 1 .. M : sysdep[m] = pairs[i]
      /\ \A m \in 1 .. M : ValidPair(sysdep[m], values) => \E i \in 1 .. K : pairs[i] = sysdep[m]
  <2> HIDE DEF P, values
  <2>1. sysdep \in Seq(P)
    BY <1>2
  <2> HIDE DEF sysdep, pairs
  <2>2. pairs \in Seq(P) /\ KeepsValid(pairs, sysdep, values)
    BY <2>1, ValidPairsAre DEF pairs
  <2> QED
    BY <2>2, Zenon DEF KeepsValid
<1> HIDE DEF pairs
<1>6. K \in Nat /\ DOMAIN pairs = 1 .. K
  <2> HIDE DEF P
  <2> QED
    BY <1>5
<1>7. ASSUME NEW i \in 1 .. K
      PROVE  Expanded(pairs[i].orig, values) \in Seq(Nat)
  <2>1. pairs[i] \in P
    <3> HIDE DEF P
    <3> QED
      BY <1>5, <1>6
  <2>2. pairs[i].orig \in Segmented
    <3> HIDE DEF pairs
    <3> QED
      BY <2>1
  <2>3. pairs[i] \in ToSet(sysdep)
    BY <1>4, <1>5
  <2>4. ~ BadPair(pairs[i], values)
    BY <2>3, Zenon
  <2>5. ValidPair(pairs[i], values)
    BY <1>5, Zenon
  <2>6. Known(pairs[i].orig, values)
    BY <2>2, <2>4, <2>5, KnownSegments, Zenon
  <2> QED
    BY <2>2, <2>6, ExpandedIsText, Zenon
<1> HIDE DEF K
<1>8. orig \in Seq(Seq(Nat)) /\ Len(orig) = K /\ \A i \in 1 .. K : orig[i] = Expanded(pairs[i].orig, values)
  <2> DEFINE S == Seq(Nat)
  <2>1. orig = [i \in 1 .. K |-> orig[i]] /\ \A i \in 1 .. K : orig[i] \in S
    BY <1>6, <1>7, Zenon
  <2>2. \A i \in 1 .. K : orig[i] = Expanded(pairs[i].orig, values)
    BY <1>6, Zenon
  <2> HIDE DEF S, orig
  <2>3. orig \in [1 .. K -> S]
    BY <2>1, Zenon
  <2>4. orig \in Seq(S) /\ Len(orig) = K
    BY <1>6, <2>3
  <2> QED
    BY <2>2, <2>4 DEF S
<1>9. \A i \in 1 .. K : trans[i] = Expanded(pairs[i].trans, values)
  BY <1>6, Zenon
<1> HIDE DEF domain, orig, trans, P, values, sysdep, M, tab, N, size
<1>10. /\ \A n \in 1 .. N : n <= N /\ n \in 1 .. N + K
       /\ \A i \in 1 .. K : ~ (N + i <= N) /\ (N + i) - N = i /\ N + i \in 1 .. N + K
       /\ \A n \in 1 .. N + K : n \in 1 .. N \/ \E i \in 1 .. K : n = N + i
  <2>1. ASSUME NEW n \in 1 .. N + K, n \notin 1 .. N
        PROVE  \E i \in 1 .. K : n = N + i
    <3>1. n - N \in 1 .. K /\ n = N + (n - N)
      BY <1>3, <1>6, <2>1
    <3> QED
      BY <3>1
  <2> QED
    BY <1>3, <1>6, <2>1
<1>11. \A n \in 1 .. N : Original(domain, n) = tab[n] /\ TranslationAt(domain, n) = file.trans_tab[n]
  BY <1>1, <1>10, Zenon DEF Original, TranslationAt, N
<1>12. \A i \in 1 .. K : /\ Original(domain, N + i) = orig[i]
                         /\ TranslationAt(domain, N + i) = trans[i]
  BY <1>1, <1>10, Zenon DEF Original, TranslationAt, N
<1>13. \A n \in 1 .. N + K : Original(domain, n) \in Seq(Nat)
  <2>1. \A n \in 1 .. N : Original(domain, n) \in Seq(Nat)
    BY <1>3, <1>11, Zenon
  <2>2. \A i \in 1 .. K : Original(domain, N + i) \in Seq(Nat)
    BY <1>7, <1>8, <1>12, Zenon
  <2> QED
    BY <1>10, <2>1, <2>2, Zenon
<1> DEFINE own   == {<<tab[i], file.trans_tab[i]>> : i \in DOMAIN tab}
           valid == {p \in ToSet(sysdep) : ValidPair(p, values)}
           more  == {<<Expanded(p.orig, values), Expanded(p.trans, values)>> : p \in valid}
<1>14. Pairs(file) = own \cup more
  <2> DEFINE Knows(string) == \A r \in References(string) : values[r] # Undefined
             knows == {q \in ToSet(sysdep) : Knows(q.orig) /\ Knows(q.trans)}
  <2>1. knows = valid
    <3>1. \A q : ValidPair(q, values) <=> Knows(q.orig) /\ Knows(q.trans)
      BY Zenon DEF ValidPair
    <3> HIDE DEF Knows
    <3> QED
      BY <3>1
  <2>2. Pairs(file) =
          own \cup {<<Expanded(p.orig, values), Expanded(p.trans, values)>> : p \in knows}
    BY Zenon DEF Pairs, values, sysdep, tab
  <2> QED
    BY <2>1, <2>2, Zenon
<1> HIDE DEF own, more
<1>15. Holds(domain, N + K, file)
  <2>1. ASSUME NEW n \in 1 .. N + K
        PROVE  <<Original(domain, n), TranslationAt(domain, n)>> \in Pairs(file)
    <3>1. CASE n \in 1 .. N
      <4>1. <<tab[n], file.trans_tab[n]>> \in own
        BY <1>3, <3>1, Zenon DEF own
      <4> QED
        BY <1>11, <1>14, <3>1, <4>1, Zenon
    <3>2. CASE \E i \in 1 .. K : n = N + i
      <4>1. PICK i \in 1 .. K : n = N + i
        BY <3>2
      <4>2. pairs[i] \in valid
        BY <1>4, <1>5
      <4>3. <<orig[i], trans[i]>> \in more
        BY <1>8, <1>9, <4>2, Zenon DEF more
      <4> QED
        BY <1>12, <1>14, <4>1, <4>3, Zenon
    <3> QED
      BY <1>10, <3>1, <3>2
  <2>2. ASSUME NEW pair \in own
        PROVE  \E n \in 1 .. N + K : Original(domain, n) = pair[1]
    <3>1. PICK n \in 1 .. N : pair = <<tab[n], file.trans_tab[n]>>
      BY <1>3, Zenon DEF own
    <3>2. pair[1] = tab[n]
      BY <3>1
    <3> QED
      BY <1>10, <1>11, <3>2, Zenon
  <2>3. ASSUME NEW pair \in more
        PROVE  \E n \in 1 .. N + K : Original(domain, n) = pair[1]
    <3>1. PICK p \in valid : pair = <<Expanded(p.orig, values), Expanded(p.trans, values)>>
      BY Zenon DEF more
    <3>2. PICK m \in 1 .. M : sysdep[m] = p
      BY <1>4
    <3>3. PICK i \in 1 .. K : pairs[i] = p
      BY <1>5, <3>2, Zenon
    <3>4. pair[1] = orig[i]
      <4>1. pair[1] = Expanded(p.orig, values)
        BY <3>1
      <4> QED
        BY <1>8, <3>3, <4>1, Zenon
    <3> QED
      BY <1>10, <1>12, <3>4, Zenon
  <2> QED
    BY <1>14, <2>1, <2>2, <2>3, Zenon DEF Holds
<1> DEFINE name == [e \in 1 .. N + K |-> Original(domain, e)]
<1>16. \A e \in 1 .. N + K : name[e] = Original(domain, e)
  OBVIOUS
<1> HIDE DEF name
<1>17. Table(file.hash_tab, size, name, N)
  <2>1. \A e \in 1 .. N : name[e] = tab[e]
    BY <1>10, <1>11, <1>16, Zenon
  <2> QED
    BY <2>1, TableOfFile, Zenon DEF N, tab, size
<1>18. N + K < size /\ size > 2
  <2>1. K <= M /\ N + M < size /\ size \in Nat
    BY <1>2, <1>5
  <2> QED
    BY <1>3, <1>6, <2>1 DEF size
<1>19. Table(domain.hash_tab, size, name, N + K)
  <2>1. \A i \in 1 .. K : name[N + i] = orig[i]
    BY <1>10, <1>12, <1>16, Zenon
  <2>2. \A e \in 1 .. N + K : name[e] \in Seq(Nat)
    BY <1>13, <1>16, Zenon
  <2>3. Table(Inserted(file.hash_tab, size, N, orig), size, name, N + Len(orig))
    <3>1. Len(orig) = K
      BY <1>8
    <3> QED
      BY <1>2, <1>3, <1>8, <1>17, <1>18, <2>1, <2>2, <3>1, InsertedAll
  <2> QED
    BY <1>1, <1>8, <2>3, Zenon
<1>20. N + K \in Nat
  BY <1>3, <1>6
<1>21. Finds(domain, N + K, msgid, Hashed(domain, msgid))
  <2>1. /\ domain.hash_size \in Nat /\ domain.hash_size > 2 /\ Prime(domain.hash_size)
        /\ N + K < domain.hash_size /\ Table(domain.hash_tab, domain.hash_size, name, N + K)
    BY <1>1, <1>2, <1>18, <1>19, Zenon
  <2> QED
    BY <1>16, <1>20, <2>1, HashedFinds
<1>22. _nl_find_msg(domain, msgid) = Hashed(domain, msgid)
  BY <1>1, <1>18, Zenon DEF _nl_find_msg, HasHashTable
<1> QED
  BY <1>15, <1>20, <1>21, <1>22, Zenon DEF domain

LEMMA LoadedFinds ==
  ASSUME NEW file, WrittenByMsgfmt(file), NEW msgid \in Seq(Nat),
         NEW domain \in _nl_load_tables(file), domain # Invalid
  PROVE  FindsMeant(file, domain, msgid)
<1>1. \E m \in Nat : /\ Holds(domain, m, file)
                     /\ Finds(domain, m, msgid, _nl_find_msg(domain, msgid))
  <2>1. file.major \in {0, 1}
    BY Zenon DEF _nl_load_tables
  <2>2. CASE file.minor = 0
    <3>1. domain = Without(file)
      BY <2>1, <2>2, Zenon DEF _nl_load_tables
    <3> QED
      BY <2>2, <3>1, WithoutFinds, Zenon
  <2>3. CASE file.minor # 0
    <3>1. ~ (file.hash_tab_size <= 2)
      BY <2>1, <2>3, Zenon DEF _nl_load_tables
    <3>a. ~ (file.sysdep # <<>> /\ BadName(file))
      BY <2>1, <2>3, <3>1, Zenon DEF _nl_load_tables
    <3>2. ~ \E pair \in ToSet(file.sysdep) : BadPair(pair, SegmentValues(file))
      BY <2>1, <2>3, <3>1, <3>a, Zenon DEF _nl_load_tables
    <3>3. domain = WithSysdep(file)
      BY <2>1, <2>3, <3>1, <3>2, <3>a, Zenon DEF _nl_load_tables
    <3>4. file.hash_tab_size > 2
      BY <3>1 DEF WrittenByMsgfmt
    <3> QED
      BY <2>3, <3>2, <3>3, <3>4, WithSysdepFinds, Zenon
  <2> QED
    BY <2>2, <2>3
<1> QED
  BY <1>1, FindsWhatIsMeant, Zenon

CatalogInv ==
  /\ catalog \in Catalogs
  /\ loaded = Undefined \/ loaded \in _nl_load_tables(catalog)
  /\ sought = Undefined \/ sought \in Sought

(* Whatever strings the catalogs of msgfmt have, with and without a hash    *)
(* table, with and without system dependent segments, each message that     *)
(* means something on this system is found with its translation once the    *)
(* catalog is loaded, no other is, and no search goes round for ever.       *)
THEOREM CatalogFindsItsMessages == CatalogSpec => []FindsItsMessages
<1>1. CatalogInit => CatalogInv
  BY Zenon DEF CatalogInit, CatalogInv
<1>2. CatalogInv /\ [CatalogNext]_catalogVars => CatalogInv'
  <2> SUFFICES ASSUME CatalogInv, [CatalogNext]_catalogVars
               PROVE  CatalogInv'
    OBVIOUS
  <2>1. CASE LoadCatalog
    BY <2>1, Zenon DEF CatalogInv, LoadCatalog
  <2>2. CASE FindMessage
    BY <2>2, Zenon DEF CatalogInv, FindMessage
  <2>3. CASE UNCHANGED catalogVars
    BY <2>3, Zenon DEF CatalogInv, catalogVars
  <2> QED
    BY <2>1, <2>2, <2>3, Zenon DEF CatalogNext
<1>3. CatalogInv => FindsItsMessages
  <2> SUFFICES ASSUME CatalogInv, loaded # Undefined, loaded # Invalid, sought # Undefined
               PROVE  FindsMeant(catalog, loaded, sought)
    BY Zenon DEF FindsItsMessages
  <2>1. WrittenByMsgfmt(catalog) /\ sought \in Seq(Nat)
    BY CatalogAssumption DEF CatalogInv
  <2>2. loaded \in _nl_load_tables(catalog)
    BY Zenon DEF CatalogInv
  <2> QED
    BY <2>1, <2>2, LoadedFinds, Zenon
<1> QED
  BY <1>1, <1>2, <1>3, PTL DEF CatalogSpec
=============================================================================
