---------------------------- MODULE ArrayCINProofs ----------------------------
(***************************************************************************)
(* Theorems about the cin tables: for every file and every way to load it, *)
(* the searches stay inside the maps, answer with words of the file only,  *)
(* and miss none where the map they search is in order.                    *)
(*                                                                         *)
(* A map is described by the lines its entries come from: place[r] is the  *)
(* line of the r-th pair, and the e-th entry holds the words of the pairs  *)
(* from[e - 1] + 1 to from[e].                                             *)
(***************************************************************************)
EXTENDS ArrayCIN, FiniteSetTheorems, SequenceTheorems, TLAPS

Pairs == Texts \X Texts

GroupedBy(map, from, place, n, key, word) ==
  /\ from \in [0 .. Len(map) -> 0 .. n]
  /\ from[0] = 0 /\ from[Len(map)] = n
  /\ \A e, f \in 0 .. Len(map) : e < f => from[e] < from[f]
  /\ \A e \in 1 .. Len(map) :
       /\ Len(map[e].second) = from[e] - from[e - 1]
       /\ \A x \in 1 .. Len(map[e].second) :
            /\ key[place[from[e - 1] + x]] = map[e].first
            /\ word[place[from[e - 1] + x]] = map[e].second[x]
  /\ \A r \in 1 .. n : \E e \in 1 .. Len(map) : from[e - 1] < r /\ r <= from[e]
  /\ \A e \in 1 .. Len(map) - 1 : map[e].first # map[e + 1].first

(* out lists the texts of the lines S, each line once, in the order source. *)
Collects(out, source, S, text) ==
  /\ source \in Bijection(1 .. Len(out), S)
  /\ \A x \in 1 .. Len(out) : out[x] = text[source[x]]

Increasing(f, n) == \A q, r \in 1 .. n : q < r => f[q] < f[r]

(* The lines listed in place are in the order of their texts.               *)
Sorted(place, n, text) ==
  \A q, r \in 1 .. n : q < r => text[place[q]] <= text[place[r]]

(* Lines of the same text are listed in the order of the file.              *)
Stable(place, n, text) ==
  \A q, r \in 1 .. n :
    q < r /\ text[place[q]] = text[place[r]] => place[q] < place[r]
-----------------------------------------------------------------------------
(***************************************************************************)
(* stable_sort.                                                            *)
(***************************************************************************)
(* What stands at or before the n-th pair once s is sorted.                 *)
Upto(s, field, n) ==
  {m \in 1 .. Len(s) : \/ s[m][field] < s[n][field]
                       \/ s[m][field] = s[n][field] /\ m <= n}

Before(s, field, m, n) ==
  s[m][field] < s[n][field] \/ (s[m][field] = s[n][field] /\ m < n)

LEMMA IntervalSize ==
  ASSUME NEW S, NEW s \in Seq(S)
  PROVE  /\ Len(s) \in Nat /\ IsFiniteSet(1 .. Len(s))
         /\ Cardinality(1 .. Len(s)) = Len(s)
<1>1. Len(s) \in Nat /\ Len(s) \in Int /\ 1 \in Int
  OBVIOUS
<1>2. /\ IsFiniteSet(1 .. Len(s))
      /\ Cardinality(1 .. Len(s)) = IF 1 > Len(s) THEN 0 ELSE Len(s) - 1 + 1
  BY <1>1, FS_Interval
<1> QED
  BY <1>1, <1>2

LEMMA FieldsTyped ==
  ASSUME NEW s \in Seq(Pairs), NEW field \in {KeyField, ValueField},
         NEW n \in 1 .. Len(s)
  PROVE  s[n][field] \in Nat
<1>1. s[n] \in Texts \X Texts
  BY DEF Pairs
<1>2. s[n][1] \in Nat /\ s[n][2] \in Nat
  BY <1>1, TextAssumption
<1>3. CASE field = 1
  BY <1>2, <1>3
<1>4. CASE field = 2
  BY <1>2, <1>4
<1> QED
  BY <1>3, <1>4 DEF KeyField, ValueField

LEMMA RanksDiffer ==
  ASSUME NEW s \in Seq(Pairs), NEW field \in {KeyField, ValueField},
         NEW m \in 1 .. Len(s), NEW n \in 1 .. Len(s), m # n
  PROVE  /\ Cardinality(Upto(s, field, n)) \in 1 .. Len(s)
         /\ Cardinality(Upto(s, field, m)) # Cardinality(Upto(s, field, n))
         /\ \/ Cardinality(Upto(s, field, n)) < Cardinality(Upto(s, field, m))
            \/ Before(s, field, m, n)
<1>1. /\ Len(s) \in Nat
      /\ \A l \in 1 .. Len(s) : s[l][field] \in Nat
  BY FieldsTyped
<1>2. /\ IsFiniteSet(1 .. Len(s)) /\ Cardinality(1 .. Len(s)) = Len(s)
  BY IntervalSize
<1>3. ASSUME NEW l \in 1 .. Len(s)
      PROVE  /\ IsFiniteSet(Upto(s, field, l)) /\ l \in Upto(s, field, l)
             /\ Cardinality(Upto(s, field, l)) \in 1 .. Len(s)
  <2>1. Upto(s, field, l) \in SUBSET (1 .. Len(s)) /\ l \in Upto(s, field, l)
    BY DEF Upto
  <2>2. /\ IsFiniteSet(Upto(s, field, l))
        /\ Cardinality(Upto(s, field, l)) <= Len(s)
    BY <1>2, <2>1, FS_Subset
  <2>3. Cardinality(Upto(s, field, l)) \in Nat /\ Cardinality(Upto(s, field, l)) # 0
    BY <2>1, <2>2, FS_CardinalityType, FS_EmptySet
  <2> QED
    BY <1>1, <2>1, <2>2, <2>3
<1>4. ASSUME NEW k \in 1 .. Len(s), NEW l \in 1 .. Len(s), k # l,
             Before(s, field, k, l)
      PROVE  Cardinality(Upto(s, field, k)) < Cardinality(Upto(s, field, l))
  <2>1. Upto(s, field, k) \in SUBSET Upto(s, field, l)
    BY <1>1, <1>4 DEF Upto, Before
  <2>2. l \in Upto(s, field, l) /\ l \notin Upto(s, field, k)
    BY <1>1, <1>4 DEF Upto, Before
  <2>3. /\ Cardinality(Upto(s, field, k)) <= Cardinality(Upto(s, field, l))
        /\ Cardinality(Upto(s, field, k)) # Cardinality(Upto(s, field, l))
    BY <1>3, <2>1, <2>2, FS_Subset
  <2> QED
    BY <1>1, <1>3, <2>3
<1>5. Before(s, field, m, n) \/ Before(s, field, n, m)
  BY <1>1 DEF Before
<1>6. CASE Before(s, field, m, n)
  BY <1>1, <1>3, <1>4, <1>6
<1>7. CASE Before(s, field, n, m)
  BY <1>1, <1>3, <1>4, <1>7
<1> QED
  BY <1>5, <1>6, <1>7

Moves(s, field, moved) ==
  /\ StableSort(s, field) = [r \in 1 .. Len(s) |-> s[moved[r]]]
  /\ \A q, r \in 1 .. Len(s) : q < r => Before(s, field, moved[q], moved[r])
  /\ moved \in [1 .. Len(s) -> 1 .. Len(s)]
  /\ \A q, r \in 1 .. Len(s) : moved[q] = moved[r] => q = r
  /\ \A m \in 1 .. Len(s) : \E r \in 1 .. Len(s) : moved[r] = m

(* Sorting only moves the pairs, and leaves those with equal fields in the  *)
(* order they had.                                                          *)
LEMMA StableSortMoves ==
  ASSUME NEW s \in Seq(Pairs), NEW field \in {KeyField, ValueField}
  PROVE  \E moved : Moves(s, field, moved)
<1> DEFINE N == 1 .. Len(s)
           rank == [n \in N |-> Cardinality(Upto(s, field, n))]
           moved == [r \in N |-> CHOOSE n \in N : Cardinality(Upto(s, field, n)) = r]
<1>1. Len(s) \in Nat /\ IsFiniteSet(N) /\ Cardinality(N) = Len(s)
  BY IntervalSize
<1>2. rank \in [N -> N]
  <2> SUFFICES ASSUME NEW n \in N  PROVE Cardinality(Upto(s, field, n)) \in N
    OBVIOUS
  <2>1. IsFiniteSet(Upto(s, field, n)) /\ Cardinality(Upto(s, field, n)) <= Len(s)
    BY <1>1, FS_Subset, Upto(s, field, n) \in SUBSET N DEF Upto
  <2>2. n \in Upto(s, field, n)
    BY FieldsTyped DEF Upto
  <2>3. Cardinality(Upto(s, field, n)) \in Nat /\ Cardinality(Upto(s, field, n)) # 0
    BY <2>1, <2>2, FS_CardinalityType, FS_EmptySet
  <2> QED
    BY <1>1, <2>1, <2>3
<1>3. \A m, n \in N : rank[m] = rank[n] => m = n
  BY RanksDiffer
<1>4. rank \in Injection(N, N)
  <2> HIDE DEF rank, N
  <2>1. IsInjective(rank)
    BY <1>2, <1>3 DEF IsInjective
  <2> QED
    BY <1>2, <2>1 DEF Injection
<1>5. rank \in Surjection(N, N)
  BY <1>1, <1>4, FS_Injection
<1>6. \A r \in N : moved[r] \in N /\ rank[moved[r]] = r
  <2> SUFFICES ASSUME NEW r \in N  PROVE moved[r] \in N /\ rank[moved[r]] = r
    OBVIOUS
  <2>1. \E n \in N : Cardinality(Upto(s, field, n)) = r
    <3>1. PICK n \in N : rank[n] = r
      BY <1>5 DEF Surjection
    <3> QED
      BY <3>1
  <2> QED
    BY <2>1
<1>7. /\ moved \in [N -> N]
      /\ \A q, r \in N : moved[q] = moved[r] => q = r
      /\ \A n \in N : \E r \in N : moved[r] = n
  <2>1. moved \in [N -> N]
    BY <1>6
  <2> HIDE DEF moved, rank, N
  <2>2. \A q, r \in N : moved[q] = moved[r] => q = r
    BY <1>6, <2>1
  <2>3. \A n \in N : \E r \in N : moved[r] = n
    <3> SUFFICES ASSUME NEW n \in N  PROVE \E r \in N : moved[r] = n
      OBVIOUS
    <3>1. rank[n] \in N /\ rank[moved[rank[n]]] = rank[n] /\ moved[rank[n]] \in N
      BY <1>2, <1>6
    <3> QED
      BY <1>3, <3>1
  <2> QED
    BY <2>1, <2>2, <2>3
<1>8. StableSort(s, field) = [r \in N |-> s[moved[r]]]
  BY DEF StableSort, Upto
<1>9. ASSUME NEW q \in N, NEW r \in N, q < r
      PROVE  Before(s, field, moved[q], moved[r])
  <2>1. /\ moved[q] \in N /\ moved[r] \in N
        /\ rank[moved[q]] < rank[moved[r]] /\ moved[q] # moved[r]
    <3> HIDE DEF moved, rank
    <3> QED
      BY <1>1, <1>6, <1>9
  <2> HIDE DEF moved
  <2>2. Cardinality(Upto(s, field, moved[q])) < Cardinality(Upto(s, field, moved[r]))
    BY <2>1
  <2> QED
    <3>1. PICK m, n : m = moved[q] /\ n = moved[r]
      OBVIOUS
    <3>2. m \in 1 .. Len(s) /\ n \in 1 .. Len(s) /\ m # n
      BY <2>1, <3>1
    <3>3. /\ Cardinality(Upto(s, field, m)) \in 1 .. Len(s)
          /\ Cardinality(Upto(s, field, n)) \in 1 .. Len(s)
      BY <3>2, RanksDiffer
    <3>4. \/ Cardinality(Upto(s, field, n)) < Cardinality(Upto(s, field, m))
          \/ Before(s, field, m, n)
      BY <3>2, RanksDiffer
    <3> QED
      BY <2>2, <3>1, <3>3, <3>4
<1> HIDE DEF moved
<1>10. Moves(s, field, moved)
  BY <1>7, <1>8, <1>9 DEF Moves
<1> QED
  BY <1>10
-----------------------------------------------------------------------------
(***************************************************************************)
(* Grouping the pairs into entries.                                        *)
(***************************************************************************)
LEMMA PutJoins ==
  ASSUME NEW map \in Seq(Entries), NEW k \in Texts, NEW w \in Texts,
         map # <<>>, map[Len(map)].first = k
  PROVE  /\ Put(map, k, w) \in Seq(Entries) /\ Len(Put(map, k, w)) = Len(map)
         /\ \A e \in 1 .. Len(map) :
              /\ Put(map, k, w)[e].first = map[e].first
              /\ Put(map, k, w)[e].second =
                   IF e = Len(map) THEN Append(map[e].second, w) ELSE map[e].second
<1> DEFINE last == Len(map)
           joined == [map[last] EXCEPT !.second = Append(@, w)]
<1>1. Len(map) \in Nat /\ last \in 1 .. Len(map) /\ map[last] \in Entries
  OBVIOUS
<1>2. /\ joined \in Entries /\ joined.first = map[last].first
      /\ joined.second = Append(map[last].second, w)
  <2>1. PICK entry, words : entry = map[last] /\ words = Append(entry.second, w)
    OBVIOUS
  <2>2. entry \in [first : Texts, second : Seq(Texts)]
    BY <1>1, <2>1 DEF Entries
  <2>3. words \in Seq(Texts)
    BY <2>1, <2>2
  <2>4. [entry EXCEPT !.second = words] \in [first : Texts, second : Seq(Texts)]
    BY <2>2, <2>3
  <2>5. /\ [entry EXCEPT !.second = words].first = entry.first
        /\ [entry EXCEPT !.second = words].second = words
    BY <2>2
  <2> QED
    BY <2>1, <2>4, <2>5 DEF Entries
<1>3. Put(map, k, w) = [map EXCEPT ![last] = joined]
  BY DEF Put
<1> HIDE DEF joined
<1>4. /\ Put(map, k, w) \in Seq(Entries) /\ Len(Put(map, k, w)) = Len(map)
      /\ \A e \in 1 .. Len(map) :
           Put(map, k, w)[e] = IF e = last THEN joined ELSE map[e]
  BY <1>1, <1>2, <1>3, ExceptSeq
<1> QED
  BY <1>2, <1>4

LEMMA PutAppends ==
  ASSUME NEW map \in Seq(Entries), NEW k \in Texts, NEW w \in Texts,
         ~(map # <<>> /\ map[Len(map)].first = k)
  PROVE  /\ Put(map, k, w) \in Seq(Entries) /\ Len(Put(map, k, w)) = Len(map) + 1
         /\ \A e \in 1 .. Len(map) : Put(map, k, w)[e] = map[e]
         /\ Put(map, k, w)[Len(map) + 1].first = k
         /\ Put(map, k, w)[Len(map) + 1].second = <<w>>
<1> DEFINE entry == [first |-> k, second |-> <<w>>]
<1>1. entry \in Entries /\ entry.first = k /\ entry.second = <<w>>
  BY DEF Entries
<1>2. Put(map, k, w) = Append(map, entry)
  BY DEF Put
<1> HIDE DEF entry
<1>3. /\ Append(map, entry) \in Seq(Entries)
      /\ Len(Append(map, entry)) = Len(map) + 1
      /\ \A e \in 1 .. Len(map) : Append(map, entry)[e] = map[e]
      /\ Append(map, entry)[Len(map) + 1] = entry
  BY <1>1, AppendProperties
<1> QED
  BY <1>1, <1>2, <1>3

LEMMA PutTyped ==
  ASSUME NEW map \in Seq(Entries), NEW k \in Texts, NEW w \in Texts
  PROVE  Put(map, k, w) \in Seq(Entries)
BY PutJoins, PutAppends

LEMMA SecondsTyped ==
  ASSUME NEW map \in Seq(Entries), NEW e \in 1 .. Len(map)
  PROVE  map[e].first \in Texts /\ map[e].second \in Seq(Texts)
<1>1. map[e] \in Entries
  OBVIOUS
<1> QED
  BY <1>1 DEF Entries

LEMMA GroupsStart ==
  ASSUME NEW place, NEW key, NEW word
  PROVE  \E from : GroupedBy(<<>>, from, place, 0, key, word)
<1>1. PICK from : from = [e \in 0 .. 0 |-> 0]
  OBVIOUS
<1>2. GroupedBy(<<>>, from, place, 0, key, word)
  BY <1>1 DEF GroupedBy
<1> QED
  BY <1>2

(* The next pair joins the last entry or starts one.                        *)
LEMMA GroupsGrow ==
  ASSUME NEW map \in Seq(Entries), NEW n \in Nat, NEW from, NEW place,
         NEW key, NEW word, GroupedBy(map, from, place, n, key, word),
         NEW k \in Texts, NEW w \in Texts,
         key[place[n + 1]] = k, word[place[n + 1]] = w
  PROVE  \E longer :
           GroupedBy(Put(map, k, w), longer, place, n + 1, key, word)
<1>1. /\ from \in [0 .. Len(map) -> 0 .. n] /\ Len(map) \in Nat
      /\ from[0] = 0 /\ from[Len(map)] = n
      /\ \A e, f \in 0 .. Len(map) : e < f => from[e] < from[f]
      /\ \A r \in 1 .. n :
           \E e \in 1 .. Len(map) : from[e - 1] < r /\ r <= from[e]
      /\ \A e \in 1 .. Len(map) - 1 : map[e].first # map[e + 1].first
  BY DEF GroupedBy
<1>0. /\ Len(map) \in Nat /\ from[0] = 0 /\ from[Len(map)] = n
      /\ \A e \in 0 .. Len(map) : from[e] \in 0 .. n
  BY <1>1
<1>2. ASSUME NEW e \in 1 .. Len(map)
      PROVE  /\ Len(map[e].second) = from[e] - from[e - 1]
             /\ \A x \in 1 .. Len(map[e].second) :
                  /\ key[place[from[e - 1] + x]] = map[e].first
                  /\ word[place[from[e - 1] + x]] = map[e].second[x]
  BY DEF GroupedBy
<1>3. CASE map # <<>> /\ map[Len(map)].first = k
  <2> DEFINE new == Put(map, k, w)
  <2>1. /\ Len(new) = Len(map)
        /\ \A e \in 1 .. Len(map) :
             /\ new[e].first = map[e].first
             /\ new[e].second =
                  IF e = Len(map) THEN Append(map[e].second, w) ELSE map[e].second
    BY <1>3, PutJoins
  <2>2. PICK longer : longer = [from EXCEPT ![Len(map)] = n + 1]
    OBVIOUS
  <2> HIDE DEF new
  <2>3. /\ longer \in [0 .. Len(map) -> 0 .. n + 1]
        /\ Len(map) >= 1 /\ longer[0] = 0 /\ longer[Len(map)] = n + 1
        /\ \A e \in 0 .. Len(map) - 1 : longer[e] = from[e] /\ longer[e] \in 0 .. n
    <3>1. Len(map) >= 1
      BY <1>3
    <3>2. n + 1 \in 0 .. n + 1 /\ \A e \in 0 .. Len(map) : from[e] \in 0 .. n + 1
      BY <1>0
    <3>3. longer \in [0 .. Len(map) -> 0 .. n + 1] /\ longer[Len(map)] = n + 1
      BY <1>1, <2>2, <3>2
    <3>4. \A e \in 0 .. Len(map) - 1 : longer[e] = from[e]
      BY <1>1, <2>2
    <3> QED
      BY <1>0, <3>1, <3>3, <3>4
  <2>4. \A e, f \in 0 .. Len(map) : e < f => longer[e] < longer[f]
    <3> SUFFICES ASSUME NEW e \in 0 .. Len(map), NEW f \in 0 .. Len(map), e < f
                 PROVE  longer[e] < longer[f]
      OBVIOUS
    <3>1. e \in 0 .. Len(map) - 1 /\ longer[e] = from[e] /\ longer[e] \in 0 .. n
      BY <1>1, <2>3
    <3>2. CASE f = Len(map)
      BY <2>3, <3>1, <3>2
    <3>3. CASE f # Len(map)
      <4>1. f \in 0 .. Len(map) - 1 /\ longer[f] = from[f]
        BY <1>1, <2>3, <3>3
      <4> QED
        BY <1>1, <3>1, <4>1
    <3> QED
      BY <3>2, <3>3
  <2>5. ASSUME NEW e \in 1 .. Len(map)
        PROVE  /\ Len(new[e].second) = longer[e] - longer[e - 1]
               /\ \A x \in 1 .. Len(new[e].second) :
                    /\ key[place[longer[e - 1] + x]] = new[e].first
                    /\ word[place[longer[e - 1] + x]] = new[e].second[x]
    <3>0. e - 1 \in 0 .. Len(map) - 1 /\ longer[e - 1] = from[e - 1] /\ e \in 0 .. Len(map)
      BY <1>1, <2>3
    <3>1. CASE e # Len(map)
      <4>1. longer[e] = from[e] /\ new[e].second = map[e].second
        BY <1>1, <2>1, <2>3, <3>1
      <4> QED
        BY <1>2, <2>1, <3>0, <4>1
    <3>2. CASE e = Len(map)
      <4>1. map[e].second \in Seq(Texts) /\ new[e].second = Append(map[e].second, w)
        BY <2>1, <3>2, SecondsTyped
      <4>2. PICK s \in Seq(Texts) : s = map[e].second
        BY <4>1
      <4>3. /\ Len(s) = n - from[e - 1] /\ from[e - 1] \in 0 .. n
            /\ Len(Append(s, w)) = Len(s) + 1 /\ Append(s, w)[Len(s) + 1] = w
            /\ \A x \in 1 .. Len(s) : Append(s, w)[x] = s[x]
        <5>1. Len(s) = n - from[e - 1]
          BY <1>0, <1>2, <3>2, <4>2
        <5>2. from[e - 1] \in 0 .. n
          BY <1>0, <3>0
        <5> QED
          BY <5>1, <5>2, AppendProperties
      <4>4. Len(new[e].second) = longer[e] - longer[e - 1]
        BY <2>3, <3>0, <3>2, <4>1, <4>2, <4>3
      <4>5. ASSUME NEW x \in 1 .. Len(new[e].second)
            PROVE  /\ key[place[longer[e - 1] + x]] = new[e].first
                   /\ word[place[longer[e - 1] + x]] = new[e].second[x]
        <5>1. CASE x = Len(s) + 1
          <6>1. longer[e - 1] + x = n + 1
            <7>1. PICK a, l : a = from[e - 1] /\ l = Len(s)
              OBVIOUS
            <7>2. a \in 0 .. n /\ l = n - a /\ x = l + 1 /\ longer[e - 1] = a
              BY <3>0, <4>3, <5>1, <7>1
            <7> QED
              BY <7>2
          <6>2. new[e].first = k
            BY <1>3, <2>1, <3>2
          <6>3. new[e].second[x] = w
            BY <4>1, <4>2, <4>3, <5>1
          <6> QED
            BY <6>1, <6>2, <6>3
        <5>2. CASE x # Len(s) + 1
          <6>1. x \in 1 .. Len(s)
            BY <4>1, <4>2, <4>3, <5>2
          <6>2. new[e].second[x] = map[e].second[x]
            BY <4>1, <4>2, <4>3, <6>1
          <6> QED
            BY <1>2, <2>1, <3>0, <4>2, <6>1, <6>2
        <5> QED
          BY <5>1, <5>2
      <4> QED
        BY <4>4, <4>5
    <3> QED
      BY <3>1, <3>2
  <2>6. ASSUME NEW r \in 1 .. n + 1
        PROVE  \E e \in 1 .. Len(map) : longer[e - 1] < r /\ r <= longer[e]
    <3>1. CASE r = n + 1
      <4>1. Len(map) \in 1 .. Len(map) /\ longer[Len(map) - 1] < r /\ r <= longer[Len(map)]
        BY <1>1, <2>3, <3>1
      <4> QED
        BY <4>1
    <3>2. CASE r # n + 1
      <4>0. r \in 1 .. n
        BY <3>2
      <4>1. PICK e \in 1 .. Len(map) : from[e - 1] < r /\ r <= from[e]
        BY <1>1, <4>0, Zenon
      <4>2. longer[e - 1] = from[e - 1]
        BY <1>1, <2>3
      <4>3. from[e] \in 0 .. n /\ (longer[e] = from[e] \/ longer[e] = n + 1)
        BY <1>0, <2>3
      <4>4. r <= longer[e]
        BY <3>2, <4>1, <4>3
      <4> QED
        BY <4>1, <4>2, <4>4
    <3> QED
      BY <3>1, <3>2
  <2>7. \A e \in 1 .. Len(map) - 1 : new[e].first # new[e + 1].first
    <3> TAKE e \in 1 .. Len(map) - 1
    <3>1. e \in 1 .. Len(map) /\ e + 1 \in 1 .. Len(map)
      BY <1>1
    <3> QED
      BY <1>1, <2>1, <3>1
  <2>8. GroupedBy(new, longer, place, n + 1, key, word)
    BY <2>1, <2>3, <2>4, <2>5, <2>6, <2>7 DEF GroupedBy
  <2> QED
    BY <2>8 DEF new
<1>4. CASE ~(map # <<>> /\ map[Len(map)].first = k)
  <2> DEFINE new == Put(map, k, w)
  <2>1. /\ Len(new) = Len(map) + 1
        /\ \A e \in 1 .. Len(map) : new[e] = map[e]
        /\ new[Len(map) + 1].first = k /\ new[Len(map) + 1].second = <<w>>
    BY <1>4, PutAppends
  <2>2. PICK longer :
          longer = [e \in 0 .. Len(map) + 1 |-> IF e <= Len(map) THEN from[e] ELSE n + 1]
    OBVIOUS
  <2> HIDE DEF new
  <2>3. /\ longer \in [0 .. Len(new) -> 0 .. n + 1]
        /\ longer[0] = 0 /\ longer[Len(new)] = n + 1
        /\ \A e \in 0 .. Len(map) : longer[e] = from[e] /\ longer[e] \in 0 .. n
    <3>1. \A e \in 0 .. Len(map) : longer[e] = from[e] /\ longer[e] \in 0 .. n
      BY <1>0, <2>2
    <3>2. longer[Len(map) + 1] = n + 1
      BY <1>0, <2>2
    <3>3. \A e \in 0 .. Len(map) + 1 : longer[e] \in 0 .. n + 1
      <4> TAKE e \in 0 .. Len(map) + 1
      <4>1. CASE e = Len(map) + 1
        BY <3>2, <4>1
      <4>2. CASE e # Len(map) + 1
        BY <1>0, <3>1, <4>2
      <4> QED
        BY <4>1, <4>2
    <3>4. longer \in [0 .. Len(map) + 1 -> 0 .. n + 1]
      BY <2>2, <3>3
    <3> QED
      BY <1>0, <2>1, <3>1, <3>2, <3>4
  <2>4. \A e, f \in 0 .. Len(new) : e < f => longer[e] < longer[f]
    <3> SUFFICES ASSUME NEW e \in 0 .. Len(new), NEW f \in 0 .. Len(new), e < f
                 PROVE  longer[e] < longer[f]
      OBVIOUS
    <3>1. e \in 0 .. Len(map) /\ longer[e] = from[e] /\ longer[e] \in 0 .. n
      BY <1>1, <2>1, <2>3
    <3>2. CASE f = Len(new)
      BY <1>1, <2>3, <3>1, <3>2
    <3>3. CASE f # Len(new)
      <4>1. f \in 0 .. Len(map) /\ longer[f] = from[f]
        BY <1>1, <2>1, <2>3, <3>3
      <4> QED
        BY <1>1, <3>1, <4>1
    <3> QED
      BY <3>2, <3>3
  <2>5. ASSUME NEW e \in 1 .. Len(new)
        PROVE  /\ Len(new[e].second) = longer[e] - longer[e - 1]
               /\ \A x \in 1 .. Len(new[e].second) :
                    /\ key[place[longer[e - 1] + x]] = new[e].first
                    /\ word[place[longer[e - 1] + x]] = new[e].second[x]
    <3>0. e - 1 \in 0 .. Len(map) /\ longer[e - 1] = from[e - 1]
      <4>1. e - 1 \in 0 .. Len(map)
        BY <1>0, <2>1
      <4> QED
        BY <2>3, <4>1
    <3>1. CASE e # Len(new)
      <4>1. e \in 1 .. Len(map) /\ e \in 0 .. Len(map)
        BY <1>0, <2>1, <3>1
      <4>2. longer[e] = from[e] /\ new[e] = map[e]
        BY <2>1, <2>3, <4>1
      <4> QED
        BY <1>2, <3>0, <4>1, <4>2
    <3>2. CASE e = Len(new)
      <4>1. /\ new[e].first = k /\ new[e].second = <<w>>
            /\ longer[e - 1] = n /\ longer[e] = n + 1
        BY <1>1, <2>1, <2>3, <3>0, <3>2
      <4>2. Len(<<w>>) = 1 /\ <<w>>[1] = w /\ 1 .. 1 = {1}
        OBVIOUS
      <4> QED
        BY <4>1, <4>2
    <3> QED
      BY <3>1, <3>2
  <2>6. ASSUME NEW r \in 1 .. n + 1
        PROVE  \E e \in 1 .. Len(new) : longer[e - 1] < r /\ r <= longer[e]
    <3>1. CASE r = n + 1
      <4>1. Len(new) \in 1 .. Len(new) /\ longer[Len(new) - 1] < r /\ r <= longer[Len(new)]
        BY <1>1, <2>1, <2>3, <3>1
      <4> QED
        BY <4>1
    <3>2. CASE r # n + 1
      <4>0. r \in 1 .. n
        BY <3>2
      <4>1. PICK e \in 1 .. Len(map) : from[e - 1] < r /\ r <= from[e]
        BY <1>1, <4>0, Zenon
      <4>2. e - 1 \in 0 .. Len(map) /\ e \in 0 .. Len(map) /\ e \in 1 .. Len(new)
        BY <1>0, <2>1
      <4>3. longer[e - 1] = from[e - 1] /\ longer[e] = from[e]
        BY <2>3, <4>2
      <4> QED
        BY <4>1, <4>2, <4>3
    <3> QED
      BY <3>1, <3>2
  <2>7. ASSUME NEW e \in 1 .. Len(new) - 1
        PROVE  new[e].first # new[e + 1].first
    <3>0. e \in 1 .. Len(map) /\ new[e] = map[e]
      BY <1>1, <2>1
    <3>1. CASE e = Len(map)
      BY <1>1, <1>4, <2>1, <3>0, <3>1
    <3>2. CASE e # Len(map)
      <4>1. e \in 1 .. Len(map) - 1 /\ e + 1 \in 1 .. Len(map)
        BY <1>1, <3>0, <3>2
      <4> QED
        BY <1>1, <2>1, <3>0, <4>1
    <3> QED
      BY <3>1, <3>2
  <2>8. GroupedBy(new, longer, place, n + 1, key, word)
    BY <2>3, <2>4, <2>5, <2>6, <2>7 DEF GroupedBy
  <2> QED
    BY <2>8 DEF new
<1> QED
  BY <1>3, <1>4
-----------------------------------------------------------------------------
(***************************************************************************)
(* Bijections between positions and lines.                                 *)
(***************************************************************************)
LEMMA IsBijection ==
  ASSUME NEW S, NEW T, NEW f \in [S -> T],
         \A a, b \in S : f[a] = f[b] => a = b,
         \A t \in T : \E s \in S : f[s] = t
  PROVE  f \in Bijection(S, T)
<1>1. IsInjective(f)
  BY DEF IsInjective
<1> QED
  BY <1>1 DEF Bijection, Injection, Surjection

LEMMA BijectionFacts ==
  ASSUME NEW S, NEW T, NEW f \in Bijection(S, T)
  PROVE  /\ f \in [S -> T]
         /\ \A a, b \in S : f[a] = f[b] => a = b
         /\ \A t \in T : \E s \in S : f[s] = t
<1>1. f \in [S -> T] /\ IsInjective(f)
  BY DEF Bijection, Injection
<1> QED
  BY <1>1 DEF Bijection, Surjection, IsInjective

LEMMA PlaceFacts ==
  ASSUME NEW n, NEW S, NEW f, f \in Bijection(1 .. n, S)
  PROVE  /\ f \in [1 .. n -> S]
         /\ \A a, b \in 1 .. n : f[a] = f[b] => a = b
         /\ \A t \in S : \E r \in 1 .. n : f[r] = t
<1>1. PICK D : D = 1 .. n
  OBVIOUS
<1>2. f \in Bijection(D, S)
  BY <1>1, Zenon
<1>3. /\ f \in [D -> S]
      /\ \A a, b \in D : f[a] = f[b] => a = b
      /\ \A t \in S : \E r \in D : f[r] = t
  BY <1>2, BijectionFacts
<1> QED
  BY <1>1, <1>3, Zenon

(* Counting what is collected counts the lines it comes from.               *)
LEMMA CollectedOften ==
  ASSUME NEW out \in Seq(Texts), NEW source, NEW S, NEW text,
         Collects(out, source, S, text), NEW w
  PROVE  Times(out, w) = Cardinality({n \in S : text[n] = w})
<1> DEFINE here == {x \in 1 .. Len(out) : out[x] = w}
           there == {n \in S : text[n] = w}
           f == [x \in here |-> source[x]]
<1>1. /\ source \in [1 .. Len(out) -> S]
      /\ \A a, b \in 1 .. Len(out) : source[a] = source[b] => a = b
      /\ \A t \in S : \E x \in 1 .. Len(out) : source[x] = t
      /\ \A x \in 1 .. Len(out) : out[x] = text[source[x]]
  BY BijectionFacts DEF Collects
<1>2. f \in [here -> there]
  BY <1>1
<1>3. \A a, b \in here : f[a] = f[b] => a = b
  BY <1>1
<1>4. \A t \in there : \E x \in here : f[x] = t
  BY <1>1
<1>5. f \in Bijection(here, there)
  <2> HIDE DEF here, there, f
  <2> QED
    BY <1>2, <1>3, <1>4, IsBijection
<1>6. IsFiniteSet(1 .. Len(out)) /\ here \in SUBSET (1 .. Len(out))
  BY IntervalSize
<1>7. IsFiniteSet(here)
  BY <1>6, FS_Subset
<1>8. ExistsBijection(here, there)
  BY <1>5 DEF ExistsBijection
<1>9. Cardinality(there) = Cardinality(here)
  <2> HIDE DEF here, there
  <2> QED
    BY <1>7, <1>8, FS_Bijection
<1>10. DOMAIN out = 1 .. Len(out)
  OBVIOUS
<1> QED
  BY <1>9, <1>10 DEF Times
-----------------------------------------------------------------------------
(***************************************************************************)
(* What the entries of a map say.                                          *)
(***************************************************************************)
(* The x-th word of an entry is that of a line with the key of the entry.   *)
LEMMA WordOfEntry ==
  ASSUME NEW map \in Seq(Entries), NEW n \in Nat, NEW from, NEW place,
         NEW key, NEW word,
         GroupedBy(map, from, place, n, key, word),
         NEW e \in 1 .. Len(map), NEW x \in 1 .. Len(map[e].second)
  PROVE  /\ from[e - 1] + x \in 1 .. n /\ from[e - 1] + x <= from[e]
         /\ from[e - 1] \in 0 .. n /\ from[e] \in 0 .. n
         /\ key[place[from[e - 1] + x]] = map[e].first
         /\ word[place[from[e - 1] + x]] = map[e].second[x]
<1>1. /\ \A f \in 0 .. Len(map) : from[f] \in 0 .. n
      /\ Len(map[e].second) = from[e] - from[e - 1]
      /\ key[place[from[e - 1] + x]] = map[e].first
      /\ word[place[from[e - 1] + x]] = map[e].second[x]
  BY DEF GroupedBy
<1>2. from[e - 1] \in 0 .. n /\ from[e] \in 0 .. n
  BY <1>1
<1>3. PICK a, b, L : a = from[e - 1] /\ b = from[e] /\ L = Len(map[e].second)
  OBVIOUS
<1>4. a + x \in 1 .. n /\ a + x <= b
  <2>1. a \in 0 .. n /\ b \in 0 .. n /\ L = b - a /\ x \in 1 .. L
    BY <1>1, <1>2, <1>3
  <2> QED
    BY <2>1
<1> QED
  BY <1>1, <1>2, <1>3, <1>4

(* The first pair of the entry e is listed, with the key of the entry.      *)
EntryStarts(map, n, from, place, key, e) ==
  /\ from[e - 1] + 1 \in 1 .. n
  /\ key[place[from[e - 1] + 1]] = map[e].first

(* No entry is empty: its first pair has its key.                           *)
LEMMA EntryBegins ==
  ASSUME NEW map \in Seq(Entries), NEW n \in Nat, NEW from, NEW place,
         NEW key, NEW word,
         GroupedBy(map, from, place, n, key, word),
         NEW e \in 1 .. Len(map)
  PROVE  EntryStarts(map, n, from, place, key, e)
<1>1. /\ \A f \in 0 .. Len(map) : from[f] \in 0 .. n
      /\ \A f, g \in 0 .. Len(map) : f < g => from[f] < from[g]
      /\ Len(map[e].second) = from[e] - from[e - 1]
  BY DEF GroupedBy
<1>2. e - 1 \in 0 .. Len(map) /\ e \in 0 .. Len(map) /\ e - 1 < e
  OBVIOUS
<1>3. from[e - 1] < from[e] /\ from[e - 1] \in 0 .. n /\ from[e] \in 0 .. n
  BY <1>1, <1>2
<1>4. 1 \in 1 .. Len(map[e].second)
  BY <1>1, <1>3
<1>5. \A x \in 1 .. Len(map[e].second) :
        /\ from[e - 1] + x \in 1 .. n
        /\ key[place[from[e - 1] + x]] = map[e].first
  BY WordOfEntry
<1> QED
  BY <1>4, <1>5 DEF EntryStarts

(* Some entry has the key of the line l and takes a word from it.           *)
EntryWith(map, from, place, key, l) ==
  \E e \in 1 .. Len(map) :
    /\ map[e].first = key[l]
    /\ \E x \in 1 .. Len(map[e].second) : place[from[e - 1] + x] = l

(* A line that is listed is in the entry with its key.                      *)
LEMMA EntryOf ==
  ASSUME NEW map \in Seq(Entries), NEW n \in Nat, NEW from, NEW S,
         NEW place \in Bijection(1 .. n, S), NEW key, NEW word,
         GroupedBy(map, from, place, n, key, word), NEW l \in S
  PROVE  EntryWith(map, from, place, key, l)
<1>1. place \in [1 .. n -> S] /\ \A t \in S : \E r \in 1 .. n : place[r] = t
  BY PlaceFacts
<1>2. PICK r \in 1 .. n : place[r] = l
  BY <1>1
<1>3. PICK e \in 1 .. Len(map) : from[e - 1] < r /\ r <= from[e]
  BY DEF GroupedBy
<1>4. /\ \A f \in 0 .. Len(map) : from[f] \in 0 .. n
      /\ Len(map[e].second) = from[e] - from[e - 1]
  BY DEF GroupedBy
<1>5. from[e - 1] \in 0 .. n /\ from[e] \in 0 .. n
  BY <1>4
<1>6. PICK x : x = r - from[e - 1]
  OBVIOUS
<1>7. x \in 1 .. Len(map[e].second) /\ from[e - 1] + x = r
  <2>1. PICK a, b, L : a = from[e - 1] /\ b = from[e] /\ L = Len(map[e].second)
    OBVIOUS
  <2>2. a \in 0 .. n /\ b \in 0 .. n /\ L = b - a /\ a < r /\ r <= b /\ x = r - a
    BY <1>3, <1>4, <1>5, <1>6, <2>1
  <2>3. x \in 1 .. L /\ a + x = r
    BY <2>2
  <2> QED
    BY <2>1, <2>3
<1>8. \A y \in 1 .. Len(map[e].second) :
        key[place[from[e - 1] + y]] = map[e].first
  BY WordOfEntry
<1>9. place[from[e - 1] + x] = l
  BY <1>2, <1>7
<1>10. key[l] = map[e].first
  BY <1>7, <1>8, <1>9
<1> QED
  BY <1>7, <1>9, <1>10 DEF EntryWith

(* Grouping sorted pairs puts the entries in order, each key once.          *)
LEMMA KeysIncrease ==
  ASSUME NEW map \in Seq(Entries), NEW n \in Nat, NEW from, NEW place,
         NEW key, NEW word,
         GroupedBy(map, from, place, n, key, word), Sorted(place, n, key),
         NEW e \in 1 .. Len(map), NEW f \in 1 .. Len(map), e < f
  PROVE  map[e].first < map[f].first
<1>1. ASSUME NEW g \in 1 .. Len(map), NEW h \in 1 .. Len(map), g < h
      PROVE  map[g].first <= map[h].first
  <2>1. /\ \A i \in 0 .. Len(map) : from[i] \in 0 .. n
        /\ \A i, j \in 0 .. Len(map) : i < j => from[i] < from[j]
    BY DEF GroupedBy
  <2>2. g - 1 \in 0 .. Len(map) /\ h - 1 \in 0 .. Len(map) /\ g - 1 < h - 1
    BY <1>1
  <2>3. /\ from[g - 1] < from[h - 1] /\ from[g - 1] \in 0 .. n
        /\ from[h - 1] \in 0 .. n
    BY <2>1, <2>2
  <2>4. EntryStarts(map, n, from, place, key, g)
    BY EntryBegins
  <2>5. EntryStarts(map, n, from, place, key, h)
    BY EntryBegins
  <2>6. from[g - 1] + 1 < from[h - 1] + 1
    BY <2>3
  <2> QED
    BY <2>4, <2>5, <2>6 DEF Sorted, EntryStarts
<1>2. Len(map) \in Nat /\ \A g \in 1 .. Len(map) : map[g].first \in Nat
  <2>1. \A g \in 1 .. Len(map) : map[g].first \in Texts
    BY SecondsTyped
  <2> QED
    BY <2>1, TextAssumption, LenProperties
<1>3. e \in 1 .. Len(map) - 1 /\ e + 1 \in 1 .. Len(map) /\ e < e + 1
  BY <1>2
<1>4. map[e].first # map[e + 1].first
  BY <1>3 DEF GroupedBy
<1>5. map[e].first <= map[e + 1].first
  BY <1>1, <1>3
<1>6. map[e + 1].first <= map[f].first
  <2>1. CASE e + 1 = f
    BY <1>2, <2>1
  <2>2. CASE e + 1 # f
    <3>1. e + 1 < f
      BY <1>2, <2>2
    <3> QED
      BY <1>1, <1>3, <3>1
  <2> QED
    BY <2>1, <2>2
<1> QED
  BY <1>2, <1>3, <1>4, <1>5, <1>6

Ordered(map) ==
  \A e, f \in 1 .. Len(map) : e < f => map[e].first < map[f].first

(* The lines of S whose text is one of those wanted.                        *)
Holding(S, text, wanted) == {l \in S : text[l] \in wanted}

(* An entry answers for its key: with the words of all lines that have it.  *)
EntryAnswers(entry, S, key, word, calm) ==
  \E source : /\ Collects(entry.second, source, Holding(S, key, {entry.first}), word)
              /\ calm => Increasing(source, Len(entry.second))

Answering(map, S, key, word, calm) ==
  \A e \in 1 .. Len(map) : EntryAnswers(map[e], S, key, word, calm)

Covering(map, S, key) ==
  \A l \in S : \E e \in 1 .. Len(map) : map[e].first = key[l]

Honest(map, S, key, word) ==
  \A e \in 1 .. Len(map) : \A x \in 1 .. Len(map[e].second) :
    \E l \in S : key[l] = map[e].first /\ word[l] = map[e].second[x]

(* An entry of a sorted map collects all lines with its key, and keeps the  *)
(* order of the file where the sort did.                                    *)
LEMMA EntryCollects ==
  ASSUME NEW map \in Seq(Entries), NEW n \in Nat, NEW from, NEW S,
         NEW place \in Bijection(1 .. n, S), NEW key, NEW word,
         GroupedBy(map, from, place, n, key, word), Sorted(place, n, key),
         NEW calm, calm => Stable(place, n, key), NEW e \in 1 .. Len(map)
  PROVE  EntryAnswers(map[e], S, key, word, calm)
<1> DEFINE L == Len(map[e].second)
           T == Holding(S, key, {map[e].first})
<1>1. PICK source : source = [x \in 1 .. L |-> place[from[e - 1] + x]]
  OBVIOUS
<1>2. /\ place \in [1 .. n -> S]
      /\ \A a, b \in 1 .. n : place[a] = place[b] => a = b
  BY PlaceFacts
<1>3. \A x \in 1 .. L :
        /\ from[e - 1] + x \in 1 .. n /\ from[e - 1] \in 0 .. n
        /\ key[place[from[e - 1] + x]] = map[e].first
        /\ word[place[from[e - 1] + x]] = map[e].second[x]
  BY WordOfEntry
<1>4. /\ source \in [1 .. L -> T]
      /\ \A x \in 1 .. L : source[x] = place[from[e - 1] + x]
  <2>1. \A x \in 1 .. L : place[from[e - 1] + x] \in T
    BY <1>2, <1>3 DEF Holding
  <2> QED
    BY <1>1, <2>1
<1>5. Len(map) \in Nat /\ L \in Nat
  BY SecondsTyped
<1>6. \A a, b \in 1 .. L : source[a] = source[b] => a = b
  <2> TAKE a, b \in 1 .. L
  <2>1. from[e - 1] + a = from[e - 1] + b => a = b
    <3>1. from[e - 1] \in 0 .. n
      BY <1>3, Zenon
    <3>2. a \in Int /\ b \in Int
      BY <1>5
    <3> QED
      BY <3>1, <3>2
  <2> QED
    BY <1>2, <1>3, <1>4, <2>1
<1>7. \A l \in T : \E x \in 1 .. L : source[x] = l
  <2> TAKE l \in T
  <2>1. PICK f \in 1 .. Len(map) :
          /\ map[f].first = key[l]
          /\ \E x \in 1 .. Len(map[f].second) : place[from[f - 1] + x] = l
    <3>1. l \in S
      BY DEF Holding
    <3>2. EntryWith(map, from, place, key, l)
      BY <3>1, EntryOf
    <3> QED
      BY <3>2 DEF EntryWith
  <2>2. map[f].first = map[e].first /\ map[f].first \in Nat
    BY <2>1, SecondsTyped, TextAssumption DEF Holding
  <2>3. ~(f < e) /\ ~(e < f)
    <3>1. CASE f < e
      BY <1>2, <2>2, <3>1, KeysIncrease
    <3>2. CASE e < f
      BY <1>2, <2>2, <3>2, KeysIncrease
    <3> QED
      BY <3>1, <3>2
  <2>4. f = e
    BY <1>5, <2>3
  <2> QED
    BY <1>4, <2>1, <2>4
<1>8. source \in Bijection(1 .. L, T)
  <2> HIDE DEF T, L
  <2> QED
    BY <1>4, <1>6, <1>7, IsBijection
<1>9. Collects(map[e].second, source, T, word)
  BY <1>3, <1>4, <1>8 DEF Collects
<1>10. calm => Increasing(source, L)
  <2> SUFFICES ASSUME Stable(place, n, key), NEW q \in 1 .. L, NEW r \in 1 .. L, q < r
               PROVE  source[q] < source[r]
    BY DEF Increasing
  <2>1. from[e - 1] + q < from[e - 1] + r
    BY <1>3, <1>5
  <2>2. PICK a, b : a = from[e - 1] + q /\ b = from[e - 1] + r
    OBVIOUS
  <2>3. /\ a \in 1 .. n /\ b \in 1 .. n /\ a < b /\ key[place[a]] = key[place[b]]
        /\ source[q] = place[a] /\ source[r] = place[b]
    <3> HIDE DEF L, T
    <3> QED
      BY <1>3, <1>4, <2>1, <2>2
  <2> QED
    BY <2>3 DEF Stable
<1> QED
  BY <1>9, <1>10 DEF EntryAnswers

LEMMA MapHonest ==
  ASSUME NEW map \in Seq(Entries), NEW n \in Nat, NEW from, NEW S,
         NEW place \in Bijection(1 .. n, S), NEW key, NEW word,
         GroupedBy(map, from, place, n, key, word)
  PROVE  Covering(map, S, key) /\ Honest(map, S, key, word)
<1>1. Covering(map, S, key)
  <2>1. \A l \in S : EntryWith(map, from, place, key, l)
    BY EntryOf
  <2> QED
    BY <2>1 DEF EntryWith, Covering
<1>2. Honest(map, S, key, word)
  <2> SUFFICES ASSUME NEW e \in 1 .. Len(map), NEW x \in 1 .. Len(map[e].second)
               PROVE  \E l \in S :
                        key[l] = map[e].first /\ word[l] = map[e].second[x]
    BY DEF Honest
  <2>1. \A r \in 1 .. n : place[r] \in S
    BY PlaceFacts
  <2>2. /\ from[e - 1] + x \in 1 .. n
        /\ key[place[from[e - 1] + x]] = map[e].first
        /\ word[place[from[e - 1] + x]] = map[e].second[x]
    BY WordOfEntry
  <2> QED
    BY <2>1, <2>2
<1> QED
  BY <1>1, <1>2

LEMMA MapInOrder ==
  ASSUME NEW map \in Seq(Entries), NEW n \in Nat, NEW from, NEW S,
         NEW place \in Bijection(1 .. n, S), NEW key, NEW word,
         GroupedBy(map, from, place, n, key, word), Sorted(place, n, key),
         NEW calm, calm => Stable(place, n, key)
  PROVE  Ordered(map) /\ Answering(map, S, key, word, calm)
<1>1. Ordered(map)
  BY KeysIncrease DEF Ordered
<1>2. Answering(map, S, key, word, calm)
  BY EntryCollects DEF Answering
<1> QED
  BY <1>1, <1>2
-----------------------------------------------------------------------------
(***************************************************************************)
(* Scanning a map for the keys wanted.                                     *)
(***************************************************************************)
(* The lines wanted among the first pairs of the map.                       *)
Scanned(place, first, S, key, wanted) ==
  {l \in S : key[l] \in wanted /\ \E r \in 1 .. first : place[r] = l}

LEMMA NothingScanned ==
  ASSUME NEW S, NEW place, NEW key, NEW wanted, NEW word
  PROVE  \E source : Collects(<<>>, source, Scanned(place, 0, S, key, wanted), word)
<1>1. PICK source : source = [x \in 1 .. 0 |-> place[x]]
  OBVIOUS
<1>2. Scanned(place, 0, S, key, wanted) = {}
  BY DEF Scanned
<1>3. source \in [1 .. 0 -> {}]
  BY <1>1
<1>4. source \in Bijection(1 .. 0, {})
  BY <1>3, IsBijection
<1>5. Len(<<>>) = 0
  OBVIOUS
<1> QED
  BY <1>2, <1>4, <1>5 DEF Collects

LEMMA AllScanned ==
  ASSUME NEW S, NEW n, NEW place \in Bijection(1 .. n, S), NEW key, NEW wanted
  PROVE  Scanned(place, n, S, key, wanted) = {l \in S : key[l] \in wanted}
<1>1. place \in [1 .. n -> S] /\ \A l \in S : \E r \in 1 .. n : place[r] = l
  BY PlaceFacts
<1> QED
  BY <1>1 DEF Scanned

(* All pairs of an entry have its key.                                      *)
LEMMA KeyInEntry ==
  ASSUME NEW map \in Seq(Entries), NEW n \in Nat, NEW from, NEW place,
         NEW key, NEW word,
         GroupedBy(map, from, place, n, key, word),
         NEW e \in 1 .. Len(map), NEW r \in 1 .. n,
         from[e - 1] < r, r <= from[e]
  PROVE  key[place[r]] = map[e].first
<1>1. /\ \A f \in 0 .. Len(map) : from[f] \in 0 .. n
      /\ Len(map[e].second) = from[e] - from[e - 1]
  BY DEF GroupedBy
<1>2. from[e - 1] \in 0 .. n /\ from[e] \in 0 .. n
  BY <1>1
<1>3. PICK x : x = r - from[e - 1]
  OBVIOUS
<1>4. x \in 1 .. Len(map[e].second) /\ from[e - 1] + x = r
  <2>1. PICK a, b, L : a = from[e - 1] /\ b = from[e] /\ L = Len(map[e].second)
    OBVIOUS
  <2>2. a \in 0 .. n /\ b \in 0 .. n /\ L = b - a /\ a < r /\ r <= b /\ x = r - a
    BY <1>1, <1>2, <1>3, <2>1
  <2>3. x \in 1 .. L /\ a + x = r
    BY <2>2
  <2> QED
    BY <2>1, <2>3
<1>5. \A y \in 1 .. Len(map[e].second) :
        key[place[from[e - 1] + y]] = map[e].first
  BY WordOfEntry
<1> QED
  BY <1>4, <1>5

LEMMA ScanSkips ==
  ASSUME NEW map \in Seq(Entries), NEW n \in Nat, NEW from, NEW place,
         NEW key, NEW word, NEW S, NEW wanted,
         GroupedBy(map, from, place, n, key, word),
         NEW e \in 1 .. Len(map), map[e].first \notin wanted,
         NEW out, NEW source,
         Collects(out, source, Scanned(place, from[e - 1], S, key, wanted), word)
  PROVE  Collects(out, source, Scanned(place, from[e], S, key, wanted), word)
<1>1. /\ \A f \in 0 .. Len(map) : from[f] \in 0 .. n
      /\ \A f, g \in 0 .. Len(map) : f < g => from[f] < from[g]
  BY DEF GroupedBy
<1>2. e - 1 \in 0 .. Len(map) /\ e \in 0 .. Len(map) /\ e - 1 < e
  OBVIOUS
<1>3. /\ from[e - 1] < from[e] /\ from[e - 1] \in 0 .. n
      /\ from[e] \in 0 .. n
  BY <1>1, <1>2
<1>4. \A r \in 1 .. n : from[e - 1] < r /\ r <= from[e] => key[place[r]] = map[e].first
  BY KeyInEntry
<1>5. \A r \in 1 .. from[e] :
        r \in 1 .. from[e - 1] \/ key[place[r]] \notin wanted
  <2> TAKE r \in 1 .. from[e]
  <2>1. r \in 1 .. n
    BY <1>3
  <2> QED
    BY <1>3, <1>4, <2>1
<1>6. \A r \in 1 .. from[e - 1] : r \in 1 .. from[e]
  BY <1>3
<1>7. Scanned(place, from[e], S, key, wanted)
        = Scanned(place, from[e - 1], S, key, wanted)
  BY <1>5, <1>6 DEF Scanned
<1> QED
  BY <1>7

LEMMA ScanTakes ==
  ASSUME NEW map \in Seq(Entries), NEW n \in Nat, NEW from, NEW S,
         NEW place \in Bijection(1 .. n, S), NEW key, NEW word, NEW wanted,
         GroupedBy(map, from, place, n, key, word),
         NEW e \in 1 .. Len(map), map[e].first \in wanted,
         NEW out \in Seq(Texts), NEW source,
         Collects(out, source, Scanned(place, from[e - 1], S, key, wanted), word)
  PROVE  \E longer :
           Collects(out \o map[e].second, longer,
                    Scanned(place, from[e], S, key, wanted), word)
<1>1. PICK s \in Seq(Texts) : s = map[e].second
  BY SecondsTyped
<1>2. PICK L, M, a, b :
        L = Len(out) /\ M = Len(s) /\ a = from[e - 1] /\ b = from[e]
  OBVIOUS
<1>3. /\ \A f \in 0 .. Len(map) : from[f] \in 0 .. n
      /\ \A f, g \in 0 .. Len(map) : f < g => from[f] < from[g]
      /\ M = b - a
  <2>1. Len(map[e].second) = from[e] - from[e - 1]
    BY DEF GroupedBy
  <2>2. \A f \in 0 .. Len(map) : from[f] \in 0 .. n
    BY DEF GroupedBy
  <2>3. \A f, g \in 0 .. Len(map) : f < g => from[f] < from[g]
    BY Zenon DEF GroupedBy
  <2>4. M = b - a
    BY <1>1, <1>2, <2>1, Zenon
  <2> QED
    BY <2>2, <2>3, <2>4
<1>4. e - 1 \in 0 .. Len(map) /\ e \in 0 .. Len(map) /\ e - 1 < e
  OBVIOUS
<1>5. a < b /\ a \in 0 .. n /\ b \in 0 .. n /\ b = a + M /\ L \in Nat /\ M \in Nat
  <2>1. a < b /\ a \in 0 .. n /\ b \in 0 .. n
    BY <1>2, <1>3, <1>4
  <2>2. L \in Nat /\ M \in Nat
    BY <1>1, <1>2, LenProperties
  <2>3. M = b - a
    BY <1>3
  <2> QED
    BY <2>1, <2>2, <2>3
<1>6. /\ place \in [1 .. n -> S]
      /\ \A q, r \in 1 .. n : place[q] = place[r] => q = r
      /\ \A l \in S : \E r \in 1 .. n : place[r] = l
  <2>1. place \in [1 .. n -> S]
    BY PlaceFacts
  <2>2. \A q, r \in 1 .. n : place[q] = place[r] => q = r
    BY PlaceFacts
  <2>3. \A l \in S : \E r \in 1 .. n : place[r] = l
    BY PlaceFacts
  <2> QED
    BY <2>1, <2>2, <2>3
<1> DEFINE T == Scanned(place, a, S, key, wanted)
           U == Scanned(place, b, S, key, wanted)
<1>7. /\ source \in [1 .. L -> T]
      /\ \A q, r \in 1 .. L : source[q] = source[r] => q = r
      /\ \A l \in T : \E x \in 1 .. L : source[x] = l
      /\ \A x \in 1 .. L : out[x] = word[source[x]]
  <2>1. /\ source \in Bijection(1 .. L, T)
        /\ \A x \in 1 .. L : out[x] = word[source[x]]
    BY <1>2 DEF Collects
  <2> HIDE DEF T
  <2>2. /\ source \in [1 .. L -> T]
        /\ \A q, r \in 1 .. L : source[q] = source[r] => q = r
        /\ \A l \in T : \E x \in 1 .. L : source[x] = l
    <3>1. PICK D : D = 1 .. L
      OBVIOUS
    <3>2. source \in Bijection(D, T)
      BY <2>1, <3>1, Zenon
    <3>3. /\ source \in [D -> T]
          /\ \A q, r \in D : source[q] = source[r] => q = r
          /\ \A l \in T : \E x \in D : source[x] = l
      BY <3>2, BijectionFacts
    <3> QED
      BY <3>1, <3>3, Zenon
  <2> QED
    BY <2>1, <2>2, Zenon
<1>8. \A x \in 1 .. M :
        /\ a + x \in 1 .. n
        /\ key[place[a + x]] \in wanted
        /\ word[place[a + x]] = s[x]
  <2>1. \A x \in 1 .. Len(map[e].second) :
          /\ from[e - 1] + x \in 1 .. n
          /\ key[place[from[e - 1] + x]] = map[e].first
          /\ word[place[from[e - 1] + x]] = map[e].second[x]
    BY WordOfEntry
  <2> QED
    BY <1>1, <1>2, <2>1
<1>9. PICK longer :
        longer = [x \in 1 .. L + M |-> IF x <= L THEN source[x] ELSE place[a + (x - L)]]
  OBVIOUS
<1>10. /\ \A x \in 1 .. L : longer[x] = source[x]
       /\ \A x \in 1 .. L + M : x > L => longer[x] = place[a + (x - L)]
  <2>1. L \in Nat /\ M \in Nat
    BY <1>5
  <2>2. \A x \in 1 .. L : x \in 1 .. L + M /\ x <= L
    BY <2>1
  <2>3. \A x \in 1 .. L + M : x > L => ~(x <= L)
    BY <2>1
  <2>4. \A x \in 1 .. L + M :
          longer[x] = IF x <= L THEN source[x] ELSE place[a + (x - L)]
    BY <1>9, Zenon
  <2>5. \A x \in 1 .. L : longer[x] = source[x]
    BY <2>2, <2>4, Zenon
  <2>6. \A x \in 1 .. L + M : x > L => longer[x] = place[a + (x - L)]
    BY <2>3, <2>4, Zenon
  <2> QED
    BY <2>5, <2>6
<1>11. \A l \in T : l \in U /\ \E r \in 1 .. a : place[r] = l
  <2>1. \A r \in 1 .. a : r \in 1 .. b
    BY <1>5
  <2> QED
    BY <2>1 DEF Scanned
<1>12. \A x \in 1 .. L + M : longer[x] \in U
  <2> TAKE x \in 1 .. L + M
  <2>1. CASE x <= L
    <3>1. x \in 1 .. L
      BY <1>5, <2>1
    <3> QED
      BY <1>7, <1>10, <1>11, <3>1
  <2>2. CASE x > L
    <3>1. PICK y \in 1 .. M : y = x - L
      BY <1>5, <2>2
    <3>2. longer[x] = place[a + y] /\ a + y \in 1 .. b
      BY <1>5, <1>10, <2>2, <3>1
    <3>3. place[a + y] \in S /\ key[place[a + y]] \in wanted
      BY <1>6, <1>8
    <3> QED
      BY <3>2, <3>3 DEF Scanned
  <2> QED
    BY <1>5, <2>1, <2>2
<1>13. longer \in [1 .. L + M -> U]
  BY <1>9, <1>12
<1>14. ASSUME NEW x \in 1 .. L, NEW y \in 1 .. L + M, y > L
       PROVE  longer[x] # longer[y]
  <2>1. longer[x] \in T /\ longer[y] = place[a + (y - L)]
    BY <1>7, <1>10, <1>14
  <2>2. PICK r \in 1 .. a : place[r] = longer[x]
    BY <1>11, <2>1
  <2>3. r \in 1 .. n /\ a + (y - L) \in 1 .. n /\ r # a + (y - L)
    BY <1>5, <1>14
  <2> QED
    BY <1>6, <2>1, <2>2, <2>3
<1>15. \A x, y \in 1 .. L + M : longer[x] = longer[y] => x = y
  <2> TAKE x, y \in 1 .. L + M
  <2>1. CASE x <= L /\ y <= L
    <3>1. x \in 1 .. L /\ y \in 1 .. L
      BY <1>5, <2>1
    <3> QED
      BY <1>7, <1>10, <3>1
  <2>2. CASE x <= L /\ y > L
    <3>1. x \in 1 .. L
      BY <1>5, <2>2
    <3> QED
      BY <1>14, <2>2, <3>1
  <2>3. CASE x > L /\ y <= L
    <3>1. y \in 1 .. L
      BY <1>5, <2>3
    <3> QED
      BY <1>14, <2>3, <3>1
  <2>4. CASE x > L /\ y > L
    <3>1. /\ longer[x] = place[a + (x - L)] /\ a + (x - L) \in 1 .. n
          /\ longer[y] = place[a + (y - L)] /\ a + (y - L) \in 1 .. n
      BY <1>5, <1>10, <2>4
    <3>2. a + (x - L) = a + (y - L) => x = y
      BY <1>5
    <3> QED
      BY <1>6, <3>1, <3>2
  <2> QED
    BY <1>5, <2>1, <2>2, <2>3, <2>4
<1>16. \A l \in U : \E x \in 1 .. L + M : longer[x] = l
  <2> TAKE l \in U
  <2>1. PICK r \in 1 .. b : place[r] = l
    BY DEF Scanned
  <2>2. l \in S /\ key[l] \in wanted
    BY DEF Scanned
  <2>3. CASE r <= a
    <3>1. r \in 1 .. a
      BY <1>5, <2>3
    <3>2. l \in T
      BY <2>1, <2>2, <3>1 DEF Scanned
    <3>3. PICK x \in 1 .. L : source[x] = l
      BY <1>7, <3>2
    <3>4. x \in 1 .. L + M
      BY <1>5
    <3> QED
      BY <1>10, <3>3, <3>4
  <2>4. CASE r > a
    <3>1. PICK x : x = L + (r - a)
      OBVIOUS
    <3>2. x \in 1 .. L + M /\ x > L /\ a + (x - L) = r
      BY <1>5, <2>4, <3>1
    <3> QED
      BY <1>10, <2>1, <3>2
  <2> QED
    BY <1>5, <2>3, <2>4
<1>17. longer \in Bijection(1 .. L + M, U)
  <2> HIDE DEF U
  <2> QED
    BY <1>13, <1>15, <1>16, IsBijection
<1>18. /\ Len(out \o s) = L + M
       /\ \A x \in 1 .. L + M :
            (out \o s)[x] = IF x <= L THEN out[x] ELSE s[x - L]
  BY <1>2, ConcatProperties
<1>19. \A x \in 1 .. L + M : (out \o s)[x] = word[longer[x]]
  <2> TAKE x \in 1 .. L + M
  <2>1. CASE x <= L
    <3>1. x \in 1 .. L
      BY <1>5, <2>1
    <3> QED
      BY <1>7, <1>10, <1>18, <2>1, <3>1
  <2>2. CASE x > L
    <3>1. PICK y \in 1 .. M : y = x - L
      BY <1>5, <2>2
    <3>2. ~(x <= L)
      BY <1>5, <2>2
    <3> QED
      BY <1>8, <1>10, <1>18, <2>2, <3>1, <3>2
  <2>3. x <= L \/ x > L
    BY <1>5
  <2> QED
    BY <2>1, <2>2, <2>3
<1> QED
  BY <1>1, <1>2, <1>17, <1>18, <1>19 DEF Collects
-----------------------------------------------------------------------------
(***************************************************************************)
(* The pairs parsed so far, and sorting them.                              *)
(***************************************************************************)
(* buf lists the lines S, each once, as pairs of their keys and words.      *)
Listing(buf, place, S, key, word) ==
  /\ place \in Bijection(1 .. Len(buf), S)
  /\ \A r \in 1 .. Len(buf) :
       buf[r][1] = key[place[r]] /\ buf[r][2] = word[place[r]]

LEMMA ListingFacts ==
  ASSUME NEW buf, NEW place, NEW S, NEW key, NEW word,
         Listing(buf, place, S, key, word),
         NEW n, n = Len(buf)
  PROVE  /\ place \in [1 .. n -> S]
         /\ \A q, r \in 1 .. n : place[q] = place[r] => q = r
         /\ \A m \in S : \E r \in 1 .. n : place[r] = m
         /\ \A r \in 1 .. n : buf[r][1] = key[place[r]] /\ buf[r][2] = word[place[r]]
<1>1. /\ place \in Bijection(1 .. n, S)
      /\ \A r \in 1 .. n : buf[r][1] = key[place[r]] /\ buf[r][2] = word[place[r]]
  BY DEF Listing
<1>2. /\ place \in [1 .. n -> S]
      /\ \A q, r \in 1 .. n : place[q] = place[r] => q = r
      /\ \A m \in S : \E r \in 1 .. n : place[r] = m
  BY <1>1, PlaceFacts
<1> QED
  BY <1>1, <1>2

LEMMA NothingListed ==
  ASSUME NEW key, NEW word
  PROVE  \E place : /\ Listing(<<>>, place, {}, key, word)
                    /\ Increasing(place, Len(<<>>))
<1>1. PICK place : place = [x \in 1 .. 0 |-> x]
  OBVIOUS
<1>2. place \in [1 .. 0 -> {}]
  BY <1>1
<1>3. place \in Bijection(1 .. 0, {})
  BY <1>2, IsBijection
<1>4. Len(<<>>) = 0
  OBVIOUS
<1> QED
  BY <1>3, <1>4 DEF Listing, Increasing

(* A line behind those listed joins them.                                   *)
LEMMA ListingGrows ==
  ASSUME NEW buf \in Seq(Pairs), NEW place, NEW S \in SUBSET Nat,
         NEW key, NEW word, Listing(buf, place, S, key, word),
         Increasing(place, Len(buf)),
         NEW l \in Nat, \A m \in S : m < l,
         NEW k \in Texts, NEW w \in Texts, key[l] = k, word[l] = w
  PROVE  \E longer :
           /\ Listing(Append(buf, <<k, w>>), longer, S \cup {l}, key, word)
           /\ Increasing(longer, Len(Append(buf, <<k, w>>)))
<1>1. PICK L : L = Len(buf)
  OBVIOUS
<1>2. L \in Nat
  BY <1>1
<1>3. <<k, w>> \in Pairs
  BY DEF Pairs
<1>4. /\ Len(Append(buf, <<k, w>>)) = L + 1
      /\ \A r \in 1 .. L : Append(buf, <<k, w>>)[r] = buf[r]
      /\ Append(buf, <<k, w>>)[L + 1] = <<k, w>>
  BY <1>1, <1>3, AppendProperties
<1>5. /\ place \in [1 .. L -> S]
      /\ \A q, r \in 1 .. L : place[q] = place[r] => q = r
      /\ \A m \in S : \E r \in 1 .. L : place[r] = m
      /\ \A r \in 1 .. L : buf[r][1] = key[place[r]] /\ buf[r][2] = word[place[r]]
  BY <1>1, ListingFacts
<1>6. PICK longer : longer = [r \in 1 .. L + 1 |-> IF r <= L THEN place[r] ELSE l]
  OBVIOUS
<1>7. /\ longer[L + 1] = l
      /\ \A r \in 1 .. L : longer[r] = place[r] /\ place[r] \in S /\ place[r] < l
      /\ \A r \in 1 .. L + 1 : r \in 1 .. L \/ r = L + 1
  <2>1. \A r \in 1 .. L : place[r] \in S
    BY <1>5
  <2>2. \A r \in 1 .. L + 1 : longer[r] = IF r <= L THEN place[r] ELSE l
    BY <1>6
  <2>3. L + 1 \in 1 .. L + 1 /\ ~(L + 1 <= L)
    BY <1>2
  <2>4. \A r \in 1 .. L : r \in 1 .. L + 1 /\ r <= L
    BY <1>2
  <2>5. \A r \in 1 .. L + 1 : r \in 1 .. L \/ r = L + 1
    BY <1>2
  <2> QED
    BY <2>1, <2>2, <2>3, <2>4, <2>5
<1>8. longer \in [1 .. L + 1 -> S \cup {l}]
  BY <1>6, <1>7
<1>9. \A q, r \in 1 .. L + 1 : longer[q] = longer[r] => q = r
  <2> TAKE q, r \in 1 .. L + 1
  <2>1. CASE q \in 1 .. L /\ r \in 1 .. L
    BY <1>5, <1>7, <2>1
  <2>2. CASE q = L + 1 /\ r = L + 1
    BY <2>2
  <2>3. CASE q \in 1 .. L /\ r = L + 1
    BY <1>7, <2>3
  <2>4. CASE q = L + 1 /\ r \in 1 .. L
    BY <1>7, <2>4
  <2> QED
    BY <1>7, <2>1, <2>2, <2>3, <2>4
<1>10. \A m \in S \cup {l} : \E r \in 1 .. L + 1 : longer[r] = m
  <2> TAKE m \in S \cup {l}
  <2>1. CASE m \in S
    <3>1. PICK r \in 1 .. L : place[r] = m
      BY <1>5, <2>1
    <3>2. r \in 1 .. L + 1
      BY <1>2
    <3> QED
      BY <1>7, <3>1, <3>2
  <2>2. CASE m = l
    <3>1. L + 1 \in 1 .. L + 1
      BY <1>2
    <3> QED
      BY <1>7, <2>2, <3>1
  <2> QED
    BY <2>1, <2>2
<1>11. longer \in Bijection(1 .. L + 1, S \cup {l})
  BY <1>8, <1>9, <1>10, IsBijection
<1>12. \A r \in 1 .. L + 1 :
         /\ Append(buf, <<k, w>>)[r][1] = key[longer[r]]
         /\ Append(buf, <<k, w>>)[r][2] = word[longer[r]]
  <2> TAKE r \in 1 .. L + 1
  <2>1. CASE r \in 1 .. L
    BY <1>4, <1>5, <1>7, <2>1
  <2>2. CASE r = L + 1
    BY <1>4, <1>7, <2>2
  <2> QED
    BY <1>7, <2>1, <2>2
<1>13. Increasing(longer, L + 1)
  <2> SUFFICES ASSUME NEW q \in 1 .. L + 1, NEW r \in 1 .. L + 1, q < r
               PROVE  longer[q] < longer[r]
    BY DEF Increasing
  <2>1. q \in 1 .. L
    BY <1>2
  <2>2. CASE r \in 1 .. L
    BY <1>1, <1>7, <2>1, <2>2 DEF Increasing
  <2>3. CASE r = L + 1
    BY <1>7, <2>1, <2>3
  <2> QED
    BY <1>7, <2>2, <2>3
<1> QED
  BY <1>4, <1>11, <1>12, <1>13 DEF Listing

(* Sorting a listing lists the same lines in the order of their texts,      *)
(* equal ones in the order they had.                                        *)
LEMMA SortedListing ==
  ASSUME NEW buf \in Seq(Pairs), NEW place, NEW S \in SUBSET Nat,
         NEW key, NEW word, Listing(buf, place, S, key, word),
         NEW field \in {KeyField, ValueField},
         NEW text, text = IF field = KeyField THEN key ELSE word
  PROVE  /\ StableSort(buf, field) \in Seq(Pairs)
         /\ Len(StableSort(buf, field)) = Len(buf)
         /\ \E after :
              /\ Listing(StableSort(buf, field), after, S, key, word)
              /\ Sorted(after, Len(buf), text)
              /\ Increasing(place, Len(buf)) => Stable(after, Len(buf), text)
<1>1. PICK L : L = Len(buf)
  OBVIOUS
<1>2. L \in Nat
  BY <1>1
<1>3. PICK moved : Moves(buf, field, moved)
  BY StableSortMoves
<1>4. /\ moved \in [1 .. L -> 1 .. L]
      /\ \A r \in 1 .. L : moved[r] \in 1 .. L
      /\ \A q, r \in 1 .. L : moved[q] = moved[r] => q = r
      /\ \A m \in 1 .. L : \E r \in 1 .. L : moved[r] = m
      /\ \A q, r \in 1 .. L : q < r => Before(buf, field, moved[q], moved[r])
      /\ StableSort(buf, field) = [r \in 1 .. L |-> buf[moved[r]]]
  BY <1>1, <1>3 DEF Moves
<1>5. /\ place \in [1 .. L -> S]
      /\ \A q, r \in 1 .. L : place[q] = place[r] => q = r
      /\ \A m \in S : \E r \in 1 .. L : place[r] = m
      /\ \A r \in 1 .. L : buf[r][1] = key[place[r]] /\ buf[r][2] = word[place[r]]
  BY <1>1, ListingFacts
<1>6. PICK sorted : sorted = StableSort(buf, field)
  OBVIOUS
<1>7. /\ sorted \in Seq(Pairs) /\ Len(sorted) = L
      /\ \A r \in 1 .. L : sorted[r] = buf[moved[r]]
  <2>1. \A r \in 1 .. L : buf[moved[r]] \in Pairs
    BY <1>1, <1>4
  <2> QED
    BY <1>2, <1>4, <1>6, <2>1
<1>8. PICK after : after = [r \in 1 .. L |-> place[moved[r]]]
  OBVIOUS
<1>9. after \in [1 .. L -> S] /\ \A r \in 1 .. L : after[r] = place[moved[r]]
  BY <1>4, <1>5, <1>8
<1>10. after \in Bijection(1 .. L, S)
  <2>1. \A q, r \in 1 .. L : after[q] = after[r] => q = r
    <3> TAKE q, r \in 1 .. L
    <3>1. moved[q] \in 1 .. L /\ moved[r] \in 1 .. L
      BY <1>4
    <3>2. after[q] = place[moved[q]] /\ after[r] = place[moved[r]]
      BY <1>9
    <3>3. place[moved[q]] = place[moved[r]] => moved[q] = moved[r]
      BY <1>5, <3>1
    <3> QED
      BY <1>4, <3>2, <3>3
  <2>2. \A m \in S : \E r \in 1 .. L : after[r] = m
    <3> TAKE m \in S
    <3>1. PICK q \in 1 .. L : place[q] = m
      BY <1>5
    <3>2. PICK r \in 1 .. L : moved[r] = q
      BY <1>4
    <3> QED
      BY <1>9, <3>1, <3>2
  <2> QED
    BY <1>9, <2>1, <2>2, IsBijection
<1>11. Listing(sorted, after, S, key, word)
  <2>1. \A r \in 1 .. L :
          sorted[r][1] = key[after[r]] /\ sorted[r][2] = word[after[r]]
    <3> TAKE r \in 1 .. L
    <3>1. PICK m \in 1 .. L : m = moved[r]
      BY <1>4
    <3>2. sorted[r] = buf[m] /\ after[r] = place[m]
      BY <1>7, <1>9, <3>1
    <3> QED
      BY <1>5, <3>2
  <2> QED
    BY <1>7, <1>10, <2>1 DEF Listing
<1>12. \A m \in 1 .. L : buf[m][field] = text[place[m]] /\ buf[m][field] \in Nat
  <2>1. \A m \in 1 .. L : buf[m][field] \in Nat
    BY <1>1, FieldsTyped
  <2>2. CASE field = 1
    BY <1>5, <2>1, <2>2 DEF KeyField, ValueField
  <2>3. CASE field = 2
    BY <1>5, <2>1, <2>3 DEF KeyField, ValueField
  <2> QED
    BY <2>2, <2>3 DEF KeyField, ValueField
<1>13. ASSUME NEW q \in 1 .. L, NEW r \in 1 .. L, q < r
       PROVE  /\ text[after[q]] <= text[after[r]]
              /\ \/ text[after[q]] < text[after[r]]
                 \/ moved[q] < moved[r]
  <2>1. PICK m, n : m = moved[q] /\ n = moved[r]
    OBVIOUS
  <2>2. m \in 1 .. L /\ n \in 1 .. L
    BY <1>4, <2>1
  <2>3. buf[m][field] < buf[n][field] \/ (buf[m][field] = buf[n][field] /\ m < n)
    BY <1>4, <1>13, <2>1 DEF Before
  <2>4. text[after[q]] = buf[m][field] /\ text[after[r]] = buf[n][field]
    BY <1>9, <1>12, <2>1, <2>2
  <2> QED
    BY <1>12, <2>1, <2>2, <2>3, <2>4
<1>14. Sorted(after, L, text)
  BY <1>13 DEF Sorted
<1>15. Increasing(place, L) => Stable(after, L, text)
  <2> SUFFICES ASSUME Increasing(place, L), NEW q \in 1 .. L, NEW r \in 1 .. L,
                      q < r, text[after[q]] = text[after[r]]
               PROVE  after[q] < after[r]
    BY DEF Stable
  <2>1. PICK m, n : m = moved[q] /\ n = moved[r]
    OBVIOUS
  <2>2. m \in 1 .. L /\ n \in 1 .. L
    BY <1>4, <2>1
  <2>3. after[q] = place[m] /\ after[r] = place[n]
    BY <1>9, <2>1
  <2>4. text[after[q]] \in Nat
    BY <1>12, <2>2, <2>3
  <2>5. m < n
    BY <1>13, <2>1, <2>4
  <2> QED
    BY <2>2, <2>3, <2>5 DEF Increasing
<1> QED
  BY <1>1, <1>6, <1>7, <1>11, <1>14, <1>15

LEMMA SortTyped ==
  ASSUME NEW buf \in Seq(Pairs), NEW field \in {KeyField, ValueField}
  PROVE  StableSort(buf, field) \in Seq(Pairs)
<1>1. PICK moved : Moves(buf, field, moved)
  BY StableSortMoves
<1>2. \A r \in 1 .. Len(buf) : buf[moved[r]] \in Pairs
  <2>1. \A r \in 1 .. Len(buf) : moved[r] \in 1 .. Len(buf)
    BY <1>1 DEF Moves
  <2> QED
    BY <2>1
<1> QED
  BY <1>1, <1>2 DEF Moves
-----------------------------------------------------------------------------
(***************************************************************************)
(* Every index and every entry is where and what the code takes it for.    *)
(***************************************************************************)
Indices == pc = "searching" => 0 <= low /\ high < Len(Searched)

Typed == TypeOK /\ Indices

LEMMA FileTyped ==
  ASSUME TypeOK
  PROVE  /\ file.lines \in Seq(Lines) /\ file.exists \in BOOLEAN
         /\ mode.reverse \in BOOLEAN /\ mode.sorting \in BOOLEAN
         /\ file.terminated \in BOOLEAN /\ FullLines \in Int
         /\ FullLines <= Len(file.lines) /\ Len(file.lines) \in Nat
         /\ Len(file.lines) - 1 <= FullLines
<1>1. /\ file \in [exists : BOOLEAN, lines : Seq(Lines), terminated : BOOLEAN]
      /\ mode \in [reverse : BOOLEAN, sorting : BOOLEAN]
  BY FileAssumption DEF TypeOK
<1>2. /\ file.lines \in Seq(Lines) /\ file.exists \in BOOLEAN
      /\ mode.reverse \in BOOLEAN /\ mode.sorting \in BOOLEAN
      /\ file.terminated \in BOOLEAN
  BY <1>1
<1>3. Len(file.lines) \in Nat
  BY <1>2, LenProperties
<1> QED
  BY <1>2, <1>3 DEF FullLines

LEMMA LineTyped ==
  ASSUME TypeOK, NEW n \in 1 .. Len(file.lines)
  PROVE  /\ file.lines[n].hash \in BOOLEAN
         /\ file.lines[n].tab \in {"none", "value", "dangling"}
         /\ file.lines[n].key \in Texts /\ file.lines[n].value \in Texts
         /\ KeyAt(n) \in Texts /\ ValueAt(n) \in Texts
<1>1. file.lines \in Seq(Lines)
  BY FileTyped
<1>2. file.lines[n] \in Lines
  BY <1>1, ElementOfSeq
<1>3. PICK line : line = file.lines[n]
  OBVIOUS
<1>4. line \in [hash : BOOLEAN, tab : {"none", "value", "dangling"},
                key : Texts, value : Texts]
  BY <1>2, <1>3 DEF Lines
<1>5. /\ line.hash \in BOOLEAN /\ line.tab \in {"none", "value", "dangling"}
      /\ line.key \in Texts /\ line.value \in Texts
  BY <1>4
<1>6. lowerStr[line.key] \in Texts
  BY <1>5, TextAssumption
<1> QED
  BY <1>3, <1>5, <1>6 DEF KeyAt, ValueAt

LEMMA TypedFirst == Init => Typed
<1> SUFFICES ASSUME Init  PROVE Typed
  OBVIOUS
<1>1. TypeOK
  <2>1. query.on = "none" /\ query.key = {}
    BY DEF Init, NoQuery
  <2>2. /\ stringVec \in Seq(Lines \cup {Blank}) /\ block_buf \in Seq(Texts \X Texts)
        /\ maps \in Seq(Entries) /\ reverse_map \in Seq(Entries)
        /\ outVector \in Seq(Texts)
    BY EmptySeq DEF Init
  <2>3. low = 0 /\ high = -1 /\ at = 0
    BY DEF Init
  <2>4. low \in Int /\ high \in Int /\ at \in Nat
    BY <2>3
  <2>5. is_start_reading \in BOOLEAN
    BY Zenon DEF Init
  <2> QED
    BY <2>1, <2>2, <2>4, <2>5 DEF Init, TypeOK
<1>2. Indices
  BY DEF Init, Indices
<1> QED
  BY <1>1, <1>2 DEF Typed

LEMMA TypedStays == Typed /\ [Next]_vars => Typed'
<1> SUFFICES ASSUME Typed, [Next]_vars  PROVE Typed'
  OBVIOUS
<1> USE DEF Typed
<1>1. CASE ReadLine
  <2>1. at \in Nat /\ at + 1 \in 1 .. Len(file.lines)
    BY <1>1, FileTyped DEF ReadLine, TypeOK
  <2>2. file.lines[at + 1] \in Lines \cup {Blank}
    BY <2>1, FileTyped
  <2>3. stringVec' \in Seq(Lines \cup {Blank})
    BY <1>1, <2>2 DEF ReadLine, TypeOK
  <2> QED
    BY <1>1, <2>1, <2>3 DEF ReadLine, TypeOK, Indices, Searched, search
<1>2. CASE EndOfFile
  BY <1>2 DEF EndOfFile, TypeOK, Indices, Searched, search, loader
<1>3. CASE ReadMissing
  <2>1. stringVec' \in Seq(Lines \cup {Blank}) /\ at' \in Nat
    BY <1>3 DEF ReadMissing, TypeOK
  <2> QED
    BY <1>3, <2>1 DEF ReadMissing, TypeOK, Indices, Searched, search
<1>4. CASE SkipComment
  BY <1>4 DEF SkipComment, InParse, TypeOK, Indices, Searched, search, loader
<1>5. CASE ParseLine
  <2>1. Line \in Lines \cup {Blank}
    BY <1>5 DEF ParseLine, InParse, TypeOK, Line
  <2>2. Line.tab = "value" => Line.key \in Texts /\ Line.value \in Texts
    <3>1. PICK line : line = Line
      OBVIOUS
    <3>2. CASE line \in Lines
      BY <3>1, <3>2 DEF Lines
    <3>3. CASE line = Blank
      BY <3>1, <3>3 DEF Blank
    <3> QED
      BY <2>1, <3>1, <3>2, <3>3
  <2>3. block_buf' \in Seq(Texts \X Texts)
    <3>1. CASE block_buf' = block_buf
      BY <3>1 DEF TypeOK
    <3>2. CASE /\ Line.tab = "value"
               /\ block_buf' = Append(block_buf, <<lowerStr[Line.key], Line.value>>)
      <4>1. lowerStr[Line.key] \in Texts /\ Line.value \in Texts
        BY <2>2, <3>2, TextAssumption
      <4>2. <<lowerStr[Line.key], Line.value>> \in Texts \X Texts
        BY <4>1
      <4> QED
        BY <3>2, <4>2 DEF TypeOK
    <3> QED
      BY <1>5, <3>1, <3>2 DEF ParseLine
  <2>4. pc' \in {"parsing", "thrown"} /\ at' \in Nat
    BY <1>5 DEF ParseLine, InParse, TypeOK
  <2> QED
    BY <1>5, <2>3, <2>4 DEF ParseLine, InParse, TypeOK, Indices, Searched, search
<1>6. CASE ParseEnds
  BY <1>6 DEF ParseEnds, TypeOK, Indices, Searched, search, loader
<1>7. CASE SortByValue
  <2>1. block_buf' \in Seq(Texts \X Texts)
    BY <1>7, SortTyped DEF SortByValue, TypeOK, Pairs
  <2> QED
    BY <1>7, <2>1 DEF SortByValue, TypeOK, Indices, Searched, search
<1>8. CASE setReverseMap
  <2>1. reverse_map' \in Seq(Entries)
    <3>1. CASE at < Len(block_buf)
      <4>1. block_buf[at + 1] \in Texts \X Texts
        BY <3>1 DEF TypeOK
      <4>2. block_buf[at + 1][1] \in Texts /\ block_buf[at + 1][2] \in Texts
        BY <4>1
      <4> QED
        BY <1>8, <3>1, <4>2, PutTyped DEF setReverseMap, TypeOK
    <3> QED
      BY <1>8, <3>1 DEF setReverseMap, TypeOK
  <2>2. pc' \in {"reversing", "sortByKey"} /\ at' \in Nat
    BY <1>8 DEF setReverseMap, TypeOK
  <2> QED
    BY <1>8, <2>1, <2>2 DEF setReverseMap, TypeOK, Indices, Searched, search
<1>9. CASE SortByKey
  <2>1. block_buf' \in Seq(Texts \X Texts)
    BY <1>9, SortTyped DEF SortByKey, TypeOK, Pairs
  <2> QED
    BY <1>9, <2>1 DEF SortByKey, TypeOK, Indices, Searched, search
<1>10. CASE setMap
  <2>1. maps' \in Seq(Entries) /\ block_buf' \in Seq(Texts \X Texts)
    <3>1. CASE at < Len(block_buf)
      <4>1. block_buf[at + 1] \in Texts \X Texts
        BY <3>1 DEF TypeOK
      <4>2. block_buf[at + 1][1] \in Texts /\ block_buf[at + 1][2] \in Texts
        BY <4>1
      <4> QED
        BY <1>10, <3>1, <4>2, PutTyped DEF setMap, TypeOK
    <3>2. CASE ~(at < Len(block_buf))
      BY <1>10, <3>2 DEF setMap, TypeOK
    <3> QED
      BY <3>1, <3>2
  <2>2. pc' \in {"mapping", "ready"} /\ at' \in Nat
    BY <1>10 DEF setMap, TypeOK
  <2> QED
    BY <1>10, <2>1, <2>2 DEF setMap, TypeOK, Indices, Searched, search
<1>11. CASE searchCinMap
  <2> DEFINE key == CHOOSE k \in query.key : TRUE
  <2>1. Searched \in Seq(Entries) /\ Len(Searched) \in Nat
    BY DEF Searched, TypeOK
  <2>2. low \in Int /\ high \in Int /\ 0 <= low /\ high < Len(Searched)
    BY <1>11 DEF searchCinMap, TypeOK, Indices
  <2>3. CASE Answer(<<>>)
    BY <1>11, <2>3 DEF Answer, TypeOK, Indices, Searched, loader
  <2>4. CASE low <= high /\ Answer(Searched[mid + 1].second)
    <3>1. mid + 1 \in 1 .. Len(Searched)
      BY <2>1, <2>2, <2>4 DEF mid
    <3>2. Searched[mid + 1].second \in Seq(Texts)
      BY <2>1, <3>1, SecondsTyped
    <3> QED
      BY <1>11, <2>4, <3>2 DEF Answer, TypeOK, Indices, Searched, loader
  <2>5. CASE low <= high /\ Narrow(low, mid - 1)
    <3>1. mid \in Int /\ mid - 1 < Len(Searched)
      BY <2>1, <2>2, <2>5 DEF mid
    <3>2. Searched' = Searched
      BY <2>5 DEF Narrow, Searched, loader
    <3> QED
      BY <1>11, <2>2, <2>5, <3>1, <3>2 DEF Narrow, TypeOK, Indices, loader
  <2>6. CASE low <= high /\ Narrow(mid + 1, high)
    <3>1. mid \in Int /\ 0 <= mid + 1
      BY <2>1, <2>2, <2>6 DEF mid
    <3>2. Searched' = Searched
      BY <2>6 DEF Narrow, Searched, loader
    <3> QED
      BY <1>11, <2>2, <2>6, <3>1, <3>2 DEF Narrow, TypeOK, Indices, loader
  <2> QED
    BY <1>11, <2>2, <2>3, <2>4, <2>5, <2>6 DEF searchCinMap
<1>12. CASE ScanMaps
  <2>1. outVector' \in Seq(Texts)
    <3>1. CASE at < Len(maps)
      <4>1. at + 1 \in 1 .. Len(maps) /\ maps \in Seq(Entries)
        BY <3>1 DEF TypeOK
      <4>2. maps[at + 1].second \in Seq(Texts)
        BY <4>1, SecondsTyped
      <4>3. outVector \in Seq(Texts)
        BY DEF TypeOK
      <4>4. outVector \o maps[at + 1].second \in Seq(Texts)
        BY <4>2, <4>3, ConcatProperties
      <4> QED
        BY <1>12, <3>1, <4>3, <4>4 DEF ScanMaps
    <3>2. CASE ~(at < Len(maps))
      BY <1>12, <3>2 DEF ScanMaps, TypeOK
    <3> QED
      BY <3>1, <3>2
  <2>2. pc' \in {"scanning", "answered"} /\ at' \in Nat
    BY <1>12 DEF ScanMaps, TypeOK
  <2> QED
    BY <1>12, <2>1, <2>2 DEF ScanMaps, TypeOK, Indices, Searched, loader
<1>13. ASSUME NEW key \in Texts, getWordsVector(key)  PROVE Typed'
  BY <1>13 DEF getWordsVector, StartSearch, TypeOK, Indices, Searched, loader
<1>14. ASSUME NEW key \in Texts, getReverseWordsVector(key)  PROVE Typed'
  BY <1>14 DEF getReverseWordsVector, StartSearch, TypeOK, Indices, Searched, loader
<1>15. ASSUME NEW pattern \in Patterns, getWordsVectorWithWildcard(pattern)
       PROVE  Typed'
  BY <1>15, TextAssumption
     DEF getWordsVectorWithWildcard, StartSearch, TypeOK, Indices, Searched, loader
<1>16. CASE UNCHANGED vars
  BY <1>16 DEF vars, search, loader, TypeOK, Indices, Searched
<1> QED
  BY <1>1, <1>2, <1>3, <1>4, <1>5, <1>6, <1>7, <1>8, <1>9, <1>10, <1>11,
     <1>12, <1>13, <1>14, <1>15, <1>16 DEF Next, Work, Ask

(* The entries, the pairs and the answers are made of texts, every index of *)
(* a loop or of the binary search is one of the vector it reads, and the    *)
(* search of an empty map reads nothing.                                    *)
THEOREM SearchesStayInside == Spec => []InRange
<1>1. Typed => InRange
  BY DEF Typed, Indices, InRange, ProbesInside
<1> QED
  BY TypedFirst, TypedStays, <1>1, PTL DEF Spec
-----------------------------------------------------------------------------
(***************************************************************************)
(* Loading: what the constructor has made of the file so far.              *)
(***************************************************************************)
KeyOf  == [n \in 1 .. Len(file.lines) |-> KeyAt(n)]
WordOf == [n \in 1 .. Len(file.lines) |-> ValueAt(n)]

Begun(n) == \E m \in 1 .. n : ~file.lines[m].hash

DeclaredBy(n) == {l \in Declaring : l <= n}

InOrder(place, n) ==
  /\ InKeyOrder => Sorted(place, n, KeyOf)
  /\ ~mode.reverse => Stable(place, n, KeyOf)

(* The pairs in the buffer are those of the lines S.                        *)
Buffered(place, S) == Listing(block_buf, place, S, KeyOf, WordOf)

Keyed(from, place, n) == GroupedBy(maps, from, place, n, KeyOf, WordOf)

Reversed(from, place, n) ==
  GroupedBy(reverse_map, from, place, n, WordOf, KeyOf)

Opened == pc # "reading" => file.exists

NothingYet ==
  /\ pc = "reading" => block_buf = <<>> /\ ~is_start_reading
  /\ pc \in {"reading", "parsing", "sortByValue", "reversing", "sortByKey"}
       => maps = <<>>
  /\ ~mode.reverse \/ pc \in {"reading", "parsing", "sortByValue"}
       => reverse_map = <<>>
  /\ pc \in {"sortByValue", "sortByKey"} => at = 0
  /\ pc \in {"sortByValue", "reversing"} => mode.reverse

HasRead ==
  pc \in {"reading", "parsing"} /\ file.exists =>
    /\ \A m \in 1 .. Len(stringVec) :
         m <= FullLines /\ stringVec[m] = file.lines[m]
    /\ pc = "reading" => at = Len(stringVec)
    /\ pc = "parsing" => FullLines <= Len(stringVec) /\ at <= Len(stringVec)

HasParsed ==
  pc = "parsing" =>
    /\ is_start_reading <=> Begun(at)
    /\ \E place : /\ Buffered(place, DeclaredBy(at))
                  /\ Increasing(place, Len(block_buf))

HasListed ==
  /\ pc = "sortByValue" =>
       \E place : /\ Buffered(place, Declaring)
                  /\ Increasing(place, Len(block_buf))
  /\ pc = "sortByKey" =>
       \E place : /\ Buffered(place, Declaring)
                  /\ ~mode.reverse => Increasing(place, Len(block_buf))

HasReversed ==
  pc = "reversing" =>
    /\ at <= Len(block_buf)
    /\ \E place, from : /\ Buffered(place, Declaring)
                        /\ Sorted(place, Len(block_buf), WordOf)
                        /\ Reversed(from, place, at)

HasMapped ==
  pc = "mapping" =>
    /\ at <= Len(block_buf)
    /\ \E place, from : /\ Buffered(place, Declaring)
                        /\ InOrder(place, Len(block_buf))
                        /\ Keyed(from, place, at)

ReverseBuilt ==
  mode.reverse /\ pc \in {"sortByKey", "mapping", "ready", "searching",
                          "scanning", "answered"} =>
    \E n \in Nat : \E place, from :
                                /\ place \in Bijection(1 .. n, Declaring)
                                /\ Sorted(place, n, WordOf)
                                /\ Reversed(from, place, n)

MapsBuilt ==
  pc \in {"ready", "searching", "scanning", "answered"} =>
    \E n \in Nat : \E place, from :
                                /\ place \in Bijection(1 .. n, Declaring)
                                /\ InOrder(place, n)
                                /\ Keyed(from, place, n)

Loaded ==
  /\ Opened /\ NothingYet /\ HasRead /\ HasParsed /\ HasListed
  /\ HasReversed /\ HasMapped /\ ReverseBuilt /\ MapsBuilt

(* The file and what it declares stay what they are.                        *)
LEMMA FileKept ==
  ASSUME TypeOK, [Next]_vars
  PROVE  file' = file /\ mode' = mode
BY DEF Next, Work, Ask, ReadLine, EndOfFile, ReadMissing, SkipComment,
       ParseLine, ParseEnds, SortByValue, setReverseMap, SortByKey, setMap,
       searchCinMap, ScanMaps, Answer, Narrow, getWordsVector,
       getReverseWordsVector, getWordsVectorWithWildcard, StartSearch, vars

LEMMA DeclaredKept ==
  ASSUME file' = file, mode' = mode
  PROVE  /\ KeyOf' = KeyOf /\ WordOf' = WordOf /\ Declaring' = Declaring
         /\ FullLines' = FullLines
         /\ InKeyOrder' <=> InKeyOrder
         /\ \A n : DeclaredBy(n)' = DeclaredBy(n)
         /\ \A n : Begun(n)' <=> Begun(n)
         /\ \A place, n : InOrder(place, n)' <=> InOrder(place, n)
<1>1. /\ KeyOf' = KeyOf /\ WordOf' = WordOf /\ FullLines' = FullLines
  BY DEF KeyOf, WordOf, FullLines, KeyAt, ValueAt
<1>2. Declaring' = Declaring
  BY DEF Declaring, Counts, FullLines
<1>3. InKeyOrder' <=> InKeyOrder
  BY <1>2 DEF InKeyOrder, FileSorted, KeyAt
<1>4. /\ \A n : DeclaredBy(n)' = DeclaredBy(n)
      /\ \A n : Begun(n)' <=> Begun(n)
  BY <1>2 DEF DeclaredBy, Begun
<1>5. \A place, n : InOrder(place, n)' <=> InOrder(place, n)
  BY <1>1, <1>3 DEF InOrder
<1> QED
  BY <1>1, <1>2, <1>3, <1>4, <1>5

LEMMA BuiltKept ==
  ASSUME file' = file, mode' = mode
  PROVE  /\ UNCHANGED block_buf =>
              \A place, S : Buffered(place, S)' <=> Buffered(place, S)
         /\ UNCHANGED maps =>
              \A from, place, n : Keyed(from, place, n)' <=> Keyed(from, place, n)
         /\ UNCHANGED reverse_map =>
              \A from, place, n :
                Reversed(from, place, n)' <=> Reversed(from, place, n)
BY DeclaredKept DEF Buffered, Keyed, Reversed

LEMMA LoadedUntouched ==
  ASSUME Loaded, UNCHANGED <<file, mode, pc, at, loader>>
  PROVE  Loaded'
BY DeclaredKept, BuiltKept
   DEF Loaded, loader, Opened, NothingYet, HasRead, HasParsed, HasListed,
       HasReversed, HasMapped, ReverseBuilt, MapsBuilt

LEMMA LoadedFirst == Init => Loaded
<1> SUFFICES ASSUME Init  PROVE Loaded
  OBVIOUS
<1>1. Len(stringVec) = 0 /\ at = 0 /\ 1 .. Len(stringVec) = {}
  BY DEF Init
<1>2. NothingYet
  BY Zenon DEF Init, NothingYet
<1> QED
  BY <1>1, <1>2 DEF Init, Loaded, Opened, HasRead, HasParsed, HasListed,
     HasReversed, HasMapped, ReverseBuilt, MapsBuilt

(* The next line of the file counts if it has a value and the comment at    *)
(* the head of the file is over.                                            *)
LEMMA NextCounts ==
  ASSUME Typed, NEW n \in Nat, n + 1 \in 1 .. Len(file.lines), n + 1 <= FullLines
  PROVE  /\ Begun(n + 1) <=> Begun(n) \/ ~file.lines[n + 1].hash
         /\ DeclaredBy(n + 1) =
              IF file.lines[n + 1].tab = "value" /\ Begun(n + 1)
                THEN DeclaredBy(n) \cup {n + 1} ELSE DeclaredBy(n)
<1>1. \A m \in 1 .. n + 1 : m \in 1 .. n \/ m = n + 1
  OBVIOUS
<1>2. n + 1 \in 1 .. n + 1 /\ \A m \in 1 .. n : m \in 1 .. n + 1
  OBVIOUS
<1>3. Begun(n + 1) <=> Begun(n) \/ ~file.lines[n + 1].hash
  BY <1>1, <1>2 DEF Begun
<1>4. n + 1 \in Declaring <=> file.lines[n + 1].tab = "value" /\ Begun(n + 1)
  BY DEF Declaring, Counts, Begun
<1>5. \A l \in Declaring : l <= n + 1 <=> l <= n \/ l = n + 1
  BY DEF Declaring
<1>6. n + 1 <= n + 1
  OBVIOUS
<1> QED
  BY <1>3, <1>4, <1>5, <1>6 DEF DeclaredBy

LEMMA DeclaringTyped ==
  ASSUME Typed
  PROVE  /\ Declaring \in SUBSET (1 .. Len(file.lines))
         /\ Declaring \in SUBSET Nat
         /\ \A l \in Declaring : /\ KeyOf[l] = KeyAt(l) /\ KeyOf[l] \in Texts
                                 /\ WordOf[l] = ValueAt(l) /\ WordOf[l] \in Texts
<1>1. Declaring \in SUBSET (1 .. Len(file.lines))
  BY DEF Declaring
<1>2. \A l \in 1 .. Len(file.lines) : l \in Nat
  OBVIOUS
<1>3. \A l \in 1 .. Len(file.lines) : KeyAt(l) \in Texts /\ ValueAt(l) \in Texts
  BY LineTyped DEF Typed
<1> QED
  BY <1>1, <1>2, <1>3 DEF KeyOf, WordOf

LEMMA LoadedByParse ==
  ASSUME Typed, Loaded, SkipComment \/ ParseLine
  PROVE  Loaded'
<1>1. file' = file /\ mode' = mode /\ UNCHANGED <<stringVec, maps, reverse_map>>
  BY DEF SkipComment, ParseLine, loader
<1>2. /\ pc = "parsing" /\ at \in Nat /\ at < Len(stringVec)
      /\ Len(stringVec) \in Nat /\ file.exists
  BY DEF SkipComment, ParseLine, InParse, Typed, TypeOK, Loaded, Opened
<1>3. /\ \A m \in 1 .. Len(stringVec) :
           m <= FullLines /\ stringVec[m] = file.lines[m]
      /\ FullLines <= Len(stringVec)
  BY <1>2 DEF Loaded, HasRead
<1>4. /\ at + 1 \in 1 .. Len(file.lines) /\ at + 1 <= FullLines
      /\ Line = file.lines[at + 1]
  <2>1. at + 1 \in 1 .. Len(stringVec)
    BY <1>2
  <2>2. at + 1 <= FullLines /\ stringVec[at + 1] = file.lines[at + 1]
    BY <1>3, <2>1
  <2> QED
    BY <1>2, <2>2, FileTyped DEF Typed, Line
<1>5. /\ Begun(at + 1) <=> Begun(at) \/ ~Line.hash
      /\ DeclaredBy(at + 1) =
           IF Line.tab = "value" /\ Begun(at + 1)
             THEN DeclaredBy(at) \cup {at + 1} ELSE DeclaredBy(at)
  BY <1>2, <1>4, NextCounts
<1>6. is_start_reading <=> Begun(at)
  BY <1>2 DEF Loaded, HasParsed
<1>7. PICK place : /\ Buffered(place, DeclaredBy(at))
                   /\ Increasing(place, Len(block_buf))
  BY <1>2 DEF Loaded, HasParsed
<1>8. \A S : S = DeclaredBy(at + 1) /\ at' = at + 1 => S = DeclaredBy(at)'
  BY <1>1, DeclaredKept DEF DeclaredBy
<1>9. at' = at + 1 => (Begun(at)' <=> Begun(at + 1))
  BY <1>1 DEF Begun
<1>10. CASE SkipComment
  <2>1. /\ Line.hash /\ ~is_start_reading /\ at' = at + 1 /\ pc' = "parsing"
        /\ UNCHANGED <<is_start_reading, block_buf>>
    BY <1>2, <1>10 DEF SkipComment, Comment, loader
  <2>2. ~Begun(at + 1) /\ DeclaredBy(at + 1) = DeclaredBy(at)
    BY <1>5, <1>6, <2>1
  <2>3. DeclaredBy(at)' = DeclaredBy(at)
    BY <1>8, <2>1, <2>2
  <2>4. HasParsed'
    <3>1. (is_start_reading <=> Begun(at))'
      BY <1>9, <2>1, <2>2
    <3>2. Buffered(place, DeclaredBy(at))'
      BY <1>1, <1>7, <2>1, <2>3, DeclaredKept DEF Buffered
    <3>3. Increasing(place, Len(block_buf))'
      BY <1>7, <2>1
    <3> QED
      BY <3>1, <3>2, <3>3 DEF HasParsed
  <2>5. HasRead'
    BY <1>1, <1>2, <1>3, <2>1, DeclaredKept DEF HasRead
  <2> QED
    BY <1>1, <1>2, <2>1, <2>4, <2>5
       DEF Loaded, Opened, NothingYet, HasListed, HasReversed, HasMapped,
           ReverseBuilt, MapsBuilt
<1>11. CASE ParseLine /\ pc' = "thrown"
  BY <1>1, <1>2, <1>11
     DEF Loaded, Opened, NothingYet, HasRead, HasParsed, HasListed, HasReversed,
         HasMapped, ReverseBuilt, MapsBuilt
<1>12. CASE ParseLine /\ pc' # "thrown"
  <2>1. /\ is_start_reading \/ ~Line.hash
        /\ is_start_reading' /\ at' = at + 1 /\ pc' = "parsing"
        /\ block_buf' = IF Line.tab = "value"
             THEN Append(block_buf, <<lowerStr[Line.key], Line.value>>)
             ELSE block_buf
    BY <1>2, <1>12 DEF ParseLine, Comment
  <2>2. Begun(at + 1)
    BY <1>5, <1>6, <2>1
  <2>3. \E longer : /\ Listing(block_buf', longer, DeclaredBy(at + 1), KeyOf, WordOf)
                    /\ Increasing(longer, Len(block_buf'))
    <3>1. CASE Line.tab = "value"
      <4>1. PICK l, k, w : l = at + 1 /\ k = KeyAt(l) /\ w = ValueAt(l)
        OBVIOUS
      <4>2. /\ k \in Texts /\ w \in Texts /\ KeyOf[l] = k /\ WordOf[l] = w /\ l \in Nat
        BY <1>2, <1>4, <4>1, LineTyped DEF Typed, KeyOf, WordOf
      <4>3. block_buf' = Append(block_buf, <<k, w>>) /\ block_buf \in Seq(Pairs)
        BY <1>4, <2>1, <3>1, <4>1 DEF KeyAt, ValueAt, Typed, TypeOK, Pairs
      <4>4. \A m \in DeclaredBy(at) : m < l
        BY <1>2, <4>1, DeclaringTyped DEF DeclaredBy
      <4>5. DeclaredBy(at) \in SUBSET Nat
        BY DeclaringTyped DEF DeclaredBy
      <4>6. DeclaredBy(at + 1) = DeclaredBy(at) \cup {l}
        BY <1>5, <2>2, <3>1, <4>1
      <4>7. Listing(block_buf, place, DeclaredBy(at), KeyOf, WordOf)
        BY <1>7 DEF Buffered
      <4>8. PICK S : S = DeclaredBy(at)
        OBVIOUS
      <4>9. \E longer :
              /\ Listing(Append(block_buf, <<k, w>>), longer, S \cup {l}, KeyOf, WordOf)
              /\ Increasing(longer, Len(Append(block_buf, <<k, w>>)))
        BY <1>7, <4>2, <4>3, <4>4, <4>5, <4>7, <4>8, ListingGrows
      <4> QED
        BY <4>3, <4>6, <4>8, <4>9
    <3>2. CASE Line.tab # "value"
      BY <1>5, <1>7, <2>1, <3>2 DEF Buffered
    <3> QED
      BY <3>1, <3>2
  <2>4. HasParsed'
    <3>1. (is_start_reading <=> Begun(at))'
      BY <1>9, <2>1, <2>2
    <3>2. DeclaredBy(at)' = DeclaredBy(at + 1)
      BY <1>8, <2>1
    <3>3. \E longer : /\ Buffered(longer, DeclaredBy(at))'
                      /\ Increasing(longer, Len(block_buf))'
      BY <1>1, <2>3, <3>2, DeclaredKept DEF Buffered
    <3> QED
      BY <3>1, <3>3 DEF HasParsed
  <2>5. HasRead'
    BY <1>1, <1>2, <1>3, <2>1, DeclaredKept DEF HasRead
  <2> QED
    BY <1>1, <1>2, <2>1, <2>4, <2>5
       DEF Loaded, Opened, NothingYet, HasListed, HasReversed, HasMapped,
           ReverseBuilt, MapsBuilt
<1> QED
  BY <1>10, <1>11, <1>12

LEMMA LoadedByReading ==
  ASSUME Typed, Loaded, ReadLine \/ ReadMissing \/ EndOfFile
  PROVE  Loaded'
<1>1. /\ file' = file /\ mode' = mode
      /\ UNCHANGED <<is_start_reading, block_buf, maps, reverse_map>>
      /\ pc = "reading"
  BY DEF ReadLine, ReadMissing, EndOfFile, loader
<1>2. CASE ReadLine
  <2>1. /\ pc' = "reading" /\ at' = at + 1 /\ at < FullLines
        /\ stringVec' = Append(stringVec, file.lines[at + 1])
        /\ at = Len(stringVec) /\ at \in Nat
        /\ \A m \in 1 .. Len(stringVec) :
             m <= FullLines /\ stringVec[m] = file.lines[m]
    BY <1>2 DEF ReadLine, Typed, TypeOK, Loaded, HasRead
  <2>2. at + 1 \in 1 .. Len(file.lines) /\ FullLines \in Int
    BY <2>1, FileTyped DEF Typed
  <2>3. file.lines[at + 1] \in Lines \cup {Blank}
    BY <2>2, FileTyped DEF Typed
  <2>4. /\ Len(stringVec') = at + 1
        /\ \A m \in 1 .. at : stringVec'[m] = stringVec[m]
        /\ stringVec'[at + 1] = file.lines[at + 1]
    BY <2>1, <2>3, AppendProperties DEF Typed, TypeOK
  <2>5. \A m \in 1 .. at + 1 : m <= FullLines /\ stringVec'[m] = file.lines[m]
    <3> TAKE m \in 1 .. at + 1
    <3>1. CASE m = at + 1
      BY <2>1, <2>2, <2>4, <3>1
    <3>2. CASE m # at + 1
      <4>1. m \in 1 .. at
        BY <2>1, <3>2
      <4> QED
        BY <2>1, <2>4, <4>1
    <3> QED
      BY <3>1, <3>2
  <2>6. HasRead'
    BY <1>1, <2>1, <2>4, <2>5, DeclaredKept DEF HasRead
  <2> QED
    BY <1>1, <2>1, <2>6
       DEF Loaded, Opened, NothingYet, HasParsed, HasListed, HasReversed,
           HasMapped, ReverseBuilt, MapsBuilt
<1>3. CASE ReadMissing
  BY <1>1, <1>3
     DEF ReadMissing, Loaded, Opened, NothingYet, HasRead, HasParsed, HasListed,
         HasReversed, HasMapped, ReverseBuilt, MapsBuilt
<1>4. CASE EndOfFile
  <2>1. /\ pc' = "parsing" /\ at' = 0 /\ at >= FullLines /\ file.exists
        /\ stringVec' = stringVec
    BY <1>4 DEF EndOfFile, loader
  <2>2. /\ at = Len(stringVec) /\ at \in Nat
        /\ \A m \in 1 .. Len(stringVec) :
             m <= FullLines /\ stringVec[m] = file.lines[m]
    BY <1>1, <2>1 DEF Loaded, HasRead, Typed, TypeOK
  <2>3. HasRead'
    BY <1>1, <2>1, <2>2, FileTyped, DeclaredKept DEF HasRead, Typed
  <2>4. block_buf = <<>> /\ ~is_start_reading
    BY <1>1 DEF Loaded, NothingYet
  <2>5. HasParsed'
    <3>1. DeclaredBy(0) = {} /\ ~Begun(0)
      BY DeclaringTyped DEF DeclaredBy, Begun
    <3>2. DeclaredBy(at)' = {} /\ ~Begun(at)'
      BY <1>1, <2>1, <3>1, DeclaredKept DEF DeclaredBy, Begun
    <3>3. PICK place : /\ Listing(<<>>, place, {}, KeyOf, WordOf)
                       /\ Increasing(place, Len(<<>>))
      BY NothingListed
    <3>4. Buffered(place, {})' /\ Increasing(place, Len(block_buf))'
      BY <1>1, <2>4, <3>3, DeclaredKept DEF Buffered
    <3>5. (is_start_reading <=> Begun(at))'
      BY <1>1, <2>4, <3>2
    <3> QED
      BY <3>2, <3>4, <3>5 DEF HasParsed
  <2> QED
    BY <1>1, <2>1, <2>3, <2>5
       DEF Loaded, Opened, NothingYet, HasListed, HasReversed, HasMapped,
           ReverseBuilt, MapsBuilt
<1> QED
  BY <1>2, <1>3, <1>4

LEMMA LoadedByParseEnds ==
  ASSUME Typed, Loaded, ParseEnds
  PROVE  Loaded'
<1>1. /\ file' = file /\ mode' = mode
      /\ UNCHANGED <<stringVec, is_start_reading, block_buf, maps, reverse_map>>
      /\ pc = "parsing" /\ at = Len(stringVec) /\ at' = 0
      /\ pc' = IF mode.reverse THEN "sortByValue" ELSE "sortByKey"
  BY DEF ParseEnds, loader
<1>2. file.exists /\ FullLines <= at
  BY <1>1 DEF Loaded, Opened, HasRead
<1>3. DeclaredBy(at) = Declaring
  <2>1. \A l \in Declaring : l \in Nat /\ l <= FullLines
    BY DeclaringTyped DEF Declaring, Counts
  <2>2. FullLines \in Int /\ at \in Nat
    BY FileTyped DEF Typed, TypeOK
  <2>3. \A l \in Declaring : l <= at
    BY <1>2, <2>1, <2>2
  <2> QED
    BY <2>3 DEF DeclaredBy
<1>4. PICK place : /\ Buffered(place, Declaring)
                   /\ Increasing(place, Len(block_buf))
  BY <1>1, <1>3 DEF Loaded, HasParsed
<1>5. Buffered(place, Declaring)' /\ Increasing(place, Len(block_buf))'
  BY <1>1, <1>4, DeclaredKept DEF Buffered
<1>6. HasListed'
  BY <1>5 DEF HasListed
<1> QED
  BY <1>1, <1>2, <1>6
     DEF Loaded, Opened, NothingYet, HasRead, HasParsed, HasReversed, HasMapped,
         ReverseBuilt, MapsBuilt

LEMMA LoadedBySortByValue ==
  ASSUME Typed, Loaded, SortByValue
  PROVE  Loaded'
<1>1. /\ file' = file /\ mode' = mode /\ UNCHANGED <<at, maps, reverse_map>>
      /\ pc = "sortByValue" /\ pc' = "reversing"
      /\ block_buf' = StableSort(block_buf, ValueField)
  BY DEF SortByValue
<1>2. /\ file.exists /\ at = 0 /\ mode.reverse /\ reverse_map = <<>> /\ maps = <<>>
      /\ block_buf \in Seq(Pairs)
  BY <1>1 DEF Loaded, Opened, NothingYet, Typed, TypeOK, Pairs
<1>3. PICK place : Listing(block_buf, place, Declaring, KeyOf, WordOf)
  BY <1>1 DEF Loaded, HasListed, Buffered
<1>4. /\ Len(block_buf') = Len(block_buf)
      /\ \E after : /\ Listing(block_buf', after, Declaring, KeyOf, WordOf)
                    /\ Sorted(after, Len(block_buf), WordOf)
  <2>1. ValueField \in {KeyField, ValueField}
        /\ WordOf = IF ValueField = KeyField THEN KeyOf ELSE WordOf
    BY DEF KeyField, ValueField
  <2>2. Declaring \in SUBSET Nat
    BY DeclaringTyped
  <2> QED
    BY <1>1, <1>2, <1>3, <2>1, <2>2, SortedListing
<1>5. PICK after : /\ Listing(block_buf', after, Declaring, KeyOf, WordOf)
                   /\ Sorted(after, Len(block_buf'), WordOf)
  BY <1>4
<1>6. PICK from : GroupedBy(<<>>, from, after, 0, WordOf, KeyOf)
  BY GroupsStart
<1>7. /\ Buffered(after, Declaring)' /\ Sorted(after, Len(block_buf), WordOf)'
      /\ Reversed(from, after, at)'
  BY <1>1, <1>2, <1>5, <1>6, DeclaredKept DEF Buffered, Reversed
<1>8. 0 <= Len(block_buf')
  BY <1>2, <1>4
<1>9. HasReversed'
  BY <1>1, <1>2, <1>7, <1>8 DEF HasReversed
<1> QED
  BY <1>1, <1>2, <1>9
     DEF Loaded, Opened, NothingYet, HasRead, HasParsed, HasListed, HasMapped,
         ReverseBuilt, MapsBuilt

LEMMA LoadedBySetReverseMap ==
  ASSUME Typed, Loaded, setReverseMap
  PROVE  Loaded'
<1>1. /\ file' = file /\ mode' = mode /\ UNCHANGED <<block_buf, maps>>
      /\ pc = "reversing"
  BY DEF setReverseMap
<1>2. /\ file.exists /\ mode.reverse /\ maps = <<>> /\ at \in Nat
      /\ block_buf \in Seq(Pairs) /\ reverse_map \in Seq(Entries)
  BY <1>1 DEF Loaded, Opened, NothingYet, Typed, TypeOK, Pairs
<1>3. PICK place, from : /\ Buffered(place, Declaring)
                         /\ Sorted(place, Len(block_buf), WordOf)
                         /\ Reversed(from, place, at)
  BY <1>1 DEF Loaded, HasReversed
<1>4. at <= Len(block_buf)
  BY <1>1 DEF Loaded, HasReversed
<1>5. /\ Buffered(place, Declaring)' /\ Sorted(place, Len(block_buf), WordOf)'
  BY <1>1, <1>3, DeclaredKept DEF Buffered
<1>6. CASE at < Len(block_buf)
  <2>1. /\ reverse_map' = Put(reverse_map, block_buf[at + 1][2], block_buf[at + 1][1])
        /\ at' = at + 1 /\ pc' = "reversing"
    BY <1>1, <1>6 DEF setReverseMap
  <2>2. at + 1 \in 1 .. Len(block_buf)
    BY <1>2, <1>6
  <2>3. block_buf[at + 1] \in Texts \X Texts
    BY <1>2, <2>2 DEF Pairs
  <2>4. PICK k, w : k = block_buf[at + 1][2] /\ w = block_buf[at + 1][1]
    OBVIOUS
  <2>5. k \in Texts /\ w \in Texts
    BY <2>3, <2>4
  <2>6. WordOf[place[at + 1]] = k /\ KeyOf[place[at + 1]] = w
    BY <1>3, <2>2, <2>4 DEF Buffered, Listing
  <2>7. PICK longer :
          GroupedBy(Put(reverse_map, k, w), longer, place, at + 1, WordOf, KeyOf)
    BY <1>2, <1>3, <2>5, <2>6, GroupsGrow DEF Reversed
  <2>8. Reversed(longer, place, at)'
    BY <1>1, <2>1, <2>4, <2>7, DeclaredKept DEF Reversed
  <2>9. HasReversed'
    BY <1>1, <1>2, <1>5, <1>6, <2>1, <2>8 DEF HasReversed
  <2> QED
    BY <1>1, <1>2, <2>1, <2>9
       DEF Loaded, Opened, NothingYet, HasRead, HasParsed, HasListed, HasMapped,
           ReverseBuilt, MapsBuilt
<1>7. CASE ~(at < Len(block_buf))
  <2>1. /\ reverse_map' = reverse_map /\ at' = 0 /\ pc' = "sortByKey"
    BY <1>1, <1>7 DEF setReverseMap
  <2>2. at = Len(block_buf) /\ Len(block_buf) \in Nat
    BY <1>2, <1>4, <1>7
  <2>3. HasListed'
    BY <1>1, <1>2, <1>5, <2>1 DEF HasListed
  <2>4. ReverseBuilt'
    <3>1. place \in Bijection(1 .. at, Declaring)
      BY <1>3, <2>2 DEF Buffered, Listing
    <3>2. PICK n \in Nat : n = at
      BY <1>2
    <3>3. /\ (place \in Bijection(1 .. n, Declaring))' /\ Sorted(place, n, WordOf)'
          /\ Reversed(from, place, n)'
      BY <1>1, <1>3, <2>1, <2>2, <3>1, <3>2, DeclaredKept DEF Reversed
    <3> QED
      BY <3>3 DEF ReverseBuilt
  <2> QED
    BY <1>1, <1>2, <2>1, <2>3, <2>4
       DEF Loaded, Opened, NothingYet, HasRead, HasParsed, HasReversed,
           HasMapped, MapsBuilt
<1> QED
  BY <1>6, <1>7

LEMMA LoadedBySortByKey ==
  ASSUME Typed, Loaded, SortByKey
  PROVE  Loaded'
<1>1. /\ file' = file /\ mode' = mode /\ UNCHANGED <<at, maps, reverse_map>>
      /\ pc = "sortByKey" /\ pc' = "mapping"
      /\ block_buf' = IF mode.sorting THEN StableSort(block_buf, KeyField)
                                      ELSE block_buf
  BY DEF SortByKey
<1>2. /\ file.exists /\ at = 0 /\ maps = <<>> /\ block_buf \in Seq(Pairs)
      /\ ~mode.reverse => reverse_map = <<>>
  BY <1>1 DEF Loaded, Opened, NothingYet, Typed, TypeOK, Pairs
<1>3. PICK place : /\ Listing(block_buf, place, Declaring, KeyOf, WordOf)
                   /\ ~mode.reverse => Increasing(place, Len(block_buf))
  BY <1>1 DEF Loaded, HasListed, Buffered
<1>4. \E after : /\ Listing(block_buf', after, Declaring, KeyOf, WordOf)
                 /\ InOrder(after, Len(block_buf'))
  <2>1. CASE mode.sorting
    <3>1. /\ KeyField \in {KeyField, ValueField}
          /\ KeyOf = IF KeyField = KeyField THEN KeyOf ELSE WordOf
      OBVIOUS
    <3>2. Declaring \in SUBSET Nat
      BY DeclaringTyped
    <3>3. /\ Len(block_buf') = Len(block_buf)
          /\ \E after :
               /\ Listing(block_buf', after, Declaring, KeyOf, WordOf)
               /\ Sorted(after, Len(block_buf), KeyOf)
               /\ Increasing(place, Len(block_buf)) => Stable(after, Len(block_buf), KeyOf)
      BY <1>1, <1>2, <1>3, <2>1, <3>1, <3>2, SortedListing
    <3> QED
      BY <1>3, <3>3 DEF InOrder
  <2>2. CASE ~mode.sorting
    <3>1. PICK n : n = Len(block_buf)
      OBVIOUS
    <3>2. \A r \in 1 .. n : place[r] \in Declaring
      BY <1>3, <3>1, ListingFacts
    <3>3. ~mode.reverse => Increasing(place, n)
      BY <1>3, <3>1
    <3>4. ~mode.reverse => Stable(place, n, KeyOf)
      BY <3>3 DEF Increasing, Stable
    <3>5. InKeyOrder => Sorted(place, n, KeyOf)
      <4> SUFFICES ASSUME InKeyOrder, NEW q \in 1 .. n, NEW r \in 1 .. n, q < r
                   PROVE  KeyOf[place[q]] <= KeyOf[place[r]]
        BY DEF Sorted
      <4>1. FileSorted /\ place[q] < place[r]
        BY <2>2, <3>3 DEF InKeyOrder, Increasing
      <4>2. place[q] \in Declaring /\ place[r] \in Declaring
        BY <3>2
      <4>3. KeyAt(place[q]) <= KeyAt(place[r])
        BY <4>1, <4>2 DEF FileSorted
      <4> QED
        BY <4>2, <4>3, DeclaringTyped
    <3> QED
      BY <1>1, <1>3, <2>2, <3>1, <3>4, <3>5 DEF InOrder
  <2> QED
    BY <2>1, <2>2
<1>5. PICK after : /\ Listing(block_buf', after, Declaring, KeyOf, WordOf)
                   /\ InOrder(after, Len(block_buf'))
  BY <1>4
<1>6. PICK from : GroupedBy(<<>>, from, after, 0, KeyOf, WordOf)
  BY GroupsStart
<1>7. /\ Buffered(after, Declaring)' /\ Keyed(from, after, at)'
  BY <1>1, <1>2, <1>5, <1>6, DeclaredKept DEF Buffered, Keyed
<1>8. InOrder(after, Len(block_buf))'
  BY <1>1, <1>5, DeclaredKept DEF InOrder
<1>9. Len(block_buf') \in Nat
  <2>1. block_buf' \in Seq(Pairs)
    BY <1>1, <1>2, SortTyped
  <2> QED
    BY <2>1, LenProperties
<1>10. HasMapped'
  BY <1>1, <1>2, <1>7, <1>8, <1>9 DEF HasMapped
<1>11. ReverseBuilt'
  BY <1>1, DeclaredKept, BuiltKept DEF Loaded, ReverseBuilt
<1> QED
  BY <1>1, <1>2, <1>10, <1>11
     DEF Loaded, Opened, NothingYet, HasRead, HasParsed, HasListed, HasReversed,
         MapsBuilt

LEMMA LoadedBySetMap ==
  ASSUME Typed, Loaded, setMap
  PROVE  Loaded'
<1>1. /\ file' = file /\ mode' = mode /\ UNCHANGED reverse_map
      /\ pc = "mapping"
  BY DEF setMap
<1>2. /\ file.exists /\ at \in Nat /\ block_buf \in Seq(Pairs) /\ maps \in Seq(Entries)
      /\ ~mode.reverse => reverse_map = <<>>
  BY <1>1 DEF Loaded, Opened, NothingYet, Typed, TypeOK, Pairs
<1>3. PICK place, from : /\ Buffered(place, Declaring)
                         /\ InOrder(place, Len(block_buf))
                         /\ Keyed(from, place, at)
  BY <1>1 DEF Loaded, HasMapped
<1>4. at <= Len(block_buf)
  BY <1>1 DEF Loaded, HasMapped
<1>5. CASE at < Len(block_buf)
  <2>1. /\ maps' = Put(maps, block_buf[at + 1][1], block_buf[at + 1][2])
        /\ at' = at + 1 /\ pc' = "mapping" /\ block_buf' = block_buf
    BY <1>1, <1>5 DEF setMap
  <2>2. at + 1 \in 1 .. Len(block_buf)
    BY <1>2, <1>5
  <2>3. block_buf[at + 1] \in Texts \X Texts
    BY <1>2, <2>2 DEF Pairs
  <2>4. PICK k, w : k = block_buf[at + 1][1] /\ w = block_buf[at + 1][2]
    OBVIOUS
  <2>5. k \in Texts /\ w \in Texts
    BY <2>3, <2>4
  <2>6. KeyOf[place[at + 1]] = k /\ WordOf[place[at + 1]] = w
    BY <1>3, <2>2, <2>4 DEF Buffered, Listing
  <2>7. PICK longer :
          GroupedBy(Put(maps, k, w), longer, place, at + 1, KeyOf, WordOf)
    BY <1>2, <1>3, <2>5, <2>6, GroupsGrow DEF Keyed
  <2>8. Keyed(longer, place, at)'
    BY <1>1, <2>1, <2>4, <2>7, DeclaredKept DEF Keyed
  <2>9. /\ Buffered(place, Declaring)' /\ InOrder(place, Len(block_buf))'
    BY <1>1, <1>3, <2>1, DeclaredKept DEF Buffered, InOrder
  <2>10. HasMapped'
    BY <1>1, <1>2, <1>5, <2>1, <2>8, <2>9 DEF HasMapped
  <2>11. ReverseBuilt'
    BY <1>1, <2>1, DeclaredKept, BuiltKept DEF Loaded, ReverseBuilt
  <2> QED
    BY <1>1, <1>2, <2>1, <2>10, <2>11
       DEF Loaded, Opened, NothingYet, HasRead, HasParsed, HasListed,
           HasReversed, MapsBuilt
<1>6. CASE ~(at < Len(block_buf))
  <2>1. maps' = maps /\ at' = 0 /\ pc' = "ready"
    BY <1>1, <1>6 DEF setMap
  <2>2. at = Len(block_buf) /\ Len(block_buf) \in Nat
    BY <1>2, <1>4, <1>6
  <2>3. MapsBuilt'
    <3>1. place \in Bijection(1 .. at, Declaring)
      BY <1>3, <2>2 DEF Buffered, Listing
    <3>2. PICK n \in Nat : n = at
      BY <1>2
    <3>3. (place \in Bijection(1 .. n, Declaring))' /\ Keyed(from, place, n)'
      BY <1>1, <1>3, <2>1, <2>2, <3>1, <3>2, DeclaredKept DEF Keyed
    <3>4. InOrder(place, n)'
      BY <1>1, <1>3, <2>2, <3>2, DeclaredKept DEF InOrder
    <3> QED
      BY <3>3, <3>4 DEF MapsBuilt
  <2>4. ReverseBuilt'
    BY <1>1, <2>1, DeclaredKept, BuiltKept DEF Loaded, ReverseBuilt
  <2> QED
    BY <1>1, <1>2, <2>1, <2>3, <2>4
       DEF Loaded, Opened, NothingYet, HasRead, HasParsed, HasListed,
           HasReversed, HasMapped
<1> QED
  BY <1>5, <1>6

LEMMA LoadedBySearch ==
  ASSUME Loaded, file' = file, mode' = mode, UNCHANGED loader,
         pc \in {"ready", "searching", "scanning", "answered"},
         pc' \in {"ready", "searching", "scanning", "answered"}
  PROVE  Loaded'
<1>1. ReverseBuilt' /\ MapsBuilt'
  BY DeclaredKept, BuiltKept DEF Loaded, ReverseBuilt, MapsBuilt, loader
<1> QED
  BY <1>1
     DEF Loaded, Opened, NothingYet, HasRead, HasParsed, HasListed, HasReversed,
         HasMapped, loader

(* The steps that search change nothing of what is loaded.                  *)
Searching ==
  \/ searchCinMap \/ ScanMaps
  \/ \E key \in Texts : getWordsVector(key) \/ getReverseWordsVector(key)
  \/ \E pattern \in Patterns : getWordsVectorWithWildcard(pattern)

LEMMA SearchingSteps ==
  ASSUME Searching
  PROVE  /\ file' = file /\ mode' = mode /\ UNCHANGED loader
         /\ pc \in {"ready", "searching", "scanning", "answered"}
         /\ pc' \in {"ready", "searching", "scanning", "answered"}
BY DEF Searching, searchCinMap, ScanMaps, getWordsVector, Idle, StartSearch,
       getReverseWordsVector, getWordsVectorWithWildcard, Answer, Narrow

LEMMA LoadedStays == Typed /\ Loaded /\ [Next]_vars => Loaded'
<1> SUFFICES ASSUME Typed, Loaded, [Next]_vars  PROVE Loaded'
  OBVIOUS
<1>1. CASE Searching
  BY <1>1, SearchingSteps, LoadedBySearch
<1>2. CASE UNCHANGED vars
  BY <1>2, LoadedUntouched DEF vars
<1> QED
  BY <1>1, <1>2, LoadedByReading, LoadedByParse, LoadedByParseEnds,
     LoadedBySortByValue, LoadedBySetReverseMap, LoadedBySortByKey,
     LoadedBySetMap DEF Next, Work, Ask, Searching
-----------------------------------------------------------------------------
(***************************************************************************)
(* Searching.                                                              *)
(***************************************************************************)
Running == pc \in {"ready", "searching", "scanning", "answered"}

LEMMA MapsAnswer ==
  ASSUME Typed, Loaded, Running
  PROVE  /\ Covering(maps, Declaring, KeyOf) /\ Honest(maps, Declaring, KeyOf, WordOf)
         /\ InKeyOrder =>
              /\ Ordered(maps) /\ Answering(maps, Declaring, KeyOf, WordOf, ~mode.reverse)
<1>1. PICK n \in Nat : \E place, from :
        /\ place \in Bijection(1 .. n, Declaring)
        /\ InOrder(place, n) /\ Keyed(from, place, n)
  BY DEF Loaded, MapsBuilt, Running
<1>2. PICK place, from :
        /\ place \in Bijection(1 .. n, Declaring)
        /\ InOrder(place, n) /\ Keyed(from, place, n)
  BY <1>1
<1>3. maps \in Seq(Entries) /\ GroupedBy(maps, from, place, n, KeyOf, WordOf)
  BY <1>2 DEF Typed, TypeOK, Keyed
<1>4. Covering(maps, Declaring, KeyOf) /\ Honest(maps, Declaring, KeyOf, WordOf)
  BY <1>2, <1>3, MapHonest
<1>5. ASSUME InKeyOrder
      PROVE  Ordered(maps) /\ Answering(maps, Declaring, KeyOf, WordOf, ~mode.reverse)
  <2>1. Sorted(place, n, KeyOf) /\ (~mode.reverse => Stable(place, n, KeyOf))
    BY <1>2, <1>5 DEF InOrder
  <2> QED
    BY <1>2, <1>3, <2>1, MapInOrder
<1> QED
  BY <1>4, <1>5

LEMMA ReverseAnswers ==
  ASSUME Typed, Loaded, Running, mode.reverse
  PROVE  /\ Covering(reverse_map, Declaring, WordOf) /\ Ordered(reverse_map)
         /\ Answering(reverse_map, Declaring, WordOf, KeyOf, FALSE)
<1>1. PICK n \in Nat : \E place, from :
        /\ place \in Bijection(1 .. n, Declaring)
        /\ Sorted(place, n, WordOf) /\ Reversed(from, place, n)
  BY DEF Loaded, ReverseBuilt, Running
<1>2. PICK place, from :
        /\ place \in Bijection(1 .. n, Declaring)
        /\ Sorted(place, n, WordOf) /\ Reversed(from, place, n)
  BY <1>1
<1>3. /\ reverse_map \in Seq(Entries)
      /\ GroupedBy(reverse_map, from, place, n, WordOf, KeyOf)
  BY <1>2 DEF Typed, TypeOK, Reversed
<1> QED
  BY <1>2, <1>3, MapHonest, MapInOrder

LEMMA CollectsNothing ==
  ASSUME NEW word
  PROVE  \E source : Collects(<<>>, source, {}, word) /\ Increasing(source, Len(<<>>))
<1>1. PICK source : source = [x \in 1 .. 0 |-> x]
  OBVIOUS
<1>2. source \in [1 .. 0 -> {}]
  BY <1>1
<1>3. source \in Bijection(1 .. 0, {})
  BY <1>2, IsBijection
<1>4. Len(<<>>) = 0
  OBVIOUS
<1> QED
  BY <1>3, <1>4 DEF Collects, Increasing

(* The map searched is in the order of its keys.                            *)
Sure == query.on = "reverse_map" \/ InKeyOrder

(* While a map in order is searched, the key is between low and high.       *)
Seeks ==
  pc = "searching" =>
    /\ query.on \in {"maps", "reverse_map"}
    /\ query.on = "reverse_map" => mode.reverse
    /\ \E key \in Texts :
         /\ query.key = {key}
         /\ Sure => \A e \in 1 .. Len(Searched) :
                      Searched[e].first = key => low < e /\ e <= high + 1

(* The scan has collected the lines of the entries behind it.               *)
Scans ==
  pc = "scanning" =>
    /\ query.on = "wildcard" /\ at <= Len(maps)
    /\ \E n \in Nat : \E place, from, source :
         /\ place \in Bijection(1 .. n, Declaring)
         /\ Keyed(from, place, n)
         /\ Collects(outVector, source,
                     Scanned(place, from[at], Declaring, KeyOf, query.key), WordOf)

AnswersKey ==
  pc = "answered" /\ query.on = "maps" =>
    /\ \A r \in 1 .. Len(outVector) : \E l \in Declaring :
         KeyOf[l] \in query.key /\ WordOf[l] = outVector[r]
    /\ InKeyOrder =>
         \E source :
           /\ Collects(outVector, source, Holding(Declaring, KeyOf, query.key), WordOf)
           /\ ~mode.reverse => Increasing(source, Len(outVector))

AnswersValue ==
  pc = "answered" /\ query.on = "reverse_map" =>
    IF mode.reverse
      THEN \E source :
             Collects(outVector, source, Holding(Declaring, WordOf, query.key), KeyOf)
      ELSE outVector = <<>>

AnswersPattern ==
  pc = "answered" /\ query.on = "wildcard" =>
    \E source : Collects(outVector, source, Holding(Declaring, KeyOf, query.key), WordOf)

Found == Seeks /\ Scans /\ AnswersKey /\ AnswersValue /\ AnswersPattern

LEMMA HoldingKept ==
  ASSUME file' = file, mode' = mode
  PROVE  \A text, wanted :
           Holding(Declaring, text, wanted)' = Holding(Declaring, text, wanted)
BY DeclaredKept DEF Holding

LEMMA FoundFirst == Init => Found
BY DEF Init, Found, Seeks, Scans, AnswersKey, AnswersValue, AnswersPattern

LEMMA FoundUntouched ==
  ASSUME Found, UNCHANGED vars
  PROVE  Found'
<1>1. /\ file' = file /\ mode' = mode /\ UNCHANGED <<pc, at, loader, search>>
      /\ UNCHANGED <<maps, reverse_map, query, low, high, outVector>>
  BY DEF vars, loader, search
<1>2. Searched' = Searched /\ (Sure' <=> Sure)
  BY <1>1, DeclaredKept DEF Searched, Sure
<1>3. Seeks'
  BY <1>1, <1>2 DEF Found, Seeks
<1>4. Scans'
  BY <1>1, DeclaredKept, BuiltKept DEF Found, Scans
<1>5. AnswersKey' /\ AnswersValue' /\ AnswersPattern'
  BY <1>1, DeclaredKept, HoldingKept
     DEF Found, AnswersKey, AnswersValue, AnswersPattern
<1> QED
  BY <1>3, <1>4, <1>5 DEF Found

LEMMA FoundByLoading ==
  ASSUME pc' \notin {"searching", "scanning", "answered"}
  PROVE  Found'
BY DEF Found, Seeks, Scans, AnswersKey, AnswersValue, AnswersPattern

LEMMA FoundByAsking ==
  ASSUME Typed, Loaded,
         \/ \E key \in Texts : getWordsVector(key) \/ getReverseWordsVector(key)
         \/ \E pattern \in Patterns : getWordsVectorWithWildcard(pattern)
  PROVE  Found'
<1>1. ASSUME NEW key \in Texts, getWordsVector(key)  PROVE Found'
  <2>1. /\ pc' = "searching" /\ query' = [on |-> "maps", key |-> {key}]
        /\ low' = 0 /\ high' = Len(maps) - 1 /\ maps' = maps
    BY <1>1 DEF getWordsVector, StartSearch, loader
  <2>2. query'.on = "maps" /\ query'.key = {key}
    BY <2>1
  <2>3. Searched' = maps
    BY <2>1, <2>2 DEF Searched
  <2>4. Len(maps) \in Nat
    BY DEF Typed, TypeOK
  <2>5. \A e \in 1 .. Len(maps) : low' < e /\ e <= high' + 1
    BY <2>1, <2>4
  <2>6. Seeks'
    BY <2>1, <2>2, <2>3, <2>5 DEF Seeks
  <2> QED
    BY <2>1, <2>6 DEF Found, Scans, AnswersKey, AnswersValue, AnswersPattern
<1>2. ASSUME NEW key \in Texts, getReverseWordsVector(key)  PROVE Found'
  <2>1. /\ query' = [on |-> "reverse_map", key |-> {key}] /\ mode' = mode
        /\ low' = 0 /\ high' = Len(reverse_map) - 1 /\ reverse_map' = reverse_map
        /\ outVector' = <<>> /\ pc' = IF mode.reverse THEN "searching" ELSE "answered"
    BY <1>2 DEF getReverseWordsVector, StartSearch, loader
  <2>2. query'.on = "reverse_map" /\ query'.key = {key}
    BY <2>1
  <2>3. Searched' = reverse_map
    BY <2>1, <2>2 DEF Searched
  <2>4. Len(reverse_map) \in Nat
    BY DEF Typed, TypeOK
  <2>5. \A e \in 1 .. Len(reverse_map) : low' < e /\ e <= high' + 1
    BY <2>1, <2>4
  <2>6. Seeks'
    BY <2>1, <2>2, <2>3, <2>5 DEF Seeks
  <2>7. AnswersValue' /\ AnswersKey' /\ AnswersPattern' /\ Scans'
    BY <2>1, <2>2 DEF AnswersValue, AnswersKey, AnswersPattern, Scans
  <2> QED
    BY <2>6, <2>7 DEF Found
<1>3. ASSUME NEW pattern \in Patterns, getWordsVectorWithWildcard(pattern)
      PROVE  Found'
  <2>1. /\ pc' = "scanning" /\ query' = [on |-> "wildcard", key |-> pattern]
        /\ at' = 0 /\ outVector' = <<>> /\ maps' = maps
        /\ file' = file /\ mode' = mode /\ Running
    BY <1>3 DEF getWordsVectorWithWildcard, StartSearch, Idle, Running, loader
  <2>2. query'.on = "wildcard" /\ query'.key = pattern
    BY <2>1
  <2>3. PICK n \in Nat : \E place, from :
          /\ place \in Bijection(1 .. n, Declaring) /\ Keyed(from, place, n)
    BY <2>1 DEF Loaded, MapsBuilt, Running
  <2>4. PICK place, from :
          /\ place \in Bijection(1 .. n, Declaring) /\ Keyed(from, place, n)
    BY <2>3
  <2>5. from[0] = 0
    BY <2>4 DEF Keyed, GroupedBy
  <2>6. PICK source :
          Collects(<<>>, source, Scanned(place, 0, Declaring, KeyOf, pattern), WordOf)
    BY NothingScanned
  <2>7. /\ Keyed(from, place, n)' /\ (place \in Bijection(1 .. n, Declaring))'
        /\ Collects(outVector, source,
             Scanned(place, from[at], Declaring, KeyOf, query.key), WordOf)'
    BY <2>1, <2>2, <2>4, <2>5, <2>6, DeclaredKept, BuiltKept
  <2>8. (at <= Len(maps))'
    BY <2>1 DEF Typed, TypeOK
  <2>9. Scans'
    BY <2>2, <2>7, <2>8 DEF Scans
  <2> QED
    BY <2>1, <2>9 DEF Found, Seeks, AnswersKey, AnswersValue, AnswersPattern
<1> QED
  BY <1>1, <1>2, <1>3

LEMMA FoundByScan ==
  ASSUME Typed, Found, ScanMaps
  PROVE  Found'
<1>1. /\ file' = file /\ mode' = mode /\ pc = "scanning"
      /\ query' = query /\ maps' = maps
  BY DEF ScanMaps, loader
<1>2. /\ query.on = "wildcard" /\ at <= Len(maps) /\ at \in Nat
      /\ maps \in Seq(Entries) /\ Len(maps) \in Nat /\ outVector \in Seq(Texts)
  BY <1>1 DEF Found, Scans, Typed, TypeOK
<1>3. PICK n \in Nat : \E place, from, source :
        /\ place \in Bijection(1 .. n, Declaring)
        /\ Keyed(from, place, n)
        /\ Collects(outVector, source,
                    Scanned(place, from[at], Declaring, KeyOf, query.key), WordOf)
  BY <1>1 DEF Found, Scans
<1>4. PICK place, from, source :
        /\ place \in Bijection(1 .. n, Declaring)
        /\ Keyed(from, place, n)
        /\ Collects(outVector, source,
                    Scanned(place, from[at], Declaring, KeyOf, query.key), WordOf)
  BY <1>3
<1>5. PICK S, K, W, wanted :
        S = Declaring /\ K = KeyOf /\ W = WordOf /\ wanted = query.key
  OBVIOUS
<1>6. /\ place \in Bijection(1 .. n, S)
      /\ GroupedBy(maps, from, place, n, K, W)
      /\ Collects(outVector, source, Scanned(place, from[at], S, K, wanted), W)
  BY <1>4, <1>5 DEF Keyed
<1>7. (place \in Bijection(1 .. n, Declaring))' /\ Keyed(from, place, n)'
  BY <1>1, <1>4, DeclaredKept, BuiltKept
<1>8. CASE at < Len(maps)
  <2>1. /\ outVector' = IF maps[at + 1].first \in query.key
                          THEN outVector \o maps[at + 1].second ELSE outVector
        /\ at' = at + 1 /\ pc' = "scanning"
    BY <1>1, <1>8 DEF ScanMaps
  <2>2. PICK e \in 1 .. Len(maps) : e = at + 1
    BY <1>2, <1>8
  <2>3. e - 1 = at
    BY <1>2, <2>2
  <2>4. Collects(outVector, source, Scanned(place, from[e - 1], S, K, wanted), W)
    BY <1>6, <2>3
  <2>5. \E longer : Collects(outVector', longer, Scanned(place, from[e], S, K, wanted), W)
    <3>1. CASE maps[e].first \in wanted
      <4>1. outVector' = outVector \o maps[e].second
        BY <1>5, <2>1, <2>2, <3>1
      <4>2. \E longer : Collects(outVector \o maps[e].second, longer,
                                 Scanned(place, from[e], S, K, wanted), W)
        BY <1>2, <1>6, <2>4, <3>1, ScanTakes
      <4> QED
        BY <4>1, <4>2
    <3>2. CASE maps[e].first \notin wanted
      <4>1. outVector' = outVector
        BY <1>5, <2>1, <2>2, <3>2
      <4>2. Collects(outVector, source, Scanned(place, from[e], S, K, wanted), W)
        BY <1>2, <1>6, <2>4, <3>2, ScanSkips
      <4> QED
        BY <4>1, <4>2
    <3> QED
      BY <3>1, <3>2
  <2>6. PICK longer : Collects(outVector', longer, Scanned(place, from[e], S, K, wanted), W)
    BY <2>5
  <2>7. Collects(outVector, longer,
                 Scanned(place, from[at], Declaring, KeyOf, query.key), WordOf)'
    BY <1>1, <1>5, <2>1, <2>2, <2>6, DeclaredKept
  <2>8. (query.on = "wildcard" /\ at <= Len(maps))'
    BY <1>1, <1>2, <1>8, <2>1
  <2>9. Scans'
    BY <1>7, <2>7, <2>8 DEF Scans
  <2> QED
    BY <2>1, <2>9 DEF Found, Seeks, AnswersKey, AnswersValue, AnswersPattern
<1>9. CASE ~(at < Len(maps))
  <2>1. outVector' = outVector /\ pc' = "answered"
    BY <1>1, <1>9 DEF ScanMaps
  <2>2. at = Len(maps) /\ from[Len(maps)] = n
    BY <1>2, <1>6, <1>9 DEF GroupedBy
  <2>3. Scanned(place, n, S, K, wanted) = Holding(S, K, wanted)
    BY <1>6, AllScanned DEF Holding
  <2>4. Collects(outVector, source, Holding(S, K, wanted), W)
    BY <1>6, <2>2, <2>3
  <2>5. Collects(outVector, source, Holding(Declaring, KeyOf, query.key), WordOf)'
    BY <1>1, <1>5, <2>1, <2>4, DeclaredKept
  <2>6. AnswersPattern'
    BY <2>5 DEF AnswersPattern
  <2> QED
    BY <1>1, <1>2, <2>1, <2>6 DEF Found, Seeks, Scans, AnswersKey, AnswersValue
<1> QED
  BY <1>8, <1>9

(* The binary search ends with the entry of the key, or without one.        *)
LEMMA FoundBySearch ==
  ASSUME Typed, Loaded, Found, searchCinMap
  PROVE  Found'
<1>1. /\ file' = file /\ mode' = mode /\ pc = "searching" /\ query' = query
      /\ Running /\ UNCHANGED <<maps, reverse_map>>
  BY DEF searchCinMap, Answer, Narrow, Running, loader
<1>2. /\ query.on \in {"maps", "reverse_map"}
      /\ query.on = "reverse_map" => mode.reverse
  BY <1>1 DEF Found, Seeks
<1>3. PICK key \in Texts :
        /\ query.key = {key}
        /\ Sure => \A e \in 1 .. Len(Searched) :
                     Searched[e].first = key => low < e /\ e <= high + 1
  BY <1>1 DEF Found, Seeks
<1>4. /\ low \in Int /\ high \in Int /\ 0 <= low /\ high < Len(Searched)
      /\ Searched \in Seq(Entries) /\ Len(Searched) \in Nat
  BY <1>1 DEF Typed, TypeOK, Indices, Searched
<1>5. (CHOOSE k \in query.key : TRUE) = key
  BY <1>3
<1>6. \/ low > high /\ Answer(<<>>)
      \/ /\ low <= high /\ Searched[mid + 1].first = key
         /\ Answer(Searched[mid + 1].second)
      \/ low <= high /\ key < Searched[mid + 1].first /\ Narrow(low, mid - 1)
      \/ /\ low <= high /\ Searched[mid + 1].first # key
         /\ ~(key < Searched[mid + 1].first) /\ Narrow(mid + 1, high)
  <2>1. IF low > high THEN Answer(<<>>)
        ELSE IF Searched[mid + 1].first = key THEN Answer(Searched[mid + 1].second)
        ELSE IF key < Searched[mid + 1].first THEN Narrow(low, mid - 1)
        ELSE Narrow(mid + 1, high)
    BY <1>5, Zenon DEF searchCinMap
  <2>2. low > high \/ low <= high
    BY <1>4
  <2> QED
    BY <2>1, <2>2, Zenon
<1>7. low <= high => mid \in Int /\ mid + 1 \in 1 .. Len(Searched)
  BY <1>4 DEF mid
<1>8. Sure => Ordered(Searched)
  <2>1. CASE query.on = "maps"
    BY <1>1, <2>1, MapsAnswer DEF Sure, Searched
  <2>2. CASE query.on = "reverse_map"
    BY <1>1, <1>2, <2>2, ReverseAnswers DEF Searched
  <2> QED
    BY <1>2, <2>1, <2>2
<1>9. key \in Nat /\ \A e \in 1 .. Len(Searched) : Searched[e].first \in Nat
  BY <1>4, SecondsTyped, TextAssumption
<1>10. Searched' = Searched /\ (Sure' <=> Sure)
  BY <1>1, DeclaredKept DEF Searched, Sure
<1>11. CASE low > high /\ Answer(<<>>)
  <2>1. pc' = "answered" /\ outVector' = <<>>
    BY <1>11 DEF Answer
  <2>2. Sure => \A e \in 1 .. Len(Searched) : Searched[e].first # key
    BY <1>3, <1>4, <1>11
  <2>3. AnswersKey'
    <3> SUFFICES ASSUME query.on = "maps"  PROVE AnswersKey'
      BY <1>1 DEF AnswersKey
    <3>1. Len(<<>>) = 0 /\ 1 .. 0 = {}
      OBVIOUS
    <3>2. ASSUME InKeyOrder  PROVE Holding(Declaring, KeyOf, query.key) = {}
      <4>1. Covering(maps, Declaring, KeyOf)
        BY <1>1, MapsAnswer
      <4>2. \A l \in Declaring : KeyOf[l] # key
        BY <2>2, <3>2, <4>1 DEF Covering, Sure, Searched
      <4> QED
        BY <1>3, <4>2 DEF Holding
    <3>3. PICK source : /\ Collects(<<>>, source, {}, WordOf)
                        /\ Increasing(source, Len(<<>>))
      BY CollectsNothing
    <3>4. InKeyOrder =>
            /\ Collects(outVector', source, Holding(Declaring, KeyOf, query.key), WordOf)
            /\ Increasing(source, Len(outVector'))
      BY <2>1, <3>2, <3>3
    <3>5. (InKeyOrder =>
             /\ Collects(outVector, source, Holding(Declaring, KeyOf, query.key), WordOf)
             /\ Increasing(source, Len(outVector)))'
      BY <1>1, <3>4, DeclaredKept
    <3>6. (\A r \in 1 .. Len(outVector) : \E l \in Declaring :
            KeyOf[l] \in query.key /\ WordOf[l] = outVector[r])'
      BY <2>1, <3>1
    <3> QED
      BY <3>5, <3>6 DEF AnswersKey
  <2>4. AnswersValue'
    <3> SUFFICES ASSUME query.on = "reverse_map"  PROVE AnswersValue'
      BY <1>1 DEF AnswersValue
    <3>1. Covering(reverse_map, Declaring, WordOf) /\ mode.reverse
      BY <1>1, <1>2, ReverseAnswers
    <3>2. \A l \in Declaring : WordOf[l] # key
      BY <2>2, <3>1 DEF Covering, Sure, Searched
    <3>3. Holding(Declaring, WordOf, query.key) = {}
      BY <1>3, <3>2 DEF Holding
    <3>4. PICK source : Collects(<<>>, source, {}, KeyOf)
      BY CollectsNothing
    <3>5. Collects(outVector, source, Holding(Declaring, WordOf, query.key), KeyOf)'
      BY <1>1, <2>1, <3>3, <3>4, DeclaredKept
    <3>6. mode'.reverse
      BY <1>1, <3>1
    <3> QED
      BY <3>5, <3>6 DEF AnswersValue
  <2> QED
    BY <1>1, <1>2, <2>1, <2>3, <2>4 DEF Found, Seeks, Scans, AnswersPattern
<1>12. CASE /\ low <= high /\ Searched[mid + 1].first = key
            /\ Answer(Searched[mid + 1].second)
  <2>1. PICK e \in 1 .. Len(Searched) : e = mid + 1
    BY <1>7, <1>12
  <2>2. /\ pc' = "answered" /\ outVector' = Searched[e].second
        /\ Searched[e].first = key
    BY <1>12, <2>1 DEF Answer
  <2>3. AnswersKey'
    <3> SUFFICES ASSUME query.on = "maps"  PROVE AnswersKey'
      BY <1>1 DEF AnswersKey
    <3>1. Searched = maps
      BY DEF Searched
    <3>2. /\ Honest(maps, Declaring, KeyOf, WordOf)
          /\ InKeyOrder => Answering(maps, Declaring, KeyOf, WordOf, ~mode.reverse)
      BY <1>1, MapsAnswer
    <3>3. \A r \in 1 .. Len(outVector') : \E l \in Declaring :
            KeyOf[l] \in query.key /\ WordOf[l] = outVector'[r]
      BY <1>3, <2>2, <3>1, <3>2 DEF Honest
    <3>4. (\A r \in 1 .. Len(outVector) : \E l \in Declaring :
            KeyOf[l] \in query.key /\ WordOf[l] = outVector[r])'
      BY <1>1, <3>3, DeclaredKept
    <3>5. InKeyOrder =>
            \E source :
              /\ Collects(outVector', source, Holding(Declaring, KeyOf, query.key), WordOf)
              /\ ~mode.reverse => Increasing(source, Len(outVector'))
      BY <1>3, <2>2, <3>1, <3>2 DEF Answering, EntryAnswers
    <3>6. (InKeyOrder =>
            \E source :
              /\ Collects(outVector, source, Holding(Declaring, KeyOf, query.key), WordOf)
              /\ ~mode.reverse => Increasing(source, Len(outVector)))'
      BY <1>1, <3>5, DeclaredKept
    <3> QED
      BY <3>4, <3>6 DEF AnswersKey
  <2>4. AnswersValue'
    <3> SUFFICES ASSUME query.on = "reverse_map"  PROVE AnswersValue'
      BY <1>1 DEF AnswersValue
    <3>1. Searched = reverse_map /\ mode.reverse
      BY <1>2 DEF Searched
    <3>2. Answering(reverse_map, Declaring, WordOf, KeyOf, FALSE)
      BY <1>1, <3>1, ReverseAnswers
    <3>3. \E source :
            Collects(outVector', source, Holding(Declaring, WordOf, query.key), KeyOf)
      BY <1>3, <2>2, <3>1, <3>2 DEF Answering, EntryAnswers
    <3>4. \E source :
            Collects(outVector, source, Holding(Declaring, WordOf, query.key), KeyOf)'
      BY <1>1, <3>3, DeclaredKept
    <3>5. mode'.reverse
      BY <1>1, <3>1
    <3> QED
      BY <3>4, <3>5 DEF AnswersValue
  <2> QED
    BY <1>1, <1>2, <2>2, <2>3, <2>4 DEF Found, Seeks, Scans, AnswersPattern
<1>13. CASE low <= high /\ key < Searched[mid + 1].first /\ Narrow(low, mid - 1)
  <2>1. pc' = "searching" /\ low' = low /\ high' = mid - 1
    BY <1>1, <1>13 DEF Narrow
  <2>2. ASSUME Sure, NEW e \in 1 .. Len(Searched), Searched[e].first = key
        PROVE  low' < e /\ e <= high' + 1
    <3>1. ~(mid + 1 < e) /\ e # mid + 1
      BY <1>7, <1>8, <1>9, <1>13, <2>2 DEF Ordered
    <3> QED
      BY <1>3, <1>7, <1>13, <2>1, <2>2, <3>1
  <2>3. Seeks'
    BY <1>1, <1>2, <1>3, <1>10, <2>2 DEF Seeks
  <2> QED
    BY <2>1, <2>3 DEF Found, Scans, AnswersKey, AnswersValue, AnswersPattern
<1>14. CASE /\ low <= high /\ Searched[mid + 1].first # key
            /\ ~(key < Searched[mid + 1].first) /\ Narrow(mid + 1, high)
  <2>1. pc' = "searching" /\ low' = mid + 1 /\ high' = high
    BY <1>1, <1>14 DEF Narrow
  <2>2. ASSUME Sure, NEW e \in 1 .. Len(Searched), Searched[e].first = key
        PROVE  low' < e /\ e <= high' + 1
    <3>1. Searched[mid + 1].first < key
      BY <1>7, <1>9, <1>14
    <3>2. ~(e < mid + 1) /\ e # mid + 1
      BY <1>7, <1>8, <1>9, <1>14, <2>2, <3>1 DEF Ordered
    <3> QED
      BY <1>3, <1>7, <1>14, <2>1, <2>2, <3>2
  <2>3. Seeks'
    BY <1>1, <1>2, <1>3, <1>10, <2>2 DEF Seeks
  <2> QED
    BY <2>1, <2>3 DEF Found, Scans, AnswersKey, AnswersValue, AnswersPattern
<1> QED
  BY <1>6, <1>11, <1>12, <1>13, <1>14

LEMMA FoundStays == Typed /\ Loaded /\ Found /\ [Next]_vars => Found'
<1> SUFFICES ASSUME Typed, Loaded, Found, [Next]_vars  PROVE Found'
  OBVIOUS
<1>1. CASE UNCHANGED vars
  BY <1>1, FoundUntouched
<1>2. CASE ReadLine \/ EndOfFile \/ ReadMissing \/ SkipComment \/ ParseLine
           \/ ParseEnds \/ SortByValue \/ setReverseMap \/ SortByKey \/ setMap
  <2>1. pc' \notin {"searching", "scanning", "answered"}
    BY <1>2 DEF ReadLine, EndOfFile, ReadMissing, SkipComment, ParseLine, InParse,
                ParseEnds, SortByValue, setReverseMap, SortByKey, setMap
  <2> QED
    BY <2>1, FoundByLoading
<1> QED
  BY <1>1, <1>2, FoundByAsking, FoundByScan, FoundBySearch DEF Next, Work, Ask
-----------------------------------------------------------------------------
(***************************************************************************)
(* What the searches answer with.                                          *)
(***************************************************************************)
LEMMA AnswersHold == Spec => [](Typed /\ Loaded /\ Found)
BY TypedFirst, TypedStays, LoadedFirst, LoadedStays, FoundFirst, FoundStays,
   PTL DEF Spec

(* A word is answered as often as lines hold it.                            *)
LEMMA ListsWhatIsCollected ==
  ASSUME Typed, NEW source, NEW text, NEW word, NEW wanted,
         Collects(outVector, source, Holding(Declaring, text, wanted), word),
         NEW w
  PROVE  Times(outVector, w)
           = Cardinality({n \in Declaring : text[n] \in wanted /\ word[n] = w})
<1>1. outVector \in Seq(Texts)
  BY DEF Typed, TypeOK
<1>2. PICK S : S = Holding(Declaring, text, wanted)
  OBVIOUS
<1>3. Times(outVector, w) = Cardinality({n \in S : word[n] = w})
  BY <1>1, <1>2, CollectedOften
<1>4. {n \in S : word[n] = w} = {n \in Declaring : text[n] \in wanted /\ word[n] = w}
  BY <1>2 DEF Holding
<1> QED
  BY <1>3, <1>4

(* A search for a key answers with words of that key only, even in a map    *)
(* whose order the binary search cannot rely on: FoundWasDeclared.          *)
THEOREM AnswersAreDeclared == Spec => []FoundWasDeclared
<1>1. Typed /\ Loaded /\ Found => FoundWasDeclared
  <2> SUFFICES ASSUME Typed, Found, Answered("maps"), NEW r \in DOMAIN outVector
               PROVE  \E n \in Declaring :
                        KeyAt(n) \in query.key /\ ValueAt(n) = outVector[r]
    BY DEF FoundWasDeclared
  <2>1. DOMAIN outVector = 1 .. Len(outVector)
    BY DEF Typed, TypeOK
  <2>2. \E l \in Declaring : KeyOf[l] \in query.key /\ WordOf[l] = outVector[r]
    BY <2>1 DEF Found, AnswersKey, Answered
  <2> QED
    BY <2>2, DeclaringTyped
<1> QED
  BY <1>1, AnswersHold, PTL

(* A search for a value in a table built with its reverse map, and a search *)
(* for a pattern in any table, find exactly what the file declares: each    *)
(* key or word as often as lines hold it, however the file is ordered.      *)
THEOREM FindsWithoutOrder == Spec => []FindsUnordered
<1>1. Typed /\ Loaded /\ Found => FindsReverse
  <2> SUFFICES ASSUME Typed, Found, Answered("reverse_map")
               PROVE  IF mode.reverse
                        THEN Lists(outVector, LAMBDA n, w :
                               ValueAt(n) \in query.key /\ KeyAt(n) = w)
                        ELSE outVector = <<>>
    BY DEF FindsReverse
  <2>1. CASE ~mode.reverse
    BY <2>1 DEF Found, AnswersValue, Answered
  <2>2. CASE mode.reverse
    <3>1. PICK source :
            Collects(outVector, source, Holding(Declaring, WordOf, query.key), KeyOf)
      BY <2>2 DEF Found, AnswersValue, Answered
    <3>2. ASSUME NEW w \in Texts
          PROVE  Times(outVector, w)
            = Cardinality({n \in Declaring : ValueAt(n) \in query.key /\ KeyAt(n) = w})
      <4>1. Times(outVector, w)
              = Cardinality({n \in Declaring : WordOf[n] \in query.key /\ KeyOf[n] = w})
        BY <3>1, ListsWhatIsCollected
      <4>2. {n \in Declaring : WordOf[n] \in query.key /\ KeyOf[n] = w}
              = {n \in Declaring : ValueAt(n) \in query.key /\ KeyAt(n) = w}
        BY DeclaringTyped
      <4> QED
        BY <4>1, <4>2
    <3> QED
      BY <2>2, <3>2 DEF Lists
  <2> QED
    BY <2>1, <2>2
<1>2. Typed /\ Loaded /\ Found => WildcardFindsAll
  <2> SUFFICES ASSUME Typed, Found, Answered("wildcard"), NEW w \in Texts
               PROVE  Times(outVector, w)
                 = Cardinality({n \in Declaring : KeyAt(n) \in query.key /\ ValueAt(n) = w})
    BY DEF WildcardFindsAll, Lists
  <2>1. PICK source :
          Collects(outVector, source, Holding(Declaring, KeyOf, query.key), WordOf)
    BY DEF Found, AnswersPattern, Answered
  <2>2. Times(outVector, w)
          = Cardinality({n \in Declaring : KeyOf[n] \in query.key /\ WordOf[n] = w})
    BY <2>1, ListsWhatIsCollected
  <2>3. {n \in Declaring : KeyOf[n] \in query.key /\ WordOf[n] = w}
          = {n \in Declaring : KeyAt(n) \in query.key /\ ValueAt(n) = w}
    BY DeclaringTyped
  <2> QED
    BY <2>2, <2>3
<1> QED
  BY <1>1, <1>2, AnswersHold, PTL DEF FindsUnordered

(* In a map that is in the order of its keys the binary search misses       *)
(* nothing: it answers with every word the file declares for the key, once  *)
(* each, and in the order of the file unless the reverse map was sorted     *)
(* first.                                                                   *)
THEOREM FindsInOrder == Spec => []FindsDeclared
<1>1. Typed /\ Loaded /\ Found => FindsDeclared
  <2> SUFFICES ASSUME Typed, Found, Answered("maps"), InKeyOrder
               PROVE
         /\ Lists(outVector, LAMBDA n, w : KeyAt(n) \in query.key /\ ValueAt(n) = w)
         /\ mode.reverse \/
              \E place \in [DOMAIN outVector -> Declaring] :
                /\ \A r \in DOMAIN outVector :
                     KeyAt(place[r]) \in query.key /\ ValueAt(place[r]) = outVector[r]
                /\ \A q, r \in DOMAIN outVector : q < r => place[q] < place[r]
    BY DEF FindsDeclared
  <2>1. PICK source :
          /\ Collects(outVector, source, Holding(Declaring, KeyOf, query.key), WordOf)
          /\ ~mode.reverse => Increasing(source, Len(outVector))
    BY DEF Found, AnswersKey, Answered
  <2>2. Lists(outVector, LAMBDA n, w : KeyAt(n) \in query.key /\ ValueAt(n) = w)
    <3>1. ASSUME NEW w \in Texts
          PROVE  Times(outVector, w)
            = Cardinality({n \in Declaring : KeyAt(n) \in query.key /\ ValueAt(n) = w})
      <4>1. Times(outVector, w)
              = Cardinality({n \in Declaring : KeyOf[n] \in query.key /\ WordOf[n] = w})
        BY <2>1, ListsWhatIsCollected
      <4>2. {n \in Declaring : KeyOf[n] \in query.key /\ WordOf[n] = w}
              = {n \in Declaring : KeyAt(n) \in query.key /\ ValueAt(n) = w}
        BY DeclaringTyped
      <4> QED
        BY <4>1, <4>2
    <3> QED
      BY <3>1 DEF Lists
  <2>3. ASSUME ~mode.reverse
        PROVE  \E place \in [DOMAIN outVector -> Declaring] :
                 /\ \A r \in DOMAIN outVector :
                      KeyAt(place[r]) \in query.key /\ ValueAt(place[r]) = outVector[r]
                 /\ \A q, r \in DOMAIN outVector : q < r => place[q] < place[r]
    <3>1. DOMAIN outVector = 1 .. Len(outVector)
      BY DEF Typed, TypeOK
    <3>2. PICK n, S : n = Len(outVector) /\ S = Holding(Declaring, KeyOf, query.key)
      OBVIOUS
    <3>3. source \in Bijection(1 .. n, S) /\ \A x \in 1 .. n : outVector[x] = WordOf[source[x]]
      BY <2>1, <3>2 DEF Collects
    <3>4. source \in [1 .. n -> S]
      BY <3>3, PlaceFacts
    <3>5. \A l \in S : l \in Declaring /\ KeyOf[l] \in query.key
      BY <3>2 DEF Holding
    <3>6. \A l \in S : /\ l \in Declaring /\ KeyAt(l) \in query.key
                       /\ WordOf[l] = ValueAt(l)
      BY <3>5, DeclaringTyped
    <3>7. source \in [DOMAIN outVector -> Declaring]
      BY <3>1, <3>2, <3>4, <3>6
    <3>8. \A r \in DOMAIN outVector :
            KeyAt(source[r]) \in query.key /\ ValueAt(source[r]) = outVector[r]
      BY <3>1, <3>2, <3>3, <3>4, <3>6
    <3>9. \A q, r \in DOMAIN outVector : q < r => source[q] < source[r]
      BY <2>1, <2>3, <3>1 DEF Increasing
    <3> QED
      BY <3>7, <3>8, <3>9
  <2> QED
    BY <2>2, <2>3
<1> QED
  BY <1>1, AnswersHold, PTL
=============================================================================
