----------------------------- MODULE PrintfProofs -----------------------------
(***************************************************************************)
(* What the printf functions promise holds for every format, for every     *)
(* length of what its directives make, and for every buffer (PrintsAsC),   *)
(* and the estimate of tmp_length for every width and precision            *)
(* (HasRoom).                                                              *)
(*                                                                         *)
(* The loops are recursive functions over 0 .. N, each a CHOOSE of a       *)
(* function with its equation: Recursion shows that there is one,          *)
(* Induction what its values are.                                          *)
(***************************************************************************)
EXTENDS Printf, FiniteSetTheorems, WellFoundedInduction, TLAPS

(***************************************************************************)
(* Induction over data, without an operator as a parameter.                *)
(***************************************************************************)
LEMMA Least ==
  ASSUME NEW S \in SUBSET Nat, S # {}
  PROVE  \E n \in S : \A m \in S : n <= m
<1>1. IsWellFoundedOn(OpToRel(<, Nat), Nat)
  BY NatLessThanWellFounded
<1>2. PICK n \in S : \A m \in S : ~ (<<m, n>> \in OpToRel(<, Nat))
  BY <1>1, WFMin
<1>3. \A m \in S : ~ (m < n)
  BY <1>2 DEF OpToRel
<1> QED
  BY <1>3

LEMMA Induction ==
  ASSUME NEW N \in Nat, NEW T, 0 \in T, \A n \in 1 .. N : n - 1 \in T => n \in T
  PROVE  \A n \in 0 .. N : n \in T
<1> DEFINE Missed == {n \in 0 .. N : n \notin T}
<1>1. SUFFICES ASSUME Missed # {}
               PROVE  FALSE
  OBVIOUS
<1>2. Missed \in SUBSET Nat
  OBVIOUS
<1>3. PICK n \in Missed : \A m \in Missed : n <= m
  BY <1>1, <1>2, Least
<1>4. n \in 1 .. N /\ n - 1 \in 0 .. N /\ ~ (n <= n - 1)
  BY <1>3
<1> QED
  BY <1>3, <1>4

Iterates(f, N, S, base, step) ==
  /\ f \in [0 .. N -> S] /\ f[0] = base
  /\ \A n \in 1 .. N : f[n] = step[<<n, f[n - 1]>>]

LEMMA Recursion ==
  ASSUME NEW N \in Nat, NEW S, NEW base \in S, NEW step \in [(1 .. N) \X S -> S]
  PROVE  \E f : Iterates(f, N, S, base, step)
<1> DEFINE IsUpTo(f, m) == f[0] = base /\ \A n \in 1 .. m : f[n] = step[<<n, f[n - 1]>>]
           T == {m \in 0 .. N : \E f \in [0 .. m -> S] : IsUpTo(f, m)}
<1>1. 0 \in T
  <2> DEFINE g == [n \in 0 .. 0 |-> base]
  <2>1. g \in [0 .. 0 -> S] /\ IsUpTo(g, 0)
    OBVIOUS
  <2> HIDE DEF g
  <2> QED
    BY <2>1
<1>2. ASSUME NEW m \in 1 .. N, m - 1 \in T
      PROVE  m \in T
  <2>1. PICK f \in [0 .. m - 1 -> S] : IsUpTo(f, m - 1)
    BY <1>2
  <2> DEFINE g == [n \in 0 .. m |-> IF n = m THEN step[<<m, f[m - 1]>>] ELSE f[n]]
  <2>2. g \in [0 .. m -> S]
    <3>1. f[m - 1] \in S /\ step[<<m, f[m - 1]>>] \in S
      BY <2>1
    <3>2. \A n \in 0 .. m : n # m => f[n] \in S
      BY <2>1
    <3> QED
      BY <3>1, <3>2
  <2>3. g[0] = base
    BY <2>1
  <2>4. ASSUME NEW n \in 1 .. m
        PROVE  g[n] = step[<<n, g[n - 1]>>]
    <3>1. g[n - 1] = f[n - 1]
      OBVIOUS
    <3>2. CASE n = m
      <4>1. g[n] = step[<<m, f[m - 1]>>]
        BY <3>2
      <4> QED
        BY <3>1, <3>2, <4>1, Zenon
    <3>3. CASE n # m
      <4>1. n \in 1 .. m - 1 /\ g[n] = f[n]
        BY <3>3
      <4> QED
        BY <2>1, <3>1, <4>1
    <3> QED
      BY <3>2, <3>3
  <2> HIDE DEF g
  <2> QED
    BY <2>2, <2>3, <2>4
<1> HIDE DEF T
<1>3. N \in T
  BY <1>1, <1>2, Induction
<1> QED
  BY <1>3 DEF T, Iterates

LEMMA IteratesEach ==
  ASSUME NEW N \in Nat, NEW S, NEW base, NEW step, NEW f, Iterates(f, N, S, base, step),
         NEW n \in 1 .. N
  PROVE  f[n - 1] \in S /\ f[n] = step[<<n, f[n - 1]>>]
<1>1. n - 1 \in 0 .. N
  OBVIOUS
<1> QED
  BY <1>1, Zenon DEF Iterates
-----------------------------------------------------------------------------
(***************************************************************************)
(* Sizes.                                                                  *)
(***************************************************************************)
LEMMA SumsAre ==
  ASSUME Limits, NEW a \in Nat, NEW b \in Nat
  PROVE  /\ xsum(a, b) \in Nat /\ xsum(a, b) <= SIZE_MAX
         /\ xsum(a, b) = a + b \/ (xsum(a, b) = SIZE_MAX /\ SIZE_MAX < a + b)
BY DEF Limits, xsum

LEMMA ProductsAre ==
  ASSUME Limits, NEW n \in Nat, NEW s \in {2, 4, 10}
  PROVE  /\ xtimes(n, s) \in Nat
         /\ IF s * n <= SIZE_MAX THEN xtimes(n, s) = s * n ELSE xtimes(n, s) = SIZE_MAX
<1>1. CASE s = 2
  BY <1>1, Z3 DEF Limits, xtimes
<1>2. CASE s = 4
  BY <1>2, Z3 DEF Limits, xtimes
<1>3. CASE s = 10
  BY <1>3, Z3 DEF Limits, xtimes
<1> QED
  BY <1>1, <1>2, <1>3

LEMMA MaxOfNats ==
  ASSUME NEW a \in Int, NEW b \in Int
  PROVE  xmax(a, b) \in {a, b} /\ xmax(a, b) >= a /\ xmax(a, b) >= b
BY DEF xmax
-----------------------------------------------------------------------------
(***************************************************************************)
(* Reading a directive.                                                    *)
(***************************************************************************)
LEMMA SpanIs ==
  ASSUME NEW format \in Seq(STRING), NEW i \in Nat \ {0}, NEW chars
  PROVE  LET j == Span(format, i, chars)
         IN /\ j \in Nat /\ i <= j /\ (i <= Len(format) => j <= Len(format) + 1)
            /\ \A k \in i .. j - 1 : k \in 1 .. Len(format) /\ format[k] \in chars
<1> DEFINE N   == Len(format)
           end == xmax(i, N + 1)
           S   == {j \in i .. N : format[j] \notin chars} \cup {end}
           j   == Span(format, i, chars)
<1>1. N \in Nat
  OBVIOUS
<1>2. end \in Nat /\ i <= end /\ (end = i \/ end = N + 1) /\ (i <= N => end = N + 1)
  BY <1>1 DEF xmax
<1>3. j = Min(S)
  BY Zenon DEF Span
<1> HIDE DEF N, end
<1>4. S \in SUBSET Nat /\ S # {} /\ \A s \in S : i <= s
  BY <1>1, <1>2
<1>5. j \in S /\ \A s \in S : j <= s
  <2> HIDE DEF S, j
  <2>1. PICK n \in S : \A s \in S : n <= s
    BY <1>4, Least
  <2> QED
    BY <1>3, <2>1, Zenon DEF Min
<1>6. j \in Nat /\ i <= j /\ j <= end
  <2>1. end \in S
    OBVIOUS
  <2> HIDE DEF S, j
  <2> QED
    BY <1>2, <1>4, <1>5, <2>1
<1>7. ASSUME NEW k \in i .. j - 1
      PROVE  k \in 1 .. N /\ format[k] \in chars
  <2> HIDE DEF j
  <2>1. k \in Nat /\ i <= k /\ k < j /\ k < end
    BY <1>2, <1>6
  <2>2. i # end
    BY <2>1
  <2>3. k \in 1 .. N /\ k \in i .. N
    BY <1>1, <1>2, <2>1, <2>2
  <2>4. k \notin S
    <3> HIDE DEF S
    <3> QED
      BY <1>5, <1>6, <2>1
  <2> QED
    BY <2>3, <2>4
<1> QED
  <2>1. j \in Nat /\ i <= j /\ (i <= N => j <= N + 1)
    <3> HIDE DEF j
    <3> QED
      BY <1>1, <1>2, <1>6
  <2> QED
    BY <1>7, <2>1, Zenon DEF N

LEMMA SpannedIn ==
  ASSUME NEW format \in Seq(STRING), NEW i \in Nat \ {0}, NEW chars
  PROVE  LET read == SubSeq(format, i, Span(format, i, chars) - 1)
         IN read \in Seq(chars) /\ ToSet(read) \subseteq chars
<1> DEFINE j    == Span(format, i, chars)
           read == SubSeq(format, i, j - 1)
<1>1. /\ j \in Nat /\ i <= j
      /\ \A k \in i .. j - 1 : k \in 1 .. Len(format) /\ format[k] \in chars
  BY SpanIs
<1> HIDE DEF j
<1>2. read = [k \in 1 .. j - i |-> format[i + k - 1]]
  BY <1>1
<1>3. \A k \in 1 .. j - i : i + k - 1 \in i .. j - 1
  BY <1>1
<1>4. j - i \in Nat
  BY <1>1
<1>5. read \in Seq(chars)
  <2> DEFINE n == j - i
  <2>1. n \in Nat /\ \A k \in 1 .. n : format[i + k - 1] \in chars
    BY <1>1, <1>3, <1>4, Zenon
  <2>2. read = [k \in 1 .. n |-> format[i + k - 1]]
    BY <1>2
  <2> HIDE DEF n, read
  <2>3. read \in [1 .. n -> chars]
    BY <2>1, <2>2, Zenon
  <2> QED
    BY <2>1, <2>3
<1>6. ToSet(read) \subseteq chars
  <2> HIDE DEF read
  <2> QED
    BY <1>5 DEF ToSet
<1> QED
  BY <1>5, <1>6, Zenon DEF j

LEMMA ValueIsNat ==
  ASSUME NEW c \in Digits
  PROVE  Value(c) \in Nat
<1>1. \E d \in 1 .. 10 : DigitSeq[d] = c
  BY DEF Digits, DigitSeq, ToSet
<1> DEFINE place == CHOOSE d \in 1 .. 10 : DigitSeq[d] = c
<1>2. place \in 1 .. 10
  BY <1>1, Zenon
<1>3. Value(c) = place - 1
  BY Zenon DEF Value
<1> HIDE DEF place
<1> QED
  BY <1>2, <1>3

LEMMA NumberIsNat ==
  ASSUME Limits, NEW digits \in Seq(Digits)
  PROVE  Number(digits) \in Nat
<1> DEFINE N      == Len(digits)
           Next(n, k) == xsum(xtimes(n, 10), Value(digits[k]))
           number == CHOOSE f : f = [k \in 0 .. N |-> IF k = 0 THEN 0 ELSE Next(f[k - 1], k)]
           step   == [p \in (1 .. N) \X Nat |-> Next(p[2], p[1])]
<1>1. N \in Nat
  OBVIOUS
<1>2. ASSUME NEW n \in Nat, NEW k \in 1 .. N
      PROVE  Next(n, k) \in Nat
  <2>1. digits[k] \in Digits
    OBVIOUS
  <2>2. Value(digits[k]) \in Nat
    BY <2>1, ValueIsNat
  <2>3. xtimes(n, 10) \in Nat
    BY ProductsAre
  <2> QED
    BY <2>2, <2>3, SumsAre
<1>3. Number(digits) = number[N]
  BY Zenon DEF Number
<1> HIDE DEF N, Next
<1>4. PICK f : Iterates(f, N, Nat, 0, step)
  <2>1. step \in [(1 .. N) \X Nat -> Nat] /\ 0 \in Nat
    BY <1>2
  <2> HIDE DEF step
  <2> QED
    BY <1>1, <2>1, Recursion
<1>5. ASSUME NEW n \in 1 .. N
      PROVE  f[n] = Next(f[n - 1], n)
  <2>1. f[n - 1] \in Nat /\ f[n] = step[<<n, f[n - 1]>>]
    <3> HIDE DEF step
    <3> QED
      BY <1>1, <1>4, IteratesEach
  <2> QED
    BY <2>1
<1>6. f = [k \in 0 .. N |-> IF k = 0 THEN 0 ELSE Next(f[k - 1], k)]
  <2> HIDE DEF step
  <2> QED
    BY <1>1, <1>4, <1>5 DEF Iterates
<1>7. number = [k \in 0 .. N |-> IF k = 0 THEN 0 ELSE Next(number[k - 1], k)]
  BY <1>6, Zenon
<1> HIDE DEF number
<1> DEFINE T == {n \in 0 .. N : number[n] \in Nat}
<1>8. 0 \in T
  BY <1>1, <1>7
<1>9. ASSUME NEW n \in 1 .. N, n - 1 \in T
      PROVE  n \in T
  <2>1. n \in 0 .. N /\ n # 0
    BY <1>1
  <2>2. number[n] = Next(number[n - 1], n)
    BY <1>7, <2>1, Zenon
  <2> QED
    BY <1>2, <1>9, <2>1, <2>2
<1> HIDE DEF T
<1>10. \A n \in 0 .. N : n \in T
  BY <1>1, <1>8, <1>9, Induction, Zenon
<1>11. N \in 0 .. N
  BY <1>1
<1> QED
  BY <1>3, <1>10, <1>11, Zenon DEF T

(* The number of an argument: none, a bad one, or one from 0.               *)
Indices == Nat \cup {ARG_NONE, Bad}

LEMMA PositionalIs ==
  ASSUME Limits, NEW format \in Seq(STRING), NEW i \in Nat \ {0}
  PROVE  LET p == Positional(format, i)
         IN p.index \in Indices /\ p.next \in Nat /\ i <= p.next
<1> DEFINE j == Span(format, i, Digits)
           n == Number(SubSeq(format, i, j - 1))
<1>1. j \in Nat /\ i <= j
  BY SpanIs
<1>2. n \in Nat
  BY SpannedIn, NumberIsNat
<1>3. Positional(format, i) =
        IF j > i /\ At(format, j) = "$"
          THEN [index |-> IF n = 0 \/ size_overflow_p(n) THEN Bad ELSE n - 1, next |-> j + 1]
          ELSE [index |-> ARG_NONE, next |-> i]
  BY Zenon DEF Positional
<1> HIDE DEF j, n
<1> QED
  BY <1>1, <1>2, <1>3 DEF Indices

LEMMA FieldIs ==
  ASSUME Limits, NEW format \in Seq(STRING), NEW i \in Nat \ {0}, NEW arg_posn \in Nat
  PROVE  LET f == Field(format, i, arg_posn)
         IN /\ f.index \in Indices /\ f.posn \in Nat /\ f.length \in Nat
            /\ f.next \in Nat /\ i <= f.next /\ f.number \in Nat
<1> DEFINE p == Positional(format, i + 1)
           j == Span(format, i, Digits)
           n == Number(SubSeq(format, i, j - 1))
<1>1. j \in Nat /\ i <= j
  BY SpanIs
<1>2. p.index \in Indices /\ p.next \in Nat /\ i + 1 <= p.next
  <2>1. i + 1 \in Nat \ {0}
    OBVIOUS
  <2> QED
    BY <2>1, PositionalIs
<1>3. Field(format, i, arg_posn) =
        IF At(format, i) # "*"
          THEN [index |-> ARG_NONE, posn |-> arg_posn, length |-> j - i, next |-> j, number |-> n]
        ELSE IF p.index = ARG_NONE
          THEN [index |-> arg_posn, posn |-> arg_posn + 1, length |-> 1, next |-> p.next,
                number |-> 0]
          ELSE [index |-> p.index, posn |-> arg_posn, length |-> 1, next |-> p.next,
                number |-> 0]
  BY Zenon DEF Field
<1>4. n \in Nat
  BY SpannedIn, NumberIsNat
<1> HIDE DEF p, j, n
<1> QED
  BY <1>1, <1>2, <1>3, <1>4 DEF Indices

Parts ==
  {"dir_start", "dir_end", "flags", "conversion", "width_length", "width_arg_index", "width",
   "precision_length", "precision_arg_index", "precision", "arg_index", "arg_posn", "sizes",
   "type", "bad"}

(* A directive from start on, as far as it has been read.                   *)
Reading(dp, start) ==
  /\ DOMAIN dp = Parts
  /\ dp.dir_start = start /\ dp.dir_end \in Nat /\ start < dp.dir_end
  /\ dp.flags \in SUBSET FlagChars /\ dp.arg_posn \in Nat
  /\ dp.width_length \in Nat /\ dp.precision_length \in Nat
  /\ dp.width \in Nat /\ dp.precision \in Nat
  /\ dp.width_arg_index \in Indices /\ dp.precision_arg_index \in Indices
  /\ dp.arg_index \in Indices

LEMMA FreshIsRead ==
  ASSUME NEW start \in Nat \ {0}, NEW arg_posn \in Nat
  PROVE  Reading(FreshDirective(start, arg_posn), start)
BY DEF Reading, FreshDirective, Parts, Indices

LEMMA PositionIsRead ==
  ASSUME Limits, NEW format \in Seq(STRING), NEW start \in Nat \ {0}, NEW dp, Reading(dp, start)
  PROVE  Reading(ReadPosition(format, dp), start)
<1> DEFINE p == Positional(format, dp.dir_end)
<1>1. dp.dir_end \in Nat \ {0}
  BY DEF Reading
<1>2. p.index \in Indices /\ p.next \in Nat /\ dp.dir_end <= p.next
  BY <1>1, PositionalIs
<1>3. ReadPosition(format, dp) =
        [dp EXCEPT !.arg_index = p.index, !.bad = p.index = Bad, !.dir_end = p.next]
  BY Zenon DEF ReadPosition
<1> HIDE DEF p
<1> QED
  BY <1>2, <1>3 DEF Reading, Parts

LEMMA FlagsAreRead ==
  ASSUME NEW format \in Seq(STRING), NEW start \in Nat \ {0}, NEW dp, Reading(dp, start)
  PROVE  Reading(ReadFlags(format, dp), start)
<1> DEFINE end   == Span(format, dp.dir_end, FlagChars)
           flags == ToSet(SubSeq(format, dp.dir_end, end - 1))
<1>1. dp.dir_end \in Nat \ {0}
  BY DEF Reading
<1>2. end \in Nat /\ dp.dir_end <= end
  BY <1>1, SpanIs
<1>3. flags \subseteq FlagChars
  BY <1>1, SpannedIn
<1>4. ReadFlags(format, dp) = [dp EXCEPT !.flags = flags, !.dir_end = end]
  BY Zenon DEF ReadFlags
<1> HIDE DEF end, flags
<1> QED
  BY <1>2, <1>3, <1>4 DEF Reading, Parts

LEMMA WidthIsRead ==
  ASSUME Limits, NEW format \in Seq(STRING), NEW start \in Nat \ {0}, NEW dp, Reading(dp, start)
  PROVE  Reading(ReadWidth(format, dp), start)
<1> DEFINE f == Field(format, dp.dir_end, dp.arg_posn)
<1>1. dp.dir_end \in Nat \ {0} /\ dp.arg_posn \in Nat
  BY DEF Reading
<1>2. /\ f.index \in Indices /\ f.posn \in Nat /\ f.length \in Nat
      /\ f.next \in Nat /\ dp.dir_end <= f.next /\ f.number \in Nat
  BY <1>1, FieldIs
<1>3. ReadWidth(format, dp) =
        [dp EXCEPT !.width_length = f.length, !.width_arg_index = f.index,
                   !.width = f.number, !.arg_posn = f.posn, !.dir_end = f.next]
  BY Zenon DEF ReadWidth, WithWidth
<1> HIDE DEF f
<1> QED
  BY <1>2, <1>3 DEF Reading, Parts

LEMMA PrecisionIsRead ==
  ASSUME Limits, NEW format \in Seq(STRING), NEW start \in Nat \ {0}, NEW dp, Reading(dp, start)
  PROVE  Reading(ReadPrecision(format, dp), start)
<1> DEFINE f == Field(format, dp.dir_end + 1, dp.arg_posn)
<1>1. dp.dir_end + 1 \in Nat \ {0} /\ dp.arg_posn \in Nat
  BY DEF Reading
<1>2. /\ f.index \in Indices /\ f.posn \in Nat /\ f.length \in Nat
      /\ f.next \in Nat /\ dp.dir_end + 1 <= f.next /\ f.number \in Nat
  BY <1>1, FieldIs
<1>3. ReadPrecision(format, dp) =
        IF At(format, dp.dir_end) # "." THEN dp
        ELSE [dp EXCEPT !.precision_length = f.length + 1, !.precision_arg_index = f.index,
                        !.precision = f.number, !.arg_posn = f.posn, !.dir_end = f.next]
  BY Zenon DEF ReadPrecision, WithPrecision
<1> HIDE DEF f
<1>4. CASE At(format, dp.dir_end) # "."
  BY <1>3, <1>4, Zenon
<1>5. CASE At(format, dp.dir_end) = "."
  <2>1. ReadPrecision(format, dp) =
          [dp EXCEPT !.precision_length = f.length + 1, !.precision_arg_index = f.index,
                     !.precision = f.number, !.arg_posn = f.posn, !.dir_end = f.next]
    BY <1>3, <1>5, Zenon
  <2>2. start < f.next /\ f.length + 1 \in Nat
    BY <1>2 DEF Reading
  <2> QED
    BY <1>2, <2>1, <2>2 DEF Reading, Parts
<1> QED
  BY <1>4, <1>5, Zenon

LEMMA SizesAreRead ==
  ASSUME NEW format \in Seq(STRING), NEW start \in Nat \ {0}, NEW dp, Reading(dp, start)
  PROVE  Reading(ReadSizes(format, dp), start)
<1> DEFINE end   == Span(format, dp.dir_end, SizeChars)
           sizes == Sizes(SubSeq(format, dp.dir_end, end - 1))
<1>1. dp.dir_end \in Nat \ {0}
  BY DEF Reading
<1>2. end \in Nat /\ dp.dir_end <= end
  BY <1>1, SpanIs
<1>3. ReadSizes(format, dp) = [dp EXCEPT !.sizes = sizes, !.dir_end = end]
  BY Zenon DEF ReadSizes
<1> HIDE DEF end, sizes
<1> QED
  BY <1>2, <1>3 DEF Reading, Parts

LEMMA PercentHasNoType ==
  ASSUME NEW c, NEW sizes
  PROVE  Type(c, sizes) = TYPE_NONE <=> c = "%"
<1> DEFINE int == IntegerType(sizes)
<1>1. /\ <<"signed", int>> # TYPE_NONE /\ <<"unsigned", int>> # TYPE_NONE
      /\ <<"count", int>> # TYPE_NONE
      /\ <<"long double">> # TYPE_NONE /\ <<"double">> # TYPE_NONE
      /\ <<"char">> # TYPE_NONE /\ <<"wide char">> # TYPE_NONE
      /\ <<"string">> # TYPE_NONE /\ <<"wide string">> # TYPE_NONE
      /\ <<"pointer">> # TYPE_NONE /\ <<"unknown">> # TYPE_NONE
  BY DEF TYPE_NONE
<1>2. c = "%" => Type(c, sizes) = TYPE_NONE
  BY DEF Type, TYPE_NONE
<1>3. c # "%" => Type(c, sizes) # TYPE_NONE
  BY <1>1, Zenon DEF Type
<1> QED
  BY <1>2, <1>3

(* What a directive that is read stands for.                                *)
Conversions == SprintfConversions \cup {"%", "n"}

Plain(c) == IF c = "C" THEN "c" ELSE IF c = "S" THEN "s" ELSE c

LEMMA KnownConversion ==
  ASSUME NEW c, NEW sizes, Type(c, sizes) # <<"unknown">>
  PROVE  Plain(c) \in Conversions
<1> DEFINE Known == {"d", "i", "o", "u", "x", "X", "f", "F", "e", "E", "g", "G", "a", "A", "c",
                     "C", "s", "S", "p", "n", "%"}
<1>1. c \notin Known => Type(c, sizes) = <<"unknown">>
  BY Zenon DEF Type
<1>2. c \in Known => Plain(c) \in Conversions
  BY Zenon DEF Plain, Conversions, SprintfConversions
<1> QED
  BY <1>1, <1>2, Zenon

LEMMA PlainPercent ==
  ASSUME NEW c
  PROVE  Plain(c) = "%" <=> c = "%"
<1>1. "c" # "%" /\ "s" # "%" /\ "C" # "%" /\ "S" # "%"
  OBVIOUS
<1> QED
  BY <1>1, Zenon DEF Plain

(* A directive read to its end.                                             *)
Whole(dp, format) ==
  /\ dp.type = TYPE_NONE <=> dp.conversion = "%"
  /\ dp.type # <<"unknown">> =>
       dp.dir_end <= Len(format) + 1 /\ dp.conversion \in Conversions

LEMMA ConversionIsRead ==
  ASSUME NEW format \in Seq(STRING), NEW start \in Nat \ {0}, NEW dp, Reading(dp, start)
  PROVE  Reading(ReadConversion(format, dp), start) /\ Whole(ReadConversion(format, dp), format)
<1> DEFINE c == At(format, dp.dir_end)
           plain == Plain(c)
           type == Type(c, dp.sizes)
<1>1. ReadConversion(format, dp) =
        [dp EXCEPT !.conversion = plain, !.type = type, !.dir_end = @ + 1]
  BY Zenon DEF ReadConversion, Plain
<1>2. dp.dir_end \in Nat \ {0}
  BY DEF Reading
<1>3. type = TYPE_NONE <=> plain = "%"
  BY PercentHasNoType, PlainPercent, Zenon
<1>4. ~ (dp.dir_end <= Len(format)) => type = <<"unknown">>
  BY <1>2 DEF At, NUL, Type
<1>5. type # <<"unknown">> => plain \in Conversions
  BY KnownConversion, Zenon
<1> HIDE DEF c, plain, type
<1>6. Reading(ReadConversion(format, dp), start)
  BY <1>1 DEF Reading, Parts
<1>7. Whole(ReadConversion(format, dp), format)
  <2>1. /\ ReadConversion(format, dp).conversion = plain /\ ReadConversion(format, dp).type = type
        /\ ReadConversion(format, dp).dir_end = dp.dir_end + 1
    BY <1>1, <1>2 DEF Reading, Parts
  <2>2. type # <<"unknown">> => dp.dir_end + 1 <= Len(format) + 1
    BY <1>2, <1>4
  <2> QED
    BY <1>3, <1>5, <2>1, <2>2, Zenon DEF Whole
<1> QED
  BY <1>6, <1>7

LEMMA DirectiveIs ==
  ASSUME Limits, NEW format \in Seq(STRING), NEW start \in Nat \ {0}, NEW arg_posn \in Nat
  PROVE  LET dp == Directive(format, start, arg_posn)
         IN /\ Reading(dp, start) /\ Whole(dp, format)
            /\ dp.type = TYPE_NONE <=> dp.arg_index = ARG_NONE
<1> DEFINE read == ReadConversion(format, ReadSizes(format, ReadPrecision(format,
                     ReadWidth(format, ReadFlags(format, ReadPosition(format,
                       FreshDirective(start, arg_posn)))))))
           dp == TakeArgument(read)
<1>1. Reading(read, start) /\ Whole(read, format)
  <2>1. Reading(FreshDirective(start, arg_posn), start)
    BY FreshIsRead
  <2>2. Reading(ReadPosition(format, FreshDirective(start, arg_posn)), start)
    BY <2>1, PositionIsRead
  <2>3. Reading(ReadFlags(format, ReadPosition(format, FreshDirective(start, arg_posn))), start)
    BY <2>2, FlagsAreRead
  <2>4. Reading(ReadWidth(format, ReadFlags(format, ReadPosition(format,
                  FreshDirective(start, arg_posn)))), start)
    BY <2>3, WidthIsRead
  <2>5. Reading(ReadPrecision(format, ReadWidth(format, ReadFlags(format, ReadPosition(format,
                  FreshDirective(start, arg_posn))))), start)
    BY <2>4, PrecisionIsRead
  <2>6. Reading(ReadSizes(format, ReadPrecision(format, ReadWidth(format, ReadFlags(format,
                  ReadPosition(format, FreshDirective(start, arg_posn)))))), start)
    BY <2>5, SizesAreRead
  <2> QED
    BY <2>6, ConversionIsRead
<1>2. Directive(format, start, arg_posn) = dp
  BY Zenon DEF Directive
<1> HIDE DEF read
<1>3. dp = IF read.type = TYPE_NONE THEN [read EXCEPT !.arg_index = ARG_NONE]
           ELSE IF read.arg_index = ARG_NONE
             THEN [read EXCEPT !.arg_index = read.arg_posn, !.arg_posn = @ + 1]
           ELSE read
  BY Zenon DEF TakeArgument
<1> HIDE DEF dp
<1>4. Reading(dp, start)
  BY <1>1, <1>3 DEF Reading, Parts, Indices
<1>5. /\ dp.type = read.type /\ dp.conversion = read.conversion /\ dp.dir_end = read.dir_end
      /\ dp.type = TYPE_NONE <=> dp.arg_index = ARG_NONE
  BY <1>1, <1>3 DEF Reading, Parts, ARG_NONE
<1> QED
  BY <1>1, <1>2, <1>4, <1>5, Zenon DEF Whole
-----------------------------------------------------------------------------
(***************************************************************************)
(* The arguments of the directives.                                        *)
(***************************************************************************)
Parses(D, T) ==
  [failed : {FALSE}, dir : Seq(D), d_allocated : Nat, arg : Seq(T), a_allocated : Nat,
   end : Nat \ {0}, arg_posn : Nat]

(* The argument n is fetched with a type.                                   *)
Fetched(arg, n, type) ==
  n = ARG_NONE \/ (n \in Nat /\ n < Len(arg) /\ arg[n + 1] = type)

KeepsTypes(old, new) ==
  \A n, type : Fetched(old, n, type) /\ (type = TYPE_NONE => n = ARG_NONE) => Fetched(new, n, type)

Registered(parse, next, D, T) ==
  /\ next \in Parses(D, T)
  /\ next.dir = parse.dir /\ next.end = parse.end /\ next.arg_posn = parse.arg_posn
  /\ KeepsTypes(parse.arg, next.arg)

LEMMA RegisterArgIs ==
  ASSUME Limits, NEW D, NEW T, TYPE_NONE \in T, NEW parse \in Parses(D, T), NEW n \in Indices,
         NEW type \in T, type = TYPE_NONE => n = ARG_NONE
  PROVE  LET next == RegisterArg(parse, n, type)
         IN next = ParseError \/ (Registered(parse, next, D, T) /\ Fetched(next.arg, n, type))
<1> DEFINE next == RegisterArg(parse, n, type)
           a_allocated == IF n < parse.a_allocated THEN parse.a_allocated
                          ELSE xmax(xtimes(parse.a_allocated, 2), xsum(n, 1))
           M == xmax(Len(parse.arg), n + 1)
           arg == [i \in 1 .. M |-> IF i <= Len(parse.arg) THEN parse.arg[i] ELSE TYPE_NONE]
           new == [arg EXCEPT ![n + 1] = type]
<1>a. ~ parse.failed
  <2>1. parse.failed \in {FALSE}
    BY Zenon DEF Parses
  <2> QED
    BY <2>1, Zenon
<1>1. CASE n = ARG_NONE
  <2>1. next = parse
    BY <1>1, Zenon DEF RegisterArg
  <2> QED
    BY <1>1, <2>1, Zenon DEF Registered, KeepsTypes, Fetched
<1>2. CASE n = Bad
  <2>1. n # ARG_NONE
    BY <1>2 DEF Bad, ARG_NONE
  <2> QED
    BY <1>a, <1>2, <2>1, Zenon DEF RegisterArg
<1>3. CASE n \in Nat
  <2>1. ~ parse.failed /\ n # ARG_NONE /\ n # Bad
    <3>1. n # ARG_NONE /\ n # Bad
      BY <1>3 DEF Bad, ARG_NONE
    <3> QED
      BY <1>a, <3>1
  <2>2. SUFFICES ASSUME next # ParseError
                 PROVE  Registered(parse, next, D, T) /\ Fetched(next.arg, n, type)
    OBVIOUS
  <2>3. /\ arg[n + 1] \in {TYPE_NONE, type}
        /\ next = [parse EXCEPT !.arg = new, !.a_allocated = a_allocated]
    BY <2>1, <2>2, Zenon DEF RegisterArg
  <2>4. a_allocated \in Nat
    <3>1. parse.a_allocated \in Nat
      BY DEF Parses
    <3>2. xtimes(parse.a_allocated, 2) \in Nat
      BY <3>1, ProductsAre
    <3>3. xsum(n, 1) \in Nat
      BY <1>3, SumsAre
    <3> QED
      BY <3>1, <3>2, <3>3, MaxOfNats
  <2> DEFINE N == Len(parse.arg)
  <2>5. parse.arg \in Seq(T) /\ N \in Nat /\ \A i \in 1 .. N : parse.arg[i] \in T
    BY DEF Parses
  <2>6. M \in Nat /\ N <= M /\ n + 1 <= M
    BY <1>3, <2>5, MaxOfNats
  <2>a. arg = [i \in 1 .. M |-> IF i <= N THEN parse.arg[i] ELSE TYPE_NONE]
    BY Zenon
  <2> HIDE DEF N, M, a_allocated, next, arg
  <2>7. arg \in [1 .. M -> T] /\ \A i \in 1 .. N : arg[i] = parse.arg[i]
    BY <2>5, <2>6, <2>a
  <2>8. /\ new \in Seq(T) /\ Len(new) = M /\ new[n + 1] = type
        /\ \A i \in 1 .. N : new[i] = IF i = n + 1 THEN type ELSE parse.arg[i]
    <3>1. new \in [1 .. M -> T]
      BY <1>3, <2>6, <2>7
    <3>2. n + 1 \in 1 .. M /\ \A i \in 1 .. N : i \in 1 .. M
      BY <1>3, <2>5, <2>6
    <3>3. /\ new[n + 1] = type
          /\ \A i \in 1 .. N : new[i] = IF i = n + 1 THEN type ELSE parse.arg[i]
      BY <2>7, <3>2
    <3> HIDE DEF new
    <3>4. new \in Seq(T) /\ Len(new) = M
      BY <2>6, <3>1
    <3> QED
      BY <3>3, <3>4
  <2> HIDE DEF new
  <2>9. /\ next \in Parses(D, T) /\ next.dir = parse.dir /\ next.end = parse.end
        /\ next.arg_posn = parse.arg_posn /\ next.arg = new
    BY <2>3, <2>4, <2>8 DEF Parses
  <2>10. Fetched(new, n, type)
    BY <1>3, <2>6, <2>8 DEF Fetched
  <2>11. KeepsTypes(parse.arg, new)
    <3> SUFFICES ASSUME NEW m, NEW t, Fetched(parse.arg, m, t), t = TYPE_NONE => m = ARG_NONE
                 PROVE  Fetched(new, m, t)
      BY Zenon DEF KeepsTypes
    <3>1. CASE m = ARG_NONE
      BY <3>1 DEF Fetched
    <3>2. CASE m # ARG_NONE
      <4>1. m \in Nat /\ m < N /\ parse.arg[m + 1] = t /\ t # TYPE_NONE
        BY <3>2, Zenon DEF Fetched, N
      <4>2. m + 1 \in 1 .. N /\ m < M
        BY <2>5, <2>6, <4>1
      <4>3. new[m + 1] = t
        <5>1. CASE m = n
          <6>1. arg[n + 1] = t
            BY <2>7, <4>1, <4>2, <5>1
          <6> QED
            BY <2>3, <2>8, <4>1, <5>1, <6>1
        <5>2. CASE m # n
          BY <1>3, <2>8, <4>1, <4>2, <5>2
        <5> QED
          BY <5>1, <5>2
      <4> QED
        BY <2>8, <4>1, <4>2, <4>3 DEF Fetched
    <3> QED
      BY <3>1, <3>2
  <2> QED
    BY <2>9, <2>10, <2>11, Zenon DEF Registered
<1> QED
  BY <1>1, <1>2, <1>3 DEF Indices

(* What the directives and the arguments of a format may be.                *)
Dirs(format)  == {Directive(format, i, n) : i \in Nat \ {0}, n \in Nat}
Types(format) == {TYPE_NONE, TYPE_INT} \cup {dp.type : dp \in Dirs(format)}

Agrees(arg, dp) ==
  /\ Fetched(arg, dp.width_arg_index, TYPE_INT)
  /\ Fetched(arg, dp.precision_arg_index, TYPE_INT)
  /\ Fetched(arg, dp.arg_index, dp.type)

LEMMA DirsAre ==
  ASSUME Limits, NEW format \in Seq(STRING), NEW dp \in Dirs(format)
  PROVE  /\ dp.dir_start \in Nat \ {0} /\ Reading(dp, dp.dir_start) /\ Whole(dp, format)
         /\ dp.type = TYPE_NONE <=> dp.arg_index = ARG_NONE
         /\ dp.type \in Types(format)
<1>1. PICK i \in Nat \ {0}, n \in Nat : dp = Directive(format, i, n)
  BY DEF Dirs
<1>2. /\ Reading(dp, i) /\ Whole(dp, format)
      /\ dp.type = TYPE_NONE <=> dp.arg_index = ARG_NONE
  BY <1>1, DirectiveIs
<1>3. dp.dir_start = i
  BY <1>2, Zenon DEF Reading
<1>4. dp.type \in Types(format)
  BY Zenon DEF Types
<1> QED
  BY <1>2, <1>3, <1>4

LEMMA ErrorStays ==
  ASSUME NEW n, NEW type
  PROVE  ParseError.failed /\ RegisterArg(ParseError, n, type) = ParseError
<1>1. ParseError.failed
  BY DEF ParseError
<1> QED
  BY <1>1, Zenon DEF RegisterArg

LEMMA RegisterArgsIs ==
  ASSUME Limits, NEW format \in Seq(STRING), NEW dp \in Dirs(format),
         NEW parse \in Parses(Dirs(format), Types(format))
  PROVE  LET next == RegisterArgs(parse, dp)
         IN \/ next = ParseError
            \/ /\ Registered(parse, next, Dirs(format), Types(format))
               /\ Agrees(next.arg, dp)
<1> DEFINE D == Dirs(format)
           T == Types(format)
           w == dp.width_arg_index
           p == dp.precision_arg_index
           a == dp.arg_index
           next == RegisterArgs(parse, dp)
           first  == RegisterArg(parse, w, TYPE_INT)
           second == RegisterArg(first, p, TYPE_INT)
<1>1. w \in Indices /\ p \in Indices /\ a \in Indices /\ dp.type \in T
      /\ (dp.type = TYPE_NONE => a = ARG_NONE)
  BY DirsAre, Zenon DEF Reading
<1>2. TYPE_NONE \in T /\ TYPE_INT \in T /\ TYPE_INT # TYPE_NONE
  BY DEF Types, TYPE_NONE, TYPE_INT
<1>3. next = RegisterArg(second, a, dp.type)
  BY Zenon DEF RegisterArgs
<1>4. SUFFICES ASSUME next # ParseError
               PROVE  Registered(parse, next, D, T) /\ Agrees(next.arg, dp)
  BY Zenon
<1> HIDE DEF D, T, next, w, p, a
<1>a. parse \in Parses(D, T)
  BY DEF D, T
<1>5. first = ParseError \/ (Registered(parse, first, D, T) /\ Fetched(first.arg, w, TYPE_INT))
  BY <1>a, <1>1, <1>2, RegisterArgIs
<1> HIDE DEF first
<1>6. first # ParseError
  BY <1>3, <1>4, ErrorStays
<1>7. first \in Parses(D, T)
  BY <1>5, <1>6, Zenon DEF Registered
<1>8. second = ParseError \/ (Registered(first, second, D, T) /\ Fetched(second.arg, p, TYPE_INT))
  BY <1>1, <1>2, <1>7, RegisterArgIs
<1> HIDE DEF second
<1>9. second # ParseError
  BY <1>3, <1>4, ErrorStays
<1>10. second \in Parses(D, T)
  BY <1>8, <1>9, Zenon DEF Registered
<1>11. Registered(second, next, D, T) /\ Fetched(next.arg, a, dp.type)
  BY <1>1, <1>2, <1>3, <1>4, <1>10, RegisterArgIs
<1>12. KeepsTypes(parse.arg, second.arg) /\ KeepsTypes(parse.arg, next.arg)
  BY <1>5, <1>6, <1>8, <1>9, <1>11, Zenon DEF Registered, KeepsTypes
<1>13. Fetched(next.arg, w, TYPE_INT) /\ Fetched(next.arg, p, TYPE_INT)
  BY <1>2, <1>5, <1>6, <1>8, <1>9, <1>11, Zenon DEF Registered, KeepsTypes
<1> QED
  BY <1>5, <1>6, <1>8, <1>9, <1>11, <1>12, <1>13, Zenon DEF Registered, Agrees, w, p, a

After(dirs, k) == IF k = 0 THEN 1 ELSE dirs[k].dir_end

(* The directives stand behind each other in the format, and their          *)
(* arguments have their types.                                              *)
InPlace(format, parse) ==
  /\ parse \in Parses(Dirs(format), Types(format))
  /\ parse.end = After(parse.dir, Len(parse.dir))
  /\ \A k \in 1 .. Len(parse.dir) :
       /\ After(parse.dir, k - 1) <= parse.dir[k].dir_start
       /\ parse.dir[k].dir_end <= Len(format) + 1 /\ parse.dir[k].conversion \in Conversions
       /\ Agrees(parse.arg, parse.dir[k])

LEMMA ParsedIs ==
  ASSUME Limits, NEW format \in Seq(STRING), NEW parse,
         parse = ParseError \/ InPlace(format, parse)
  PROVE  LET next == Parsed(format, parse)
         IN next = ParseError \/ InPlace(format, next)
<1> DEFINE next  == Parsed(format, parse)
           start == NextPercent(format, parse.end)
           dp    == Directive(format, start, parse.arg_posn)
           regd  == RegisterArgs(parse, dp)
           D     == Dirs(format)
           T     == Types(format)
           more  == IF Len(parse.dir) + 1 < regd.d_allocated THEN regd.d_allocated
                    ELSE xtimes(regd.d_allocated, 2)
<1>1. CASE parse.failed \/ start > Len(format)
  <2>1. next = parse
    BY <1>1, Zenon DEF Parsed
  <2> QED
    BY <2>1
<1>2. CASE ~ (parse.failed \/ start > Len(format))
  <2>1. next = AddDirective(regd, dp)
    BY <1>2, Zenon DEF Parsed
  <2>2. InPlace(format, parse)
    BY <1>2, ErrorStays, Zenon
  <2>3. parse \in Parses(D, T)
    BY <2>2, Zenon DEF InPlace
  <2>4. parse.end \in Nat \ {0} /\ parse.arg_posn \in Nat /\ parse.dir \in Seq(D)
    <3> HIDE DEF D, T
    <3> QED
      BY <2>3 DEF Parses
  <2>5. start \in Nat \ {0} /\ parse.end <= start
    BY <2>4, SpanIs DEF NextPercent
  <2>6. dp \in D
    BY <2>4, <2>5 DEF Dirs
  <2>7. dp.dir_start = start /\ dp.dir_end \in Nat \ {0} /\ dp.arg_posn \in Nat
    <3> HIDE DEF start
    <3>1. Reading(dp, start)
      BY <2>4, <2>5, DirectiveIs
    <3> HIDE DEF dp
    <3> QED
      BY <2>5, <3>1 DEF Reading
  <2>8. Whole(dp, format)
    BY <2>6, DirsAre
  <2>9. SUFFICES ASSUME next # ParseError
                 PROVE  InPlace(format, next)
    BY Zenon
  <2>10. regd # ParseError /\ dp.type # <<"unknown">>
    BY <2>1, <2>9, ErrorStays, Zenon DEF AddDirective
  <2>11. Registered(parse, regd, D, T) /\ Agrees(regd.arg, dp)
    <3> HIDE DEF dp
    <3> QED
      BY <2>3, <2>6, <2>10, RegisterArgsIs, Zenon
  <2>12. dp.dir_end <= Len(format) + 1 /\ dp.conversion \in Conversions
    BY <2>8, <2>10, Zenon DEF Whole
  <2>a. /\ regd \in Parses(D, T) /\ regd.dir = parse.dir /\ KeepsTypes(parse.arg, regd.arg)
    BY <2>11, Zenon DEF Registered
  <2>b. next = [regd EXCEPT !.dir = Append(@, dp), !.d_allocated = more, !.end = dp.dir_end,
                            !.arg_posn = dp.arg_posn]
    BY <2>1, <2>9, <2>a, Zenon DEF AddDirective
  <2>c. more \in Nat
    <3> HIDE DEF D, T, regd
    <3>1. regd.d_allocated \in Nat
      BY <2>a DEF Parses
    <3>2. xtimes(regd.d_allocated, 2) \in Nat
      BY <3>1, ProductsAre
    <3> QED
      BY <3>1, <3>2
  <2> HIDE DEF next, start, dp, regd, D, T, more
  <2> DEFINE N    == Len(parse.dir)
             dirs == Append(parse.dir, dp)
  <2>13. /\ next \in Parses(D, T) /\ next.dir = dirs /\ next.end = dp.dir_end
         /\ next.arg = regd.arg /\ KeepsTypes(parse.arg, next.arg)
    <3>1. dirs \in Seq(D)
      BY <2>4, <2>6
    <3>2. next = [regd EXCEPT !.dir = dirs, !.d_allocated = more, !.end = dp.dir_end,
                              !.arg_posn = dp.arg_posn]
      BY <2>a, <2>b, Zenon DEF Parses
    <3> HIDE DEF dirs
    <3> QED
      BY <2>7, <2>a, <2>c, <3>1, <3>2 DEF Parses
  <2>14. /\ N \in Nat /\ Len(dirs) = N + 1 /\ dirs[N + 1] = dp
         /\ \A k \in 1 .. N : dirs[k] = parse.dir[k]
    BY <2>4, <2>6
  <2> HIDE DEF N, dirs
  <2>15. next.end = After(dirs, Len(dirs))
    BY <2>13, <2>14 DEF After
  <2>16. ASSUME NEW k \in 1 .. N + 1
         PROVE  /\ After(dirs, k - 1) <= dirs[k].dir_start
                /\ dirs[k].dir_end <= Len(format) + 1 /\ dirs[k].conversion \in Conversions
                /\ Agrees(next.arg, dirs[k])
    <3>1. After(dirs, k - 1) = After(parse.dir, k - 1)
      <4>1. k - 1 # 0 => k - 1 \in 1 .. N
        BY <2>14
      <4> QED
        BY <2>14, <4>1, Zenon DEF After
    <3>2. CASE k = N + 1
      <4>1. After(parse.dir, k - 1) = parse.end
        BY <2>2, <2>14, <3>2 DEF InPlace, N
      <4> QED
        BY <2>5, <2>7, <2>11, <2>12, <2>13, <2>14, <3>1, <3>2, <4>1, Zenon
    <3>3. CASE k # N + 1
      <4>1. k \in 1 .. N /\ dirs[k] = parse.dir[k]
        BY <2>14, <3>3
      <4>2. /\ After(parse.dir, k - 1) <= parse.dir[k].dir_start
            /\ parse.dir[k].dir_end <= Len(format) + 1
            /\ parse.dir[k].conversion \in Conversions
            /\ Agrees(parse.arg, parse.dir[k])
        BY <2>2, <4>1, Zenon DEF InPlace, N
      <4>3. Agrees(next.arg, parse.dir[k])
        <5>1. parse.dir[k] \in D
          BY <2>4, <4>1 DEF N
        <5>2. parse.dir[k].type = TYPE_NONE => parse.dir[k].arg_index = ARG_NONE
          BY <5>1, DirsAre, Zenon DEF D
        <5>3. TYPE_INT # TYPE_NONE
          BY DEF TYPE_INT, TYPE_NONE
        <5> QED
          BY <2>13, <4>2, <5>2, <5>3, Zenon DEF Agrees, KeepsTypes
      <4> QED
        BY <3>1, <4>1, <4>2, <4>3, Zenon
    <3> QED
      BY <3>2, <3>3
  <2> QED
    BY <2>13, <2>14, <2>15, <2>16, Zenon DEF InPlace, D, T
<1> QED
  BY <1>1, <1>2

LEMMA UnparsedIsInPlace ==
  ASSUME NEW format \in Seq(STRING)
  PROVE  Unparsed = ParseError \/ InPlace(format, Unparsed)
<1> DEFINE first == [failed |-> FALSE, dir |-> <<>>, d_allocated |-> 1, arg |-> <<>>,
                     a_allocated |-> 0, end |-> 1, arg_posn |-> 0]
<1>1. Unparsed = ParseError \/ Unparsed = first
  BY Zenon DEF Unparsed
<1>2. first \in Parses(Dirs(format), Types(format))
  BY DEF Parses
<1>3. first.dir = <<>> /\ first.end = 1 /\ Len(first.dir) = 0
  OBVIOUS
<1> HIDE DEF first
<1>4. InPlace(format, first)
  BY <1>2, <1>3 DEF InPlace, After
<1> QED
  BY <1>1, <1>4, Zenon

LEMMA ParseIsInPlace ==
  ASSUME Limits, NEW format \in Seq(STRING)
  PROVE  printf_parse(format) = ParseError \/ InPlace(format, printf_parse(format))
<1> DEFINE N     == Len(format)
           S     == {ParseError} \cup {p \in Parses(Dirs(format), Types(format)) : InPlace(format, p)}
           parse == CHOOSE f : f = [k \in 0 .. N |->
                      IF k = 0 THEN Unparsed ELSE Parsed(format, f[k - 1])]
           step  == [p \in (1 .. N) \X S |-> Parsed(format, p[2])]
<1>1. N \in Nat
  OBVIOUS
<1>2. Unparsed \in S
  BY UnparsedIsInPlace, Zenon DEF InPlace
<1>3. ASSUME NEW p \in S
      PROVE  Parsed(format, p) \in S
  <2>1. p = ParseError \/ InPlace(format, p)
    BY Zenon
  <2>2. Parsed(format, p) = ParseError \/ InPlace(format, Parsed(format, p))
    BY <2>1, ParsedIs
  <2> QED
    BY <2>2, Zenon DEF InPlace
<1>4. printf_parse(format) = parse[N]
  BY Zenon DEF printf_parse
<1>5. \A p \in S : p = ParseError \/ InPlace(format, p)
  BY Zenon
<1> HIDE DEF N, S
<1>6. PICK f : Iterates(f, N, S, Unparsed, step)
  <2>1. step \in [(1 .. N) \X S -> S]
    BY <1>3
  <2> HIDE DEF step
  <2> QED
    BY <1>1, <1>2, <2>1, Recursion
<1>7. ASSUME NEW n \in 1 .. N
      PROVE  f[n] = Parsed(format, f[n - 1])
  <2>1. f[n - 1] \in S /\ f[n] = step[<<n, f[n - 1]>>]
    <3> HIDE DEF step
    <3> QED
      BY <1>1, <1>6, IteratesEach
  <2> QED
    BY <2>1
<1>8. f = [k \in 0 .. N |-> IF k = 0 THEN Unparsed ELSE Parsed(format, f[k - 1])]
  <2> HIDE DEF step
  <2> QED
    BY <1>1, <1>6, <1>7 DEF Iterates
<1>9. parse = [k \in 0 .. N |-> IF k = 0 THEN Unparsed ELSE Parsed(format, parse[k - 1])]
  BY <1>8, Zenon
<1> HIDE DEF parse
<1> DEFINE T == {n \in 0 .. N : parse[n] \in S}
<1>10. 0 \in T
  BY <1>1, <1>2, <1>9
<1>11. ASSUME NEW n \in 1 .. N, n - 1 \in T
       PROVE  n \in T
  <2>1. n \in 0 .. N /\ n # 0
    BY <1>1
  <2>2. parse[n] = Parsed(format, parse[n - 1])
    BY <1>9, <2>1, Zenon
  <2> QED
    BY <1>3, <1>11, <2>1, <2>2
<1> HIDE DEF T
<1>12. \A n \in 0 .. N : n \in T
  BY <1>1, <1>10, <1>11, Induction, Zenon
<1>13. N \in 0 .. N
  BY <1>1
<1> QED
  BY <1>4, <1>5, <1>12, <1>13, Zenon DEF T
-----------------------------------------------------------------------------
(***************************************************************************)
(* The buffer for a directive.                                             *)
(***************************************************************************)
LEMMA Largest ==
  ASSUME NEW N \in Nat, NEW f \in [1 .. N -> Nat]
  PROVE  LET max == Max({f[i] : i \in 1 .. N} \cup {0})
         IN max \in Nat /\ \A i \in 1 .. N : f[i] <= max
<1> DEFINE Upto(n) == {f[i] : i \in 1 .. n} \cup {0}
           T == {n \in 0 .. N : \E m \in Upto(n) : \A x \in Upto(n) : m >= x}
<1>1. 0 \in T
  OBVIOUS
<1>2. ASSUME NEW n \in 1 .. N, n - 1 \in T
      PROVE  n \in T
  <2>1. PICK m \in Upto(n - 1) : \A x \in Upto(n - 1) : m >= x
    BY <1>2
  <2>2. Upto(n) = Upto(n - 1) \cup {f[n]}
    OBVIOUS
  <2>3. m \in Nat /\ f[n] \in Nat /\ Upto(n - 1) \subseteq Nat
    OBVIOUS
  <2> HIDE DEF Upto
  <2>4. CASE f[n] <= m
    BY <2>1, <2>2, <2>3, <2>4
  <2>5. CASE m <= f[n]
    BY <2>1, <2>2, <2>3, <2>5
  <2> QED
    BY <2>3, <2>4, <2>5
<1> HIDE DEF T
<1>3. N \in T
  <2>1. \A n \in 0 .. N : n \in T
    BY <1>1, <1>2, Induction, Zenon
  <2>2. N \in 0 .. N
    OBVIOUS
  <2> QED
    BY <2>1, <2>2, Zenon
<1> DEFINE S == Upto(N)
<1>4. \E m \in S : \A x \in S : m >= x
  BY <1>3 DEF T
<1>5. S \subseteq Nat /\ \A i \in 1 .. N : f[i] \in S
  OBVIOUS
<1> HIDE DEF S
<1>6. Max(S) \in S /\ \A x \in S : Max(S) >= x
  BY <1>4, Zenon DEF Max
<1> QED
  BY <1>5, <1>6 DEF S

LEMMA WidestHolds ==
  ASSUME Limits, NEW format \in Seq(STRING), NEW dirs \in Seq(Dirs(format))
  PROVE  /\ max_width_length(dirs) \in Nat /\ max_precision_length(dirs) \in Nat
         /\ \A k \in 1 .. Len(dirs) :
              /\ dirs[k].width_length <= max_width_length(dirs)
              /\ dirs[k].precision_length <= max_precision_length(dirs)
<1> DEFINE N == Len(dirs)
           widths == [i \in 1 .. N |-> dirs[i].width_length]
           precisions == [i \in 1 .. N |-> dirs[i].precision_length]
<1>1. N \in Nat /\ DOMAIN dirs = 1 .. N /\ \A i \in 1 .. N : dirs[i] \in Dirs(format)
  <2> DEFINE D == Dirs(format)
  <2> HIDE DEF D
  <2>1. dirs \in Seq(D)
    BY DEF D
  <2> QED
    BY <2>1 DEF D
<1>2. \A i \in 1 .. N : dirs[i].width_length \in Nat /\ dirs[i].precision_length \in Nat
  BY <1>1, DirsAre, Zenon DEF Reading
<1> HIDE DEF N
<1>4. widths \in [1 .. N -> Nat] /\ precisions \in [1 .. N -> Nat]
  BY <1>2
<1>5. /\ {widths[i] : i \in 1 .. N} = {dirs[i].width_length : i \in 1 .. N}
      /\ {precisions[i] : i \in 1 .. N} = {dirs[i].precision_length : i \in 1 .. N}
  OBVIOUS
<1>6. \A k \in 1 .. N : widths[k] = dirs[k].width_length /\ precisions[k] = dirs[k].precision_length
  OBVIOUS
<1> HIDE DEF widths, precisions
<1>7. /\ max_width_length(dirs) = Max({widths[i] : i \in 1 .. N} \cup {0})
      /\ max_precision_length(dirs) = Max({precisions[i] : i \in 1 .. N} \cup {0})
  BY <1>1, <1>5, Zenon DEF max_width_length, max_precision_length
<1>8. LET max == Max({widths[i] : i \in 1 .. N} \cup {0})
      IN max \in Nat /\ \A i \in 1 .. N : widths[i] <= max
  BY <1>1, <1>4, Largest
<1>9. LET max == Max({precisions[i] : i \in 1 .. N} \cup {0})
      IN max \in Nat /\ \A i \in 1 .. N : precisions[i] <= max
  BY <1>1, <1>4, Largest
<1> QED
  BY <1>6, <1>7, <1>8, <1>9, Zenon DEF N

LEMMA NeededIsNat ==
  ASSUME Limits, NEW w \in Nat, NEW p \in Nat
  PROVE  LET size == xsum(xsum(xsum(7, w), p), 6)
         IN size \in Nat /\ (size = SIZE_MAX \/ size = 13 + w + p)
BY DEF Limits, xsum

LEMMA AddsOne ==
  ASSUME NEW S, NEW x, IsFiniteSet(S)
  PROVE  /\ IsFiniteSet(S \cup {x}) /\ Cardinality(S) \in Nat
         /\ Cardinality(S \cup {x}) \in Nat /\ Cardinality(S \cup {x}) <= Cardinality(S) + 1
<1>1. Cardinality(S) \in Nat
  BY FS_CardinalityType
<1>2. /\ IsFiniteSet(S \cup {x})
      /\ Cardinality(S \cup {x}) = IF x \in S THEN Cardinality(S) ELSE Cardinality(S) + 1
  BY FS_AddElement
<1> QED
  BY <1>1, <1>2

LEMMA FlagsAreFew ==
  ASSUME NEW flags \in SUBSET FlagChars
  PROVE  Cardinality(flags) \in Nat /\ Cardinality(flags) <= 6
<1> DEFINE A == {"'"}
           B == A \cup {"-"}
           C == B \cup {"+"}
           D == C \cup {" "}
           E == D \cup {"#"}
           F == E \cup {"0"}
<1>1. FlagChars = F
  BY DEF FlagChars
<1>2. IsFiniteSet(A) /\ Cardinality(A) = 1
  BY FS_Singleton
<1> HIDE DEF A
<1>3. IsFiniteSet(B) /\ Cardinality(B) \in Nat /\ Cardinality(B) <= Cardinality(A) + 1
  BY <1>2, AddsOne
<1> HIDE DEF B
<1>4. IsFiniteSet(C) /\ Cardinality(C) \in Nat /\ Cardinality(C) <= Cardinality(B) + 1
  BY <1>3, AddsOne
<1> HIDE DEF C
<1>5. IsFiniteSet(D) /\ Cardinality(D) \in Nat /\ Cardinality(D) <= Cardinality(C) + 1
  BY <1>4, AddsOne
<1> HIDE DEF D
<1>6. IsFiniteSet(E) /\ Cardinality(E) \in Nat /\ Cardinality(E) <= Cardinality(D) + 1
  BY <1>5, AddsOne
<1> HIDE DEF E
<1>7. IsFiniteSet(F) /\ Cardinality(F) \in Nat /\ Cardinality(F) <= Cardinality(E) + 1
  BY <1>6, AddsOne
<1>8. IsFiniteSet(FlagChars) /\ Cardinality(FlagChars) <= 6
  <2> HIDE DEF F
  <2> QED
    BY <1>1, <1>2, <1>3, <1>4, <1>5, <1>6, <1>7
<1> QED
  BY <1>8, FS_Subset, FS_CardinalityType

LEMMA DirectiveFits ==
  ASSUME Limits, NEW format \in Seq(STRING), NEW dirs \in Seq(Dirs(format)),
         NEW k \in 1 .. Len(dirs), ~ size_overflow_p(buf_neededlength(dirs))
  PROVE  BufLength(dirs[k]) <= buf_neededlength(dirs)
<1> DEFINE dp == dirs[k]
           w == max_width_length(dirs)
           p == max_precision_length(dirs)
           size == SizeLength(dp.type)
           flags == Cardinality(dp.flags)
<1>1. w \in Nat /\ dp.width_length <= w /\ p \in Nat /\ dp.precision_length <= p
  BY WidestHolds
<1>2. dp \in Dirs(format)
  <2> DEFINE D == Dirs(format)
  <2> HIDE DEF D
  <2>1. dirs \in Seq(D)
    BY DEF D
  <2>2. dirs[k] \in D
    BY <2>1
  <2> QED
    BY <2>2 DEF D
<1> DEFINE wide == dp.width_length
           exact == dp.precision_length
<1>3. wide \in Nat /\ exact \in Nat
  BY <1>2, DirsAre, Zenon DEF Reading
<1>4. flags \in Nat /\ flags <= 6
  <2>1. dp.flags \in SUBSET FlagChars
    BY <1>2, DirsAre, Zenon DEF Reading
  <2> QED
    BY <2>1, FlagsAreFew
<1>5. size \in Nat /\ size <= 2
  <2>1. size \in {0, 1, 2}
    BY Zenon DEF SizeLength
  <2> HIDE DEF size
  <2> QED
    BY <2>1
<1>6. buf_neededlength(dirs) = 13 + w + p
  <2> HIDE DEF w, p
  <2>1. buf_neededlength(dirs) = xsum(xsum(xsum(7, w), p), 6)
    BY Zenon DEF buf_neededlength, w, p
  <2> QED
    BY <1>1, <2>1, NeededIsNat DEF size_overflow_p
<1>7. BufLength(dp) = 1 + flags + wide + exact + size + 4
  BY Zenon DEF BufLength
<1>8. wide <= w /\ exact <= p
  BY <1>1, Zenon
<1> HIDE DEF w, p, size, flags, wide, exact, dp
<1>9. 1 + flags + wide + exact + size + 4 <= 13 + w + p
  BY <1>1, <1>3, <1>4, <1>5, <1>8
<1>10. BufLength(dp) <= buf_neededlength(dirs)
  BY <1>6, <1>7, <1>9, Zenon
<1> QED
  BY <1>10 DEF dp

LEMMA ParsedFits ==
  ASSUME Limits, NEW format \in Seq(STRING), NEW parse,
         parse = ParseError \/ InPlace(format, parse)
  PROVE  FitsAndAgrees(parse)
<1>1. CASE parse = ParseError
  BY <1>1, ErrorStays, Zenon DEF FitsAndAgrees
<1>2. CASE InPlace(format, parse)
  <2> DEFINE dirs == parse.dir
             D == Dirs(format)
             T == Types(format)
             IsOf(n, type) == n = ARG_NONE \/ parse.arg[n + 1] = type
  <2>1. parse.dir \in Seq(Dirs(format))
    <3>1. parse \in Parses(D, T)
      BY <1>2, Zenon DEF InPlace
    <3> HIDE DEF D, T
    <3>2. parse.dir \in Seq(D)
      BY <3>1 DEF Parses
    <3> QED
      BY <3>2 DEF D
  <2>2. DOMAIN dirs = 1 .. Len(dirs)
    BY <2>1
  <2> SUFFICES ASSUME NEW dp \in ToSet(parse.dir)
               PROVE  /\ IsConversion(dp) /\ ~ size_overflow_p(buf_neededlength(parse.dir))
                           => BufLength(dp) <= buf_neededlength(parse.dir)
                      /\ IsOf(dp.width_arg_index, TYPE_INT) /\ IsOf(dp.precision_arg_index, TYPE_INT)
                      /\ dp.conversion # "%" => IsOf(dp.arg_index, dp.type)
    BY Zenon DEF FitsAndAgrees
  <2>3. PICK k \in 1 .. Len(dirs) : dp = parse.dir[k]
    BY <2>2, Zenon DEF ToSet
  <2>4. Agrees(parse.arg, dp)
    BY <1>2, <2>3, Zenon DEF InPlace
  <2>5. /\ IsOf(dp.width_arg_index, TYPE_INT) /\ IsOf(dp.precision_arg_index, TYPE_INT)
        /\ IsOf(dp.arg_index, dp.type)
    BY <2>4, Zenon DEF Agrees, Fetched
  <2>6. ~ size_overflow_p(buf_neededlength(parse.dir))
          => BufLength(dp) <= buf_neededlength(parse.dir)
    BY <2>1, <2>3, DirectiveFits
  <2> QED
    BY <2>5, <2>6, Zenon
<1> QED
  BY <1>1, <1>2

(* For every format, the buffer in which a directive is built is large      *)
(* enough, and the directives find their arguments with their types.        *)
THEOREM EveryDirectiveFits ==
  ASSUME Limits, NEW format \in Seq(STRING)
  PROVE  DirectivesFit(format)
BY ParseIsInPlace, ParsedFits, Zenon DEF DirectivesFit
-----------------------------------------------------------------------------
(***************************************************************************)
(* The room for a directive under sprintf.                                 *)
(***************************************************************************)
LEMMA Estimates ==
  ASSUME NEW type
  PROVE  /\ DecimalEstimate(type) = DecimalDigits(type) /\ DecimalDigits(type) \in {20, 10}
         /\ OctalEstimate(type) = OctalDigits(type) /\ OctalDigits(type) \in {22, 11}
         /\ HexEstimate(type) = Bits(type) \div 4 + 1 /\ Bits(type) \div 4 \in {16, 8}
         /\ FloatEstimate(type) \in Nat /\ FloatDigits(type) \in Nat \ {0}
         /\ 2 * FloatDigits(type) <= FloatEstimate(type) + 1
<1>1. \/ Bits(type) = 64 /\ DecimalDigits(type) = 20 /\ OctalDigits(type) = 22
      \/ Bits(type) = 32 /\ DecimalDigits(type) = 10 /\ OctalDigits(type) = 11
  <2> DEFINE wide == type[Len(type)] \in {"long", "long long"}
  <2>1. Bits(type) = IF wide THEN 64 ELSE 32
    BY Zenon DEF Bits
  <2> HIDE DEF wide
  <2> QED
    BY <2>1, SMT DEF DecimalDigits, OctalDigits
<1>2. /\ (64 * 301030) \div 1000000 = 19 /\ (64 * 333334) \div 1000000 = 21
      /\ (64 * 250000) \div 1000000 = 16 /\ 64 \div 4 = 16
      /\ (32 * 301030) \div 1000000 = 9 /\ (32 * 333334) \div 1000000 = 10
      /\ (32 * 250000) \div 1000000 = 8 /\ 32 \div 4 = 8
      /\ (16384 * 60206) \div 100000 = 9864 /\ (1024 * 60206) \div 100000 = 616
  BY Z3
<1>3. /\ DecimalEstimate(type) = DecimalDigits(type) /\ OctalEstimate(type) = OctalDigits(type)
      /\ HexEstimate(type) = Bits(type) \div 4 + 1 /\ Bits(type) \div 4 \in {16, 8}
  BY <1>1, <1>2, SMT DEF DecimalEstimate, OctalEstimate, HexEstimate
<1>4. \/ MAX_EXP(type) = 16384 /\ FloatDigits(type) = 4933
      \/ MAX_EXP(type) = 1024 /\ FloatDigits(type) = 309
  <2> DEFINE long_double == type = <<"long double">>
  <2>1. /\ MAX_EXP(type) = IF long_double THEN 16384 ELSE 1024
        /\ FloatDigits(type) = IF long_double THEN 4933 ELSE 309
    BY SMT DEF MAX_EXP, FloatDigits
  <2> HIDE DEF long_double
  <2> QED
    BY <2>1, SMT
<1>5. /\ FloatEstimate(type) \in Nat /\ FloatDigits(type) \in Nat \ {0}
      /\ 2 * FloatDigits(type) <= FloatEstimate(type) + 1
  BY <1>2, <1>4, SMT DEF FloatEstimate
<1> QED
  BY <1>1, <1>3, <1>5, SMT

LEMMA GroupedIs ==
  ASSUME NEW digits \in Nat \ {0}, NEW group \in BOOLEAN
  PROVE  /\ Grouped(digits, group) \in Nat
         /\ ~ group => Grouped(digits, group) = digits
         /\ group => \E g \in Nat : /\ Grouped(digits, group) = digits + g
                                    /\ 3 * g <= digits - 1 /\ digits - 3 <= 3 * g
<1>1. CASE ~ group
  BY <1>1, SMT DEF Grouped
<1>2. CASE group
  <2> DEFINE g == (digits - 1) \div 3
  <2>1. g \in Nat /\ 3 * g <= digits - 1 /\ digits - 3 <= 3 * g
    BY Z3
  <2>2. Grouped(digits, group) = digits + g
    BY <1>2, Zenon DEF Grouped
  <2> HIDE DEF g
  <2>3. \E n \in Nat : Grouped(digits, group) = digits + n /\ 3 * n <= digits - 1 /\ digits - 3 <= 3 * n
    BY <2>1, <2>2, Zenon
  <2>4. Grouped(digits, group) \in Nat
    BY <2>1, <2>2, SMT
  <2> QED
    BY <1>2, <2>3, <2>4, Zenon
<1> QED
  BY <1>1, <1>2

(* The longest text is as long as the room exactly when it is longer than   *)
(* the width and than what is needed.                                       *)
Compares(c, type, group, width, precision, chars, exceeds) ==
  \E text \in Nat, needed \in Nat :
    /\ Longest(c, type, group, width, precision, chars) = xmax(text, width)
    /\ tmp_length(c, type, width, Assumed(precision), chars) = xmax(needed, width) + 1
    /\ text > width => (text > needed <=> exceeds)

Precisions == Nat \cup {NoPrecision, Negative}

LEMMA AssumedIs ==
  ASSUME NEW precision \in Precisions
  PROVE  /\ Assumed(precision) \in Nat
         /\ precision = NoPrecision => Assumed(precision) = 6
         /\ precision = Negative => Assumed(precision) = 0
         /\ precision \in Nat => precision \notin {NoPrecision, Negative} /\ Assumed(precision) = precision
         /\ precision \notin Nat => precision \in {NoPrecision, Negative} /\ precision < 0
BY SMT DEF Precisions, Assumed, NoPrecision, Negative

LEMMA IntegersCompare ==
  ASSUME NEW c \in {"d", "i", "u", "o", "x", "X"}, NEW type, NEW group \in BOOLEAN,
         NEW width \in Nat, NEW precision \in Precisions, NEW chars
  PROVE  Compares(c, type, group, width, precision, chars, FALSE)
<1> DEFINE p == Assumed(precision)
<1>1. p \in Nat /\ precision \in Int /\ (precision < 0 \/ p = precision)
  BY AssumedIs DEF Precisions, NoPrecision, Negative
<1> HIDE DEF p
<1>2. CASE c \in {"d", "i", "u"}
  <2> DEFINE n == xmax(DecimalDigits(type), precision)
             m == xmax(DecimalEstimate(type), p)
             text == Grouped(n, group) + 1
             needed == 2 * m + 1
  <2>1. Longest(c, type, group, width, precision, chars) = xmax(text, width)
    BY <1>2, Zenon DEF Longest
  <2>2. tmp_length(c, type, width, p, chars) = xmax(needed, width) + 1
    BY <1>2, Zenon DEF tmp_length
  <2>3. n \in Nat \ {0} /\ m \in Nat /\ n <= m
    BY <1>1, Estimates DEF xmax
  <2> HIDE DEF n, m
  <2>4. text \in Nat /\ needed \in Nat /\ ~ (text > needed)
    BY <2>3, GroupedIs
  <2> QED
    BY <2>1, <2>2, <2>4, Zenon DEF Compares, p
<1>3. CASE c = "o"
  <2> DEFINE text == xmax(OctalDigits(type), precision) + 1
             needed == xmax(OctalEstimate(type), p) + 1
  <2>1. Longest(c, type, group, width, precision, chars) = xmax(text, width)
    BY <1>3, Zenon DEF Longest
  <2>2. tmp_length(c, type, width, p, chars) = xmax(needed, width) + 1
    BY <1>3, Zenon DEF tmp_length
  <2>3. text \in Nat /\ needed \in Nat /\ ~ (text > needed)
    BY <1>1, Estimates DEF xmax
  <2> QED
    BY <2>1, <2>2, <2>3, Zenon DEF Compares, p
<1>4. CASE c \in {"x", "X"}
  <2> DEFINE text == xmax(Bits(type) \div 4, precision) + 2
             needed == xmax(HexEstimate(type), p) + 2
  <2>1. Longest(c, type, group, width, precision, chars) = xmax(text, width)
    BY <1>4, Zenon DEF Longest
  <2>2. tmp_length(c, type, width, p, chars) = xmax(needed, width) + 1
    BY <1>4, Zenon DEF tmp_length
  <2>3. text \in Nat /\ needed \in Nat /\ ~ (text > needed)
    BY <1>1, Estimates DEF xmax
  <2> QED
    BY <2>1, <2>2, <2>3, Zenon DEF Compares, p
<1> QED
  BY <1>2, <1>3, <1>4
LEMMA FloatsCompare ==
  ASSUME NEW c \in {"f", "F", "e", "E", "g", "G", "a", "A"}, NEW type, NEW group \in BOOLEAN,
         NEW width \in Nat, NEW precision \in Precisions, NEW chars
  PROVE  Compares(c, type, group, width, precision, chars,
                  \/ c \in {"a", "A"} /\ precision = NoPrecision
                  \/ c \in {"e", "E", "g", "G", "a", "A"} /\ precision = Negative
                  \/ c \in {"g", "G"} /\ group /\ Assumed(precision) > 36)
<1> DEFINE p == Assumed(precision)
           none == precision \in {NoPrecision, Negative}
           asC == IF none THEN 6 ELSE precision
           long_double == type = <<"long double">>
           L == Longest(c, type, group, width, precision, chars)
           T == tmp_length(c, type, width, p, chars)
<1>1. /\ p \in Nat /\ asC \in Nat
      /\ precision = NoPrecision => p = 6
      /\ precision = Negative => p = 0
      /\ ~ none => p = precision /\ asC = precision
      /\ none => asC = 6
  BY AssumedIs, SMT DEF Precisions
<1>2. none <=> precision = NoPrecision \/ precision = Negative
  BY Zenon
<1>n. NoPrecision # Negative
  BY SMT DEF NoPrecision, Negative
<1> HIDE DEF p, none, asC, long_double
<1>3. CASE c \in {"f", "F"}
  <2> DEFINE text == Grouped(FloatDigits(type), group) + 2 + asC
             needed == FloatEstimate(type) + 10 + p
  <2>1. L = xmax(text, width)
    BY <1>3, Zenon DEF Longest, asC, none
  <2>2. T = xmax(needed, width) + 1
    BY <1>3, Zenon DEF tmp_length
  <2>3. text \in Nat /\ needed \in Nat /\ ~ (text > needed)
    <3> DEFINE D == FloatDigits(type)
               E == FloatEstimate(type)
               G == Grouped(D, group)
    <3>1. D \in Nat \ {0} /\ E \in Nat /\ 2 * D <= E + 1
      BY Estimates, Zenon
    <3>2. /\ G \in Nat
          /\ ~ group => G = D
          /\ group => \E g \in Nat : G = D + g /\ 3 * g <= D - 1 /\ D - 3 <= 3 * g
      BY <3>1, GroupedIs, Zenon
    <3> HIDE DEF D, E, G
    <3>3. G \in Nat /\ 3 * G <= 4 * D
      BY <3>1, <3>2, SMT
    <3>4. asC <= p + 6
      BY <1>1, <1>2, SMT
    <3> QED
      BY <1>1, <3>1, <3>3, <3>4, SMT DEF D, E, G
  <2>4. c \notin {"a", "A"} /\ c \notin {"e", "E", "g", "G", "a", "A"} /\ c \notin {"g", "G"}
    BY <1>3, SMT
  <2> HIDE DEF text, needed
  <2> QED
    BY <2>1, <2>2, <2>3, <2>4, Zenon DEF Compares, p
<1>4. CASE c \in {"e", "E"}
  <2> DEFINE text == 3 + asC + (IF long_double THEN 6 ELSE 5)
             needed == 12 + p
  <2>1. L = xmax(text, width)
    BY <1>4, Zenon DEF Longest, asC, none, long_double
  <2>2. T = xmax(needed, width) + 1
    BY <1>4, Zenon DEF tmp_length
  <2>3. text \in Nat /\ needed \in Nat /\ (text > needed <=> precision = Negative)
    BY <1>1, <1>2, <1>n, SMT
  <2>4. c \notin {"a", "A"} /\ c \in {"e", "E", "g", "G", "a", "A"} /\ c \notin {"g", "G"}
    BY <1>4, SMT
  <2> HIDE DEF text, needed
  <2> QED
    BY <2>1, <2>2, <2>3, <2>4, Zenon DEF Compares, p
<1>5. CASE c \in {"g", "G"}
  <2> DEFINE most == xmax(asC, 1)
             G == Grouped(most, group)
             text == xmax(G + 1, most + 7)
             needed == 12 + p
  <2>1. L = xmax(text, width)
    BY <1>5, Zenon DEF Longest, asC, none
  <2>2. T = xmax(needed, width) + 1
    BY <1>5, Zenon DEF tmp_length
  <2>3. most \in Nat \ {0} /\ most >= asC /\ (most = asC \/ (most = 1 /\ asC = 0))
    BY <1>1, SMT DEF xmax
  <2> HIDE DEF most
  <2>4. /\ G \in Nat
        /\ ~ group => G = most
        /\ group => \E g \in Nat : G = most + g /\ 3 * g <= most - 1 /\ most - 3 <= 3 * g
    BY <2>3, GroupedIs, Zenon
  <2> HIDE DEF G
  <2>5. /\ text \in Nat /\ needed \in Nat
        /\ text > needed <=> precision = Negative \/ (group /\ p > 36)
    <3>1. CASE precision = Negative
      BY <1>1, <1>2, <2>3, <2>4, <3>1, SMT DEF xmax
    <3>2. CASE precision # Negative
      <4>1. p = asC
        BY <1>1, <1>2, <3>2, SMT
      <4>2. CASE ~ group
        BY <1>1, <2>3, <2>4, <3>2, <4>1, <4>2, SMT DEF xmax
      <4>3. CASE group
        <5>1. PICK g \in Nat : G = most + g /\ 3 * g <= most - 1 /\ most - 3 <= 3 * g
          BY <2>4, <4>3, Zenon
        <5> QED
          BY <1>1, <2>3, <3>2, <4>1, <4>3, <5>1, SMT DEF xmax
      <4> QED
        BY <4>2, <4>3, Zenon
    <3> QED
      BY <3>1, <3>2, Zenon
  <2>6. c \notin {"a", "A"} /\ c \in {"e", "E", "g", "G", "a", "A"}
    BY <1>5, SMT
  <2> HIDE DEF text, needed
  <2> QED
    BY <1>5, <2>1, <2>2, <2>5, <2>6, Zenon DEF Compares, p
<1>6. CASE c \in {"a", "A"}
  <2> DEFINE text == 5 + (IF none THEN (IF long_double THEN 15 ELSE 13) ELSE precision)
                       + (IF long_double THEN 7 ELSE 6)
             needed == 12 + p
  <2>1. L = xmax(text, width)
    BY <1>6, Zenon DEF Longest, none, long_double
  <2>2. T = xmax(needed, width) + 1
    BY <1>6, Zenon DEF tmp_length
  <2>3. /\ text \in Nat /\ needed \in Nat
        /\ text > needed <=> precision = NoPrecision \/ precision = Negative
    BY <1>1, <1>2, SMT
  <2>4. c \in {"e", "E", "g", "G", "a", "A"} /\ c \notin {"g", "G"}
    BY <1>6, SMT
  <2> HIDE DEF text, needed
  <2> QED
    BY <1>6, <2>1, <2>2, <2>3, <2>4, Zenon DEF Compares, p
<1> QED
  BY <1>3, <1>4, <1>5, <1>6, Zenon

LEMMA TextsCompare ==
  ASSUME NEW c \in {"c", "s", "p"}, NEW type, NEW group \in BOOLEAN,
         NEW width \in Nat, NEW precision \in Precisions, NEW chars \in Nat
  PROVE  Compares(c, type, group, width, precision, chars, FALSE)
<1> DEFINE p == Assumed(precision)
<1>1. CASE c \in {"c", "s"}
  <2>1. Longest(c, type, group, width, precision, chars) = xmax(chars, width)
    BY <1>1, Zenon DEF Longest
  <2>2. tmp_length(c, type, width, p, chars) = xmax(chars, width) + 1
    BY <1>1, Zenon DEF tmp_length
  <2>3. ~ (chars > chars)
    BY SMT
  <2> QED
    BY <2>1, <2>2, <2>3, Zenon DEF Compares, p
<1>2. CASE c = "p"
  <2> DEFINE needed == 64 \div 4 + 1 + 2
  <2>1. Longest(c, type, group, width, precision, chars) = xmax(18, width)
    BY <1>2, Zenon DEF Longest
  <2>2. tmp_length(c, type, width, p, chars) = xmax(needed, width) + 1
    BY <1>2, Zenon DEF tmp_length
  <2>3. 64 \div 4 = 16
    BY Z3
  <2>4. 18 \in Nat /\ needed \in Nat /\ ~ (18 > needed)
    BY <2>3, SMT
  <2> HIDE DEF needed
  <2> QED
    BY <2>1, <2>2, <2>4, Zenon DEF Compares, p
<1> QED
  BY <1>1, <1>2, Zenon

(* A comparison of text and what is needed says when the room is enough.    *)
LEMMA RoomFollows ==
  ASSUME NEW c, NEW type, NEW group, NEW width \in Nat, NEW precision, NEW chars,
         NEW exceeds \in BOOLEAN,
         Compares(c, type, group, width, precision, chars, exceeds)
  PROVE  Longest(c, type, group, width, precision, chars)
           >= tmp_length(c, type, width, Assumed(precision), chars)
         <=> Longest(c, type, group, width, precision, chars) > width /\ exceeds
<1> DEFINE L == Longest(c, type, group, width, precision, chars)
           T == tmp_length(c, type, width, Assumed(precision), chars)
<1>1. PICK text \in Nat, needed \in Nat :
        /\ L = xmax(text, width) /\ T = xmax(needed, width) + 1
        /\ text > width => (text > needed <=> exceeds)
  BY Zenon DEF Compares
<1> HIDE DEF L, T
<1>2. L >= T <=> L > width /\ exceeds
  BY <1>1, SMT DEF xmax
<1> QED
  BY <1>2, Zenon DEF L, T

LEMMA RoomCompares ==
  ASSUME NEW c \in SprintfConversions, NEW type, NEW group \in BOOLEAN,
         NEW width \in Nat, NEW precision \in Precisions, NEW chars \in Nat
  PROVE  Compares(c, type, group, width, precision, chars, Misjudged(c, group, precision))
<1> DEFINE exceeds == Misjudged(c, group, precision)
<1>1. CASE c \in {"d", "i", "u", "o", "x", "X"} \/ c \in {"c", "s", "p"}
  <2>1. Compares(c, type, group, width, precision, chars, FALSE)
    BY <1>1, IntegersCompare, TextsCompare, Zenon
  <2>2. ~ exceeds
    BY <1>1, SMT DEF Misjudged
  <2> HIDE DEF exceeds
  <2> QED
    BY <2>1, <2>2, Zenon DEF Compares, exceeds
<1>2. CASE c \in {"f", "F", "e", "E", "g", "G", "a", "A"}
  BY <1>2, FloatsCompare, Zenon DEF Misjudged
<1>3. c \in {"d", "i", "u", "o", "x", "X"} \/ c \in {"c", "s", "p"}
        \/ c \in {"f", "F", "e", "E", "g", "G", "a", "A"}
  BY Zenon DEF SprintfConversions
<1> QED
  BY <1>1, <1>2, <1>3, Zenon

LEMMA RoomsAreNats ==
  ASSUME NEW c, NEW type, NEW group, NEW width \in Nat, NEW precision, NEW chars, NEW exceeds,
         Compares(c, type, group, width, precision, chars, exceeds)
  PROVE  /\ Longest(c, type, group, width, precision, chars) \in Nat
         /\ tmp_length(c, type, width, Assumed(precision), chars) \in Nat
<1> DEFINE L == Longest(c, type, group, width, precision, chars)
           T == tmp_length(c, type, width, Assumed(precision), chars)
<1>1. PICK text \in Nat, needed \in Nat : L = xmax(text, width) /\ T = xmax(needed, width) + 1
  BY Zenon DEF Compares
<1> HIDE DEF L, T
<1>2. L \in Nat /\ T \in Nat
  BY <1>1, SMT DEF xmax
<1> QED
  BY <1>2, Zenon DEF L, T

(* Under sprintf, the text of a directive is longer than the room made for  *)
(* it, which vasnprintf.c answers with abort, for some %a, %e, %g and %'g   *)
(* only: for every width, every precision and every length of a string.     *)
THEOREM SprintfRoom ==
  ASSUME NEW c \in SprintfConversions, NEW type, NEW group \in BOOLEAN,
         NEW width \in Nat, NEW precision \in Precisions, NEW chars \in Nat
  PROVE  HasRoom(tmp_length(c, type, width, Assumed(precision), chars), c, type, group, width,
                 precision, chars)
<1>1. Misjudged(c, group, precision) \in BOOLEAN
  BY Zenon DEF Misjudged
<1>2. Longest(c, type, group, width, precision, chars)
        >= tmp_length(c, type, width, Assumed(precision), chars)
      <=> Longest(c, type, group, width, precision, chars) > width
            /\ Misjudged(c, group, precision)
  BY <1>1, RoomCompares, RoomFollows, Zenon
<1> QED
  BY <1>2, Zenon DEF HasRoom
-----------------------------------------------------------------------------
(***************************************************************************)
(* The result as it grows.                                                 *)
(***************************************************************************)
Results ==
  [errno : {"none", "ENOMEM", "EINVAL", "abort"}, length : Nat, allocated : Nat,
   where : {"NULL", "resultbuf", "own"}]

Starts ==
  {s \in [errno : {"none"}, length : {0}, allocated : Nat, where : {"NULL", "resultbuf"}] :
     s.allocated < SIZE_MAX /\ (s.where = "NULL" => s.allocated = 0)}

(* Room for n characters for some times is more than there is.              *)
Short(n) == xsum(xtimes(n + 1, 4), 24) > Memory

(* A text of n characters, in the buffer of the start, or, if one of u does *)
(* not fit there, in memory of its own.                                     *)
Sound(r, n, u, start) ==
  /\ r \in Results /\ r.errno = "none" /\ r.length = n /\ n <= r.allocated
  /\ \/ r.where = start.where /\ r.allocated = start.allocated
     \/ /\ r.where = "own" /\ 0 < r.allocated /\ r.allocated <= Memory
        /\ start.where = "resultbuf" => start.allocated <= u

LEMMA ShortIs ==
  ASSUME Limits, NEW n \in Nat
  PROVE  Short(n) <=> 4 * (n + 1) + 24 > Memory
<1>1. /\ xtimes(n + 1, 4) \in Nat
      /\ IF 4 * (n + 1) <= SIZE_MAX THEN xtimes(n + 1, 4) = 4 * (n + 1)
                                    ELSE xtimes(n + 1, 4) = SIZE_MAX
  BY ProductsAre
<1>2. LET size == xtimes(n + 1, 4)
      IN /\ xsum(size, 24) \in Nat /\ xsum(size, 24) <= SIZE_MAX
         /\ xsum(size, 24) = size + 24 \/ (xsum(size, 24) = SIZE_MAX /\ SIZE_MAX < size + 24)
  BY <1>1, SumsAre
<1> QED
  BY <1>1, <1>2 DEF Limits, Short

LEMMA ShortGrows ==
  ASSUME Limits, NEW n \in Nat, NEW m \in Nat, n <= m, Short(n)
  PROVE  Short(m)
<1>1. 4 * (n + 1) + 24 > Memory
  BY ShortIs
<1>2. 4 * (m + 1) + 24 > Memory
  BY <1>1 DEF Limits
<1> QED
  BY <1>2, ShortIs

LEMMA SoundGrows ==
  ASSUME NEW r, NEW n, NEW u \in Nat, NEW w \in Nat, u <= w, NEW start \in Starts,
         Sound(r, n, u, start)
  PROVE  Sound(r, n, w, start)
<1>1. start.allocated \in Nat
  BY DEF Starts
<1> QED
  BY <1>1 DEF Sound

(* Room is made for what is needed, in memory of its own, or memory is      *)
(* short.                                                                   *)
LEMMA EnsuredIs ==
  ASSUME Limits, NEW start \in Starts, NEW n \in Nat, NEW u \in Nat, n <= u,
         NEW r, Sound(r, n, u, start), NEW needed \in Nat, needed <= 2 * u + 14,
         needed > r.allocated => r.allocated <= u
  PROVE  LET e == ENSURE_ALLOCATION(r, needed)
         IN \/ Sound(e, n, u, start) /\ needed <= e.allocated
               /\ (e = r \/ (e.where = "own" /\ r.allocated < e.allocated))
            \/ e = Failure("ENOMEM") /\ Short(u)
<1> DEFINE a == r.allocated
           allocated == xmax(IF a > 0 THEN xtimes(a, 2) ELSE 12, needed)
           e == ENSURE_ALLOCATION(r, needed)
<1>1. /\ r \in Results /\ r.errno = "none" /\ r.length = n /\ a \in Nat /\ n <= a
      /\ start.allocated \in Nat
  BY DEF Sound, Results, Starts
<1>2. ~ Failed(r)
  BY <1>1 DEF Failed
<1>3. CASE needed <= a
  <2>1. e = r
    BY <1>3, Zenon DEF ENSURE_ALLOCATION
  <2> QED
    BY <1>3, <2>1, Zenon
<1>4. CASE ~ (needed <= a)
  <2>1. e = IF Allocates(allocated) THEN [r EXCEPT !.allocated = allocated, !.where = "own"]
            ELSE Failure("ENOMEM")
    BY <1>2, <1>4, Zenon DEF ENSURE_ALLOCATION
  <2>2. xtimes(a, 2) \in Nat /\ IF 2 * a <= SIZE_MAX THEN xtimes(a, 2) = 2 * a
                                                     ELSE xtimes(a, 2) = SIZE_MAX
    BY <1>1, ProductsAre
  <2>3. /\ allocated \in Nat /\ needed <= allocated /\ a < allocated
        /\ allocated <= 2 * u + 14
    BY <1>1, <1>4, <2>2 DEF xmax, Limits
  <2>4. a <= u
    BY <1>1, <1>4
  <2> HIDE DEF allocated
  <2>5. CASE Allocates(allocated)
    <3>1. allocated <= Memory
      BY <2>5 DEF Allocates
    <3>2. e = [r EXCEPT !.allocated = allocated, !.where = "own"]
      BY <2>1, <2>5, Zenon
    <3> HIDE DEF e
    <3>3. /\ e \in Results /\ e.errno = "none" /\ e.length = n /\ e.allocated = allocated
          /\ e.where = "own"
      BY <1>1, <2>3, <3>2 DEF Results
    <3>4. start.where = "resultbuf" => start.allocated <= u
      BY <1>1, <2>4 DEF Sound
    <3>5. Sound(e, n, u, start)
      BY <1>1, <2>3, <3>1, <3>3, <3>4 DEF Sound
    <3> QED
      BY <2>3, <3>3, <3>5, Zenon DEF e
  <2>6. CASE ~ Allocates(allocated)
    <3>1. allocated > Memory
      BY <2>3, <2>6 DEF Allocates, size_overflow_p, Limits
    <3>2. Short(u)
      BY <2>3, <3>1, ShortIs DEF Limits
    <3> QED
      BY <2>1, <2>6, <3>2, Zenon
  <2> QED
    BY <2>5, <2>6
<1> QED
  BY <1>3, <1>4

LEMMA FailuresAre ==
  ASSUME NEW errno, errno # "none"
  PROVE  Failed(Failure(errno)) /\ Failure(errno).errno = errno
BY DEF Failed, Failure

LEMMA FailureStays ==
  ASSUME NEW r, Failed(r), NEW n
  PROVE  ENSURE_ALLOCATION(r, n) = r /\ AppendText(r, n) = r
BY Zenon DEF ENSURE_ALLOCATION, AppendText

LEMMA AppendedIs ==
  ASSUME Limits, NEW start \in Starts, NEW t \in Nat, NEW n \in Nat, NEW r, Sound(r, t, t, start)
  PROVE  \/ Sound(AppendText(r, n), t + n, t + n, start)
         \/ AppendText(r, n) = Failure("ENOMEM") /\ Short(t + n)
<1> DEFINE needed == xsum(t, n)
           e == ENSURE_ALLOCATION(r, needed)
<1>1. /\ r.length = t /\ r.allocated \in Nat /\ t <= r.allocated
      /\ r.where = "own" => r.allocated < SIZE_MAX
      /\ r.allocated < SIZE_MAX
  BY DEF Sound, Results, Starts, Limits
<1>2. needed \in Nat /\ (needed = t + n \/ (needed = SIZE_MAX /\ SIZE_MAX < t + n))
  BY SumsAre
<1>3. AppendText(r, n) = IF Failed(e) THEN e ELSE [e EXCEPT !.length = needed]
  BY <1>1, Zenon DEF AppendText
<1> HIDE DEF needed
<1>4. Sound(r, t, t + n, start)
  BY SoundGrows
<1>5. \/ Sound(e, t, t + n, start) /\ needed <= e.allocated
      \/ e = Failure("ENOMEM") /\ Short(t + n)
  <2>1. needed <= 2 * (t + n) + 14 /\ t <= t + n /\ t + n \in Nat
    BY <1>1, <1>2
  <2>2. needed > r.allocated => r.allocated <= t + n
    BY <1>1, <1>2
  <2> QED
    BY <1>2, <1>4, <2>1, <2>2, EnsuredIs
<1> HIDE DEF e
<1>6. CASE Sound(e, t, t + n, start) /\ needed <= e.allocated
  <2>1. AppendText(r, n) = [e EXCEPT !.length = needed]
    BY <1>3, <1>6 DEF Sound, Failed
  <2>2. e.allocated < SIZE_MAX /\ e.allocated \in Nat
    BY <1>6 DEF Sound, Results, Starts, Limits
  <2>3. needed = t + n
    BY <1>2, <1>6, <2>2
  <2> QED
    BY <1>2, <1>6, <2>1, <2>3 DEF Sound, Results
<1>7. CASE e = Failure("ENOMEM") /\ Short(t + n)
  <2>1. AppendText(r, n) = Failure("ENOMEM")
    BY <1>3, <1>7, FailuresAre
  <2> QED
    BY <1>7, <2>1
<1> QED
  BY <1>5, <1>6, <1>7

(***************************************************************************)
(* One directive under snprintf.                                           *)
(***************************************************************************)
Tries == [result : Results, percent_n : BOOLEAN, over : BOOLEAN]

(* The length up to which the result grows: that of the whole text, or,     *)
(* where the conversion fails, all there is.                                *)
Upto(t, n) == IF n = Fails THEN SIZE_MAX ELSE t + n

Unsettled(try, t) ==
  /\ try \in Tries /\ ~ try.over /\ try.result.errno = "none" /\ try.result.length = t
  /\ t < try.result.allocated /\ try.result.allocated < SIZE_MAX

(* An attempt learns that there is no %n, or that the text fits, or makes   *)
(* the result larger.                                                       *)
LEMMA AttemptIs ==
  ASSUME Limits, NEW system, NEW t \in Nat, NEW n \in Lengths,
         NEW try, Unsettled(try, t)
  PROVE  LET next == Attempt(system, n, try)
             r    == try.result
         IN \/ try.percent_n /\ next = [try EXCEPT !.percent_n = FALSE]
            \/ /\ n \in Nat /\ t + n < r.allocated
               /\ next = [try EXCEPT !.result = [r EXCEPT !.length = t + n], !.over = TRUE]
            \/ \E needed \in Nat :
                 /\ next = [try EXCEPT !.result = ENSURE_ALLOCATION(r, needed)]
                 /\ needed > r.allocated /\ r.allocated <= Upto(t, n)
                 /\ needed <= 2 * Upto(t, n) + 14
<1> DEFINE r == try.result
           a == r.allocated
           maxlen == a - t
           said == snprintf(system, n, maxlen, try.percent_n)
           count == IF said.count >= 0 THEN xmax(said.count, said.retcount) ELSE said.retcount
           Again(needed) == [try EXCEPT !.result = ENSURE_ALLOCATION(r, needed)]
           next == Attempt(system, n, try)
           double == xsum(xtimes(a, 2), 12)
           larger == xmax(xsum(t, count), xtimes(a, 2))
<1>0. r \in Results /\ r.length = t /\ t < a /\ a < SIZE_MAX /\ ~ Failed(r) /\ ~ try.over
  BY Zenon DEF Unsettled, Tries, Failed
<1>1. a \in Nat /\ 0 < a /\ maxlen \in Nat /\ t < a /\ a < SIZE_MAX
  <2>1. r \in Results /\ t < a /\ a < SIZE_MAX
    BY <1>0, Zenon
  <2> HIDE DEF r
  <2> QED
    BY <2>1 DEF Results
<1>2. Fails = -1 /\ n \in Int /\ (n \in Nat \/ n = -1) /\ (n \in Nat => n # Fails)
  BY DEF Lengths, Fails
<1> DEFINE known == n >= 0 /\ try.percent_n /\ system = "C99"
           HP == system = "HP-UX"
<1>3. /\ said.count = IF known THEN n ELSE -1
      /\ said.retcount = IF HP /\ n >= maxlen THEN -1 ELSE n
      /\ ~ (known /\ HP)
  <2>1. ~ (known /\ HP)
    BY Zenon
  <2> QED
    BY <2>1, Zenon DEF snprintf
<1>4. next = IF said.count < 0 /\ try.percent_n THEN [try EXCEPT !.percent_n = FALSE]
             ELSE IF count < 0 THEN Again(double)
             ELSE IF count >= maxlen THEN Again(larger)
             ELSE [try EXCEPT !.result.length = @ + count, !.over = TRUE]
  <2> HIDE DEF said
  <2> QED
    BY <1>0, Zenon DEF Attempt, said
<1> HIDE DEF said, known, HP
<1>5. \/ count = n
      \/ count = -1 /\ n >= maxlen
  BY <1>1, <1>2, <1>3, SMT DEF xmax
<1> HIDE DEF count, next
<1>6. xtimes(a, 2) \in Nat /\ IF 2 * a <= SIZE_MAX THEN xtimes(a, 2) = 2 * a
                                                   ELSE xtimes(a, 2) = SIZE_MAX
  BY <1>1, ProductsAre
<1>7. SUFFICES ASSUME ~ (said.count < 0 /\ try.percent_n)
               PROVE  \/ /\ n \in Nat /\ t + n < a
                         /\ next = [try EXCEPT !.result = [r EXCEPT !.length = t + n], !.over = TRUE]
                      \/ \E needed \in Nat :
                           /\ next = Again(needed) /\ needed > a /\ a <= Upto(t, n)
                           /\ needed <= 2 * Upto(t, n) + 14
  <2>1. said.count < 0 /\ try.percent_n
          => try.percent_n /\ next = [try EXCEPT !.percent_n = FALSE]
    BY <1>4, Zenon
  <2> QED
    BY <1>7, <2>1, Zenon DEF next
<1>8. CASE count < 0
  <2>1. next = Again(double)
    BY <1>4, <1>7, <1>8, Zenon
  <2>2. /\ double \in Nat /\ double <= SIZE_MAX
        /\ double = xtimes(a, 2) + 12 \/ (double = SIZE_MAX /\ SIZE_MAX < xtimes(a, 2) + 12)
    <3> DEFINE twice == xtimes(a, 2)
    <3>1. twice \in Nat
      BY <1>6
    <3> HIDE DEF twice
    <3>2. /\ xsum(twice, 12) \in Nat /\ xsum(twice, 12) <= SIZE_MAX
          /\ xsum(twice, 12) = twice + 12 \/ (xsum(twice, 12) = SIZE_MAX /\ SIZE_MAX < twice + 12)
      BY <3>1, SumsAre
    <3> QED
      BY <3>2 DEF twice
  <2> HIDE DEF double
  <2>3. n = Fails \/ n >= maxlen
    BY <1>2, <1>5, <1>8
  <2>4. double > a /\ a <= Upto(t, n) /\ double <= 2 * Upto(t, n) + 14
    <3>1. double > a /\ double <= 2 * a + 12
      BY <1>1, <1>6, <2>2 DEF Limits
    <3>2. CASE n = Fails
      <4>1. Upto(t, n) = SIZE_MAX
        BY <3>2, Zenon DEF Upto
      <4> QED
        BY <1>1, <2>2, <3>1, <4>1 DEF Limits
    <3>3. CASE n # Fails
      <4>1. Upto(t, n) = t + n
        BY <3>3, Zenon DEF Upto
      <4> QED
        BY <1>1, <1>2, <2>2, <2>3, <3>1, <3>3, <4>1
    <3> QED
      BY <3>2, <3>3
  <2> HIDE DEF Again
  <2> QED
    BY <2>1, <2>2, <2>4, Zenon
<1>9. CASE ~ (count < 0) /\ count >= maxlen
  <2>1. next = Again(larger)
    BY <1>4, <1>7, <1>9, Zenon
  <2>2. count = n /\ n \in Nat /\ n # Fails /\ Upto(t, n) = t + n
    <3>1. count = n /\ n \in Nat /\ n # Fails
      BY <1>2, <1>5, <1>9
    <3> QED
      BY <3>1, Zenon DEF Upto
  <2>3. xsum(t, n) \in Nat /\ (xsum(t, n) = t + n \/ (xsum(t, n) = SIZE_MAX /\ SIZE_MAX < t + n))
    BY <2>2, SumsAre
  <2>4. larger = xmax(xsum(t, n), xtimes(a, 2))
    BY <2>2, Zenon
  <2> HIDE DEF larger
  <2>5. /\ larger \in Nat /\ larger > a
        /\ a <= t + n /\ larger <= 2 * (t + n) + 14
    BY <1>1, <1>6, <1>9, <2>2, <2>3, <2>4 DEF xmax, Limits
  <2> HIDE DEF Again
  <2> QED
    BY <2>1, <2>2, <2>5, Zenon
<1>10. CASE ~ (count < 0) /\ ~ (count >= maxlen)
  <2>1. next = [try EXCEPT !.result.length = @ + count, !.over = TRUE]
    BY <1>4, <1>7, <1>10, Zenon
  <2>2. count = n /\ n \in Nat /\ t + n < a
    BY <1>1, <1>2, <1>5, <1>10
  <2>3. next = [try EXCEPT !.result = [r EXCEPT !.length = t + n], !.over = TRUE]
    BY <1>0, <2>1, <2>2, Zenon
  <2> QED
    BY <2>2, <2>3, Zenon
<1> QED
  BY <1>8, <1>9, <1>10, Zenon

(* How often an attempt has not made the result larger.                     *)
Waits(try) == IF try.percent_n THEN 0 ELSE 1

Grown(r, times) == times = 0 \/ (r.where = "own" /\ times <= r.allocated)

(* After k attempts: the text is there, memory was short, or the result has *)
(* grown with every attempt that has not learned that there is no %n.       *)
Trying(try, k, t, n, start) ==
  /\ try \in Tries
  /\ \/ try.over /\ n \in Nat /\ Sound(try.result, t + n, t + n, start)
     \/ ~ try.over /\ try.result = Failure("ENOMEM") /\ Short(Upto(t, n))
     \/ /\ Unsettled(try, t) /\ Sound(try.result, t, Upto(t, n), start)
        /\ Grown(try.result, k - Waits(try))

LEMMA WaitsAre ==
  ASSUME NEW try
  PROVE  Waits(try) \in {0, 1}
BY Zenon DEF Waits

LEMMA TryingOn ==
  ASSUME Limits, NEW start \in Starts, NEW system, NEW t \in Nat, NEW n \in Lengths,
         NEW k \in Nat, NEW try, Trying(try, k, t, n, start)
  PROVE  Trying(Attempt(system, n, try), k + 1, t, n, start)
<1> DEFINE next == Attempt(system, n, try)
           r == try.result
           u == Upto(t, n)
<1>1. CASE try.over /\ n \in Nat /\ Sound(r, t + n, t + n, start)
  <2>1. next = try
    BY <1>1, Zenon DEF Attempt
  <2> QED
    BY <1>1, <2>1, Zenon DEF Trying
<1>2. CASE ~ try.over /\ r = Failure("ENOMEM") /\ Short(u)
  <2>1. Failed(r)
    BY <1>2, FailuresAre, Zenon
  <2>2. next = try
    BY <2>1, Zenon DEF Attempt
  <2> QED
    BY <1>2, <2>2, Zenon DEF Trying
<1>3. CASE Unsettled(try, t) /\ Sound(r, t, u, start) /\ Grown(r, k - Waits(try))
  <2>0. try \in Tries /\ DOMAIN try = {"result", "percent_n", "over"}
    <3>1. try \in Tries
      BY Zenon DEF Trying
    <3> QED
      BY <3>1, Zenon DEF Tries
  <2>1. r \in Results /\ t < r.allocated /\ r.allocated < SIZE_MAX /\ ~ try.over
    BY <1>3, <2>0, Zenon DEF Unsettled, Tries
  <2>2. r.allocated \in Nat
    <3> HIDE DEF r
    <3> QED
      BY <2>1 DEF Results
  <2>3. u \in Nat /\ t <= u
    <3>1. CASE n = Fails
      <4>1. u = SIZE_MAX
        BY <3>1, Zenon DEF Upto
      <4> QED
        BY <2>1, <2>2, <4>1 DEF Limits
    <3>2. CASE n # Fails
      <4>1. u = t + n /\ n \in Nat
        BY <3>2, Zenon DEF Upto, Lengths
      <4> QED
        BY <4>1
    <3> QED
      BY <3>1, <3>2
  <2>4. \/ try.percent_n /\ next = [try EXCEPT !.percent_n = FALSE]
        \/ /\ n \in Nat /\ t + n < r.allocated
           /\ next = [try EXCEPT !.result = [r EXCEPT !.length = t + n], !.over = TRUE]
        \/ \E needed \in Nat :
             /\ next = [try EXCEPT !.result = ENSURE_ALLOCATION(r, needed)]
             /\ needed > r.allocated /\ r.allocated <= u /\ needed <= 2 * u + 14
    BY <1>3, AttemptIs, Zenon
  <2> SUFFICES Trying(next, k + 1, t, n, start)
    BY Zenon
  <2> HIDE DEF next, u
  <2>5. CASE try.percent_n /\ next = [try EXCEPT !.percent_n = FALSE]
    <3>1. next \in Tries /\ next.result = r /\ ~ next.over /\ ~ next.percent_n
      BY <2>0, <2>1, <2>5, Zenon DEF Tries
    <3>2. Unsettled(next, t)
      BY <1>3, <3>1, Zenon DEF Unsettled
    <3>3. Waits(try) = 0 /\ Waits(next) = 1
      BY <2>5, <3>1, Zenon DEF Waits
    <3>4. (k + 1) - Waits(next) = k - Waits(try)
      BY <3>3
    <3> QED
      BY <1>3, <3>1, <3>2, <3>4, Zenon DEF Trying, u
  <2>6. CASE /\ n \in Nat /\ t + n < r.allocated
             /\ next = [try EXCEPT !.result = [r EXCEPT !.length = t + n], !.over = TRUE]
    <3> DEFINE e == [r EXCEPT !.length = t + n]
    <3>1. e \in Results /\ Sound(e, t + n, t + n, start)
      <4>1. n # Fails
        BY <2>6 DEF Fails
      <4>2. u = t + n
        BY <4>1, Zenon DEF Upto, u
      <4> HIDE DEF r
      <4> QED
        BY <1>3, <2>1, <2>2, <2>6, <4>2 DEF Sound, Results
    <3> HIDE DEF e
    <3>2. next \in Tries /\ next.over /\ next.result = e
      <4>1. next = [try EXCEPT !.result = e, !.over = TRUE]
        BY <2>6, Zenon DEF e
      <4> QED
        BY <2>0, <3>1, <4>1, Zenon DEF Tries
    <3> QED
      BY <2>6, <3>1, <3>2, Zenon DEF Trying
  <2>7. CASE \E needed \in Nat :
               /\ next = [try EXCEPT !.result = ENSURE_ALLOCATION(r, needed)]
               /\ needed > r.allocated /\ r.allocated <= u /\ needed <= 2 * u + 14
    <3>1. PICK needed \in Nat :
            /\ next = [try EXCEPT !.result = ENSURE_ALLOCATION(r, needed)]
            /\ needed > r.allocated /\ r.allocated <= u /\ needed <= 2 * u + 14
      BY <2>7, Zenon
    <3> DEFINE e == ENSURE_ALLOCATION(r, needed)
    <3>2. \/ Sound(e, t, u, start) /\ needed <= e.allocated
             /\ (e = r \/ (e.where = "own" /\ r.allocated < e.allocated))
          \/ e = Failure("ENOMEM") /\ Short(u)
      BY <1>3, <2>3, <3>1, EnsuredIs, Zenon
    <3> HIDE DEF e
    <3>3. next.result = e /\ ~ next.over /\ (next.percent_n <=> try.percent_n)
          /\ (e \in Results => next \in Tries)
      <4>1. next = [try EXCEPT !.result = e]
        BY <3>1, Zenon DEF e
      <4> QED
        BY <2>0, <2>1, <4>1, Zenon DEF Tries
    <3>4. CASE Sound(e, t, u, start) /\ needed <= e.allocated
               /\ (e = r \/ (e.where = "own" /\ r.allocated < e.allocated))
      <4>1. /\ e \in Results /\ e.errno = "none" /\ e.length = t /\ t < e.allocated
            /\ e.where = "own" /\ e.allocated < SIZE_MAX /\ r.allocated < e.allocated
            /\ e.allocated \in Nat
        <5>1. e \in Results /\ e.errno = "none" /\ e.length = t
          BY <3>4, Zenon DEF Sound
        <5>2. e.allocated \in Nat
          BY <5>1 DEF Results
        <5>3. r.allocated < e.allocated
          BY <2>2, <3>1, <3>4, <5>2
        <5>4. e # r
          BY <2>2, <5>3
        <5>5. e.where = "own"
          BY <3>4, <5>4, Zenon
        <5>6. e.allocated <= Memory
          BY <3>4, <5>5 DEF Sound, Starts
        <5> HIDE DEF r
        <5> QED
          BY <2>1, <2>2, <5>1, <5>2, <5>3, <5>5, <5>6 DEF Limits
      <4>2. Unsettled(next, t)
        BY <3>3, <4>1, Zenon DEF Unsettled
      <4>3. Waits(next) = Waits(try)
        BY <3>3, Zenon DEF Waits
      <4>4. Grown(e, (k + 1) - Waits(next))
        <5> DEFINE w == Waits(try)
                   a == r.allocated
        <5>1. w \in {0, 1}
          BY WaitsAre
        <5>2. k - w = 0 \/ k - w <= a
          BY <1>3, Zenon DEF Grown
        <5>3. a \in Nat /\ a < e.allocated /\ e.allocated \in Nat
          BY <2>2, <4>1, Zenon
        <5> HIDE DEF w, a
        <5>4. (k + 1) - w <= e.allocated
          BY <5>1, <5>2, <5>3
        <5> QED
          BY <4>1, <4>3, <5>4, Zenon DEF w, Grown
      <4> QED
        BY <3>3, <3>4, <4>1, <4>2, <4>4, Zenon DEF Trying, u
    <3>5. CASE e = Failure("ENOMEM") /\ Short(u)
      <4>1. e \in Results
        BY <3>5 DEF Failure, Results
      <4> QED
        BY <3>3, <3>5, <4>1, Zenon DEF Trying, u
    <3> QED
      BY <3>2, <3>4, <3>5, Zenon
  <2> QED
    BY <2>4, <2>5, <2>6, <2>7, Zenon
<1> QED
  BY <1>1, <1>2, <1>3, Zenon DEF Trying

(* The attempts end before they are too many.                               *)
LEMMA TryingEnds ==
  ASSUME Limits, NEW start \in Starts, NEW t \in Nat, NEW n \in Lengths, NEW try,
         Trying(try, Memory + 2, t, n, start)
  PROVE  try.over \/ Failed(try.result)
<1> DEFINE w == Waits(try)
           r == try.result
<1>1. CASE Unsettled(try, t)
  <2>1. try \in Tries /\ Sound(r, t, Upto(t, n), start)
        /\ Grown(r, (Memory + 2) - w)
    <3>1. ~ try.over /\ r.errno = "none"
      BY <1>1, Zenon DEF Unsettled
    <3>2. r # Failure("ENOMEM")
      <4>1. Failure("ENOMEM").errno # "none"
        BY FailuresAre, Zenon DEF Failed
      <4> QED
        BY <3>1, <4>1, Zenon
    <3> QED
      BY <3>1, <3>2, Zenon DEF Trying
  <2>2. w \in {0, 1}
    BY WaitsAre
  <2> HIDE DEF w, r
  <2>3. r.where = "own" /\ (Memory + 2) - w <= r.allocated
    BY <2>1, <2>2 DEF Limits, Grown
  <2>4. r.allocated <= Memory /\ r.allocated \in Nat
    <3>1. Sound(r, t, Upto(t, n), start)
      BY <2>1, Zenon
    <3> QED
      BY <2>3, <3>1 DEF Sound, Starts, Results
  <2> QED
    BY <2>2, <2>3, <2>4 DEF Limits
<1>2. CASE r = Failure("ENOMEM")
  BY <1>2, FailuresAre, Zenon
<1> QED
  BY <1>1, <1>2, Zenon DEF Trying

FirstTry(r) == [result |-> r, percent_n |-> TRUE, over |-> FALSE]

(* The attempts of Execute, where they stay in some set.                    *)
Attempts(try, r, system, n) ==
  /\ try[0] = FirstTry(r)
  /\ \A k \in 1 .. Memory + 2 : try[k] = Attempt(system, n, try[k - 1])
  /\ Execute(r, system, n) =
       try[CHOOSE k \in 0 .. Memory + 2 : try[k].over \/ Failed(try[k].result)].result

LEMMA AttemptsAre ==
  ASSUME Limits, NEW system, NEW n, NEW r, NEW S, FirstTry(r) \in S,
         \A x \in S : Attempt(system, n, x) \in S
  PROVE  \E try : Attempts(try, r, system, n)
<1> DEFINE N     == Memory + 2
           base  == FirstTry(r)
           try   == CHOOSE f : f = [k \in 0 .. N |->
                      IF k = 0 THEN base ELSE Attempt(system, n, f[k - 1])]
           step  == [p \in (1 .. N) \X S |-> Attempt(system, n, p[2])]
<1>1. N \in Nat
  BY DEF Limits
<1>2. Execute(r, system, n) =
        try[CHOOSE k \in 0 .. N : try[k].over \/ Failed(try[k].result)].result
  BY Zenon DEF Execute, FirstTry
<1>3. base \in S
  OBVIOUS
<1> HIDE DEF N, base
<1>4. PICK f : Iterates(f, N, S, base, step)
  <2>1. step \in [(1 .. N) \X S -> S]
    OBVIOUS
  <2> HIDE DEF step
  <2> QED
    BY <1>1, <1>3, <2>1, Recursion
<1>5. ASSUME NEW k \in 1 .. N
      PROVE  f[k] = Attempt(system, n, f[k - 1])
  <2>1. f[k - 1] \in S /\ f[k] = step[<<k, f[k - 1]>>]
    <3> HIDE DEF step
    <3> QED
      BY <1>1, <1>4, IteratesEach
  <2> QED
    BY <2>1
<1>6. f = [k \in 0 .. N |-> IF k = 0 THEN base ELSE Attempt(system, n, f[k - 1])]
  <2> HIDE DEF step
  <2> QED
    BY <1>1, <1>4, <1>5 DEF Iterates
<1>7. try = [k \in 0 .. N |-> IF k = 0 THEN base ELSE Attempt(system, n, try[k - 1])]
  BY <1>6, Zenon
<1> HIDE DEF try
<1>8. try[0] = base /\ \A k \in 1 .. N : try[k] = Attempt(system, n, try[k - 1])
  <2>1. try[0] = base
    <3>1. 0 \in 0 .. N
      BY <1>1
    <3> QED
      BY <1>7, <3>1, Zenon
  <2>2. ASSUME NEW k \in 1 .. N
        PROVE  try[k] = Attempt(system, n, try[k - 1])
    <3>1. k \in 0 .. N /\ k # 0
      BY <1>1
    <3> QED
      BY <1>7, <3>1, Zenon
  <2> QED
    BY <2>1, <2>2
<1> QED
  BY <1>2, <1>8, Zenon DEF Attempts, N, base

LEMMA ExecuteStays ==
  ASSUME Limits, NEW system, NEW n, NEW r, Failed(r)
  PROVE  Execute(r, system, n) = r
<1> DEFINE base == FirstTry(r)
<1>1. base.result = r /\ ~ base.over
  BY Zenon DEF FirstTry
<1>2. Attempt(system, n, base) = base
  BY <1>1, Zenon DEF Attempt
<1>3. PICK try : Attempts(try, r, system, n)
  <2>1. base \in {base} /\ \A x \in {base} : Attempt(system, n, x) \in {base}
    BY <1>2, Zenon
  <2> QED
    BY <2>1, AttemptsAre, Zenon
<1> HIDE DEF base
<1> DEFINE N == Memory + 2
           T == {k \in 0 .. N : try[k] = base}
           Ended(k) == try[k].over \/ Failed(try[k].result)
<1>4. N \in Nat
  BY DEF Limits
<1>5. \A k \in 0 .. N : k \in T
  <2>1. 0 \in T
    BY <1>3, <1>4 DEF Attempts, base
  <2>2. ASSUME NEW k \in 1 .. N, k - 1 \in T
        PROVE  k \in T
    <3>1. try[k] = Attempt(system, n, try[k - 1])
      BY <1>3, Zenon DEF Attempts
    <3>2. k \in 0 .. N
      BY <1>4
    <3> QED
      BY <1>2, <2>2, <3>1, <3>2, Zenon
  <2> HIDE DEF T, N
  <2> QED
    BY <1>4, <2>1, <2>2, Induction, Zenon
<1> DEFINE K == CHOOSE k \in 0 .. N : Ended(k)
<1>6. K \in 0 .. N
  <2>1. 0 \in 0 .. N
    BY <1>4
  <2>2. Ended(0)
    BY <1>1, <1>5, <2>1, Zenon
  <2> HIDE DEF N, Ended
  <2> QED
    BY <2>1, <2>2, Zenon
<1>7. Execute(r, system, n) = try[K].result
  BY <1>3, Zenon DEF Attempts
<1> HIDE DEF K
<1> QED
  BY <1>1, <1>5, <1>6, <1>7, Zenon

(* One directive adds its text, or memory was short, or its conversion      *)
(* fails.                                                                   *)
LEMMA ExecutedIs ==
  ASSUME Limits, NEW start \in Starts, NEW system, NEW t \in Nat, NEW n \in Lengths,
         NEW r, Sound(r, t, t, start), t < r.allocated
  PROVE  LET e == Execute(r, system, n)
         IN \/ n \in Nat /\ Sound(e, t + n, t + n, start)
            \/ e = Failure("ENOMEM") /\ (n = Fails \/ Short(t + n))
<1> DEFINE base == FirstTry(r)
           N == Memory + 2
           S == {x \in Tries : \E k \in Nat : Trying(x, k, t, n, start)}
<1>1. /\ r \in Results /\ r.errno = "none" /\ r.length = t /\ r.allocated \in Nat
      /\ r.allocated < SIZE_MAX
  BY DEF Sound, Results, Starts, Limits
<1>2. Trying(base, 0, t, n, start)
  <2>1. base \in Tries /\ base.result = r /\ ~ base.over /\ base.percent_n
    BY <1>1, Zenon DEF FirstTry, Tries
  <2>2. Unsettled(base, t)
    BY <1>1, <2>1, Zenon DEF Unsettled
  <2>3. Sound(r, t, Upto(t, n), start)
    <3>1. Upto(t, n) \in Nat /\ t <= Upto(t, n)
      <4>1. CASE n = Fails
        <5>1. Upto(t, n) = SIZE_MAX
          BY <4>1, Zenon DEF Upto
        <5> QED
          BY <1>1, <5>1 DEF Limits
      <4>2. CASE n # Fails
        <5>1. n \in Nat /\ Upto(t, n) = t + n
          BY <4>2, Zenon DEF Upto, Lengths
        <5> QED
          BY <5>1
      <4> QED
        BY <4>1, <4>2
    <3> QED
      BY <3>1, SoundGrows
  <2>4. Grown(r, 0 - Waits(base))
    <3>1. Waits(base) = 0
      BY <2>1, Zenon DEF Waits
    <3>2. 0 - 0 = 0
      OBVIOUS
    <3> QED
      BY <3>1, <3>2, Zenon DEF Grown
  <2> QED
    BY <2>1, <2>2, <2>3, <2>4, Zenon DEF Trying
<1>3. PICK try : Attempts(try, r, system, n)
  <2>1. base \in S
    <3>1. 0 \in Nat
      OBVIOUS
    <3> QED
      BY <1>2, <3>1, Zenon DEF Trying
  <2>2. ASSUME NEW x \in S
        PROVE  Attempt(system, n, x) \in S
    <3>1. PICK k \in Nat : Trying(x, k, t, n, start)
      BY Zenon
    <3>2. Trying(Attempt(system, n, x), k + 1, t, n, start)
      BY <3>1, TryingOn
    <3>3. k + 1 \in Nat
      OBVIOUS
    <3> QED
      BY <3>2, <3>3, Zenon DEF Trying
  <2> HIDE DEF S
  <2> QED
    BY <2>1, <2>2, AttemptsAre, Zenon
<1> HIDE DEF base
<1> DEFINE T == {k \in 0 .. N : Trying(try[k], k, t, n, start)}
           Ended(k) == try[k].over \/ Failed(try[k].result)
           K == CHOOSE k \in 0 .. N : Ended(k)
<1>4. N \in Nat
  BY DEF Limits
<1>5. \A k \in 0 .. N : k \in T
  <2>1. 0 \in T
    <3>1. 0 \in 0 .. N
      BY <1>4
    <3>2. try[0] = base
      BY <1>3, Zenon DEF Attempts, base
    <3> QED
      BY <1>2, <3>1, <3>2, Zenon
  <2>2. ASSUME NEW k \in 1 .. N, k - 1 \in T
        PROVE  k \in T
    <3>1. try[k] = Attempt(system, n, try[k - 1])
      BY <1>3, Zenon DEF Attempts
    <3>2. k \in 0 .. N /\ k - 1 \in Nat /\ (k - 1) + 1 = k
      BY <1>4
    <3>3. Trying(try[k - 1], k - 1, t, n, start)
      BY <2>2, Zenon
    <3>4. Trying(Attempt(system, n, try[k - 1]), (k - 1) + 1, t, n, start)
      BY <3>2, <3>3, TryingOn
    <3> QED
      BY <3>1, <3>2, <3>4, Zenon
  <2> HIDE DEF T, N
  <2> QED
    BY <1>4, <2>1, <2>2, Induction, Zenon
<1>6. K \in 0 .. N /\ Ended(K)
  <2>1. N \in 0 .. N
    BY <1>4
  <2>2. Ended(N)
    <3>1. Trying(try[N], N, t, n, start)
      BY <1>5, <2>1, Zenon
    <3> QED
      BY <3>1, TryingEnds, Zenon
  <2> HIDE DEF N, Ended
  <2> QED
    BY <2>1, <2>2, Zenon
<1>7. Execute(r, system, n) = try[K].result
  BY <1>3, Zenon DEF Attempts
<1>8. Trying(try[K], K, t, n, start)
  BY <1>5, <1>6, Zenon
<1> DEFINE e == try[K].result
<1> HIDE DEF K, N
<1>9. \/ n \in Nat /\ Sound(e, t + n, t + n, start)
      \/ e = Failure("ENOMEM") /\ Short(Upto(t, n))
  <2>1. ~ Unsettled(try[K], t)
    BY <1>6, Zenon DEF Unsettled, Failed
  <2> QED
    BY <1>8, <2>1, Zenon DEF Trying
<1>10. n # Fails => Upto(t, n) = t + n
  BY Zenon DEF Upto
<1> QED
  BY <1>7, <1>9, <1>10, Zenon

(***************************************************************************)
(* The text before a directive, and the directive.                         *)
(***************************************************************************)
FailsOn(dp, system, args) == Fault(dp, system, args) # "none"

Errnos == {"ENOMEM", "EINVAL", "abort"}

(* Where a text of t characters has come to: it is there, or memory was     *)
(* short, or there was something against a directive.                       *)
Reached(r, t, failing, faults, start) ==
  \/ ~ failing /\ Sound(r, t, t, start)
  \/ r = Failure("ENOMEM") /\ Short(t)
  \/ failing /\ \E errno \in faults : r = Failure(errno)

LEMMA FaultsAre ==
  ASSUME NEW dp, NEW system, NEW args
  PROVE  Fault(dp, system, args) \in Errnos \cup {"none"}
BY Zenon DEF Fault, Errnos

LEMMA FailureReaches ==
  ASSUME Limits, NEW start, NEW faults, NEW t \in Nat, NEW u \in Nat, t <= u,
         NEW failing \in BOOLEAN, NEW r, Failed(r), Reached(r, t, failing, faults, start),
         NEW later \in BOOLEAN, failing => later
  PROVE  Reached(r, u, later, faults, start)
<1>1. ~ Sound(r, t, t, start)
  BY Zenon DEF Sound, Failed
<1>2. Short(t) => Short(u)
  BY ShortGrows
<1> QED
  BY <1>1, <1>2, Zenon DEF Reached

LEMMA ReachedSound ==
  ASSUME NEW start, NEW faults \in SUBSET Errnos, NEW t, NEW failing, NEW r, ~ Failed(r),
         Reached(r, t, failing, faults, start)
  PROVE  ~ failing /\ Sound(r, t, t, start)
<1>1. "ENOMEM" # "none" /\ "EINVAL" # "none" /\ "abort" # "none"
  OBVIOUS
<1>2. \A errno \in faults : errno # "none"
  BY <1>1, Zenon DEF Errnos
<1> QED
  BY <1>1, <1>2, FailuresAre, Zenon DEF Reached

LEMMA TextReaches ==
  ASSUME Limits, NEW start \in Starts, NEW faults \in SUBSET Errnos, NEW t \in Nat, NEW failing \in BOOLEAN, NEW r,
         Reached(r, t, failing, faults, start), NEW n \in Nat
  PROVE  Reached(AppendText(r, n), t + n, failing, faults, start)
<1>1. CASE Failed(r)
  <2>1. AppendText(r, n) = r
    BY <1>1, FailureStays
  <2>2. t <= t + n /\ t + n \in Nat
    OBVIOUS
  <2> QED
    BY <1>1, <2>1, <2>2, FailureReaches
<1>2. CASE ~ Failed(r)
  <2>1. ~ failing /\ Sound(r, t, t, start)
    BY <1>2, ReachedSound
  <2>2. \/ Sound(AppendText(r, n), t + n, t + n, start)
        \/ AppendText(r, n) = Failure("ENOMEM") /\ Short(t + n)
    BY <2>1, AppendedIs
  <2> QED
    BY <2>1, <2>2, Zenon DEF Reached
<1> QED
  BY <1>1, <1>2, Zenon

LEMMA SprintfReaches ==
  ASSUME Limits, NEW start \in Starts, NEW t \in Nat, NEW n \in Nat, NEW r, Sound(r, t, t, start),
         NEW tmp, HasTmp(tmp), ~ (n >= tmp)
  PROVE  LET e == ExecuteSprintf(r, tmp, n)
         IN Sound(e, t + n, t + n, start) \/ (e = Failure("ENOMEM") /\ Short(t + n))
<1> DEFINE a      == r.allocated
           needed == xmax(xsum(t, n), xtimes(a, 2))
           room   == ENSURE_ALLOCATION(r, needed)
           e      == IF n >= a - t THEN room ELSE r
<1>1. /\ r \in Results /\ r.errno = "none" /\ r.length = t /\ a \in Nat /\ t <= a
      /\ a < SIZE_MAX
  BY DEF Sound, Results, Starts, Limits
<1>2. ~ Failed(r) /\ ~ (n < 0)
  BY <1>1 DEF Failed
<1>3. ExecuteSprintf(r, tmp, n) = IF Failed(e) THEN e ELSE [e EXCEPT !.length = @ + n]
  BY <1>1, <1>2, Zenon DEF ExecuteSprintf
<1>4. Sound(r, t, t + n, start)
  BY SoundGrows
<1>5. CASE n >= a - t
  <2>1. xsum(t, n) \in Nat /\ (xsum(t, n) = t + n \/ (xsum(t, n) = SIZE_MAX /\ SIZE_MAX < t + n))
    BY SumsAre
  <2>2. xtimes(a, 2) \in Nat /\ IF 2 * a <= SIZE_MAX THEN xtimes(a, 2) = 2 * a
                                                     ELSE xtimes(a, 2) = SIZE_MAX
    BY <1>1, ProductsAre
  <2>3. needed \in Nat /\ needed <= 2 * (t + n) + 14 /\ a <= t + n /\ xsum(t, n) <= needed
    BY <1>1, <1>5, <2>1, <2>2 DEF xmax
  <2>4. e = room
    BY <1>5, Zenon
  <2> HIDE DEF e, needed
  <2>5. \/ Sound(room, t, t + n, start) /\ needed <= room.allocated
        \/ room = Failure("ENOMEM") /\ Short(t + n)
    BY <1>4, <2>3, EnsuredIs
  <2> HIDE DEF room
  <2>6. CASE Sound(room, t, t + n, start) /\ needed <= room.allocated
    <3>1. /\ room \in Results /\ room.errno = "none" /\ room.length = t
          /\ room.allocated \in Nat /\ room.allocated < SIZE_MAX
      BY <2>6 DEF Sound, Results, Starts, Limits
    <3>2. t + n <= room.allocated
      BY <2>1, <2>3, <2>6, <3>1
    <3>3. ExecuteSprintf(r, tmp, n) = [room EXCEPT !.length = t + n]
      BY <1>3, <2>4, <3>1, Zenon DEF Failed, Results
    <3>4. Sound([room EXCEPT !.length = t + n], t + n, t + n, start)
      BY <2>6, <3>1, <3>2 DEF Sound, Results
    <3> QED
      BY <3>3, <3>4, Zenon
  <2>7. CASE room = Failure("ENOMEM") /\ Short(t + n)
    <3>1. ExecuteSprintf(r, tmp, n) = Failure("ENOMEM")
      BY <1>3, <2>4, <2>7, FailuresAre, Zenon
    <3> QED
      BY <2>7, <3>1, Zenon
  <2> QED
    BY <2>5, <2>6, <2>7
<1>6. CASE ~ (n >= a - t)
  <2>1. e = r
    BY <1>6, Zenon
  <2>2. ExecuteSprintf(r, tmp, n) = [r EXCEPT !.length = t + n]
    BY <1>1, <1>2, <1>3, <2>1, Zenon DEF Results
  <2>3. Sound([r EXCEPT !.length = t + n], t + n, t + n, start)
    BY <1>1, <1>4, <1>6 DEF Sound, Results
  <2> QED
    BY <2>2, <2>3, Zenon
<1> QED
  BY <1>5, <1>6

LEMMA SnprintfReaches ==
  ASSUME Limits, NEW start \in Starts, NEW system, NEW t \in Nat, NEW n \in Lengths,
         NEW r, Sound(r, t, t, start)
  PROVE  LET e == Execute(ENSURE_ALLOCATION(r, xsum(r.length, 1)), system, n)
         IN \/ n \in Nat /\ Sound(e, t + n, t + n, start)
            \/ e = Failure("ENOMEM") /\ (n = Fails \/ Short(t + n))
<1> DEFINE needed == xsum(t, 1)
           room   == ENSURE_ALLOCATION(r, needed)
           e      == Execute(room, system, n)
<1>1. r.length = t /\ r.allocated \in Nat
  BY DEF Sound, Results
<1>2. needed \in Nat /\ (needed = t + 1 \/ (needed = SIZE_MAX /\ SIZE_MAX < t + 1))
  BY SumsAre
<1>3. e = Execute(ENSURE_ALLOCATION(r, xsum(r.length, 1)), system, n)
  BY <1>1, Zenon
<1> HIDE DEF needed, e
<1>4. \/ Sound(room, t, t, start) /\ needed <= room.allocated
      \/ room = Failure("ENOMEM") /\ Short(t)
  <2>1. needed <= 2 * t + 14 /\ (needed > r.allocated => r.allocated <= t)
    BY <1>1, <1>2
  <2> QED
    BY <1>2, <2>1, EnsuredIs
<1> HIDE DEF room
<1>5. CASE Sound(room, t, t, start) /\ needed <= room.allocated
  <2>1. room.allocated \in Nat /\ room.allocated < SIZE_MAX
    BY <1>5 DEF Sound, Results, Starts, Limits
  <2>2. t < room.allocated
    BY <1>2, <1>5, <2>1
  <2>3. LET x == Execute(room, system, n)
        IN \/ n \in Nat /\ Sound(x, t + n, t + n, start)
           \/ x = Failure("ENOMEM") /\ (n = Fails \/ Short(t + n))
    BY <1>5, <2>2, ExecutedIs
  <2> QED
    BY <1>3, <2>3, Zenon DEF e
<1>6. CASE room = Failure("ENOMEM") /\ Short(t)
  <2>1. e = Failure("ENOMEM")
    BY <1>6, FailuresAre, ExecuteStays, Zenon DEF e
  <2>2. n = Fails \/ Short(t + n)
    <3>1. n \in Nat => t <= t + n /\ t + n \in Nat
      OBVIOUS
    <3>2. n \in Nat => Short(t + n)
      BY <1>6, <3>1, ShortGrows
    <3> QED
      BY <3>2, Zenon DEF Lengths
  <2> QED
    BY <1>3, <2>1, <2>2, Zenon
<1> QED
  BY <1>4, <1>5, <1>6

LEMMA MakesIs ==
  ASSUME NEW dp, NEW args, IsConversion(dp) => Produces(dp, args) \in Lengths
  PROVE  LET n == Produces(dp, args)
         IN /\ Makes(dp, args) \in Nat
            /\ IsConversion(dp) /\ n \in Nat => Makes(dp, args) = n
            /\ dp.conversion = "%" => Makes(dp, args) = 1
            /\ dp.conversion = "n" => Makes(dp, args) = 0
<1> DEFINE n == Produces(dp, args)
<1>1. "n" # "%"
  BY Zenon
<1>2. IsConversion(dp) => Makes(dp, args) = xmax(n, 0)
  BY Zenon DEF Makes
<1>3. n \in Lengths => /\ xmax(n, 0) \in Nat
                       /\ n \in Nat => xmax(n, 0) = n
  <2> HIDE DEF n
  <2> QED
    BY DEF Lengths, Fails, xmax
<1>4. ~ IsConversion(dp) <=> dp.conversion \in {"%", "n"}
  BY Zenon DEF IsConversion
<1>5. ~ IsConversion(dp) => Makes(dp, args) = IF dp.conversion = "%" THEN 1 ELSE 0
  BY Zenon DEF Makes
<1>6. 1 \in Nat /\ 0 \in Nat
  OBVIOUS
<1> HIDE DEF n
<1>7. /\ dp.conversion = "%" => Makes(dp, args) = 1
      /\ dp.conversion = "n" => Makes(dp, args) = 0
      /\ ~ IsConversion(dp) => dp.conversion = "%" \/ dp.conversion = "n"
  BY <1>1, <1>4, <1>5, Zenon
<1> QED
  BY <1>2, <1>3, <1>6, <1>7, Zenon DEF n

LEMMA DirectiveReaches ==
  ASSUME Limits, NEW start \in Starts, NEW system, NEW faults \in SUBSET Errnos,
         NEW t \in Nat, NEW failing \in BOOLEAN, NEW r, Reached(r, t, failing, faults, start),
         NEW dp, NEW args, IsConversion(dp) => Produces(dp, args) \in Lengths,
         Fault(dp, system, args) \in faults \cup {"none"}
  PROVE  Reached(ExecuteDirective(r, dp, system, args), t + Makes(dp, args),
                 failing \/ FailsOn(dp, system, args), faults, start)
<1> DEFINE n     == Produces(dp, args)
           tmp   == TmpLength(dp, args)
           m     == Makes(dp, args)
           e     == ExecuteDirective(r, dp, system, args)
           fault == Fault(dp, system, args)
           later == failing \/ FailsOn(dp, system, args)
           room  == ENSURE_ALLOCATION(r, xsum(r.length, 1))
<1>1. /\ m \in Nat
      /\ IsConversion(dp) /\ n \in Nat => m = n
      /\ dp.conversion = "%" => m = 1
      /\ dp.conversion = "n" => m = 0
  BY MakesIs
<1>2. e = CASE dp.conversion = "%" -> AppendText(r, 1)
            [] dp.conversion = "n" -> r
            [] OTHER -> IF system = "sprintf only" THEN ExecuteSprintf(r, tmp, n)
                        ELSE Execute(room, system, n)
  BY Zenon DEF ExecuteDirective
<1>3. "n" # "%" /\ (IsConversion(dp) <=> dp.conversion # "%" /\ dp.conversion # "n")
  BY Zenon DEF IsConversion
<1>4. later \in BOOLEAN /\ t + m \in Nat /\ t <= t + m
  <2> HIDE DEF later
  <2>1. t + m \in Nat /\ t <= t + m
    BY <1>1
  <2>2. later \in BOOLEAN
    BY Zenon DEF later
  <2> QED
    BY <2>1, <2>2, Zenon
<1>a. /\ later <=> failing \/ fault # "none"
      /\ fault \in faults \cup {"none"}
      /\ ~ IsConversion(dp) => fault = "none"
  BY Zenon DEF FailsOn, Fault
<1>b. IsConversion(dp) =>
        fault = IF system # "sprintf only" THEN IF n = Fails THEN "ENOMEM" ELSE "none"
                ELSE IF ~ HasTmp(tmp) THEN "ENOMEM"
                ELSE IF n = Fails THEN "EINVAL"
                ELSE IF n >= tmp THEN "abort" ELSE "none"
  BY Zenon DEF Fault
<1> HIDE DEF n, tmp, m, e, fault, later, room
<1> SUFFICES Reached(e, t + m, later, faults, start)
  BY Zenon DEF e, m, later
<1>c. ASSUME fault # "none", e = Failure(fault)
      PROVE  Reached(e, t + m, later, faults, start)
  BY <1>a, <1>c, Zenon DEF Reached
<1>5. CASE dp.conversion = "%"
  <2>1. e = AppendText(r, 1) /\ m = 1 /\ (later <=> failing)
    BY <1>1, <1>2, <1>3, <1>5, <1>a, Zenon
  <2>2. Reached(AppendText(r, 1), t + 1, failing, faults, start)
    BY TextReaches
  <2> QED
    BY <2>1, <2>2, Zenon DEF Reached
<1>6. CASE dp.conversion = "n"
  <2>1. e = r /\ m = 0 /\ (later <=> failing)
    BY <1>1, <1>2, <1>3, <1>6, <1>a, Zenon
  <2>2. t + 0 = t
    OBVIOUS
  <2> QED
    BY <2>1, <2>2, Zenon DEF Reached
<1>7. CASE IsConversion(dp) /\ Failed(r)
  <2>1. e = r
    <3>1. ExecuteSprintf(r, tmp, n) = r
      BY <1>7, Zenon DEF ExecuteSprintf
    <3>2. Execute(room, system, n) = r
      BY <1>7, FailureStays, ExecuteStays, Zenon DEF room
    <3> QED
      BY <1>2, <1>3, <1>7, <3>1, <3>2, Zenon
  <2>2. failing => later
    BY <1>a, Zenon
  <2>3. Reached(r, t + m, later, faults, start)
    BY <1>4, <1>7, <2>2, FailureReaches
  <2> QED
    BY <2>1, <2>3, Zenon
<1>8. CASE IsConversion(dp) /\ ~ Failed(r)
  <2>1. ~ failing /\ Sound(r, t, t, start)
    BY <1>8, ReachedSound
  <2>2. n \in Lengths /\ (later <=> fault # "none")
    BY <1>8, <1>a, <2>1, Zenon DEF n
  <2>3. (n \in Nat => n # Fails) /\ (n = Fails => n < 0) /\ (n \in Nat => ~ (n < 0))
    BY DEF Fails
  <2>4. n \in Nat => m = n
    BY <1>1, <1>8, Zenon
  <2>5. CASE system = "sprintf only"
    <3>1. e = ExecuteSprintf(r, tmp, n)
      BY <1>2, <1>3, <1>8, <2>5, Zenon
    <3>2. CASE fault = "none"
      <4>1. HasTmp(tmp) /\ n \in Nat /\ ~ (n >= tmp)
        BY <1>8, <1>b, <2>2, <2>5, <3>2, Zenon DEF Lengths
      <4>2. LET x == ExecuteSprintf(r, tmp, n)
            IN Sound(x, t + n, t + n, start) \/ (x = Failure("ENOMEM") /\ Short(t + n))
        BY <2>1, <4>1, SprintfReaches
      <4> QED
        BY <2>2, <2>4, <3>1, <3>2, <4>1, <4>2, Zenon DEF Reached
    <3>3. CASE fault # "none"
      <4>1. e = Failure(fault)
        BY <1>8, <1>b, <2>2, <2>3, <2>5, <3>1, <3>3, Zenon DEF ExecuteSprintf, Lengths
      <4> QED
        BY <1>c, <3>3, <4>1
    <3> QED
      BY <3>2, <3>3
  <2>6. CASE system # "sprintf only"
    <3>1. e = Execute(room, system, n)
      BY <1>2, <1>3, <1>8, <2>6, Zenon
    <3>2. \/ n \in Nat /\ Sound(e, t + n, t + n, start)
          \/ e = Failure("ENOMEM") /\ (n = Fails \/ Short(t + n))
      BY <2>1, <2>2, <3>1, SnprintfReaches, Zenon DEF room
    <3>3. CASE n = Fails
      <4>1. fault = "ENOMEM" /\ e = Failure("ENOMEM")
        BY <1>8, <1>b, <2>3, <2>6, <3>2, <3>3, Zenon
      <4>2. "ENOMEM" # "none"
        OBVIOUS
      <4> QED
        BY <1>c, <4>1, <4>2, Zenon
    <3>4. CASE n # Fails
      <4>1. t + m = t + n /\ ~ later
        BY <1>8, <1>b, <2>2, <2>4, <2>6, <3>4, Zenon DEF Lengths
      <4>2. Sound(e, t + n, t + n, start) \/ (e = Failure("ENOMEM") /\ Short(t + n))
        BY <3>2, <3>4, Zenon
      <4> QED
        BY <4>1, <4>2, Zenon DEF Reached
    <3> QED
      BY <3>3, <3>4, Zenon
  <2> QED
    BY <2>5, <2>6
<1> QED
  BY <1>3, <1>5, <1>6, <1>7, <1>8, Zenon

(***************************************************************************)
(* All directives.                                                         *)
(***************************************************************************)
FailingUpto(dirs, system, args, k) == \E j \in 1 .. k : FailsOn(dirs[j], system, args)

Totals(total, format, dirs, args) ==
  /\ total \in [0 .. Len(dirs) -> Int] /\ total[0] = Len(format)
  /\ \A k \in 1 .. Len(dirs) :
       total[k] = total[k - 1] + Makes(dirs[k], args) - (dirs[k].dir_end - dirs[k].dir_start)

(* The length of the text up to the end of the directive k.                 *)
TextUpto(total, format, dirs, k) == (total[k] - Len(format)) + (After(dirs, k) - 1)

LEMMA InPlaceIs ==
  ASSUME Limits, NEW format \in Seq(STRING), NEW parse, InPlace(format, parse)
  PROVE  /\ parse.dir \in Seq(Dirs(format)) /\ Len(parse.dir) \in Nat /\ ~ parse.failed
         /\ parse.arg \in Seq(Types(format))
         /\ \A k \in 1 .. Len(parse.dir) : parse.dir[k] \in Dirs(format)
<1> DEFINE D == Dirs(format)
           T == Types(format)
<1>1. parse \in Parses(D, T)
  BY Zenon DEF InPlace
<1> HIDE DEF D, T
<1>2. parse.dir \in Seq(D) /\ parse.arg \in Seq(T)
  BY <1>1 DEF Parses
<1>3. parse.failed \in {FALSE}
  BY <1>1, Zenon DEF Parses
<1>4. Len(parse.dir) \in Nat /\ \A k \in 1 .. Len(parse.dir) : parse.dir[k] \in D
  BY <1>2
<1> QED
  BY <1>2, <1>3, <1>4, Zenon DEF D, T

LEMMA EachInPlace ==
  ASSUME Limits, NEW format \in Seq(STRING), NEW parse, InPlace(format, parse), NEW args,
         AreArguments(args, parse), NEW k \in 1 .. Len(parse.dir)
  PROVE  LET dp == parse.dir[k]
         IN /\ dp.dir_start \in Nat /\ dp.dir_end \in Nat /\ dp.dir_start < dp.dir_end
            /\ dp.dir_end <= Len(format) + 1 /\ After(parse.dir, k) = dp.dir_end
            /\ After(parse.dir, k - 1) \in Nat /\ After(parse.dir, k - 1) <= dp.dir_start
            /\ Before(parse.dir, k) = dp.dir_start - After(parse.dir, k - 1)
            /\ IsConversion(dp) => Produces(dp, args) \in Lengths
            /\ Makes(dp, args) \in Nat
<1> DEFINE dirs == parse.dir
           dp   == dirs[k]
<1>1. /\ Len(dirs) \in Nat /\ k \in 1 .. Len(dirs)
      /\ \A j \in 1 .. Len(dirs) : dirs[j] \in Dirs(format)
      /\ Len(format) \in Nat /\ parse.arg \in Seq(Types(format))
  <2>1. Len(format) \in Nat
    OBVIOUS
  <2> QED
    BY <2>1, InPlaceIs, Zenon
<1>2. ASSUME NEW j \in 1 .. Len(dirs)
      PROVE  /\ dirs[j].dir_start \in Nat \ {0} /\ dirs[j].dir_end \in Nat
             /\ dirs[j].dir_start < dirs[j].dir_end
  BY <1>1, DirsAre, Zenon DEF Reading
<1>3. /\ After(dirs, k - 1) <= dp.dir_start /\ dp.dir_end <= Len(format) + 1
      /\ Agrees(parse.arg, dp)
  BY Zenon DEF InPlace
<1>4. k # 0 /\ (k - 1 = 0 \/ k - 1 \in 1 .. Len(dirs)) /\ (k - 1 = 0 <=> k = 1)
  BY <1>1
<1>5. After(dirs, k) = dp.dir_end /\ After(dirs, k - 1) \in Nat
  <2>1. 1 \in Nat
    OBVIOUS
  <2> QED
    BY <1>2, <1>4, <2>1, Zenon DEF After
<1>6. Before(dirs, k) = dp.dir_start - After(dirs, k - 1)
  BY <1>4, Zenon DEF Before, After
<1>7. IsConversion(dp) => Produces(dp, args) \in Lengths
  <2> SUFFICES ASSUME IsConversion(dp)
               PROVE  Produces(dp, args) \in Lengths
    OBVIOUS
  <2>1. dp.arg_index # ARG_NONE
    <3>1. dp \in Dirs(format)
      BY <1>1, Zenon
    <3>2. Whole(dp, format) /\ (dp.type = TYPE_NONE <=> dp.arg_index = ARG_NONE)
      BY <3>1, DirsAre, Zenon
    <3> QED
      BY <3>2, Zenon DEF Whole, IsConversion
  <2>2. dp.arg_index \in Nat /\ dp.arg_index < Len(parse.arg)
    BY <1>3, <2>1, Zenon DEF Agrees, Fetched
  <2>3. Len(parse.arg) \in Nat
    <3> DEFINE T == Types(format)
    <3>1. parse.arg \in Seq(T)
      BY <1>1
    <3> HIDE DEF T
    <3> QED
      BY <3>1
  <2> HIDE DEF dp
  <2>4. dp.arg_index + 1 \in 1 .. Len(parse.arg)
    BY <2>2, <2>3
  <2> QED
    BY <2>4, Zenon DEF AreArguments, Produces, dp
<1>8. Makes(dp, args) \in Nat
  BY <1>7, MakesIs, Zenon
<1> QED
  BY <1>2, <1>3, <1>5, <1>6, <1>7, <1>8, Zenon

LEMMA TotalsAre ==
  ASSUME Limits, NEW format \in Seq(STRING), NEW parse, InPlace(format, parse), NEW args,
         AreArguments(args, parse)
  PROVE  \E total : /\ Totals(total, format, parse.dir, args)
                    /\ Total(format, parse, args) = total[Len(parse.dir)]
<1> DEFINE dirs  == parse.dir
           N     == Len(dirs)
           base  == Len(format)
           More(k) == Makes(dirs[k], args) - (dirs[k].dir_end - dirs[k].dir_start)
           step  == [p \in (1 .. N) \X Int |-> p[2] + More(p[1])]
           total == CHOOSE f : f = [k \in 0 .. N |-> IF k = 0 THEN base ELSE f[k - 1] + More(k)]
<1>1. N \in Nat /\ base \in Int /\ ~ parse.failed
  <2>1. base \in Int
    OBVIOUS
  <2> QED
    BY <2>1, InPlaceIs, Zenon
<1>2. ASSUME NEW k \in 1 .. N
      PROVE  More(k) \in Int
  <2>1. Makes(dirs[k], args) \in Nat /\ dirs[k].dir_end \in Nat /\ dirs[k].dir_start \in Nat
    BY EachInPlace, Zenon
  <2> HIDE DEF dirs
  <2> QED
    BY <2>1
<1>3. Total(format, parse, args) = total[N]
  BY <1>1, Zenon DEF Total
<1> HIDE DEF N, base, More
<1>4. PICK f : Iterates(f, N, Int, base, step)
  <2>1. step \in [(1 .. N) \X Int -> Int]
    BY <1>2
  <2> HIDE DEF step
  <2> QED
    BY <1>1, <2>1, Recursion
<1>5. ASSUME NEW k \in 1 .. N
      PROVE  f[k] = f[k - 1] + More(k)
  <2>1. f[k - 1] \in Int /\ f[k] = step[<<k, f[k - 1]>>]
    <3> HIDE DEF step
    <3> QED
      BY <1>1, <1>4, IteratesEach
  <2> QED
    BY <2>1
<1>6. f = [k \in 0 .. N |-> IF k = 0 THEN base ELSE f[k - 1] + More(k)]
  <2> HIDE DEF step
  <2> QED
    BY <1>1, <1>4, <1>5 DEF Iterates
<1>7. total = [k \in 0 .. N |-> IF k = 0 THEN base ELSE total[k - 1] + More(k)]
  BY <1>6, Zenon
<1> HIDE DEF total
<1>8. total[0] = base /\ \A k \in 1 .. N : total[k] = total[k - 1] + More(k)
  <2>1. total[0] = base
    BY <1>1, <1>7
  <2>2. ASSUME NEW k \in 1 .. N
        PROVE  total[k] = total[k - 1] + More(k)
    <3>1. k \in 0 .. N /\ k # 0
      BY <1>1
    <3> QED
      BY <1>7, <3>1, Zenon
  <2> QED
    BY <2>1, <2>2
<1> DEFINE T == {k \in 0 .. N : total[k] \in Int}
<1>9. \A k \in 0 .. N : k \in T
  <2>1. 0 \in T
    BY <1>1, <1>8
  <2>2. ASSUME NEW k \in 1 .. N, k - 1 \in T
        PROVE  k \in T
    <3>1. k \in 0 .. N
      BY <1>1
    <3>2. total[k - 1] \in Int /\ total[k] = total[k - 1] + More(k) /\ More(k) \in Int
      BY <1>2, <1>8, <2>2, Zenon
    <3> QED
      BY <3>1, <3>2
  <2> HIDE DEF T
  <2> QED
    BY <1>1, <2>1, <2>2, Induction, Zenon
<1>10. total \in [0 .. N -> Int]
  <2>1. \A k \in 0 .. N : total[k] \in Int
    BY <1>9, Zenon
  <2> DEFINE g == [k \in 0 .. N |-> IF k = 0 THEN base ELSE total[k - 1] + More(k)]
  <2>2. total = [k \in 0 .. N |-> total[k]]
    <3>1. total = g
      BY <1>7
    <3>2. DOMAIN g = 0 .. N /\ g = [k \in DOMAIN g |-> g[k]]
      OBVIOUS
    <3> HIDE DEF g
    <3> QED
      BY <3>1, <3>2
  <2> QED
    BY <2>1, <2>2
<1> QED
  BY <1>3, <1>8, <1>10, Zenon DEF Totals, N, base, More

(* The text grows by what stands before a directive and by what it makes.   *)
TextGrows(total, format, dirs, args) ==
  /\ TextUpto(total, format, dirs, 0) = 0
  /\ \A k \in 1 .. Len(dirs) :
       /\ Before(dirs, k) \in Nat
       /\ TextUpto(total, format, dirs, k) =
            (TextUpto(total, format, dirs, k - 1) + Before(dirs, k)) + Makes(dirs[k], args)

LEMMA TextUptoIs ==
  ASSUME Limits, NEW format \in Seq(STRING), NEW parse, InPlace(format, parse), NEW args,
         AreArguments(args, parse), NEW total, Totals(total, format, parse.dir, args)
  PROVE  TextGrows(total, format, parse.dir, args)
<1> DEFINE dirs == parse.dir
           N    == Len(dirs)
           Text(k) == TextUpto(total, format, dirs, k)
           L    == Len(format)
<1>1. N \in Nat /\ L \in Nat /\ total \in [0 .. N -> Int] /\ total[0] = L
  <2>1. L \in Nat
    OBVIOUS
  <2> QED
    BY <2>1, InPlaceIs, Zenon DEF Totals
<1>2. Text(0) = 0
  <2>1. Text(0) = (total[0] - L) + (1 - 1)
    BY Zenon DEF TextUpto, After
  <2> QED
    BY <1>1, <2>1
<1>3. ASSUME NEW k \in 1 .. N
      PROVE  /\ Before(dirs, k) \in Nat
             /\ Text(k) = (Text(k - 1) + Before(dirs, k)) + Makes(dirs[k], args)
  <2> DEFINE m == Makes(dirs[k], args)
             s == dirs[k].dir_start
             e == dirs[k].dir_end
             b == Before(dirs, k)
             a == After(dirs, k - 1)
             x == total[k - 1]
             y == total[k]
  <2>1. /\ s \in Nat /\ e \in Nat /\ s < e /\ After(dirs, k) = e /\ a \in Nat /\ a <= s
        /\ b = s - a /\ m \in Nat
    BY EachInPlace, Zenon
  <2>2. x \in Int /\ y \in Int /\ y = x + m - (e - s)
    <3>1. k - 1 \in 0 .. N /\ k \in 0 .. N
      BY <1>1
    <3> QED
      BY <1>1, <3>1, Zenon DEF Totals
  <2>3. Text(k) = (y - L) + (e - 1) /\ Text(k - 1) = (x - L) + (a - 1)
    BY <2>1, Zenon DEF TextUpto
  <2> HIDE DEF m, s, e, b, a, x, y, L, Text
  <2>4. b \in Nat /\ Text(k) = (Text(k - 1) + b) + m
    BY <1>1, <2>1, <2>2, <2>3
  <2> QED
    BY <2>4, Zenon DEF b, m, Text
<1> QED
  BY <1>2, <1>3, Zenon DEF TextGrows

(* The directive k with the text before it.                                 *)
NextResult(r, dirs, k, system, args) ==
  ExecuteDirective(IF Before(dirs, k) > 0 THEN AppendText(r, Before(dirs, k)) ELSE r,
                   dirs[k], system, args)

(* After k directives the text up to there is reached.                      *)
ReachedUpto(r, k, total, format, dirs, args, system, faults, start) ==
  /\ TextUpto(total, format, dirs, k) \in Nat /\ r \in Results
  /\ Reached(r, TextUpto(total, format, dirs, k), FailingUpto(dirs, system, args, k), faults, start)

LEMMA ReachedAre ==
  ASSUME NEW r, NEW t, NEW failing, NEW faults \in SUBSET Errnos, NEW start,
         Reached(r, t, failing, faults, start)
  PROVE  r \in Results
<1>1. \A errno \in Errnos : Failure(errno) \in Results
  BY DEF Failure, Results, Errnos
<1>2. "ENOMEM" \in Errnos
  BY DEF Errnos
<1> QED
  BY <1>1, <1>2, Zenon DEF Reached, Sound

LEMMA NextReaches ==
  ASSUME Limits, NEW start \in Starts, NEW system, NEW format \in Seq(STRING), NEW parse,
         InPlace(format, parse), NEW args, AreArguments(args, parse),
         NEW total, Totals(total, format, parse.dir, args), NEW k \in 1 .. Len(parse.dir), NEW r,
         NEW faults \in SUBSET Errnos, faults = Faults(parse, system, args),
         ReachedUpto(r, k - 1, total, format, parse.dir, args, system, faults, start)
  PROVE  ReachedUpto(NextResult(r, parse.dir, k, system, args), k, total, format, parse.dir,
                     args, system, faults, start)
<1> DEFINE dirs == parse.dir
           dp   == dirs[k]
           b    == Before(dirs, k)
           t    == TextUpto(total, format, dirs, k - 1)
           m    == Makes(dp, args)
           old  == FailingUpto(dirs, system, args, k - 1)
           new  == old \/ FailsOn(dp, system, args)
           text == IF b > 0 THEN AppendText(r, b) ELSE r
           next == NextResult(r, dirs, k, system, args)
<1>1. /\ t \in Nat /\ r \in Results /\ Reached(r, t, old, faults, start)
      /\ b \in Nat /\ TextUpto(total, format, dirs, k) = (t + b) + m
      /\ m \in Nat /\ (IsConversion(dp) => Produces(dp, args) \in Lengths)
  <2>1. t \in Nat /\ r \in Results /\ Reached(r, t, old, faults, start)
    BY Zenon DEF ReachedUpto
  <2>2. \A j \in 1 .. Len(dirs) :
          /\ Before(dirs, j) \in Nat
          /\ TextUpto(total, format, dirs, j) =
               (TextUpto(total, format, dirs, j - 1) + Before(dirs, j)) + Makes(dirs[j], args)
    <3>1. TextGrows(total, format, dirs, args)
      BY TextUptoIs, Zenon
    <3> QED
      BY <3>1, Zenon DEF TextGrows
  <2>3. m \in Nat /\ (IsConversion(dp) => Produces(dp, args) \in Lengths)
    BY EachInPlace
  <2> QED
    BY <2>1, <2>2, <2>3, Zenon
<1>2. old \in BOOLEAN
  BY Zenon DEF FailingUpto
<1>3. new <=> FailingUpto(dirs, system, args, k)
  <2>1. /\ k \in Nat /\ \A j : j \in 1 .. k - 1 => j \in 1 .. k
        /\ \A j \in 1 .. k : j = k \/ j \in 1 .. k - 1
        /\ k \in 1 .. k
    <3>1. Len(dirs) \in Nat
      BY InPlaceIs, Zenon
    <3> HIDE DEF dirs
    <3>2. k \in 1 .. Len(dirs)
      BY DEF dirs
    <3> QED
      BY <3>1, <3>2
  <2> QED
    BY <2>1, Zenon DEF FailingUpto
<1>4. next = ExecuteDirective(text, dp, system, args)
  BY Zenon DEF NextResult
<1>a. Fault(dp, system, args) \in faults \cup {"none"}
  <2>1. DOMAIN dirs = 1 .. Len(dirs)
    <3> DEFINE D == Dirs(format)
    <3>1. dirs \in Seq(D)
      BY InPlaceIs, Zenon
    <3> HIDE DEF D, dirs
    <3> QED
      BY <3>1
  <2>2. dp \in ToSet(dirs)
    BY <2>1, Zenon DEF ToSet
  <2> QED
    BY <2>2, Zenon DEF Faults
<1> HIDE DEF dirs, dp, b, t, m, old, new, next
<1>5. Reached(text, t + b, old, faults, start)
  <2>1. CASE b > 0
    <3>1. Reached(AppendText(r, b), t + b, old, faults, start)
      BY <1>1, <1>2, TextReaches
    <3> QED
      BY <2>1, <3>1, Zenon
  <2>2. CASE ~ (b > 0)
    <3>1. t + b = t
      BY <1>1, <2>2
    <3> QED
      BY <1>1, <2>2, <3>1, Zenon
  <2> QED
    BY <2>1, <2>2
<1> HIDE DEF text
<1>6. t + b \in Nat /\ (t + b) + m \in Nat
  BY <1>1
<1>7. Reached(next, (t + b) + m, new, faults, start)
  <2>1. Reached(ExecuteDirective(text, dp, system, args), (t + b) + Makes(dp, args),
                old \/ FailsOn(dp, system, args), faults, start)
    BY <1>1, <1>2, <1>5, <1>6, <1>a, DirectiveReaches
  <2> QED
    BY <1>4, <2>1, Zenon DEF m, new
<1>8. next \in Results
  BY <1>7, ReachedAre
<1> QED
  BY <1>1, <1>3, <1>6, <1>7, <1>8, Zenon DEF ReachedUpto, Reached, next, dirs

LEMMA AllReached ==
  ASSUME Limits, NEW start \in Starts, NEW system, NEW format \in Seq(STRING), NEW parse,
         InPlace(format, parse), NEW args, AreArguments(args, parse),
         NEW total, Totals(total, format, parse.dir, args),
         NEW faults \in SUBSET Errnos, faults = Faults(parse, system, args)
  PROVE  ReachedUpto(ExecuteAll(parse.dir, system, args, start), Len(parse.dir), total, format,
                     parse.dir, args, system, faults, start)
<1> DEFINE dirs == parse.dir
           N    == Len(dirs)
           Is(r, k) == ReachedUpto(r, k, total, format, dirs, args, system, faults, start)
           G(r, k)  == NextResult(r, dirs, k, system, args)
           step   == [p \in (1 .. N) \X Results |-> IF Is(p[2], p[1] - 1) THEN G(p[2], p[1]) ELSE start]
           result == CHOOSE f : f = [k \in 0 .. N |-> IF k = 0 THEN start ELSE G(f[k - 1], k)]
<1>1. N \in Nat
  BY InPlaceIs, Zenon
<1>2. Is(start, 0) /\ start \in Results
  <2>1. /\ start \in Results /\ start.errno = "none" /\ start.length = 0
        /\ start.allocated \in Nat
    BY DEF Starts, Results
  <2>2. Sound(start, 0, 0, start)
    BY <2>1 DEF Sound
  <2>3. TextUpto(total, format, dirs, 0) = 0 /\ 0 \in Nat
    <3>1. 0 \in Nat
      OBVIOUS
    <3>2. TextGrows(total, format, dirs, args)
      BY TextUptoIs, Zenon
    <3> QED
      BY <3>1, <3>2, Zenon DEF TextGrows
  <2>4. ~ FailingUpto(dirs, system, args, 0)
    <3>1. 1 .. 0 = {}
      OBVIOUS
    <3> QED
      BY <3>1, Zenon DEF FailingUpto
  <2> QED
    BY <2>1, <2>2, <2>3, <2>4, Zenon DEF ReachedUpto, Reached
<1>3. ASSUME NEW k \in 1 .. N, NEW r, Is(r, k - 1)
      PROVE  Is(G(r, k), k)
  BY <1>3, NextReaches
<1>4. ExecuteAll(dirs, system, args, start) = result[N]
  BY Zenon DEF ExecuteAll, NextResult
<1>5. \A r, k : Is(r, k) => r \in Results
  BY Zenon DEF ReachedUpto
<1> HIDE DEF dirs, N, Is, G
<1>6. PICK f : Iterates(f, N, Results, start, step)
  <2>1. step \in [(1 .. N) \X Results -> Results]
    <3> DEFINE Next(p) == IF Is(p[2], p[1] - 1) THEN G(p[2], p[1]) ELSE start
    <3>1. ASSUME NEW p \in (1 .. N) \X Results
          PROVE  Next(p) \in Results
      <4>1. p[1] \in 1 .. N
        OBVIOUS
      <4>2. CASE Is(p[2], p[1] - 1)
        <5>1. Is(G(p[2], p[1]), p[1])
          BY <1>3, <4>1, <4>2, Zenon
        <5> QED
          BY <1>5, <4>2, <5>1, Zenon
      <4> QED
        BY <1>2, <4>2, Zenon
    <3>2. step = [p \in (1 .. N) \X Results |-> Next(p)]
      BY Zenon
    <3> HIDE DEF step, Next
    <3> QED
      BY <3>1, <3>2
  <2> HIDE DEF step
  <2> QED
    BY <1>1, <1>2, <2>1, Recursion
<1> DEFINE T == {k \in 0 .. N : Is(f[k], k)}
<1>7. ASSUME NEW k \in 1 .. N, k - 1 \in T
      PROVE  f[k] = G(f[k - 1], k)
  <2>1. f[k - 1] \in Results /\ f[k] = step[<<k, f[k - 1]>>]
    <3> HIDE DEF step
    <3> QED
      BY <1>1, <1>6, IteratesEach
  <2>2. Is(f[k - 1], k - 1)
    BY <1>7, Zenon
  <2>3. step[<<k, f[k - 1]>>] = IF Is(f[k - 1], k - 1) THEN G(f[k - 1], k) ELSE start
    BY <2>1
  <2> QED
    BY <2>1, <2>2, <2>3, Zenon
<1>8. \A k \in 0 .. N : k \in T
  <2>1. 0 \in T
    <3>1. 0 \in 0 .. N
      BY <1>1
    <3>2. f[0] = start
      BY <1>6, Zenon DEF Iterates
    <3> QED
      BY <1>2, <3>1, <3>2, Zenon
  <2>2. ASSUME NEW k \in 1 .. N, k - 1 \in T
        PROVE  k \in T
    <3>1. f[k] = G(f[k - 1], k) /\ Is(f[k - 1], k - 1)
      BY <1>7, <2>2, Zenon
    <3>2. Is(G(f[k - 1], k), k)
      BY <1>3, <3>1, Zenon
    <3>3. k \in 0 .. N
      BY <1>1
    <3> QED
      BY <3>1, <3>2, <3>3, Zenon
  <2> HIDE DEF T
  <2> QED
    BY <1>1, <2>1, <2>2, Induction, Zenon
<1>9. f = [k \in 0 .. N |-> IF k = 0 THEN start ELSE G(f[k - 1], k)]
  <2>1. ASSUME NEW k \in 1 .. N
        PROVE  f[k] = G(f[k - 1], k)
    <3>1. k - 1 \in 0 .. N
      BY <1>1
    <3> HIDE DEF T
    <3> QED
      BY <1>7, <1>8, <3>1, Zenon
  <2> HIDE DEF step, T, result
  <2>2. f \in [0 .. N -> Results] /\ f[0] = start
    BY <1>6, Zenon DEF Iterates
  <2>3. \A k \in 0 .. N : k = 0 \/ k \in 1 .. N
    BY <1>1
  <2>4. \A k \in 0 .. N : f[k] = IF k = 0 THEN start ELSE G(f[k - 1], k)
    BY <2>1, <2>2, <2>3, Zenon
  <2> QED
    BY <2>2, <2>4, Zenon
<1>10. result = [k \in 0 .. N |-> IF k = 0 THEN start ELSE G(result[k - 1], k)]
  BY <1>9, Zenon
<1> HIDE DEF result
<1> DEFINE R == {k \in 0 .. N : Is(result[k], k)}
<1>11. \A k \in 0 .. N : k \in R
  <2>1. 0 \in R
    <3>1. 0 \in 0 .. N
      BY <1>1
    <3>2. result[0] = start
      BY <1>10, <3>1, Zenon
    <3> QED
      BY <1>2, <3>1, <3>2, Zenon
  <2>2. ASSUME NEW k \in 1 .. N, k - 1 \in R
        PROVE  k \in R
    <3>1. k \in 0 .. N /\ k # 0
      BY <1>1
    <3>2. result[k] = G(result[k - 1], k)
      BY <1>10, <3>1, Zenon
    <3>3. Is(result[k - 1], k - 1)
      BY <2>2, Zenon
    <3>4. Is(G(result[k - 1], k), k)
      BY <1>3, <3>3, Zenon
    <3> QED
      BY <3>1, <3>2, <3>4, Zenon
  <2> HIDE DEF R
  <2> QED
    BY <1>1, <2>1, <2>2, Induction, Zenon
<1>12. N \in 0 .. N
  BY <1>1
<1>13. Is(result[N], N)
  BY <1>11, <1>12, Zenon
<1> QED
  BY <1>4, <1>13, Zenon DEF Is, N, dirs

(***************************************************************************)
(* What ends the program.                                                  *)
(***************************************************************************)
LEMMA RoomIsAsked ==
  ASSUME Limits, NEW format \in Seq(STRING), NEW parse, InPlace(format, parse), NEW args,
         AreArguments(args, parse), NEW dp \in ToSet(parse.dir), IsConversion(dp)
  PROVE  /\ dp.conversion \in SprintfConversions /\ MakesAsC(dp, args)
         /\ Width(dp, args) \in Nat /\ Precision(dp, args) \in Precisions
<1>1. PICK k \in 1 .. Len(parse.dir) : dp = parse.dir[k]
  <2> DEFINE D    == Dirs(format)
             dirs == parse.dir
  <2>1. dirs \in Seq(D)
    BY InPlaceIs, Zenon
  <2> HIDE DEF D, dirs
  <2>2. DOMAIN dirs = 1 .. Len(dirs)
    BY <2>1
  <2>3. dp \in ToSet(dirs)
    BY Zenon DEF dirs
  <2> QED
    BY <2>2, <2>3, Zenon DEF ToSet, dirs
<1>2. dp.conversion \in Conversions /\ Agrees(parse.arg, dp)
  BY <1>1, Zenon DEF InPlace
<1>3. dp.width \in Nat /\ dp.precision \in Nat
  <2>1. dp \in Dirs(format)
    BY <1>1, InPlaceIs, Zenon
  <2> QED
    BY <2>1, DirsAre, Zenon DEF Reading
<1>4. Len(parse.arg) \in Nat
  <2> DEFINE T == Types(format)
  <2>1. parse.arg \in Seq(T)
    BY InPlaceIs, Zenon
  <2> HIDE DEF T
  <2> QED
    BY <2>1
<1>5. ASSUME NEW n, Fetched(parse.arg, n, TYPE_INT), n # ARG_NONE
      PROVE  StarOf(n, args) \in Int
  <2>1. n \in Nat /\ n < Len(parse.arg)
    BY <1>5, Zenon DEF Fetched
  <2>2. n + 1 \in 1 .. Len(parse.arg)
    BY <1>4, <2>1
  <2> QED
    BY <2>2, Zenon DEF AreArguments, StarOf
<1>6. dp.conversion \in SprintfConversions
  BY <1>2, Zenon DEF Conversions, IsConversion
<1>7. Width(dp, args) \in Nat
  <2> DEFINE arg == StarOf(dp.width_arg_index, args)
  <2>1. Width(dp, args) = IF dp.width_arg_index = ARG_NONE THEN dp.width
                          ELSE IF arg < 0 THEN -arg ELSE arg
    BY Zenon DEF Width
  <2>2. CASE dp.width_arg_index = ARG_NONE
    BY <1>3, <2>1, <2>2, Zenon
  <2>3. CASE dp.width_arg_index # ARG_NONE
    <3>1. arg \in Int
      BY <1>2, <1>5, <2>3, Zenon DEF Agrees
    <3> HIDE DEF arg
    <3>2. (IF arg < 0 THEN -arg ELSE arg) \in Nat
      BY <3>1
    <3> QED
      BY <2>1, <2>3, <3>2, Zenon
  <2> QED
    BY <2>2, <2>3, Zenon
<1>8. Precision(dp, args) \in Precisions
  <2> DEFINE arg == StarOf(dp.precision_arg_index, args)
  <2>1. Precision(dp, args) = IF dp.precision_length = 0 THEN NoPrecision
                              ELSE IF dp.precision_arg_index = ARG_NONE THEN dp.precision
                              ELSE IF arg < 0 THEN Negative ELSE arg
    BY Zenon DEF Precision
  <2>2. CASE dp.precision_length = 0 \/ dp.precision_arg_index = ARG_NONE
    BY <1>3, <2>1, <2>2, Zenon DEF Precisions
  <2>3. CASE dp.precision_length # 0 /\ dp.precision_arg_index # ARG_NONE
    <3>1. arg \in Int
      BY <1>2, <1>5, <2>3, Zenon DEF Agrees
    <3> HIDE DEF arg
    <3>2. arg < 0 \/ arg \in Nat
      BY <3>1
    <3> QED
      BY <2>1, <2>3, <3>2, Zenon DEF Precisions
  <2> QED
    BY <2>2, <2>3, Zenon
<1>9. MakesAsC(dp, args)
  BY Zenon DEF AreArguments
<1> QED
  BY <1>6, <1>7, <1>8, <1>9, Zenon

LEMMA AbortsAre ==
  ASSUME Limits, NEW format \in Seq(STRING), NEW parse, InPlace(format, parse), NEW args,
         AreArguments(args, parse), NEW system, NEW dp \in ToSet(parse.dir)
  PROVE  AbortsRightly(dp, system, args)
<1> DEFINE n         == Produces(dp, args)
           c         == dp.conversion
           type      == dp.type
           group     == "'" \in dp.flags
           width     == Width(dp, args)
           precision == Precision(dp, args)
           chars     == Chars(dp, args)
           L         == Longest(c, type, group, width, precision, chars)
           T         == tmp_length(c, type, width, Assumed(precision), chars)
           exceeds   == Misjudged(c, group, precision)
<1> SUFFICES ASSUME Fault(dp, system, args) = "abort"
             PROVE  exceeds
  BY Zenon DEF AbortsRightly
<1>1. "abort" # "none" /\ "abort" # "ENOMEM" /\ "abort" # "EINVAL"
  OBVIOUS
<1>2. IsConversion(dp) /\ n # Fails /\ n >= T
  BY <1>1, Zenon DEF Fault, TmpLength
<1>3. /\ c \in SprintfConversions /\ MakesAsC(dp, args)
      /\ width \in Nat /\ precision \in Precisions
  BY <1>2, RoomIsAsked, Zenon
<1>4. chars \in Nat /\ n \in width .. L
  BY <1>2, <1>3, Zenon DEF MakesAsC
<1>5. group \in BOOLEAN /\ exceeds \in BOOLEAN
  <2>1. \A x, S : (x \in S) \in BOOLEAN
    OBVIOUS
  <2>2. group \in BOOLEAN
    BY <2>1, Zenon
  <2> HIDE DEF c, group, precision
  <2> QED
    BY <2>2, Zenon DEF Misjudged
<1> HIDE DEF n, c, type, group, width, precision, chars
<1>6. Compares(c, type, group, width, precision, chars, Misjudged(c, group, precision))
  BY <1>3, <1>4, <1>5, RoomCompares, Zenon
<1> HIDE DEF exceeds
<1>7. L \in Nat /\ T \in Nat /\ (L >= T <=> L > width /\ exceeds)
  BY <1>3, <1>5, <1>6, RoomsAreNats, RoomFollows, Zenon DEF exceeds
<1> HIDE DEF L, T
<1>8. L >= T
  BY <1>2, <1>3, <1>4, <1>7
<1> QED
  BY <1>7, <1>8, Zenon DEF exceeds

(***************************************************************************)
(* The whole text.                                                         *)
(***************************************************************************)
(* A whole text, or a failure.                                              *)
Comes(r, total, start) ==
  \/ \E errno \in Errnos : r = Failure(errno)
  \/ r \in Results /\ Arrives(r, total, start)

LEMMA TerminatedIs ==
  ASSUME Limits, NEW start \in Starts, NEW total \in Nat, NEW r, Sound(r, total, total, start)
  PROVE  \/ Terminated(r) \in Results /\ Arrives(Terminated(r), total, start)
         \/ Terminated(r) = Failure("ENOMEM") /\ Short(total)
<1> DEFINE needed == xsum(total, 1)
           z      == ENSURE_ALLOCATION(r, needed)
<1>1. r.length = total /\ r.allocated \in Nat
  BY DEF Sound, Results
<1>2. needed \in Nat /\ (needed = total + 1 \/ (needed = SIZE_MAX /\ SIZE_MAX < total + 1))
  BY SumsAre
<1>3. Terminated(r) = z
  BY <1>1, Zenon DEF Terminated
<1> HIDE DEF needed
<1>4. \/ Sound(z, total, total, start) /\ needed <= z.allocated
      \/ z = Failure("ENOMEM") /\ Short(total)
  <2>1. needed <= 2 * total + 14 /\ (needed > r.allocated => r.allocated <= total)
    BY <1>1, <1>2
  <2> QED
    BY <1>2, <2>1, EnsuredIs
<1> HIDE DEF z
<1>5. CASE Sound(z, total, total, start) /\ needed <= z.allocated
  <2>1. /\ z \in Results /\ z.errno = "none" /\ z.length = total
        /\ z.allocated \in Nat /\ z.allocated < SIZE_MAX
        /\ start.allocated \in Nat /\ start.where \in {"NULL", "resultbuf"}
    BY <1>5 DEF Sound, Results, Starts, Limits
  <2>2. total < z.allocated
    BY <1>2, <1>5, <2>1
  <2>3. \/ z.where = start.where /\ z.allocated = start.allocated
        \/ z.where = "own" /\ (start.where = "resultbuf" => start.allocated <= total)
    BY <1>5, Zenon DEF Sound
  <2>4. /\ z.where = "resultbuf" <=> start.where = "resultbuf" /\ total < start.allocated
        /\ z.where = "resultbuf" => z.allocated = start.allocated
    BY <2>1, <2>2, <2>3
  <2> QED
    BY <1>3, <2>1, <2>2, <2>4, Zenon DEF Arrives, Failed
<1>6. CASE z = Failure("ENOMEM") /\ Short(total)
  BY <1>3, <1>6, Zenon
<1> QED
  BY <1>4, <1>5, <1>6, Zenon

LEMMA NeededLengthIs ==
  ASSUME Limits, NEW format \in Seq(STRING), NEW dirs \in Seq(Dirs(format)),
         ~ Allocates(buf_neededlength(dirs))
  PROVE  buf_neededlength(dirs) > Memory
<1> DEFINE w == max_width_length(dirs)
           p == max_precision_length(dirs)
           size == buf_neededlength(dirs)
<1>1. w \in Nat /\ p \in Nat
  BY WidestHolds
<1>2. size = xsum(xsum(xsum(7, w), p), 6)
  BY Zenon DEF buf_neededlength
<1> HIDE DEF w, p
<1>3. size \in Nat
  BY <1>1, <1>2, NeededIsNat
<1> HIDE DEF size
<1>4. size > Memory
  BY <1>3 DEF Allocates, size_overflow_p, Limits, size
<1> QED
  BY <1>4, Zenon DEF size

LEMMA RestIs ==
  ASSUME Limits, NEW format \in Seq(STRING), NEW parse, InPlace(format, parse), NEW args,
         AreArguments(args, parse)
  PROVE  LET n == Len(parse.dir)
         IN /\ Rest(format, parse.dir) = Len(format) - (After(parse.dir, n) - 1)
            /\ Rest(format, parse.dir) \in Nat /\ After(parse.dir, n) \in Nat
<1> DEFINE dirs == parse.dir
           n    == Len(dirs)
           a    == After(dirs, n)
<1>1. n \in Nat /\ Len(format) \in Nat /\ (n = 0 <=> dirs = <<>>)
  <2> DEFINE D == Dirs(format)
  <2>1. dirs \in Seq(D)
    BY InPlaceIs, Zenon
  <2> HIDE DEF D, dirs
  <2> QED
    BY <2>1
<1>2. Rest(format, dirs) = Len(format) - (IF n = 0 THEN 0 ELSE dirs[n].dir_end - 1)
  BY <1>1, Zenon DEF Rest
<1>3. CASE n = 0
  <2>1. a = 1
    BY <1>3, Zenon DEF After
  <2> HIDE DEF a, dirs, n
  <2>2. Rest(format, dirs) = Len(format) - (a - 1) /\ Rest(format, dirs) \in Nat /\ a \in Nat
    BY <1>1, <1>2, <1>3, <2>1
  <2> QED
    BY <2>2, Zenon DEF a, dirs, n
<1>4. CASE n # 0
  <2>1. n \in 1 .. Len(dirs)
    BY <1>1, <1>4
  <2>2. dirs[n].dir_end \in Nat /\ dirs[n].dir_end <= Len(format) + 1 /\ a = dirs[n].dir_end
    BY <2>1, EachInPlace, Zenon
  <2> HIDE DEF a, dirs, n
  <2>3. Rest(format, dirs) = Len(format) - (a - 1) /\ Rest(format, dirs) \in Nat /\ a \in Nat
    BY <1>1, <1>2, <1>4, <2>2
  <2> QED
    BY <2>3, Zenon DEF a, dirs, n
<1> QED
  BY <1>3, <1>4

LEMMA PrintedIs ==
  ASSUME Limits, NEW start \in Starts, NEW system, NEW format \in Seq(STRING), NEW parse,
         parse = ParseError \/ InPlace(format, parse), NEW args,
         ~ parse.failed => AreArguments(args, parse)
  PROVE  LET r     == Printed(start, format, parse, system, args)
             total == Total(format, parse, args)
         IN /\ total \in Nat /\ Comes(r, total, start)
            /\ Rightly(r, parse, total, start, system, args)
<1> DEFINE r     == Printed(start, format, parse, system, args)
           total == Total(format, parse, args)
           dirs  == parse.dir
           n     == Len(dirs)
<1>1. CASE parse.failed
  <2>1. r = Failure("EINVAL") /\ total = 0 /\ 0 \in Nat
    <3>1. 0 \in Nat
      OBVIOUS
    <3> QED
      BY <1>1, <3>1, Zenon DEF Printed, Total
  <2>2. r.errno = "EINVAL"
    BY <2>1, FailuresAre, Zenon
  <2>3. "EINVAL" \in Errnos
    BY DEF Errnos
  <2> QED
    BY <1>1, <2>1, <2>2, <2>3, Zenon DEF Comes, Rightly
<1>2. CASE ~ parse.failed
  <2>1. InPlace(format, parse) /\ AreArguments(args, parse)
    BY <1>2, ErrorStays, Zenon
  <2>2. PICK t : Totals(t, format, dirs, args) /\ total = t[n]
    BY <2>1, TotalsAre, Zenon
  <2> DEFINE x    == ExecuteAll(dirs, system, args, start)
             text == TextUpto(t, format, dirs, n)
             rest == Rest(format, dirs)
             failing == FailingUpto(dirs, system, args, n)
             y    == AppendText(x, rest)
             z    == Terminated(y)
  <2> DEFINE faults == Faults(parse, system, args)
  <2>a. faults \in SUBSET Errnos
    BY FaultsAre, Zenon DEF Faults
  <2>b. \A dp \in ToSet(dirs) : AbortsRightly(dp, system, args)
    BY <2>1, AbortsAre, Zenon
  <2>3. text \in Nat /\ Reached(x, text, failing, faults, start)
    <3>1. ReachedUpto(x, n, t, format, dirs, args, system, faults, start)
      BY <2>1, <2>2, <2>a, AllReached, Zenon
    <3> QED
      BY <3>1, Zenon DEF ReachedUpto
  <2>4. /\ rest = Len(format) - (After(dirs, n) - 1) /\ rest \in Nat /\ After(dirs, n) \in Nat
        /\ n \in Nat /\ Len(format) \in Nat /\ dirs \in Seq(Dirs(format))
    <3>1. Len(format) \in Nat
      OBVIOUS
    <3>2. n \in Nat /\ dirs \in Seq(Dirs(format))
      BY <2>1, InPlaceIs, Zenon
    <3> QED
      BY <2>1, <3>1, <3>2, RestIs, Zenon
  <2>5. total \in Nat /\ total = text + rest
    <3> DEFINE a == After(dirs, n)
    <3>1. text = (total - Len(format)) + (a - 1) /\ total \in Int
      <4>1. n \in 0 .. n
        BY <2>4
      <4>2. t[n] \in Int
        BY <2>2, <4>1, Zenon DEF Totals
      <4> QED
        BY <2>2, <4>2, Zenon DEF TextUpto
    <3> HIDE DEF a, text, rest, total
    <3>2. rest = Len(format) - (a - 1) /\ rest \in Nat /\ a \in Nat /\ Len(format) \in Nat /\ text \in Nat
      BY <2>3, <2>4, Zenon DEF a
    <3> QED
      BY <3>1, <3>2
  <2>6. failing \in BOOLEAN
    BY Zenon DEF FailingUpto
  <2>7. failing <=> faults # {}
    <3>1. DOMAIN dirs = 1 .. n
      <4> DEFINE D == Dirs(format)
      <4>1. dirs \in Seq(D)
        BY <2>4, Zenon
      <4> HIDE DEF D, dirs
      <4> QED
        BY <4>1
    <3>2. ToSet(dirs) = {dirs[i] : i \in 1 .. n}
      BY <3>1, Zenon DEF ToSet
    <3> QED
      BY <3>2, Zenon DEF FailingUpto, FailsOn, Faults
  <2>8. r = IF ~ printf_fetchargs(parse) THEN Failure("EINVAL")
            ELSE IF ~ Allocates(buf_neededlength(dirs)) THEN Failure("ENOMEM") ELSE z
    BY <1>2, Zenon DEF Printed
  <2>9. Failure("ENOMEM").errno = "ENOMEM" /\ Failure("EINVAL").errno = "EINVAL"
    BY FailuresAre, Zenon
  <2>10. CASE ~ printf_fetchargs(parse)
    <3>1. r = Failure("EINVAL")
      BY <2>8, <2>10, Zenon
    <3>2. "EINVAL" \in Errnos
      BY DEF Errnos
    <3> QED
      BY <2>5, <2>9, <2>10, <3>1, <3>2, Zenon DEF Comes, Rightly
  <2>11. CASE printf_fetchargs(parse) /\ ~ Allocates(buf_neededlength(dirs))
    <3>1. r = Failure("ENOMEM")
      BY <2>8, <2>11, Zenon
    <3>2. buf_neededlength(dirs) > Memory
      BY <2>4, <2>11, NeededLengthIs, Zenon
    <3>3. "ENOMEM" \in Errnos
      BY DEF Errnos
    <3>4. Comes(r, total, start)
      BY <3>1, <3>3, Zenon DEF Comes
    <3> HIDE DEF r, total
    <3>5. Rightly(r, parse, total, start, system, args)
      BY <1>2, <2>9, <2>11, <2>b, <3>1, <3>2, Zenon DEF Rightly, Scarce
    <3> QED
      BY <2>5, <3>4, <3>5, Zenon DEF r, total
  <2>12. CASE printf_fetchargs(parse) /\ Allocates(buf_neededlength(dirs))
    <3>1. r = z
      BY <2>8, <2>12, Zenon
    <3> DEFINE Out(e) == \/ ~ failing /\ e \in Results /\ Arrives(e, total, start)
                         \/ e = Failure("ENOMEM") /\ Short(total)
                         \/ \E errno \in faults : e = Failure(errno)
    <3>2. Reached(y, total, failing, faults, start)
      <4> HIDE DEF text, rest, x, failing, faults
      <4>1. Reached(AppendText(x, rest), text + rest, failing, faults, start)
        BY <2>3, <2>4, <2>6, <2>a, TextReaches
      <4> QED
        BY <2>5, <4>1, Zenon
    <3> HIDE DEF y, failing, total, faults
    <3>3. Out(z)
      <4>1. CASE Failed(y)
        <5>1. z = y
          BY <4>1, FailureStays, Zenon DEF Terminated
        <5>2. ~ Sound(y, total, total, start)
          BY <4>1, Zenon DEF Sound, Failed
        <5> QED
          BY <3>2, <5>1, <5>2, Zenon DEF Reached
      <4>2. CASE ~ Failed(y)
        <5>1. ~ failing /\ Sound(y, total, total, start)
          BY <2>a, <3>2, <4>2, ReachedSound
        <5>2. \/ z \in Results /\ Arrives(z, total, start)
              \/ z = Failure("ENOMEM") /\ Short(total)
          BY <2>5, <5>1, TerminatedIs
        <5> QED
          BY <5>1, <5>2, Zenon
      <4> QED
        BY <4>1, <4>2, Zenon
    <3> HIDE DEF z, r
    <3>4. Comes(r, total, start)
      <4>1. "ENOMEM" \in Errnos
        BY DEF Errnos
      <4> QED
        BY <2>a, <3>1, <3>3, <4>1, Zenon DEF Comes
    <3>5. Short(total) => Scarce(total, parse)
      BY Zenon DEF Short, Scarce
    <3>6. Rightly(r, parse, total, start, system, args)
      <4>1. \/ r.errno = "ENOMEM" /\ Scarce(total, parse)
            \/ r.errno \in faults
            \/ faults = {} /\ Arrives(r, total, start)
        <5>1. \A errno \in faults : errno # "none"
          BY Zenon DEF Faults, faults
        <5> QED
          BY <2>7, <2>9, <3>1, <3>3, <3>5, <5>1, FailuresAre, Zenon
      <4> QED
        BY <1>2, <2>12, <2>b, <4>1, Zenon DEF Rightly, faults
    <3> QED
      BY <2>5, <3>4, <3>6, Zenon DEF r, total
  <2> QED
    BY <2>10, <2>11, <2>12, Zenon
<1> QED
  BY <1>1, <1>2, Zenon

(***************************************************************************)
(* What the callers make of it.                                            *)
(***************************************************************************)

LEMMA ReturnedIs ==
  ASSUME Limits, NEW length \in Nat
  PROVE  \/ Returned(length) = length /\ length <= INT_MAX
         \/ Returned(length) = -1 /\ length > INT_MAX
BY DEF Limits, Returned

LEMMA BuffersStart ==
  ASSUME Limits, NEW function \in PrintFunctions, NEW maxlength \in Nat, maxlength < SIZE_MAX
  PROVE  /\ Buffer(function, maxlength) \in Starts
         /\ function = "vsprintf"  => Buffer(function, maxlength) = Start("resultbuf", SIZE_MAX \div 4)
         /\ function = "vsnprintf" => Buffer(function, maxlength) = Start("resultbuf", maxlength)
         /\ SIZE_MAX \div 4 \in Nat
<1>1. SIZE_MAX \div 4 \in Nat /\ SIZE_MAX \div 4 < SIZE_MAX /\ 0 < SIZE_MAX
  BY Z3 DEF Limits
<1>2. ASSUME NEW allocated \in Nat, allocated < SIZE_MAX
      PROVE  Start("resultbuf", allocated) \in Starts
  BY <1>2 DEF Start, Starts
<1>3. Start("NULL", 0) \in Starts
  BY <1>1 DEF Start, Starts
<1>4. /\ function \in {"vfprintf", "vasprintf"} => Buffer(function, maxlength) = Start("NULL", 0)
      /\ function = "vsprintf"  => Buffer(function, maxlength) = Start("resultbuf", SIZE_MAX \div 4)
      /\ function = "vsnprintf" => Buffer(function, maxlength) = Start("resultbuf", maxlength)
  BY Zenon DEF Buffer
<1> QED
  BY <1>1, <1>2, <1>3, <1>4, Zenon DEF PrintFunctions

LEMMA ComesIs ==
  ASSUME NEW r, NEW total \in Nat, NEW start, Comes(r, total, start)
  PROVE  \/ Failed(r) /\ r.where = "NULL" /\ r.length = 0
         \/ /\ ~ Failed(r) /\ r.length = total
            /\ r.where = "resultbuf" <=> start.where = "resultbuf" /\ total < start.allocated
<1>1. \A errno : Failure(errno).where = "NULL" /\ Failure(errno).length = 0
  BY DEF Failure
<1>2. \A errno \in Errnos : errno # "none"
  BY DEF Errnos
<1> QED
  BY <1>1, <1>2, FailuresAre, Zenon DEF Comes, Arrives

(* vsnprintf.                                                               *)
LEMMA PrunedIs ==
  ASSUME Limits, NEW maxlength \in Nat, NEW total \in Nat, NEW r,
         Comes(r, total, Start("resultbuf", maxlength))
  PROVE  PrunedAsC(Pruned(r, maxlength), Failed(r), total, maxlength)
<1> DEFINE length == IF Failed(r) THEN maxlength ELSE r.length
           pruned_length == IF length < maxlength THEN length ELSE maxlength - 1
           s == Pruned(r, maxlength)
<1>1. /\ s.returns = Returned(length)
      /\ s.filled = IF r.where = "resultbuf" THEN r.length
                    ELSE IF maxlength > 0 THEN pruned_length ELSE 0
      /\ s.copies_null <=> Failed(r) /\ pruned_length > 0
  BY Zenon DEF Pruned
<1>2. LET start == Start("resultbuf", maxlength)
      IN start.where = "resultbuf" /\ start.allocated = maxlength
  BY DEF Start
<1>3. \/ Failed(r) /\ r.where = "NULL" /\ r.length = 0
      \/ ~ Failed(r) /\ r.length = total /\ (r.where = "resultbuf" <=> total < maxlength)
  BY <1>2, ComesIs, Zenon
<1> HIDE DEF s
<1>4. CASE Failed(r)
  <2>1. pruned_length > 0 <=> maxlength > 1
    <3>1. length = maxlength
      BY <1>4, Zenon
    <3> HIDE DEF length
    <3> QED
      BY <3>1
  <2> QED
    BY <1>1, <1>4, <2>1, Zenon DEF PrunedAsC, s
<1>5. CASE ~ Failed(r)
  <2>1. length = total /\ r.length = total /\ (r.where = "resultbuf" <=> total < maxlength)
    BY <1>3, <1>5, Zenon
  <2>2. s.returns = Returned(total) /\ ~ s.copies_null
    BY <1>1, <1>5, <2>1, Zenon
  <2> DEFINE most == IF maxlength = 0 THEN 0 ELSE IF total < maxlength THEN total ELSE maxlength - 1
             filled == IF r.where = "resultbuf" THEN r.length
                       ELSE IF maxlength > 0 THEN pruned_length ELSE 0
  <2>3. filled = most
    <3> HIDE DEF length
    <3> QED
      BY <2>1
  <2>4. s.filled = most
    BY <1>1, <2>3, Zenon
  <2> QED
    BY <1>5, <2>2, <2>4, Zenon DEF PrunedAsC, s
<1> QED
  BY <1>4, <1>5

(* vfprintf, vsprintf and vasprintf.                                        *)
LEMMA WrittenIs ==
  ASSUME Limits, NEW stream_takes \in Nat, NEW total \in Nat, NEW r, NEW start,
         Comes(r, total, start)
  PROVE  OutAsC(Written(r, stream_takes), Failed(r), total, stream_takes)
<1> DEFINE s == Written(r, stream_takes)
           written == IF stream_takes < r.length THEN stream_takes ELSE r.length
<1>1. /\ s.returns = IF Failed(r) \/ written < r.length THEN -1 ELSE Returned(r.length)
      /\ s.filled = IF Failed(r) THEN 0 ELSE written
      /\ ~ s.copies_null
  BY Zenon DEF Written
<1> HIDE DEF s
<1>2. CASE Failed(r)
  BY <1>1, <1>2, Zenon DEF OutAsC, s
<1>3. CASE ~ Failed(r)
  <2>1. r.length = total
    BY <1>3, ComesIs, Zenon
  <2>2. /\ s.returns = IF written < total THEN -1 ELSE Returned(total)
        /\ s.filled = written
    BY <1>1, <1>3, <2>1, Zenon
  <2>3. written = IF stream_takes < total THEN stream_takes ELSE total
    BY <2>1, Zenon
  <2> HIDE DEF written
  <2>4. /\ s.returns # -1 => s.returns = total /\ s.filled = total
        /\ s.returns = -1 => total > INT_MAX \/ total > stream_takes
    BY <2>2, <2>3, ReturnedIs DEF Limits
  <2> QED
    BY <1>1, <1>3, <2>4, Zenon DEF OutAsC, s
<1> QED
  BY <1>2, <1>3

LEMMA UnboundedIs ==
  ASSUME Limits, NEW total \in Nat, NEW r, NEW allocated \in Nat,
         Comes(r, total, Start("resultbuf", allocated))
  PROVE  OutAsC(Unbounded(r), Failed(r), total, allocated - 1)
<1> DEFINE s == Unbounded(r)
<1>1. /\ s.returns = IF r.where = "resultbuf" THEN Returned(r.length) ELSE -1
      /\ s.filled = IF r.where = "resultbuf" THEN r.length ELSE 0
      /\ ~ s.copies_null
  BY Zenon DEF Unbounded
<1>2. LET start == Start("resultbuf", allocated)
      IN start.where = "resultbuf" /\ start.allocated = allocated
  BY DEF Start
<1>3. \/ Failed(r) /\ r.where = "NULL" /\ r.length = 0
      \/ ~ Failed(r) /\ r.length = total /\ (r.where = "resultbuf" <=> total < allocated)
  BY <1>2, ComesIs, Zenon
<1> HIDE DEF s
<1>4. CASE Failed(r)
  <2>1. r.where = "NULL"
    BY <1>3, <1>4, Zenon
  <2>2. s.returns = -1
    BY <1>1, <2>1
  <2> QED
    BY <1>1, <1>4, <2>2, Zenon DEF OutAsC, s
<1>5. CASE ~ Failed(r)
  <2>1. r.length = total /\ (r.where = "resultbuf" <=> total < allocated)
    BY <1>3, <1>5, Zenon
  <2>2. /\ s.returns # -1 => s.returns = total /\ s.filled = total
        /\ s.returns = -1 => total > INT_MAX \/ total > allocated - 1
    BY <1>1, <2>1, ReturnedIs DEF Limits
  <2> QED
    BY <1>1, <1>5, <2>2, Zenon DEF OutAsC, s
<1> QED
  BY <1>4, <1>5

LEMMA AllocatedIs ==
  ASSUME Limits, NEW total \in Nat, NEW r, NEW start, Comes(r, total, start), NEW takes
  PROVE  OutAsC(Allocated(r), Failed(r), total, takes)
<1> DEFINE s == Allocated(r)
<1>1. /\ s.returns = IF Failed(r) THEN -1 ELSE Returned(r.length)
      /\ s.filled = IF Failed(r) \/ r.length > INT_MAX THEN 0 ELSE r.length
      /\ ~ s.copies_null
  BY Zenon DEF Allocated
<1> HIDE DEF s
<1>2. CASE Failed(r)
  BY <1>1, <1>2, Zenon DEF OutAsC, s
<1>3. CASE ~ Failed(r)
  <2>1. r.length = total
    BY <1>3, ComesIs, Zenon
  <2>2. s.returns = Returned(total) /\ s.filled = IF total > INT_MAX THEN 0 ELSE total
    BY <1>1, <1>3, <2>1, Zenon
  <2>3. /\ s.returns # -1 => s.returns = total /\ s.filled = total
        /\ s.returns = -1 => total > INT_MAX
    BY <2>2, ReturnedIs DEF Limits
  <2> QED
    BY <1>1, <1>3, <2>3, Zenon DEF OutAsC, s
<1> QED
  BY <1>2, <1>3

LEMMA AnswersAre ==
  ASSUME Limits, NEW function \in PrintFunctions, NEW maxlength \in Nat, maxlength < SIZE_MAX,
         NEW stream_takes \in Nat, NEW total \in Nat, NEW r,
         Comes(r, total, Buffer(function, maxlength))
  PROVE  AnswersAsC(function, Outcome(function, r, maxlength, stream_takes), Failed(r), total,
                    maxlength, stream_takes)
<1> DEFINE s == Outcome(function, r, maxlength, stream_takes)
           start == Buffer(function, maxlength)
           As == AnswersAsC(function, s, Failed(r), total, maxlength, stream_takes)
<1>1. /\ function = "vsprintf"  => start = Start("resultbuf", SIZE_MAX \div 4)
      /\ function = "vsnprintf" => start = Start("resultbuf", maxlength)
      /\ SIZE_MAX \div 4 \in Nat
  BY BuffersStart
<1> HIDE DEF start
<1>2. CASE function = "vsnprintf"
  <2>1. PrunedAsC(Pruned(r, maxlength), Failed(r), total, maxlength)
    BY <1>1, <1>2, PrunedIs DEF start
  <2> QED
    BY <1>2, <2>1, Zenon DEF AnswersAsC, Outcome
<1>3. CASE function = "vfprintf"
  <2>1. OutAsC(Written(r, stream_takes), Failed(r), total, stream_takes)
    BY WrittenIs
  <2>2. s = Written(r, stream_takes)
    BY <1>3, Zenon DEF Outcome
  <2>3. function # "vsnprintf"
    BY <1>3
  <2> HIDE DEF s
  <2>4. As
    BY <1>3, <2>1, <2>2, <2>3, Zenon DEF AnswersAsC
  <2> QED
    BY <2>4 DEF s
<1>4. CASE function = "vsprintf"
  <2> DEFINE allocated == SIZE_MAX \div 4
  <2>1. OutAsC(Unbounded(r), Failed(r), total, allocated - 1)
    <3>1. Comes(r, total, Start("resultbuf", allocated)) /\ allocated \in Nat
      BY <1>1, <1>4, Zenon DEF start
    <3> HIDE DEF allocated
    <3> QED
      BY <3>1, UnboundedIs
  <2>2. s = Unbounded(r)
    BY <1>4, Zenon DEF Outcome
  <2>3. function # "vsnprintf"
    BY <1>4
  <2> HIDE DEF s
  <2>4. As
    BY <1>4, <2>1, <2>2, <2>3, Zenon DEF AnswersAsC
  <2> QED
    BY <2>4 DEF s
<1>5. CASE function = "vasprintf"
  <2>1. OutAsC(Allocated(r), Failed(r), total, SIZE_MAX)
    BY AllocatedIs
  <2>2. s = Allocated(r)
    BY <1>5, Zenon DEF Outcome
  <2>3. function # "vsnprintf"
    BY <1>5
  <2> HIDE DEF s
  <2>4. As
    BY <1>5, <2>1, <2>2, <2>3, Zenon DEF AnswersAsC
  <2> QED
    BY <2>4 DEF s
<1> QED
  BY <1>2, <1>3, <1>4, <1>5, Zenon DEF PrintFunctions

LEMMA TheTextIsWhole ==
  ASSUME Limits, NEW format \in Seq(STRING), NEW system \in Systems,
         NEW function \in PrintFunctions, NEW maxlength \in Nat, maxlength < SIZE_MAX,
         NEW stream_takes \in Nat, NEW args,
         ~ printf_parse(format).failed => AreArguments(args, printf_parse(format))
  PROVE  LET parse == printf_parse(format)
         IN BothAsC(vasnprintf(Buffer(function, maxlength), format, system, args), parse,
                    Total(format, parse, args), function, maxlength, stream_takes, system,
                    args)
<1> DEFINE parse == printf_parse(format)
           start == Buffer(function, maxlength)
           r     == Printed(start, format, parse, system, args)
           total == Total(format, parse, args)
<1>1. DirectivesFit(format)
  BY EveryDirectiveFits
<1>2. parse = ParseError \/ InPlace(format, parse)
  BY ParseIsInPlace
<1>3. start \in Starts
  BY BuffersStart
<1>4. ~ parse.failed => AreArguments(args, parse)
  OBVIOUS
<1> HIDE DEF parse, start
<1>5. total \in Nat /\ Comes(r, total, start) /\ Rightly(r, parse, total, start, system, args)
  BY <1>2, <1>3, <1>4, PrintedIs
<1> HIDE DEF r, total
<1>6. AnswersAsC(function, Outcome(function, r, maxlength, stream_takes), Failed(r), total,
                 maxlength, stream_takes)
  BY <1>5, AnswersAre DEF start
<1>7. BothAsC(r, parse, total, function, maxlength, stream_takes, system, args)
  BY <1>5, <1>6, Zenon DEF BothAsC, start
<1> QED
  BY <1>7, Zenon DEF parse, r, total, start, vasnprintf

PrintfInv ==
  /\ printing \in ({"parse"} \X Formats) \cup ({"print"} \X Prints) \cup ({"room"} \X Rooms)
  /\ printed # <<>> =>
       /\ printing[1] = "parse" => printed[1] = printf_parse(printing[2])
       /\ printing[1] = "print" => printed[1] = Result(printing[2])
       /\ printing[1] = "room"  => printed[1] = Room(printing[2])

LEMMA PrintfInvHolds == PrintfSpec => []PrintfInv
<1>1. PrintfInit => PrintfInv
  BY Zenon DEF PrintfInit, PrintfInv
<1>2. PrintfInv /\ [PrintfNext]_printfVars => PrintfInv'
  <2> SUFFICES ASSUME PrintfInv, [PrintfNext]_printfVars
               PROVE  PrintfInv'
    OBVIOUS
  <2>1. ASSUME NEW what, NEW result, Does(what, result)
        PROVE  printing' = printing /\ printing[1] = what /\ printed'[1] = result
    BY <2>1 DEF Does
  <2>2. CASE ParseFormat
    <3>1. printing' = printing /\ printing[1] = "parse" /\ printed'[1] = printf_parse(printing[2])
      BY <2>1, <2>2, Zenon DEF ParseFormat
    <3> QED
      BY <3>1, Zenon DEF PrintfInv
  <2>3. CASE PrintText
    <3>1. printing' = printing /\ printing[1] = "print" /\ printed'[1] = Result(printing[2])
      BY <2>1, <2>3, Zenon DEF PrintText
    <3> QED
      BY <3>1, Zenon DEF PrintfInv
  <2>4. CASE MakeRoom
    <3>1. printing' = printing /\ printing[1] = "room" /\ printed'[1] = Room(printing[2])
      BY <2>1, <2>4, Zenon DEF MakeRoom
    <3> QED
      BY <3>1, Zenon DEF PrintfInv
  <2>5. CASE UNCHANGED printfVars
    BY <2>5, Zenon DEF PrintfInv, printfVars
  <2> QED
    BY <2>2, <2>3, <2>4, <2>5, Zenon DEF PrintfNext
<1> QED
  BY <1>1, <1>2, PTL DEF PrintfSpec

(* For every format, every system, whatever the directives make and however *)
(* large the buffer is: the four functions put out the whole text or say    *)
(* rightly why not, memory that is short for the directives, the arguments, *)
(* buf, tmp or the text included; what they return is what C says, but for  *)
(* what vsnprintf makes of a failure; and what is too small for a directive *)
(* is its room under sprintf only, where the program is aborted, in the     *)
(* cases named.                                                             *)
THEOREM TheWholeText == PrintfSpec => []PrintsAsC
<1>1. PrintfInv => PrintsAsC
  <2> SUFFICES ASSUME PrintfInv, printed # <<>>
               PROVE  /\ printing[1] = "parse" => FitsAndAgrees(printed[1])
                      /\ printing[1] = "print" => TextAsC(printed[1], printing[2])
                      /\ printing[1] = "room"  => RoomAsC(printed[1], printing[2])
    BY Zenon DEF PrintsAsC
  <2>0. Limits
    BY PrintfAssumption
  <2>1. CASE printing[1] = "parse"
    <3>1. printing[2] \in Formats
      BY <2>1 DEF PrintfInv
    <3>2. printing[2] \in Seq(STRING)
      BY <3>1, PrintfAssumption
    <3>3. printed[1] = printf_parse(printing[2])
      BY <2>1, Zenon DEF PrintfInv
    <3>4. FitsAndAgrees(printed[1])
      BY <2>0, <3>2, <3>3, EveryDirectiveFits, Zenon DEF DirectivesFit
    <3> QED
      BY <2>1, <3>4
  <2>2. CASE printing[1] = "print"
    <3> DEFINE p == printing[2]
    <3>1. p \in Prints
      BY <2>2 DEF PrintfInv
    <3>2. IsPrint(p)
      BY <3>1, PrintfAssumption, Zenon
    <3>3. printed[1] = Result(p)
      BY <2>2, Zenon DEF PrintfInv
    <3> HIDE DEF p
    <3>4. FitsAndAgrees(printf_parse(p.format))
      BY <2>0, <3>2, EveryDirectiveFits, Zenon DEF DirectivesFit, IsPrint
    <3>5. BothAsC(Result(p), printf_parse(p.format),
                  Total(p.format, printf_parse(p.format), p.args), p.function, p.maxlength,
                  p.takes, p.system, p.args)
      BY <2>0, <3>2, TheTextIsWhole, Zenon DEF IsPrint, Result
    <3>6. TextAsC(printed[1], p)
      BY <3>3, <3>4, <3>5, Zenon DEF TextAsC
    <3> QED
      BY <2>2, <3>6 DEF p
  <2>3. CASE printing[1] = "room"
    <3> DEFINE p == printing[2]
    <3>1. p \in Rooms
      BY <2>3 DEF PrintfInv
    <3>2. IsRoom(p)
      BY <3>1, PrintfAssumption, Zenon
    <3>3. printed[1] = Room(p)
      BY <2>3, Zenon DEF PrintfInv
    <3> HIDE DEF p
    <3>4. RoomAsC(Room(p), p)
      BY <3>2, SprintfRoom, Zenon DEF IsRoom, RoomAsC, Room, Precisions
    <3>5. RoomAsC(printed[1], p)
      BY <3>3, <3>4, Zenon
    <3> QED
      BY <2>3, <3>5 DEF p
  <2>4. printing[1] \in {"parse", "print", "room"}
    BY DEF PrintfInv
  <2> QED
    BY <2>1, <2>2, <2>3, Zenon
<1> QED
  BY <1>1, PrintfInvHolds, PTL
=============================================================================
