--------------------------- MODULE OVWildcardProofs ---------------------------
(***************************************************************************)
(* Theorem about the pattern matcher of OVWildcard.h: whatever the pattern *)
(* and the word, match() reads inside both, takes no word the pattern does *)
(* not stand for, and misses none of a pattern whose stars come last.      *)
(***************************************************************************)
EXTENDS OVWildcard, FiniteSetTheorems, SequenceTheorems, TLAPS

(***************************************************************************)
(* Facts about numbers and about words.                                    *)
(***************************************************************************)
LEMMA LeastElement ==
  ASSUME NEW T \in SUBSET Nat, T # {}
  PROVE  \E n \in T : \A m \in T : n <= m
<1> SUFFICES ASSUME \A n \in T : \E m \in T : m < n
             PROVE  FALSE
  OBVIOUS
<1>1. PICK top \in T : TRUE
  OBVIOUS
<1> DEFINE U    == {n \in 0 .. top : \E m \in T : m <= n}
           down == [n \in U |-> n - 1]
<1>2. IsFiniteSet(U)
  BY FS_Interval, FS_Subset, 0 \in Int, top \in Int, U \in SUBSET (0 .. top)
<1>3. \A n \in U : n - 1 \in U
  <2> TAKE n \in U
  <2>1. PICK m \in T : m <= n
    OBVIOUS
  <2>2. PICK k \in T : k < m
    OBVIOUS
  <2> QED
    BY <2>1, <2>2
<1>4. down \in Injection(U, U)
  <2>1. down \in [U -> U]
    BY <1>3
  <2>2. \A m, n \in U : down[m] = down[n] => m = n
    OBVIOUS
  <2> HIDE DEF down, U
  <2>3. IsInjective(down)
    BY <2>1, <2>2 DEF IsInjective
  <2> QED
    BY <2>1, <2>3 DEF Injection
<1>5. down \in Surjection(U, U)
  BY <1>2, <1>4, FS_Injection
<1>6. top \in U
  BY <1>1
<1>7. PICK n \in U : down[n] = top
  BY <1>5, <1>6 DEF Surjection
<1> QED
  BY <1>7

(* The piece of a word that a symbol other than star stands for is one      *)
(* character.                                                               *)
LEMMA FitsOneCharacter ==
  ASSUME NEW t \in Seq(Chars), NEW a \in 0 .. Len(t), NEW b \in a .. Len(t),
         NEW symbol, symbol # matchZeroOrMoreChar
  PROVE  Fits(symbol, SubSeq(t, a + 1, b))
           <=> b = a + 1 /\ symbol \in {matchOneChar, t[b]}
<1> DEFINE piece == SubSeq(t, a + 1, b)
<1>1. a + 1 \in Int /\ b \in Int /\ \A n \in a + 1 .. b : t[n] \in Chars
  BY ElementOfSeq
<1>2. /\ Len(piece) = IF a + 1 <= b THEN b - (a + 1) + 1 ELSE 0
      /\ \A n \in 1 .. b - (a + 1) + 1 : piece[n] = t[a + 1 + n - 1]
  <2>1. PICK m \in Int : m = a + 1
    BY <1>1
  <2>2. /\ Len(SubSeq(t, m, b)) = IF m <= b THEN b - m + 1 ELSE 0
        /\ \A n \in 1 .. b - m + 1 : SubSeq(t, m, b)[n] = t[m + n - 1]
    <3>1. b \in Int /\ \A n \in m .. b : t[n] \in Chars
      BY <1>1, <2>1
    <3> QED
      BY <3>1, SubSeqProperties
  <2> QED
    BY <2>1, <2>2
<1>3. b = a + 1 => piece[1] = t[b]
  BY <1>1, <1>2
<1> HIDE DEF piece
<1>4. Len(piece) = 1 <=> b = a + 1
  BY <1>2
<1> QED
  BY <1>3, <1>4 DEF Fits, piece

-----------------------------------------------------------------------------
(***************************************************************************)
(* The constructor.  The n-th state stands for the symbols of the pattern  *)
(* from pos[n - 1] + 1 to pos[n]; a star at the end counts one more.       *)
(***************************************************************************)
Stands(state, a, b) ==
  \/ /\ state.d = "AnyOne" /\ b = a + 1 /\ b <= Len(expression)
     /\ expression[b] = matchOneChar
  \/ /\ state.d = "Exact" /\ b = a + 1 /\ b <= Len(expression)
     /\ expression[b] = state.k /\ state.k \in Chars
  \/ /\ state.d = "AnyUntil" /\ a + 2 <= b /\ b <= Len(expression) + 1
     /\ \A n \in a + 1 .. b - 1 : expression[n] = matchZeroOrMoreChar
     /\ \/ b = Len(expression) + 1 /\ state.k = End
        \/ b <= Len(expression) /\ expression[b] = matchOneChar /\ state.k = One
        \/ /\ b <= Len(expression) /\ expression[b] = state.k
           /\ state.k \in Chars

StatesStand(pos) ==
  /\ pos \in [0 .. Len(m_states) -> 0 .. Len(expression) + 1]
  /\ pos[0] = 0
  /\ \A n \in 1 .. Len(m_states) : Stands(m_states[n], pos[n - 1], pos[n])

(* The first n symbols stand for the first length characters.               *)
CutSoFar(cut, n, length) ==
  /\ cut \in [0 .. n -> 0 .. Len(target)]
  /\ cut[0] = 0 /\ cut[n] = length
  /\ \A m \in 1 .. n :
       /\ cut[m - 1] <= cut[m]
       /\ Fits(expression[m], SubSeq(target, cut[m - 1] + 1, cut[m]))

(* Before a star every symbol stands for one character, in every cut.       *)
OneEach ==
  /\ i = j
  /\ \A cut \in [0 .. Len(expression) -> 0 .. Len(target)] :
       IsCut(cut, expression, target) =>
         \A n \in 0 .. j : n <= Len(expression) => cut[n] = n

Follows(pos) ==
  /\ pos[Len(m_states)] >= Len(expression) /\ pos[j] <= Len(expression)
  /\ \E cut : CutSoFar(cut, pos[j], i)
  /\ StarsLast(expression) => pos[j] = j /\ OneEach

MatcherInv ==
  /\ MatcherTypeOK /\ IndicesInside
  /\ phase = "compiling" =>
       \E pos : StatesStand(pos) /\ pos[Len(m_states)] = i /\ j = 0
  /\ phase = "matching" =>
       \E pos : StatesStand(pos) /\ Follows(pos)
  /\ Sound /\ CompleteForPrefixes

(* What the states stand for changes with the expression and the states     *)
(* alone.                                                                   *)
LEMMA StatesStandStays ==
  ASSUME UNCHANGED <<expression, m_states>>, NEW pos
  PROVE  StatesStand(pos)' <=> StatesStand(pos)
<1>1. expression' = expression /\ m_states' = m_states
  OBVIOUS
<1>2. ASSUME NEW n
      PROVE  Stands(m_states[n], pos[n - 1], pos[n])'
               <=> Stands(m_states[n], pos[n - 1], pos[n])
  <2>1. PICK state, a, b : state = m_states[n] /\ a = pos[n - 1] /\ b = pos[n]
    OBVIOUS
  <2>2. Stands(state, a, b)' <=> Stands(state, a, b)
    BY <1>1 DEF Stands
  <2> QED
    BY <1>1, <2>1, <2>2
<1> QED
  BY <1>1, <1>2 DEF StatesStand

LEMMA MatcherInitial ==
  ASSUME MatcherInit
  PROVE  MatcherInv
<1>1. MatcherTypeOK
  BY DEF MatcherInit, MatcherTypeOK
<1>2. phase = "compiling" /\ j = 0 /\ i = 0 /\ m_states = <<>>
  BY DEF MatcherInit
<1> DEFINE pos == [n \in {0} |-> 0]
<1>3. expression \in Seq(Symbols)
  BY CharAssumption DEF MatcherInit
<1>4. Len(m_states) = 0 /\ 0 .. 0 = {0} /\ Len(expression) \in Nat
  BY <1>2, <1>3
<1>5. StatesStand(pos) /\ pos[Len(m_states)] = i
  BY <1>2, <1>4 DEF StatesStand
<1> QED
  BY <1>1, <1>2, <1>5 DEF MatcherInv, IndicesInside, Sound, CompleteForPrefixes

(* A run of stars ends behind it, or with the pattern.                      *)
LEMMA StarsEnd ==
  ASSUME MatcherTypeOK, i < Len(expression)
  PROVE  LET next == AfterStars(i)
         IN  /\ next \in i + 1 .. Len(expression)
             /\ \A n \in i + 2 .. next : expression[n] = matchZeroOrMoreChar
             /\ next < Len(expression) =>
                  expression[next + 1] # matchZeroOrMoreChar
<1> DEFINE ends == {m \in i + 1 .. Len(expression) - 1 :
                      expression[m + 1] # matchZeroOrMoreChar}
<1>1. expression \in Seq(Symbols) /\ i \in Nat /\ Len(expression) \in Nat
  BY CharAssumption DEF MatcherTypeOK
<1>2. CASE ends = {}
  <2>1. AfterStars(i) = Len(expression)
    BY <1>2 DEF AfterStars
  <2>2. \A m \in i + 1 .. Len(expression) - 1 :
          expression[m + 1] = matchZeroOrMoreChar
    BY <1>2
  <2>3. ASSUME NEW n \in i + 2 .. Len(expression)
        PROVE  expression[n] = matchZeroOrMoreChar
    <3>1. n - 1 \in i + 1 .. Len(expression) - 1 /\ (n - 1) + 1 = n
      BY <1>1
    <3> QED
      BY <2>2, <3>1
  <2> QED
    BY <1>1, <2>1, <2>3
<1>3. CASE ends # {}
  <2>1. ends \in SUBSET Nat
    BY <1>1
  <2>2. \E m \in ends : \A other \in ends : m <= other
    BY <1>3, <2>1, LeastElement
  <2>3. /\ AfterStars(i) \in ends
        /\ \A other \in ends : AfterStars(i) <= other
    BY <1>3, <2>2 DEF AfterStars
  <2> DEFINE next == AfterStars(i)
  <2> HIDE DEF next
  <2>4. ASSUME NEW n \in i + 2 .. next
        PROVE  expression[n] = matchZeroOrMoreChar
    <3>0. next \in ends /\ \A other \in ends : next <= other
      BY <2>3 DEF next
    <3>1. n - 1 \in i + 1 .. Len(expression) - 1 /\ (n - 1) + 1 = n /\ ~(next <= n - 1)
      BY <1>1, <3>0
    <3>2. n - 1 \notin ends
      BY <3>0, <3>1
    <3> QED
      BY <3>1, <3>2
  <2> QED
    BY <1>1, <2>3, <2>4 DEF next
<1> QED
  BY <1>2, <1>3

LEMMA CompileStands ==
  ASSUME MatcherInv, Compile
  PROVE  MatcherInv'
<1>1. /\ MatcherTypeOK /\ phase = "compiling" /\ j = 0 /\ i < Len(expression)
      /\ expression \in Seq(Symbols) /\ i \in Nat /\ Len(expression) \in Nat
      /\ m_states \in Seq(States) /\ Len(m_states) \in Nat
      /\ UNCHANGED <<expression, target, j, phase>>
  BY CharAssumption DEF MatcherInv, Compile, MatcherTypeOK
<1>2. PICK pos : StatesStand(pos) /\ pos[Len(m_states)] = i
  BY <1>1 DEF MatcherInv
<1>3. expression[i + 1] \in Symbols
  BY <1>1, i + 1 \in 1 .. Len(expression)
<1>4. /\ \E state \in States :
           m_states' = Append(m_states, state) /\ Stands(state, i, i')
      /\ i' \in Nat /\ i' <= Len(expression) + 1
  <2>1. CASE CompileOne
    <3>1. [d |-> "AnyOne", k |-> End] \in States
      BY DEF States, Directives
    <3>2. Stands([d |-> "AnyOne", k |-> End], i, i + 1)
      BY <1>1, <2>1 DEF CompileOne, Stands
    <3> QED
      BY <1>1, <2>1, <3>1, <3>2 DEF CompileOne, Push
  <2>2. CASE CompileExact
    <3> DEFINE state == [d |-> "Exact", k |-> expression[i + 1]]
    <3>1. state \in States
      BY <2>2 DEF States, Directives, CompileExact
    <3>2. Stands(state, i, i + 1)
      BY <1>1, <2>2 DEF CompileExact, Stands
    <3> QED
      BY <1>1, <2>2, <3>1, <3>2 DEF CompileExact, Push
  <2>3. CASE CompileStars
    <3> DEFINE next == AfterStars(i)
               kind == IF next = Len(expression) THEN End
                       ELSE IF expression[next + 1] = matchOneChar THEN One
                       ELSE expression[next + 1]
               state == [d |-> "AnyUntil", k |-> kind]
    <3>1. /\ next \in i + 1 .. Len(expression)
          /\ \A n \in i + 2 .. next : expression[n] = matchZeroOrMoreChar
          /\ next < Len(expression) => expression[next + 1] # matchZeroOrMoreChar
      BY <1>1, StarsEnd
    <3>2. expression[i + 1] = matchZeroOrMoreChar /\ m_states' = Append(m_states, state)
          /\ i' = next + 1
      BY <2>3 DEF CompileStars, Push
    <3> HIDE DEF next
    <3>3. next < Len(expression) => expression[next + 1] \in Symbols
      BY <1>1, <3>1, next < Len(expression) => next + 1 \in 1 .. Len(expression)
    <3>4. kind \in Chars \cup {End, One}
      BY <3>1, <3>3 DEF Symbols
    <3>5. state \in States
      BY <3>4 DEF States, Directives
    <3>6. \A n \in i + 1 .. (next + 1) - 1 : expression[n] = matchZeroOrMoreChar
      BY <1>1, <3>1, <3>2
    <3>7. \/ next + 1 = Len(expression) + 1 /\ kind = End
          \/ /\ next + 1 <= Len(expression)
             /\ expression[next + 1] = matchOneChar /\ kind = One
          \/ /\ next + 1 <= Len(expression)
             /\ expression[next + 1] = kind /\ kind \in Chars
      BY <1>1, <3>1, <3>3 DEF Symbols
    <3>8. Stands(state, i, next + 1)
      <4> HIDE DEF kind
      <4> QED
        BY <1>1, <3>1, <3>6, <3>7 DEF Stands
    <3> QED
      BY <1>1, <3>1, <3>2, <3>5, <3>8
  <2> QED
    BY <2>1, <2>2, <2>3 DEF Compile
<1>5. PICK state \in States :
        m_states' = Append(m_states, state) /\ Stands(state, i, i')
  BY <1>4
<1>6. /\ m_states' \in Seq(States) /\ Len(m_states') = Len(m_states) + 1
      /\ \A n \in 1 .. Len(m_states) : m_states'[n] = m_states[n]
      /\ m_states'[Len(m_states) + 1] = state
  BY <1>1, <1>5
<1> PICK longer :
      longer = [n \in 0 .. Len(m_states) + 1 |->
                  IF n = Len(m_states) + 1 THEN i' ELSE pos[n]]
  OBVIOUS
<1>7. StatesStand(longer)' /\ longer[Len(m_states')] = i'
  <2>1. /\ pos \in [0 .. Len(m_states) -> 0 .. Len(expression) + 1] /\ pos[0] = 0
        /\ \A n \in 1 .. Len(m_states) : Stands(m_states[n], pos[n - 1], pos[n])
    BY <1>2 DEF StatesStand
  <2>2. longer \in [0 .. Len(m_states') -> 0 .. Len(expression) + 1]
    BY <1>1, <1>4, <1>6, <2>1
  <2>3. longer[0] = 0 /\ longer[Len(m_states')] = i'
    BY <1>1, <1>6, <2>1
  <2>4. ASSUME NEW n \in 1 .. Len(m_states')
        PROVE  Stands(m_states'[n], longer[n - 1], longer[n])
    <3>1. CASE n = Len(m_states) + 1
      <4>1. longer[n - 1] = i /\ longer[n] = i' /\ m_states'[n] = state
        BY <1>1, <1>2, <1>6, <3>1
      <4> QED
        BY <1>5, <4>1
    <3>2. CASE n # Len(m_states) + 1
      <4>1. /\ n \in 1 .. Len(m_states) /\ longer[n - 1] = pos[n - 1]
            /\ longer[n] = pos[n] /\ m_states'[n] = m_states[n]
        BY <1>1, <1>6, <3>2
      <4> QED
        BY <2>1, <4>1
    <3> QED
      BY <3>1, <3>2
  <2>5. ASSUME NEW n \in 1 .. Len(m_states')
        PROVE  Stands(m_states[n], longer[n - 1], longer[n])'
    <3>1. Stands(m_states'[n], longer[n - 1], longer[n])
      BY <2>4, <2>5
    <3> QED
      BY <1>1, <3>1 DEF Stands
  <2> QED
    BY <1>1, <2>2, <2>3, <2>5 DEF StatesStand
<1>8. MatcherTypeOK'
  BY <1>1, <1>4, <1>6 DEF MatcherTypeOK
<1> QED
  BY <1>1, <1>7, <1>8 DEF MatcherInv, IndicesInside, Sound, CompleteForPrefixes
-----------------------------------------------------------------------------
(***************************************************************************)
(* match().                                                                *)
(***************************************************************************)
LEMMA MatchStarts ==
  ASSUME MatcherInv, StartMatch
  PROVE  MatcherInv'
<1>1. /\ MatcherTypeOK /\ phase = "compiling" /\ phase' = "matching"
      /\ expression \in Seq(Symbols) /\ target \in Seq(Chars)
      /\ Len(expression) \in Nat /\ Len(target) \in Nat /\ i \in Nat
      /\ m_states \in Seq(States) /\ Len(m_states) \in Nat
      /\ i >= Len(expression) /\ i' = 0 /\ j' = 0
      /\ UNCHANGED <<expression, target, m_states>>
  BY CharAssumption DEF MatcherInv, StartMatch, MatcherTypeOK
<1>2. PICK pos : StatesStand(pos) /\ pos[Len(m_states)] = i
  BY <1>1 DEF MatcherInv
<1>3. StatesStand(pos)'
  BY <1>1, <1>2, StatesStandStays
<1>4. PICK cut : cut = [n \in 0 .. 0 |-> 0]
  OBVIOUS
<1>5. CutSoFar(cut, 0, 0)'
  BY <1>1, <1>4 DEF CutSoFar
<1>6. OneEach'
  BY <1>1 DEF OneEach, IsCut
<1>7. pos[0] = 0
  BY <1>2 DEF StatesStand
<1>8. Follows(pos)'
  BY <1>1, <1>2, <1>5, <1>6, <1>7 DEF Follows
<1>9. MatcherTypeOK'
  BY <1>1 DEF MatcherTypeOK
<1> QED
  BY <1>1, <1>3, <1>8, <1>9
     DEF MatcherInv, IndicesInside, Sound, CompleteForPrefixes

(* Stars and the character behind them take the word along.                 *)
LEMMA CutGrows ==
  ASSUME MatcherTypeOK, NEW a \in Nat, NEW b \in a + 1 .. Len(expression),
         NEW cut, CutSoFar(cut, a, i), i \in 0 .. Len(target),
         NEW next \in i + 1 .. Len(target), b = a + 1 => next = i + 1,
         \A n \in a + 1 .. b - 1 : expression[n] = matchZeroOrMoreChar,
         expression[b] \in {matchOneChar, target[next]}
  PROVE  \E longer : CutSoFar(longer, b, next)
<1>1. /\ expression \in Seq(Symbols) /\ target \in Seq(Chars)
      /\ Len(expression) \in Nat /\ Len(target) \in Nat /\ i \in Nat
  BY CharAssumption DEF MatcherTypeOK
<1>2. PICK longer :
        longer = [n \in 0 .. b |-> IF n <= a THEN cut[n]
                                   ELSE IF n < b THEN next - 1 ELSE next]
  OBVIOUS
<1>3. /\ cut \in [0 .. a -> 0 .. Len(target)] /\ cut[0] = 0 /\ cut[a] = i
      /\ \A m \in 1 .. a :
           /\ cut[m - 1] <= cut[m]
           /\ Fits(expression[m], SubSeq(target, cut[m - 1] + 1, cut[m]))
  BY DEF CutSoFar
<1>4. longer \in [0 .. b -> 0 .. Len(target)] /\ longer[0] = 0 /\ longer[b] = next
  BY <1>1, <1>2, <1>3
<1>5. ASSUME NEW m \in 1 .. b
      PROVE  /\ longer[m - 1] <= longer[m]
             /\ Fits(expression[m], SubSeq(target, longer[m - 1] + 1, longer[m]))
  <2>1. CASE m <= a
    <3>1. m \in 1 .. a /\ longer[m - 1] = cut[m - 1] /\ longer[m] = cut[m]
      BY <1>1, <1>2, <2>1
    <3> QED
      BY <1>3, <3>1
  <2>2. CASE a < m /\ m < b
    <3>1. expression[m] = matchZeroOrMoreChar
      BY <1>1, <2>2
    <3>2. longer[m - 1] \in {i, next - 1} /\ longer[m] = next - 1
      <4>1. m \in 0 .. b /\ m - 1 \in 0 .. b /\ ~(m <= a) /\ m < b /\ m - 1 < b
        BY <1>1, <2>2
      <4>2. longer[m] = next - 1
        BY <1>2, <4>1
      <4>3. CASE m - 1 = a
        BY <1>2, <1>3, <4>1, <4>2, <4>3
      <4>4. CASE m - 1 # a
        <5>1. ~(m - 1 <= a)
          BY <2>2, <4>4
        <5> QED
          BY <1>2, <4>1, <4>2, <5>1
      <4> QED
        BY <4>3, <4>4
    <3> QED
      BY <1>1, <3>1, <3>2 DEF Fits
  <2>3. CASE m = b
    <3>1. longer[m - 1] = next - 1 /\ longer[m] = next
      <4>1. m \in 0 .. b /\ m - 1 \in 0 .. b /\ ~(m <= a) /\ ~(m < b) /\ m - 1 < b
        BY <1>1, <2>3
      <4>2. longer[m] = next
        BY <1>2, <4>1
      <4>3. CASE m - 1 = a
        BY <1>1, <1>2, <1>3, <2>3, <4>1, <4>2, <4>3
      <4>4. CASE m - 1 # a
        <5>1. ~(m - 1 <= a)
          BY <2>3, <4>4
        <5> QED
          BY <1>2, <4>1, <4>2, <5>1
      <4> QED
        BY <4>3, <4>4
    <3>2. expression[b] # matchZeroOrMoreChar
      <4>1. target[next] \in Chars
        BY <1>1
      <4> QED
        BY <4>1, CharAssumption
    <3>3. /\ next - 1 \in 0 .. Len(target) /\ next \in next - 1 .. Len(target)
          /\ next = (next - 1) + 1
      BY <1>1
    <3>4. Fits(expression[b], SubSeq(target, next - 1 + 1, next))
      BY <1>1, <3>2, <3>3, FitsOneCharacter
    <3> QED
      BY <1>1, <2>3, <3>1, <3>4
  <2> QED
    BY <1>1, <2>1, <2>2, <2>3
<1> QED
  BY <1>4, <1>5 DEF CutSoFar

(* A star at the end takes what is left.                                    *)
LEMMA CutEnds ==
  ASSUME MatcherTypeOK, NEW a \in 0 .. Len(expression),
         NEW cut, CutSoFar(cut, a, i),
         a = Len(expression) => i = Len(target),
         \A n \in a + 1 .. Len(expression) : expression[n] = matchZeroOrMoreChar
  PROVE  Accepts(expression, target)
<1>1. /\ expression \in Seq(Symbols) /\ target \in Seq(Chars)
      /\ Len(expression) \in Nat /\ Len(target) \in Nat
  BY CharAssumption DEF MatcherTypeOK
<1>2. PICK whole :
        whole = [n \in 0 .. Len(expression) |->
                   IF n <= a THEN cut[n] ELSE Len(target)]
  OBVIOUS
<1>3. /\ cut \in [0 .. a -> 0 .. Len(target)] /\ cut[0] = 0 /\ cut[a] = i
      /\ \A m \in 1 .. a :
           /\ cut[m - 1] <= cut[m]
           /\ Fits(expression[m], SubSeq(target, cut[m - 1] + 1, cut[m]))
  BY DEF CutSoFar
<1>4. /\ whole \in [0 .. Len(expression) -> 0 .. Len(target)]
      /\ whole[0] = 0 /\ whole[Len(expression)] = Len(target)
  BY <1>1, <1>2, <1>3
<1>5. ASSUME NEW m \in 1 .. Len(expression)
      PROVE  /\ whole[m - 1] <= whole[m]
             /\ Fits(expression[m], SubSeq(target, whole[m - 1] + 1, whole[m]))
  <2>1. CASE m <= a
    <3>1. m \in 1 .. a /\ whole[m - 1] = cut[m - 1] /\ whole[m] = cut[m]
      BY <1>1, <1>2, <2>1
    <3> QED
      BY <1>3, <3>1
  <2>2. CASE a < m
    <3>1. expression[m] = matchZeroOrMoreChar
      BY <1>1, <2>2
    <3>2. whole[m] = Len(target) /\ whole[m - 1] \in 0 .. Len(target)
      <4>1. m \in 0 .. Len(expression) /\ m - 1 \in 0 .. Len(expression)
        BY <1>1
      <4>2. ~(m <= a)
        BY <1>1, <2>2
      <4> QED
        BY <1>2, <1>4, <4>1, <4>2
    <3> QED
      BY <1>1, <3>1, <3>2 DEF Fits
  <2> QED
    BY <1>1, <2>1, <2>2
<1> QED
  BY <1>4, <1>5 DEF Accepts, IsCut

(* Where stars come last, a state that waits for a character has no such    *)
(* state before it, and its symbol stands for one character in every cut.   *)
LEMMA OneGrows ==
  ASSUME MatcherTypeOK, StarsLast(expression), OneEach,
         j + 1 \in 1 .. Len(expression),
         expression[j + 1] # matchZeroOrMoreChar,
         NEW cut \in [0 .. Len(expression) -> 0 .. Len(target)],
         IsCut(cut, expression, target)
  PROVE  /\ cut[j + 1] = j + 1 /\ j + 1 <= Len(target)
         /\ expression[j + 1] \in {matchOneChar, target[j + 1]}
<1>1. /\ target \in Seq(Chars) /\ Len(target) \in Nat /\ j \in Nat
      /\ expression \in Seq(Symbols) /\ Len(expression) \in Nat
  BY CharAssumption DEF MatcherTypeOK
<1>2. cut[j] = j
  BY <1>1 DEF OneEach
<1>3. /\ cut[(j + 1) - 1] <= cut[j + 1]
      /\ Fits(expression[j + 1],
              SubSeq(target, cut[(j + 1) - 1] + 1, cut[j + 1]))
  BY DEF IsCut
<1>4. (j + 1) - 1 = j /\ j \in 0 .. Len(expression) /\ j + 1 \in 0 .. Len(expression)
  BY <1>1
<1>5. j \in 0 .. Len(target) /\ cut[j + 1] \in j .. Len(target)
  <2>1. cut[j] \in 0 .. Len(target) /\ cut[j + 1] \in 0 .. Len(target)
    BY <1>4
  <2> QED
    BY <1>1, <1>2, <1>3, <1>4, <2>1
<1>6. Fits(expression[j + 1], SubSeq(target, j + 1, cut[j + 1]))
  BY <1>2, <1>3, <1>4
<1> QED
  BY <1>1, <1>5, <1>6, FitsOneCharacter

LEMMA StarsLastStands ==
  ASSUME MatcherTypeOK, StarsLast(expression), NEW state, NEW a \in Nat, NEW b \in Nat,
         Stands(state, a, b)
  PROVE  \/ /\ b = a + 1 /\ b \in 1 .. Len(expression)
            /\ expression[b] # matchZeroOrMoreChar
            /\ state.d \in {"AnyOne", "Exact"}
         \/ b = Len(expression) + 1 /\ state.d = "AnyUntil" /\ state.k = End
<1>1. expression \in Seq(Symbols) /\ Len(expression) \in Nat
  BY CharAssumption DEF MatcherTypeOK
<1>2. matchZeroOrMoreChar \notin Chars /\ matchOneChar # matchZeroOrMoreChar
  BY CharAssumption
<1>3. CASE state.d = "AnyUntil" /\ b <= Len(expression)
  <2>1. /\ a + 2 <= b /\ expression[b] # matchZeroOrMoreChar
        /\ \A n \in a + 1 .. b - 1 : expression[n] = matchZeroOrMoreChar
    BY <1>1, <1>2, <1>3 DEF Stands
  <2>2. b - 1 \in a + 1 .. b - 1
    BY <2>1
  <2>3. expression[b - 1] = matchZeroOrMoreChar
    BY <2>1, <2>2
  <2>4. /\ b - 1 \in 1 .. Len(expression) /\ b \in 1 .. Len(expression)
        /\ b - 1 < b
    BY <1>1, <1>3, <2>1
  <2> QED
    BY <2>1, <2>3, <2>4 DEF StarsLast
<1>4. CASE state.d = "AnyUntil" /\ ~(b <= Len(expression))
  BY <1>1, <1>4 DEF Stands
<1>5. CASE state.d # "AnyUntil"
  BY <1>1, <1>2, <1>5 DEF Stands
<1> QED
  BY <1>3, <1>4, <1>5

(* What is known in the loop of match().                                    *)
LEMMA LoopFacts ==
  ASSUME MatcherInv, phase = "matching"
  PROVE  /\ MatcherTypeOK
         /\ expression \in Seq(Symbols) /\ target \in Seq(Chars)
         /\ m_states \in Seq(States)
         /\ Len(expression) \in Nat /\ Len(target) \in Nat
         /\ Len(m_states) \in Nat
         /\ i \in 0 .. Len(target) /\ j \in 0 .. Len(m_states)
         /\ \E pos :
              /\ StatesStand(pos) /\ Follows(pos)
              /\ pos[j] \in 0 .. Len(expression)
              /\ j < Len(m_states) =>
                   /\ State \in States
                   /\ pos[j + 1] \in 0 .. Len(expression) + 1
                   /\ Stands(State, pos[j], pos[j + 1])
<1>1. /\ MatcherTypeOK
      /\ expression \in Seq(Symbols) /\ target \in Seq(Chars)
      /\ m_states \in Seq(States)
      /\ Len(expression) \in Nat /\ Len(target) \in Nat
      /\ Len(m_states) \in Nat
      /\ i \in 0 .. Len(target) /\ j \in 0 .. Len(m_states)
  BY CharAssumption DEF MatcherInv, MatcherTypeOK, IndicesInside
<1>2. PICK pos : StatesStand(pos) /\ Follows(pos)
  BY DEF MatcherInv
<1>3. pos[j] \in 0 .. Len(expression)
  <2>1. pos[j] \in 0 .. Len(expression) + 1 /\ pos[j] <= Len(expression)
    BY <1>1, <1>2 DEF StatesStand, Follows
  <2> QED
    BY <1>1, <2>1
<1>4. ASSUME j < Len(m_states)
      PROVE  /\ State \in States
             /\ pos[j + 1] \in 0 .. Len(expression) + 1
             /\ Stands(State, pos[j], pos[j + 1])
  <2>1. /\ j + 1 \in 1 .. Len(m_states) /\ j + 1 \in 0 .. Len(m_states)
        /\ (j + 1) - 1 = j
    BY <1>1, <1>4
  <2>2. Stands(m_states[j + 1], pos[(j + 1) - 1], pos[j + 1])
    BY <1>2, <2>1 DEF StatesStand
  <2> QED
    BY <1>1, <1>2, <2>1, <2>2 DEF StatesStand, State
<1> QED
  BY <1>1, <1>2, <1>3, <1>4

LEMMA MatchGoesOn ==
  ASSUME MatcherInv, phase = "matching", j < Len(m_states), i < Len(target),
         NEW pos, StatesStand(pos), Follows(pos),
         pos[j] \in 0 .. Len(expression), Stands(State, pos[j], pos[j + 1]),
         pos[j + 1] \in 1 .. Len(expression),
         NEW next \in i + 1 .. Len(target), Advance(next),
         pos[j + 1] = pos[j] + 1 => next = i + 1,
         expression[pos[j + 1]] \in {matchOneChar, target[next]}
  PROVE  MatcherInv'
<1>0. PICK a, b : a = pos[j] /\ b = pos[j + 1]
  OBVIOUS
<1>1. /\ MatcherTypeOK
      /\ expression \in Seq(Symbols) /\ target \in Seq(Chars)
      /\ m_states \in Seq(States)
      /\ Len(expression) \in Nat /\ Len(target) \in Nat
      /\ Len(m_states) \in Nat
      /\ i \in 0 .. Len(target) /\ j \in 0 .. Len(m_states)
  BY LoopFacts
<1>2. /\ i' = next /\ j' = j + 1
      /\ UNCHANGED <<expression, target, m_states, phase>>
  BY DEF Advance
<1>3. PICK cut : CutSoFar(cut, a, i)
  BY <1>0 DEF Follows
<1>4. /\ b \in a + 1 .. Len(expression)
      /\ \A n \in a + 1 .. b - 1 : expression[n] = matchZeroOrMoreChar
  <2>0. /\ Stands(State, a, b) /\ a \in Nat /\ b \in Nat
        /\ Len(expression) \in Nat /\ b <= Len(expression)
    BY <1>0, <1>1
  <2>1. a + 1 <= b
    BY <2>0 DEF Stands
  <2>2. ASSUME NEW n \in a + 1 .. b - 1
        PROVE  expression[n] = matchZeroOrMoreChar
    <3> HIDE DEF State
    <3>1. a + 1 # b
      BY <2>0, <2>2
    <3> QED
      BY <2>0, <2>2, <3>1 DEF Stands
  <2> QED
    BY <1>0, <1>1, <2>1, <2>2
<1>5. PICK longer : CutSoFar(longer, b, next)
  <2>1. /\ a \in Nat
        /\ b = a + 1 => next = i + 1
        /\ expression[b] \in {matchOneChar, target[next]}
    BY <1>0, <1>1
  <2>2. CutSoFar(cut, a, i)
    BY <1>0, <1>3
  <2> QED
    <3>1. MatcherTypeOK /\ i \in 0 .. Len(target)
      BY <1>1
    <3> QED
      BY <1>4, <2>1, <2>2, <3>1, CutGrows, Zenon
<1>6. CutSoFar(longer, b, next)'
  BY <1>2, <1>5 DEF CutSoFar
<1>7. StatesStand(pos)'
  BY <1>2, StatesStandStays
<1>8. ASSUME StarsLast(expression)
      PROVE  pos[j + 1] = j + 1 /\ OneEach'
  <2>1. a = j /\ OneEach /\ i = j
    BY <1>0, <1>8 DEF Follows, OneEach
  <2>2. b = a + 1 /\ expression[b] # matchZeroOrMoreChar
    <3>1. a \in Nat /\ b \in Nat
      BY <1>0, <1>1
    <3>2. Stands(State, a, b)
      BY <1>0
    <3> QED
      <4>1. MatcherTypeOK /\ Len(expression) \in Nat
        BY <1>1
      <4>2. \/ /\ b = a + 1 /\ b \in 1 .. Len(expression)
               /\ expression[b] # matchZeroOrMoreChar
            \/ b = Len(expression) + 1
        BY <1>8, <3>1, <3>2, <4>1, StarsLastStands, Zenon
      <4> QED
        BY <1>4, <3>1, <4>1, <4>2
  <2>3. /\ b = j + 1 /\ j + 1 \in 1 .. Len(expression)
        /\ expression[j + 1] # matchZeroOrMoreChar /\ next = j + 1
    BY <1>0, <1>1, <1>4, <2>1, <2>2
  <2>4. ASSUME NEW each \in [0 .. Len(expression) -> 0 .. Len(target)],
               IsCut(each, expression, target),
               NEW n \in 0 .. j + 1, n <= Len(expression)
        PROVE  each[n] = n
    <3>1. CASE n = j + 1
      BY <1>1, <1>8, <2>1, <2>3, <2>4, <3>1, OneGrows
    <3>2. CASE n # j + 1
      <4>1. n \in 0 .. j
        BY <1>1, <3>2
      <4> QED
        BY <2>1, <2>4, <4>1 DEF OneEach
    <3> QED
      BY <3>1, <3>2
  <2>5. OneEach'
    BY <1>2, <2>3, <2>4 DEF OneEach, IsCut, Fits
  <2> QED
    BY <1>0, <2>3, <2>5
<1>9. Follows(pos)'
  BY <1>0, <1>1, <1>2, <1>6, <1>8 DEF Follows, StarsLast
<1>10. MatcherTypeOK' /\ IndicesInside'
  <2>1. next \in Nat /\ next <= Len(target) /\ j + 1 \in Nat /\ j + 1 <= Len(m_states)
    BY <1>1
  <2> QED
    BY <1>1, <1>2, <2>1 DEF MatcherTypeOK, IndicesInside
<1> QED
  BY <1>2, <1>7, <1>9, <1>10 DEF MatcherInv, Sound, CompleteForPrefixes

(* A verdict is right if the pattern stands for the word, or if it does not *)
(* where its stars come last.                                               *)
LEMMA MatchReturns ==
  ASSUME MatcherInv, phase = "matching", NEW verdict \in BOOLEAN, Return(verdict),
         verdict => Accepts(expression, target),
         ~verdict /\ StarsLast(expression) => ~Accepts(expression, target)
  PROVE  MatcherInv'
<1>1. /\ MatcherTypeOK /\ IndicesInside
      /\ phase' = IF verdict THEN "matched" ELSE "rejected"
      /\ UNCHANGED <<expression, target, m_states, i, j>>
  BY DEF MatcherInv, Return
<1>2. MatcherTypeOK' /\ IndicesInside'
  BY <1>1 DEF MatcherTypeOK, IndicesInside, Verdicts
<1>3. /\ Accepts(expression, target)' <=> Accepts(expression, target)
      /\ StarsLast(expression)' <=> StarsLast(expression)
  BY <1>1 DEF Accepts, IsCut, Fits, StarsLast
<1>4. Sound' /\ CompleteForPrefixes'
  BY <1>1, <1>3 DEF Sound, CompleteForPrefixes
<1> QED
  BY <1>1, <1>2, <1>4 DEF MatcherInv

(* No cut is left where a symbol stands for a character that is not there,  *)
(* or the pattern is used up and the word is not.                           *)
LEMMA NoCut ==
  ASSUME MatcherTypeOK, StarsLast(expression), OneEach,
         \/ /\ j + 1 \in 1 .. Len(expression)
            /\ expression[j + 1] # matchZeroOrMoreChar
            /\ \/ Len(target) <= j
               \/ expression[j + 1] \notin {matchOneChar, target[j + 1]}
         \/ j = Len(expression) /\ i # Len(target)
  PROVE  ~Accepts(expression, target)
<1> SUFFICES ASSUME NEW cut \in [0 .. Len(expression) -> 0 .. Len(target)],
                    IsCut(cut, expression, target)
             PROVE  FALSE
  BY DEF Accepts
<1>1. /\ target \in Seq(Chars) /\ Len(target) \in Nat /\ j \in Nat
      /\ expression \in Seq(Symbols) /\ Len(expression) \in Nat
  BY CharAssumption DEF MatcherTypeOK
<1>2. CASE j = Len(expression) /\ i # Len(target)
  <2>1. cut[Len(expression)] = Len(target)
    BY DEF IsCut
  <2>2. i = j /\ \A n \in 0 .. j : n <= Len(expression) => cut[n] = n
    BY DEF OneEach
  <2>3. j \in 0 .. j /\ j <= Len(expression)
    BY <1>1, <1>2
  <2> QED
    BY <1>2, <2>1, <2>2, <2>3
<1>3. CASE /\ j + 1 \in 1 .. Len(expression)
           /\ expression[j + 1] # matchZeroOrMoreChar
           /\ \/ Len(target) <= j
              \/ expression[j + 1] \notin {matchOneChar, target[j + 1]}
  <2>1. /\ j + 1 <= Len(target)
        /\ expression[j + 1] \in {matchOneChar, target[j + 1]}
    BY <1>3, OneGrows
  <2> QED
    BY <1>1, <1>3, <2>1
<1> QED
  BY <1>2, <1>3

LEMMA TargetEndsRight ==
  ASSUME MatcherInv, TargetEnds
  PROVE  MatcherInv'
<1>1. phase = "matching" /\ j < Len(m_states) /\ i >= Len(target)
  BY DEF TargetEnds, InLoop
<1>2. /\ MatcherTypeOK
      /\ expression \in Seq(Symbols) /\ target \in Seq(Chars)
      /\ Len(expression) \in Nat /\ Len(target) \in Nat
      /\ i \in 0 .. Len(target) /\ i = Len(target)
  BY <1>1, LoopFacts
<1>3. PICK pos : /\ StatesStand(pos) /\ Follows(pos)
                 /\ pos[j] \in 0 .. Len(expression)
                 /\ pos[j + 1] \in 0 .. Len(expression) + 1
                 /\ Stands(State, pos[j], pos[j + 1])
  BY <1>1, LoopFacts
<1>4. PICK cut : CutSoFar(cut, pos[j], i)
  BY <1>3 DEF Follows
<1>5. ASSUME State.d = "AnyUntil", State.k = End
      PROVE  Accepts(expression, target)
  <2>1. \A n \in pos[j] + 1 .. Len(expression) : expression[n] = matchZeroOrMoreChar
    BY <1>2, <1>3, <1>5, CharAssumption DEF Stands
  <2> QED
    BY <1>2, <1>3, <1>4, <2>1, CutEnds
<1>6. ASSUME ~(State.d = "AnyUntil" /\ State.k = End), StarsLast(expression)
      PROVE  ~Accepts(expression, target)
  <2>1. pos[j] = j /\ OneEach /\ i = j
    BY <1>3, <1>6 DEF Follows, OneEach
  <2>2. pos[j] \in Nat /\ pos[j + 1] \in Nat
    BY <1>2, <1>3
  <2>3. /\ pos[j + 1] = pos[j] + 1 /\ pos[j + 1] \in 1 .. Len(expression)
        /\ expression[pos[j + 1]] # matchZeroOrMoreChar
    BY <1>2, <1>3, <1>6, <2>2, StarsLastStands
  <2>4. /\ j + 1 \in 1 .. Len(expression) /\ Len(target) <= j
        /\ expression[j + 1] # matchZeroOrMoreChar
    BY <1>2, <2>1, <2>3
  <2> QED
    BY <1>2, <1>6, <2>1, <2>4, NoCut
<1> DEFINE verdict == State.d = "AnyUntil" /\ State.k = End
<1>7. Return(verdict)
  BY DEF TargetEnds
<1> QED
  BY <1>1, <1>5, <1>6, <1>7, MatchReturns

LEMMA ExactMatches ==
  ASSUME MatcherInv, MatchExact
  PROVE  MatcherInv'
<1>1. phase = "matching" /\ j < Len(m_states) /\ i < Len(target) /\ State.d = "Exact"
  BY DEF MatchExact, InLoop
<1>2. /\ MatcherTypeOK
      /\ expression \in Seq(Symbols) /\ target \in Seq(Chars)
      /\ Len(expression) \in Nat /\ Len(target) \in Nat
      /\ i \in 0 .. Len(target) /\ i + 1 \in i + 1 .. Len(target)
  BY <1>1, LoopFacts
<1>3. PICK pos : /\ StatesStand(pos) /\ Follows(pos)
                 /\ pos[j] \in 0 .. Len(expression)
                 /\ pos[j + 1] \in 0 .. Len(expression) + 1
                 /\ Stands(State, pos[j], pos[j + 1])
  BY <1>1, LoopFacts
<1>4. /\ pos[j + 1] = pos[j] + 1 /\ pos[j + 1] \in 1 .. Len(expression)
      /\ expression[pos[j + 1]] = State.k /\ State.k \in Chars
  BY <1>1, <1>2, <1>3 DEF Stands
<1>5. CASE target[i + 1] = State.k
  <2>1. Advance(i + 1)
    BY <1>5 DEF MatchExact
  <2> QED
    BY <1>1, <1>2, <1>3, <1>4, <1>5, <2>1, MatchGoesOn
<1>6. CASE target[i + 1] # State.k
  <2>1. Return(FALSE)
    BY <1>6 DEF MatchExact
  <2>2. ASSUME StarsLast(expression)
        PROVE  ~Accepts(expression, target)
    <3>1. pos[j] = j /\ OneEach /\ i = j
      BY <1>3, <2>2 DEF Follows, OneEach
    <3>2. /\ j + 1 \in 1 .. Len(expression)
          /\ expression[j + 1] # matchZeroOrMoreChar
          /\ expression[j + 1] \notin {matchOneChar, target[j + 1]}
      BY <1>4, <1>6, <3>1, CharAssumption
    <3> QED
      BY <1>2, <2>2, <3>1, <3>2, NoCut
  <2> QED
    BY <1>1, <2>1, <2>2, MatchReturns
<1> QED
  BY <1>5, <1>6

LEMMA OneMatches ==
  ASSUME MatcherInv, MatchOne
  PROVE  MatcherInv'
<1>1. /\ phase = "matching" /\ j < Len(m_states) /\ i < Len(target)
      /\ State.d = "AnyOne" /\ Advance(i + 1)
  BY DEF MatchOne, InLoop
<1>2. /\ Len(expression) \in Nat /\ Len(target) \in Nat
      /\ i \in 0 .. Len(target) /\ i + 1 \in i + 1 .. Len(target)
  BY <1>1, LoopFacts
<1>3. PICK pos : /\ StatesStand(pos) /\ Follows(pos)
                 /\ pos[j] \in 0 .. Len(expression)
                 /\ pos[j + 1] \in 0 .. Len(expression) + 1
                 /\ Stands(State, pos[j], pos[j + 1])
  BY <1>1, LoopFacts
<1>4. /\ pos[j + 1] = pos[j] + 1 /\ pos[j + 1] \in 1 .. Len(expression)
      /\ expression[pos[j + 1]] = matchOneChar
  BY <1>1, <1>2, <1>3 DEF Stands
<1> QED
  BY <1>1, <1>2, <1>3, <1>4, MatchGoesOn

LEMMA UntilMatches ==
  ASSUME MatcherInv, MatchUntil
  PROVE  MatcherInv'
<1>1. /\ phase = "matching" /\ j < Len(m_states) /\ i < Len(target)
      /\ State.d = "AnyUntil"
  BY DEF MatchUntil, InLoop
<1>2. /\ MatcherTypeOK
      /\ expression \in Seq(Symbols) /\ target \in Seq(Chars)
      /\ Len(expression) \in Nat /\ Len(target) \in Nat
      /\ i \in 0 .. Len(target) /\ i + 1 \in i + 1 .. Len(target)
  BY <1>1, LoopFacts
<1>3. PICK pos : /\ StatesStand(pos) /\ Follows(pos)
                 /\ pos[j] \in 0 .. Len(expression)
                 /\ pos[j + 1] \in 0 .. Len(expression) + 1
                 /\ Stands(State, pos[j], pos[j + 1])
  BY <1>1, LoopFacts
<1>4. pos[j] + 2 <= pos[j + 1]
  BY <1>1, <1>3 DEF Stands
<1>5. One \notin Chars /\ End \notin Chars /\ End # One
  BY CharAssumption
<1>6. CASE State.k = One
  <2>1. Advance(i + 1)
    BY <1>5, <1>6 DEF MatchUntil
  <2>2. pos[j + 1] \in 1 .. Len(expression) /\ expression[pos[j + 1]] = matchOneChar
    BY <1>1, <1>2, <1>3, <1>4, <1>5, <1>6 DEF Stands
  <2> QED
    BY <1>1, <1>2, <1>3, <1>4, <2>1, <2>2, MatchGoesOn
<1>7. CASE State.k = End
  <2>1. Return(TRUE)
    BY <1>5, <1>7 DEF MatchUntil
  <2>2. PICK cut : CutSoFar(cut, pos[j], i)
    BY <1>3 DEF Follows
  <2>3. /\ pos[j] < Len(expression)
        /\ \A n \in pos[j] + 1 .. Len(expression) :
             expression[n] = matchZeroOrMoreChar
    BY <1>1, <1>2, <1>3, <1>4, <1>5, <1>7 DEF Stands
  <2>4. Accepts(expression, target)
    BY <1>2, <1>3, <2>2, <2>3, CutEnds
  <2> QED
    BY <1>1, <2>1, <2>4, MatchReturns
<1>8. CASE State.k \notin {One, End}
  <2>1. /\ pos[j + 1] \in 1 .. Len(expression)
        /\ expression[pos[j + 1]] = State.k /\ State.k \in Chars
    BY <1>1, <1>2, <1>3, <1>4, <1>8 DEF Stands
  <2>2. CASE Found(State.k) = {}
    <3>1. Return(FALSE)
      BY <1>8, <2>2 DEF MatchUntil
    <3>2. ~StarsLast(expression)
      <4>1. pos[j] \in Nat /\ pos[j + 1] \in Nat
        BY <1>2, <1>3
      <4> QED
        BY <1>1, <1>2, <1>3, <1>8, <4>1, StarsLastStands
    <3> QED
      BY <1>1, <3>1, <3>2, MatchReturns
  <2>3. CASE Found(State.k) # {}
    <3> DEFINE first == CHOOSE m \in Found(State.k) :
                          \A other \in Found(State.k) : m <= other
    <3>1. Found(State.k) \in SUBSET Nat
      BY <1>2 DEF Found
    <3>2. \E m \in Found(State.k) : \A other \in Found(State.k) : m <= other
      BY <2>3, <3>1, LeastElement
    <3>3. first \in Found(State.k)
      BY <3>2
    <3>4. Advance(1 + first)
      BY <1>8, <2>3 DEF MatchUntil
    <3> HIDE DEF first
    <3>5. 1 + first \in i + 1 .. Len(target) /\ target[1 + first] = State.k
      BY <1>2, <3>3 DEF Found
    <3>6. PICK next : next = 1 + first
      OBVIOUS
    <3>7. /\ next \in i + 1 .. Len(target) /\ Advance(next)
          /\ expression[pos[j + 1]] \in {matchOneChar, target[next]}
      BY <2>1, <3>4, <3>5, <3>6, Zenon
    <3>8. pos[j + 1] = pos[j] + 1 => next = i + 1
      BY <1>2, <1>3, <1>4
    <3> QED
      BY <1>1, <1>3, <2>1, <3>7, <3>8, MatchGoesOn, Zenon
  <2> QED
    BY <2>2, <2>3
<1> QED
  BY <1>6, <1>7, <1>8

LEMMA StatesEndRight ==
  ASSUME MatcherInv, StatesEnd
  PROVE  MatcherInv'
<1>1. phase = "matching" /\ j >= Len(m_states) /\ Return(i = Len(target))
  BY DEF StatesEnd
<1>2. /\ MatcherTypeOK
      /\ Len(expression) \in Nat /\ Len(target) \in Nat /\ Len(m_states) \in Nat
      /\ i \in 0 .. Len(target) /\ j \in 0 .. Len(m_states) /\ j = Len(m_states)
  BY <1>1, LoopFacts
<1>3. PICK pos : /\ Follows(pos) /\ pos[j] \in 0 .. Len(expression)
  BY <1>1, LoopFacts
<1>4. pos[j] = Len(expression)
  BY <1>2, <1>3 DEF Follows
<1>5. PICK cut : CutSoFar(cut, pos[j], i)
  BY <1>3 DEF Follows
<1>6. ASSUME i = Len(target)
      PROVE  Accepts(expression, target)
  <2>1. \A n \in pos[j] + 1 .. Len(expression) : expression[n] = matchZeroOrMoreChar
    BY <1>2, <1>4
  <2> QED
    BY <1>2, <1>3, <1>5, <1>6, <2>1, CutEnds
<1>7. ASSUME i # Len(target), StarsLast(expression)
      PROVE  ~Accepts(expression, target)
  BY <1>2, <1>3, <1>4, <1>7, NoCut DEF Follows
<1> QED
  BY <1>1, <1>6, <1>7, MatchReturns

LEMMA MatcherInductive ==
  ASSUME MatcherInv, [MatcherNext]_matcherVars
  PROVE  MatcherInv'
<1>1. CASE UNCHANGED matcherVars
  <2>1. UNCHANGED <<expression, target, m_states, i, j, phase>>
    BY <1>1 DEF matcherVars
  <2>2. MatcherTypeOK' /\ IndicesInside'
    BY <2>1 DEF MatcherInv, MatcherTypeOK, IndicesInside
  <2>3. ASSUME NEW pos
        PROVE  /\ StatesStand(pos)' <=> StatesStand(pos)
               /\ Follows(pos)' <=> Follows(pos)
    <3>1. StatesStand(pos)' <=> StatesStand(pos)
      BY <2>1, StatesStandStays
    <3>2. OneEach' <=> OneEach
      BY <2>1 DEF OneEach
    <3>3. (\E cut : CutSoFar(cut, pos[j], i))' <=> \E cut : CutSoFar(cut, pos[j], i)
      BY <2>1 DEF CutSoFar
    <3> QED
      BY <2>1, <3>1, <3>2, <3>3 DEF Follows
  <2>4. Sound' /\ CompleteForPrefixes'
    BY <2>1 DEF MatcherInv, Sound, CompleteForPrefixes
  <2> QED
    BY <2>1, <2>2, <2>3, <2>4 DEF MatcherInv
<1> QED
  BY <1>1, CompileStands, MatchStarts, TargetEndsRight, ExactMatches, OneMatches,
     UntilMatches, StatesEndRight DEF MatcherNext

(* For every pattern and every word, match() of OVWildcard.h keeps its      *)
(* indices inside the word and the states, takes no word the pattern does   *)
(* not stand for, and misses none if nothing but stars follows a star.      *)
THEOREM MatchesRight == MatcherSpec => []Matches
<1>1. MatcherInit => MatcherInv
  BY MatcherInitial
<1>2. MatcherInv /\ [MatcherNext]_matcherVars => MatcherInv'
  BY MatcherInductive
<1>3. MatcherInv => Matches
  BY DEF MatcherInv, Matches
<1> QED
  BY <1>1, <1>2, <1>3, PTL DEF MatcherSpec
=============================================================================
