----------------------------- MODULE OVWildcard -----------------------------
(***************************************************************************)
(* The pattern matcher of src/OVWildcard.h: the constructor turns a        *)
(* pattern into a list of states, match() walks that list along a target.  *)
(* Both are loops, and one step is one turn of a loop.  Letter case, which *)
(* both sides of a comparison fold, is left out.                           *)
(*                                                                         *)
(* Loop indices count from 0 as in the code, sequences from 1.             *)
(***************************************************************************)
EXTENDS Naturals, Sequences

CONSTANTS
  Chars,               (* the characters of the targets                    *)
  matchOneChar,        (* ?                                                *)
  matchZeroOrMoreChar, (* star                                             *)
  Expressions,         (* the patterns                                     *)
  Targets              (* the words they are matched with                  *)

Symbols == Chars \cup {matchOneChar, matchZeroOrMoreChar}

(* The k of an AnyUntil state: 0 for "until the end", -1 for the one char.  *)
End == "end"
One == "one"

ASSUME CharAssumption ==
  /\ matchOneChar # matchZeroOrMoreChar
  /\ {matchOneChar, matchZeroOrMoreChar, End, One} \cap Chars = {}
  /\ End # One
  /\ Expressions \subseteq Seq(Symbols) /\ Targets \subseteq Seq(Chars)

VARIABLES
  expression, target,
  m_states,  (* the compiled pattern, (directive, k) pairs                 *)
  i,         (* compiling: index in expression; matching: index in target  *)
  j,         (* matching: index in m_states                                *)
  phase      (* compiling, matching, or the verdict of match()             *)

matcherVars == <<expression, target, m_states, i, j, phase>>

Directives == {"Exact", "AnyOne", "AnyUntil"}
States == [d : Directives, k : Chars \cup {End, One}]

Verdicts == {"matched", "rejected"}
-----------------------------------------------------------------------------
(***************************************************************************)
(* The constructor.                                                        *)
(***************************************************************************)
MatcherInit ==
  /\ expression \in Expressions /\ target \in Targets
  /\ m_states = <<>> /\ i = 0 /\ j = 0
  /\ phase = "compiling"

Push(d, k) == m_states' = Append(m_states, [d |-> d, k |-> k])

CompileOne ==
  /\ expression[i + 1] = matchOneChar
  /\ Push("AnyOne", End)
  /\ i' = i + 1

CompileExact ==
  /\ expression[i + 1] \in Chars
  /\ Push("Exact", expression[i + 1])
  /\ i' = i + 1

(* The index of the character that ends a run of stars, or the length. *)
AfterStars(n) ==
  LET ends == {m \in n + 1 .. Len(expression) - 1 :
                 expression[m + 1] # matchZeroOrMoreChar}
  IN  IF ends = {} THEN Len(expression)
      ELSE CHOOSE m \in ends : \A other \in ends : m <= other

(* A run of stars takes the character behind it along. *)
CompileStars ==
  LET next == AfterStars(i)
  IN  /\ expression[i + 1] = matchZeroOrMoreChar
      /\ Push("AnyUntil",
              IF next = Len(expression) THEN End
              ELSE IF expression[next + 1] = matchOneChar THEN One
              ELSE expression[next + 1])
      /\ i' = next + 1

Compile ==
  /\ phase = "compiling" /\ i < Len(expression)
  /\ CompileOne \/ CompileExact \/ CompileStars
  /\ UNCHANGED <<expression, target, j, phase>>

StartMatch ==
  /\ phase = "compiling" /\ i >= Len(expression)
  /\ phase' = "matching" /\ i' = 0 /\ j' = 0
  /\ UNCHANGED <<expression, target, m_states>>
-----------------------------------------------------------------------------
(***************************************************************************)
(* match().                                                                *)
(***************************************************************************)
State == m_states[j + 1]

Return(verdict) ==
  /\ phase' = IF verdict THEN "matched" ELSE "rejected"
  /\ UNCHANGED <<expression, target, m_states, i, j>>

Advance(next) ==
  /\ i' = next /\ j' = j + 1
  /\ UNCHANGED <<expression, target, m_states, phase>>

InLoop == phase = "matching" /\ j < Len(m_states)

(* The target is used up: only stars at the end can still match. *)
TargetEnds ==
  /\ InLoop /\ i >= Len(target)
  /\ Return(State.d = "AnyUntil" /\ State.k = End)

MatchExact ==
  /\ InLoop /\ i < Len(target) /\ State.d = "Exact"
  /\ IF target[i + 1] = State.k THEN Advance(i + 1) ELSE Return(FALSE)

MatchOne ==
  /\ InLoop /\ i < Len(target) /\ State.d = "AnyOne"
  /\ Advance(i + 1)

(* Indices of the target from i on where the character k stands. *)
Found(k) == {m \in i .. Len(target) - 1 : target[m + 1] = k}

(* The first such character is taken; match() never comes back for another. *)
MatchUntil ==
  /\ InLoop /\ i < Len(target) /\ State.d = "AnyUntil"
  /\ CASE State.k = One -> Advance(i + 1)
       [] State.k = End -> Return(TRUE)
       [] OTHER -> IF Found(State.k) = {} THEN Return(FALSE)
                   ELSE Advance(1 + CHOOSE m \in Found(State.k) :
                                      \A other \in Found(State.k) : m <= other)

(* Deliberately wrong: does not ask whether the target is used up. *)
end_unchecked ==
  /\ phase = "matching" /\ j >= Len(m_states)
  /\ Return(TRUE)

(* m_matchEndOfLine is true for every matcher the engine makes. *)
StatesEnd ==
  /\ phase = "matching" /\ j >= Len(m_states)
  /\ Return(i = Len(target))

MatcherNext ==
  \/ Compile \/ StartMatch
  \/ TargetEnds \/ MatchExact \/ MatchOne \/ MatchUntil \/ StatesEnd

(* match() is called and runs to its end: the loops are not interrupted. *)
MatcherSpec == MatcherInit /\ [][MatcherNext]_matcherVars /\ WF_matcherVars(MatcherNext)
-----------------------------------------------------------------------------
(***************************************************************************)
(* What a pattern means, without an algorithm: the target can be cut into  *)
(* pieces, one for each symbol of the pattern.                             *)
(***************************************************************************)
Fits(symbol, piece) ==
  \/ symbol = matchZeroOrMoreChar
  \/ Len(piece) = 1 /\ symbol \in {matchOneChar, piece[1]}

(* cut[n] is the length of what the first n symbols stand for. *)
IsCut(cut, p, t) ==
  /\ cut[0] = 0 /\ cut[Len(p)] = Len(t)
  /\ \A n \in 1 .. Len(p) :
       /\ cut[n - 1] <= cut[n]
       /\ Fits(p[n], SubSeq(t, cut[n - 1] + 1, cut[n]))

Accepts(p, t) == \E cut \in [0 .. Len(p) -> 0 .. Len(t)] : IsCut(cut, p, t)

MatcherTypeOK ==
  /\ expression \in Expressions /\ target \in Targets
  /\ m_states \in Seq(States)
  /\ i \in Nat /\ j \in Nat
  /\ phase \in {"compiling", "matching"} \cup Verdicts

(* Indices stay where the code reads: j at most one past the states, i at   *)
(* most one past the target.                                                *)
IndicesInside ==
  phase # "compiling" => i <= Len(target) /\ j <= Len(m_states)

(* A word the matcher takes is one the pattern stands for: taking the first *)
(* occurrence and leaving it, and folding stars with what follows them,     *)
(* never lets a wrong word through.                                         *)
Sound == phase = "matched" => Accepts(expression, target)

(* Where no star is followed by anything else, the matcher also misses no   *)
(* word: codes with ? only, and prefixes.                                   *)
StarsLast(p) ==
  \A n \in 1 .. Len(p), m \in 1 .. Len(p) :
    n < m /\ p[n] = matchZeroOrMoreChar => p[m] = matchZeroOrMoreChar

CompleteForPrefixes ==
  phase = "rejected" /\ StarsLast(expression) => ~Accepts(expression, target)

(* match() stays inside the word and its states, takes no word its pattern  *)
(* does not stand for, and misses none of a pattern whose stars come last.  *)
Matches ==
  /\ MatcherTypeOK /\ IndicesInside
  /\ Sound /\ CompleteForPrefixes

(* match() returns. *)
Answers == <>(phase \in Verdicts)

(* "Wildcard support (? and * in Regular Expression)" (OVWildcard.h): every *)
(* word a pattern stands for is found.                                      *)
Complete == phase = "rejected" => ~Accepts(expression, target)
=============================================================================
