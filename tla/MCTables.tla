------------------------------ MODULE MCTables ------------------------------
(***************************************************************************)
(* A table and the matcher its wildcard search uses: a behaviour is one of *)
(* ArrayCIN or one of OVWildcard, the other rests in an initial state.     *)
(*                                                                         *)
(* In the table, text 1 is 3 in upper case.  The files are every one of at *)
(* most two lines of each kind, finished or not; every order of five       *)
(* entries, for the search; some with a key on several lines, apart and    *)
(* together; one that is not there.                                        *)
(***************************************************************************)
EXTENDS ArrayCIN, OVWildcard

VARIABLE part   (* the one that runs *)
-----------------------------------------------------------------------------

MCTexts    == 0 .. 5
MClowerStr == [t \in MCTexts |-> IF t = 1 THEN 3 ELSE t]
MCPatterns == {{2, 3}, MCTexts, {}}

TextLine(hash, tab, key, value) ==
  [hash |-> hash, tab |-> tab, key |-> key, value |-> value]

Entry(key, value) == TextLine(FALSE, "value", key, value)

MCLines ==
  {Entry(key, value) : key \in {1, 2, 3}, value \in {4, 5}}
  \cup {TextLine(TRUE, "none", 0, 0), TextLine(TRUE, "value", 2, 4),
        TextLine(FALSE, "none", 0, 0), TextLine(FALSE, "dangling", 2, 0)}

File(lines, terminated) ==
  [exists |-> TRUE, lines |-> lines, terminated |-> terminated]

ShortFiles ==
  {File(lines, end) :
     lines \in UNION {[1 .. n -> MCLines] : n \in 1 .. 2}, end \in BOOLEAN}
  \cup {File(<<>>, TRUE)}

Orders == {o \in [1 .. 5 -> {0, 2, 3, 4, 5}] :
             \A m, n \in 1 .. 5 : m # n => o[m] # o[n]}

LongFiles == {File([n \in 1 .. 5 |-> Entry(o[n], n % 3)], TRUE) : o \in Orders}

Repeating ==
  {File(<<Entry(2, 5), Entry(3, 4), Entry(2, 4), Entry(1, 5)>>, end) :
     end \in BOOLEAN}
  \cup {File(<<Entry(2, 5), Entry(2, 4), Entry(2, 5)>>, TRUE)}

Missing == [exists |-> FALSE, lines |-> <<>>, terminated |-> TRUE]

MCFiles == ShortFiles \cup LongFiles \cup Repeating \cup {Missing}

(* Characters; characters with their special codes; phrases. *)
MCModes == {[reverse |-> FALSE, sorting |-> TRUE],
            [reverse |-> TRUE,  sorting |-> TRUE],
            [reverse |-> FALSE, sorting |-> FALSE]}
-----------------------------------------------------------------------------
(* Every pattern of at most four symbols with every word of at most four    *)
(* characters, over two characters: stars at the front, in the middle, at   *)
(* the end and in runs, with a wildcard or a character behind them that the *)
(* word holds never, once and several times.                                *)
UpTo(n, S) == UNION {[1 .. m -> S] : m \in 0 .. n}

MCExpressions == UpTo(4, Chars \cup {matchOneChar, matchZeroOrMoreChar})
MCTargets     == UpTo(4, Chars)
-----------------------------------------------------------------------------
TablesInit ==
  /\ part \in {"table", "matcher"}
  /\ Init        /\ (part = "table"   \/ (file = Missing /\ mode.reverse))
  /\ MatcherInit /\ (part = "matcher" \/ (expression = <<>> /\ target = <<>>))

TableStep(step)   == part = "table"   /\ step /\ UNCHANGED <<part, matcherVars>>
MatcherStep(step) == part = "matcher" /\ step /\ UNCHANGED <<part, vars>>

TablesNext == TableStep(Next) \/ MatcherStep(MatcherNext)

tablesVars == <<part, vars, matcherVars>>

(* A call under way runs on, of both; nobody has to make one.               *)
TablesSpec ==
  TablesInit /\ [][TablesNext]_tablesVars
  /\ WF_tablesVars(TableStep(Work)) /\ WF_tablesVars(MatcherStep(MatcherNext))
-----------------------------------------------------------------------------
(* A search ends, a file gets loaded or dies of one of its lines, and       *)
(* match() returns.                                                         *)
Ends == SearchEnds /\ (part = "table" => Loads) /\ (part = "matcher" => Answers)
=============================================================================
