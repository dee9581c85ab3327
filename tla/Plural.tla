------------------------------- MODULE Plural -------------------------------
(***************************************************************************)
(* Plural forms: the "nplurals=...; plural=..." of a catalog's header is   *)
(* found by plural-exp.c, parsed by the bison grammar of plural.y,         *)
(* evaluated by eval-plural.h for a number n, and plural_lookup of         *)
(* dcigettext.c picks the form.                                            *)
(*                                                                         *)
(* Text is a sequence of characters.  The parser is the automaton bison    *)
(* makes of the grammar: a stack, one token of lookahead, and conflicts    *)
(* resolved by precedence, or by shifting where a rule has none.           *)
(***************************************************************************)
EXTENDS Integers, Sequences, SequencesExt

CONSTANT
  ULONG_MAX   (* the largest unsigned long: all but one power of two       *)

Wrap(i) == i % (ULONG_MAX + 1)

NUL == ""
Nothing == <<>>
-----------------------------------------------------------------------------
(* Expressions.                                                             *)
var == <<"n">>
num(n) == <<"num", n>>

GERMANIC_PLURAL == <<"!=", var, num(1)>>

(* A division by zero raises SIGFPE.                                        *)
SIGFPE == -1

Truth(b) == IF b THEN 1 ELSE 0

Binary(op, left, right) ==
  CASE op = "*"  -> Wrap(left * right)
    [] op = "/"  -> IF right = 0 THEN SIGFPE ELSE left \div right
    [] op = "%"  -> IF right = 0 THEN SIGFPE ELSE left % right
    [] op = "+"  -> Wrap(left + right)
    [] op = "-"  -> Wrap(left - right)
    [] op = "<"  -> Truth(left < right)
    [] op = ">"  -> Truth(left > right)
    [] op = "<=" -> Truth(left <= right)
    [] op = ">=" -> Truth(left >= right)
    [] op = "==" -> Truth(left = right)
    [] op = "!=" -> Truth(left # right)

RECURSIVE plural_eval(_, _)
plural_eval(pexp, n) ==
  LET Arg(i) == plural_eval(pexp[i + 1], n)
      op == pexp[1]
  IN CASE op = "n" -> n
       [] op = "num" -> pexp[2]
       [] op \in {"!", "||", "&&", "?"} /\ Arg(1) = SIGFPE -> SIGFPE
       [] op = "!" -> Truth(Arg(1) = 0)
       [] op = "||" -> IF Arg(1) # 0 THEN 1 ELSE IF Arg(2) = SIGFPE THEN SIGFPE ELSE Truth(Arg(2) # 0)
       [] op = "&&" -> IF Arg(1) = 0 THEN 0 ELSE IF Arg(2) = SIGFPE THEN SIGFPE ELSE Truth(Arg(2) # 0)
       [] op = "?" -> IF Arg(1) # 0 THEN Arg(2) ELSE Arg(3)
       [] OTHER -> IF SIGFPE \in {Arg(1), Arg(2)} THEN SIGFPE ELSE Binary(op, Arg(1), Arg(2))
-----------------------------------------------------------------------------
(***************************************************************************)
(* yylex.                                                                  *)
(***************************************************************************)
Digits == <<"0", "1", "2", "3", "4", "5", "6", "7", "8", "9">>
IsDigit(c) == c \in ToSet(Digits)
DigitValue(c) == CHOOSE i \in 0 .. 9 : Digits[i + 1] = c

Token(type, value, text, length) ==
  [type |-> type, value |-> value, rest |-> SubSeq(text, length + 1, Len(text))]

Pair(text) == IF Len(text) > 1 THEN text[2] ELSE NUL

Number(text) ==
  LET ends == {i \in 1 .. Len(text) : ~ IsDigit(text[i])}
      length == IF ends = {} THEN Len(text) ELSE (CHOOSE i \in ends : \A j \in ends : i <= j) - 1
  IN Token("NUMBER", FoldLeft(LAMBDA n, c : Wrap(10 * n + DigitValue(c)), 0,
                              SubSeq(text, 1, length)), text, length)

Unspaced(text) ==
  LET words == {i \in DOMAIN text : text[i] \notin {" ", "\t"}}
  IN IF words = {} THEN <<>>
     ELSE SubSeq(text, CHOOSE i \in words : \A j \in words : i <= j, Len(text))

yylex(pexp) ==
  LET exp == Unspaced(pexp)
      c   == Head(exp)
      Takes(type, value, length) == Token(type, value, exp, length)
  IN IF exp = <<>> \/ c \in {";", "\n"} THEN Token("YYEOF", NUL, exp, 0)
     ELSE IF IsDigit(c) THEN Number(exp)
     ELSE CASE c = "=" /\ Pair(exp) = "=" -> Takes("EQUOP2", "==", 2)
            [] c = "!" /\ Pair(exp) = "=" -> Takes("EQUOP2", "!=", 2)
            [] c = "&" /\ Pair(exp) = "&" -> Takes("&", "&&", 2)
            [] c = "|" /\ Pair(exp) = "|" -> Takes("|", "||", 2)
            [] c = "<" /\ Pair(exp) = "=" -> Takes("CMPOP2", "<=", 2)
            [] c = ">" /\ Pair(exp) = "=" -> Takes("CMPOP2", ">=", 2)
            [] c \in {"<", ">"} /\ Pair(exp) # "=" -> Takes("CMPOP2", c, 1)
            [] c \in {"*", "/", "%"} -> Takes("MULOP2", c, 1)
            [] c \in {"+", "-"} -> Takes("ADDOP2", c, 1)
            [] c \in {"n", "?", ":", "(", ")"} -> Takes(c, c, 1)
            [] c = "!" /\ Pair(exp) # "=" -> Takes(c, c, 1)
            [] OTHER -> Takes("YYERRCODE", NUL, 1)
-----------------------------------------------------------------------------
(***************************************************************************)
(* The grammar.  An entry of the stack is a token or an expression.        *)
(***************************************************************************)
(* From the loosest to the tightest; all of these but the first associate   *)
(* to the left.                                                             *)
Precedence == <<"?", "|", "&", "EQUOP2", "CMPOP2", "ADDOP2", "MULOP2">>

Operators == ToSet(Precedence)
Level(type) == CHOOSE i \in DOMAIN Precedence : Precedence[i] = type

Exp(tree) == [type |-> "exp", value |-> tree]

Types(stack, n) ==
  IF Len(stack) < n THEN <<>> ELSE [i \in 1 .. n |-> stack[Len(stack) - n + i].type]

AllTypes(stack) == Types(stack, Len(stack))

Nth(stack, fromTop) == stack[Len(stack) + 1 - fromTop].value

Reduced(stack, n, tree) == Append(SubSeq(stack, 1, Len(stack) - n), Exp(tree))

(* Deliberately wrong: equal operators associate to the right.              *)
binds_right(op, next) ==
  op # "?" /\ (next \notin Operators \/ Level(op) > Level(next))

(* After "exp op exp": reduce, before a looser operator or one of the same  *)
(* level, or shift the next.  The rule of ? has no precedence of its own,   *)
(* its last token being the colon, and leaves every operator to be shifted. *)
Binds(op, next) == next \notin Operators \/ Level(op) >= Level(next)

IsBinary(stack) ==
  LET ts == Types(stack, 3)
  IN ts # <<>> /\ ts[1] = "exp" /\ ts[2] \in Operators \ {"?"} /\ ts[3] = "exp"

IsConditional(stack) == Types(stack, 5) = <<"exp", "?", "exp", ":", "exp">>

Reduction(stack, next) ==
  CASE Types(stack, 1) = <<"NUMBER">> -> Reduced(stack, 1, num(Nth(stack, 1)))
    [] Types(stack, 1) = <<"n">> -> Reduced(stack, 1, var)
    [] Types(stack, 3) = <<"(", "exp", ")">> -> Reduced(stack, 3, Nth(stack, 2))
    [] Types(stack, 2) = <<"!", "exp">> -> Reduced(stack, 2, <<"!", Nth(stack, 1)>>)
    [] IsBinary(stack) /\ Binds(Types(stack, 2)[1], next) ->
         Reduced(stack, 3, <<Nth(stack, 2), Nth(stack, 3), Nth(stack, 1)>>)
    [] IsConditional(stack) /\ next \notin Operators ->
         Reduced(stack, 5, <<"?", Nth(stack, 5), Nth(stack, 3), Nth(stack, 1)>>)
    [] OTHER -> stack

Shifts(stack, next) ==
  IF Types(stack, 1) = <<"exp">>
    THEN \/ next \in Operators
         \/ next = ")" /\ Types(stack, 2) = <<"(", "exp">>
         \/ next = ":" /\ Types(stack, 3) = <<"exp", "?", "exp">>
    ELSE next \in {"NUMBER", "n", "!", "("}

RECURSIVE Parse(_, _)
Parse(stack, text) ==
  LET next == yylex(text)
      reduced == Reduction(stack, next.type)
  IN IF AllTypes(reduced) # AllTypes(stack) THEN Parse(reduced, text)
     ELSE IF next.type = "YYEOF" /\ AllTypes(stack) = <<"exp">> THEN stack[1].value
     ELSE IF Shifts(stack, next.type)
       THEN Parse(Append(stack, [type |-> next.type, value |-> next.value]), next.rest)
     ELSE Nothing

(* The expression, or nothing after an error.  An expression for which      *)
(* there is no memory is NULL, and so is all that it is part of.            *)
PLURAL_PARSE(text, memory) == IF memory THEN Parse(<<>>, text) ELSE Nothing
-----------------------------------------------------------------------------
(***************************************************************************)
(* EXTRACT_PLURAL_EXPRESSION: the header's number of forms and expression, *)
(* or those of English.  A header without one of them has -1 or no text.   *)
(***************************************************************************)
Germanic == [plural |-> GERMANIC_PLURAL, nplurals |-> 2]

EXTRACT_PLURAL_EXPRESSION(header, memory) ==
  LET plural == PLURAL_PARSE(header.plural, memory)
  IN IF header.nplurals < 0 \/ header.plural = <<>> \/ plural = Nothing THEN Germanic
     ELSE [plural |-> plural, nplurals |-> header.nplurals]

(* The form for n of a translation with that many forms, counted from 0.    *)
plural_lookup(domain, n, forms) ==
  LET index == plural_eval(domain.plural, n)
  IN IF index = SIGFPE THEN SIGFPE
     ELSE IF index >= domain.nplurals \/ index >= forms THEN 0 ELSE index
-----------------------------------------------------------------------------
(***************************************************************************)
(* The reference: C's grammar of expressions, level by level, as the trees *)
(* a sequence of tokens may stand for.                                     *)
(***************************************************************************)
RECURSIVE Tokens(_)
Tokens(text) ==
  LET t == yylex(text)
  IN IF t.type = "YYEOF" THEN <<>> ELSE <<t>> \o Tokens(t.rest)

From(ts, i, j) == SubSeq(ts, i, j)

RECURSIVE Trees(_, _)
Trees(ts, level) ==
  LET n == Len(ts)
      Is(i, type) == ts[i].type = type
      Split(type) == {i \in 2 .. n - 1 : Is(i, type)}
  IN IF n = 0 THEN {}
     ELSE IF level = 8
       THEN (IF Is(1, "!") THEN {<<"!", t>> : t \in Trees(From(ts, 2, n), 8)} ELSE {})
            \cup (IF n > 2 /\ Is(1, "(") /\ Is(n, ")") THEN Trees(From(ts, 2, n - 1), 1) ELSE {})
            \cup (IF n = 1 /\ Is(1, "n") THEN {var} ELSE {})
            \cup (IF n = 1 /\ Is(1, "NUMBER") THEN {num(ts[1].value)} ELSE {})
     ELSE Trees(ts, level + 1) \cup
       IF level = 1
         THEN UNION {{<<"?", a, b, c>> : a \in Trees(From(ts, 1, i - 1), 2),
                                         b \in Trees(From(ts, i + 1, j - 1), 1),
                                         c \in Trees(From(ts, j + 1, n), 1)} :
                       i \in Split("?"), j \in Split(":")}
         ELSE UNION {{<<ts[i].value, a, b>> : a \in Trees(From(ts, 1, i - 1), level),
                                              b \in Trees(From(ts, i + 1, n), level + 1)} :
                       i \in Split(Precedence[level])}

Meant(text) ==
  LET ts == Tokens(text)
  IN IF \E i \in DOMAIN ts : ts[i].type = "YYERRCODE" THEN {} ELSE Trees(ts, 1)

ParsesAsC(text) == {PLURAL_PARSE(text, TRUE)} \ {Nothing} = Meant(text)
=============================================================================
