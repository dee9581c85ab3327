------------------------------- MODULE MCIntl -------------------------------
(***************************************************************************)
(* The library src/intl, part by part: a behaviour is one of Locks, Once,  *)
(* Gettext, LocaleNames, Catalog or Printf, or one question to Plural; the *)
(* other parts rest in an initial state.                                   *)
(***************************************************************************)
EXTENDS Locks, Once, Gettext, Catalog, Printf

VARIABLES
  part,                                                      (* of the library *)
  alias_files, map, locale_alias_path, _nl_loaded_domains, asked, tried,
                                                                (* LocaleNames *)
  question, answered                                              (* of Plural *)
-----------------------------------------------------------------------------
(* Every lock of every library: two threads that take it twice, and destroy *)
(* it and define it anew between; three threads, and failing CreateEvents.  *)
(* Without threads only one may come.                                       *)
Turns(n) == [t \in Threads |-> n]

User(macros, threads, turns, failures, destroyed) ==
  [kind |-> macros.kind, style |-> macros.style,
   threads |-> IF macros.style = "absent" THEN {1} ELSE threads,
   left |-> turns, modes |-> IF macros.kind = "rwlock" THEN {"read", "write"} ELSE {"write"},
   initialized |-> FALSE, failures |-> failures, destroyed |-> destroyed]

MCUses ==
  {User(m, 1 .. 2, Turns(2), FALSE, TRUE) : m \in AllLocks}
  \cup {User(m, 1 .. 3, Turns(1), TRUE, FALSE) : m \in AllLocks}
-----------------------------------------------------------------------------
(* Lookups, and calls that change what they look at.                        *)
Lookup(domain) == [op |-> "gettext", domain |-> domain, msgid |-> "m"]
NoMessage(domain) == [op |-> "gettext", domain |-> domain, msgid |-> Nil]
Bind(domain, dir) == [op |-> "bindtextdomain", domain |-> domain, value |-> dir]
Codeset(domain, charset) ==
  [op |-> "bind_textdomain_codeset", domain |-> domain, value |-> charset]
Default(domain) == [op |-> "textdomain", domain |-> domain]

Cat(charset, msgs) == [valid |-> TRUE, charset |-> charset, messages |-> msgs]

Each(n, m) == [t \in Callers |-> IF t = 1 THEN n ELSE m]

Base ==
  [tsearch |-> FALSE, iconv |-> FALSE, failures |-> FALSE, secure |-> FALSE,
   locale |-> "aa_X", LANGUAGE |-> <<>>, defaulted |-> FALSE, preferences |-> <<>>,
   unresolvable |-> {}, elsewhere |-> {"d/aa"}, aliases |-> ("alias" :> "aa_X"),
   successors |-> ("aa_X" :> <<"aa">>), OUTPUT_CHARSET |-> Nil, charset |-> "U",
   unopenable |-> {}, inconvertible |-> {},
   catalogs |-> (<<"default", "aa", 1>>  :> Cat("L", {"m"})
              @@ <<"default", "aa_X", 1>> :> Cat("U", {})
              @@ <<"other", "aa_X", 1>>  :> Cat("L", {"m"})
              @@ <<"default", "bb", 1>>  :> Cat("L", {"m"})),
   calls |-> {Lookup(1), Bind(1, "other")}, turns |-> Each(2, 2)]

(* Two threads that look up, bind and choose the domain. *)
Meeting ==
  {[Base EXCEPT !.calls = {Lookup(Nil), Default(1), Default(Empty)}],
   [Base EXCEPT !.tsearch = TRUE, !.calls = {Lookup(1)}],
   [Base EXCEPT !.tsearch = TRUE, !.turns = Each(3, 1)], Base}

(* One thread: every environment; bindings; failures. *)
Environments ==
  {[Base EXCEPT !.tsearch = TRUE, !.turns = Each(2, 0), !.LANGUAGE = list, !.secure = secure,
      !.locale = locale, !.defaulted = defaulted, !.preferences = <<"bb">>] :
     list \in {<<>>, <<"C", "bb">>, <<"bb", "aa_X">>, <<"d/aa", "alias">>},
     secure \in BOOLEAN, locale \in {"C", "aa_X", "cc"}, defaulted \in BOOLEAN}

Rebinding ==
  {[Base EXCEPT !.tsearch = TRUE, !.turns = Each(4, 0), !.iconv = iconv,
      !.LANGUAGE = <<"bb", "aa_X">>, !.unresolvable = {"relative"},
      !.inconvertible = {<<"L", "A">>}, !.unopenable = {<<"L", "B">>},
      !.OUTPUT_CHARSET = output,
      !.calls = {Lookup(1), NoMessage(1), Bind(1, "other"), Bind(1, "relative"),
                 Bind(Empty, "other"), Codeset(1, "A"), Codeset(1, "B"), Bind(0, "other"),
                 Bind(1, Nil), Default(Nil)}] :
     iconv \in BOOLEAN, output \in {Nil, "L"}}

Failing ==
  {[Base EXCEPT !.tsearch = TRUE, !.iconv = TRUE, !.failures = TRUE, !.turns = Each(3, 0),
      !.calls = {Lookup(Nil), Default(1), Bind(1, "other")}]}

MCSetups == Meeting \cup Environments \cup Rebinding \cup Failing
-----------------------------------------------------------------------------
(* Locale names: every number of pieces, codesets that are and are not in   *)
(* normal form, empty pieces, an absolute path, aliases of either case in   *)
(* the first and in the second file.                                        *)
Alias(a, v) == [kind |-> "alias", alias |-> a, value |-> v]

MCNames ==
  {<<"a">>, <<"a", "_", "A">>, <<"a", "_", "A", ".", "T", "-", "8">>,
   <<"a", "_", "A", ".", "T", "-", "8", "@", "s">>, <<"a", ".", "t", "8", "@", "s">>,
   <<"a", "_", "A", ".", "t", "8">>, <<"a", ".", "1", "8">>, <<"a", "_", ".", "T", "@">>,
   <<"a", "_", "A", "@", "s">>, <<"a", "@", "s", "_", "A">>, <<"_", "a">>,
   <<"/", "a", "_", "A">>, <<"b", "A", "T">>, <<"i", "o">>, <<"t", "o">>}

MCAliasPaths ==
  {<<>>,
   <<<<[kind |-> "comment"], Alias(<<"B", "a", "t">>, <<"a", "_", "A">>),
       [kind |-> "alias only"], Alias(<<"b", "A", "t">>, <<"a", ".", "1", "8">>)>>,
     <<Alias(<<"i", "o">>, <<"a", "_", "A", ".", "T", "-", "8">>)>>>>}

N == INSTANCE LocaleNames WITH
       Names <- MCNames, AliasPaths <- MCAliasPaths, Asks <- 2, NoAlias <- Nil
-----------------------------------------------------------------------------
(* Catalogs of up to five strings, with and without hash table, and with up *)
(* to two strings of system dependent segments beside at most two or all    *)
(* five of the others: segments known, unknown, none and out of range, in   *)
(* the string and in its translation; some with a name that does not end.   *)
(* Hash tables have the sizes msgfmt gives them.                            *)
MCinttypes ==
  [n \in {<<"PRI", "d", "64">>, <<"I">>, <<"PRI", "u", "LEAST", "32">>} |->
     IF n = <<"I">> THEN <<>> ELSE IF n[2] = "d" THEN <<4, 5>> ELSE <<4>>]

Segments ==
  <<<<"PRI", "d", "64", NameEnd>>, <<"I", NameEnd>>, <<"PRI", "q", "8", NameEnd>>,
    <<"PRI", "u", "LEAST", "32", NameEnd>>>>

(* A name of no length, and one without its NUL.                            *)
BadNames == {Append(Segments, <<>>), Append(Segments, <<"I">>)}

Seg(text, ref) == [text |-> text, sysdepref |-> ref]
End(text) == Seg(text, SEGMENTS_END)

SysdepPairs ==
  {[orig |-> <<Seg(<<1>>, 1), End(<<>>)>>, trans |-> <<Seg(<<9, 1>>, 1), End(<<2>>)>>],
   [orig |-> <<Seg(<<1>>, 4), End(<<>>)>>, trans |-> <<End(<<9, 4>>)>>],
   [orig |-> <<Seg(<<2>>, 2), Seg(<<3>>, 1), End(<<>>)>>, trans |-> <<Seg(<<9>>, 3), End(<<>>)>>],
   [orig |-> <<Seg(<<2, 2>>, 2), Seg(<<3>>, 4), End(<<1>>)>>, trans |-> <<Seg(<<9>>, 2), End(<<>>)>>],
   [orig |-> <<Seg(<<2>>, 9), End(<<>>)>>, trans |-> <<End(<<>>)>>],
   [orig |-> <<Seg(<<2>>, 3), Seg(<<1>>, 9), End(<<>>)>>, trans |-> <<End(<<>>)>>]}

SysdepTables ==
  {<<>>} \cup {<<p>> : p \in SysdepPairs} \cup {<<p, q>> : p \in SysdepPairs, q \in SysdepPairs}

Strings == <<<<1>>, <<1, 2>>, <<1, 4>>, <<2>>, <<3, 1>>>>

OrigTables == {SelectSeq(Strings, LAMBDA s : s \in chosen) : chosen \in SUBSET ToSet(Strings)}

IsPrime(n) == n > 1 /\ \A d \in 2 .. n - 1 : n % d # 0

TableSize(n) ==
  LET least == (n * 4) \div 3
      prime == CHOOSE p \in least .. 2 * least + 3 :
                 IsPrime(p) /\ \A q \in least .. p - 1 : ~ IsPrime(q)
  IN IF prime <= 2 THEN 3 ELSE prime

File(orig, sysdep, major, minor, hashed) ==
  LET size == IF hashed THEN TableSize(Len(orig) + Len(sysdep)) ELSE 0
  IN [major |-> major, minor |-> minor, orig_tab |-> orig,
      trans_tab |-> [i \in DOMAIN orig |-> <<9>> \o orig[i]],
      hash_tab_size |-> size, segments |-> Segments, sysdep |-> sysdep,
      hash_tab |-> IF hashed THEN Inserted([i \in 0 .. size - 1 |-> 0], size, 0, orig)
                             ELSE <<>>]

MCCatalogs ==
  {File(orig, sysdep, 0, 1, TRUE) :
     orig \in {o \in OrigTables : Len(o) \notin {3, 4}}, sysdep \in SysdepTables}
  \cup {File(orig, <<>>, major, minor, hashed) :
          orig \in OrigTables, major \in 0 .. 2, minor \in 0 .. 1, hashed \in BOOLEAN}
  \cup {[File(<<<<5>>>>, sysdep, 0, minor, TRUE) EXCEPT !.segments = segments] :
          sysdep \in SysdepTables, minor \in 0 .. 1, segments \in BadNames}

NoStrings == File(<<>>, <<>>, 0, 0, FALSE)

MCSought == ToSet(Strings) \cup {<<1, 4, 5>>, <<2, 2, 3, 4, 1>>, <<2, 3, 4, 5>>, <<5>>, <<>>}
-----------------------------------------------------------------------------
Characters(t) == [i \in 1 .. Len(t) |-> SubSeq(t, i, i)]

UpTo(n, S) == UNION {[1 .. m -> S] : m \in 0 .. n}

(* Plural forms: every text of at most four characters; three and five      *)
(* operands with every operator between them.                               *)
P == INSTANCE Plural WITH ULONG_MAX <- 255

BinaryTexts == {"||", "&&", "==", "!=", "<", ">=", "+", "-", "*", "%", " ? ", " : "}

PluralTexts ==
  UpTo(4, {"n", "1", "=", "!", "&", "?", ":", "(", ")", "+", "<"})
  \cup {Characters(a \o o \o "2" \o p \o "n") : a \in {"n", "!n"}, o \in BinaryTexts, p \in BinaryTexts}
  \cup {Characters("n" \o o \o "2" \o p \o "n" \o x \o "3" \o y \o "(n)") :
          o \in {"||", "?", "+"}, p \in {":", "==", "-"}, x \in {"?", "&&", "%"}, y \in {":", "<"}}

(* The formulas of some languages, with what they are to give for n.        *)
Polish  == "n==1 ? 0 : n%10>=2 && n%10<=4 && (n%100<10 || n%100>=20) ? 1 : 2"
Latvian == "n%10==1 && n%100!=11 ? 0 : n != 0 ? 1 : 2;\n"
Slovene == "n%100==1 ? 0 : n%100==2 ? 1 : n%100==3 || n%100==4 ? 2 : 3"

Headers ==
  {<<Polish, 3>>, <<Latvian, 3>>, <<Slovene, 4>>, <<"n>1", 2>>, <<"0;", 1>>, <<"n?", 3>>,
   <<"", 2>>, <<"n", 2>>, <<"n/(n-1)", 5>>, <<"n!=1", -1>>}

FormOf(header, n) ==
  LET tens == (n \div 10) % 10
      ones == n % 10
  IN CASE header[1] = Polish -> IF n = 1 THEN 0 ELSE IF ones \in 2 .. 4 /\ tens # 1 THEN 1 ELSE 2
       [] header[1] = Latvian -> IF ones = 1 /\ tens # 1 THEN 0 ELSE IF n # 0 THEN 1 ELSE 2
       [] header[1] = Slovene -> IF tens # 0 \/ ones \notin 1 .. 4 THEN 3
                                 ELSE IF ones = 4 THEN 2 ELSE ones - 1
       [] header[1] = "n>1" -> IF n > 1 THEN 1 ELSE 0
       [] header[1] = "0;" -> 0
       [] header[1] = "n" -> IF n < 2 THEN n ELSE 0
       [] header[1] = "n/(n-1)" -> IF n = 1 THEN P!SIGFPE ELSE IF n = 2 THEN 2 ELSE IF n = 0 THEN 0 ELSE 1
       [] OTHER -> IF n = 1 THEN 0 ELSE 1
-----------------------------------------------------------------------------
(* Formats: every directive of at most five characters over the positions,  *)
(* stars and points; and longer ones, whose arguments make short and long   *)
(* text, or fail, in buffers of several sizes.  For eight directives there  *)
(* is no memory, nor under sprintf for %.200f and %Lf.                      *)
FormatTexts ==
  {"ab%2$s%1$dcd", "%1$'-+ #010.10lldx", "%3$s%1$s", "%2$*1$.*3$Lf%%", "%1$n%2$s",
   "%1$hhd%1$hhd", "%2$ls%1$C.", "%99$d", "%999$d", "%1$hs", "%1$y", "%1$lln%1$lln",
   "%1$*1$d", "%1$s%1$15s%1$s", "%2$*d", "%1$%%1$s", "%'1$d", "%1$.100f", "%2$d%1$.200f",
   "%1$a", "%1$d%1$d%1$d%1$d%1$d%1$d%1$d", "%1$d%1$d%1$d%1$d%1$d%1$d%1$d%1$d"}

MCFormats ==
  {<<"%">> \o f : f \in UpTo(4, {"%", "$", "1", "2", "*", ".", "d", "s"})}
  \cup {Characters(t) : t \in FormatTexts}

(* For each argument, its value, and how long the text is that is made of   *)
(* it: a string is as long as it says.                                      *)
Arg(length, value) == [length |-> length, value |-> value]

Args(odd, even) == [i \in 1 .. 99 |-> IF i % 2 = 1 THEN odd ELSE even]

Said(n) == Arg(n, IF n = Fails THEN 0 ELSE n)

Given ==
  {Args(Said(n), Said(n)) : n \in {0, 1, 11, 12, 20, 130, Fails}}
  \cup {Args(Said(m), Said(n)) : m \in {1, 40}, n \in {13, Fails}}

(* Three characters of long strings, and a negative star.                   *)
Special ==
  {<<"%2$.3s%1$.3s", Args(Arg(3, 10), Arg(3, n))>> : n \in {699, 700, 799, 800}}
  \cup {<<"%1$.*2$e", Args(Arg(n, 0), Arg(0, -2))>> : n \in {12, 13}}

(* Of each function: the size of the caller's buffer, and what a stream     *)
(* takes.                                                                   *)
PrintCalls ==
  {<<"vsnprintf", n, 0>> : n \in {0, 1, 2, 12, 30}}
  \cup {<<"vfprintf", 0, n>> : n \in {10, 200}}
  \cup {<<f, 0, 0>> : f \in {"vsprintf", "vasprintf"}}

(* Arguments the format may have; any for one that is not parsed.           *)
CanBeGiven(format, args) ==
  LET parse == printf_parse(format)
  IN IF parse.failed THEN args = Args(Said(1), Said(1)) ELSE AreArguments(args, parse)

MCPrints ==
  {[format |-> Characters(g[1]), args |-> g[2], system |-> system,
    function |-> c[1], maxlength |-> c[2], takes |-> c[3]] :
     g \in {h \in (FormatTexts \X Given) \cup Special : CanBeGiven(Characters(h[1]), h[2])},
     system \in Systems, c \in PrintCalls}

MCPrecisions == {Negative, NoPrecision, 0, 5, 6, 7, 11, 12, 13, 19, 20, 25, 36, 37, 45}

MCRooms ==
  [c : {"d"}, type : {<<"signed", "int">>, <<"signed", "long">>}, group : BOOLEAN,
   width : {0, 20, 60}, precision : {Negative, NoPrecision, 0, 5, 9, 19, 20, 25}, chars : {0}]
  \cup [c : {"o", "x"}, type : {<<"unsigned", "int">>, <<"unsigned", "long">>}, group : {FALSE},
        width : {0, 20, 60}, precision : {Negative, NoPrecision, 0, 5, 9, 19, 20, 25}, chars : {0}]
  \cup [c : {"f", "e", "g", "a"}, type : {<<"double">>, <<"long double">>}, group : BOOLEAN,
        width : {0, 20, 25, 60}, precision : MCPrecisions, chars : {0}]
  \cup [c : {"s"}, type : {<<"string">>}, group : {FALSE}, width : {0, 20},
        precision : {NoPrecision, 3}, chars : {7}]
-----------------------------------------------------------------------------
(* The questions to Plural; for a header a number, and whether there is     *)
(* memory for its expression.                                               *)
Question ==
  \/ part = "plural" /\ question \in PluralTexts
  \/ part = "form"   /\ question \in Headers
  \/ part \notin {"plural", "form"} /\ question = Nil

Details == IF part = "form" THEN (0 .. 255) \X BOOLEAN ELSE {Nil}

IntlInit ==
  /\ part \in {"lock", "once", "gettext", "names", "catalog", "plural", "form", "printf"}
  /\ Init       /\ (part = "lock"    \/ use = User(posix_lock, 1 .. 2, Turns(2), FALSE, TRUE))
  /\ OnceInit   /\ (part = "once"    \/ style = "solaris")
  /\ LookupInit /\ (part = "gettext" \/ env = Base)
  /\ N!Init     /\ (part = "names"   \/ alias_files = <<>>)
  /\ IF part = "catalog" THEN CatalogInit
     ELSE catalog = NoStrings /\ loaded = Undefined /\ sought = Undefined
  /\ IF part = "printf" THEN PrintfInit ELSE printing = <<"parse", <<"%">>>> /\ printed = <<>>
  /\ Question /\ answered = <<>>

namesVars == <<alias_files, map, locale_alias_path, _nl_loaded_domains, asked, tried>>
asking    == <<question, answered>>

intlVars ==
  <<part, vars, onceVars, gettextVars, namesVars, catalogVars, printfVars, asking>>

LockStep(step) ==
  /\ part = "lock" /\ step
  /\ UNCHANGED <<part, onceVars, gettextVars, namesVars, catalogVars, printfVars, asking>>

OnceStep ==
  /\ part = "once" /\ OnceNext
  /\ UNCHANGED <<part, vars, gettextVars, namesVars, catalogVars, printfVars, asking>>

GettextStep(step) ==
  /\ part = "gettext" /\ step
  /\ UNCHANGED <<part, vars, onceVars, namesVars, catalogVars, printfVars, asking>>

NamesStep ==
  /\ part = "names" /\ N!Next
  /\ UNCHANGED <<part, vars, onceVars, gettextVars, catalogVars, printfVars, asking>>

CatalogStep ==
  /\ part = "catalog" /\ CatalogNext
  /\ UNCHANGED <<part, vars, onceVars, gettextVars, namesVars, printfVars, asking>>

PrintfStep ==
  /\ part = "printf" /\ PrintfNext
  /\ UNCHANGED <<part, vars, onceVars, gettextVars, namesVars, catalogVars, asking>>

Ask ==
  /\ question # Nil /\ answered = <<>>
  /\ \E detail \in Details : answered' = <<detail>>
  /\ UNCHANGED <<part, vars, onceVars, gettextVars, namesVars, catalogVars, printfVars, question>>

IntlNext ==
  LockStep(Next) \/ OnceStep \/ GettextStep(LookupNext) \/ NamesStep \/ CatalogStep
  \/ PrintfStep \/ Ask

IntlFairness ==
  /\ \A t \in Threads :
       WF_intlVars(LockStep(aborted = "no" /\ t \in use.threads /\ (Acquires(t) \/ Unlocks(t))))
  /\ \A t \in Callers : WF_intlVars(GettextStep(Goes(t)))

IntlSpec == IntlInit /\ [][IntlNext]_intlVars /\ IntlFairness
-----------------------------------------------------------------------------
Asked(which) == part = which /\ answered # <<>>

(* The fields of the locks and of the lookups stay in their ranges, and the *)
(* list of files of l10nflist.c descends.                                   *)
IntlTypeOK == TypeOK /\ LookupTypeOK /\ N!ListDescends

(* A locale name leads to the files of its forms, whatever names came       *)
(* before it, through localealias.c, explodename.c and l10nflist.c.         *)
TriesForms == N!TriesForms

(* plural.y parses what C would, and no other text; the headers of some     *)
(* languages lead to the form they mean for every number, or, when memory   *)
(* is short, to that of English.                                            *)
PluralFormsAsC ==
  /\ Asked("plural") => P!ParsesAsC(question)
  /\ Asked("form") =>
       LET header == [plural |-> Characters(question[1]), nplurals |-> question[2]]
           n      == answered[1][1]
           memory == answered[1][2]
           domain == P!EXTRACT_PLURAL_EXPRESSION(header, memory)
       IN P!plural_lookup(domain, n, domain.nplurals) =
            IF memory THEN FormOf(question, n) ELSE IF n = 1 THEN 0 ELSE 1
=============================================================================
