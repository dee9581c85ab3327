---------------------------- MODULE LocaleNames ----------------------------
(***************************************************************************)
(* From a locale name to the catalogs to look at: the aliases of           *)
(* localealias.c, the pieces of a name of explodename.c and the list of    *)
(* files of l10nflist.c, as _nl_find_domain of finddomain.c uses them for  *)
(* one directory and one domain.                                           *)
(*                                                                         *)
(* A name is a sequence of characters.  The list of files and the map of   *)
(* aliases stay from one call to the next, so what one name leaves in them *)
(* is there for the others.                                                *)
(***************************************************************************)
EXTENDS Integers, Sequences, FiniteSets, FiniteSetsExt, SequencesExt

CONSTANTS
  Names,        (* the locale names asked for                              *)
  AliasPaths,   (* LOCALE_ALIAS_PATH: sequences of the files' lines        *)
  Asks,         (* bound: how many names one program asks for              *)
  NoAlias       (* NULL                                                    *)

VARIABLES
  alias_files,        (* the files of LOCALE_ALIAS_PATH, one of AliasPaths *)
  map,                (* the aliases read, with their values               *)
  locale_alias_path,  (* how many of the files are read                    *)
  _nl_loaded_domains, (* the files that are known, by descending name      *)
  asked,              (* the names asked for, in order                     *)
  tried               (* the files _nl_find_domain looks at for the last   *)

namesVars == <<alias_files, map, locale_alias_path, _nl_loaded_domains, asked, tried>>
-----------------------------------------------------------------------------
(* The characters the names are made of, in the order of strcmp.            *)
Ascii == <<"-", ".", "/", "1", "8", "@", "A", "B", "T", "_", "a", "b", "i", "o", "s", "t">>

Code == [c \in ToSet(Ascii) |-> CHOOSE i \in DOMAIN Ascii : Ascii[i] = c]

UpperCase == [A |-> "a", B |-> "b", T |-> "t"]
Digits    == {"1", "8"}
Alnum     == ToSet(Ascii) \ {"-", ".", "/", "@", "_"}

tolower(c) == IF c \in DOMAIN UpperCase THEN UpperCase[c] ELSE c

Lower(s) == [i \in DOMAIN s |-> tolower(s[i])]

(* strcmp: the first difference decides, a prefix is smaller.               *)
Below(s, t) ==
  \E n \in 0 .. Len(s) :
    /\ n < Len(t) /\ SubSeq(s, 1, n) = SubSeq(t, 1, n)
    /\ n = Len(s) \/ Code[s[n+1]] < Code[t[n+1]]
-----------------------------------------------------------------------------
(***************************************************************************)
(* localealias.c.  A line is a comment, an alias alone, or an alias with   *)
(* its value: what follows them, or does not fit the buffer, is dropped.   *)
(***************************************************************************)
alias_compare(a, b) == Lower(a) = Lower(b)

Says(line) == line.kind = "alias"

read_alias_file(lines) ==
  LET said == SelectSeq(lines, Says)
  IN [i \in DOMAIN said |-> [alias |-> said[i].alias, value |-> said[i].value]]

Matches(aliases, name) == {i \in DOMAIN aliases : alias_compare(aliases[i].alias, name)}

(* The files that are read before the name is found, or all of them.        *)
ReadUpTo(name) ==
  LET Reading(n) == FoldLeft(LAMBDA m, f : m \o read_alias_file(f), map,
                             SubSeq(alias_files, locale_alias_path + 1, n))
      ns == {n \in locale_alias_path .. Len(alias_files) : Matches(Reading(n), name) # {}}
      n  == IF ns = {} THEN Len(alias_files) ELSE Min(ns)
  IN [map |-> Reading(n), read |-> n]

(* bsearch may return any of the entries that compare equal.                *)
_nl_expand_alias(aliases, name) ==
  IF Matches(aliases, name) = {} THEN {NoAlias}
  ELSE {aliases[i].value : i \in Matches(aliases, name)}
-----------------------------------------------------------------------------
(***************************************************************************)
(* explodename.c and _nl_normalize_codeset.                                *)
(***************************************************************************)
XPG_NORM_CODESET == 1
XPG_CODESET      == 2
XPG_TERRITORY    == 4
XPG_MODIFIER     == 8

_nl_normalize_codeset(codeset) ==
  LET kept == SelectSeq(codeset, LAMBDA c : c \in Alnum)
  IN (IF ToSet(kept) \subseteq Digits THEN <<"i", "s", "o">> ELSE <<>>) \o Lower(kept)

(* The index at which a run without the characters of stops ends.           *)
EndOf(name, from, stops) ==
  Min({i \in from .. Len(name) : name[i] \in stops} \cup {Len(name) + 1})

Stops(name, i, c) == i <= Len(name) /\ name[i] = c

_nl_find_language(name) == EndOf(name, 1, {"_", "@", "."})

(* A codeset is compared with its normal form while the modifier still      *)
(* follows it.                                                              *)
_nl_explode_name(name) ==
  LET l == _nl_find_language(name)
      t == IF Stops(name, l, "_") THEN EndOf(name, l + 1, {".", "@"}) ELSE l
      c == IF Stops(name, t, ".") THEN EndOf(name, t + 1, {"@"}) ELSE t
      codeset    == SubSeq(name, t + 1, c - 1)
      normalized == _nl_normalize_codeset(codeset)
      Filled == {p \in {<<XPG_TERRITORY, l + 1, t - 1>>, <<XPG_CODESET, t + 1, c - 1>>,
                        <<XPG_MODIFIER, c + 1, Len(name)>>} : p[2] <= p[3]}
  IN IF l = 1
       THEN [mask |-> {}, language |-> name, territory |-> <<>>, codeset |-> <<>>,
             normalized_codeset |-> <<>>, modifier |-> <<>>]
       ELSE [mask |-> {p[1] : p \in Filled}
                      \cup (IF codeset # <<>> /\ normalized # SubSeq(name, t + 1, Len(name))
                              THEN {XPG_NORM_CODESET} ELSE {}),
             language |-> SubSeq(name, 1, l - 1), territory |-> SubSeq(name, l + 1, t - 1),
             codeset |-> codeset, normalized_codeset |-> normalized,
             modifier |-> SubSeq(name, c + 1, Len(name))]

Whole(name) == [mask |-> {}, language |-> name]
-----------------------------------------------------------------------------
(***************************************************************************)
(* l10nflist.c.  The directory is left out of a file's name, unless the    *)
(* language is an absolute path; a mask is the set of its bits.            *)
(***************************************************************************)
abs_filename(mask, n) ==
  (IF n.language # <<>> /\ n.language[1] = "/" THEN <<>> ELSE <<"b", "/">>) \o n.language
  \o (IF XPG_TERRITORY \in mask THEN <<"_">> \o n.territory ELSE <<>>)
  \o (IF XPG_CODESET \in mask THEN <<".">> \o n.codeset ELSE <<>>)
  \o (IF XPG_NORM_CODESET \in mask THEN <<".">> \o n.normalized_codeset ELSE <<>>)
  \o (IF XPG_MODIFIER \in mask THEN <<"@">> \o n.modifier ELSE <<>>)

(* The search stops at the first file that is not larger.                   *)
Position(list, filename) ==
  Min({i \in DOMAIN list : ~ Below(filename, list[i].filename)} \cup {Len(list) + 1})

InList(list, filename) ==
  LET i == Position(list, filename) IN i <= Len(list) /\ list[i].filename = filename

FileAt(list, filename) == list[Position(list, filename)]

Value(mask) == SumSet(mask)

BothCodesets(mask) == {XPG_CODESET, XPG_NORM_CODESET} \subseteq mask

Bits(value) ==
  {bit \in {XPG_NORM_CODESET, XPG_CODESET, XPG_TERRITORY, XPG_MODIFIER} :
     (value \div bit) % 2 = 1}

(* Deliberately wrong: the forms from the least to the most specific.       *)
successors_upwards(mask) ==
  SelectSeq([i \in 1 .. Value(mask) |-> Bits(i - 1)],
            LAMBDA m : m \subseteq mask /\ ~ BothCodesets(m))

(* The less specific forms, by their masks from the largest down.           *)
Successors(mask) ==
  SelectSeq([i \in 1 .. Value(mask) |-> Bits(Value(mask) - i)],
            LAMBDA m : m \subseteq mask /\ ~ BothCodesets(m))

NewFile(mask, n) ==
  LET masks == Successors(mask)
  IN [filename  |-> abs_filename(mask, n),
      decided   |-> BothCodesets(mask),
      successor |-> [i \in DOMAIN masks |-> abs_filename(masks[i], n)]]

RECURSIVE _nl_make_l10nflist(_, _, _)
_nl_make_l10nflist(list, mask, n) ==
  IF InList(list, abs_filename(mask, n)) THEN list
  ELSE FoldLeft(LAMBDA l, m : _nl_make_l10nflist(l, m, n),
                InsertAt(list, Position(list, abs_filename(mask, n)), NewFile(mask, n)),
                Successors(mask))
-----------------------------------------------------------------------------
(***************************************************************************)
(* finddomain.c: the name is looked up as it is, and only a new one is     *)
(* expanded and taken to pieces.  No file has data here: all are tried.    *)
(***************************************************************************)
Init ==
  /\ alias_files \in AliasPaths
  /\ map = <<>> /\ locale_alias_path = 0
  /\ _nl_loaded_domains = <<>>
  /\ asked = <<>> /\ tried = <<>>

Tries(list, filename) ==
  LET file == FileAt(list, filename)
  IN SelectSeq(<<filename>> \o file.successor, LAMBDA f : ~ FileAt(list, f).decided)

FindKnown(name) ==
  /\ InList(_nl_loaded_domains, abs_filename({}, Whole(name)))
  /\ tried' = Tries(_nl_loaded_domains, abs_filename({}, Whole(name)))
  /\ UNCHANGED <<alias_files, map, locale_alias_path, _nl_loaded_domains>>

FindNew(name) ==
  /\ ~ InList(_nl_loaded_domains, abs_filename({}, Whole(name)))
  /\ LET now == ReadUpTo(name)
     IN /\ map' = now.map /\ locale_alias_path' = now.read
        /\ \E value \in _nl_expand_alias(now.map, name) :
             LET n == _nl_explode_name(IF value = NoAlias THEN name ELSE value)
             IN /\ _nl_loaded_domains' = _nl_make_l10nflist(_nl_loaded_domains, n.mask, n)
                /\ tried' = Tries(_nl_loaded_domains', abs_filename(n.mask, n))
  /\ UNCHANGED alias_files

_nl_find_domain(name) ==
  /\ Len(asked) < Asks
  /\ FindKnown(name) \/ FindNew(name)
  /\ asked' = Append(asked, name)

Next == \E name \in Names : _nl_find_domain(name)

Spec == Init /\ [][Next]_namesVars
-----------------------------------------------------------------------------
(***************************************************************************)
(* The reference: what the comments of finddomain.c (76-86) announce.  The *)
(* parts of a name are stripped off in this order: the codeset, the        *)
(* normalized codeset, the territory, the modifier.  The comment beside    *)
(* the loop that strips them (l10nflist.c 310-313) gives the opposite      *)
(* order, see ModifierDroppedFirst.                                        *)
(***************************************************************************)
Forms(n) ==
  LET Kept(bit, s, c) == IF bit \in n.mask THEN <<<<c>> \o s, <<>>>> ELSE <<<<>>>>
      codesets == (IF XPG_CODESET \in n.mask THEN <<<<".">> \o n.codeset>> ELSE <<>>)
                  \o (IF XPG_NORM_CODESET \in n.mask /\ n.normalized_codeset # n.codeset
                        THEN <<<<".">> \o n.normalized_codeset>> ELSE <<>>)
                  \o <<<<>>>>
      Each(ss, Do(_)) == FlattenSeq([i \in DOMAIN ss |-> Do(ss[i])])
  IN Each(Kept(XPG_MODIFIER, n.modifier, "@"), LAMBDA m :
       Each(Kept(XPG_TERRITORY, n.territory, "_"), LAMBDA t :
         Each(codesets, LAMBDA c :
           <<abs_filename({}, [language |-> n.language \o t \o c \o m])>>)))

(* A file is tried again at no cost: the first time counts.                 *)
Distinct(s) ==
  LET firsts == SelectSeq([i \in DOMAIN s |-> i],
                          LAMBDA i : \A j \in 1 .. i - 1 : s[j] # s[i])
  IN [k \in DOMAIN firsts |-> s[firsts[k]]]

(* What a name may stand for: the values of its alias in the first file of  *)
(* the path that has one, or itself.                                        *)
Said == FlattenSeq(alias_files)

Meant(name) ==
  LET lines == {i \in DOMAIN Said : Says(Said[i]) /\ alias_compare(Said[i].alias, name)}
  IN IF lines = {} THEN {name} ELSE {Said[i].value : i \in lines}

(* A name tries the files of its forms, from the most to the least          *)
(* specific in the order of finddomain.c (76-86), which is what the loop of *)
(* l10nflist.c comes to with the values of its bits, and no other file:     *)
(* whatever names came before, the list they left in any order and the      *)
(* aliases they had read.  But a name whose codeset has a normal form tries *)
(* that one only if its file is not in the list.                            *)
TriesForms ==
  [][asked' # <<>> =>
       LET name == Last(asked')
       IN \E value \in Meant(name) :
          LET n == _nl_explode_name(value)
          IN \/ Distinct(tried') = Forms(n)
             \/ /\ XPG_NORM_CODESET \in n.mask
                /\ InList(_nl_loaded_domains, abs_filename({}, Whole(name)))
                /\ Distinct(tried') = Forms([n EXCEPT !.mask = @ \ {XPG_NORM_CODESET}])
    ]_asked

(* As the comments of finddomain.c (76-86) have it: a name always tries all *)
(* of its forms.                                                            *)
TriesAllForms ==
  asked # <<>> =>
    \E value \in Meant(Last(asked)) : Distinct(tried) = Forms(_nl_explode_name(value))

(* "the extra bits in the locale name are dropped in this order: first the  *)
(* modifier, then the territory, then the codeset, then the                 *)
(* normalized_codeset" (l10nflist.c 310-313): the second file a name with a *)
(* modifier tries is the one without it.                                    *)
ModifierDroppedFirst ==
  asked # <<>> =>
    \E value \in Meant(Last(asked)) :
      LET n     == _nl_explode_name(value)
          files == Distinct(tried)
      IN XPG_MODIFIER \in n.mask /\ Len(files) > 1 =>
           files[2] = abs_filename(n.mask \ {XPG_MODIFIER, XPG_NORM_CODESET}, n)

(* The list of files descends strictly, as the search in it supposes, and   *)
(* the successors of every file are in it.                                  *)
ListDescends ==
  /\ \A i \in 1 .. Len(_nl_loaded_domains) - 1 :
       Below(_nl_loaded_domains[i+1].filename, _nl_loaded_domains[i].filename)
  /\ \A i \in DOMAIN _nl_loaded_domains :
       \A f \in ToSet(_nl_loaded_domains[i].successor) : InList(_nl_loaded_domains, f)
=============================================================================
