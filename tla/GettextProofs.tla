---------------------------- MODULE GettextProofs ----------------------------
(***************************************************************************)
(* Theorems about the lookups of src/intl: however many threads look up,   *)
(* bind and choose domains, whatever is in their way, a lookup answers     *)
(* what is in force, and a file is loaded once and stays.                  *)
(***************************************************************************)
EXTENDS Gettext, TLAPS

(***************************************************************************)
(* Where a thread is.                                                      *)
(***************************************************************************)
Fields == {"domain", "known", "list", "chain", "step", "back", "answer"}

Looking(t) ==
  at[t] \notin {"out", "textdomain", "bindtextdomain", "bind_textdomain_codeset", "gettext"}

Reading == {"read", "header", "decide"}
Loading == {"load", "await", "search"} \cup Reading
Walking == {"file", "make"} \cup Loading

Count == Len(guess_category_value)

Reached(t) == Count - Len(local[t].list)

NoneUpTo(t, i, j) == env.failures \/ NoneBefore(local[t].domain, call[t].msgid, i, j)

NoCUpTo(n) ==
  \A j \in 1 .. n : Allowed(j) => guess_category_value[j] \notin Untranslating

Rest(t) ==
  /\ local[t].list \in Seq(Locales) /\ Len(local[t].list) <= Count
  /\ \A i \in 1 .. Len(local[t].list) :
       local[t].list[i] = guess_category_value[Reached(t) + i]

Typed ==
  /\ env \in Setups
  /\ at \in [Callers -> LookupPlaces]
  /\ DOMAIN call = Callers /\ DOMAIN local = Callers
  /\ \A t \in Callers : DOMAIN local[t] = Fields
  /\ _nl_msg_cat_cntr \in Nat
  /\ loader \in Callers \cup {Nil}

Locked == state_lock = {t \in Callers : Looking(t)}

Starting(t) == at[t] = "gettext" => local[t] = NoLocals

Silent(t) ==
  at[t] \in {"known", "cached", "binding", "language"} \cup Walking
    => local[t].answer = Untranslated

Knowing(t) ==
  /\ at[t] \in {"binding", "language", "store"} \cup Walking =>
       (local[t].known => Key(t) \in DOMAIN root)
  /\ at[t] \in {"cached", "update"} =>
       Key(t) \in DOMAIN root /\ root[Key(t)].counter = _nl_msg_cat_cntr

Choosing(t) ==
  at[t] \in {"language"} \cup Walking =>
    ~ Unresolvable(local[t].domain) /\ Rest(t) /\ NoCUpTo(Reached(t))

Past(t) == at[t] = "language" => NoneUpTo(t, Reached(t) + 1, 1)

InLanguage(t) ==
  at[t] \in Walking =>
    /\ Allowed(Reached(t)) /\ NoneUpTo(t, Reached(t), 1)
    /\ at[t] \in {"file", "make"} => local[t].chain[1] = guess_category_value[Reached(t)]

InChain(t) ==
  at[t] \in Loading =>
    /\ local[t].chain = Forms(local[t].domain, Reached(t))
    /\ local[t].step \in DOMAIN local[t].chain
    /\ Range(local[t].chain) \subseteq DOMAIN decided

Returning(t) ==
  /\ at[t] \in {"await"} \cup Reading => local[t].back \in {"load", "search"}
  /\ at[t] = "search" \/ (at[t] \in {"await"} \cup Reading /\ local[t].back = "search")
       => NoneUpTo(t, Reached(t), local[t].step)

Loads(t) ==
  /\ at[t] \in Reading => loader = t /\ decided[Current(t)] = -1
  /\ at[t] = "header" => Current(t) \in data
  /\ at[t] = "decide" =>
       env.failures \/ Current(t) \in data \/ ~ CatalogOf(Current(t)).valid

Answers(t) ==
  at[t] \in {"store", "update"} =>
    IsCurrent(local[t].answer, local[t].domain, call[t].msgid)

Caller(t) ==
  /\ Starting(t) /\ Silent(t) /\ Knowing(t) /\ Choosing(t) /\ Past(t) /\ InLanguage(t)
  /\ InChain(t) /\ Returning(t) /\ Loads(t) /\ Answers(t)

Plain == Locales \ DOMAIN env.aliases

Dir(f) == f[1]
Name(f) == f[2]
Domain(f) == f[3]

(* The files of the less specific forms of the name of a file.              *)
Behind(f) ==
  IF Name(f) \in DOMAIN env.successors
    THEN {FileOf(Dir(f), n, Domain(f)) : n \in Range(env.successors[Name(f)])}
    ELSE {}

FilesOK ==
  /\ \A f \in DOMAIN decided :
       /\ decided[f] \in {-1, 0, 1}
       /\ Name(f) \in Plain /\ Behind(f) \subseteq DOMAIN decided
       /\ decided[f] = -1 => loader \in Callers /\ at[loader] \in Reading /\ Current(loader) = f
       /\ decided[f] = 1 => env.failures \/ f \in data \/ ~ CatalogOf(f).valid
  /\ loader # Nil => at[loader] \in Reading
  /\ \A f \in data : CatalogOf(f).valid /\ f \in DOMAIN conversions

Outcomes(f, e) ==
  {Conversion(CatalogOf(f).charset, e)} \cup (IF env.failures THEN {"no table"} ELSE {})

ConversionsOK ==
  \A f \in DOMAIN conversions : \A e \in DOMAIN conversions[f] :
    conversions[f][e] \in Outcomes(f, e)

CacheOK ==
  \A k \in DOMAIN root :
    /\ DOMAIN root[k] = {"counter", "translation"}
    /\ root[k].counter \in Nat /\ root[k].counter <= _nl_msg_cat_cntr
    /\ root[k].counter = _nl_msg_cat_cntr =>
         IsCurrent(root[k].translation, k[1], k[2]) \/ Torn(k)

LookupInv ==
  /\ Typed /\ Locked /\ FilesOK /\ ConversionsOK /\ CacheOK
  /\ \A t \in Callers : Caller(t)

-----------------------------------------------------------------------------
(***************************************************************************)
(* What is extended, and what a name leads to.                             *)
(***************************************************************************)
LEMMA ExtendedAt ==
  ASSUME NEW f, NEW new, NEW value
  PROVE  /\ DOMAIN Extended(f, new, value) = DOMAIN f \cup new
         /\ \A x \in DOMAIN f : Extended(f, new, value)[x] = f[x]
         /\ \A x \in new \ DOMAIN f : Extended(f, new, value)[x] = value
  BY DEF Extended

LEMMA LanguagesTyped ==
  ASSUME Typed
  PROVE  /\ guess_category_value \in Seq(Locales) /\ Count \in Nat
         /\ DOMAIN guess_category_value = 1 .. Count
<1>1. /\ env.locale \in Locales /\ "C" \in Locales /\ env.LANGUAGE \in Seq(Locales)
      /\ env.preferences \in Seq(Locales)
  BY SetupAssumption DEF Typed
<1>2. <<"C">> \in Seq(Locales) /\ <<env.locale>> \in Seq(Locales)
  BY <1>1
<1>3. guess_category_value \in Seq(Locales)
  BY <1>1, <1>2, Zenon DEF guess_category_value
<1> QED
  BY <1>3 DEF Count

LEMMA ExpandedIsPlain ==
  ASSUME Typed, NEW name \in Locales
  PROVE  Expand(name) \in Plain
  BY SetupAssumption DEF Typed, Expand, Plain

LEMMA PlainExpands ==
  ASSUME NEW name \in Plain
  PROVE  Expand(name) = name
  BY DEF Expand, Plain

(* The files of a name: its own first, none of an alias, and with each file *)
(* those behind it.                                                         *)
IsChain(chain, domain, name) ==
  /\ chain \in Seq(Range(chain)) /\ Len(chain) \in Nat /\ Len(chain) >= 1
  /\ DOMAIN chain = 1 .. Len(chain)
  /\ chain[1] = FileOf(BindingOf(domain).dir, name, domain)
  /\ Range(chain) = {chain[1]} \cup Behind(chain[1])
  /\ \A f \in Range(chain) : Name(f) \in Plain /\ Behind(f) \subseteq Range(chain)

LEMMA ChainOfPlain ==
  ASSUME Typed, NEW domain, NEW name \in Plain
  PROVE  IsChain(Chain(domain, name), domain, name)
<1> DEFINE behind == IF name \in DOMAIN env.successors THEN env.successors[name] ELSE <<>>
           names  == <<name>> \o behind
           chain  == Chain(domain, name)
<1>1. behind \in Seq(Plain)
  BY SetupAssumption DEF Typed, Plain
<1>2. /\ names \in Seq(Plain) /\ Len(names) \in Nat /\ Len(names) >= 1
      /\ names[1] = name /\ DOMAIN names = 1 .. Len(names)
  <2> HIDE DEF behind
  <2> QED
    BY <1>1
<1>3. chain = [i \in DOMAIN names |-> FileOf(BindingOf(domain).dir, names[i], domain)]
  BY DEF Chain
<1> HIDE DEF names, chain
<1>4. /\ DOMAIN chain = 1 .. Len(names)
      /\ \A i \in 1 .. Len(names) :
           chain[i] = FileOf(BindingOf(domain).dir, names[i], domain)
  BY <1>2, <1>3
<1>5. \A i \in 1 .. Len(names) : chain[i] \in Range(chain)
  BY <1>4 DEF Range
<1>6. chain = [i \in 1 .. Len(names) |-> chain[i]]
  BY <1>2, <1>3, <1>4
<1>7. chain \in Seq(Range(chain)) /\ Len(chain) = Len(names)
  BY <1>2, <1>5, <1>6
<1>8. \A i \in 1 .. Len(names) : names[i] \in Plain
  BY <1>2
<1>9. Range(chain) = {chain[i] : i \in 1 .. Len(names)}
  BY <1>4 DEF Range
<1>10. PICK dir : dir = BindingOf(domain).dir
  OBVIOUS
<1>11. /\ \A n : Name(FileOf(dir, n, domain)) = n /\ Dir(FileOf(dir, n, domain)) = dir
       /\ \A n : Domain(FileOf(dir, n, domain)) = domain
  BY DEF Name, Dir, Domain, FileOf
<1>12. \A f \in Range(chain) : Name(f) \in Plain
  BY <1>4, <1>8, <1>9, <1>10, <1>11
<1>13. chain[1] = FileOf(dir, name, domain)
  BY <1>2, <1>4, <1>10
<1>14. ASSUME NEW n  PROVE FileOf(dir, n, domain) \in Range(chain) <=> n = name \/ n \in Range(behind)
  <2>1. FileOf(dir, n, domain) \in Range(chain) <=> \E i \in 1 .. Len(names) : names[i] = n
    BY <1>4, <1>9, <1>10, <1>11
  <2>2. (\E i \in 1 .. Len(names) : names[i] = n) <=> n = name \/ n \in Range(behind)
    <3>1. \A i \in DOMAIN behind : i \in 1 .. Len(behind)
      BY <1>1
    <3>2. /\ Len(names) = Len(behind) + 1 /\ Len(behind) \in Nat
          /\ \A i \in 1 .. Len(behind) : names[i + 1] = behind[i] /\ i + 1 \in 1 .. Len(names)
      <4> HIDE DEF behind
      <4> QED
        BY <1>1 DEF names
    <3>3. \A i \in 1 .. Len(names) : i = 1 \/ (i - 1 \in 1 .. Len(behind) /\ (i - 1) + 1 = i)
      BY <1>2, <3>2
    <3>4. \A i \in 1 .. Len(behind) : i \in DOMAIN behind
      BY <1>1
    <3>5. Range(behind) = {behind[i] : i \in 1 .. Len(behind)}
      BY <3>1, <3>4 DEF Range
    <3> HIDE DEF behind, names
    <3>6. ASSUME NEW i \in 1 .. Len(names)  PROVE i = 1 \/ names[i] \in Range(behind)
      <4>1. CASE i # 1
        <5>1. PICK k : k = i - 1
          OBVIOUS
        <5>2. k \in 1 .. Len(behind) /\ k + 1 = i
          BY <3>3, <4>1, <5>1
        <5>3. names[i] = behind[k]
          BY <3>2, <5>2
        <5> QED
          BY <3>5, <5>2, <5>3
      <4> QED
        BY <4>1
    <3>7. \A i \in 1 .. Len(behind) : \E k \in 1 .. Len(names) : names[k] = behind[i]
      BY <3>2
    <3>8. 1 \in 1 .. Len(names)
      BY <1>2
    <3> QED
      BY <1>2, <3>5, <3>6, <3>7, <3>8
  <2> QED
    BY <2>1, <2>2
<1>15. Behind(FileOf(dir, name, domain)) = {FileOf(dir, n, domain) : n \in Range(behind)}
  <2>1. CASE name \in DOMAIN env.successors
    BY <1>11, <2>1 DEF Behind
  <2>2. CASE name \notin DOMAIN env.successors
    BY <1>11, <2>2 DEF Behind, Range
  <2> QED
    BY <2>1, <2>2
<1>16. \A f \in Range(chain) : \E n : f = FileOf(dir, n, domain)
  BY <1>4, <1>9, <1>10
<1>17. Range(chain) = {chain[1]} \cup Behind(chain[1])
  <2> HIDE DEF behind
  <2> QED
    BY <1>13, <1>14, <1>15, <1>16
<1>18. ASSUME NEW n, n = name \/ n \in Range(behind), n \in DOMAIN env.successors
       PROVE  \A m \in Range(env.successors[n]) : m \in Range(behind)
  <2>1. CASE n = name
    BY <1>18, <2>1
  <2>2. CASE n # name
    <3>1. n \in Range(env.successors[name]) /\ name \in DOMAIN env.successors
      BY <1>18, <2>2 DEF Range
    <3> QED
      BY <1>18, <3>1, SetupAssumption DEF Typed
  <2> QED
    BY <2>1, <2>2
<1>19. ASSUME NEW f \in Range(chain)  PROVE Behind(f) \subseteq Range(chain)
  <2>1. PICK n : f = FileOf(dir, n, domain)
    BY <1>16
  <2>2. n = name \/ n \in Range(behind)
    BY <1>14, <2>1
  <2>3. CASE n \in DOMAIN env.successors
    <3>1. Behind(f) = {FileOf(dir, m, domain) : m \in Range(env.successors[n])}
      BY <1>11, <2>1, <2>3 DEF Behind
    <3> HIDE DEF behind
    <3> QED
      BY <1>14, <1>18, <2>2, <2>3, <3>1
  <2>4. CASE n \notin DOMAIN env.successors
    BY <1>11, <2>1, <2>4 DEF Behind
  <2> QED
    BY <2>3, <2>4
<1> QED
  BY <1>2, <1>4, <1>7, <1>10, <1>12, <1>13, <1>17, <1>19 DEF IsChain, chain
-----------------------------------------------------------------------------
(***************************************************************************)
(* What depends on the settings only.                                      *)
(***************************************************************************)
LEMMA BindingStays ==
  ASSUME UNCHANGED <<env, settings>>, NEW domain
  PROVE  /\ BindingOf(domain)' = BindingOf(domain)
         /\ get_output_charset(domain)' = get_output_charset(domain)
<1>1. BindingOf(domain)' = BindingOf(domain)
  BY DEF BindingOf, BindingAt, Unbound, settings
<1> QED
  BY <1>1 DEF get_output_charset, settings

LEMMA LanguagesStay ==
  ASSUME UNCHANGED <<env, settings>>
  PROVE  /\ guess_category_value' = guess_category_value /\ Count' = Count
         /\ \A i : (Allowed(i)' <=> Allowed(i)) /\ (Tried(i)' <=> Tried(i))
         /\ \A n : NoCUpTo(n)' <=> NoCUpTo(n)
<1>1. guess_category_value' = guess_category_value
  BY DEF guess_category_value, settings
<1>2. \A i : Allowed(i)' <=> Allowed(i)
  BY <1>1 DEF Allowed
<1> QED
  BY <1>1, <1>2 DEF Count, Tried, NoCUpTo, Untranslating

LEMMA FormsStay ==
  ASSUME UNCHANGED <<env, settings>>, NEW domain, NEW i
  PROVE  Forms(domain, i)' = Forms(domain, i)
  BY BindingStays, LanguagesStay DEF Forms, Chain, FileOf, Expand

LEMMA ServesStay ==
  ASSUME UNCHANGED <<env, settings>>, NEW domain, NEW msgid, NEW file
  PROVE  /\ InCharset(domain, file)' = InCharset(domain, file)
         /\ Serves(domain, msgid, file)' <=> Serves(domain, msgid, file)
<1>1. InCharset(domain, file)' = InCharset(domain, file)
  BY BindingStays DEF InCharset, CatalogOf, Opens, Converts, Missing
<1> QED
  BY <1>1 DEF Serves, CatalogOf, Missing

LEMMA NoneBeforeStays ==
  ASSUME UNCHANGED <<env, settings>>, NEW domain, NEW msgid, NEW i, NEW j
  PROVE  NoneBefore(domain, msgid, i, j)' <=> NoneBefore(domain, msgid, i, j)
<1>1. /\ guess_category_value' = guess_category_value
      /\ \A k : (Tried(k)' <=> Tried(k))
  BY LanguagesStay
<1>2. \A k : Forms(domain, k)' = Forms(domain, k)
  BY FormsStay
<1>3. \A file : Serves(domain, msgid, file)' <=> Serves(domain, msgid, file)
  BY ServesStay
<1>4. \A k, l : OnTheWay(domain, k, l)' <=> OnTheWay(domain, k, l)
  BY <1>1, <1>2 DEF OnTheWay
<1> QED
  BY <1>1, <1>2, <1>3, <1>4 DEF NoneBefore

LEMMA CurrentStays ==
  ASSUME UNCHANGED <<env, settings>>, NEW answer, NEW domain, NEW msgid
  PROVE  /\ IsCurrent(answer, domain, msgid)' <=> IsCurrent(answer, domain, msgid)
         /\ Unresolvable(domain)' <=> Unresolvable(domain)
<1>1. Unresolvable(domain)' <=> Unresolvable(domain)
  BY BindingStays DEF Unresolvable
<1>2. IsUntranslated(answer, domain, msgid)' <=> IsUntranslated(answer, domain, msgid)
  BY <1>1, LanguagesStay, NoneBeforeStays DEF IsUntranslated, Untranslated
<1>3. IsTranslated(answer, domain, msgid)' <=> IsTranslated(answer, domain, msgid)
  <2>1. guess_category_value' = guess_category_value /\ \A k : (Tried(k)' <=> Tried(k))
    BY LanguagesStay
  <2>2. \A k : Forms(domain, k)' = Forms(domain, k)
    BY FormsStay
  <2>3. \A file : /\ Serves(domain, msgid, file)' <=> Serves(domain, msgid, file)
                  /\ InCharset(domain, file)' = InCharset(domain, file)
    BY ServesStay
  <2>4. \A k, l : OnTheWay(domain, k, l)' <=> OnTheWay(domain, k, l)
    BY <2>1, <2>2 DEF OnTheWay
  <2>5. \A k, l : NoneBefore(domain, msgid, k, l)' <=> NoneBefore(domain, msgid, k, l)
    BY NoneBeforeStays
  <2> QED
    BY <1>1, <2>1, <2>2, <2>3, <2>4, <2>5 DEF IsTranslated, Answer
<1> QED
  BY <1>1, <1>2, <1>3 DEF IsCurrent

(* A step that changes neither surroundings nor settings changes none of    *)
(* the places that a lookup looks at.                                       *)
SameWay ==
  /\ env' = env /\ settings' = settings /\ _nl_msg_cat_cntr' = _nl_msg_cat_cntr
  /\ guess_category_value' = guess_category_value /\ Count' = Count
  /\ \A i : (Allowed(i)' <=> Allowed(i)) /\ (NoCUpTo(i)' <=> NoCUpTo(i))
  /\ \A domain, i : Forms(domain, i)' = Forms(domain, i)
  /\ \A file : CatalogOf(file)' = CatalogOf(file) /\ Behind(file)' = Behind(file)
  /\ Plain' = Plain
  /\ \A domain : Unresolvable(domain)' <=> Unresolvable(domain)
  /\ \A domain, msgid, i, j :
       NoneBefore(domain, msgid, i, j)' <=> NoneBefore(domain, msgid, i, j)
  /\ \A answer, domain, msgid :
       IsCurrent(answer, domain, msgid)' <=> IsCurrent(answer, domain, msgid)

LEMMA WayStays ==
  ASSUME UNCHANGED <<env, settings>>
  PROVE  SameWay
<1>1. _nl_msg_cat_cntr' = _nl_msg_cat_cntr
  BY DEF settings
<1>2. /\ guess_category_value' = guess_category_value /\ Count' = Count
      /\ \A i : (Allowed(i)' <=> Allowed(i)) /\ (NoCUpTo(i)' <=> NoCUpTo(i))
  BY LanguagesStay
<1>3. \A domain, i : Forms(domain, i)' = Forms(domain, i)
  BY FormsStay
<1>4. \A domain, msgid, i, j :
        NoneBefore(domain, msgid, i, j)' <=> NoneBefore(domain, msgid, i, j)
  BY NoneBeforeStays
<1>5. \A domain : Unresolvable(domain)' <=> Unresolvable(domain)
  BY CurrentStays
<1>6. \A answer, domain, msgid :
        IsCurrent(answer, domain, msgid)' <=> IsCurrent(answer, domain, msgid)
  BY CurrentStays
<1>7. /\ \A file : CatalogOf(file)' = CatalogOf(file) /\ Behind(file)' = Behind(file)
      /\ Plain' = Plain
  BY DEF CatalogOf, Missing, Behind, Plain, Name, Dir, Domain, FileOf
<1> QED
  BY <1>1, <1>2, <1>3, <1>4, <1>5, <1>6, <1>7 DEF SameWay
-----------------------------------------------------------------------------
(***************************************************************************)
(* What a step does to the thread that takes it, and to the others.        *)
(***************************************************************************)
LEMMA ToMoves ==
  ASSUME Typed, NEW t \in Callers, NEW place \in LookupPlaces, To(t, place)
  PROVE  /\ at' \in [Callers -> LookupPlaces] /\ at'[t] = place
         /\ \A u \in Callers \ {t} : at'[u] = at[u]
  BY DEF Typed, To

(* The local variables of t become these.                                   *)
Becomes(t, domain, known, list, chain, step, back, answer) ==
  /\ DOMAIN local' = Callers
  /\ \A u \in Callers \ {t} : local'[u] = local[u]
  /\ DOMAIN local'[t] = Fields
  /\ local'[t].domain = domain /\ local'[t].known = known /\ local'[t].list = list
  /\ local'[t].chain = chain /\ local'[t].step = step /\ local'[t].back = back
  /\ local'[t].answer = answer

LEMMA SetWhole ==
  ASSUME Typed, NEW t \in Callers, NEW locals, Set(t, locals)
  PROVE  /\ DOMAIN local' = Callers /\ local'[t] = locals
         /\ \A u \in Callers \ {t} : local'[u] = local[u]
  BY DEF Typed, Set

LEMMA SameLocals ==
  ASSUME Typed, NEW t \in Callers, UNCHANGED local
  PROVE  Becomes(t, local[t].domain, local[t].known, local[t].list, local[t].chain,
                 local[t].step, local[t].back, local[t].answer)
  BY DEF Typed, Becomes

LEMMA SetDomain ==
  ASSUME Typed, NEW t \in Callers, NEW x, Set(t, [local[t] EXCEPT !.domain = x])
  PROVE  Becomes(t, x, local[t].known, local[t].list, local[t].chain,
                 local[t].step, local[t].back, local[t].answer)
<1>1. DOMAIN local[t] = Fields
  BY DEF Typed
<1>2. /\ DOMAIN local' = Callers /\ local'[t] = [local[t] EXCEPT !.domain = x]
      /\ \A u \in Callers \ {t} : local'[u] = local[u]
  BY SetWhole
<1> QED
  BY <1>1, <1>2, Zenon DEF Becomes, Fields

LEMMA SetKnown ==
  ASSUME Typed, NEW t \in Callers, NEW x, Set(t, [local[t] EXCEPT !.known = x])
  PROVE  Becomes(t, local[t].domain, x, local[t].list, local[t].chain,
                 local[t].step, local[t].back, local[t].answer)
<1>1. DOMAIN local[t] = Fields
  BY DEF Typed
<1>2. /\ DOMAIN local' = Callers /\ local'[t] = [local[t] EXCEPT !.known = x]
      /\ \A u \in Callers \ {t} : local'[u] = local[u]
  BY SetWhole
<1> QED
  BY <1>1, <1>2, Zenon DEF Becomes, Fields

LEMMA SetList ==
  ASSUME Typed, NEW t \in Callers, NEW x, Set(t, [local[t] EXCEPT !.list = x])
  PROVE  Becomes(t, local[t].domain, local[t].known, x, local[t].chain,
                 local[t].step, local[t].back, local[t].answer)
<1>1. DOMAIN local[t] = Fields
  BY DEF Typed
<1>2. /\ DOMAIN local' = Callers /\ local'[t] = [local[t] EXCEPT !.list = x]
      /\ \A u \in Callers \ {t} : local'[u] = local[u]
  BY SetWhole
<1> QED
  BY <1>1, <1>2, Zenon DEF Becomes, Fields

LEMMA SetListAndChain ==
  ASSUME Typed, NEW t \in Callers, NEW x, NEW y,
         Set(t, [local[t] EXCEPT !.list = x, !.chain = y])
  PROVE  Becomes(t, local[t].domain, local[t].known, x, y,
                 local[t].step, local[t].back, local[t].answer)
<1>1. DOMAIN local[t] = Fields
  BY DEF Typed
<1>2. /\ DOMAIN local' = Callers /\ local'[t] = [local[t] EXCEPT !.list = x, !.chain = y]
      /\ \A u \in Callers \ {t} : local'[u] = local[u]
  BY SetWhole
<1> QED
  BY <1>1, <1>2, Zenon DEF Becomes, Fields

LEMMA SetChainAndStep ==
  ASSUME Typed, NEW t \in Callers, NEW x, NEW y,
         Set(t, [local[t] EXCEPT !.chain = x, !.step = y])
  PROVE  Becomes(t, local[t].domain, local[t].known, local[t].list, x,
                 y, local[t].back, local[t].answer)
<1>1. DOMAIN local[t] = Fields
  BY DEF Typed
<1>2. /\ DOMAIN local' = Callers /\ local'[t] = [local[t] EXCEPT !.chain = x, !.step = y]
      /\ \A u \in Callers \ {t} : local'[u] = local[u]
  BY SetWhole
<1> QED
  BY <1>1, <1>2, Zenon DEF Becomes, Fields

LEMMA SetStep ==
  ASSUME Typed, NEW t \in Callers, NEW x, Set(t, [local[t] EXCEPT !.step = x])
  PROVE  Becomes(t, local[t].domain, local[t].known, local[t].list, local[t].chain,
                 x, local[t].back, local[t].answer)
<1>1. DOMAIN local[t] = Fields
  BY DEF Typed
<1>2. /\ DOMAIN local' = Callers /\ local'[t] = [local[t] EXCEPT !.step = x]
      /\ \A u \in Callers \ {t} : local'[u] = local[u]
  BY SetWhole
<1> QED
  BY <1>1, <1>2, Zenon DEF Becomes, Fields

LEMMA SetBack ==
  ASSUME Typed, NEW t \in Callers, NEW x, Set(t, [local[t] EXCEPT !.back = x])
  PROVE  Becomes(t, local[t].domain, local[t].known, local[t].list, local[t].chain,
                 local[t].step, x, local[t].answer)
<1>1. DOMAIN local[t] = Fields
  BY DEF Typed
<1>2. /\ DOMAIN local' = Callers /\ local'[t] = [local[t] EXCEPT !.back = x]
      /\ \A u \in Callers \ {t} : local'[u] = local[u]
  BY SetWhole
<1> QED
  BY <1>1, <1>2, Zenon DEF Becomes, Fields

LEMMA SetAnswer ==
  ASSUME Typed, NEW t \in Callers, NEW x, Set(t, [local[t] EXCEPT !.answer = x])
  PROVE  Becomes(t, local[t].domain, local[t].known, local[t].list, local[t].chain,
                 local[t].step, local[t].back, x)
<1>1. DOMAIN local[t] = Fields
  BY DEF Typed
<1>2. /\ DOMAIN local' = Callers /\ local'[t] = [local[t] EXCEPT !.answer = x]
      /\ \A u \in Callers \ {t} : local'[u] = local[u]
  BY SetWhole
<1> QED
  BY <1>1, <1>2, Zenon DEF Becomes, Fields

(* What the place of a thread needs of the others stays.                    *)
Undisturbed(u) ==
  /\ \A k \in DOMAIN root :
       /\ k \in DOMAIN root'
       /\ root[k].counter = _nl_msg_cat_cntr => root'[k].counter = _nl_msg_cat_cntr
  /\ DOMAIN decided \subseteq DOMAIN decided'
  /\ at[u] \in Reading =>
       /\ loader' = loader /\ decided'[Current(u)] = decided[Current(u)]
       /\ Current(u) \in data <=> Current(u) \in data'

LEMMA OthersStay ==
  ASSUME Typed, SameWay, NEW u \in Callers, Caller(u), Undisturbed(u),
         at'[u] = at[u], local'[u] = local[u], call'[u] = call[u]
  PROVE  Caller(u)'
<1>1. Key(u)' = Key(u) /\ Current(u)' = Current(u) /\ Reached(u)' = Reached(u)
  BY DEF Key, Current, Reached, SameWay
<1>2. Starting(u)' /\ Silent(u)'
  BY DEF Caller, Starting, Silent, NoLocals, Untranslated
<1>3. Knowing(u)'
  BY <1>1 DEF Caller, Knowing, Undisturbed, SameWay
<1>4. Choosing(u)'
  BY <1>1 DEF Caller, Choosing, Rest, SameWay
<1>5. Past(u)' /\ InLanguage(u)'
  BY <1>1 DEF Caller, Past, InLanguage, NoneUpTo, SameWay
<1>6. InChain(u)'
  BY <1>1 DEF Caller, InChain, Undisturbed, SameWay
<1>7. Returning(u)'
  BY <1>1 DEF Caller, Returning, NoneUpTo, SameWay
<1>8. Loads(u)'
  <2>1. /\ env'.failures = env.failures /\ CatalogOf(Current(u))' = CatalogOf(Current(u))
    BY <1>1 DEF SameWay
  <2>2. at[u] \in Reading => loader' = u /\ decided'[Current(u)'] = -1
    BY <1>1 DEF Caller, Loads, Undisturbed
  <2>3. at[u] = "header" => Current(u) \in data'
    BY DEF Caller, Loads, Undisturbed, Reading
  <2>4. at[u] = "decide" =>
          env.failures \/ Current(u) \in data' \/ ~ CatalogOf(Current(u)).valid
    BY DEF Caller, Loads, Undisturbed, Reading
  <2> QED
    BY <1>1, <2>1, <2>2, <2>3, <2>4 DEF Loads
<1>9. Answers(u)'
  BY <1>1 DEF Caller, Answers, SameWay
<1> QED
  BY <1>2, <1>3, <1>4, <1>5, <1>6, <1>7, <1>8, <1>9 DEF Caller

LEMMA LockStays ==
  ASSUME Locked, NEW t \in Callers, state_lock' = state_lock,
         Looking(t)' <=> Looking(t), \A u \in Callers \ {t} : at'[u] = at[u]
  PROVE  Locked'
<1>1. \A u \in Callers : Looking(u)' <=> Looking(u)
  BY DEF Looking
<1> QED
  BY <1>1 DEF Locked
-----------------------------------------------------------------------------
(***************************************************************************)
(* Steps that leave the files and the known translations as they are.      *)
(***************************************************************************)
(* Only t moves, within what it knows.                                      *)
Alone(t) ==
  /\ at' \in [Callers -> LookupPlaces]
  /\ DOMAIN local' = Callers /\ DOMAIN local'[t] = Fields
  /\ DOMAIN call' = Callers
  /\ \A u \in Callers \ {t} : at'[u] = at[u] /\ local'[u] = local[u] /\ call'[u] = call[u]
  /\ UNCHANGED <<env, settings>>

LEMMA TypedStays ==
  ASSUME Typed, NEW t \in Callers, Alone(t), loader' \in Callers \cup {Nil}
  PROVE  Typed'
  BY DEF Typed, Alone, settings

LEMMA MovesAlone ==
  ASSUME Typed, NEW t \in Callers, NEW place \in LookupPlaces, To(t, place),
         NEW domain, NEW known, NEW list, NEW chain, NEW step, NEW back, NEW answer,
         Becomes(t, domain, known, list, chain, step, back, answer),
         UNCHANGED <<env, call, settings>>
  PROVE  Alone(t) /\ at'[t] = place
  BY ToMoves DEF Becomes, Alone, Typed

LEMMA TornStays ==
  ASSUME Typed, NEW t \in Callers, Alone(t), at[t] # "update", NEW key, Torn(key)
  PROVE  Torn(key)'
<1>1. PICK u \in Callers : at[u] = "update" /\ Key(u) = key
  BY DEF Torn
<1>2. at'[u] = "update" /\ Key(u)' = key
  BY <1>1 DEF Alone, Key
<1> QED
  BY <1>2 DEF Torn

Quiet(t) ==
  /\ Alone(t) /\ UNCHANGED <<root, files>>
  /\ at[t] # "update" /\ at[t] \notin Reading

LEMMA QuietStays ==
  ASSUME LookupInv, NEW t \in Callers, Quiet(t), Locked', SameWay => Caller(t)'
  PROVE  LookupInv'
<1>1. Typed /\ Alone(t) /\ Typed'
  BY TypedStays DEF LookupInv, Quiet, files, Typed
<1>2. SameWay
  BY WayStays DEF Quiet, Alone
<1>3. ASSUME NEW u \in Callers \ {t}  PROVE Caller(u)'
  <2>1. at'[u] = at[u] /\ local'[u] = local[u] /\ call'[u] = call[u]
    BY DEF Quiet, Alone
  <2>2. Undisturbed(u)
    BY DEF Quiet, Undisturbed, files
  <2> QED
    BY <1>1, <1>2, <2>1, <2>2, OthersStay DEF LookupInv
<1>4. FilesOK'
  <2>1. /\ decided' = decided /\ data' = data /\ loader' = loader
        /\ conversions' = conversions /\ env' = env
        /\ \A f : CatalogOf(f)' = CatalogOf(f) /\ Behind(f)' = Behind(f)
        /\ Plain' = Plain
    BY <1>2 DEF Quiet, files, SameWay
  <2>2. ASSUME loader # Nil
        PROVE  /\ loader \in Callers
               /\ at'[loader] = at[loader] /\ local'[loader] = local[loader]
    <3>1. loader \in Callers /\ at[loader] \in Reading
      BY <2>2 DEF LookupInv, Typed, FilesOK
    <3> QED
      BY <3>1 DEF Quiet, Alone
  <2>3. loader # Nil => at'[loader] \in Reading /\ Current(loader)' = Current(loader)
    BY <2>1, <2>2 DEF LookupInv, FilesOK, Current
  <2>4. \A f \in DOMAIN decided :
          decided[f] = -1 => /\ loader \in Callers /\ at'[loader] \in Reading
                             /\ Current(loader)' = f
    BY <2>3, CallersAssumption DEF LookupInv, FilesOK
  <2> QED
    BY <2>1, <2>3, <2>4 DEF LookupInv, FilesOK
<1>5. ConversionsOK'
  BY <1>2 DEF LookupInv, ConversionsOK, Outcomes, Conversion, Opens, SameWay, Quiet, files
<1>6. CacheOK'
  <2>1. \A k : Torn(k) => Torn(k)'
    BY <1>1, TornStays DEF Quiet
  <2> QED
    BY <1>2, <2>1 DEF LookupInv, CacheOK, SameWay, Quiet
<1> QED
  BY <1>1, <1>2, <1>3, <1>4, <1>5, <1>6 DEF LookupInv

(* A thread that leaves a lookup, or enters one, has nothing to keep.       *)
LEMMA NothingToKeep ==
  ASSUME NEW t \in Callers, at'[t] \in {"answer", "out"}
  PROVE  Caller(t)'
  BY DEF Caller, Starting, Silent, Knowing, Choosing, Past, InLanguage, InChain, Returning,
     Loads, Answers, Walking, Loading, Reading

LEMMA BeginStays ==
  ASSUME LookupInv, NEW t \in Callers, Begin(t)
  PROVE  LookupInv'
<1>1. Typed /\ Locked
  BY DEF LookupInv
<1>2. UNCHANGED <<env, call, settings>> /\ UNCHANGED <<root, files>> /\ at[t] = "gettext"
  BY DEF Begin, Frame
<1>3. CASE call[t].msgid = Nil
  <2>1. To(t, "out") /\ UNCHANGED local /\ UNCHANGED state_lock
    BY <1>3 DEF Begin, Return
  <2>2. Alone(t) /\ at'[t] = "out"
    BY <1>1, <1>2, <2>1, SameLocals, MovesAlone DEF LookupPlaces
  <2>3. Locked'
    BY <1>1, <1>2, <2>1, <2>2, LockStays DEF Looking, Alone
  <2>4. Quiet(t)
    BY <1>2, <2>2 DEF Quiet, Reading
  <2> QED
    BY <2>2, <2>3, <2>4, QuietStays, NothingToKeep
<1>4. CASE call[t].msgid # Nil
  <2>1. PICK domain : Set(t, [local[t] EXCEPT !.domain = domain])
    BY <1>4 DEF Begin
  <2>2. PICK place \in {"known", "binding"} : To(t, place)
    BY <1>4 DEF Begin
  <2>3. local[t] = NoLocals
    BY <1>2 DEF LookupInv, Caller, Starting
  <2>4. Becomes(t, domain, FALSE, <<>>, <<>>, 0, "out", Untranslated)
    <3>1. /\ local[t].known = FALSE /\ local[t].list = <<>> /\ local[t].chain = <<>>
          /\ local[t].step = 0 /\ local[t].back = "out" /\ local[t].answer = Untranslated
      BY <2>3 DEF NoLocals
    <3>2. Becomes(t, domain, local[t].known, local[t].list, local[t].chain,
                  local[t].step, local[t].back, local[t].answer)
      BY <1>1, <2>1, SetDomain
    <3> QED
      BY <3>1, <3>2, Zenon
  <2>5. Alone(t) /\ at'[t] = place
    BY <1>1, <1>2, <2>2, <2>4, MovesAlone DEF LookupPlaces
  <2>6. state_lock' = state_lock \cup {t}
    BY <1>4 DEF Begin, Reads
  <2>7. Locked'
    <3>1. \A u \in Callers : Looking(u)' <=> Looking(u) \/ u = t
      BY <1>2, <2>5 DEF Looking, Alone
    <3> QED
      BY <1>1, <2>6, <3>1 DEF Locked
  <2>8. Caller(t)'
    BY <2>4, <2>5 DEF Becomes, Caller, Starting, Silent, Knowing, Choosing, Past, InLanguage,
       InChain, Returning, Loads, Answers, Walking, Loading, Reading, Untranslated
  <2>9. Quiet(t)
    BY <1>2, <2>5 DEF Quiet, Reading
  <2> QED
    BY <2>7, <2>8, <2>9, QuietStays
<1> QED
  BY <1>3, <1>4

LEMMA FindKnownStays ==
  ASSUME LookupInv, NEW t \in Callers, FindKnown(t)
  PROVE  LookupInv'
<1>1. Typed /\ Locked /\ Caller(t)
  BY DEF LookupInv
<1>2. /\ UNCHANGED <<env, call, settings>> /\ UNCHANGED <<root, files>>
      /\ at[t] = "known" /\ state_lock' = state_lock
  BY DEF FindKnown, Frame
<1>3. PICK found : /\ found = (Key(t) \in DOMAIN root)
                   /\ Set(t, [local[t] EXCEPT !.known = found])
  BY Zenon DEF FindKnown
<1>4. Becomes(t, local[t].domain, found, local[t].list, local[t].chain, local[t].step,
              local[t].back, local[t].answer)
  BY <1>1, <1>3, SetKnown
<1>5. PICK place \in {"cached", "binding"} :
        /\ To(t, place)
        /\ place = "cached" =>
             Key(t) \in DOMAIN root /\ root[Key(t)].counter = _nl_msg_cat_cntr
  BY DEF FindKnown
<1>6. Alone(t) /\ at'[t] = place
  BY <1>1, <1>2, <1>4, <1>5, MovesAlone DEF LookupPlaces
<1>7. Locked'
  BY <1>1, <1>2, <1>6, LockStays DEF Looking, Alone
<1>8. Key(t)' = Key(t)
  BY <1>2, <1>4 DEF Key, Becomes
<1>9. local[t].answer = Untranslated
  BY <1>1, <1>2 DEF Caller, Silent
<1>10. SameWay => Caller(t)'
  BY <1>2, <1>3, <1>4, <1>5, <1>6, <1>8, <1>9
     DEF Becomes, Caller, Starting, Silent, Knowing, Choosing, Past, InLanguage,
       InChain, Returning, Loads, Answers, Walking, Loading, Reading, Untranslated, SameWay
<1> QED
  BY <1>2, <1>6, <1>7, <1>10, QuietStays DEF Quiet, Reading
-----------------------------------------------------------------------------
(***************************************************************************)
(* The way of a lookup, language by language and form by form.             *)
(***************************************************************************)
LEMMA FormsAreChains ==
  ASSUME Typed, NEW domain, NEW i \in DOMAIN guess_category_value
  PROVE  IsChain(Forms(domain, i), domain, Expand(guess_category_value[i]))
<1>1. guess_category_value[i] \in Locales
  BY LanguagesTyped
<1>2. Expand(guess_category_value[i]) \in Plain
  BY <1>1, ExpandedIsPlain
<1> QED
  BY <1>2, ChainOfPlain DEF Forms

LEMMA FormsCount ==
  ASSUME Typed, NEW domain, NEW i \in DOMAIN guess_category_value
  PROVE  /\ Len(Forms(domain, i)) \in Nat /\ Len(Forms(domain, i)) >= 1
         /\ DOMAIN Forms(domain, i) = 1 .. Len(Forms(domain, i))
  BY FormsAreChains DEF IsChain

LEMMA NoneBeforeFirst ==
  ASSUME Typed, NEW domain, NEW msgid
  PROVE  NoneBefore(domain, msgid, 1, 1)
<1>1. \A k \in DOMAIN guess_category_value : k \in 1 .. Count
  BY LanguagesTyped
<1>2. \A k \in DOMAIN guess_category_value :
        DOMAIN Forms(domain, k) = 1 .. Len(Forms(domain, k))
  BY FormsCount
<1> QED
  BY <1>1, <1>2 DEF NoneBefore

LEMMA NoneBeforeNext ==
  ASSUME Typed, NEW domain, NEW msgid, NEW i \in DOMAIN guess_category_value,
         NEW j \in DOMAIN Forms(domain, i), NoneBefore(domain, msgid, i, j),
         ~ Serves(domain, msgid, Forms(domain, i)[j])
  PROVE  NoneBefore(domain, msgid, i, j + 1)
<1>1. j \in Nat
  BY FormsCount
<1>2. \A l \in DOMAIN Forms(domain, i) : l < j + 1 => l < j \/ l = j
  BY <1>1, FormsCount
<1>3. \A l \in DOMAIN Forms(domain, i) :
        OnTheWay(domain, i, l) /\ l < j + 1 => ~ Serves(domain, msgid, Forms(domain, i)[l])
  BY <1>2 DEF NoneBefore
<1> QED
  BY <1>3 DEF NoneBefore

LEMMA NoneBeforeNextLanguage ==
  ASSUME Typed, NEW domain, NEW msgid, NEW i \in DOMAIN guess_category_value, NEW j,
         NoneBefore(domain, msgid, i, j),
         \/ ~ Tried(i)
         \/ j = Len(Forms(domain, i)) + 1
  PROVE  NoneBefore(domain, msgid, i + 1, 1)
<1>1. i \in Nat /\ \A k \in DOMAIN guess_category_value : k \in Nat
  BY LanguagesTyped
<1>2. \A l \in DOMAIN Forms(domain, i) : l < Len(Forms(domain, i)) + 1
  BY FormsCount
<1>3. \A k \in DOMAIN guess_category_value : k < i + 1 => k < i \/ k = i
  BY <1>1
<1>4. \A k \in DOMAIN guess_category_value : \A l \in DOMAIN Forms(domain, k) : ~ (l < 1)
  BY FormsCount
<1>5. \A l \in DOMAIN Forms(domain, i) :
        OnTheWay(domain, i, l) => ~ Serves(domain, msgid, Forms(domain, i)[l])
  BY <1>2 DEF NoneBefore, OnTheWay
<1> QED
  BY <1>3, <1>4, <1>5 DEF NoneBefore

(* Behind the last language, and behind C, there is nothing more.           *)
LEMMA NoneBeforeEnd ==
  ASSUME Typed, NEW domain, NEW msgid, NEW i, NoneBefore(domain, msgid, i, 1),
         \A k \in DOMAIN guess_category_value : k >= i => ~ Tried(k), i \in Nat
  PROVE  NoneBefore(domain, msgid, Count + 1, 1)
<1>1. \A k \in DOMAIN guess_category_value : k \in Nat
  BY LanguagesTyped
<1>2. \A k \in DOMAIN guess_category_value : k < i \/ ~ Tried(k)
  BY <1>1
<1> QED
  BY <1>2 DEF NoneBefore, OnTheWay

LEMMA TakeKnownStays ==
  ASSUME LookupInv, NEW t \in Callers, TakeKnown(t)
  PROVE  /\ LookupInv'
         /\ \/ IsCurrent(local'[t].answer, local[t].domain, call[t].msgid)
            \/ Torn(Key(t))
<1>1. Typed /\ Locked /\ Caller(t) /\ CacheOK
  BY DEF LookupInv
<1>2. /\ UNCHANGED <<env, call, settings>> /\ UNCHANGED <<root, files>>
      /\ at[t] = "cached" /\ state_lock' = state_lock /\ To(t, "answer")
      /\ Set(t, [local[t] EXCEPT !.answer = root[Key(t)].translation])
  BY DEF TakeKnown, Frame
<1>3. Becomes(t, local[t].domain, local[t].known, local[t].list, local[t].chain,
              local[t].step, local[t].back, root[Key(t)].translation)
  BY <1>1, <1>2, SetAnswer
<1>4. Alone(t) /\ at'[t] = "answer"
  BY <1>1, <1>2, <1>3, MovesAlone DEF LookupPlaces
<1>5. Locked'
  BY <1>1, <1>2, <1>4, LockStays DEF Looking, Alone
<1>6. LookupInv'
  BY <1>2, <1>4, <1>5, QuietStays, NothingToKeep DEF Quiet, Reading
<1>7. Key(t) \in DOMAIN root /\ root[Key(t)].counter = _nl_msg_cat_cntr
  BY <1>1, <1>2 DEF Caller, Knowing
<1>8. \/ IsCurrent(root[Key(t)].translation, Key(t)[1], Key(t)[2])
      \/ Torn(Key(t))
  BY <1>1, <1>7 DEF CacheOK
<1> QED
  BY <1>3, <1>6, <1>8 DEF Becomes, Key

LEMMA FindBindingStays ==
  ASSUME LookupInv, NEW t \in Callers, FindBinding(t)
  PROVE  /\ LookupInv'
         /\ at'[t] = "answer" => IsCurrent(local'[t].answer, local[t].domain, call[t].msgid)
<1>1. Typed /\ Locked /\ Caller(t)
  BY DEF LookupInv
<1>2. /\ UNCHANGED <<env, call, settings>> /\ UNCHANGED <<root, files>>
      /\ at[t] = "binding" /\ state_lock' = state_lock
  BY DEF FindBinding, Frame
<1>3. local[t].answer = Untranslated
  BY <1>1, <1>2 DEF Caller, Silent
<1>4. CASE Unresolvable(local[t].domain)
  <2>1. To(t, "answer") /\ UNCHANGED local
    BY <1>4 DEF FindBinding, Unresolvable
  <2>2. Alone(t) /\ at'[t] = "answer"
    BY <1>1, <1>2, <2>1, SameLocals, MovesAlone DEF LookupPlaces
  <2>3. Locked'
    BY <1>1, <1>2, <2>2, LockStays DEF Looking, Alone
  <2>4. LookupInv'
    BY <1>2, <2>2, <2>3, QuietStays, NothingToKeep DEF Quiet, Reading
  <2> QED
    BY <1>3, <1>4, <2>1, <2>4 DEF IsCurrent, IsUntranslated
<1>5. CASE ~ Unresolvable(local[t].domain)
  <2>1. To(t, "language") /\ Set(t, [local[t] EXCEPT !.list = guess_category_value])
    BY <1>5 DEF FindBinding, Unresolvable
  <2>2. Becomes(t, local[t].domain, local[t].known, guess_category_value, local[t].chain,
                local[t].step, local[t].back, local[t].answer)
    BY <1>1, <2>1, SetList
  <2>3. Alone(t) /\ at'[t] = "language"
    BY <1>1, <1>2, <2>1, <2>2, MovesAlone DEF LookupPlaces
  <2>4. Locked'
    BY <1>1, <1>2, <2>3, LockStays DEF Looking, Alone
  <2>5. ASSUME SameWay  PROVE Caller(t)'
    <3>1. Key(t)' = Key(t)
      BY <1>2, <2>2 DEF Key, Becomes
    <3>2. Reached(t)' = 0
      BY <2>2, <2>5, LanguagesTyped, <1>1 DEF Reached, Becomes, SameWay, Count
    <3>3. Knowing(t)' /\ Silent(t)'
      BY <1>1, <1>2, <1>3, <2>2, <2>3, <3>1
         DEF Becomes, Caller, Knowing, Silent, Untranslated
    <3>4. Choosing(t)'
      <4>1. Rest(t)'
        BY <2>2, <2>5, <3>2, <1>1, LanguagesTyped DEF Becomes, Rest, SameWay, Count
      <4>2. NoCUpTo(0)
        BY DEF NoCUpTo
      <4> QED
        BY <1>5, <2>2, <2>5, <3>2, <4>1, <4>2 DEF Becomes, Choosing, SameWay
    <3>5. Past(t)'
      <4>1. NoneBefore(local[t].domain, call[t].msgid, 1, 1)
        BY <1>1, NoneBeforeFirst
      <4> QED
        BY <1>2, <2>2, <2>5, <3>2, <4>1 DEF Past, NoneUpTo, Becomes, SameWay
    <3> QED
      BY <2>3, <3>3, <3>4, <3>5
         DEF Caller, Starting, InLanguage, InChain, Returning, Loads, Answers, Walking,
             Loading, Reading
  <2> QED
    BY <1>2, <2>3, <2>4, <2>5, QuietStays DEF Quiet, Reading
<1> QED
  BY <1>4, <1>5
-----------------------------------------------------------------------------
(***************************************************************************)
(* The next language.                                                      *)
(***************************************************************************)
LEMMA ReachedCounts ==
  ASSUME Typed, NEW t \in Callers, Rest(t)
  PROVE  Reached(t) \in Nat /\ Len(local[t].list) \in Nat /\ Reached(t) + Len(local[t].list) = Count
<1>1. Count \in Nat /\ Len(local[t].list) \in Nat /\ Len(local[t].list) <= Count
  BY LanguagesTyped DEF Rest
<1> QED
  BY <1>1 DEF Reached

LEMMA RestOfOne ==
  ASSUME Typed, NEW t \in Callers, Rest(t), local[t].list # <<>>
  PROVE  /\ Reached(t) + 1 \in DOMAIN guess_category_value
         /\ Head(local[t].list) = guess_category_value[Reached(t) + 1]
         /\ Tail(local[t].list) \in Seq(Locales)
         /\ Len(Tail(local[t].list)) = Len(local[t].list) - 1
         /\ \A k \in 1 .. Len(Tail(local[t].list)) :
              Tail(local[t].list)[k] = guess_category_value[(Reached(t) + 1) + k]
<1> DEFINE list == local[t].list
<1>1. list \in Seq(Locales) /\ list # <<>>
  BY DEF Rest
<1>2. Reached(t) \in Nat /\ Len(list) \in Nat /\ Reached(t) + Len(list) = Count
  BY ReachedCounts
<1>3. \A i \in 1 .. Len(list) : list[i] = guess_category_value[Reached(t) + i]
  BY DEF Rest
<1>4. DOMAIN guess_category_value = 1 .. Count /\ Count \in Nat
  BY LanguagesTyped
<1> HIDE DEF list
<1>5. /\ Len(list) >= 1 /\ Head(list) = list[1]
      /\ Tail(list) \in Seq(Locales) /\ Len(Tail(list)) = Len(list) - 1
      /\ \A k \in 1 .. Len(Tail(list)) : Tail(list)[k] = list[k + 1]
  BY <1>1, <1>2
<1>6. ASSUME NEW k \in 1 .. Len(Tail(list))
      PROVE  Tail(list)[k] = guess_category_value[(Reached(t) + 1) + k]
  <2>1. PICK i : i = k + 1
    OBVIOUS
  <2>2. i \in 1 .. Len(list) /\ Reached(t) + i = (Reached(t) + 1) + k
    BY <1>2, <1>5, <2>1
  <2>3. Tail(list)[k] = list[i]
    BY <1>5, <2>1
  <2> QED
    BY <1>3, <2>2, <2>3
<1>7. 1 \in 1 .. Len(list) /\ Reached(t) + 1 \in 1 .. Count
  BY <1>2, <1>4, <1>5
<1> QED
  BY <1>3, <1>4, <1>5, <1>6, <1>7 DEF list

LEMMA NoCUpToNext ==
  ASSUME NEW n \in Nat, NoCUpTo(n),
         Allowed(n + 1) => guess_category_value[n + 1] \notin Untranslating
  PROVE  NoCUpTo(n + 1)
<1>1. \A j \in 1 .. (n + 1) : j \in 1 .. n \/ j = n + 1
  OBVIOUS
<1> QED
  BY <1>1 DEF NoCUpTo

LEMMA NextLanguageStays ==
  ASSUME LookupInv, NEW t \in Callers, NextLanguage(t)
  PROVE  /\ LookupInv'
         /\ at'[t] = "answer" => IsCurrent(local'[t].answer, local[t].domain, call[t].msgid)
<1> DEFINE list == local[t].list
           name == IF list = <<>> THEN "C" ELSE Head(list)
           rest == IF list = <<>> THEN <<>> ELSE Tail(list)
           skips == env.secure /\ name \in env.elsewhere
<1>1. Typed /\ Locked /\ Caller(t)
  BY DEF LookupInv
<1>2. /\ UNCHANGED <<env, call, settings>> /\ UNCHANGED <<root, files>>
      /\ at[t] = "language" /\ state_lock' = state_lock
  BY DEF NextLanguage, Frame
<1>3. /\ local[t].answer = Untranslated /\ ~ Unresolvable(local[t].domain)
      /\ Rest(t) /\ NoCUpTo(Reached(t)) /\ NoneUpTo(t, Reached(t) + 1, 1)
      /\ local[t].known => Key(t) \in DOMAIN root
  BY <1>1, <1>2 DEF Caller, Silent, Choosing, Past, Knowing
<1>4. Reached(t) \in Nat /\ Reached(t) + Len(list) = Count /\ Len(list) \in Nat
  BY <1>1, <1>3, ReachedCounts
<1>5. Len(<<>>) = 0
  OBVIOUS
<1>6. /\ skips => Set(t, [local[t] EXCEPT !.list = rest]) /\ UNCHANGED at
      /\ ~ skips /\ name \in Untranslating => To(t, "answer") /\ UNCHANGED local
      /\ ~ skips /\ name \notin Untranslating =>
           Set(t, [local[t] EXCEPT !.list = rest, !.chain = <<name>>]) /\ To(t, "file")
  BY Zenon DEF NextLanguage
<1>7. list # <<>> => /\ Reached(t) + 1 \in DOMAIN guess_category_value
                     /\ name = guess_category_value[Reached(t) + 1]
                     /\ rest \in Seq(Locales) /\ Len(rest) = Len(list) - 1
                     /\ \A k \in 1 .. Len(rest) :
                          rest[k] = guess_category_value[(Reached(t) + 1) + k]
  BY <1>1, <1>3, RestOfOne
<1>8. list # <<>> => (Allowed(Reached(t) + 1) <=> ~ skips)
  <2> HIDE DEF list, name
  <2> QED
    BY <1>7 DEF Allowed
<1>9. list = <<>> => name = "C" /\ rest = <<>>
  OBVIOUS
<1>10. "C" \in Untranslating
  BY DEF Untranslating
<1>11. list = <<>> \/ list # <<>>
  OBVIOUS
<1> HIDE DEF list, name, rest, skips
(* What is left of the list, if t goes on with it. *)
<1>12. ASSUME NEW place \in {"language", "file"}, NEW chain, at'[t] = place, list # <<>>,
              Becomes(t, local[t].domain, local[t].known, rest, chain, local[t].step,
                      local[t].back, local[t].answer),
              SameWay, NoCUpTo(Reached(t) + 1)
       PROVE  /\ Reached(t)' = Reached(t) + 1 /\ Key(t)' = Key(t)
              /\ Starting(t)' /\ Silent(t)' /\ Knowing(t)' /\ Choosing(t)'
              /\ InChain(t)' /\ Returning(t)' /\ Loads(t)' /\ Answers(t)'
  <2>1. local'[t].list = rest /\ Len(rest) = Len(list) - 1
    BY <1>7, <1>12 DEF Becomes
  <2>2. Reached(t)' = Reached(t) + 1
    <3>1. Reached(t)' = Count - Len(rest) /\ Count \in Nat
      BY <1>1, <1>12, <2>1, LanguagesTyped DEF Reached, SameWay
    <3> QED
      BY <1>4, <2>1, <3>1 DEF Count
  <2>3. Key(t)' = Key(t)
    BY <1>2, <1>12 DEF Key, Becomes
  <2>4. Rest(t)'
    <3>1. Len(rest) <= Count
      BY <1>4, <2>1, LanguagesTyped, <1>1
    <3> QED
      BY <1>7, <1>12, <2>1, <2>2, <3>1 DEF Rest, SameWay
  <2>5. Choosing(t)'
    BY <1>3, <1>12, <2>2, <2>4 DEF Choosing, Becomes, SameWay
  <2>6. Knowing(t)' /\ Silent(t)'
    BY <1>2, <1>3, <1>12, <2>3 DEF Becomes, Knowing, Silent, Untranslated
  <2> QED
    BY <1>12, <2>2, <2>3, <2>5, <2>6
       DEF Starting, InChain, Returning, Loads, Answers, Walking, Loading, Reading
<1>13. CASE skips
  <2>1. Becomes(t, local[t].domain, local[t].known, rest, local[t].chain, local[t].step,
                local[t].back, local[t].answer) /\ UNCHANGED at
    BY <1>1, <1>6, <1>13, SetList
  <2>2. Alone(t) /\ at'[t] = "language"
    BY <1>1, <1>2, <2>1 DEF Becomes, Alone, Typed
  <2>3. Locked'
    BY <1>1, <1>2, <2>2, LockStays DEF Looking, Alone
  <2>4. CASE list = <<>>
    <3>1. Becomes(t, local[t].domain, local[t].known, local[t].list, local[t].chain,
                  local[t].step, local[t].back, local[t].answer)
      BY <1>9, <2>1, <2>4 DEF list
    <3>2. ASSUME SameWay  PROVE Caller(t)'
      <4>1. Reached(t)' = Reached(t) /\ Key(t)' = Key(t)
        BY <1>2, <3>1, <3>2 DEF Reached, Becomes, SameWay, Key
      <4>2. Choosing(t)' /\ Past(t)'
        BY <1>2, <1>3, <3>1, <3>2, <4>1
           DEF Choosing, Past, NoneUpTo, Rest, Becomes, SameWay
      <4>3. Knowing(t)' /\ Silent(t)'
        BY <1>2, <1>3, <2>2, <3>1, <4>1 DEF Becomes, Knowing, Silent, Untranslated
      <4> QED
        BY <2>2, <4>2, <4>3
           DEF Caller, Starting, InLanguage, InChain, Returning, Loads, Answers, Walking,
               Loading, Reading
    <3> QED
      BY <1>2, <2>2, <2>3, <3>2, QuietStays DEF Quiet, Reading
  <2>5. CASE list # <<>>
    <3>1. ~ Allowed(Reached(t) + 1) /\ ~ Tried(Reached(t) + 1)
      BY <1>8, <1>13, <2>5 DEF Tried
    <3>2. NoCUpTo(Reached(t) + 1)
      BY <1>3, <1>4, <3>1, NoCUpToNext
    <3>3. NoneUpTo(t, (Reached(t) + 1) + 1, 1)
      BY <1>1, <1>3, <1>7, <2>5, <3>1, NoneBeforeNextLanguage DEF NoneUpTo
    <3>4. ASSUME SameWay  PROVE Caller(t)'
      <4>1. /\ Reached(t)' = Reached(t) + 1
            /\ Starting(t)' /\ Silent(t)' /\ Knowing(t)' /\ Choosing(t)'
            /\ InChain(t)' /\ Returning(t)' /\ Loads(t)' /\ Answers(t)'
        BY <1>12, <2>1, <2>2, <2>5, <3>2, <3>4
      <4>2. Past(t)'
        BY <1>2, <2>1, <3>3, <3>4, <4>1 DEF Past, NoneUpTo, Becomes, SameWay
      <4>3. InLanguage(t)'
        BY <2>2 DEF InLanguage, Walking, Loading, Reading
      <4> QED
        BY <4>1, <4>2, <4>3 DEF Caller
    <3> QED
      BY <1>2, <2>2, <2>3, <3>4, QuietStays DEF Quiet, Reading
  <2> QED
    BY <2>2, <2>4, <2>5
<1>14. CASE ~ skips /\ name \in Untranslating
  <2>1. To(t, "answer") /\ UNCHANGED local
    BY <1>6, <1>14
  <2>2. Alone(t) /\ at'[t] = "answer"
    BY <1>1, <1>2, <2>1, SameLocals, MovesAlone DEF LookupPlaces
  <2>3. Locked'
    BY <1>1, <1>2, <2>2, LockStays DEF Looking, Alone
  <2>4. LookupInv'
    BY <1>2, <2>2, <2>3, QuietStays, NothingToKeep DEF Quiet, Reading
  <2>5. ASSUME NEW k \in DOMAIN guess_category_value, k >= Reached(t) + 1  PROVE ~ Tried(k)
    <3>1. k \in 1 .. Count
      BY <1>1, LanguagesTyped
    <3>2. list # <<>>
      BY <1>4, <1>5, <2>5, <3>1
    <3>3. /\ Allowed(Reached(t) + 1) /\ guess_category_value[Reached(t) + 1] \in Untranslating
          /\ Reached(t) + 1 \in 1 .. k
      BY <1>4, <1>7, <1>8, <1>14, <2>5, <3>1, <3>2
    <3> QED
      BY <3>3 DEF Tried
  <2>6. env.failures \/ NoneBefore(local[t].domain, call[t].msgid, Count + 1, 1)
    <3>1. Reached(t) + 1 \in Nat
      BY <1>4
    <3> QED
      BY <1>1, <1>3, <2>5, <3>1, NoneBeforeEnd DEF NoneUpTo
  <2> QED
    BY <1>3, <2>1, <2>4, <2>6 DEF IsCurrent, IsUntranslated, Count
<1>15. CASE ~ skips /\ name \notin Untranslating
  <2>1. /\ To(t, "file")
        /\ Becomes(t, local[t].domain, local[t].known, rest, <<name>>, local[t].step,
                   local[t].back, local[t].answer)
    BY <1>1, <1>6, <1>15, SetListAndChain
  <2>2. Alone(t) /\ at'[t] = "file"
    BY <1>1, <1>2, <2>1, MovesAlone DEF LookupPlaces
  <2>3. Locked'
    BY <1>1, <1>2, <2>2, LockStays DEF Looking, Alone
  <2>4. list # <<>>
    BY <1>9, <1>10, <1>15
  <2>5. /\ Allowed(Reached(t) + 1) /\ name = guess_category_value[Reached(t) + 1]
        /\ NoCUpTo(Reached(t) + 1)
    BY <1>3, <1>4, <1>7, <1>8, <1>15, <2>4, NoCUpToNext
  <2>6. ASSUME SameWay  PROVE Caller(t)'
    <3>1. /\ Reached(t)' = Reached(t) + 1
          /\ Starting(t)' /\ Silent(t)' /\ Knowing(t)' /\ Choosing(t)'
          /\ InChain(t)' /\ Returning(t)' /\ Loads(t)' /\ Answers(t)'
      BY <1>12, <2>1, <2>2, <2>4, <2>5, <2>6
    <3>2. local'[t].chain[1] = name
      BY <2>1 DEF Becomes
    <3>3. InLanguage(t)'
      BY <1>2, <1>3, <2>1, <2>5, <2>6, <3>1, <3>2 DEF InLanguage, NoneUpTo, Becomes, SameWay
    <3>4. Past(t)'
      BY <2>2 DEF Past
    <3> QED
      BY <3>1, <3>3, <3>4 DEF Caller
  <2> QED
    BY <1>2, <2>2, <2>3, <2>6, QuietStays DEF Quiet, Reading
<1> QED
  BY <1>13, <1>14, <1>15
-----------------------------------------------------------------------------
(***************************************************************************)
(* Steps that change the files or the known translations.                  *)
(***************************************************************************)
LEMMA StepStays ==
  ASSUME LookupInv, NEW t \in Callers, Alone(t), SameWay, loader' \in Callers \cup {Nil},
         Locked', FilesOK', ConversionsOK', CacheOK', Caller(t)',
         \A u \in Callers \ {t} : Undisturbed(u)
  PROVE  LookupInv'
<1>1. Typed /\ Typed'
  BY TypedStays DEF LookupInv
<1>2. ASSUME NEW u \in Callers \ {t}  PROVE Caller(u)'
  <2>1. at'[u] = at[u] /\ local'[u] = local[u] /\ call'[u] = call[u]
    BY DEF Alone
  <2> QED
    BY <1>1, <2>1, OthersStay DEF LookupInv
<1> QED
  BY <1>1, <1>2 DEF LookupInv

LEMMA ConversionsStay ==
  ASSUME LookupInv, SameWay, UNCHANGED conversions
  PROVE  ConversionsOK'
  BY DEF LookupInv, ConversionsOK, Outcomes, Conversion, Opens, SameWay

LEMMA CacheStays ==
  ASSUME LookupInv, NEW t \in Callers, Alone(t), SameWay, UNCHANGED root, at[t] # "update"
  PROVE  CacheOK'
<1>1. \A k : Torn(k) => Torn(k)'
  BY TornStays DEF LookupInv
<1> QED
  BY <1>1 DEF LookupInv, CacheOK, SameWay

(* The thread that loads a file, if there is one, is still at it.           *)
StillLoads ==
  loader # Nil => /\ loader' = loader /\ at'[loader] \in Reading
                  /\ Current(loader)' = Current(loader)

LEMMA LoaderStays ==
  ASSUME LookupInv, NEW t \in Callers, Alone(t), UNCHANGED loader,
         at[t] \notin Reading \/ (at'[t] \in Reading /\ Current(t)' = Current(t))
  PROVE  StillLoads
<1>1. ASSUME loader # Nil  PROVE at'[loader] \in Reading /\ Current(loader)' = Current(loader)
  <2>1. loader \in Callers /\ at[loader] \in Reading
    BY <1>1 DEF LookupInv, Typed, FilesOK
  <2>2. CASE loader = t
    BY <2>1, <2>2
  <2>3. CASE loader # t
    BY <2>1, <2>3 DEF Alone, Current
  <2> QED
    BY <2>2, <2>3
<1> QED
  BY <1>1 DEF StillLoads

(* Files that are there keep what they need; others may come.               *)
LEMMA FilesStay ==
  ASSUME LookupInv, SameWay, UNCHANGED <<data, loader>>, StillLoads,
         DOMAIN conversions \subseteq DOMAIN conversions',
         \A f \in DOMAIN decided : f \in DOMAIN decided' /\ decided'[f] = decided[f],
         \A f \in DOMAIN decided' \ DOMAIN decided :
           decided'[f] = 0 /\ Name(f) \in Plain /\ Behind(f) \subseteq DOMAIN decided'
  PROVE  FilesOK'
<1>1. loader # Nil => at'[loader] \in Reading
  BY DEF StillLoads
<1>2. ASSUME NEW f \in DOMAIN decided'
      PROVE  /\ decided'[f] \in {-1, 0, 1}
             /\ Name(f)' \in Plain' /\ Behind(f)' \subseteq DOMAIN decided'
             /\ decided'[f] = -1 => loader' \in Callers /\ at'[loader'] \in Reading
                                    /\ Current(loader)' = f
             /\ decided'[f] = 1 => env'.failures \/ f \in data' \/ ~ CatalogOf(f)'.valid
  <2>1. Name(f)' = Name(f) /\ Plain' = Plain /\ Behind(f)' = Behind(f)
        /\ CatalogOf(f)' = CatalogOf(f) /\ env' = env
    BY DEF SameWay, Name
  <2>2. CASE f \in DOMAIN decided
    <3>1. decided'[f] = decided[f]
      BY <2>2
    <3>2. /\ decided[f] \in {-1, 0, 1} /\ Name(f) \in Plain /\ Behind(f) \subseteq DOMAIN decided
          /\ decided[f] = -1 => loader \in Callers /\ at[loader] \in Reading /\ Current(loader) = f
          /\ decided[f] = 1 => env.failures \/ f \in data \/ ~ CatalogOf(f).valid
      BY <2>2 DEF LookupInv, FilesOK
    <3>3. decided[f] = -1 => loader # Nil
      BY <3>2, CallersAssumption
    <3> QED
      BY <2>1, <3>1, <3>2, <3>3 DEF StillLoads
  <2>3. CASE f \notin DOMAIN decided
    <3>1. decided'[f] = 0 /\ Name(f) \in Plain /\ Behind(f) \subseteq DOMAIN decided'
      BY <2>3
    <3> QED
      BY <2>1, <3>1
  <2> QED
    BY <2>2, <2>3
<1>3. \A f \in data' : CatalogOf(f)'.valid /\ f \in DOMAIN conversions'
  BY DEF LookupInv, FilesOK, SameWay
<1> QED
  BY <1>1, <1>2, <1>3 DEF FilesOK

(* Where t does not read, what it leaves of the files disturbs nobody.      *)
LEMMA OthersUndisturbed ==
  ASSUME UNCHANGED <<root, data, loader>>, SameWay,
         \A f \in DOMAIN decided : f \in DOMAIN decided' /\ decided'[f] = decided[f],
         LookupInv, NEW u \in Callers
  PROVE  Undisturbed(u)
<1>1. at[u] \in Reading => Current(u) \in DOMAIN decided
  <2>1. at[u] \in Reading => /\ local[u].step \in DOMAIN local[u].chain
                             /\ Range(local[u].chain) \subseteq DOMAIN decided
    BY DEF LookupInv, Caller, InChain, Loading
  <2> QED
    BY <2>1 DEF Current, Range
<1> QED
  BY <1>1 DEF Undisturbed, SameWay
-----------------------------------------------------------------------------
(***************************************************************************)
(* The files of a language.                                                *)
(***************************************************************************)
LEMMA ChainFirst ==
  ASSUME Typed, NEW domain, NEW name
  PROVE  Chain(domain, name)[1] = FileOf(BindingOf(domain).dir, name, domain)
<1> DEFINE names == <<name>> \o IF name \in DOMAIN env.successors
                                  THEN env.successors[name] ELSE <<>>
<1>1. names[1] = name /\ 1 \in DOMAIN names
  <2>1. CASE name \in DOMAIN env.successors
    <3>1. PICK behind \in Seq(Locales \ DOMAIN env.aliases) : behind = env.successors[name]
      BY <2>1, SetupAssumption DEF Typed
    <3>2. names = <<name>> \o behind
      BY <2>1, <3>1
    <3> QED
      BY <3>1, <3>2
  <2>2. CASE name \notin DOMAIN env.successors
    BY <2>2
  <2> QED
    BY <2>1, <2>2
<1>2. Chain(domain, name) = [i \in DOMAIN names |-> FileOf(BindingOf(domain).dir, names[i], domain)]
  BY DEF Chain
<1> QED
  BY <1>1, <1>2

(* A thread at "file" or "make" knows its language.                         *)
LEMMA LanguageOf ==
  ASSUME LookupInv, NEW t \in Callers, at[t] \in {"file", "make"}
  PROVE  /\ Reached(t) \in DOMAIN guess_category_value
         /\ local[t].chain[1] = guess_category_value[Reached(t)]
         /\ local[t].chain[1] \in Locales
<1>1. Allowed(Reached(t)) /\ local[t].chain[1] = guess_category_value[Reached(t)]
  BY DEF LookupInv, Caller, InLanguage, Walking
<1> QED
  BY <1>1, LanguagesTyped DEF Allowed, LookupInv

(* A lookup that goes on inside its language.                               *)
LEMMA GoesOn ==
  ASSUME LookupInv, NEW t \in Callers, at[t] \in Walking, at'[t] \in Loading, SameWay,
         NEW chain, NEW step, NEW back, UNCHANGED call, DOMAIN root \subseteq DOMAIN root',
         Becomes(t, local[t].domain, local[t].known, local[t].list, chain, step, back,
                 local[t].answer)
  PROVE  /\ Reached(t)' = Reached(t) /\ Key(t)' = Key(t)
         /\ Starting(t)' /\ Silent(t)' /\ Knowing(t)' /\ Choosing(t)' /\ Past(t)'
         /\ InLanguage(t)' /\ Answers(t)'
         /\ \A j : NoneUpTo(t, Reached(t), j) => NoneUpTo(t, Reached(t), j)'
<1>1. Reached(t)' = Reached(t) /\ Key(t)' = Key(t)
  BY DEF Reached, Becomes, SameWay, Key
<1>2. /\ local[t].answer = Untranslated /\ ~ Unresolvable(local[t].domain)
      /\ Rest(t) /\ NoCUpTo(Reached(t)) /\ (local[t].known => Key(t) \in DOMAIN root)
      /\ Allowed(Reached(t)) /\ NoneUpTo(t, Reached(t), 1)
  BY DEF LookupInv, Caller, Silent, Choosing, Knowing, InLanguage
<1>3. Choosing(t)'
  BY <1>1, <1>2 DEF Choosing, Rest, Becomes, SameWay
<1>4. Knowing(t)' /\ Silent(t)'
  BY <1>1, <1>2 DEF Becomes, Knowing, Silent, Untranslated, Loading, Reading
<1>5. \A j : NoneUpTo(t, Reached(t), j) => NoneUpTo(t, Reached(t), j)'
  BY <1>1 DEF NoneUpTo, Becomes, SameWay
<1>6. InLanguage(t)'
  <2>1. NoneUpTo(t, Reached(t), 1)'
    BY <1>2, <1>5
  <2> QED
    BY <1>1, <1>2, <2>1 DEF InLanguage, SameWay, Loading, Reading
<1> QED
  BY <1>1, <1>3, <1>4, <1>5, <1>6 DEF Starting, Past, Answers, Loading, Reading

LEMMA FindFileStays ==
  ASSUME LookupInv, NEW t \in Callers, FindFile(t)
  PROVE  LookupInv'
<1> DEFINE name  == local[t].chain[1]
           chain == Chain(local[t].domain, name)
<1>1. Typed /\ Locked /\ Caller(t)
  BY DEF LookupInv
<1>2. /\ UNCHANGED <<env, call, settings>> /\ UNCHANGED <<root, files>>
      /\ at[t] = "file" /\ state_lock' = state_lock
  BY DEF FindFile, Frame
<1>3. /\ Reached(t) \in DOMAIN guess_category_value
      /\ name = guess_category_value[Reached(t)] /\ name \in Locales
  BY <1>2, LanguageOf
<1>4. CASE chain[1] \in DOMAIN decided
  <2>1. /\ Set(t, [local[t] EXCEPT !.chain = chain, !.step = 1]) /\ To(t, "load")
    BY <1>4 DEF FindFile
  <2>2. Becomes(t, local[t].domain, local[t].known, local[t].list, chain, 1,
                local[t].back, local[t].answer)
    BY <1>1, <2>1, SetChainAndStep
  <2>3. Alone(t) /\ at'[t] = "load"
    BY <1>1, <1>2, <2>1, <2>2, MovesAlone DEF LookupPlaces
  <2>4. Locked'
    BY <1>1, <1>2, <2>3, LockStays DEF Looking, Alone
  <2>5. name \in Plain /\ Behind(chain[1]) \subseteq DOMAIN decided
    <3>1. chain[1] = FileOf(BindingOf(local[t].domain).dir, name, local[t].domain)
      BY <1>1, ChainFirst
    <3>2. Name(chain[1]) = name
      BY <3>1 DEF Name, FileOf
    <3> QED
      BY <1>4, <3>2 DEF LookupInv, FilesOK
  <2>6. chain = Forms(local[t].domain, Reached(t)) /\ IsChain(chain, local[t].domain, name)
    BY <1>1, <1>3, <2>5, PlainExpands, ChainOfPlain DEF Forms
  <2>7. 1 \in DOMAIN chain /\ Range(chain) \subseteq DOMAIN decided
    <3> HIDE DEF chain
    <3>1. 1 \in DOMAIN chain /\ Range(chain) \subseteq {chain[1]} \cup Behind(chain[1])
      BY <2>6 DEF IsChain
    <3> QED
      BY <1>4, <2>5, <3>1
  <2>8. ASSUME SameWay  PROVE Caller(t)'
    <3>1. /\ Reached(t)' = Reached(t)
          /\ Starting(t)' /\ Silent(t)' /\ Knowing(t)' /\ Choosing(t)' /\ Past(t)'
          /\ InLanguage(t)' /\ Answers(t)'
      BY <1>2, <2>2, <2>3, <2>8, GoesOn DEF Walking, Loading
    <3>2. InChain(t)'
      BY <1>2, <2>2, <2>6, <2>7, <2>8, <3>1 DEF InChain, Becomes, SameWay, files
    <3> QED
      BY <2>3, <3>1, <3>2 DEF Caller, Returning, Loads, Reading
  <2> QED
    BY <1>2, <2>3, <2>4, <2>8, QuietStays DEF Quiet, Reading
<1>5. CASE chain[1] \notin DOMAIN decided
  <2>1. To(t, "make") /\ UNCHANGED local
    BY <1>5 DEF FindFile
  <2>2. Alone(t) /\ at'[t] = "make"
    BY <1>1, <1>2, <2>1, SameLocals, MovesAlone DEF LookupPlaces
  <2>3. Locked'
    BY <1>1, <1>2, <2>2, LockStays DEF Looking, Alone
  <2>4. ASSUME SameWay  PROVE Caller(t)'
    <3>1. Reached(t)' = Reached(t) /\ Key(t)' = Key(t)
      BY <1>2, <2>1, <2>4 DEF Reached, SameWay, Key
    <3>2. Choosing(t)'
      BY <1>1, <1>2, <2>1, <2>4, <3>1 DEF Caller, Choosing, Rest, SameWay, Walking
    <3>3. Knowing(t)' /\ Silent(t)'
      BY <1>1, <1>2, <2>1, <2>2, <3>1 DEF Caller, Knowing, Silent, Untranslated, Walking
    <3>4. InLanguage(t)'
      BY <1>1, <1>2, <2>1, <2>4, <3>1
         DEF Caller, InLanguage, NoneUpTo, SameWay, Walking
    <3> QED
      BY <2>2, <3>2, <3>3, <3>4
         DEF Caller, Starting, Past, InChain, Returning, Loads, Answers, Loading, Reading
  <2> QED
    BY <1>2, <2>2, <2>3, <2>4, QuietStays DEF Quiet, Reading
<1> QED
  BY <1>4, <1>5

(* A language given up: the next one is to come after it.                   *)
LEMMA GivesUp ==
  ASSUME LookupInv, NEW t \in Callers, at[t] \in Walking, at'[t] = "language", SameWay,
         UNCHANGED <<call, local>>, DOMAIN root \subseteq DOMAIN root',
         NoneUpTo(t, Reached(t) + 1, 1)
  PROVE  Caller(t)'
<1>1. Reached(t)' = Reached(t) /\ Key(t)' = Key(t)
  BY DEF Reached, SameWay, Key
<1>2. Choosing(t)' /\ Past(t)'
  BY <1>1 DEF LookupInv, Caller, Choosing, Past, Rest, SameWay, NoneUpTo
<1>3. Knowing(t)' /\ Silent(t)'
  BY <1>1 DEF LookupInv, Caller, Knowing, Silent, Untranslated
<1> QED
  BY <1>2, <1>3
     DEF Caller, Starting, InLanguage, InChain, Returning, Loads, Answers, Walking, Loading,
         Reading

LEMMA MakeFilesStays ==
  ASSUME LookupInv, NEW t \in Callers, MakeFiles(t)
  PROVE  LookupInv'
<1> DEFINE name  == local[t].chain[1]
           chain == Chain(local[t].domain, Expand(name))
<1>1. Typed /\ Locked /\ Caller(t)
  BY DEF LookupInv
<1>2. /\ UNCHANGED <<env, call, settings>> /\ UNCHANGED <<root, data, loader, conversions>>
      /\ at[t] = "make" /\ state_lock' = state_lock
  BY DEF MakeFiles, Frame
<1>3. SameWay
  BY <1>2, WayStays
<1>4. /\ Reached(t) \in DOMAIN guess_category_value
      /\ name = guess_category_value[Reached(t)] /\ name \in Locales
  BY <1>2, LanguageOf
<1>5. CASE /\ decided' = Extended(decided, Range(chain), 0)
           /\ Set(t, [local[t] EXCEPT !.chain = chain, !.step = 1])
           /\ To(t, "load")
  <2>1. Becomes(t, local[t].domain, local[t].known, local[t].list, chain, 1,
                local[t].back, local[t].answer)
    BY <1>1, <1>5, SetChainAndStep
  <2>2. Alone(t) /\ at'[t] = "load"
    BY <1>1, <1>2, <1>5, <2>1, MovesAlone DEF LookupPlaces
  <2>3. Locked'
    BY <1>1, <1>2, <2>2, LockStays DEF Looking, Alone
  <2>4. chain = Forms(local[t].domain, Reached(t)) /\ IsChain(chain, local[t].domain, Expand(name))
    BY <1>1, <1>4, ExpandedIsPlain, ChainOfPlain DEF Forms
  <2>5. /\ DOMAIN decided' = DOMAIN decided \cup Range(chain)
        /\ \A f \in DOMAIN decided : decided'[f] = decided[f]
        /\ \A f \in Range(chain) \ DOMAIN decided : decided'[f] = 0
    <3>1. PICK new : new = Range(chain) /\ decided' = Extended(decided, new, 0)
      BY <1>5
    <3> HIDE DEF chain
    <3>2. /\ DOMAIN Extended(decided, new, 0) = DOMAIN decided \cup new
          /\ \A f \in DOMAIN decided : Extended(decided, new, 0)[f] = decided[f]
          /\ \A f \in new \ DOMAIN decided : Extended(decided, new, 0)[f] = 0
      BY ExtendedAt
    <3> QED
      BY <3>1, <3>2
  <2>6. FilesOK'
    <3>1. StillLoads
      BY <1>2, <2>2, LoaderStays DEF Reading
    <3> QED
      BY <1>2, <1>3, <2>4, <2>5, <3>1, FilesStay DEF IsChain
  <2>7. ConversionsOK' /\ CacheOK'
    BY <1>2, <1>3, <2>2, ConversionsStay, CacheStays
  <2>8. Caller(t)'
    <3>1. /\ Reached(t)' = Reached(t)
          /\ Starting(t)' /\ Silent(t)' /\ Knowing(t)' /\ Choosing(t)' /\ Past(t)'
          /\ InLanguage(t)' /\ Answers(t)'
      BY <1>2, <1>3, <2>1, <2>2, GoesOn DEF Walking, Loading
    <3>2. 1 \in DOMAIN chain /\ Range(chain) \subseteq DOMAIN decided'
      <4> HIDE DEF chain
      <4>1. 1 \in DOMAIN chain
        BY <2>4 DEF IsChain
      <4> QED
        BY <2>5, <4>1
    <3>3. InChain(t)'
      BY <1>2, <1>3, <2>1, <2>4, <3>1, <3>2 DEF InChain, Becomes, SameWay
    <3> QED
      BY <2>2, <3>1, <3>3 DEF Caller, Returning, Loads, Reading
  <2>9. \A u \in Callers : Undisturbed(u)
    BY <1>2, <1>3, <2>5, OthersUndisturbed
  <2> QED
    BY <1>1, <1>2, <1>3, <2>2, <2>3, <2>6, <2>7, <2>8, <2>9, StepStays DEF Typed
<1>6. CASE env.failures /\ To(t, "language") /\ UNCHANGED <<local, decided>>
  <2>1. Alone(t) /\ at'[t] = "language"
    BY <1>1, <1>2, <1>6, SameLocals, MovesAlone DEF LookupPlaces
  <2>2. Locked'
    BY <1>1, <1>2, <2>1, LockStays DEF Looking, Alone
  <2>3. Caller(t)'
    BY <1>2, <1>3, <1>6, <2>1, GivesUp DEF NoneUpTo, Walking
  <2> QED
    BY <1>2, <1>6, <2>1, <2>2, <2>3, QuietStays DEF Quiet, Reading, files
<1> QED
  BY <1>2, <1>5, <1>6 DEF MakeFiles

(* The place of a thread in its chain of files.                             *)
LEMMA PlaceInChain ==
  ASSUME LookupInv, NEW t \in Callers, at[t] \in Loading
  PROVE  /\ local[t].chain = Forms(local[t].domain, Reached(t))
         /\ Reached(t) \in DOMAIN guess_category_value
         /\ Len(local[t].chain) \in Nat /\ DOMAIN local[t].chain = 1 .. Len(local[t].chain)
         /\ local[t].step \in DOMAIN local[t].chain /\ 1 \in DOMAIN local[t].chain
         /\ Range(local[t].chain) \subseteq DOMAIN decided
         /\ Current(t) \in DOMAIN decided
         /\ ~ AtEnd(t) => local[t].step + 1 \in DOMAIN local[t].chain
<1>1. /\ local[t].chain = Forms(local[t].domain, Reached(t))
      /\ local[t].step \in DOMAIN local[t].chain
      /\ Range(local[t].chain) \subseteq DOMAIN decided
  BY DEF LookupInv, Caller, InChain
<1>2. Reached(t) \in DOMAIN guess_category_value
  BY DEF LookupInv, Caller, InLanguage, Walking, Allowed
<1>3. /\ Len(local[t].chain) \in Nat /\ DOMAIN local[t].chain = 1 .. Len(local[t].chain)
      /\ Len(local[t].chain) >= 1
  BY <1>1, <1>2, FormsCount DEF LookupInv
<1>4. Current(t) \in DOMAIN decided
  BY <1>1 DEF Current, Range
<1>5. ~ AtEnd(t) => local[t].step + 1 \in DOMAIN local[t].chain
  BY <1>1, <1>3 DEF AtEnd
<1> QED
  BY <1>1, <1>2, <1>3, <1>4, <1>5

(* A step from one file or place of the chain to another.                   *)
LEMMA ChainStays ==
  ASSUME LookupInv, NEW t \in Callers, at[t] \in Loading, at'[t] \in Loading, SameWay,
         UNCHANGED call, DOMAIN root \subseteq DOMAIN root',
         DOMAIN decided \subseteq DOMAIN decided',
         NEW step \in DOMAIN local[t].chain, NEW back,
         Becomes(t, local[t].domain, local[t].known, local[t].list, local[t].chain, step, back,
                 local[t].answer),
         Returning(t)', Loads(t)'
  PROVE  Caller(t)'
<1>1. /\ Reached(t)' = Reached(t)
      /\ Starting(t)' /\ Silent(t)' /\ Knowing(t)' /\ Choosing(t)' /\ Past(t)'
      /\ InLanguage(t)' /\ Answers(t)'
  BY GoesOn DEF Walking
<1>2. InChain(t)'
  BY <1>1 DEF InChain, Becomes, SameWay, LookupInv, Caller
<1> QED
  BY <1>1, <1>2 DEF Caller

LEMMA LoadFilesStays ==
  ASSUME LookupInv, NEW t \in Callers, LoadFiles(t)
  PROVE  LookupInv'
<1>1. Typed /\ Locked /\ Caller(t)
  BY DEF LookupInv
<1>2. /\ UNCHANGED <<env, call, settings>> /\ UNCHANGED <<root, files>>
      /\ at[t] = "load" /\ state_lock' = state_lock
  BY DEF LoadFiles, Frame
<1>3. SameWay /\ decided' = decided /\ DOMAIN root \subseteq DOMAIN root'
  BY <1>2, WayStays DEF files
<1>4. at[t] \in Loading
  BY <1>2 DEF Loading
<1>5. /\ local[t].step \in DOMAIN local[t].chain /\ 1 \in DOMAIN local[t].chain
      /\ ~ AtEnd(t) => local[t].step + 1 \in DOMAIN local[t].chain
  BY <1>4, PlaceInChain
<1>6. CASE decided[Current(t)] <= 0
  <2>1. Set(t, [local[t] EXCEPT !.back = "load"]) /\ To(t, "await")
    BY <1>6 DEF LoadFiles
  <2>2. Becomes(t, local[t].domain, local[t].known, local[t].list, local[t].chain,
                local[t].step, "load", local[t].answer)
    BY <1>1, <2>1, SetBack
  <2>3. Alone(t) /\ at'[t] = "await"
    BY <1>1, <1>2, <2>1, <2>2, MovesAlone DEF LookupPlaces
  <2>4. Locked'
    BY <1>1, <1>2, <2>3, LockStays DEF Looking, Alone
  <2>5. Returning(t)' /\ Loads(t)'
    BY <2>2, <2>3 DEF Returning, Loads, Reading, Becomes
  <2>6. Caller(t)'
    BY <1>2, <1>3, <1>4, <1>5, <2>2, <2>3, <2>5, ChainStays DEF Loading
  <2> QED
    BY <1>2, <2>3, <2>4, <2>6, QuietStays DEF Quiet, Reading
<1>7. CASE ~ (decided[Current(t)] <= 0) /\ (Current(t) \in data \/ AtEnd(t))
  <2>1. Set(t, [local[t] EXCEPT !.step = 1]) /\ To(t, "search")
    BY <1>7 DEF LoadFiles
  <2>2. Becomes(t, local[t].domain, local[t].known, local[t].list, local[t].chain,
                1, local[t].back, local[t].answer)
    BY <1>1, <2>1, SetStep
  <2>3. Alone(t) /\ at'[t] = "search"
    BY <1>1, <1>2, <2>1, <2>2, MovesAlone DEF LookupPlaces
  <2>4. Locked'
    BY <1>1, <1>2, <2>3, LockStays DEF Looking, Alone
  <2>5. Returning(t)' /\ Loads(t)'
    <3>1. NoneUpTo(t, Reached(t), 1)
      BY <1>1, <1>4 DEF Caller, InLanguage, Walking
    <3>2. Reached(t)' = Reached(t) /\ NoneUpTo(t, Reached(t), 1)'
      BY <1>2, <1>3, <1>4, <2>2, <2>3, <3>1, GoesOn DEF Walking, Loading
    <3> QED
      BY <2>2, <2>3, <3>2 DEF Returning, Loads, Reading, Becomes
  <2>6. Caller(t)'
    BY <1>2, <1>3, <1>4, <1>5, <2>2, <2>3, <2>5, ChainStays DEF Loading
  <2> QED
    BY <1>2, <2>3, <2>4, <2>6, QuietStays DEF Quiet, Reading
<1>8. CASE ~ (decided[Current(t)] <= 0) /\ ~ (Current(t) \in data \/ AtEnd(t))
  <2>1. Set(t, [local[t] EXCEPT !.step = local[t].step + 1]) /\ UNCHANGED at
    BY <1>8 DEF LoadFiles
  <2>2. Becomes(t, local[t].domain, local[t].known, local[t].list, local[t].chain,
                local[t].step + 1, local[t].back, local[t].answer)
    BY <1>1, <2>1, SetStep
  <2>3. Alone(t) /\ at'[t] = "load"
    BY <1>1, <1>2, <2>1, <2>2 DEF Becomes, Alone, Typed
  <2>4. Locked'
    BY <1>1, <1>2, <2>3, LockStays DEF Looking, Alone
  <2>5. Returning(t)' /\ Loads(t)'
    BY <2>3 DEF Returning, Loads, Reading
  <2>6. Caller(t)'
    BY <1>2, <1>3, <1>4, <1>5, <1>8, <2>2, <2>3, <2>5, ChainStays DEF Loading
  <2> QED
    BY <1>2, <2>3, <2>4, <2>6, QuietStays DEF Quiet, Reading
<1> QED
  BY <1>6, <1>7, <1>8
-----------------------------------------------------------------------------
(***************************************************************************)
(* The loading of a file.                                                  *)
(***************************************************************************)
LEMMA LoadFirstStays ==
  ASSUME LookupInv, NEW t \in Callers, LoadFirst(t)
  PROVE  LookupInv'
<1>1. Typed /\ Locked /\ Caller(t)
  BY DEF LookupInv
<1>2. /\ UNCHANGED <<env, call, settings>> /\ UNCHANGED <<root, files>>
      /\ at[t] = "search" /\ state_lock' = state_lock
      /\ Set(t, [local[t] EXCEPT !.back = "search"]) /\ To(t, "await")
  BY DEF LoadFirst, Frame
<1>3. SameWay /\ decided' = decided /\ DOMAIN root \subseteq DOMAIN root'
  BY <1>2, WayStays DEF files
<1>4. at[t] \in Loading
  BY <1>2 DEF Loading
<1>5. local[t].step \in DOMAIN local[t].chain
  BY <1>4, PlaceInChain
<1>6. Becomes(t, local[t].domain, local[t].known, local[t].list, local[t].chain,
              local[t].step, "search", local[t].answer)
  BY <1>1, <1>2, SetBack
<1>7. Alone(t) /\ at'[t] = "await"
  BY <1>1, <1>2, <1>6, MovesAlone DEF LookupPlaces
<1>8. Locked'
  BY <1>1, <1>2, <1>7, LockStays DEF Looking, Alone
<1>9. Returning(t)' /\ Loads(t)'
  <2>1. NoneUpTo(t, Reached(t), local[t].step)
    BY <1>1, <1>2 DEF Caller, Returning
  <2>2. Reached(t)' = Reached(t) /\ NoneUpTo(t, Reached(t), local[t].step)'
    <3>1. PICK step : step = local[t].step
      OBVIOUS
    <3>2. local'[t].step = step
      BY <1>6, <3>1 DEF Becomes
    <3>3. Reached(t)' = Reached(t) /\ NoneUpTo(t, Reached(t), step)'
      BY <1>2, <1>3, <1>4, <1>6, <1>7, <2>1, <3>1, GoesOn DEF Walking, Loading
    <3> QED
      BY <3>2, <3>3 DEF NoneUpTo
  <2> QED
    BY <1>6, <1>7, <2>2 DEF Returning, Loads, Reading, Becomes
<1>10. Caller(t)'
  BY <1>2, <1>3, <1>4, <1>5, <1>6, <1>7, <1>9, ChainStays DEF Loading
<1> QED
  BY <1>2, <1>7, <1>8, <1>10, QuietStays DEF Quiet, Reading

(* One thread at a time loads.                                              *)
LEMMA OnlyReader ==
  ASSUME LookupInv, NEW t \in Callers, at[t] \in Reading
  PROVE  loader = t /\ decided[Current(t)] = -1 /\ \A u \in Callers \ {t} : at[u] \notin Reading
<1>1. \A u \in Callers : at[u] \in Reading => loader = u
  BY DEF LookupInv, Caller, Loads
<1> QED
  BY <1>1 DEF LookupInv, Caller, Loads

(* The place where a thread goes back to, the file being loaded.            *)
LEMMA GoesBack ==
  ASSUME LookupInv, NEW t \in Callers, at[t] \in {"await"} \cup Reading,
         at'[t] = local[t].back, SameWay, UNCHANGED <<call, local, root>>,
         DOMAIN decided \subseteq DOMAIN decided'
  PROVE  Caller(t)'
<1>1. Becomes(t, local[t].domain, local[t].known, local[t].list, local[t].chain,
              local[t].step, local[t].back, local[t].answer)
  BY SameLocals DEF LookupInv
<1>2. /\ local[t].back \in {"load", "search"}
      /\ local[t].back = "search" => NoneUpTo(t, Reached(t), local[t].step)
  BY DEF LookupInv, Caller, Returning
<1>3. at[t] \in Loading /\ at'[t] \in Loading
  BY <1>2 DEF Loading
<1>4. \A j : NoneUpTo(t, Reached(t), j) => NoneUpTo(t, Reached(t), j)'
  BY <1>1, <1>3, GoesOn DEF Walking
<1>5. Returning(t)' /\ Loads(t)'
  <2>1. local[t].back = "search" => NoneUpTo(t, Reached(t), local[t].step)'
    <3>1. PICK step : step = local[t].step
      OBVIOUS
    <3>2. local'[t].step = step
      BY <3>1
    <3>3. local[t].back = "search" => NoneUpTo(t, Reached(t), step)'
      BY <1>2, <1>4, <3>1
    <3> QED
      BY <3>2, <3>3 DEF NoneUpTo
  <2> QED
    BY <1>2, <2>1 DEF Returning, Loads, Reading
<1> QED
  BY <1>1, <1>3, <1>5, ChainStays, PlaceInChain

(* The place of a thread that comes to the file, or is at it.               *)
LEMMA StaysReading ==
  ASSUME LookupInv, NEW t \in Callers, at[t] \in {"await"} \cup Reading, at'[t] \in Reading,
         SameWay, UNCHANGED <<call, local, root>>, DOMAIN decided \subseteq DOMAIN decided',
         Loads(t)'
  PROVE  Caller(t)'
<1>1. Becomes(t, local[t].domain, local[t].known, local[t].list, local[t].chain,
              local[t].step, local[t].back, local[t].answer)
  BY SameLocals DEF LookupInv
<1>2. at[t] \in Loading /\ at'[t] \in Loading
  BY DEF Loading
<1>3. \A j : NoneUpTo(t, Reached(t), j) => NoneUpTo(t, Reached(t), j)'
  BY <1>1, <1>2, GoesOn DEF Walking
<1>4. /\ local[t].back \in {"load", "search"}
      /\ local[t].back = "search" => NoneUpTo(t, Reached(t), local[t].step)
  BY DEF LookupInv, Caller, Returning
<1>5. PICK step : step = local[t].step
  OBVIOUS
<1>6. local[t].back = "search" => NoneUpTo(t, Reached(t), step)'
  BY <1>3, <1>4, <1>5
<1>7. local[t].back = "search" => NoneUpTo(t, Reached(t), local[t].step)'
  BY <1>5, <1>6 DEF NoneUpTo
<1>8. Returning(t)'
  BY <1>4, <1>7 DEF Returning, Reading
<1> QED
  BY <1>1, <1>2, <1>8, ChainStays, PlaceInChain

LEMMA LoadDomainStays ==
  ASSUME LookupInv, NEW t \in Callers, _nl_load_domain(t)
  PROVE  LookupInv'
<1>1. Typed /\ Locked /\ Caller(t)
  BY DEF LookupInv
<1>2. /\ UNCHANGED <<env, call, settings>> /\ UNCHANGED <<root, local>>
      /\ at[t] = "await" /\ loader = Nil /\ state_lock' = state_lock
  BY DEF _nl_load_domain, Frame
<1>3. SameWay
  BY <1>2, WayStays
<1>4. at[t] \in Loading /\ Current(t) \in DOMAIN decided /\ local[t].step \in DOMAIN local[t].chain
  <2>1. at[t] \in Loading
    BY <1>2 DEF Loading
  <2> QED
    BY <2>1, PlaceInChain
<1>5. CASE decided[Current(t)] # 0
  <2>1. To(t, local[t].back) /\ UNCHANGED files
    BY <1>5 DEF _nl_load_domain
  <2>2. local[t].back \in {"load", "search"}
    BY <1>1, <1>2 DEF Caller, Returning
  <2>3. Alone(t) /\ at'[t] = local[t].back
    BY <1>1, <1>2, <2>1, <2>2, SameLocals, MovesAlone DEF LookupPlaces
  <2>4. Locked'
    BY <1>1, <1>2, <2>2, <2>3, LockStays DEF Looking, Alone
  <2>5. Caller(t)'
    BY <1>2, <1>3, <2>1, <2>3, GoesBack DEF files
  <2> QED
    BY <1>2, <2>1, <2>3, <2>4, <2>5, QuietStays DEF Quiet, Reading
<1>6. CASE decided[Current(t)] = 0
  <2> DEFINE file == Current(t)
  <2>1. /\ decided' = [decided EXCEPT ![file] = -1] /\ data' = data \ {file}
        /\ loader' = t /\ To(t, "read") /\ conversions' = conversions
    BY <1>6 DEF _nl_load_domain
  <2>2. Alone(t) /\ at'[t] = "read"
    BY <1>1, <1>2, <2>1, SameLocals, MovesAlone DEF LookupPlaces
  <2>3. Locked'
    BY <1>1, <1>2, <2>2, LockStays DEF Looking, Alone
  <2>4. Current(t)' = Current(t)
    BY <1>2 DEF Current
  <2>5. /\ DOMAIN decided' = DOMAIN decided /\ decided'[Current(t)] = -1
        /\ \A f \in DOMAIN decided \ {file} : decided'[f] = decided[f]
    BY <1>4, <2>1
  <2>6. \A u \in Callers : at[u] \notin Reading
    BY <1>2, CallersAssumption, OnlyReader
  <2>7. FilesOK'
    <3>1. \A f : Behind(f)' = Behind(f) /\ Plain' = Plain /\ CatalogOf(f)' = CatalogOf(f)
                 /\ env' = env
      BY <1>3 DEF SameWay
    <3>2. ASSUME NEW f \in DOMAIN decided'
          PROVE  /\ decided'[f] \in {-1, 0, 1}
                 /\ Name(f)' \in Plain' /\ Behind(f)' \subseteq DOMAIN decided'
                 /\ decided'[f] = -1 => loader' \in Callers /\ at'[loader'] \in Reading
                                        /\ Current(loader)' = f
                 /\ decided'[f] = 1 => env'.failures \/ f \in data' \/ ~ CatalogOf(f)'.valid
      <4>1. /\ decided[f] \in {-1, 0, 1} /\ Name(f) \in Plain /\ Behind(f) \subseteq DOMAIN decided
            /\ decided[f] = -1 => loader \in Callers
            /\ decided[f] = 1 => env.failures \/ f \in data \/ ~ CatalogOf(f).valid
        BY <2>5, <3>2 DEF LookupInv, FilesOK
      <4>2. Name(f)' \in Plain' /\ Behind(f)' \subseteq DOMAIN decided'
        BY <2>5, <3>1, <4>1 DEF Name
      <4>3. CASE f = file
        <5>1. decided'[f] = -1
          BY <2>5, <4>3
        <5>2. Current(loader)' = f /\ at'[loader'] \in Reading
          BY <2>1, <2>2, <2>4, <4>3 DEF Current, Reading
        <5> QED
          BY <2>1, <4>2, <5>1, <5>2
      <4>4. CASE f # file
        BY <1>2, <2>1, <2>5, <3>1, <3>2, <4>1, <4>2, <4>4, CallersAssumption
      <4> QED
        BY <4>3, <4>4
    <3>3. loader' # Nil => at'[loader'] \in Reading
      BY <2>1, <2>2 DEF Reading
    <3>4. \A f \in data' : CatalogOf(f)'.valid /\ f \in DOMAIN conversions'
      BY <2>1, <3>1 DEF LookupInv, FilesOK
    <3> QED
      BY <3>2, <3>3, <3>4 DEF FilesOK
  <2>8. ConversionsOK' /\ CacheOK'
    BY <1>2, <1>3, <2>1, <2>2, ConversionsStay, CacheStays
  <2>9. Caller(t)'
    <3>1. Loads(t)'
      BY <2>1, <2>2, <2>4, <2>5 DEF Loads
    <3> QED
      BY <1>2, <1>3, <2>2, <2>5, <3>1, StaysReading DEF Reading
  <2>10. \A u \in Callers \ {t} : Undisturbed(u)
    BY <1>2, <1>3, <2>5, <2>6 DEF Undisturbed, SameWay
  <2> QED
    BY <1>1, <1>2, <1>3, <2>1, <2>2, <2>3, <2>7, <2>8, <2>9, <2>10, StepStays DEF Typed
<1> QED
  BY <1>5, <1>6

(* The files, when the thread that loads one goes on with it.               *)
LEMMA FileGoesOn ==
  ASSUME LookupInv, NEW t \in Callers, at[t] \in Reading, at'[t] \in Reading, Alone(t),
         SameWay, UNCHANGED <<local, decided, loader>>, data \subseteq data',
         data' \subseteq data \cup {Current(t)}, DOMAIN conversions \subseteq DOMAIN conversions',
         Current(t) \in data' \ data =>
           CatalogOf(Current(t)).valid /\ Current(t) \in DOMAIN conversions'
  PROVE  FilesOK'
<1>1. loader = t
  BY OnlyReader
<1>2. Current(t)' = Current(t)
  BY DEF Current
<1>3. \A f : Behind(f)' = Behind(f) /\ Plain' = Plain /\ CatalogOf(f)' = CatalogOf(f)
             /\ env' = env
  BY DEF SameWay
<1>4. \A f \in DOMAIN decided' :
        /\ decided'[f] \in {-1, 0, 1}
        /\ Name(f)' \in Plain' /\ Behind(f)' \subseteq DOMAIN decided'
        /\ decided'[f] = -1 => loader' \in Callers /\ at'[loader'] \in Reading
                               /\ Current(loader)' = f
        /\ decided'[f] = 1 => env'.failures \/ f \in data' \/ ~ CatalogOf(f)'.valid
  <2>1. \A f \in DOMAIN decided :
          /\ decided[f] \in {-1, 0, 1} /\ Name(f) \in Plain /\ Behind(f) \subseteq DOMAIN decided
          /\ decided[f] = -1 => Current(t) = f
          /\ decided[f] = 1 => env.failures \/ f \in data \/ ~ CatalogOf(f).valid
    BY <1>1 DEF LookupInv, FilesOK
  <2>2. loader' \in Callers /\ at'[loader'] \in Reading /\ Current(loader)' = Current(t)
    BY <1>1, <1>2 DEF Current
  <2> QED
    BY <1>3, <2>1, <2>2 DEF Name
<1>5. loader' # Nil => at'[loader'] \in Reading
  BY <1>1
<1>6. \A f \in data' : CatalogOf(f)'.valid /\ f \in DOMAIN conversions'
  BY <1>3 DEF LookupInv, FilesOK
<1> QED
  BY <1>4, <1>5, <1>6 DEF FilesOK

LEMMA ReadFileStays ==
  ASSUME LookupInv, NEW t \in Callers, ReadFile(t)
  PROVE  LookupInv'
<1>1. Typed /\ Locked /\ Caller(t)
  BY DEF LookupInv
<1>2. /\ UNCHANGED <<env, call, settings>> /\ UNCHANGED <<root, local, decided, loader>>
      /\ at[t] = "read" /\ state_lock' = state_lock
  BY DEF ReadFile, Frame
<1>3. SameWay
  BY <1>2, WayStays
<1>4. /\ at[t] \in Reading /\ loader = t /\ decided[Current(t)] = -1
      /\ \A u \in Callers \ {t} : at[u] \notin Reading
  <2>1. at[t] \in Reading
    BY <1>2 DEF Reading
  <2> QED
    BY <2>1, OnlyReader
<1>5. PICK place \in {"header", "decide"} :
        /\ To(t, place)
        /\ \/ /\ place = "header" /\ CatalogOf(Current(t)).valid
              /\ data' = data \cup {Current(t)}
              /\ conversions' = Extended(conversions, {Current(t)}, <<>>)
           \/ /\ place = "decide" /\ (env.failures \/ ~ CatalogOf(Current(t)).valid)
              /\ UNCHANGED <<data, conversions>>
  BY DEF ReadFile
<1>6. Alone(t) /\ at'[t] = place
  BY <1>1, <1>2, <1>5, SameLocals, MovesAlone DEF LookupPlaces
<1>7. Locked'
  BY <1>1, <1>2, <1>6, LockStays DEF Looking, Alone
<1>8. CASE place = "header"
  <2>1. PICK new : new = {Current(t)}
    OBVIOUS
  <2>2. /\ DOMAIN conversions' = DOMAIN conversions \cup new
        /\ \A f \in DOMAIN conversions : conversions'[f] = conversions[f]
        /\ \A f \in new \ DOMAIN conversions : conversions'[f] = <<>>
    <3>1. conversions' = Extended(conversions, new, <<>>)
      BY <1>5, <1>8, <2>1
    <3>2. /\ DOMAIN Extended(conversions, new, <<>>) = DOMAIN conversions \cup new
          /\ \A f \in DOMAIN conversions : Extended(conversions, new, <<>>)[f] = conversions[f]
          /\ \A f \in new \ DOMAIN conversions : Extended(conversions, new, <<>>)[f] = <<>>
      BY ExtendedAt
    <3> QED
      BY <3>1, <3>2
  <2>3. data' = data \cup {Current(t)} /\ CatalogOf(Current(t)).valid
    BY <1>5, <1>8
  <2>4. FilesOK'
    BY <1>2, <1>3, <1>4, <1>6, <2>1, <2>2, <2>3, FileGoesOn DEF Reading
  <2>5. ConversionsOK'
    <3>1. \A f : \A e : Outcomes(f, e)' = Outcomes(f, e)
      BY <1>3 DEF Outcomes, Conversion, Opens, SameWay
    <3>2. \A e : e \notin DOMAIN <<>>
      OBVIOUS
    <3> QED
      BY <2>2, <3>1, <3>2 DEF LookupInv, ConversionsOK
  <2>6. CacheOK'
    BY <1>2, <1>3, <1>6, CacheStays
  <2>7. Loads(t)'
    <3>1. Current(t)' = Current(t)
      BY <1>2 DEF Current
    <3> QED
      BY <1>2, <1>4, <1>6, <1>8, <2>3, <3>1 DEF Loads
  <2>8. Caller(t)'
    BY <1>2, <1>3, <1>4, <1>6, <2>7, StaysReading DEF Reading
  <2>9. \A u \in Callers \ {t} : Undisturbed(u)
    BY <1>2, <1>3, <1>4 DEF Undisturbed, SameWay
  <2> QED
    BY <1>1, <1>2, <1>3, <1>6, <1>7, <2>4, <2>5, <2>6, <2>8, <2>9, StepStays DEF Typed
<1>9. CASE place = "decide"
  <2>1. UNCHANGED <<data, conversions>> /\ (env.failures \/ ~ CatalogOf(Current(t)).valid)
    BY <1>5, <1>9
  <2>2. FilesOK'
    BY <1>2, <1>3, <1>4, <1>6, <2>1, FileGoesOn DEF Reading
  <2>3. ConversionsOK' /\ CacheOK'
    BY <1>2, <1>3, <1>6, <2>1, ConversionsStay, CacheStays
  <2>4. Loads(t)'
    <3>1. Current(t)' = Current(t)
      BY <1>2 DEF Current
    <3> QED
      BY <1>2, <1>3, <1>4, <1>6, <1>9, <2>1, <3>1 DEF Loads, SameWay
  <2>5. Caller(t)'
    BY <1>2, <1>3, <1>4, <1>6, <2>4, StaysReading DEF Reading
  <2>6. \A u \in Callers \ {t} : Undisturbed(u)
    BY <1>2, <1>3, <1>4 DEF Undisturbed, SameWay
  <2> QED
    BY <1>1, <1>2, <1>3, <1>6, <1>7, <2>2, <2>3, <2>5, <2>6, StepStays DEF Typed
<1> QED
  BY <1>8, <1>9

LEMMA ReadHeaderStays ==
  ASSUME LookupInv, NEW t \in Callers, ReadHeader(t)
  PROVE  LookupInv'
<1>1. Typed /\ Locked /\ Caller(t)
  BY DEF LookupInv
<1>2. /\ UNCHANGED <<env, call, settings>>
      /\ UNCHANGED <<root, local, decided, data, loader, conversions>>
      /\ at[t] = "header" /\ To(t, "decide") /\ state_lock' = state_lock
  BY DEF ReadHeader, Frame, files
<1>3. SameWay
  BY <1>2, WayStays
<1>4. /\ at[t] \in Reading /\ loader = t /\ decided[Current(t)] = -1
      /\ \A u \in Callers \ {t} : at[u] \notin Reading
  <2>1. at[t] \in Reading
    BY <1>2 DEF Reading
  <2> QED
    BY <2>1, OnlyReader
<1>5. Alone(t) /\ at'[t] = "decide"
  BY <1>1, <1>2, SameLocals, MovesAlone DEF LookupPlaces
<1>6. Locked'
  BY <1>1, <1>2, <1>5, LockStays DEF Looking, Alone
<1>7. FilesOK'
  BY <1>2, <1>3, <1>4, <1>5, FileGoesOn DEF Reading
<1>8. ConversionsOK' /\ CacheOK'
  BY <1>2, <1>3, <1>5, ConversionsStay, CacheStays
<1>9. Loads(t)'
  <2>1. Current(t)' = Current(t)
    BY <1>2 DEF Current
  <2> QED
    BY <1>1, <1>2, <1>4, <1>5, <2>1 DEF Caller, Loads
<1>10. Caller(t)'
  BY <1>2, <1>3, <1>4, <1>5, <1>9, StaysReading DEF Reading
<1>11. \A u \in Callers \ {t} : Undisturbed(u)
  BY <1>2, <1>3, <1>4 DEF Undisturbed, SameWay
<1> QED
  BY <1>1, <1>2, <1>3, <1>5, <1>6, <1>7, <1>8, <1>10, <1>11, StepStays DEF Typed

LEMMA DecideStays ==
  ASSUME LookupInv, NEW t \in Callers, Decide(t)
  PROVE  LookupInv'
<1> DEFINE file == Current(t)
<1>1. Typed /\ Locked /\ Caller(t)
  BY DEF LookupInv
<1>2. /\ UNCHANGED <<env, call, settings>> /\ UNCHANGED <<root, local, data, conversions>>
      /\ at[t] = "decide" /\ To(t, local[t].back) /\ state_lock' = state_lock
      /\ decided' = [decided EXCEPT ![file] = 1] /\ loader' = Nil
  BY DEF Decide, Frame
<1>3. SameWay
  BY <1>2, WayStays
<1>4. /\ at[t] \in Reading /\ at[t] \in Loading /\ loader = t
      /\ \A u \in Callers \ {t} : at[u] \notin Reading
  <2>1. at[t] \in Reading /\ at[t] \in Loading
    BY <1>2 DEF Reading, Loading
  <2> QED
    BY <2>1, OnlyReader
<1>5. local[t].back \in {"load", "search"}
  BY <1>1, <1>2 DEF Caller, Returning, Reading
<1>6. Alone(t) /\ at'[t] = local[t].back
  BY <1>1, <1>2, <1>5, SameLocals, MovesAlone DEF LookupPlaces
<1>7. Locked'
  BY <1>1, <1>2, <1>5, <1>6, LockStays DEF Looking, Alone
<1>8. file \in DOMAIN decided
  BY <1>4, PlaceInChain
<1>9. /\ DOMAIN decided' = DOMAIN decided /\ decided'[file] = 1
      /\ \A f \in DOMAIN decided \ {file} : decided'[f] = decided[f]
  BY <1>2, <1>8
<1>10. FilesOK'
  <2>1. \A f : Behind(f)' = Behind(f) /\ Plain' = Plain /\ CatalogOf(f)' = CatalogOf(f)
               /\ env' = env
    BY <1>3 DEF SameWay
  <2>2. \A f \in DOMAIN decided :
          /\ decided[f] \in {-1, 0, 1} /\ Name(f) \in Plain /\ Behind(f) \subseteq DOMAIN decided
          /\ decided[f] = -1 => f = file
          /\ decided[f] = 1 => env.failures \/ f \in data \/ ~ CatalogOf(f).valid
    BY <1>4 DEF LookupInv, FilesOK
  <2>3. env.failures \/ file \in data \/ ~ CatalogOf(file).valid
    BY <1>1, <1>2 DEF Caller, Loads
  <2>4. \A f \in DOMAIN decided' :
          /\ decided'[f] \in {0, 1} /\ Name(f)' \in Plain' /\ Behind(f)' \subseteq DOMAIN decided'
          /\ decided'[f] = 1 => env'.failures \/ f \in data' \/ ~ CatalogOf(f)'.valid
    <3> HIDE DEF file
    <3> QED
      BY <1>2, <1>9, <2>1, <2>2, <2>3 DEF Name
  <2>5. \A f \in data' : CatalogOf(f)'.valid /\ f \in DOMAIN conversions'
    BY <1>2, <2>1 DEF LookupInv, FilesOK
  <2> QED
    BY <1>2, <2>4, <2>5 DEF FilesOK
<1>11. ConversionsOK' /\ CacheOK'
  BY <1>2, <1>3, <1>6, ConversionsStay, CacheStays
<1>12. Caller(t)'
  BY <1>2, <1>3, <1>4, <1>6, <1>9, GoesBack
<1>13. \A u \in Callers \ {t} : Undisturbed(u)
  BY <1>2, <1>3, <1>4, <1>9 DEF Undisturbed, SameWay
<1> QED
  BY <1>2, <1>3, <1>6, <1>7, <1>10, <1>11, <1>12, <1>13, StepStays
-----------------------------------------------------------------------------
(***************************************************************************)
(* The search of the files.                                                *)
(***************************************************************************)
(* Where a thread searches, and what it knows of what is before it.         *)
LEMMA SearchedSoFar ==
  ASSUME LookupInv, NEW t \in Callers, at[t] = "search"
  PROVE  /\ Reached(t) \in DOMAIN guess_category_value
         /\ local[t].chain = Forms(local[t].domain, Reached(t))
         /\ local[t].step \in DOMAIN Forms(local[t].domain, Reached(t))
         /\ Current(t) = Forms(local[t].domain, Reached(t))[local[t].step]
         /\ Current(t) \in DOMAIN decided
         /\ Tried(Reached(t)) /\ ~ Unresolvable(local[t].domain)
         /\ NoneUpTo(t, Reached(t), local[t].step) /\ local[t].answer = Untranslated
         /\ local[t].known => Key(t) \in DOMAIN root
<1>1. at[t] \in Loading /\ at[t] \in Walking
  BY DEF Loading, Walking
<1>2. /\ Reached(t) \in DOMAIN guess_category_value
      /\ local[t].chain = Forms(local[t].domain, Reached(t))
      /\ local[t].step \in DOMAIN local[t].chain /\ Current(t) \in DOMAIN decided
  BY <1>1, PlaceInChain
<1>3. /\ Allowed(Reached(t)) /\ NoCUpTo(Reached(t)) /\ ~ Unresolvable(local[t].domain)
      /\ NoneUpTo(t, Reached(t), local[t].step) /\ local[t].answer = Untranslated
      /\ local[t].known => Key(t) \in DOMAIN root
  BY <1>1 DEF LookupInv, Caller, InLanguage, Choosing, Returning, Silent, Knowing
<1>4. Tried(Reached(t))
  BY <1>3 DEF Tried, NoCUpTo
<1> QED
  BY <1>2, <1>3, <1>4 DEF Current

LEMMA NotHereStays ==
  ASSUME LookupInv, NEW t \in Callers, at[t] = "search", NotHere(t),
         UNCHANGED <<env, call, settings, root, decided>>,
         env.failures \/ ~ Serves(local[t].domain, call[t].msgid, Current(t))
  PROVE  Alone(t) /\ Looking(t)' /\ Caller(t)' /\ at'[t] # "answer"
<1> DEFINE domain == local[t].domain
           i      == Reached(t)
           j      == local[t].step
<1>1. Typed /\ Caller(t) /\ SameWay /\ DOMAIN root \subseteq DOMAIN root'
      /\ at[t] \in Loading /\ at[t] \in Walking
  BY WayStays DEF LookupInv, Loading, Walking
<1>2. /\ i \in DOMAIN guess_category_value /\ local[t].chain = Forms(domain, i)
      /\ j \in DOMAIN Forms(domain, i) /\ Current(t) = Forms(domain, i)[j]
      /\ NoneUpTo(t, i, j)
  BY SearchedSoFar
<1>3. NoneUpTo(t, i, j + 1)
  BY <1>1, <1>2, NoneBeforeNext DEF NoneUpTo
<1>4. CASE AtEnd(t)
  <2>1. To(t, "language") /\ UNCHANGED local
    BY <1>4 DEF NotHere
  <2>2. Alone(t) /\ at'[t] = "language"
    BY <1>1, <2>1, SameLocals, MovesAlone DEF LookupPlaces
  <2>3. NoneUpTo(t, i + 1, 1)
    BY <1>1, <1>2, <1>3, <1>4, NoneBeforeNextLanguage DEF NoneUpTo, AtEnd
  <2>4. Caller(t)'
    BY <1>1, <2>1, <2>2, <2>3, GivesUp
  <2> QED
    BY <2>2, <2>4 DEF Looking
<1>5. CASE ~ AtEnd(t)
  <2>1. Set(t, [local[t] EXCEPT !.step = j + 1]) /\ UNCHANGED at
    BY <1>5 DEF NotHere
  <2>2. PICK next : next = j + 1
    OBVIOUS
  <2>3. Becomes(t, local[t].domain, local[t].known, local[t].list, local[t].chain,
                next, local[t].back, local[t].answer)
    BY <1>1, <2>1, <2>2, SetStep
  <2>4. Alone(t) /\ at'[t] = "search"
    BY <1>1, <2>1, <2>3 DEF Becomes, Alone, Typed
  <2>5. next \in DOMAIN local[t].chain
    BY <1>1, <1>5, <2>2, PlaceInChain
  <2>6. Returning(t)' /\ Loads(t)'
    <3>1. NoneUpTo(t, i, next)
      BY <1>3, <2>2
    <3>2. NoneUpTo(t, i, next)'
      BY <1>1, <2>3, <2>4, <3>1, GoesOn
    <3>3. NoneUpTo(t, Reached(t), local[t].step)'
      BY <2>3, <3>2 DEF NoneUpTo, Becomes
    <3> QED
      BY <2>4, <3>3 DEF Returning, Loads, Reading
  <2>7. Caller(t)'
    BY <1>1, <2>3, <2>4, <2>5, <2>6, ChainStays
  <2> QED
    BY <2>4, <2>7 DEF Looking
<1> QED
  BY <1>4, <1>5

LEMMA CurrentHere ==
  ASSUME LookupInv, NEW t \in Callers, Found(t),
         NEW charset \in InCharset(local[t].domain, Current(t))
  PROVE  IsCurrent(Answer(Current(t), charset), local[t].domain, call[t].msgid)
<1> DEFINE domain == local[t].domain
           msgid  == call[t].msgid
<1>1. PICK i, j : i = Reached(t) /\ j = local[t].step
  OBVIOUS
<1>2. PICK file : file = Current(t)
  OBVIOUS
<1>3. /\ i \in DOMAIN guess_category_value /\ j \in DOMAIN Forms(domain, i)
      /\ file = Forms(domain, i)[j] /\ Tried(i) /\ ~ Unresolvable(domain)
      /\ env.failures \/ NoneBefore(domain, msgid, i, j)
  BY <1>1, <1>2, SearchedSoFar DEF Found, NoneUpTo
<1>4. Serves(domain, msgid, file)
  BY <1>2 DEF Found, Serves, LookupInv, FilesOK
<1>5. OnTheWay(domain, i, j)
  BY <1>3 DEF OnTheWay
<1>6. charset \in InCharset(domain, file)
  BY <1>2
<1>7. IsTranslated(Answer(file, charset), domain, msgid)
  BY <1>3, <1>4, <1>5, <1>6 DEF IsTranslated
<1> QED
  BY <1>2, <1>7 DEF IsCurrent

LEMMA TranslatedStays ==
  ASSUME LookupInv, NEW t \in Callers, at[t] = "search", NEW answer, Translated(t, answer),
         UNCHANGED <<env, call, settings, root>>,
         IsCurrent(answer, local[t].domain, call[t].msgid)
  PROVE  /\ Alone(t) /\ Looking(t)' /\ Caller(t)'
         /\ IsCurrent(local'[t].answer, local[t].domain, call[t].msgid)
<1>1. Typed /\ SameWay
  BY WayStays DEF LookupInv
<1>2. PICK place \in {"store", "answer"} : To(t, place)
  BY DEF Translated
<1>3. Becomes(t, local[t].domain, local[t].known, local[t].list, local[t].chain,
              local[t].step, local[t].back, answer)
  BY <1>1, SetAnswer DEF Translated
<1>4. Alone(t) /\ at'[t] = place
  BY <1>1, <1>2, <1>3, MovesAlone DEF LookupPlaces
<1>5. IsCurrent(local'[t].answer, local[t].domain, call[t].msgid)
  BY <1>3 DEF Becomes
<1>6. Answers(t)'
  BY <1>1, <1>3 DEF Answers, Becomes, SameWay
<1>7. Knowing(t)'
  <2>1. local[t].known => Key(t) \in DOMAIN root
    BY SearchedSoFar
  <2>2. Key(t)' = Key(t)
    BY <1>3 DEF Key, Becomes
  <2> QED
    BY <1>3, <1>4, <2>1, <2>2 DEF Knowing, Becomes
<1>8. Caller(t)'
  BY <1>4, <1>6, <1>7 DEF Caller, Starting, Silent, Choosing, Past, InLanguage, InChain,
     Returning, Loads, Walking, Loading, Reading
<1> QED
  BY <1>4, <1>5, <1>8 DEF Looking

LEMMA NotFoundStays ==
  ASSUME LookupInv, NEW t \in Callers, NotFound(t)
  PROVE  LookupInv' /\ at'[t] # "answer"
<1>1. /\ UNCHANGED <<env, call, settings, root, decided>> /\ UNCHANGED <<root, files>>
      /\ at[t] = "search" /\ state_lock' = state_lock /\ NotHere(t) /\ ~ Found(t)
      /\ decided[Current(t)] > 0
  BY DEF NotFound, Frame, files
<1>2. env.failures \/ ~ Serves(local[t].domain, call[t].msgid, Current(t))
  <2>1. Current(t) \in DOMAIN decided
    BY <1>1, SearchedSoFar
  <2>2. decided[Current(t)] = 1
    BY <1>1, <2>1 DEF LookupInv, FilesOK
  <2>3. env.failures \/ Current(t) \in data \/ ~ CatalogOf(Current(t)).valid
    BY <2>1, <2>2 DEF LookupInv, FilesOK
  <2> QED
    BY <1>1, <2>3 DEF Found, Serves
<1>3. Alone(t) /\ Looking(t)' /\ Caller(t)' /\ at'[t] # "answer"
  BY <1>1, <1>2, NotHereStays
<1>4. Locked'
  BY <1>1, <1>3, LockStays DEF Looking, Alone, LookupInv
<1> QED
  BY <1>1, <1>3, <1>4, QuietStays DEF Quiet, Reading

LEMMA UnconvertedStays ==
  ASSUME LookupInv, NEW t \in Callers, Unconverted(t)
  PROVE  LookupInv' /\ IsCurrent(local'[t].answer, local[t].domain, call[t].msgid)
<1> DEFINE charset == CatalogOf(Current(t)).charset
           answer  == Answer(Current(t), charset)
<1>1. /\ UNCHANGED <<env, call, settings, root>> /\ UNCHANGED <<root, files>>
      /\ at[t] = "search" /\ state_lock' = state_lock /\ Found(t) /\ ~ env.iconv
      /\ Translated(t, answer)
  BY DEF Unconverted, Found, Frame
<1>2. charset \in InCharset(local[t].domain, Current(t))
  BY <1>1 DEF InCharset
<1>3. IsCurrent(answer, local[t].domain, call[t].msgid)
  BY <1>1, <1>2, CurrentHere
<1>4. /\ Alone(t) /\ Looking(t)' /\ Caller(t)'
      /\ IsCurrent(local'[t].answer, local[t].domain, call[t].msgid)
  <2> HIDE DEF answer
  <2> QED
    BY <1>1, <1>3, TranslatedStays
<1>5. Locked'
  BY <1>1, <1>4, LockStays DEF Looking, Alone, LookupInv
<1> QED
  BY <1>1, <1>4, <1>5, QuietStays DEF Quiet, Reading

LEMMA OutOfMemoryStays ==
  ASSUME LookupInv, NEW t \in Callers, OutOfMemory(t)
  PROVE  LookupInv' /\ IsCurrent(local'[t].answer, local[t].domain, call[t].msgid)
<1>1. /\ UNCHANGED <<env, call, settings>> /\ UNCHANGED <<root, files>> /\ UNCHANGED local
      /\ at[t] = "search" /\ state_lock' = state_lock /\ env.failures /\ To(t, "answer")
  BY DEF OutOfMemory, Found, Frame
<1>2. Typed /\ Locked
  BY DEF LookupInv
<1>3. Alone(t) /\ at'[t] = "answer"
  BY <1>1, <1>2, SameLocals, MovesAlone DEF LookupPlaces
<1>4. Locked'
  BY <1>1, <1>2, <1>3, LockStays DEF Looking, Alone
<1>5. LookupInv'
  BY <1>1, <1>3, <1>4, QuietStays, NothingToKeep DEF Quiet, Reading
<1>6. local'[t].answer = Untranslated
  BY <1>1, SearchedSoFar
<1> QED
  BY <1>1, <1>5, <1>6 DEF IsCurrent, IsUntranslated

LEMMA ConvertStays ==
  ASSUME LookupInv, NEW t \in Callers, Convert(t)
  PROVE  /\ LookupInv' /\ Alone(t)
         /\ at'[t] = "answer" => IsCurrent(local'[t].answer, local[t].domain, call[t].msgid)
<1>1. PICK file, from, to :
        file = Current(t) /\ from = CatalogOf(file).charset /\ to = get_output_charset(local[t].domain)
  OBVIOUS
<1>2. /\ UNCHANGED <<env, call, settings, root, decided>>
      /\ UNCHANGED <<data, loader>> /\ Found(t) /\ env.iconv
      /\ at[t] = "search" /\ state_lock' = state_lock
  BY DEF Convert, Found, Frame
<1>3. PICK conv \in ConversionOf(file, to) :
        /\ conversions' = [conversions EXCEPT ![file] = Extended(conversions[file], {to}, conv)]
        /\ conv = "none" => Translated(t, Answer(file, from))
        /\ conv = "no table" => To(t, "answer") /\ UNCHANGED local
        /\ conv = "iconv" /\ Converts(from, to) => Translated(t, Answer(file, to))
        /\ conv = "iconv" /\ ~ Converts(from, to) => NotHere(t)
  <2>1. PICK conv \in ConversionOf(Current(t), get_output_charset(local[t].domain)) :
          /\ conversions' = [conversions EXCEPT ![Current(t)] =
                               Extended(conversions[Current(t)],
                                        {get_output_charset(local[t].domain)}, conv)]
          /\ CASE conv = "none"     -> Translated(t, Answer(Current(t), CatalogOf(Current(t)).charset))
               [] conv = "no table" -> To(t, "answer") /\ UNCHANGED local
               [] conv = "iconv"    ->
                    IF Converts(CatalogOf(Current(t)).charset, get_output_charset(local[t].domain))
                      THEN Translated(t, Answer(Current(t), get_output_charset(local[t].domain)))
                      ELSE NotHere(t)
    BY Zenon DEF Convert
  <2>2. /\ conv = "none" => Translated(t, Answer(Current(t), CatalogOf(Current(t)).charset))
        /\ conv = "no table" => To(t, "answer") /\ UNCHANGED local
        /\ conv = "iconv" =>
             IF Converts(CatalogOf(Current(t)).charset, get_output_charset(local[t].domain))
               THEN Translated(t, Answer(Current(t), get_output_charset(local[t].domain)))
               ELSE NotHere(t)
    BY <2>1
  <2> QED
    BY <1>1, <2>1, <2>2
<1>4. SameWay /\ Typed
  BY <1>2, WayStays DEF LookupInv
<1>5. /\ file \in DOMAIN conversions /\ file \in data
      /\ \A e \in DOMAIN conversions[file] : conversions[file][e] \in Outcomes(file, e)
  BY <1>1, <1>2 DEF Found, LookupInv, FilesOK, ConversionsOK
<1>6. conv \in Outcomes(file, to)
  BY <1>3, <1>5 DEF ConversionOf, Outcomes
<1>7. /\ conv \in {"none", "no table", "iconv"}
      /\ conv = "none" => ~ Opens(from, to)
      /\ conv = "iconv" => Opens(from, to)
      /\ conv = "no table" => env.failures
  BY <1>1, <1>6 DEF Outcomes, Conversion
<1>8. InCharset(local[t].domain, file) =
        IF ~ Opens(from, to) THEN {from} ELSE IF Converts(from, to) THEN {to} ELSE {}
  BY <1>1, <1>2 DEF InCharset
(* The conversion is remembered. *)
<1>9. /\ DOMAIN conversions' = DOMAIN conversions
      /\ \A f \in DOMAIN conversions \ {file} : conversions'[f] = conversions[f]
      /\ DOMAIN conversions'[file] = DOMAIN conversions[file] \cup {to}
      /\ \A e \in DOMAIN conversions[file] : conversions'[file][e] = conversions[file][e]
      /\ to \notin DOMAIN conversions[file] => conversions'[file][to] = conv
  <2>1. PICK old, new : old = conversions[file] /\ new = Extended(old, {to}, conv)
    OBVIOUS
  <2>2. /\ DOMAIN new = DOMAIN old \cup {to} /\ \A e \in DOMAIN old : new[e] = old[e]
        /\ \A e \in {to} \ DOMAIN old : new[e] = conv
    <3>1. /\ DOMAIN Extended(old, {to}, conv) = DOMAIN old \cup {to}
          /\ \A e \in DOMAIN old : Extended(old, {to}, conv)[e] = old[e]
          /\ \A e \in {to} \ DOMAIN old : Extended(old, {to}, conv)[e] = conv
      BY ExtendedAt
    <3> QED
      BY <2>1, <3>1
  <2>3. conversions' = [conversions EXCEPT ![file] = new]
    BY <1>3, <2>1
  <2> QED
    BY <1>5, <2>1, <2>2, <2>3
<1>10. ConversionsOK'
  <2>1. \A f : \A e : Outcomes(f, e)' = Outcomes(f, e)
    BY <1>4 DEF Outcomes, Conversion, Opens, SameWay
  <2>2. \A e \in DOMAIN conversions'[file] : conversions'[file][e] \in Outcomes(file, e)
    BY <1>5, <1>6, <1>9
  <2> QED
    BY <1>9, <2>1, <2>2 DEF LookupInv, ConversionsOK
(* Where the thread goes. *)
<1>11. /\ Alone(t) /\ Looking(t)' /\ Caller(t)'
       /\ at'[t] = "answer" => IsCurrent(local'[t].answer, local[t].domain, call[t].msgid)
  <2>1. CASE conv = "none"
    <3>1. from \in InCharset(local[t].domain, file)
      BY <1>7, <1>8, <2>1
    <3>2. IsCurrent(Answer(file, from), local[t].domain, call[t].msgid)
      BY <1>1, <1>2, <3>1, CurrentHere
    <3> QED
      BY <1>2, <1>3, <2>1, <3>2, TranslatedStays
  <2>2. CASE conv = "no table"
    <3>1. To(t, "answer") /\ UNCHANGED local
      BY <1>3, <2>2
    <3>2. Alone(t) /\ at'[t] = "answer"
      BY <1>2, <1>4, <3>1, SameLocals, MovesAlone DEF LookupPlaces
    <3>3. local'[t].answer = Untranslated
      BY <1>2, <3>1, SearchedSoFar
    <3>4. IsCurrent(local'[t].answer, local[t].domain, call[t].msgid)
      BY <1>7, <2>2, <3>3 DEF IsCurrent, IsUntranslated
    <3> QED
      BY <3>2, <3>4, NothingToKeep DEF Looking
  <2>3. CASE conv = "iconv" /\ Converts(from, to)
    <3>1. to \in InCharset(local[t].domain, file)
      BY <1>7, <1>8, <2>3
    <3>2. IsCurrent(Answer(file, to), local[t].domain, call[t].msgid)
      BY <1>1, <1>2, <3>1, CurrentHere
    <3> QED
      BY <1>2, <1>3, <2>3, <3>2, TranslatedStays
  <2>4. CASE conv = "iconv" /\ ~ Converts(from, to)
    <3>1. InCharset(local[t].domain, file) = {}
      BY <1>7, <1>8, <2>4
    <3>2. ~ Serves(local[t].domain, call[t].msgid, Current(t))
      BY <1>1, <3>1 DEF Serves
    <3> QED
      BY <1>2, <1>3, <2>4, <3>2, NotHereStays
  <2> QED
    BY <1>7, <2>1, <2>2, <2>3, <2>4
<1>12. Locked'
  BY <1>2, <1>11, LockStays DEF Looking, Alone, LookupInv
<1>13. FilesOK' /\ CacheOK'
  <2>1. StillLoads
    BY <1>2, <1>11, LoaderStays DEF Reading
  <2>2. FilesOK'
    BY <1>2, <1>4, <1>9, <2>1, FilesStay
  <2>3. CacheOK'
    BY <1>2, <1>4, <1>11, CacheStays
  <2> QED
    BY <2>2, <2>3
<1>14. \A u \in Callers : Undisturbed(u)
  BY <1>2, <1>4, OthersUndisturbed
<1> QED
  BY <1>2, <1>4, <1>10, <1>11, <1>12, <1>13, <1>14, StepStays DEF Typed
-----------------------------------------------------------------------------
(***************************************************************************)
(* The known translations.                                                 *)
(***************************************************************************)
(* An entry of the tree that a lookup may take.                             *)
EntryOK(k, entry) ==
  /\ DOMAIN entry = {"counter", "translation"}
  /\ entry.counter \in Nat /\ entry.counter <= _nl_msg_cat_cntr
  /\ entry.counter = _nl_msg_cat_cntr => IsCurrent(entry.translation, k[1], k[2]) \/ Torn(k)

LEMMA CacheEntries == CacheOK <=> \A k \in DOMAIN root : EntryOK(k, root[k])
  BY DEF CacheOK, EntryOK

LEMMA EntryStays ==
  ASSUME Typed, SameWay, NEW t \in Callers, Alone(t), NEW k, NEW entry, EntryOK(k, entry),
         at[t] # "update" \/ Key(t) # k
  PROVE  EntryOK(k, entry)'
<1>1. Torn(k) => Torn(k)'
  <2>1. ASSUME Torn(k)  PROVE Torn(k)'
    <3>1. PICK u \in Callers : at[u] = "update" /\ Key(u) = k
      BY <2>1 DEF Torn
    <3>2. at'[u] = "update" /\ Key(u)' = k
      BY <3>1 DEF Alone, Key
    <3> QED
      BY <3>2 DEF Torn
  <2> QED
    BY <2>1
<1> QED
  BY <1>1 DEF EntryOK, SameWay

(* A thread that has an answer goes on with it.                             *)
LEMMA AnswerGoesOn ==
  ASSUME LookupInv, NEW t \in Callers, at[t] \in {"store", "update"},
         UNCHANGED <<env, call, settings, local, files>>, NEW place \in {"update", "answer"},
         To(t, place), state_lock' = state_lock,
         place = "update" => /\ Key(t) \in DOMAIN root'
                             /\ root'[Key(t)].counter = _nl_msg_cat_cntr
  PROVE  /\ Alone(t) /\ at'[t] = place /\ SameWay /\ Key(t)' = Key(t)
         /\ Locked' /\ FilesOK' /\ ConversionsOK' /\ Caller(t)'
         /\ IsCurrent(local[t].answer, local[t].domain, call[t].msgid)
<1>1. Typed /\ Locked /\ Caller(t)
  BY DEF LookupInv
<1>2. Alone(t) /\ at'[t] = place
  BY <1>1, SameLocals, MovesAlone DEF LookupPlaces
<1>3. SameWay /\ Key(t)' = Key(t)
  BY WayStays DEF Key
<1>4. Locked'
  BY <1>1, <1>2, LockStays DEF Looking, Alone
<1>5. IsCurrent(local[t].answer, local[t].domain, call[t].msgid)
  BY <1>1 DEF Caller, Answers
<1>6. FilesOK' /\ ConversionsOK'
  <2>1. /\ decided' = decided /\ data' = data /\ loader' = loader /\ conversions' = conversions
    BY DEF files
  <2>2. StillLoads
    BY <1>2, <2>1, LoaderStays DEF Reading
  <2> QED
    BY <1>3, <2>1, <2>2, FilesStay, ConversionsStay
<1>7. Caller(t)'
  <2>1. Knowing(t)' /\ Answers(t)'
    BY <1>2, <1>3, <1>5 DEF Knowing, Answers, SameWay, Walking, Loading, Reading
  <2> QED
    BY <1>2, <2>1 DEF Caller, Starting, Silent, Choosing, Past, InLanguage, InChain,
       Returning, Loads, Walking, Loading, Reading
<1> QED
  BY <1>2, <1>3, <1>4, <1>5, <1>6, <1>7

LEMMA StoreNewStays ==
  ASSUME LookupInv, NEW t \in Callers, StoreNew(t)
  PROVE  LookupInv' /\ IsCurrent(local'[t].answer, local[t].domain, call[t].msgid)
<1>1. PICK entry : entry = [counter |-> _nl_msg_cat_cntr, translation |-> local[t].answer]
  OBVIOUS
<1>2. /\ UNCHANGED <<env, call, settings, local, files>> /\ state_lock' = state_lock
      /\ at[t] = "store" /\ To(t, "answer")
      /\ root' = Extended(root, {Key(t)}, entry) \/ root' = root
  BY <1>1 DEF StoreNew, Frame
<1>3. /\ Alone(t) /\ at'[t] = "answer" /\ SameWay /\ Key(t)' = Key(t)
      /\ Locked' /\ FilesOK' /\ ConversionsOK' /\ Caller(t)'
      /\ IsCurrent(local[t].answer, local[t].domain, call[t].msgid)
  BY <1>2, AnswerGoesOn
<1>4. Typed /\ \A k \in DOMAIN root : EntryOK(k, root[k])
  BY CacheEntries DEF LookupInv
<1>5. EntryOK(Key(t), entry)
  <2>1. DOMAIN entry = {"counter", "translation"}
    BY <1>1
  <2>2. entry.counter = _nl_msg_cat_cntr /\ entry.translation = local[t].answer
    BY <1>1
  <2>3. Key(t)[1] = local[t].domain /\ Key(t)[2] = call[t].msgid
    BY DEF Key
  <2> QED
    BY <1>3, <1>4, <2>1, <2>2, <2>3 DEF EntryOK, Typed
<1>6. /\ DOMAIN root \subseteq DOMAIN root' /\ DOMAIN root' \subseteq DOMAIN root \cup {Key(t)}
      /\ \A k \in DOMAIN root : root'[k] = root[k]
      /\ \A k \in DOMAIN root' \ DOMAIN root : root'[k] = entry
  <2>1. PICK new : new = {Key(t)}
    OBVIOUS
  <2>2. /\ DOMAIN Extended(root, new, entry) = DOMAIN root \cup new
        /\ \A k \in DOMAIN root : Extended(root, new, entry)[k] = root[k]
        /\ \A k \in new \ DOMAIN root : Extended(root, new, entry)[k] = entry
    BY ExtendedAt
  <2> QED
    BY <1>2, <2>1, <2>2
<1>7. CacheOK'
  <2>1. \A k \in DOMAIN root' : EntryOK(k, root'[k])
    BY <1>4, <1>5, <1>6
  <2>2. ASSUME NEW k \in DOMAIN root'  PROVE EntryOK(k, root[k])'
    <3>1. PICK e : e = root'[k]
      OBVIOUS
    <3>2. EntryOK(k, e)'
      BY <1>2, <1>3, <1>4, <2>1, <3>1, EntryStays
    <3> QED
      BY <3>1, <3>2 DEF EntryOK
  <2> QED
    BY <2>2 DEF CacheOK, EntryOK
<1>8. \A u \in Callers : Undisturbed(u)
  BY <1>2, <1>3, <1>6 DEF Undisturbed, SameWay, files
<1> QED
  BY <1>2, <1>3, <1>4, <1>7, <1>8, StepStays DEF Typed, files

LEMMA UpdateCounterStays ==
  ASSUME LookupInv, NEW t \in Callers, UpdateCounter(t)
  PROVE  LookupInv' /\ at'[t] # "answer"
<1>1. /\ UNCHANGED <<env, call, settings, local, files>> /\ state_lock' = state_lock
      /\ at[t] = "store" /\ To(t, "update") /\ local[t].known
      /\ root' = [root EXCEPT ![Key(t)].counter = _nl_msg_cat_cntr]
  BY DEF UpdateCounter, Frame
<1>2. Typed /\ \A k \in DOMAIN root : EntryOK(k, root[k])
  BY CacheEntries DEF LookupInv
<1>3. Key(t) \in DOMAIN root
  BY <1>1 DEF LookupInv, Caller, Knowing
<1>4. /\ DOMAIN root' = DOMAIN root
      /\ \A k \in DOMAIN root \ {Key(t)} : root'[k] = root[k]
      /\ DOMAIN root'[Key(t)] = {"counter", "translation"}
      /\ root'[Key(t)].counter = _nl_msg_cat_cntr
  <2>1. DOMAIN root[Key(t)] = {"counter", "translation"}
    BY <1>2, <1>3 DEF EntryOK
  <2>2. PICK new : new = [root[Key(t)] EXCEPT !.counter = _nl_msg_cat_cntr]
    OBVIOUS
  <2>3. DOMAIN new = {"counter", "translation"} /\ new.counter = _nl_msg_cat_cntr
    BY <2>1, <2>2, Zenon
  <2>4. root' = [root EXCEPT ![Key(t)] = new]
    BY <1>1, <2>2
  <2> QED
    BY <1>3, <2>3, <2>4
<1>5. /\ Alone(t) /\ at'[t] = "update" /\ SameWay /\ Key(t)' = Key(t)
      /\ Locked' /\ FilesOK' /\ ConversionsOK' /\ Caller(t)'
  BY <1>1, <1>3, <1>4, AnswerGoesOn
<1>6. CacheOK'
  <2>1. Torn(Key(t))'
    BY <1>5 DEF Torn
  <2>2. ASSUME NEW k \in DOMAIN root'  PROVE EntryOK(k, root[k])'
    <3>1. CASE k = Key(t)
      BY <1>2, <1>4, <1>5, <2>1, <3>1 DEF EntryOK, Typed, SameWay
    <3>2. CASE k # Key(t)
      <4>1. PICK e : e = root[k]
        OBVIOUS
      <4>2. EntryOK(k, e)'
        BY <1>1, <1>2, <1>4, <1>5, <3>2, <4>1, EntryStays
      <4>3. root'[k] = e
        BY <1>4, <3>2, <4>1
      <4> QED
        BY <4>2, <4>3 DEF EntryOK
    <3> QED
      BY <3>1, <3>2
  <2> QED
    BY <2>2 DEF CacheOK, EntryOK
<1>7. \A u \in Callers : Undisturbed(u)
  BY <1>1, <1>4, <1>5 DEF Undisturbed, SameWay, files
<1> QED
  BY <1>1, <1>2, <1>5, <1>6, <1>7, StepStays DEF Typed, files

LEMMA UpdateTranslationStays ==
  ASSUME LookupInv, NEW t \in Callers, UpdateTranslation(t)
  PROVE  LookupInv' /\ IsCurrent(local'[t].answer, local[t].domain, call[t].msgid)
<1>1. /\ UNCHANGED <<env, call, settings, local, files>> /\ state_lock' = state_lock
      /\ at[t] = "update" /\ To(t, "answer")
      /\ root' = [root EXCEPT ![Key(t)].translation = local[t].answer]
  BY DEF UpdateTranslation, Frame
<1>2. Typed /\ \A k \in DOMAIN root : EntryOK(k, root[k])
  BY CacheEntries DEF LookupInv
<1>3. Key(t) \in DOMAIN root /\ root[Key(t)].counter = _nl_msg_cat_cntr
  BY <1>1 DEF LookupInv, Caller, Knowing
<1>4. /\ DOMAIN root' = DOMAIN root
      /\ \A k \in DOMAIN root \ {Key(t)} : root'[k] = root[k]
      /\ DOMAIN root'[Key(t)] = {"counter", "translation"}
      /\ root'[Key(t)].counter = _nl_msg_cat_cntr
      /\ root'[Key(t)].translation = local[t].answer
  <2>1. DOMAIN root[Key(t)] = {"counter", "translation"}
    BY <1>2, <1>3 DEF EntryOK
  <2>2. PICK new : new = [root[Key(t)] EXCEPT !.translation = local[t].answer]
    OBVIOUS
  <2>3. /\ DOMAIN new = {"counter", "translation"} /\ new.counter = root[Key(t)].counter
        /\ new.translation = local[t].answer
    BY <2>1, <2>2, Zenon
  <2>4. root' = [root EXCEPT ![Key(t)] = new]
    BY <1>1, <2>2
  <2> QED
    BY <1>3, <2>3, <2>4
<1>5. /\ Alone(t) /\ at'[t] = "answer" /\ SameWay /\ Key(t)' = Key(t)
      /\ Locked' /\ FilesOK' /\ ConversionsOK' /\ Caller(t)'
      /\ IsCurrent(local[t].answer, local[t].domain, call[t].msgid)
  BY <1>1, AnswerGoesOn
<1>6. CacheOK'
  <2>1. ASSUME NEW k \in DOMAIN root'  PROVE EntryOK(k, root[k])'
    <3>1. CASE k = Key(t)
      <4>1. k[1] = local[t].domain /\ k[2] = call[t].msgid
        BY <3>1 DEF Key
      <4>2. IsCurrent(local[t].answer, k[1], k[2])
        BY <1>5, <4>1
      <4>3. PICK answer : answer = local[t].answer
        OBVIOUS
      <4>4. IsCurrent(answer, k[1], k[2])'
        BY <1>5, <4>2, <4>3 DEF SameWay
      <4>5. root'[k].translation = answer
        BY <1>4, <3>1, <4>3
      <4> QED
        BY <1>2, <1>4, <1>5, <3>1, <4>4, <4>5 DEF EntryOK, Typed, SameWay
    <3>2. CASE k # Key(t)
      <4>1. PICK e : e = root[k]
        OBVIOUS
      <4>2. EntryOK(k, e)'
        BY <1>1, <1>2, <1>4, <1>5, <3>2, <4>1, EntryStays
      <4>3. root'[k] = e
        BY <1>4, <3>2, <4>1
      <4> QED
        BY <4>2, <4>3 DEF EntryOK
    <3> QED
      BY <3>1, <3>2
  <2> QED
    BY <2>1 DEF CacheOK, EntryOK
<1>7. \A u \in Callers : Undisturbed(u)
  <2>1. \A k \in DOMAIN root : root'[k].counter = root[k].counter
    BY <1>3, <1>4
  <2> QED
    BY <1>1, <1>4, <1>5, <2>1 DEF Undisturbed, SameWay, files
<1> QED
  BY <1>1, <1>2, <1>5, <1>6, <1>7, StepStays DEF Typed, files
-----------------------------------------------------------------------------
(***************************************************************************)
(* Where a lookup ends, and where calls begin.                             *)
(***************************************************************************)
LEMMA FinishStays ==
  ASSUME LookupInv, NEW t \in Callers, Finish(t)
  PROVE  LookupInv' /\ at'[t] # "answer"
<1>1. Typed /\ Locked
  BY DEF LookupInv
<1>2. /\ UNCHANGED <<env, call, settings>> /\ UNCHANGED <<root, files>> /\ UNCHANGED local
      /\ at[t] = "answer" /\ To(t, "out") /\ state_lock' = state_lock \ {t}
  BY DEF Finish, Return, Frame
<1>3. Alone(t) /\ at'[t] = "out"
  BY <1>1, <1>2, SameLocals, MovesAlone DEF LookupPlaces
<1>4. Locked'
  <2>1. \A u \in Callers : Looking(u)' <=> Looking(u) /\ u # t
    BY <1>3 DEF Looking, Alone
  <2> QED
    BY <1>1, <1>2, <2>1 DEF Locked
<1> QED
  BY <1>2, <1>3, <1>4, QuietStays, NothingToKeep DEF Quiet, Reading

LEMMA CallsStay ==
  ASSUME LookupInv, NEW t \in Callers, NEW c \in env.calls, Calls(t, c)
  PROVE  LookupInv' /\ at'[t] # "answer"
<1>1. Typed /\ Locked
  BY DEF LookupInv
<1>2. /\ UNCHANGED <<env, settings>> /\ UNCHANGED <<root, files>>
      /\ at[t] = "out" /\ To(t, c.op) /\ state_lock' = state_lock
      /\ local' = [local EXCEPT ![t] = NoLocals] /\ call' = [call EXCEPT ![t] = c]
  BY DEF Calls
<1>3. c.op \in {"gettext", "textdomain", "bindtextdomain", "bind_textdomain_codeset"}
  BY <1>1, SetupAssumption DEF Typed
<1>4. c.op \in LookupPlaces
  BY <1>3 DEF LookupPlaces
<1>5. /\ at' \in [Callers -> LookupPlaces] /\ at'[t] = c.op
      /\ \A u \in Callers \ {t} : at'[u] = at[u]
  BY <1>1, <1>2, <1>4, ToMoves
<1>6. /\ DOMAIN local' = Callers /\ local'[t] = NoLocals /\ DOMAIN call' = Callers
      /\ \A u \in Callers \ {t} : local'[u] = local[u] /\ call'[u] = call[u]
  BY <1>1, <1>2 DEF Typed
<1>7. DOMAIN NoLocals = Fields
  BY DEF NoLocals, Fields
<1>8. Alone(t)
  BY <1>2, <1>5, <1>6, <1>7 DEF Alone
<1>9. Locked'
  BY <1>1, <1>2, <1>3, <1>5, LockStays DEF Looking
<1>10. Caller(t)'
  BY <1>3, <1>5, <1>6
     DEF Caller, Starting, Silent, Knowing, Choosing, Past, InLanguage, InChain, Returning,
         Loads, Answers, Walking, Loading, Reading, NoLocals, Untranslated
<1> QED
  BY <1>2, <1>3, <1>5, <1>8, <1>9, <1>10, QuietStays DEF Quiet, Reading

(* A call that writes has the lock to itself, and flushes the caches: what  *)
(* is known from before is not current any more.                            *)
LEMMA WriterStays ==
  ASSUME LookupInv, NEW t \in Callers,
         at[t] \in {"textdomain", "bindtextdomain", "bind_textdomain_codeset"},
         Return(t), UNCHANGED <<env, call, state_lock, root, files>>,
         \/ UNCHANGED settings
         \/ state_lock = {} /\ _nl_msg_cat_cntr' = _nl_msg_cat_cntr + 1
  PROVE  LookupInv' /\ at'[t] # "answer"
<1>1. Typed /\ Locked
  BY DEF LookupInv
<1>2. To(t, "out") /\ UNCHANGED local
  BY DEF Return
<1>3. /\ at' \in [Callers -> LookupPlaces] /\ at'[t] = "out"
      /\ \A u \in Callers \ {t} : at'[u] = at[u]
  BY <1>1, <1>2, ToMoves DEF LookupPlaces
<1>4. Locked'
  BY <1>1, <1>2, <1>3, LockStays DEF Looking
<1>5. CASE UNCHANGED settings
  <2>1. Alone(t)
    BY <1>1, <1>2, <1>5, SameLocals, MovesAlone DEF LookupPlaces
  <2> QED
    BY <1>3, <1>4, <2>1, QuietStays, NothingToKeep DEF Quiet, Reading
<1>6. CASE state_lock = {} /\ _nl_msg_cat_cntr' = _nl_msg_cat_cntr + 1
  <2>1. \A u \in Callers : ~ Looking(u)
    BY <1>1, <1>6 DEF Locked
  <2>2. \A u \in Callers :
          at'[u] \in {"out", "textdomain", "bindtextdomain", "bind_textdomain_codeset", "gettext"}
    BY <1>3, <2>1 DEF Looking
  <2>3. Typed'
    BY <1>1, <1>2, <1>3, <1>6 DEF Typed, files
  <2>4. \A u \in Callers : Caller(u)'
    <3>1. \A u \in Callers : at'[u] = "gettext" => at[u] = "gettext"
      BY <1>3
    <3>2. \A u \in Callers : Starting(u)'
      BY <1>2, <3>1 DEF LookupInv, Caller, Starting, NoLocals, Untranslated
    <3> QED
      BY <2>2, <3>2
         DEF Caller, Silent, Knowing, Choosing, Past, InLanguage, InChain, Returning,
             Loads, Answers, Walking, Loading, Reading
  <2>5. FilesOK'
    <3>1. \A f : Behind(f)' = Behind(f) /\ Plain' = Plain /\ CatalogOf(f)' = CatalogOf(f)
      BY DEF Behind, Plain, CatalogOf, Missing, Name, Dir, Domain, FileOf
    <3>2. loader = Nil
      BY <2>1 DEF LookupInv, Typed, FilesOK, Looking, Reading
    <3> QED
      BY <3>1, <3>2, CallersAssumption DEF LookupInv, FilesOK, files, Name
  <2>6. ConversionsOK'
    <3>1. \A f : CatalogOf(f)' = CatalogOf(f)
      BY DEF CatalogOf, Missing
    <3> QED
      BY <3>1 DEF LookupInv, ConversionsOK, Outcomes, Conversion, Opens, files
  <2>7. CacheOK'
    <3>1. \A k \in DOMAIN root :
            /\ DOMAIN root[k] = {"counter", "translation"}
            /\ root[k].counter \in Nat /\ root[k].counter <= _nl_msg_cat_cntr
      BY DEF LookupInv, CacheOK
    <3>2. _nl_msg_cat_cntr \in Nat
      BY <1>1 DEF Typed
    <3>3. \A k \in DOMAIN root :
            root[k].counter <= _nl_msg_cat_cntr' /\ root[k].counter # _nl_msg_cat_cntr'
      BY <1>6, <3>1, <3>2
    <3> QED
      BY <3>1, <3>3 DEF CacheOK
  <2> QED
    BY <1>3, <1>4, <2>3, <2>4, <2>5, <2>6, <2>7 DEF LookupInv
<1> QED
  BY <1>5, <1>6

LEMMA TextdomainStays ==
  ASSUME LookupInv, NEW t \in Callers, TEXTDOMAIN(t)
  PROVE  LookupInv' /\ at'[t] # "answer"
<1>1. /\ at[t] = "textdomain" /\ UNCHANGED <<env, call, state_lock, root, files>> /\ Return(t)
      /\ \/ UNCHANGED settings
         \/ state_lock = {} /\ _nl_msg_cat_cntr' = _nl_msg_cat_cntr + 1
  BY DEF TEXTDOMAIN, Frame
<1> QED
  BY <1>1, WriterStays

LEMMA BindingValuesStay ==
  ASSUME LookupInv, NEW t \in Callers, NEW values, set_binding_values(t, values),
         at[t] \in {"bindtextdomain", "bind_textdomain_codeset"},
         UNCHANGED <<env, call, state_lock, root, files>>
  PROVE  LookupInv' /\ at'[t] # "answer"
<1>1. Return(t) /\ \/ UNCHANGED settings
                   \/ state_lock = {} /\ _nl_msg_cat_cntr' = _nl_msg_cat_cntr + 1
  BY DEF set_binding_values, Rebind, settings
<1> QED
  BY <1>1, WriterStays

LEMMA BindStays ==
  ASSUME LookupInv, NEW t \in Callers, BINDTEXTDOMAIN(t) \/ BIND_TEXTDOMAIN_CODESET(t)
  PROVE  LookupInv' /\ at'[t] # "answer"
<1>1. CASE BINDTEXTDOMAIN(t)
  <2>1. /\ at[t] = "bindtextdomain" /\ UNCHANGED <<env, call, state_lock, root, files>>
        /\ set_binding_values(t, [dir |-> call[t].value, codeset |-> Nil])
    BY <1>1 DEF BINDTEXTDOMAIN, Frame
  <2> QED
    BY <2>1, BindingValuesStay
<1>2. CASE BIND_TEXTDOMAIN_CODESET(t)
  <2>1. /\ at[t] = "bind_textdomain_codeset" /\ UNCHANGED <<env, call, state_lock, root, files>>
        /\ set_binding_values(t, [dir |-> Nil, codeset |-> call[t].value])
    BY <1>2 DEF BIND_TEXTDOMAIN_CODESET, Frame
  <2> QED
    BY <2>1, BindingValuesStay
<1> QED
  BY <1>1, <1>2
-----------------------------------------------------------------------------
(***************************************************************************)
(* The invariant, and what it says of the steps.                           *)
(***************************************************************************)
LEMMA InvariantHoldsAtFirst == LookupInit => LookupInv
<1> SUFFICES ASSUME LookupInit  PROVE LookupInv
  OBVIOUS
<1>1. \A t \in Callers : at[t] = "out" /\ local[t] = NoLocals
  BY DEF LookupInit
<1>2. Typed
  <2>1. DOMAIN NoLocals = Fields
    BY DEF NoLocals, Fields
  <2> QED
    BY <2>1 DEF LookupInit, Typed, LookupPlaces
<1>3. Locked
  BY <1>1 DEF LookupInit, Locked, Looking
<1>4. \A t \in Callers : Caller(t)
  BY <1>1 DEF Caller, Starting, Silent, Knowing, Choosing, Past, InLanguage, InChain,
     Returning, Loads, Answers, Walking, Loading, Reading
<1>5. FilesOK /\ ConversionsOK /\ CacheOK
  <2>1. DOMAIN <<>> = {}
    OBVIOUS
  <2> QED
    BY <2>1 DEF LookupInit, FilesOK, ConversionsOK, CacheOK
<1> QED
  BY <1>2, <1>3, <1>4, <1>5 DEF LookupInv

(* What a thread answers, when its step takes it to its answer.             *)
Answered(t) ==
  at'[t] = "answer" =>
    \/ IsCurrent(local'[t].answer, local[t].domain, call[t].msgid)
    \/ at[t] = "cached" /\ Torn(Key(t))

LEMMA ElsewhereNoAnswer ==
  ASSUME LookupInv, NEW t \in Callers,
         \/ Begin(t) \/ FindKnown(t) \/ FindFile(t) \/ MakeFiles(t) \/ LoadFiles(t)
         \/ _nl_load_domain(t) \/ ReadFile(t) \/ ReadHeader(t) \/ Decide(t) \/ LoadFirst(t)
  PROVE  at'[t] # "answer"
<1>1. /\ Typed
      /\ at[t] \in {"await"} \cup Reading => local[t].back \in {"load", "search"}
  BY DEF LookupInv, Caller, Returning
<1>2. CASE Begin(t)
  BY <1>1, <1>2, ToMoves DEF Begin, Return, LookupPlaces
<1>3. CASE FindKnown(t)
  BY <1>1, <1>3, ToMoves DEF FindKnown, LookupPlaces
<1>4. CASE FindFile(t)
  BY <1>1, <1>4, ToMoves DEF FindFile, LookupPlaces
<1>5. CASE MakeFiles(t)
  BY <1>1, <1>5, ToMoves DEF MakeFiles, LookupPlaces
<1>6. CASE LoadFiles(t)
  BY <1>1, <1>6, ToMoves DEF LoadFiles, LookupPlaces
<1>7. CASE _nl_load_domain(t)
  BY <1>1, <1>7, ToMoves DEF _nl_load_domain, LookupPlaces
<1>8. CASE ReadFile(t)
  BY <1>1, <1>8, ToMoves DEF ReadFile, LookupPlaces
<1>9. CASE ReadHeader(t)
  BY <1>1, <1>9, ToMoves DEF ReadHeader, LookupPlaces
<1>10. CASE Decide(t)
  BY <1>1, <1>10, ToMoves DEF Decide, LookupPlaces, Reading
<1>11. CASE LoadFirst(t)
  BY <1>1, <1>11, ToMoves DEF LoadFirst, LookupPlaces
<1> QED
  BY <1>2, <1>3, <1>4, <1>5, <1>6, <1>7, <1>8, <1>9, <1>10, <1>11

LEMMA StepKeepsAndAnswers ==
  ASSUME LookupInv, NEW t \in Callers, Goes(t) \/ \E c \in env.calls : Calls(t, c)
  PROVE  LookupInv' /\ Answered(t)
<1>1. CASE \E c \in env.calls : Calls(t, c)
  BY <1>1, CallsStay DEF Answered
<1>2. CASE TEXTDOMAIN(t)
  BY <1>2, TextdomainStays DEF Answered
<1>3. CASE BINDTEXTDOMAIN(t) \/ BIND_TEXTDOMAIN_CODESET(t)
  BY <1>3, BindStays DEF Answered
<1>4. CASE Begin(t)
  BY <1>4, BeginStays, ElsewhereNoAnswer DEF Answered
<1>5. CASE FindKnown(t)
  BY <1>5, FindKnownStays, ElsewhereNoAnswer DEF Answered
<1>6. CASE TakeKnown(t)
  <2>1. at[t] = "cached"
    BY <1>6 DEF TakeKnown
  <2> QED
    BY <1>6, <2>1, TakeKnownStays DEF Answered
<1>7. CASE FindBinding(t)
  BY <1>7, FindBindingStays DEF Answered
<1>8. CASE NextLanguage(t)
  BY <1>8, NextLanguageStays DEF Answered
<1>9. CASE FindFile(t)
  BY <1>9, FindFileStays, ElsewhereNoAnswer DEF Answered
<1>10. CASE MakeFiles(t)
  BY <1>10, MakeFilesStays, ElsewhereNoAnswer DEF Answered
<1>11. CASE LoadFiles(t)
  BY <1>11, LoadFilesStays, ElsewhereNoAnswer DEF Answered
<1>12. CASE _nl_load_domain(t)
  BY <1>12, LoadDomainStays, ElsewhereNoAnswer DEF Answered
<1>13. CASE ReadFile(t)
  BY <1>13, ReadFileStays, ElsewhereNoAnswer DEF Answered
<1>14. CASE ReadHeader(t)
  BY <1>14, ReadHeaderStays, ElsewhereNoAnswer DEF Answered
<1>15. CASE Decide(t)
  BY <1>15, DecideStays, ElsewhereNoAnswer DEF Answered
<1>16. CASE LoadFirst(t)
  BY <1>16, LoadFirstStays, ElsewhereNoAnswer DEF Answered
<1>17. CASE NotFound(t)
  BY <1>17, NotFoundStays DEF Answered
<1>18. CASE Unconverted(t)
  BY <1>18, UnconvertedStays DEF Answered
<1>19. CASE Convert(t)
  BY <1>19, ConvertStays DEF Answered
<1>20. CASE OutOfMemory(t)
  BY <1>20, OutOfMemoryStays DEF Answered
<1>21. CASE StoreNew(t)
  BY <1>21, StoreNewStays DEF Answered
<1>22. CASE UpdateCounter(t)
  BY <1>22, UpdateCounterStays DEF Answered
<1>23. CASE UpdateTranslation(t)
  BY <1>23, UpdateTranslationStays DEF Answered
<1>24. CASE Finish(t)
  BY <1>24, FinishStays DEF Answered
<1> QED
  BY <1>1, <1>2, <1>3, <1>4, <1>5, <1>6, <1>7, <1>8, <1>9, <1>10, <1>11, <1>12, <1>13,
     <1>14, <1>15, <1>16, <1>17, <1>18, <1>19, <1>20, <1>21, <1>22, <1>23, <1>24 DEF Goes

LEMMA SameStateStays ==
  ASSUME LookupInv, UNCHANGED gettextVars
  PROVE  LookupInv'
<1>1. /\ UNCHANGED <<env, settings>> /\ UNCHANGED <<at, call, local, state_lock, root>>
      /\ UNCHANGED <<decided, data, loader, conversions>>
  BY DEF gettextVars, files
<1>2. SameWay
  BY <1>1, WayStays
<1>3. Typed' /\ Locked'
  BY <1>1, <1>2 DEF LookupInv, Typed, Locked, Looking, SameWay
<1>4. \A u \in Callers : Caller(u)'
  <2>1. \A u \in Callers : Undisturbed(u)
    BY <1>1, <1>2 DEF Undisturbed, SameWay
  <2> QED
    BY <1>1, <1>2, <2>1, OthersStay DEF LookupInv
<1>5. FilesOK'
  <2>1. StillLoads
    BY <1>1 DEF StillLoads, LookupInv, FilesOK, Current
  <2> QED
    BY <1>1, <1>2, <2>1, FilesStay
<1>6. ConversionsOK' /\ CacheOK'
  <2>1. \A k : Torn(k) => Torn(k)'
    BY <1>1 DEF Torn, Key
  <2> QED
    BY <1>1, <1>2, <2>1, ConversionsStay DEF LookupInv, CacheOK, SameWay
<1> QED
  BY <1>3, <1>4, <1>5, <1>6 DEF LookupInv

LEMMA StepKeeps ==
  ASSUME LookupInv, [LookupNext]_gettextVars
  PROVE  LookupInv'
<1>1. CASE LookupNext
  BY <1>1, StepKeepsAndAnswers DEF LookupNext
<1>2. CASE UNCHANGED gettextVars
  BY <1>2, SameStateStays
<1> QED
  BY <1>1, <1>2

(* Only the thread whose step it is gets somewhere.                         *)
LEMMA OthersAreWhereTheyWere ==
  ASSUME LookupInv, NEW t \in Callers, Goes(t) \/ \E c \in env.calls : Calls(t, c),
         NEW u \in Callers \ {t}
  PROVE  at'[u] = at[u]
<1>1. at' = at \/ (\E place : To(t, place)) \/ Alone(t)
  <2>1. CASE \E c \in env.calls : Calls(t, c)
    BY <2>1 DEF Calls
  <2>2. CASE TEXTDOMAIN(t) \/ BINDTEXTDOMAIN(t) \/ BIND_TEXTDOMAIN_CODESET(t)
    BY <2>2 DEF TEXTDOMAIN, BINDTEXTDOMAIN, BIND_TEXTDOMAIN_CODESET, set_binding_values, Return
  <2>3. CASE Begin(t) \/ FindKnown(t) \/ TakeKnown(t) \/ FindBinding(t) \/ NextLanguage(t)
    BY <2>3 DEF Begin, Return, FindKnown, TakeKnown, FindBinding, NextLanguage
  <2>4. CASE FindFile(t) \/ MakeFiles(t) \/ LoadFiles(t)
    BY <2>4 DEF FindFile, MakeFiles, LoadFiles
  <2>5. CASE _nl_load_domain(t) \/ ReadFile(t) \/ ReadHeader(t) \/ Decide(t)
    BY <2>5 DEF _nl_load_domain, ReadFile, ReadHeader, Decide
  <2>6. CASE LoadFirst(t) \/ NotFound(t) \/ Unconverted(t) \/ OutOfMemory(t)
    BY <2>6 DEF LoadFirst, NotFound, NotHere, Unconverted, Translated, OutOfMemory
  <2>7. CASE Convert(t)
    BY <2>7, ConvertStays
  <2>8. CASE StoreNew(t) \/ UpdateCounter(t) \/ UpdateTranslation(t) \/ Finish(t)
    BY <2>8 DEF StoreNew, UpdateCounter, UpdateTranslation, Finish, Return
  <2> QED
    BY <2>1, <2>2, <2>3, <2>4, <2>5, <2>6, <2>7, <2>8 DEF Goes
<1> QED
  BY <1>1 DEF To, LookupInv, Typed, Alone

(* What is known of a file that is loaded stays.                            *)
Kept(f) ==
  /\ f \in DOMAIN decided'
  /\ decided[f] # 0 => decided'[f] \in {decided[f], 1}
  /\ decided[f] = 1 => (f \in data' <=> f \in data)

LEMMA StepLoadsOnce ==
  ASSUME LookupInv, NEW t \in Callers, Goes(t) \/ \E c \in env.calls : Calls(t, c),
         NEW f \in DOMAIN decided
  PROVE  Kept(f)
<1>1. CASE UNCHANGED <<decided, data>>
  BY <1>1 DEF Kept
<1>2. CASE MakeFiles(t)
  <2>1. /\ data' = data
        /\ decided' = decided \/ \E new : decided' = Extended(decided, new, 0)
    BY <1>2 DEF MakeFiles
  <2>2. f \in DOMAIN decided' /\ decided'[f] = decided[f]
    <3>1. CASE decided' = decided
      BY <3>1
    <3>2. ASSUME NEW new, decided' = Extended(decided, new, 0)
          PROVE  f \in DOMAIN decided' /\ decided'[f] = decided[f]
      <4>1. /\ DOMAIN Extended(decided, new, 0) = DOMAIN decided \cup new
            /\ \A x \in DOMAIN decided : Extended(decided, new, 0)[x] = decided[x]
            /\ \A x \in new \ DOMAIN decided : Extended(decided, new, 0)[x] = 0
        BY ExtendedAt
      <4> QED
        BY <3>2, <4>1
    <3> QED
      BY <2>1, <3>1, <3>2
  <2> QED
    BY <2>1, <2>2 DEF Kept
<1>3. CASE _nl_load_domain(t)
  <2>1. CASE decided[Current(t)] # 0
    BY <1>3, <1>1, <2>1 DEF _nl_load_domain, files
  <2>2. CASE decided[Current(t)] = 0
    <3>1. /\ decided' = [decided EXCEPT ![Current(t)] = -1] /\ data' = data \ {Current(t)}
      BY <1>3, <2>2 DEF _nl_load_domain
    <3> QED
      BY <2>2, <3>1 DEF Kept
  <2> QED
    BY <2>1, <2>2
<1>4. CASE ReadFile(t)
  <2>1. at[t] \in Reading
    BY <1>4 DEF ReadFile, Reading
  <2>2. decided[Current(t)] = -1
    BY <2>1, OnlyReader
  <2>3. decided' = decided /\ (data' = data \/ data' = data \cup {Current(t)})
    BY <1>4 DEF ReadFile
  <2> QED
    BY <2>2, <2>3 DEF Kept
<1>5. CASE Decide(t)
  <2>1. decided' = [decided EXCEPT ![Current(t)] = 1] /\ data' = data
    BY <1>5 DEF Decide
  <2> QED
    BY <2>1 DEF Kept
<1>6. CASE Convert(t)
  BY <1>1, <1>6 DEF Convert
<1>7. CASE \E c \in env.calls : Calls(t, c)
  BY <1>1, <1>7 DEF Calls, files
<1>8. CASE TEXTDOMAIN(t) \/ BINDTEXTDOMAIN(t) \/ BIND_TEXTDOMAIN_CODESET(t)
  BY <1>1, <1>8 DEF TEXTDOMAIN, BINDTEXTDOMAIN, BIND_TEXTDOMAIN_CODESET, files
<1>9. CASE Begin(t) \/ FindKnown(t) \/ TakeKnown(t) \/ FindBinding(t) \/ NextLanguage(t)
  BY <1>1, <1>9 DEF Begin, FindKnown, TakeKnown, FindBinding, NextLanguage, files
<1>10. CASE FindFile(t) \/ LoadFiles(t) \/ ReadHeader(t)
  BY <1>1, <1>10 DEF FindFile, LoadFiles, ReadHeader, files
<1>11. CASE LoadFirst(t) \/ NotFound(t) \/ Unconverted(t) \/ OutOfMemory(t)
  BY <1>1, <1>11 DEF LoadFirst, NotFound, Unconverted, OutOfMemory, files
<1>12. CASE StoreNew(t) \/ UpdateCounter(t) \/ UpdateTranslation(t) \/ Finish(t)
  BY <1>1, <1>12 DEF StoreNew, UpdateCounter, UpdateTranslation, Finish, files
<1> QED
  BY <1>2, <1>3, <1>4, <1>5, <1>6, <1>7, <1>8, <1>9, <1>10, <1>11, <1>12 DEF Goes
-----------------------------------------------------------------------------
(* At every moment a cached translation that passes for current is current, *)
(* or torn; no file before a lookup's place has the message; and files,     *)
(* conversions and the lock are as their users rely on.                     *)
THEOREM LookupsInvariant == LookupSpec => []LookupInv
<1>1. LookupInit => LookupInv
  BY InvariantHoldsAtFirst
<1>2. LookupInv /\ [LookupNext]_gettextVars => LookupInv'
  BY StepKeeps
<1> QED
  BY <1>1, <1>2, PTL DEF LookupSpec

(* Whatever threads bind, choose and look up in between, a lookup answers   *)
(* what DCIGETTEXT would find from scratch under the settings of that       *)
(* moment: the message of the first language and form that has it, in the   *)
(* charset asked for; or it takes a translation of the tree that another    *)
(* thread is between the two assignments of.                                *)
THEOREM LookupsCurrent == LookupSpec => AnswersCurrent
<1>1. LookupInv /\ [LookupNext]_gettextVars =>
        [\A t \in Callers :
           at[t] # "answer" /\ at'[t] = "answer" =>
             \/ IsCurrent(local'[t].answer, local[t].domain, call[t].msgid)
             \/ at[t] = "cached" /\ Torn(Key(t))]_at
  <2> SUFFICES ASSUME LookupInv, LookupNext, NEW u \in Callers,
                      at[u] # "answer", at'[u] = "answer"
               PROVE  \/ IsCurrent(local'[u].answer, local[u].domain, call[u].msgid)
                      \/ at[u] = "cached" /\ Torn(Key(u))
    BY DEF gettextVars
  <2>1. PICK t \in Callers : Goes(t) \/ \E c \in env.calls : Calls(t, c)
    BY DEF LookupNext
  <2>2. u = t
    BY <2>1, OthersAreWhereTheyWere
  <2> QED
    BY <2>1, <2>2, StepKeepsAndAnswers DEF Answered
<1> QED
  BY <1>1, LookupsInvariant, PTL DEF LookupSpec, AnswersCurrent

(* _nl_load_domain's lock and its second look at decided: a file is read by *)
(* one thread, and its data, once there, is there for good.                 *)
THEOREM FilesLoadOnce == LookupSpec => LoadedOnce
<1>1. LookupInv /\ [LookupNext]_gettextVars =>
        [\A f \in DOMAIN decided :
           /\ f \in DOMAIN decided'
           /\ decided[f] # 0 => decided'[f] \in {decided[f], 1}
           /\ decided[f] = 1 => (f \in data' <=> f \in data)]_files
  <2> SUFFICES ASSUME LookupInv, LookupNext
               PROVE  \A f \in DOMAIN decided :
                        /\ f \in DOMAIN decided'
                        /\ decided[f] # 0 => decided'[f] \in {decided[f], 1}
                        /\ decided[f] = 1 => (f \in data' <=> f \in data)
    BY DEF gettextVars
  <2> QED
    BY StepLoadsOnce DEF LookupNext, Kept
<1> QED
  BY <1>1, LookupsInvariant, PTL DEF LookupSpec, LoadedOnce
=============================================================================
