------------------------------ MODULE Gettext ------------------------------
(***************************************************************************)
(* The message lookup of src/intl: dcgettext and its relatives, called by  *)
(* several threads, beside calls of textdomain, bindtextdomain and         *)
(* bind_textdomain_codeset that change what it looks at.                   *)
(*                                                                         *)
(* A lookup holds _nl_state_lock for reading from its beginning to its     *)
(* end, the other calls take it for writing; so each of those is one step, *)
(* and a lookup is split where threads that read meet: at the tree of      *)
(* known translations, the list of files and the loading of a file.        *)
(*                                                                         *)
(* Domains are numbers in the order of strcmp.  What a catalog says for a  *)
(* message is a record, the text of a translation is not looked at.        *)
(***************************************************************************)
EXTENDS Integers, Sequences, SequencesExt

CONSTANTS
  Callers,    (* the threads                                               *)
  Nil,        (* NULL                                                      *)
  Empty,      (* the domain name ""                                        *)
  Locales,    (* the names of locales and their aliases                    *)
  Setups,     (* the builds, environments and files to look at             *)
  DefaultDomain, DefaultDir

(* The forms of a form of a name are forms of the name.  No alias stands    *)
(* for another alias, nor is one a less specific form of a name:            *)
(* _nl_find_domain expands a name only if it has no file of it yet.         *)
ASSUME SetupAssumption ==
  \A e \in Setups :
    /\ {"C", e.locale} \subseteq Locales
    /\ e.LANGUAGE \in Seq(Locales) /\ e.preferences \in Seq(Locales)
    /\ \A n \in DOMAIN e.successors : e.successors[n] \in Seq(Locales \ DOMAIN e.aliases)
    /\ \A m, n \in DOMAIN e.successors :
         m \in Range(e.successors[n]) => Range(e.successors[m]) \subseteq Range(e.successors[n])
    /\ \A n \in DOMAIN e.aliases : e.aliases[n] \in Locales \ DOMAIN e.aliases
    /\ \A c \in e.calls :
         c.op \in {"gettext", "textdomain", "bindtextdomain", "bind_textdomain_codeset"}

ASSUME CallersAssumption == Nil \notin Callers

VARIABLES
  env,        (* the program's surroundings, one of Setups                 *)
  at,         (* where each thread is                                      *)
  call,       (* the thread's call                                         *)
  local,      (* its local variables                                       *)
  todo,       (* bound: how many calls it still makes                      *)
  state_lock, (* the threads that hold _nl_state_lock for reading          *)
  _nl_current_default_domain,
  _nl_domain_bindings,
  _nl_msg_cat_cntr,
  root,       (* the known translations                                    *)
  decided,    (* of the files in _nl_loaded_domains: 0, -1 or 1            *)
  data,       (* the files in _nl_loaded_domains that have data            *)
  loader,     (* who holds _nl_load_domain's recursive lock                *)
  conversions (* of the loaded files: the encodings converted to, in order *)

settings == <<_nl_current_default_domain, _nl_domain_bindings, _nl_msg_cat_cntr>>
files == <<decided, data, loader, conversions>>
gettextVars == <<env, at, call, local, todo, state_lock, settings, root, files>>
-----------------------------------------------------------------------------
(***************************************************************************)
(* The surroundings, external to src/: the file system, the environment,   *)
(* iconv, and the names that a locale name stands for.                     *)
(***************************************************************************)
FileOf(dir, name, domain) == <<dir, name, domain>>

Missing == [valid |-> FALSE, charset |-> Nil, messages |-> {}]

CatalogOf(file) == IF file \in DOMAIN env.catalogs THEN env.catalogs[file] ELSE Missing

Opens(from, to) == from # Nil /\ <<from, to>> \notin env.unopenable

Converts(from, to) == <<from, to>> \notin env.inconvertible

Untranslated == [file |-> Nil, charset |-> Nil]
-----------------------------------------------------------------------------
NoLocals == [domain |-> Nil, known |-> FALSE, list |-> <<>>, chain |-> <<>>, step |-> 0,
             back |-> "out", answer |-> Untranslated]

LookupInit ==
  /\ env \in Setups
  /\ at = [t \in Callers |-> "out"]
  /\ call = [t \in Callers |-> Nil]
  /\ local = [t \in Callers |-> NoLocals]
  /\ todo = env.turns
  /\ state_lock = {}
  /\ _nl_current_default_domain = DefaultDomain
  /\ _nl_domain_bindings = <<>>
  /\ _nl_msg_cat_cntr = 0
  /\ root = <<>>
  /\ decided = <<>> /\ data = {} /\ conversions = <<>>
  /\ loader = Nil

To(t, place) == at' = [at EXCEPT ![t] = place]

(* What is new goes behind what is there.                                   *)
Extended(f, new, value) ==
  [x \in DOMAIN f \cup new |-> IF x \in DOMAIN f THEN f[x] ELSE value]

Set(t, locals) == local' = [local EXCEPT ![t] = locals]

(* A call begins.                                                           *)
Calls(t, c) ==
  /\ at[t] = "out" /\ todo[t] > 0
  /\ call' = [call EXCEPT ![t] = c]
  /\ todo' = [todo EXCEPT ![t] = @ - 1]
  /\ local' = [local EXCEPT ![t] = NoLocals]
  /\ To(t, c.op)
  /\ UNCHANGED <<env, state_lock, settings, root, files>>

Frame == <<env, call, todo>>

Return(t) == To(t, "out") /\ UNCHANGED local
-----------------------------------------------------------------------------
(***************************************************************************)
(* The calls that write: each has _nl_state_lock to itself.                *)
(***************************************************************************)
TEXTDOMAIN(t) ==
  /\ at[t] = "textdomain"
  /\ LET name == call[t].domain
         new  == IF name = Empty THEN DefaultDomain ELSE name
     IN \/ /\ name = Nil
           /\ Return(t)
           /\ UNCHANGED settings
        \/ /\ name # Nil /\ state_lock = {}
           /\ _nl_current_default_domain' = new
           /\ _nl_msg_cat_cntr' = _nl_msg_cat_cntr + 1
           /\ Return(t)
           /\ UNCHANGED _nl_domain_bindings
        \/ (* strdup fails *)
           /\ name # Nil /\ state_lock = {} /\ env.failures
           /\ new \notin {DefaultDomain, _nl_current_default_domain}
           /\ Return(t)
           /\ UNCHANGED settings
  /\ UNCHANGED <<Frame, state_lock, root, files>>

(* The search stops at the first domain that is not smaller.                *)
BindingAt(domain) ==
  LET stops == {i \in DOMAIN _nl_domain_bindings :
                  domain <= _nl_domain_bindings[i].domain}
      first == CHOOSE i \in stops : \A j \in stops : i <= j
  IN IF stops # {} /\ _nl_domain_bindings[first].domain = domain THEN first ELSE 0

Unbound == [dir |-> DefaultDir, codeset |-> Nil]

(* A new binding goes before the first that is larger.                      *)
Bound(binding) ==
  SelectSeq(_nl_domain_bindings, LAMBDA b : b.domain < binding.domain)
  \o <<binding>>
  \o SelectSeq(_nl_domain_bindings, LAMBDA b : b.domain >= binding.domain)

Changed(old, values) ==
  [dir     |-> IF values.dir = Nil THEN old.dir ELSE values.dir,
   codeset |-> IF values.codeset = Nil THEN old.codeset ELSE values.codeset]

Queries(values) == values.dir = Nil /\ values.codeset = Nil

(* Deliberately wrong: a changed binding does not flush the caches.         *)
rebinds_silently(domain, old, new) ==
  /\ LET i == BindingAt(domain)
         binding == [domain |-> domain, dir |-> new.dir, codeset |-> new.codeset]
     IN _nl_domain_bindings' =
          IF i # 0 THEN [_nl_domain_bindings EXCEPT ![i] = binding]
                   ELSE Bound(binding)
  /\ UNCHANGED _nl_msg_cat_cntr

Rebind(domain, old, new) ==
  LET i == BindingAt(domain)
      binding == [domain |-> domain, dir |-> new.dir, codeset |-> new.codeset]
  IN IF i # 0 /\ new = old
       THEN UNCHANGED <<_nl_domain_bindings, _nl_msg_cat_cntr>>
       ELSE /\ _nl_domain_bindings' =
                 IF i # 0 THEN [_nl_domain_bindings EXCEPT ![i] = binding]
                          ELSE Bound(binding)
            /\ _nl_msg_cat_cntr' = _nl_msg_cat_cntr + 1

set_binding_values(t, values) ==
  LET domain == call[t].domain
      i      == BindingAt(domain)
      old    == IF i = 0 THEN Unbound
                ELSE [dir |-> _nl_domain_bindings[i].dir,
                      codeset |-> _nl_domain_bindings[i].codeset]
      new    == Changed(old, values)
  IN \/ /\ domain \in {Nil, Empty}
        /\ Return(t)
        /\ UNCHANGED settings
     \/ /\ domain \notin {Nil, Empty} /\ state_lock = {}
        /\ IF Queries(values) THEN UNCHANGED settings
           ELSE /\ Rebind(domain, old, new)
                /\ UNCHANGED _nl_current_default_domain
        /\ Return(t)
     \/ (* malloc or strdup fails *)
        /\ domain \notin {Nil, Empty} /\ state_lock = {} /\ env.failures
        /\ ~ Queries(values) /\ (i = 0 \/ new # old)
        /\ Return(t)
        /\ UNCHANGED settings

BINDTEXTDOMAIN(t) ==
  /\ at[t] = "bindtextdomain"
  /\ set_binding_values(t, [dir |-> call[t].value, codeset |-> Nil])
  /\ UNCHANGED <<Frame, state_lock, root, files>>

BIND_TEXTDOMAIN_CODESET(t) ==
  /\ at[t] = "bind_textdomain_codeset"
  /\ set_binding_values(t, [dir |-> Nil, codeset |-> call[t].value])
  /\ UNCHANGED <<Frame, state_lock, root, files>>
-----------------------------------------------------------------------------
(***************************************************************************)
(* DCIGETTEXT: the domain, the tree of known translations, the directory   *)
(* and the languages.                                                      *)
(***************************************************************************)
Reads(t) == state_lock' = state_lock \cup {t}

(* Without a message there is nothing to look up.                           *)
Begin(t) ==
  /\ at[t] = "gettext"
  /\ IF call[t].msgid = Nil
       THEN Return(t) /\ UNCHANGED state_lock
       ELSE /\ Reads(t)
            /\ LET domain == IF call[t].domain = Nil THEN _nl_current_default_domain
                             ELSE call[t].domain
               IN Set(t, [local[t] EXCEPT !.domain = domain])
            /\ To(t, IF env.tsearch THEN "known" ELSE "binding")
  /\ UNCHANGED <<Frame, settings, root, files>>

Key(t) == <<local[t].domain, call[t].msgid>>

(* tfind, under tree_lock; entries stay where they are.                     *)
FindKnown(t) ==
  /\ at[t] = "known"
  /\ LET found == Key(t) \in DOMAIN root
     IN /\ Set(t, [local[t] EXCEPT !.known = found])
        /\ To(t, IF found /\ root[Key(t)].counter = _nl_msg_cat_cntr
                   THEN "cached" ELSE "binding")
  /\ UNCHANGED <<Frame, state_lock, settings, root, files>>

TakeKnown(t) ==
  /\ at[t] = "cached"
  /\ Set(t, [local[t] EXCEPT !.answer = root[Key(t)].translation])
  /\ To(t, "answer")
  /\ UNCHANGED <<Frame, state_lock, settings, root, files>>

BindingOf(domain) ==
  LET i == BindingAt(domain) IN IF i = 0 THEN Unbound ELSE _nl_domain_bindings[i]

(* The languages to try: LANGUAGE, unless the locale is C; then the         *)
(* preferences of a system whose locale is a default one; then the locale.  *)
guess_category_value ==
  IF env.locale = "C" THEN <<"C">>
  ELSE IF env.LANGUAGE # <<>> THEN env.LANGUAGE
  ELSE IF env.defaulted /\ env.preferences # <<>> THEN env.preferences
  ELSE <<env.locale>>

(* A relative directory needs the working directory.                        *)
FindBinding(t) ==
  /\ at[t] = "binding"
  /\ IF BindingOf(local[t].domain).dir \in env.unresolvable
       THEN To(t, "answer") /\ UNCHANGED local
       ELSE Set(t, [local[t] EXCEPT !.list = guess_category_value]) /\ To(t, "language")
  /\ UNCHANGED <<Frame, state_lock, settings, root, files>>

Untranslating == {"C", "POSIX"}

(* The next of the languages, C after the last.  A set-uid program skips    *)
(* names that lead elsewhere.                                               *)
NextLanguage(t) ==
  /\ at[t] = "language"
  /\ LET list == local[t].list
         name == IF list = <<>> THEN "C" ELSE Head(list)
         rest == IF list = <<>> THEN <<>> ELSE Tail(list)
     IN IF env.secure /\ name \in env.elsewhere
          THEN Set(t, [local[t] EXCEPT !.list = rest]) /\ UNCHANGED at
        ELSE IF name \in Untranslating
          THEN To(t, "answer") /\ UNCHANGED local
          ELSE Set(t, [local[t] EXCEPT !.list = rest, !.chain = <<name>>]) /\ To(t, "file")
  /\ UNCHANGED <<Frame, state_lock, settings, root, files>>
-----------------------------------------------------------------------------
(***************************************************************************)
(* _nl_find_domain and _nl_load_domain.                                    *)
(***************************************************************************)
Expand(name) == IF name \in DOMAIN env.aliases THEN env.aliases[name] ELSE name

(* The file of a locale name, then those of its less specific forms.        *)
Chain(domain, name) ==
  LET dir == BindingOf(domain).dir
      names == <<name>> \o IF name \in DOMAIN env.successors
                             THEN env.successors[name] ELSE <<>>
  IN [i \in DOMAIN names |-> FileOf(dir, names[i], domain)]

FindFile(t) ==
  /\ at[t] = "file"
  /\ LET name == local[t].chain[1]
              chain == Chain(local[t].domain, name)
     IN IF chain[1] \in DOMAIN decided
          THEN Set(t, [local[t] EXCEPT !.chain = chain, !.step = 1]) /\ To(t, "load")
          ELSE To(t, "make") /\ UNCHANGED local
  /\ UNCHANGED <<Frame, state_lock, settings, root, files>>

(* _nl_make_l10nflist adds the files that are not in the list yet.          *)
MakeFiles(t) ==
  /\ at[t] = "make"
  /\ \/ LET chain == Chain(local[t].domain, Expand(local[t].chain[1]))
        IN /\ decided' = Extended(decided, Range(chain), 0)
           /\ Set(t, [local[t] EXCEPT !.chain = chain, !.step = 1])
           /\ To(t, "load")
     \/ (* out of core *)
        env.failures /\ To(t, "language") /\ UNCHANGED <<local, decided>>
  /\ UNCHANGED <<Frame, state_lock, settings, root, data, loader, conversions>>

Current(t) == local[t].chain[local[t].step]

AtEnd(t) == local[t].step = Len(local[t].chain)

(* The file is loaded, and those after it until one has data.               *)
LoadFiles(t) ==
  /\ at[t] = "load"
  /\ IF decided[Current(t)] <= 0
       THEN Set(t, [local[t] EXCEPT !.back = "load"]) /\ To(t, "await")
     ELSE IF Current(t) \in data \/ AtEnd(t)
       THEN Set(t, [local[t] EXCEPT !.step = 1]) /\ To(t, "search")
       ELSE Set(t, [local[t] EXCEPT !.step = local[t].step + 1]) /\ UNCHANGED at
  /\ UNCHANGED <<Frame, state_lock, settings, root, files>>

(* Deliberately wrong: decided is not tested again under the lock.          *)
load_untested(t) ==
  /\ at[t] = "await" /\ loader = Nil
  /\ decided' = [decided EXCEPT ![Current(t)] = -1]
  /\ data' = data \ {Current(t)}
  /\ loader' = t /\ To(t, "read")
  /\ UNCHANGED <<Frame, local, state_lock, settings, root, conversions>>

_nl_load_domain(t) ==
  /\ at[t] = "await" /\ loader = Nil
  /\ IF decided[Current(t)] # 0
       THEN To(t, local[t].back) /\ UNCHANGED files
       ELSE /\ decided' = [decided EXCEPT ![Current(t)] = -1]
            /\ data' = data \ {Current(t)}
            /\ loader' = t /\ To(t, "read")
            /\ UNCHANGED conversions
  /\ UNCHANGED <<Frame, local, state_lock, settings, root>>

(* A file that is missing, unreadable or not a catalog leaves no data.      *)
ReadFile(t) ==
  /\ at[t] = "read"
  /\ \/ /\ CatalogOf(Current(t)).valid
        /\ data' = data \cup {Current(t)}
        /\ conversions' = Extended(conversions, {Current(t)}, <<>>)
        /\ To(t, "header")
     \/ /\ env.failures \/ ~ CatalogOf(Current(t)).valid
        /\ To(t, "decide") /\ UNCHANGED <<data, conversions>>
  /\ UNCHANGED <<Frame, local, state_lock, settings, root, decided, loader>>

(* The header entry is looked up by _nl_find_msg, which comes back to       *)
(* _nl_load_domain: the lock is recursive, and decided is no longer 0.      *)
ReadHeader(t) ==
  /\ at[t] = "header"
  /\ decided[Current(t)] <= 0 => loader \in {Nil, t}
  /\ To(t, "decide")
  /\ UNCHANGED <<Frame, local, state_lock, settings, root, files>>

(* Deliberately wrong: the lock is kept.                                    *)
decide_locked(t) ==
  /\ at[t] = "decide"
  /\ decided' = [decided EXCEPT ![Current(t)] = 1]
  /\ To(t, local[t].back)
  /\ UNCHANGED <<Frame, local, state_lock, settings, root, data, loader, conversions>>

Decide(t) ==
  /\ at[t] = "decide"
  /\ decided' = [decided EXCEPT ![Current(t)] = 1]
  /\ loader' = Nil
  /\ To(t, local[t].back)
  /\ UNCHANGED <<Frame, local, state_lock, settings, root, data, conversions>>
-----------------------------------------------------------------------------
(***************************************************************************)
(* _nl_find_msg.                                                           *)
(***************************************************************************)
get_output_charset(domain) ==
  IF BindingOf(domain).codeset # Nil THEN BindingOf(domain).codeset
  ELSE IF env.OUTPUT_CHARSET # Nil THEN env.OUTPUT_CHARSET ELSE env.charset

(* Converting to an encoding for the first time: with iconv, not at all, or *)
(* in vain, the table of converted strings being out of memory.             *)
Conversion(from, to) == IF Opens(from, to) THEN "iconv" ELSE "none"

ConversionOf(file, encoding) ==
  IF encoding \in DOMAIN conversions[file] THEN {conversions[file][encoding]}
  ELSE {Conversion(CatalogOf(file).charset, encoding)}
       \cup (IF env.failures /\ Opens(CatalogOf(file).charset, encoding)
               THEN {"no table"} ELSE {})

Answer(file, charset) == [file |-> file, charset |-> charset]

Translated(t, answer) ==
  Set(t, [local[t] EXCEPT !.answer = answer]) /\ To(t, IF env.tsearch THEN "store" ELSE "answer")

(* No translation here: on to the next form, or the next language.          *)
NotHere(t) ==
  IF AtEnd(t) THEN To(t, "language") /\ UNCHANGED local
              ELSE Set(t, [local[t] EXCEPT !.step = local[t].step + 1]) /\ UNCHANGED at

LoadFirst(t) ==
  /\ at[t] = "search" /\ decided[Current(t)] <= 0
  /\ Set(t, [local[t] EXCEPT !.back = "search"])
  /\ To(t, "await")
  /\ UNCHANGED <<Frame, state_lock, settings, root, files>>

Found(t) ==
  /\ at[t] = "search" /\ decided[Current(t)] > 0
  /\ Current(t) \in data
  /\ call[t].msgid \in CatalogOf(Current(t)).messages

NotFound(t) ==
  /\ at[t] = "search" /\ decided[Current(t)] > 0 /\ ~ Found(t)
  /\ NotHere(t)
  /\ UNCHANGED <<Frame, state_lock, settings, root, files>>

Unconverted(t) ==
  /\ Found(t) /\ ~ env.iconv
  /\ Translated(t, Answer(Current(t), CatalogOf(Current(t)).charset))
  /\ UNCHANGED <<Frame, state_lock, settings, root, files>>

(* Every conversion of a file is remembered, the failed ones too.           *)
Convert(t) ==
  /\ Found(t) /\ env.iconv
  /\ LET file == Current(t)
         from == CatalogOf(file).charset
         to   == get_output_charset(local[t].domain)
     IN \E conv \in ConversionOf(file, to) :
          /\ conversions' = [conversions EXCEPT ![file] = Extended(@, {to}, conv)]
          /\ CASE conv = "none"     -> Translated(t, Answer(file, from))
               [] conv = "no table" -> To(t, "answer") /\ UNCHANGED local
               [] conv = "iconv"    -> IF Converts(from, to)
                                         THEN Translated(t, Answer(file, to))
                                         ELSE NotHere(t)
  /\ UNCHANGED <<Frame, state_lock, settings, root, decided, data, loader>>

(* malloc fails: the string -1, and the message stays as it is.             *)
OutOfMemory(t) ==
  /\ Found(t) /\ env.iconv /\ env.failures
  /\ To(t, "answer")
  /\ UNCHANGED <<Frame, local, state_lock, settings, root, files>>
-----------------------------------------------------------------------------
(***************************************************************************)
(* The known translations.  A new entry is made under tree_lock, an old    *)
(* one is brought up to date without it, the counter first.                *)
(***************************************************************************)
StoreNew(t) ==
  /\ at[t] = "store" /\ ~ local[t].known
  /\ \/ root' = Extended(root, {Key(t)}, [counter     |-> _nl_msg_cat_cntr,
                                           translation |-> local[t].answer])
     \/ env.failures /\ UNCHANGED root
  /\ To(t, "answer")
  /\ UNCHANGED <<Frame, local, state_lock, settings, files>>

UpdateCounter(t) ==
  /\ at[t] = "store" /\ local[t].known
  /\ root' = [root EXCEPT ![Key(t)].counter = _nl_msg_cat_cntr]
  /\ To(t, "update")
  /\ UNCHANGED <<Frame, local, state_lock, settings, files>>

UpdateTranslation(t) ==
  /\ at[t] = "update"
  /\ root' = [root EXCEPT ![Key(t)].translation = local[t].answer]
  /\ To(t, "answer")
  /\ UNCHANGED <<Frame, local, state_lock, settings, files>>

(* The plural form is picked and the lock given back.                       *)
Finish(t) ==
  /\ at[t] = "answer"
  /\ state_lock' = state_lock \ {t}
  /\ Return(t)
  /\ UNCHANGED <<Frame, settings, root, files>>
-----------------------------------------------------------------------------
Goes(t) ==
  \/ TEXTDOMAIN(t) \/ BINDTEXTDOMAIN(t) \/ BIND_TEXTDOMAIN_CODESET(t)
  \/ Begin(t) \/ FindKnown(t) \/ TakeKnown(t) \/ FindBinding(t) \/ NextLanguage(t)
  \/ FindFile(t) \/ MakeFiles(t) \/ LoadFiles(t)
  \/ _nl_load_domain(t) \/ ReadFile(t) \/ ReadHeader(t) \/ Decide(t)
  \/ LoadFirst(t) \/ NotFound(t) \/ Unconverted(t) \/ Convert(t) \/ OutOfMemory(t)
  \/ StoreNew(t) \/ UpdateCounter(t) \/ UpdateTranslation(t) \/ Finish(t)

LookupNext == \E t \in Callers : Goes(t) \/ \E c \in env.calls : Calls(t, c)

LookupFairness == \A t \in Callers : WF_gettextVars(Goes(t))

LookupSpec == LookupInit /\ [][LookupNext]_gettextVars /\ LookupFairness
-----------------------------------------------------------------------------
LookupPlaces == {"out", "textdomain", "bindtextdomain", "bind_textdomain_codeset",
           "gettext", "known", "cached", "binding", "language", "file", "make", "load",
           "await", "read", "header", "decide", "search", "store", "update", "answer"}

(* Every thread is somewhere in a call, holds _nl_state_lock exactly inside *)
(* a lookup, and the list of files knows whether each has data.             *)
LookupTypeOK ==
  /\ at \in [Callers -> LookupPlaces]
  /\ state_lock = {t \in Callers : at[t] \notin
       {"out", "textdomain", "bindtextdomain", "bind_textdomain_codeset", "gettext"}}
  /\ loader = Nil \/ at[loader] \in {"read", "header", "decide"}
  /\ \A f \in DOMAIN decided : decided[f] \in -1 .. 1
  /\ data \subseteq DOMAIN conversions /\ DOMAIN conversions \subseteq DOMAIN decided
  /\ \A i, j \in DOMAIN _nl_domain_bindings :
       i < j => _nl_domain_bindings[i].domain < _nl_domain_bindings[j].domain

(* What the bindings in force, the languages and the files make of a        *)
(* message.  Languages that lead elsewhere are not tried, nor any behind C. *)
Allowed(i) ==
  i \in DOMAIN guess_category_value
    /\ ~ (env.secure /\ guess_category_value[i] \in env.elsewhere)

Tried(i) ==
  Allowed(i)
    /\ \A j \in 1 .. i : Allowed(j) => guess_category_value[j] \notin Untranslating

(* The files on the way, those of the first language first.                 *)
Forms(domain, i) == Chain(domain, Expand(guess_category_value[i]))

OnTheWay(domain, i, j) == Tried(i) /\ j \in DOMAIN Forms(domain, i)

InCharset(domain, file) ==
  LET from == CatalogOf(file).charset
      to   == get_output_charset(domain)
  IN IF ~ env.iconv \/ ~ Opens(from, to) THEN {from}
     ELSE IF Converts(from, to) THEN {to} ELSE {}

Serves(domain, msgid, file) ==
  /\ CatalogOf(file).valid /\ msgid \in CatalogOf(file).messages
  /\ InCharset(domain, file) # {}

(* No file on the way before the j-th of the i-th language has it.          *)
NoneBefore(domain, msgid, i, j) ==
  \A k \in DOMAIN guess_category_value : \A l \in DOMAIN Forms(domain, k) :
    OnTheWay(domain, k, l) /\ (k < i \/ (k = i /\ l < j))
      => ~ Serves(domain, msgid, Forms(domain, k)[l])

Unresolvable(domain) == BindingOf(domain).dir \in env.unresolvable

(* The message itself, if there is no translation ...                       *)
IsUntranslated(answer, domain, msgid) ==
  /\ answer = Untranslated
  /\ \/ env.failures \/ Unresolvable(domain)
     \/ NoneBefore(domain, msgid, Len(guess_category_value) + 1, 1)

(* ... or that of the first file that has it in the charset asked for.      *)
IsTranslated(answer, domain, msgid) ==
  \E i \in DOMAIN guess_category_value : \E j \in DOMAIN Forms(domain, i) :
    LET file == Forms(domain, i)[j]
    IN /\ OnTheWay(domain, i, j) /\ ~ Unresolvable(domain)
       /\ Serves(domain, msgid, file)
       /\ \E charset \in InCharset(domain, file) : answer = Answer(file, charset)
       /\ env.failures \/ NoneBefore(domain, msgid, i, j)

IsCurrent(answer, domain, msgid) ==
  IsUntranslated(answer, domain, msgid) \/ IsTranslated(answer, domain, msgid)

(* The known translation of a lookup has its new counter already, and still *)
(* its old text: another thread is between the two assignments.             *)
Torn(key) == \E u \in Callers : at[u] = "update" /\ Key(u) = key

(* A lookup answers what the bindings, the default domain and the files say *)
(* at that moment, also from the known translations of earlier lookups; but *)
(* not one that takes a known translation another thread is updating, which *)
(* may be that of before the last change.  Where memory may fail, the       *)
(* message itself is an answer too, and so is a later file's translation.   *)
AnswersCurrent ==
  [][\A t \in Callers :
       at[t] # "answer" /\ at'[t] = "answer" =>
         \/ IsCurrent(local'[t].answer, local[t].domain, call[t].msgid)
         \/ at[t] = "cached" /\ Torn(Key(t))]_at

(* A file is read by one thread at a time, once for all: what other threads *)
(* have from it is never taken away.                                        *)
LoadedOnce ==
  [][\A f \in DOMAIN decided :
       /\ f \in DOMAIN decided'
       /\ decided[f] # 0 => decided'[f] \in {decided[f], 1}
       /\ decided[f] = 1 => (f \in data' <=> f \in data)]_files

(* Every call returns, however the lookups and the writers take turns.      *)
CallsReturn == \A t \in Callers : at[t] # "out" ~> at[t] = "out"
=============================================================================
