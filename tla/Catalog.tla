------------------------------ MODULE Catalog -------------------------------
(***************************************************************************)
(* The tables of a message catalog: how _nl_load_domain of loadmsgcat.c    *)
(* takes a .mo file in, the strings with system dependent segments         *)
(* included, and how _nl_find_msg of dcigettext.c finds a message in it,   *)
(* by the hash table or by binary search.                                  *)
(*                                                                         *)
(* Strings are sequences of small numbers in the order of strcmp.  Byte    *)
(* order and offsets are left out; a file is a record of its tables, its   *)
(* hash table a function on 0 .. hash_tab_size-1 as msgfmt writes it.      *)
(***************************************************************************)
EXTENDS Integers, Sequences, SequencesExt

CONSTANTS
  SEGMENTS_END,  (* ends the segments of a string                          *)
  Undefined,     (* NULL: a segment name this system does not know         *)
  Invalid,       (* what is left of a file that is not taken in            *)
  inttypes,      (* external: the values of the PRI... macros              *)
  Catalogs,      (* the files                                              *)
  Sought         (* the messages that are looked up                        *)

NoIndex == 0
-----------------------------------------------------------------------------
(***************************************************************************)
(* get_sysdep_segment_value.  A name is a sequence of its parts.           *)
(***************************************************************************)
Conversions == {"d", "i", "o", "u", "x", "X"}
Widths      == {"8", "16", "32", "64"}

Directives ==
  {<<"PRI", c, w>> : c \in Conversions, w \in Widths \cup {"MAX", "PTR"}}
  \cup {<<"PRI", c, k, w>> : c \in Conversions, k \in {"LEAST", "FAST"}, w \in Widths}

get_sysdep_segment_value(name) ==
  IF name \in Directives \cup {<<"I">>} THEN inttypes[name] ELSE Undefined
-----------------------------------------------------------------------------
(***************************************************************************)
(* The hash table: double hashing, as in hash-string.c for strings short   *)
(* enough that nothing is folded back.                                     *)
(***************************************************************************)
__hash_string(s) ==
  LET hval[n \in 0 .. Len(s)] == IF n = 0 THEN 0 ELSE 16 * hval[n - 1] + s[n]
  IN hval[Len(s)]

incr(size, s) == 1 + (__hash_string(s) % (size - 2))

(* The index after idx on the way of a string.                              *)
NextIndex(size, s, idx) ==
  IF idx >= size - incr(size, s) THEN idx - (size - incr(size, s)) ELSE idx + incr(size, s)

(* The indices that are probed for a string, as many as the table has.      *)
Way(size, s) ==
  LET way[k \in 0 .. size - 1] ==
        IF k = 0 THEN __hash_string(s) % size ELSE NextIndex(size, s, way[k - 1])
  IN way

(* The first of the indices stops on the way, or -1: then the loop of the   *)
(* code would not end.                                                      *)
Probe(size, s, stops) ==
  LET way == Way(size, s)
      ks  == {k \in 0 .. size - 1 : way[k] \in stops}
  IN IF ks = {} THEN -1 ELSE way[CHOOSE k \in ks : \A j \in ks : k <= j]

FreeSlots(table) == {i \in DOMAIN table : table[i] = 0}

Insert(table, size, s, entry) == [table EXCEPT ![Probe(size, s, FreeSlots(table))] = entry]
-----------------------------------------------------------------------------
(***************************************************************************)
(* _nl_load_domain: the strings with system dependent segments.            *)
(***************************************************************************)
(* The segments up to the end mark, each a static text and a reference.     *)
References(string) == {p.sysdepref : p \in ToSet(string)} \ {SEGMENTS_END}

Segment(string, values, i) ==
  string[i].text \o IF string[i].sysdepref = SEGMENTS_END THEN <<>>
                    ELSE values[string[i].sysdepref]

Expanded(string, values) ==
  LET text[n \in 0 .. Len(string)] ==
        IF n = 0 THEN <<>> ELSE text[n - 1] \o Segment(string, values, n)
  IN text[Len(string)]

(* In the file, a name of a segment has its NUL.                            *)
NameEnd == "NUL"

BadName(file) ==
  \E i \in DOMAIN file.segments : file.segments[i] = <<>> \/ Last(file.segments[i]) # NameEnd

SegmentValues(file) ==
  [i \in DOMAIN file.segments |-> get_sysdep_segment_value(Front(file.segments[i]))]

(* A pair with a segment this system does not know is dropped.              *)
ValidPair(pair, values) ==
  \A r \in References(pair.orig) \cup References(pair.trans) : values[r] # Undefined

(* A reference behind one that this system does not know is not looked at.  *)
BadReference(string, values) ==
  \E i \in DOMAIN string :
    /\ string[i].sysdepref \notin DOMAIN values \cup {SEGMENTS_END}
    /\ \A j \in 1 .. i - 1 :
         string[j].sysdepref \in DOMAIN values => values[string[j].sysdepref] # Undefined

BadPair(pair, values) ==
  \/ BadReference(pair.orig, values)
  \/ /\ \A r \in References(pair.orig) : values[r] # Undefined
     /\ BadReference(pair.trans, values)

ValidPairs(sysdep, values) ==
  LET pairs[n \in 0 .. Len(sysdep)] ==
        IF n = 0 THEN <<>>
        ELSE IF ValidPair(sysdep[n], values) THEN Append(pairs[n - 1], sysdep[n])
        ELSE pairs[n - 1]
  IN pairs[Len(sysdep)]

Inserted(hash_tab, size, nstrings, orig_sysdep_tab) ==
  LET table[i \in 0 .. Len(orig_sysdep_tab)] ==
        IF i = 0 THEN hash_tab
        ELSE Insert(table[i - 1], size, orig_sysdep_tab[i], nstrings + i)
  IN table[Len(orig_sysdep_tab)]

WithSysdep(file) ==
  LET values == SegmentValues(file)
      pairs  == ValidPairs(file.sysdep, values)
      orig   == [i \in DOMAIN pairs |-> Expanded(pairs[i].orig, values)]
      trans  == [i \in DOMAIN pairs |-> Expanded(pairs[i].trans, values)]
  IN [orig_tab |-> file.orig_tab, trans_tab |-> file.trans_tab, hash_size |-> file.hash_tab_size,
      orig_sysdep_tab |-> orig, trans_sysdep_tab |-> trans,
      hash_tab |-> Inserted(file.hash_tab, file.hash_tab_size, Len(file.orig_tab), orig)]

Without(file) ==
  [orig_tab |-> file.orig_tab, trans_tab |-> file.trans_tab, hash_size |-> file.hash_tab_size,
   orig_sysdep_tab |-> <<>>, trans_sysdep_tab |-> <<>>, hash_tab |-> file.hash_tab]

HasHashTable(domain) == domain.hash_size > 2

(* The major revisions 0 and 1 are known; a minor revision above 0 has      *)
(* system dependent strings, and then must have a hash table.               *)
_nl_load_tables(file) ==
  IF file.major \notin {0, 1} THEN {Invalid}
  ELSE IF file.minor = 0 THEN {Without(file)}
  ELSE IF file.hash_tab_size <= 2 THEN {Invalid}
  ELSE IF file.sysdep # <<>> /\ BadName(file) THEN {Invalid}
  ELSE IF \E pair \in ToSet(file.sysdep) : BadPair(pair, SegmentValues(file)) THEN {Invalid}
  ELSE {WithSysdep(file)} \cup (IF file.sysdep # <<>> /\ WithSysdep(file).orig_sysdep_tab # <<>>
                                  THEN {Invalid} (* malloc fails *) ELSE {})
-----------------------------------------------------------------------------
(***************************************************************************)
(* _nl_find_msg: the index of a message, from 1, or NoIndex.              *)
(***************************************************************************)
Original(domain, n) ==
  IF n <= Len(domain.orig_tab) THEN domain.orig_tab[n]
  ELSE domain.orig_sysdep_tab[n - Len(domain.orig_tab)]

Has(domain, n, msgid) == n # 0 /\ Original(domain, n) = msgid

Hashed(domain, msgid) ==
  LET table == domain.hash_tab
      ends  == {i \in DOMAIN table : table[i] = 0 \/ Has(domain, table[i], msgid)}
      idx   == Probe(domain.hash_size, msgid, ends)
  IN IF idx = -1 THEN -1 ELSE table[idx]

(* strcmp.                                                                  *)
Smaller(s, t) ==
  \E n \in 0 .. Len(s) :
    /\ n < Len(t) /\ \A m \in 1 .. n : s[m] = t[m]
    /\ n = Len(s) \/ s[n + 1] < t[n + 1]

Middle(range) == (range.bottom + range.top) \div 2

(* Deliberately wrong: the upper half ends one string early.                *)
narrowed_below(domain, msgid, range) ==
  IF range.bottom >= range.top THEN range
  ELSE IF Smaller(msgid, domain.orig_tab[Middle(range) + 1])
    THEN [bottom |-> range.bottom, top |-> Middle(range) - 1]
  ELSE IF Smaller(domain.orig_tab[Middle(range) + 1], msgid)
    THEN [bottom |-> Middle(range) + 1, top |-> range.top]
  ELSE range

(* One turn of the binary search; it ends with an empty range, or with the  *)
(* message in the middle.                                                   *)
Narrowed(domain, msgid, range) ==
  IF range.bottom >= range.top THEN range
  ELSE IF Smaller(msgid, domain.orig_tab[Middle(range) + 1])
    THEN [bottom |-> range.bottom, top |-> Middle(range)]
  ELSE IF Smaller(domain.orig_tab[Middle(range) + 1], msgid)
    THEN [bottom |-> Middle(range) + 1, top |-> range.top]
  ELSE range

Ranges(domain, msgid) ==
  LET range[n \in 0 .. Len(domain.orig_tab)] ==
        IF n = 0 THEN [bottom |-> 0, top |-> Len(domain.orig_tab)]
        ELSE Narrowed(domain, msgid, range[n - 1])
  IN range

Search(domain, msgid) ==
  LET last == Ranges(domain, msgid)[Len(domain.orig_tab)]
  IN IF last.bottom >= last.top THEN NoIndex ELSE Middle(last) + 1

_nl_find_msg(domain, msgid) ==
  IF HasHashTable(domain) THEN Hashed(domain, msgid) ELSE Search(domain, msgid)

Translation(domain, msgid) ==
  LET act == _nl_find_msg(domain, msgid)
      nstrings == Len(domain.orig_tab)
  IN IF act = NoIndex THEN Undefined
     ELSE IF act <= nstrings THEN domain.trans_tab[act]
     ELSE domain.trans_sysdep_tab[act - nstrings]
-----------------------------------------------------------------------------
(***************************************************************************)
(* External: what msgfmt writes.  The strings are sorted, each but once;   *)
(* the size of a hash table is a prime above the number of strings, and    *)
(* the strings without segments are in it.                                 *)
(***************************************************************************)
Prime(p) == p > 1 /\ \A a \in 2 .. p - 1, b \in 2 .. p - 1 : a * b # p

WithTable(file) ==
  LET size == file.hash_tab_size
  IN /\ Prime(size) /\ Len(file.orig_tab) + Len(file.sysdep) < size
     /\ file.hash_tab = Inserted([i \in 0 .. size - 1 |-> 0], size, 0, file.orig_tab)

Segmented == Seq([text : Seq(Nat), sysdepref : Nat \cup {SEGMENTS_END}])

WrittenByMsgfmt(file) ==
  /\ file.orig_tab \in Seq(Seq(Nat)) /\ file.sysdep \in Seq([orig : Segmented, trans : Segmented])
  /\ \A m \in DOMAIN file.orig_tab, n \in DOMAIN file.orig_tab :
       m < n => Smaller(file.orig_tab[m], file.orig_tab[n])
  /\ file.hash_tab_size \in Nat /\ (file.hash_tab_size > 2 => WithTable(file))
  /\ SEGMENTS_END \notin DOMAIN file.segments
  /\ \A i \in DOMAIN file.segments :
       LET value == SegmentValues(file)[i]
       IN value # Undefined => value \in Seq(Nat)

ASSUME CatalogAssumption ==
  (\A file \in Catalogs : WrittenByMsgfmt(file)) /\ Sought \subseteq Seq(Nat)
-----------------------------------------------------------------------------
(* The pairs a file means on this system: its own, and those with segments  *)
(* whose every one this system knows.                                       *)
Pairs(file) ==
  LET values == SegmentValues(file)
      Knows(string) == \A r \in References(string) : values[r] # Undefined
  IN {<<file.orig_tab[i], file.trans_tab[i]>> : i \in DOMAIN file.orig_tab}
     \cup (IF file.minor = 0 THEN {}
           ELSE {<<Expanded(p.orig, values), Expanded(p.trans, values)>> :
                   p \in {q \in ToSet(file.sysdep) : Knows(q.orig) /\ Knows(q.trans)}})

(***************************************************************************)
(* A catalog is loaded and then asked for messages, any and in any order.  *)
(***************************************************************************)
VARIABLES
  catalog,   (* the file                                                   *)
  loaded,    (* what has been made of it; Undefined before that            *)
  sought     (* the message looked up last                                 *)

catalogVars == <<catalog, loaded, sought>>

(* It was opened and mapped; who loads it when is in Gettext.               *)
CatalogInit == catalog \in Catalogs /\ loaded = Undefined /\ sought = Undefined

(* Decided, with its tables, or without data where they cannot be taken in. *)
LoadCatalog ==
  /\ loaded = Undefined
  /\ loaded' \in _nl_load_tables(catalog)
  /\ UNCHANGED <<catalog, sought>>

FindMessage ==
  /\ loaded \notin {Undefined, Invalid}
  /\ sought' \in Sought
  /\ UNCHANGED <<catalog, loaded>>

CatalogNext == LoadCatalog \/ FindMessage

CatalogSpec == CatalogInit /\ [][CatalogNext]_catalogVars
-----------------------------------------------------------------------------
FindsMeant(file, domain, msgid) ==
  /\ _nl_find_msg(domain, msgid) # -1
  /\ LET meant == {pair[2] : pair \in {q \in Pairs(file) : q[1] = msgid}}
     IN IF meant = {} THEN Translation(domain, msgid) = Undefined
                      ELSE Translation(domain, msgid) \in meant

(* Every message of a catalog that loadmsgcat.c has taken in is found by    *)
(* dcigettext.c with its translation, no other is, and no search goes round *)
(* in the hash table for ever.                                              *)
FindsItsMessages ==
  loaded \notin {Undefined, Invalid} /\ sought # Undefined => FindsMeant(catalog, loaded, sought)
=============================================================================
