------------------------ MODULE ArrayInstanceProofs ------------------------
(***************************************************************************)
(* Theorems about ArrayInstance, for every choice of its constants: the    *)
(* types and pages, then what the user sees, then what is offered and      *)
(* committed.                                                              *)
(*                                                                         *)
(* A method is a composition of operators on contexts, so the proofs first *)
(* show, operator by operator, that a well-formed context stays one, and   *)
(* then go through the actions once.                                       *)
(***************************************************************************)
EXTENDS ArrayInstance, SequenceTheorems, TLAPS

-----------------------------------------------------------------------------
(***************************************************************************)
(* The table.  TypeOK alone is not inductive: the number of labels is the  *)
(* size of the current page, which is a number only while the page starts  *)
(* inside the list.  That in turn holds because the way back, the history, *)
(* climbs from 0 to below the current start.                               *)
(***************************************************************************)
Inside(t) ==
  /\ t.cands = <<>> => t.start = 0
  /\ t.cands # <<>> => t.start < Len(t.cands)

WayBack(t) ==
  /\ t.start = 0 <=> t.history = <<>>
  /\ t.history # <<>> => t.history[1] = 0
  /\ \A i \in 1 .. Len(t.history) : t.history[i] < t.start
  /\ \A i, j \in 1 .. Len(t.history) : i < j => t.history[i] < t.history[j]

GoodTables == {t \in Tables : t.pageSize > 0 /\ Inside(t) /\ WayBack(t)}

(* A page of any number of candidates has labels. *)
LEMMA LabelsTyped ==
  ASSUME NEW n \in Nat
  PROVE  create_lookup_table_labels(n) \in Seq(Labels)
<1>1. PageSize \in Nat \ {0} /\ \A i \in 1 .. PageSize : LabelKeys[i] \in Labels
  BY KeyAssumption DEF PageSize
<1>2. \A i \in 1 .. n : ((i - 1) % PageSize) + 1 \in 1 .. PageSize
  BY <1>1
<1>3. create_lookup_table_labels(n) \in [1 .. n -> Labels]
  BY <1>1, <1>2 DEF create_lookup_table_labels
<1> QED
  BY <1>3, SeqDef

(* The page inside the list has a size. *)
LEMMA PageSizeTyped ==
  ASSUME NEW t \in GoodTables
  PROVE  CurrentPageSize(t) \in Nat
BY DEF GoodTables, Tables, Inside, CurrentPageSize

(* A table with no history and its page at the start of the list is good. *)
LEMMA FirstPageGood ==
  ASSUME NEW u \in Tables, u.pageSize > 0, u.start = 0, u.history = <<>>
  PROVE  u \in GoodTables
<1>1. u.cands # <<>> => Len(u.cands) > 0
  BY DEF Tables
<1>2. Len(u.history) = 0
  OBVIOUS
<1>3. Inside(u)
  BY <1>1 DEF Inside
<1>4. WayBack(u)
  BY <1>2 DEF WayBack
<1> QED
  BY <1>3, <1>4 DEF GoodTables

(* A table that pages like a good one is good. *)
LEMMA SamePageGood ==
  ASSUME NEW t \in GoodTables, NEW u \in Tables, u.pageSize > 0,
         u.cands = t.cands, u.start = t.start, u.history = t.history
  PROVE  u \in GoodTables
BY DEF GoodTables, Inside, WayBack

LEMMA FillGood ==
  ASSUME NEW t \in GoodTables, NEW words \in Seq(Candidates)
  PROVE  Clear(t) \in GoodTables /\ Fill(t, words) \in GoodTables
<1>0. t \in Tables /\ t.pageSize > 0 /\ <<>> \in Seq(Nat)
      /\ <<>> \in Seq(Candidates)
  BY EmptySeq DEF GoodTables
<1>1. Clear(t) \in Tables /\ Clear(t).pageSize > 0
      /\ Clear(t).start = 0 /\ Clear(t).history = <<>>
  BY <1>0 DEF Tables, Clear
<1>2. Fill(t, words) \in Tables /\ Fill(t, words).pageSize > 0
      /\ Fill(t, words).start = 0 /\ Fill(t, words).history = <<>>
  BY <1>0, <1>1 DEF Tables, Fill
<1> QED
  BY <1>1, <1>2, FirstPageGood

LEMMA FixGood ==
  ASSUME NEW t \in GoodTables, NEW fix \in BOOLEAN
  PROVE  FixPageSize(t, fix) \in GoodTables
<1> DEFINE u == FixPageSize(t, fix)
<1>1. u \in Tables /\ u.pageSize > 0 /\ u.cands = t.cands
      /\ u.start = t.start /\ u.history = t.history
  BY DEF GoodTables, Tables, FixPageSize
<1> QED
  BY <1>1, SamePageGood

LEMMA SizeGood ==
  ASSUME NEW t \in GoodTables, NEW size \in Nat \ {0}
  PROVE  SetPageSize(t, size) \in GoodTables
<1> DEFINE u == SetPageSize(t, size)
<1>1. u \in Tables /\ u.pageSize > 0 /\ u.cands = t.cands
      /\ u.start = t.start /\ u.history = t.history
  BY DEF GoodTables, Tables, SetPageSize
<1> QED
  BY <1>1, SamePageGood

LEMMA RelabelGood ==
  ASSUME NEW t \in GoodTables
  PROVE  Relabel(t) \in GoodTables
<1>1. create_lookup_table_labels(CurrentPageSize(t)) \in Seq(Labels)
  BY PageSizeTyped, LabelsTyped
<1> DEFINE u == Relabel(t)
<1>2. u \in Tables /\ u.pageSize > 0 /\ u.cands = t.cands
      /\ u.start = t.start /\ u.history = t.history
  BY <1>1 DEF GoodTables, Tables, Relabel
<1> QED
  BY <1>2, SamePageGood

(* Paging down climbs by a page; it needs the next page to be there. *)
LEMMA PageDownGood ==
  ASSUME NEW t \in GoodTables, CanPageDown(t)
  PROVE  PageDown(t) \in GoodTables
<1> DEFINE u == PageDown(t)
<1>0. t \in Tables /\ t.pageSize > 0 /\ t.start + t.pageSize \in Nat
      /\ Append(t.history, t.start) \in Seq(Nat)
  BY DEF GoodTables, Tables
<1>1. u \in Tables /\ u.pageSize > 0 /\ u.start = t.start + t.pageSize
      /\ u.cands = t.cands /\ u.history = Append(t.history, t.start)
  BY <1>0 DEF Tables, PageDown
<1>2. Inside(u)
  <2>1. t.start + t.pageSize < Len(t.cands)
    BY DEF CanPageDown
  <2>2. t.cands \in Seq(Candidates) /\ t.cands # <<>>
    BY <2>1 DEF GoodTables, Tables
  <2> QED
    BY <1>1, <2>1, <2>2 DEF Inside
<1>3. WayBack(u)
  <2> DEFINE n == Len(t.history)
  <2>1. t.history \in Seq(Nat) /\ n \in Nat /\ t.start \in Nat
        /\ t.pageSize \in Nat \ {0}
    BY DEF GoodTables, Tables
  <2>a. /\ t.start = 0 <=> t.history = <<>>
        /\ t.history # <<>> => t.history[1] = 0
        /\ \A i \in 1 .. n : t.history[i] < t.start
        /\ \A i, j \in 1 .. n : i < j => t.history[i] < t.history[j]
    BY Zenon DEF GoodTables, WayBack
  <2>b. n = 0 <=> t.history = <<>>
    BY <2>1
  <2> HIDE DEF u
  <2>2. Len(u.history) = n + 1 /\ u.history[n + 1] = t.start
        /\ \A i \in 1 .. n : u.history[i] = t.history[i]
    BY <1>1, <2>1
  <2>3. \A i \in 1 .. n : t.history[i] \in Nat /\ t.history[i] < t.start
    BY <2>1, <2>a
  <2>4. u.start > 0 /\ u.history # <<>>
    <3>1. u.start = t.start + t.pageSize
      BY <1>1, Zenon
    <3>2. u.start > 0
      BY <2>1, <3>1
    <3>3. Len(u.history) # 0
      BY <2>1, <2>2
    <3>4. u.history # <<>>
      BY <3>3
    <3> QED
      BY <3>2, <3>4, Zenon
  <2>5. u.history[1] = 0
    <3>1. CASE n = 0
      <4>1. t.start = 0 /\ n + 1 = 1
        BY <2>a, <2>b, <3>1
      <4> QED
        BY <2>2, <4>1
    <3>2. CASE n > 0
      <4>1. t.history[1] = 0 /\ 1 \in 1 .. n
        BY <2>1, <2>a, <2>b, <3>2
      <4> QED
        BY <2>2, <4>1, Zenon
    <3> QED
      BY <2>1, <3>1, <3>2
  <2>6. ASSUME NEW i \in 1 .. n + 1
        PROVE  u.history[i] < u.start
    <3>1. u.start > t.start /\ u.start \in Nat
      BY <1>1, <2>1
    <3>2. CASE i = n + 1
      BY <2>2, <3>1, <3>2
    <3>3. CASE i \in 1 .. n
      <4>1. u.history[i] = t.history[i]
        BY <2>2, <3>3, Zenon
      <4>2. t.history[i] \in Nat /\ t.history[i] < t.start
        BY <2>3, <3>3, Zenon
      <4> QED
        BY <2>1, <3>1, <4>1, <4>2
    <3>4. n \in Nat
      BY <2>1, Zenon
    <3> HIDE DEF n
    <3>5. i = n + 1 \/ i \in 1 .. n
      BY <3>4
    <3> QED
      BY <3>2, <3>3, <3>5, Zenon
  <2>7. ASSUME NEW i \in 1 .. n + 1, NEW j \in 1 .. n + 1, i < j
        PROVE  u.history[i] < u.history[j]
    <3>2. CASE j = n + 1
      <4>1. i \in 1 .. n
        BY <2>1, <2>7, <3>2
      <4> QED
        BY <2>2, <2>3, <3>2, <4>1
    <3>3. CASE j \in 1 .. n
      <4>1. i \in 1 .. n
        BY <2>1, <2>7, <3>3
      <4>2. t.history[i] < t.history[j]
        BY <2>7, <2>a, <3>3, <4>1, Zenon
      <4> QED
        BY <2>2, <3>3, <4>1, <4>2, Zenon
    <3> QED
      BY <2>1, <3>2, <3>3
  <2> QED
    BY <2>2, <2>4, <2>5, <2>6, <2>7 DEF WayBack
<1> QED
  BY <1>1, <1>2, <1>3 DEF GoodTables

(* Paging up goes down the history by one. *)
LEMMA PageUpGood ==
  ASSUME NEW t \in GoodTables
  PROVE  PageUp(t) \in GoodTables
<1>1. CASE ~CanPageUp(t)
  BY <1>1 DEF PageUp
<1>2. CASE CanPageUp(t)
  <2> DEFINE u == PageUp(t)
             n == Len(t.history)
  <2>1. n \in Nat \ {0} /\ t.history \in Seq(Nat) /\ t.start \in Nat
        /\ t.history[n] \in Nat
    BY <1>2 DEF GoodTables, Tables, CanPageUp
  <2>2. SubSeq(t.history, 1, n - 1) \in Seq(Nat)
        /\ Len(SubSeq(t.history, 1, n - 1)) = n - 1
        /\ \A i \in 1 .. n - 1 : SubSeq(t.history, 1, n - 1)[i] = t.history[i]
    <3> DEFINE h == t.history
    <3>1. h \in Seq(Nat) /\ n = Len(h) /\ n \in Nat /\ n >= 1
      BY <2>1
    <3> HIDE DEF h, n
    <3> QED
      BY <3>1 DEF h
  <2>3. u \in Tables /\ u.pageSize > 0 /\ u.start = t.history[n]
        /\ u.cands = t.cands /\ u.history = SubSeq(t.history, 1, n - 1)
    BY <1>2, <2>1, <2>2 DEF GoodTables, Tables, PageUp
  <2> HIDE DEF u, n
  <2>4. /\ t.history[1] = 0 /\ t.cands # <<>> /\ t.start < Len(t.cands)
        /\ \A i \in 1 .. n : t.history[i] \in Nat /\ t.history[i] < t.start
        /\ \A i, j \in 1 .. n : i < j => t.history[i] < t.history[j]
    <3>1. /\ t.history # <<>> => t.history[1] = 0
          /\ \A i \in 1 .. n : t.history[i] < t.start
          /\ \A i, j \in 1 .. n : i < j => t.history[i] < t.history[j]
      BY Zenon DEF GoodTables, WayBack, n
    <3>2. t.history # <<>> /\ \A i \in 1 .. n : t.history[i] \in Nat
      BY <2>1 DEF n
    <3>3. n \in 1 .. n
      BY <2>1
    <3>4. t.start > 0
      BY <2>1, <3>1, <3>2, <3>3
    <3>5. t.cands # <<>> /\ t.start < Len(t.cands)
      BY <3>4 DEF GoodTables, Inside
    <3> QED
      BY <3>1, <3>2, <3>5
  <2>5. Inside(u)
    BY <2>1, <2>3, <2>4 DEF GoodTables, Tables, Inside
  <2>6. n = 1 => u.history = <<>> /\ u.start = 0
    BY <2>1, <2>2, <2>3, <2>4
  <2>7. n > 1 => u.history # <<>> /\ u.start > 0 /\ u.history[1] = 0
    <3>1. n > 1 => 1 \in 1 .. n - 1 /\ 1 \in 1 .. n /\ n \in 1 .. n
      BY <2>1
    <3>2. n > 1 => t.history[1] < t.history[n] /\ u.history[1] = t.history[1]
      BY <2>2, <2>3, <2>4, <3>1
    <3>3. n > 1 => u.start > 0
      BY <2>1, <2>3, <2>4, <3>1, <3>2
    <3>4. n > 1 => Len(u.history) > 0
      BY <2>1, <2>2, <2>3
    <3>5. n > 1 => u.history # <<>>
      BY <3>4
    <3> QED
      BY <2>4, <3>2, <3>3, <3>5
  <2>8. ASSUME NEW i \in 1 .. n - 1
        PROVE  u.history[i] < u.start
    <3>1. i \in 1 .. n /\ n \in 1 .. n /\ i < n
      BY <2>1
    <3>2. t.history[i] < t.history[n]
      BY <2>4, <3>1
    <3> QED
      BY <2>2, <2>3, <3>2
  <2>9. ASSUME NEW i \in 1 .. n - 1, NEW j \in 1 .. n - 1, i < j
        PROVE  u.history[i] < u.history[j]
    <3>1. i \in 1 .. n /\ j \in 1 .. n
      BY <2>1
    <3>2. t.history[i] < t.history[j]
      BY <2>4, <2>9, <3>1
    <3> QED
      BY <2>2, <2>3, <3>2
  <2>10. WayBack(u)
    <3>1. n = 1 \/ n > 1
      BY <2>1
    <3>2. Len(u.history) = n - 1
      BY <2>2, <2>3
    <3>3. u.start = 0 <=> u.history = <<>>
      <4>1. u.start > 0 => u.start # 0
        BY <2>1, <2>3
      <4> QED
        BY <2>6, <2>7, <3>1, <4>1
    <3>4. u.history # <<>> => u.history[1] = 0
      BY <2>6, <2>7, <3>1
    <3> QED
      BY <2>8, <2>9, <3>2, <3>3, <3>4 DEF WayBack
  <2> QED
    BY <2>3, <2>5, <2>10 DEF GoodTables, u
<1> QED
  BY <1>1, <1>2

LEMMA RewindGood ==
  ASSUME NEW t \in GoodTables
  PROVE  Rewind(t) \in GoodTables
<1>1. CASE ~CanPageUp(t)
  BY <1>1 DEF Rewind
<1>2. CASE CanPageUp(t)
  <2>1. t.history[1] = 0
    BY <1>2 DEF GoodTables, WayBack, CanPageUp
  <2>2. Rewind(t) \in Tables /\ Rewind(t).pageSize > 0
        /\ Rewind(t).start = 0 /\ Rewind(t).history = <<>>
    <3>1. t \in Tables /\ t.pageSize > 0 /\ <<>> \in Seq(Nat)
      BY EmptySeq DEF GoodTables
    <3>2. Rewind(t) = [t EXCEPT !.start = 0, !.history = <<>>]
      BY <1>2, <2>1 DEF Rewind
    <3>3. [t EXCEPT !.start = 0, !.history = <<>>] \in Tables
      BY <3>1 DEF Tables
    <3> QED
      BY <3>1, <3>2, <3>3 DEF Tables
  <2> QED
    BY <2>2, FirstPageGood
<1> QED
  BY <1>1, <1>2

(* An index beyond the list finds the empty string. *)
LEMMA CandidateTyped ==
  ASSUME NEW t \in GoodTables, NEW i \in Nat
  PROVE  CandidateInPage(t, i) \in Candidates \cup {NoWord}
BY DEF GoodTables, Tables, CandidateInPage
-----------------------------------------------------------------------------
(***************************************************************************)
(* Lookups.                                                                *)
(***************************************************************************)
LEMMA FindTyped ==
  ASSUME NEW codes, NEW words, NEW cin, IsCin(cin, codes, words), NEW key
  PROVE  /\ Find(cin, key) \in Seq(words)
         /\ Find(cin, key) # <<>> =>
              key \in codes /\ cin[key] = Find(cin, key)
              /\ Head(cin[key]) \in words
<1>1. CASE key \in DOMAIN cin
  BY <1>1 DEF IsCin, Find
<1>2. CASE key \notin DOMAIN cin
  BY <1>2, EmptySeq DEF Find
<1> QED
  BY <1>1, <1>2

LEMMA KeyNamesTyped ==
  ASSUME NEW p \in Codes
  PROVE  KeyNames(p) \in Seq(KeyChars \cup {NoLabel})
<1>1. Len(p) \in Nat /\ \A i \in 1 .. Len(p) : p[i] \in KeyChars
  BY DEF Codes
<1>2. KeyNames(p) \in [1 .. Len(p) -> KeyChars \cup {NoLabel}]
  BY <1>1 DEF KeyNames, key_to_keyname
<1> QED
  BY <1>1, <1>2, SeqDef

(* The list a code opens is never empty: a hole at the least. *)
LEMMA WordsTyped ==
  ASSUME NEW p \in Codes, NEW name \in CinNames
  PROVE  OrHole(WordsOf(name, p)) \in Seq(Candidates) \ {<<>>}
<1>1. WordsOf(name, p) \in Seq(Candidates)
  BY FindTyped, TableAssumption DEF WordsOf
<1>2. <<Hole>> \in Seq(Candidates)
  BY DEF Candidates
<1> QED
  BY <1>1, <1>2 DEF OrHole

LEMMA PhrasesTyped ==
  ASSUME NEW p \in Codes
  PROVE  OrHole(PhrasesOf(p)) \in Seq(Candidates) \ {<<>>}
<1>1. /\ Find(arrayCins["UserPhrases"], p) \in Seq(Candidates)
      /\ Find(arrayCins["Phrases"], p) \in Seq(Candidates)
  BY FindTyped, TableAssumption DEF CinNames
<1>2. PhrasesOf(p) \in Seq(Candidates)
  BY <1>1, EmptySeq DEF PhrasesOf
<1>3. <<Hole>> \in Seq(Candidates)
  BY DEF Candidates
<1> QED
  BY <1>2, <1>3 DEF OrHole
-----------------------------------------------------------------------------
(***************************************************************************)
(* Contexts.                                                               *)
(***************************************************************************)
Compositions ==
  [preedit : Codes, table : GoodTables, presses : Nat, panel : Panels,
   commit : Commits]

(* What is drawn changes nothing of the rest. *)
LEMMA ScreenTyped ==
  ASSUME NEW c \in Compositions
  PROVE  /\ hide_lookup_table(c) \in Compositions
         /\ hide_preedit_string(c) \in Compositions
         /\ hide_aux_string(c) \in Compositions
         /\ show_lookup_table(c) \in Compositions
         /\ show_preedit_string(c) \in Compositions
BY DEF Compositions, Panels, hide_lookup_table, hide_preedit_string,
       hide_aux_string, show_lookup_table, show_preedit_string

LEMMA DrawTyped ==
  ASSUME NEW c \in Compositions
  PROVE  /\ update_lookup_table(c) \in Compositions
         /\ pre_update_preedit_string(c) \in Compositions
<1>1. Drawing(c.table) \in Drawings
  BY DEF Compositions, GoodTables, Tables, Drawing, Drawings
<1>2. KeyNames(c.preedit) \in Seq(KeyChars \cup {NoLabel})
  BY KeyNamesTyped DEF Compositions
<1> QED
  BY <1>1, <1>2 DEF Compositions, Panels, update_lookup_table,
                    pre_update_preedit_string

LEMMA NoteTyped ==
  ASSUME NEW c \in Compositions, NEW note \in Notes
  PROVE  show_note(c, note) \in Compositions
BY DEF Compositions, Panels, show_note

LEMMA TableTyped ==
  ASSUME NEW c \in Compositions, NEW t \in GoodTables
  PROVE  [c EXCEPT !.table = t] \in Compositions
BY DEF Compositions

LEMMA ResetTyped ==
  ASSUME NEW c \in Compositions
  PROVE  reset(c) \in Compositions
<1> DEFINE r == [c EXCEPT !.preedit = <<>>,
                          !.table   = FixPageSize(Clear(@), TRUE),
                          !.presses = 0]
<1>1. FixPageSize(Clear(c.table), TRUE) \in GoodTables
  <2>1. Clear(c.table) \in GoodTables
    BY FillGood, EmptySeq DEF Compositions
  <2> QED
    BY <2>1, FixGood
<1>2. r \in Compositions
  BY <1>1, EmptySeq DEF Compositions, Codes
<1> QED
  BY <1>2, ScreenTyped DEF reset

LEMMA NotesTyped ==
  ASSUME NEW c \in Compositions, NEW inkey, NEW w
  PROVE  /\ show_special_code(c, inkey, w) \in Compositions
         /\ show_pre_special_code(c) \in Compositions
<1>1. Find(specialCodes, w) # <<>> => Note(w, Head(specialCodes[w])) \in Notes
  BY FindTyped, TableAssumption DEF Note, Notes
<1>2. Find(specialChars, c.preedit) # <<>> =>
        Note(Head(specialChars[c.preedit]), c.preedit) \in Notes
  BY FindTyped, TableAssumption DEF Note, Notes
<1>3. hide_aux_string(c) \in Compositions
  BY ScreenTyped
<1> QED
  BY <1>1, <1>2, <1>3, NoteTyped DEF show_special_code, show_pre_special_code

LEMMA CommitTyped ==
  ASSUME NEW c \in Compositions, NEW keysLeft,
         NEW w \in Candidates \cup {NoWord}
  PROVE  /\ commit_string(c, w) \in Compositions
         /\ send_commit_string(c, keysLeft, w) \in Compositions
<1>1. Word(w) \in Commits
  BY DEF Word, Commits, Texts
<1>2. commit_string(c, w) \in Compositions
  BY <1>1 DEF commit_string, Compositions
<1> QED
  BY <1>2, ResetTyped, NotesTyped DEF send_commit_string

LEMMA FirstTyped ==
  ASSUME NEW c \in Compositions
  PROVE  First(c) \in Candidates \cup {NoWord}
BY CandidateTyped DEF First, Compositions

LEMMA ListTyped ==
  ASSUME NEW c \in Compositions
  PROVE  /\ \A name \in CinNames : create_lookup_table(c, name) \in Compositions
         /\ create_phrase_lookup_table(c) \in Compositions
<1>1. c.preedit \in Codes /\ c.table \in GoodTables
  BY DEF Compositions
<1>2. PageSize \in Nat \ {0}
  BY KeyAssumption DEF PageSize
<1>3. ASSUME NEW name \in CinNames
      PROVE  create_lookup_table(c, name) \in Compositions
  <2> DEFINE words == OrHole(WordsOf(name, c.preedit))
             size  == IF Len(words) <= PageSize THEN Len(words) ELSE PageSize
  <2>1. words \in Seq(Candidates) \ {<<>>}
    BY <1>1, <1>3, WordsTyped
  <2>2. size \in Nat \ {0}
    BY <1>2, <2>1
  <2> HIDE DEF words, size
  <2>3. Relabel(SetPageSize(Fill(c.table, words), size)) \in GoodTables
    BY <1>1, <2>1, <2>2, FillGood, SizeGood, RelabelGood
  <2> QED
    BY <2>3, TableTyped DEF create_lookup_table, words, size
<1>4. create_phrase_lookup_table(c) \in Compositions
  <2> DEFINE words == OrHole(PhrasesOf(c.preedit))
  <2>1. words \in Seq(Candidates) \ {<<>>}
    BY <1>1, PhrasesTyped
  <2> HIDE DEF words
  <2>2. Relabel(FixPageSize(SetPageSize(Fill(c.table, words), PageSize), FALSE))
          \in GoodTables
    BY <1>1, <1>2, <2>1, FillGood, SizeGood, FixGood, RelabelGood
  <2> QED
    BY <2>2, TableTyped DEF create_phrase_lookup_table, words
<1> QED
  BY <1>3, <1>4

LEMMA ProcessTyped ==
  ASSUME NEW c \in Compositions
  PROVE  /\ process_preedit_string(c) \in Compositions
         /\ process_symbol_preedit_string(c) \in Compositions
<1>1. {"Short", "Table"} \subseteq CinNames
  BY DEF CinNames
<1>2. hide_lookup_table(hide_preedit_string(c)) \in Compositions
      /\ hide_lookup_table(c) \in Compositions
  BY ScreenTyped
<1>3. show_pre_special_code(create_lookup_table(c, "Short")) \in Compositions
      /\ hide_aux_string(create_lookup_table(c, "Table")) \in Compositions
      /\ create_lookup_table(c, "Table") \in Compositions
  BY <1>1, ListTyped, NotesTyped, ScreenTyped
<1>4. \A d \in Compositions :
        show_lookup_table(update_lookup_table(d)) \in Compositions
  BY DrawTyped, ScreenTyped
<1>5. process_symbol_preedit_string(c) \in Compositions
  BY <1>3, <1>4 DEF process_symbol_preedit_string
<1>6. process_preedit_string(c) \in Compositions
  BY <1>2, <1>3, <1>4 DEF process_preedit_string
<1> QED
  BY <1>5, <1>6

LEMMA PagedTyped ==
  ASSUME NEW c \in Compositions
  PROVE  /\ lookup_table_page_up(c) \in Compositions
         /\ lookup_table_page_down(c) \in Compositions
<1>1. c.table \in GoodTables
  BY DEF Compositions
<1>2. ASSUME NEW t \in GoodTables
      PROVE  Paged(c, t) \in Compositions
  <2>1. Relabel(t) \in GoodTables
    BY RelabelGood
  <2> QED
    BY <2>1, TableTyped, DrawTyped DEF Paged
<1>3. PageUp(c.table) \in GoodTables /\ Rewind(c.table) \in GoodTables
      /\ (CanPageDown(c.table) => PageDown(c.table) \in GoodTables)
  BY <1>1, PageUpGood, PageDownGood, RewindGood
<1> QED
  BY <1>2, <1>3 DEF lookup_table_page_up, lookup_table_page_down

LEMMA KeyTyped ==
  ASSUME NEW c \in Compositions, NEW ch \in KeyChars
  PROVE  push_back(c, ch) \in Compositions
BY DEF Compositions, Codes, push_back

LEMMA PressTyped ==
  ASSUME NEW c \in Compositions
  PROVE  [c EXCEPT !.presses = @ + 1] \in Compositions
BY DEF Compositions

LEMMA RootTypedTyped ==
  ASSUME NEW c \in Compositions, NEW ch \in KeyChars
  PROVE  /\ CommitAhead(c) \in Compositions
         /\ RootTyped(c, ch) \in Compositions
<1>1. CommitAhead(c) \in Compositions
  BY FirstTyped, ResetTyped, CommitTyped DEF CommitAhead
<1>2. Opened(c) \in Compositions
  BY ScreenTyped DEF Opened
<1>3. push_back(Opened(c), ch) \in Compositions
  BY <1>2, KeyTyped
<1> QED
  BY <1>1, <1>3, DrawTyped, ProcessTyped DEF RootTyped

LEMMA ListedTyped ==
  ASSUME NEW c \in Compositions
  PROVE  Listed(c) \in Compositions
<1> DEFINE l == update_lookup_table(create_lookup_table(c, "Table"))
<1>1. l \in Compositions
  BY ListTyped, DrawTyped DEF CinNames
<1>2. show_lookup_table(l) \in Compositions /\ hide_lookup_table(l) \in Compositions
  BY <1>1, ScreenTyped
<1>3. [show_lookup_table(l) EXCEPT !.presses = @ + 1] \in Compositions
  BY <1>2, PressTyped
<1>4. send_commit_string(hide_lookup_table(l), l.preedit, First(l)) \in Compositions
  BY <1>1, <1>2, FirstTyped, CommitTyped
<1> HIDE DEF l
<1> QED
  BY <1>2, <1>3, <1>4 DEF Listed, l
-----------------------------------------------------------------------------
(***************************************************************************)
(* The type invariant.                                                     *)
(***************************************************************************)
TypeInv ==
  /\ TypeOK
  /\ m_lookup_table \in GoodTables

LEMMA NowTyped ==
  ASSUME TypeInv
  PROVE  Now \in Compositions
<1>1. Nothing \in Commits
  BY DEF Nothing, Commits, Texts
<1> QED
  BY <1>1 DEF TypeInv, TypeOK, Now, Compositions

(* A call that ends in a well-formed context keeps its share of TypeInv. *)
Instance ==
  /\ m_preedit_string \in Codes /\ m_lookup_table \in GoodTables
  /\ commit_press_count \in Nat /\ panel \in Panels
  /\ reply \in [handled : BOOLEAN, commit : Commits]

Surroundings ==
  /\ m_forward \in BOOLEAN /\ m_full_width_letter \in BOOLEAN
  /\ config \in Configurations
  /\ m_use_phrases \in BOOLEAN /\ user_phrases \in BOOLEAN
  /\ resize \in PanelPageSizes \cup {0}

LEMMA TypeInvParts == TypeInv <=> Instance /\ Surroundings
<1>1. GoodTables \subseteq Tables
  BY DEF GoodTables
<1> QED
  BY <1>1 DEF TypeInv, TypeOK, Instance, Surroundings

LEMMA TypeInvPartsPrime == TypeInv' <=> Instance' /\ Surroundings'
<1>1. GoodTables \subseteq Tables
  BY DEF GoodTables
<1> QED
  BY <1>1 DEF TypeInv, TypeOK, Instance, Surroundings

LEMMA BecomesTyped ==
  ASSUME NEW c \in Compositions, NEW handled \in BOOLEAN, Becomes(c, handled)
  PROVE  Instance'
BY DEF Becomes, Instance, Compositions

LEMMA SurroundingsKept ==
  ASSUME Surroundings, OnlyComposition \/ ToggleStatus \/ ToggleLetter
  PROVE  Surroundings'
BY DEF Surroundings, OnlyComposition, ToggleStatus, ToggleLetter, modes, factory

LEMMA CommittedTyped ==
  ASSUME NEW c \in Compositions, NEW ch \in Printables, NEW full \in BOOLEAN
  PROVE  [c EXCEPT !.commit = Typed(ch, full)] \in Compositions
BY DEF Compositions, Commits, Texts, Typed

LEMMA SelectTyped ==
  ASSUME NEW d \in Digits
  PROVE  SelectNum(d) \in 0 .. PageSize - 1 /\ LabelKeys[SelectNum(d) + 1] = d
<1>1. PageSize \in Nat
  BY KeyAssumption DEF PageSize
<1>2. PICK i \in 1 .. PageSize : LabelKeys[i] = d
  BY DEF Digits
<1>3. i - 1 \in 0 .. PageSize - 1 /\ LabelKeys[(i - 1) + 1] = d
  BY <1>1, <1>2
<1> QED
  BY <1>3 DEF SelectNum

(* Every case of process_key_event, whatever the key. *)
LEMMA KeyEventTyped ==
  ASSUME TypeInv, NEW k, process_key_event(k)
  PROVE  TypeInv'
<1> DEFINE c == Now
<1>1. c \in Compositions /\ Instance /\ Surroundings
  BY NowTyped, TypeInvParts
<1>2. \A d \in Compositions, handled \in BOOLEAN :
        /\ Becomes(d, handled)
        /\ OnlyComposition \/ ToggleStatus \/ ToggleLetter
        => TypeInv'
  BY <1>1, BecomesTyped, SurroundingsKept, TypeInvPartsPrime
<1> HIDE DEF c
<1>3. ASSUME KeyRelease(k)  PROVE TypeInv'
  BY <1>1, <1>2, <1>3 DEF KeyRelease, c
<1>4. ASSUME HotKey(k)  PROVE TypeInv'
  BY <1>1, <1>2, <1>4, ResetTyped DEF HotKey, c
<1>5. ASSUME ForwardKey(k)  PROVE TypeInv'
  <2>1. Nothing \in Commits
    BY DEF Nothing, Commits, Texts
  <2>2. [c EXCEPT !.commit = Nothing] \in Compositions
    BY <1>1, <2>1 DEF Compositions
  <2>3. k.code \in Printables =>
          [c EXCEPT !.commit = Typed(k.code, TRUE)] \in Compositions
    BY <1>1, CommittedTyped
  <2>4. (m_full_width_letter /\ k.code \in Printables) \in BOOLEAN
    BY <1>1 DEF Surroundings
  <2> QED
    BY <1>2, <1>5, <2>2, <2>3, <2>4 DEF ForwardKey, c
<1>6. ASSUME EscapeKey(k)  PROVE TypeInv'
  BY <1>1, <1>2, <1>6, ResetTyped DEF EscapeKey, c
<1>7. ASSUME BackSpaceKey(k)  PROVE TypeInv'
  <2>1. c.preedit # <<>>
    BY <1>7 DEF BackSpaceKey, IsBackSpace, Composing, Now, c
  <2>2. SubSeq(c.preedit, 1, Len(c.preedit) - 1) \in Codes
    BY <1>1, <2>1 DEF Compositions, Codes
  <2>3. Erased(c) \in Compositions
    BY <1>1, <2>2 DEF Compositions, Erased
  <2> QED
    BY <1>2, <1>7, <2>3, DrawTyped, ProcessTyped DEF BackSpaceKey, c
<1>8. ASSUME RootKey(k)  PROVE TypeInv'
  <2>1. k.code \in KeyChars
    BY <1>8 DEF RootKey, IsRoot, KeyChars
  <2>2. RootTyped(CommitAhead(c), k.code) \in Compositions
    BY <1>1, <2>1, RootTypedTyped
  <2> QED
    BY <1>1, <1>2, <1>8, <2>2 DEF RootKey, c
<1>9. ASSUME ApostropheKey(k)  PROVE TypeInv'
  <2>1. [create_phrase_lookup_table(c) EXCEPT !.presses = @ + 1] \in Compositions
    BY <1>1, ListTyped, PressTyped
  <2>2. phrase_key_press(c) \in Compositions
    BY <2>1, ScreenTyped, DrawTyped DEF phrase_key_press
  <2> QED
    BY <1>2, <1>9, <2>2 DEF ApostropheKey, c
<1>10. ASSUME WildcardKey(k)  PROVE TypeInv'
  <2>1. k.code \in KeyChars
    BY <1>10 DEF WildcardKey, KeyChars
  <2>2. push_back(hide_lookup_table(c), k.code) \in Compositions
    BY <1>1, <2>1, ScreenTyped, KeyTyped
  <2> QED
    BY <1>2, <1>10, <2>2, DrawTyped, ProcessTyped DEF WildcardKey, c
<1>11. ASSUME DigitKey(k)  PROVE TypeInv'
  <2> DEFINE chosen == CandidateInPage(m_lookup_table, SelectNum(k.code))
  <2>1. k.code \in Digits /\ k.code \in KeyChars
    BY <1>11 DEF DigitKey, KeyChars
  <2>2. SelectNum(k.code) \in Nat
    BY <2>1, SelectTyped
  <2>3. chosen \in Candidates \cup {NoWord}
    BY <1>1, <2>2, CandidateTyped DEF Instance
  <2>4. push_back(c, k.code) \in Compositions
    BY <1>1, <2>1, KeyTyped
  <2>5. process_symbol_preedit_string(
          pre_update_preedit_string(push_back(c, k.code))) \in Compositions
    BY <2>4, DrawTyped, ProcessTyped
  <2>6. send_commit_string(c, m_preedit_string, chosen) \in Compositions
    BY <1>1, <2>3, CommitTyped
  <2> HIDE DEF chosen
  <2> QED
    BY <1>1, <1>2, <1>11, <2>5, <2>6 DEF DigitKey, c, chosen
<1>12. ASSUME SpacePages(k)  PROVE TypeInv'
  BY <1>1, <1>2, <1>12, PagedTyped DEF SpacePages, c
<1>13. ASSUME SpaceCommits(k)  PROVE TypeInv'
  <2>1. send_commit_string(c, m_preedit_string, First(c)) \in Compositions
        /\ hide_lookup_table(c) \in Compositions
    BY <1>1, FirstTyped, CommitTyped, ScreenTyped
  <2> QED
    BY <1>2, <1>13, <2>1 DEF SpaceCommits, c
<1>14. ASSUME SpaceLists(k)  PROVE TypeInv'
  BY <1>1, <1>2, <1>14, ListedTyped DEF SpaceLists, c
<1>15. ASSUME OtherKey(k)  PROVE TypeInv'
  <2>1. PageTurned(k) \in Compositions
    BY <1>1, PagedTyped DEF PageTurned, c
  <2>2. PassedThrough(k) =>
          [PageTurned(k) EXCEPT !.commit = Typed(k.code, m_full_width_letter)]
            \in Compositions
    BY <1>1, <2>1, CommittedTyped DEF PassedThrough, Surroundings
  <2>3. Composing \in BOOLEAN
    BY DEF Composing
  <2> QED
    BY <1>2, <1>15, <2>1, <2>2, <2>3 DEF OtherKey
<1> QED
  BY <1>3, <1>4, <1>5, <1>6, <1>7, <1>8, <1>9, <1>10, <1>11, <1>12, <1>13,
     <1>14, <1>15 DEF process_key_event

(* Every step keeps the type invariant and the pages inside the list. *)
LEMMA TypeInvStep ==
  ASSUME TypeInv, [Next]_vars
  PROVE  TypeInv'
<1>1. Now \in Compositions /\ Instance /\ Surroundings
  BY NowTyped, TypeInvParts
<1>2. \A d \in Compositions :
        /\ Becomes(d, FALSE)
        /\ OnlyComposition \/ ToggleStatus \/ ToggleLetter
        => TypeInv'
  BY <1>1, BecomesTyped, SurroundingsKept, TypeInvPartsPrime
<1>3. CommitsNothing => reply' \in [handled : BOOLEAN, commit : Commits]
  BY DEF CommitsNothing, Nothing, Commits, Texts
<1>4. ASSUME NEW k \in Keys, process_key_event(k)  PROVE TypeInv'
  BY <1>4, KeyEventTyped
<1>5. ASSUME NEW item \in 0 .. PageSize - 1, select_candidate(item)
      PROVE  TypeInv'
  BY <1>5, KeyEventTyped DEF select_candidate
<1>6. ASSUME PanelPages  PROVE TypeInv'
  BY <1>1, <1>2, <1>6, PagedTyped DEF PanelPages
<1>7. ASSUME focus_in  PROVE TypeInv'
  <2> DEFINE drawn == show_preedit_string(pre_update_preedit_string(Now))
  <2>1. drawn \in Compositions
        /\ show_lookup_table(update_lookup_table(drawn)) \in Compositions
    BY <1>1, DrawTyped, ScreenTyped
  <2> HIDE DEF drawn
  <2> QED
    BY <1>1, <1>2, <1>7, <2>1 DEF focus_in, drawn
<1>8. ASSUME focus_out  PROVE TypeInv'
  BY <1>1, <1>2, <1>8, ResetTyped DEF focus_out
<1>9. ASSUME trigger_property  PROVE TypeInv'
  BY <1>1, <1>2, <1>9, ResetTyped DEF trigger_property
<1>10. ASSUME NEW size \in PanelPageSizes, PanelAsksPageSize(size)
       PROVE  TypeInv'
  BY <1>1, <1>3, <1>10, TypeInvPartsPrime
     DEF PanelAsksPageSize, Instance, Surroundings, instance, modes, factory
<1>11. ASSUME update_lookup_table_page_size  PROVE TypeInv'
  <2>1. resize \in Nat \ {0}
    BY <1>1, <1>11, BoundAssumption DEF update_lookup_table_page_size, Surroundings
  <2>2. SetPageSize(Now.table, resize) \in GoodTables
    BY <1>1, <2>1, SizeGood DEF Compositions
  <2>3. [Now EXCEPT !.table = SetPageSize(@, resize)] \in Compositions
    BY <1>1, <2>2, TableTyped
  <2>4. Instance'
    BY <1>11, <2>3, BecomesTyped DEF update_lookup_table_page_size
  <2>5. Surroundings'
    BY <1>1, <1>11 DEF update_lookup_table_page_size, Surroundings, modes, factory
  <2> QED
    BY <2>4, <2>5, TypeInvPartsPrime
<1>12. ASSUME NEW cfg \in Configurations, reload_config(cfg)
       PROVE  TypeInv'
  BY <1>1, <1>3, <1>12, TypeInvPartsPrime
     DEF reload_config, Instance, Surroundings, instance, modes
<1>13. ASSUME UNCHANGED vars  PROVE TypeInv'
  BY <1>1, <1>13, TypeInvPartsPrime
     DEF vars, Instance, Surroundings, instance, modes, factory
<1> QED
  BY <1>4, <1>5, <1>6, <1>7, <1>8, <1>9, <1>10, <1>11, <1>12, <1>13 DEF Next

LEMMA TypeInvInit ==
  ASSUME Init
  PROVE  TypeInv
<1>1. PageSize \in Nat \ {0}
  BY KeyAssumption DEF PageSize
<1>2. /\ <<>> \in Seq(Candidates) /\ <<>> \in Seq(Nat) /\ <<>> \in Seq(Labels)
      /\ <<>> \in Codes /\ <<>> \in Seq(KeyChars \cup {NoLabel})
  BY EmptySeq DEF Codes
<1>3. EmptyTable(PageSize) \in Tables
  BY <1>1, <1>2 DEF EmptyTable, Tables
<1>4. EmptyTable(PageSize) \in GoodTables
  <2>1. /\ EmptyTable(PageSize).pageSize > 0 /\ EmptyTable(PageSize).start = 0
        /\ EmptyTable(PageSize).history = <<>>
    BY <1>1 DEF EmptyTable
  <2> QED
    BY <1>3, <2>1, FirstPageGood
<1>5. Drawing(EmptyTable(PageSize)) \in Drawings
  BY <1>3 DEF Drawing, Drawings, Tables
<1>6. NoNote \in Notes
  BY <1>2 DEF NoNote, Notes
<1>7. Nothing \in Commits
  BY DEF Nothing, Commits, Texts
<1>8. Instance
  BY <1>2, <1>4, <1>5, <1>6, <1>7 DEF Init, Instance, Panels
<1>9. Surroundings
  BY DEF Init, Surroundings
<1> QED
  BY <1>8, <1>9, TypeInvParts

(* The reachable states are well typed, for every choice of keys, tables,   *)
(* configurations, code length and page sizes.                              *)
THEOREM TypeCorrect == Spec => []TypeOK
<1>1. Init => TypeInv
  BY TypeInvInit
<1>2. TypeInv /\ [Next]_vars => TypeInv'
  BY TypeInvStep
<1>3. TypeInv => TypeOK
  BY DEF TypeInv
<1> QED
  BY <1>1, <1>2, <1>3, PTL DEF Spec

(* Whatever page sizes the panel asks for and whenever it does, the current *)
(* page starts inside the list and the way back ends at the first page.     *)
THEOREM PagesStayInside == Spec => []PageInside
<1>1. Init => TypeInv
  BY TypeInvInit
<1>2. TypeInv /\ [Next]_vars => TypeInv'
  BY TypeInvStep
<1>3. TypeInv => PageInside
  BY DEF TypeInv, GoodTables, Inside, WayBack, PageInside
<1> QED
  BY <1>1, <1>2, <1>3, PTL DEF Spec

-----------------------------------------------------------------------------
(***************************************************************************)
(* Theorems about what the user sees of an ArrayInstance: the code and the *)
(* list on the screen are those the next key acts on, whatever calls came  *)
(* before.  They rest on the typing of contexts above.                     *)
(*                                                                         *)
(* A method may leave the screen behind for a while (a key is appended     *)
(* before the code is sent), so the predicates below are about contexts,   *)
(* and the lemmas say where in a method they hold.                         *)
(***************************************************************************)

(***************************************************************************)
(* The invariants, of a context.                                           *)
(***************************************************************************)
ListSeen(c) ==
  c.panel.tableShown =>
    /\ c.panel.table.cands  = c.table.cands
    /\ c.panel.table.start  = c.table.start
    /\ c.panel.table.labels = c.table.labels

OpenedByRoot(c) == c.preedit # <<>> /\ c.preedit[1] \notin Wildcards

CodeSeen(c) ==
  /\ c.panel.preeditShown =>
       c.preedit # <<>> /\ c.panel.preedit = KeyNames(c.preedit)
  /\ OpenedByRoot(c) => c.panel.preeditShown

Shaped(p) ==
  \A i \in 1 .. Len(p) :
    /\ i > MaxPreedit => p[i] \in Wildcards
    /\ p[i] \in Digits => i = 2 /\ p[1] = SymbolRoot

Screened(c) == ListSeen(c) /\ CodeSeen(c) /\ Shaped(c.preedit)

(* In the middle of a method: the code is sent, but may still be on display *)
(* though it is empty.                                                      *)
CodeSent(c) ==
  /\ c.panel.preedit = KeyNames(c.preedit)
  /\ OpenedByRoot(c) => c.panel.preeditShown

(* What reset() leaves, but for the auxiliary string. *)
Closed(c) ==
  /\ c.preedit = <<>> /\ c.table.cands = <<>> /\ c.presses = 0
  /\ ~c.panel.tableShown /\ ~c.panel.preeditShown

SameCode(c, d) ==
  /\ d.preedit = c.preedit
  /\ d.panel.preedit = c.panel.preedit
  /\ d.panel.preeditShown = c.panel.preeditShown

SameList(c, d) ==
  /\ d.table = c.table
  /\ d.panel.table = c.panel.table
  /\ d.panel.tableShown = c.panel.tableShown
-----------------------------------------------------------------------------
(***************************************************************************)
(* What each operator leaves alone.                                        *)
(***************************************************************************)
LEMMA SameSeen ==
  ASSUME NEW c, NEW d, SameCode(c, d)
  PROVE  /\ CodeSeen(c) => CodeSeen(d)
         /\ CodeSent(c) => CodeSent(d)
         /\ Shaped(c.preedit) => Shaped(d.preedit)
         /\ SameList(c, d) /\ ListSeen(c) => ListSeen(d)
BY DEF SameCode, SameList, CodeSeen, CodeSent, OpenedByRoot, ListSeen

LEMMA HideSeen ==
  ASSUME NEW c \in Compositions
  PROVE  /\ SameCode(c, hide_lookup_table(c))
         /\ ListSeen(hide_lookup_table(c))
         /\ hide_lookup_table(c).table = c.table
BY DEF Compositions, Panels, hide_lookup_table, SameCode, ListSeen

LEMMA DrawSeen ==
  ASSUME NEW c \in Compositions
  PROVE  /\ SameCode(c, update_lookup_table(c))
         /\ SameCode(c, show_lookup_table(update_lookup_table(c)))
         /\ ListSeen(update_lookup_table(c))
         /\ ListSeen(show_lookup_table(update_lookup_table(c)))
<1>1. Drawing(c.table).cands = c.table.cands
      /\ Drawing(c.table).start = c.table.start
      /\ Drawing(c.table).labels = c.table.labels
  BY DEF Drawing
<1>2. Drawing(c.table) \in Drawings
  BY DEF Compositions, GoodTables, Tables, Drawing, Drawings
<1> HIDE DEF Drawing
<1> QED
  BY <1>1, <1>2 DEF Compositions, Panels, update_lookup_table,
     show_lookup_table, SameCode, ListSeen

LEMMA NoteSame ==
  ASSUME NEW c \in Compositions, NEW inkey, NEW w
  PROVE  /\ SameCode(c, hide_aux_string(c)) /\ SameList(c, hide_aux_string(c))
         /\ hide_aux_string(c).presses = c.presses
         /\ SameCode(c, show_special_code(c, inkey, w))
         /\ SameList(c, show_special_code(c, inkey, w))
         /\ show_special_code(c, inkey, w).presses = c.presses
         /\ SameCode(c, show_pre_special_code(c))
         /\ SameList(c, show_pre_special_code(c))
<1>1. ASSUME NEW note
      PROVE  /\ SameCode(c, show_note(c, note)) /\ SameList(c, show_note(c, note))
             /\ show_note(c, note).presses = c.presses
  BY DEF Compositions, Panels, show_note, SameCode, SameList
<1>2. /\ SameCode(c, hide_aux_string(c)) /\ SameList(c, hide_aux_string(c))
      /\ hide_aux_string(c).presses = c.presses
  BY DEF Compositions, Panels, hide_aux_string, SameCode, SameList
<1>3. SameCode(c, c) /\ SameList(c, c)
  BY DEF SameCode, SameList
<1> QED
  BY <1>1, <1>2, <1>3 DEF show_special_code, show_pre_special_code

LEMMA TableSame ==
  ASSUME NEW c \in Compositions, NEW name
  PROVE  /\ SameCode(c, create_lookup_table(c, name))
         /\ SameCode(c, create_phrase_lookup_table(c))
BY DEF Compositions, create_lookup_table, create_phrase_lookup_table, SameCode

(* reset() leaves nothing of the composition, and nothing on the screen. *)
LEMMA ResetCloses ==
  ASSUME NEW c \in Compositions
  PROVE  Closed(reset(c)) /\ ~reset(c).panel.auxShown
<1>1. FixPageSize(Clear(c.table), TRUE).cands = <<>>
  BY DEF Compositions, GoodTables, Tables, FixPageSize, Clear
<1> QED
  BY <1>1 DEF Compositions, Panels, reset, hide_lookup_table,
     hide_preedit_string, hide_aux_string, Closed

LEMMA ClosedSeen ==
  ASSUME NEW c, Closed(c)
  PROVE  Screened(c)
BY DEF Closed, Screened, ListSeen, CodeSeen, OpenedByRoot, Shaped
-----------------------------------------------------------------------------
(***************************************************************************)
(* Where in the methods the screen is right again.                         *)
(***************************************************************************)
(* Committing closes the composition, or leaves it as it was. *)
LEMMA SendSeen ==
  ASSUME NEW c \in Compositions, Screened(c), NEW keysLeft,
         NEW w \in Candidates \cup {NoWord}
  PROVE  /\ Screened(send_commit_string(c, keysLeft, w))
         /\ send_commit_string(c, keysLeft, w).preedit \in {<<>>, c.preedit}
<1> DEFINE r == reset(commit_string(c, w))
<1>1. r \in Compositions /\ Closed(r)
  BY CommitTyped, ResetTyped, ResetCloses
<1> HIDE DEF r
<1>2. Screened(r) /\ r.preedit = <<>>
  BY <1>1, ClosedSeen DEF Closed
<1>3. SameCode(r, show_special_code(r, keysLeft, w))
      /\ SameList(r, show_special_code(r, keysLeft, w))
  BY <1>1, NoteSame
<1>4. SameCode(c, show_special_code(c, c.preedit, w))
      /\ SameList(c, show_special_code(c, c.preedit, w))
  BY NoteSame
<1>5. Screened(show_special_code(r, keysLeft, w))
      /\ show_special_code(r, keysLeft, w).preedit = <<>>
  BY <1>2, <1>3, SameSeen DEF Screened, SameCode
<1>6. Screened(show_special_code(c, c.preedit, w))
      /\ show_special_code(c, c.preedit, w).preedit = c.preedit
  BY <1>4, SameSeen DEF Screened, SameCode
<1> QED
  BY <1>2, <1>5, <1>6 DEF send_commit_string, r

(* process_preedit_string hides what is gone and draws what is there. *)
LEMMA ProcessSeen ==
  ASSUME NEW c \in Compositions, CodeSent(c), Shaped(c.preedit)
  PROVE  Screened(process_preedit_string(c))
<1>1. CASE c.preedit = <<>>
  <2> DEFINE h == hide_preedit_string(c)
  <2>1. h \in Compositions /\ h.preedit = <<>> /\ ~h.panel.preeditShown
    BY <1>1 DEF Compositions, Panels, hide_preedit_string
  <2> HIDE DEF h
  <2>2. CodeSeen(h) /\ Shaped(h.preedit)
    BY <2>1 DEF CodeSeen, OpenedByRoot, Shaped
  <2> QED
    BY <1>1, <2>1, <2>2, HideSeen, SameSeen
       DEF process_preedit_string, Screened, h
<1>2. CASE c.preedit # <<>>
  <2>1. CodeSeen(c)
    BY <1>2 DEF CodeSeen, CodeSent
  <2>2. Screened(hide_lookup_table(c))
    BY <2>1, HideSeen, SameSeen DEF Screened
  <2>3. ASSUME NEW d \in Compositions, SameCode(c, d)
        PROVE  Screened(show_lookup_table(update_lookup_table(d)))
    BY <2>1, <2>3, DrawSeen, SameSeen DEF Screened
  <2>4. {"Short", "Table"} \subseteq CinNames
    BY DEF CinNames
  <2> DEFINE s == create_lookup_table(c, "Short")
             f == create_lookup_table(c, "Table")
  <2>5. s \in Compositions /\ f \in Compositions
        /\ SameCode(c, s) /\ SameCode(c, f)
    BY <2>4, ListTyped, TableSame
  <2> HIDE DEF s, f
  <2>6. /\ show_pre_special_code(s) \in Compositions
        /\ SameCode(s, show_pre_special_code(s))
        /\ hide_aux_string(f) \in Compositions
        /\ SameCode(f, hide_aux_string(f))
    BY <2>5, NotesTyped, ScreenTyped, NoteSame
  <2>7. SameCode(c, show_pre_special_code(s)) /\ SameCode(c, hide_aux_string(f))
    BY <2>5, <2>6 DEF SameCode
  <2> QED
    BY <1>2, <2>2, <2>3, <2>6, <2>7 DEF process_preedit_string, s, f
<1> QED
  BY <1>1, <1>2

LEMMA SymbolSeen ==
  ASSUME NEW c \in Compositions, CodeSeen(c), Shaped(c.preedit)
  PROVE  Screened(process_symbol_preedit_string(c))
<1>1. create_lookup_table(c, "Table") \in Compositions
      /\ SameCode(c, create_lookup_table(c, "Table"))
  BY ListTyped, TableSame DEF CinNames
<1> QED
  BY <1>1, DrawSeen, SameSeen DEF process_symbol_preedit_string, Screened

LEMMA PagedSeen ==
  ASSUME NEW c \in Compositions, Screened(c)
  PROVE  /\ Screened(lookup_table_page_up(c))
         /\ Screened(lookup_table_page_down(c))
<1>1. ASSUME NEW t \in GoodTables
      PROVE  Screened(Paged(c, t))
  <2> DEFINE d == [c EXCEPT !.table = Relabel(t)]
  <2>1. d \in Compositions /\ SameCode(c, d)
    BY RelabelGood, TableTyped DEF Compositions, SameCode
  <2> HIDE DEF d
  <2>2. Screened(update_lookup_table(d))
    BY <2>1, DrawSeen, SameSeen DEF Screened
  <2> QED
    BY <2>2 DEF Paged, d
<1>2. c.table \in GoodTables
  BY DEF Compositions
<1>3. PageUp(c.table) \in GoodTables /\ Rewind(c.table) \in GoodTables
      /\ (CanPageDown(c.table) => PageDown(c.table) \in GoodTables)
  BY <1>2, PageUpGood, PageDownGood, RewindGood
<1> QED
  BY <1>1, <1>3 DEF lookup_table_page_up, lookup_table_page_down

(* A code that is sent as soon as a key is appended. *)
LEMMA SentSeen ==
  ASSUME NEW c \in Compositions, OpenedByRoot(c) => c.panel.preeditShown,
         Shaped(c.preedit)
  PROVE  Screened(process_preedit_string(pre_update_preedit_string(c)))
<1> DEFINE d == pre_update_preedit_string(c)
<1>1. d \in Compositions /\ d.preedit = c.preedit
      /\ d.panel.preedit = KeyNames(c.preedit)
      /\ d.panel.preeditShown = c.panel.preeditShown
  <2>1. KeyNames(c.preedit) \in Seq(KeyChars \cup {NoLabel})
    BY KeyNamesTyped DEF Compositions
  <2> QED
    BY <2>1, DrawTyped DEF Compositions, Panels, pre_update_preedit_string
<1> HIDE DEF d
<1>2. CodeSent(d) /\ Shaped(d.preedit)
  BY <1>1 DEF CodeSent, OpenedByRoot
<1> QED
  BY <1>1, <1>2, ProcessSeen DEF d

LEMMA AppendShaped ==
  ASSUME NEW p \in Codes, Shaped(p), NEW ch \in KeyChars,
         \/ ch \in Wildcards
         \/ ch \in Roots /\ Len(p) < MaxPreedit
         \/ ch \in Digits /\ p = <<SymbolRoot>>
  PROVE  Shaped(Append(p, ch))
<1> DEFINE n == Len(p)
           q == Append(p, ch)
<1>1. n \in Nat /\ Len(q) = n + 1 /\ q[n + 1] = ch
      /\ \A i \in 1 .. n : q[i] = p[i]
  BY DEF Codes
<1>2. \A i \in 1 .. n : 1 \in 1 .. n
  BY <1>1
<1>3. ASSUME NEW i \in 1 .. n
      PROVE  /\ i > MaxPreedit => q[i] \in Wildcards
             /\ q[i] \in Digits => i = 2 /\ q[1] = SymbolRoot
  BY <1>1, <1>2 DEF Shaped
<1>4. /\ n + 1 > MaxPreedit => q[n + 1] \in Wildcards
      /\ q[n + 1] \in Digits => n + 1 = 2 /\ q[1] = SymbolRoot
  <2>1. CASE ch \in Wildcards
    BY <1>1, <2>1, KeyAssumption
  <2>2. CASE ch \in Roots /\ n < MaxPreedit
    BY <1>1, <2>2, KeyAssumption, BoundAssumption
  <2>3. CASE ch \in Digits /\ p = <<SymbolRoot>>
    <3>1. n = 1 /\ p[1] = SymbolRoot
      BY <2>3
    <3> QED
      BY <1>1, <3>1, BoundAssumption
  <2> QED
    BY <2>1, <2>2, <2>3
<1> HIDE DEF q, n
<1>5. \A i \in 1 .. Len(q) : i \in 1 .. n \/ i = n + 1
  BY <1>1
<1> QED
  BY <1>3, <1>4, <1>5 DEF Shaped, q

LEMMA RootSeen ==
  ASSUME NEW c \in Compositions, Screened(c), NEW ch \in Roots,
         Len(c.preedit) < MaxPreedit
  PROVE  Screened(RootTyped(c, ch))
<1> DEFINE o == Opened(c)
           d == push_back(o, ch)
<1>1. o \in Compositions
  BY ScreenTyped DEF Opened
<1>2. o.preedit = c.preedit /\ o.panel.preeditShown \in BOOLEAN
      /\ (c.preedit = <<>> => o.panel.preeditShown)
      /\ (c.preedit # <<>> => o.panel.preeditShown = c.panel.preeditShown)
  BY DEF Compositions, Panels, Opened, show_preedit_string, hide_aux_string
<1> HIDE DEF o
<1>3. d \in Compositions /\ d.preedit = Append(c.preedit, ch)
      /\ d.panel.preeditShown = o.panel.preeditShown
  BY <1>1, <1>2, KeyTyped DEF KeyChars, Compositions, push_back
<1> HIDE DEF d
<1>4. Shaped(d.preedit)
  BY <1>3, AppendShaped DEF Screened, Compositions, KeyChars
<1>5. OpenedByRoot(d) => d.panel.preeditShown
  <2>1. CASE c.preedit = <<>>
    BY <1>2, <1>3, <2>1
  <2>2. CASE c.preedit # <<>>
    <3>1. d.preedit[1] = c.preedit[1]
      BY <1>3, <2>2 DEF Compositions, Codes
    <3> QED
      BY <1>2, <1>3, <2>2, <3>1 DEF Screened, CodeSeen, OpenedByRoot
  <2> QED
    BY <2>1, <2>2
<1> QED
  BY <1>3, <1>4, <1>5, SentSeen DEF RootTyped, d, o

LEMMA AheadSeen ==
  ASSUME NEW c \in Compositions, Screened(c)
  PROVE  /\ Screened(CommitAhead(c))
         /\ CommitAhead(c).preedit \in {<<>>, c.preedit}
<1>1. Screened(reset(c)) /\ reset(c).preedit = <<>>
  BY ResetCloses, ClosedSeen DEF Closed
<1>2. First(c) \in Candidates \cup {NoWord}
  BY FirstTyped
<1> QED
  BY <1>1, <1>2, SendSeen DEF CommitAhead

LEMMA ListedSeen ==
  ASSUME NEW c \in Compositions, Screened(c)
  PROVE  Screened(Listed(c))
<1> DEFINE m == create_lookup_table(c, "Table")
           l == update_lookup_table(m)
           s == show_lookup_table(l)
           h == hide_lookup_table(l)
<1>1. m \in Compositions /\ SameCode(c, m)
  BY ListTyped, TableSame DEF CinNames
<1> HIDE DEF m
<1>2. l \in Compositions /\ Screened(l) /\ s \in Compositions /\ Screened(s)
  BY <1>1, DrawTyped, ScreenTyped, DrawSeen, SameSeen DEF Screened
<1> HIDE DEF l
<1>3. h \in Compositions /\ Screened(h)
  BY <1>2, ScreenTyped, HideSeen, SameSeen DEF Screened
<1> HIDE DEF s, h
<1>4. Screened([s EXCEPT !.presses = @ + 1])
  BY <1>2 DEF Compositions, Screened, ListSeen, CodeSeen, OpenedByRoot
<1>5. Screened(send_commit_string(h, l.preedit, First(l)))
  BY <1>2, <1>3, FirstTyped, SendSeen
<1> QED
  BY <1>3, <1>4, <1>5 DEF Listed, m, l, s, h
-----------------------------------------------------------------------------
(***************************************************************************)
(* The invariant of the instance.                                          *)
(***************************************************************************)
ScreenInv ==
  /\ PanelShowsTable /\ PanelShowsCode /\ HiddenOnlyBehindWildcard
  /\ CodeShape /\ ForwardIdle

Seen ==
  /\ PanelShowsTable /\ PanelShowsCode /\ HiddenOnlyBehindWildcard /\ CodeShape

LEMMA NowSeen ==
  ASSUME Seen
  PROVE  Screened(Now)
BY DEF Seen, PanelShowsTable, PanelShowsCode, HiddenOnlyBehindWildcard,
       CodeShape, Composing, Now, Screened, ListSeen, CodeSeen, OpenedByRoot,
       Shaped

LEMMA BecomesSeen ==
  ASSUME NEW c, NEW handled, Screened(c), Becomes(c, handled)
  PROVE  Seen'
BY DEF Seen, PanelShowsTable, PanelShowsCode, HiddenOnlyBehindWildcard,
       CodeShape, Composing, Becomes, Screened, ListSeen, CodeSeen,
       OpenedByRoot, Shaped

(* English mode is entered with a reset only. *)
LEMMA BecomesIdle ==
  ASSUME NEW c, NEW handled, Closed(c), ~c.panel.auxShown, Becomes(c, handled)
  PROVE  ForwardIdle'
BY DEF ForwardIdle, Composing, Becomes, Closed

(* In Chinese mode a call that leaves the mode alone owes nothing.          *)
LEMMA ChineseStays ==
  ASSUME ~m_forward, OnlyComposition
  PROVE  ForwardIdle'
BY DEF OnlyComposition, modes, ForwardIdle

(* A call that leaves the context as it is, but for what it commits. *)
LEMMA NowStays ==
  ASSUME ForwardIdle, NEW c, NEW handled, Becomes(c, handled),
         c.preedit = Now.preedit, c.table = Now.table,
         c.presses = Now.presses, c.panel = Now.panel,
         OnlyComposition \/ ToggleLetter
  PROVE  ForwardIdle'
BY DEF ForwardIdle, Composing, Becomes, Now, OnlyComposition, ToggleLetter,
       modes

(* While the list is closed there is nothing to page. *)
LEMMA PagingIdle ==
  ASSUME m_forward, ForwardIdle
  PROVE  lookup_table_page_up(Now) = Now /\ lookup_table_page_down(Now) = Now
BY DEF ForwardIdle, Composing, Now, lookup_table_page_up,
       lookup_table_page_down, Paged

LEMMA KeyEventSeen ==
  ASSUME TypeInv, ScreenInv, NEW k, process_key_event(k)
  PROVE  ScreenInv'
<1> DEFINE c == Now
<1>1. c \in Compositions /\ Screened(c) /\ c.preedit = m_preedit_string
  BY NowTyped, NowSeen DEF ScreenInv, Seen, Now
<1>2. \A d, handled : Becomes(d, handled) /\ Screened(d) => Seen'
  BY BecomesSeen
<1>3. \A d, handled :
        Becomes(d, handled) /\ Screened(d) /\ Reaches(k) /\ OnlyComposition
        => ScreenInv'
  BY <1>2, ChineseStays DEF Reaches, ScreenInv, Seen
<1>4. Closed(reset(c)) /\ ~reset(c).panel.auxShown /\ Screened(reset(c))
  BY <1>1, ResetCloses, ClosedSeen
<1>5. ASSUME NEW handled, Becomes(c, handled), OnlyComposition \/ ToggleLetter
      PROVE  ScreenInv'
  BY <1>1, <1>2, <1>5, NowStays DEF ScreenInv, Seen, c
<1> HIDE DEF c
<1>6. ASSUME KeyRelease(k)  PROVE ScreenInv'
  BY <1>5, <1>6 DEF KeyRelease, c
<1>7. ASSUME HotKey(k)  PROVE ScreenInv'
  <2>1. CASE Becomes(reset(c), TRUE)
    BY <1>2, <1>4, <2>1, BecomesIdle DEF ScreenInv, Seen
  <2>2. CASE Becomes(c, TRUE) /\ ToggleLetter
    BY <1>5, <2>2
  <2> QED
    BY <1>7, <2>1, <2>2 DEF HotKey, c
<1>8. ASSUME ForwardKey(k)  PROVE ScreenInv'
  <2>1. PICK commit, handled :
          Becomes([Now EXCEPT !.commit = commit], handled) /\ OnlyComposition
    BY <1>8 DEF ForwardKey
  <2> DEFINE d == [Now EXCEPT !.commit = commit]
  <2>2. d.preedit = Now.preedit /\ d.table = Now.table
        /\ d.presses = Now.presses /\ d.panel = Now.panel
    BY DEF Now
  <2> HIDE DEF d
  <2>3. Screened(d)
    BY <1>1, <2>2 DEF Screened, ListSeen, CodeSeen, OpenedByRoot, c
  <2> QED
    BY <1>2, <2>1, <2>2, <2>3, NowStays DEF ScreenInv, Seen, d
<1>9. ASSUME EscapeKey(k)  PROVE ScreenInv'
  BY <1>1, <1>3, <1>4, <1>9 DEF EscapeKey, c
<1>10. ASSUME BackSpaceKey(k)  PROVE ScreenInv'
  <2> DEFINE e == Erased(c)
             p == c.preedit
             n == Len(p)
  <2>1. p # <<>> /\ p \in Codes /\ n \in Nat \ {0}
    BY <1>1, <1>10 DEF BackSpaceKey, IsBackSpace, Composing, Compositions, Codes
  <2>2. SubSeq(p, 1, n - 1) \in Codes /\ Len(SubSeq(p, 1, n - 1)) = n - 1
        /\ \A i \in 1 .. n - 1 : SubSeq(p, 1, n - 1)[i] = p[i]
    BY <2>1 DEF Codes
  <2>3. e \in Compositions /\ e.preedit = SubSeq(p, 1, n - 1)
        /\ e.panel = c.panel
    BY <1>1, <2>2 DEF Compositions, Erased
  <2> HIDE DEF e, p, n
  <2>4. \A i \in 1 .. n - 1 : i \in 1 .. n /\ 1 \in 1 .. n - 1
    BY <2>1
  <2>5. Shaped(e.preedit)
    BY <1>1, <2>2, <2>3, <2>4 DEF Screened, Shaped, p, n
  <2>6. OpenedByRoot(e) => OpenedByRoot(c)
    <3>1. e.preedit # <<>> => 1 \in 1 .. n - 1
      BY <2>1, <2>2, <2>3 DEF Codes
    <3> QED
      BY <2>1, <2>2, <2>3, <3>1 DEF OpenedByRoot, p
  <2>7. Screened(process_preedit_string(pre_update_preedit_string(e)))
    BY <1>1, <2>3, <2>5, <2>6, SentSeen DEF Screened, CodeSeen
  <2> QED
    BY <1>3, <1>10, <2>7 DEF BackSpaceKey, c, e
<1>11. ASSUME RootKey(k)  PROVE ScreenInv'
  <2> DEFINE a == CommitAhead(c)
  <2>1. a \in Compositions /\ Screened(a) /\ a.preedit \in {<<>>, c.preedit}
        /\ k.code \in Roots
    BY <1>1, <1>11, RootTypedTyped, AheadSeen DEF RootKey, IsRoot, KeyChars
  <2> HIDE DEF a
  <2>2. CASE Len(c.preedit) < MaxPreedit
    <3>1. Len(a.preedit) < MaxPreedit
      BY <2>1, <2>2, BoundAssumption
    <3>2. Screened(RootTyped(a, k.code))
      BY <2>1, <3>1, RootSeen
    <3> QED
      BY <1>1, <1>3, <1>11, <3>2 DEF RootKey, a, c
  <2>3. CASE ~(Len(c.preedit) < MaxPreedit)
    <3>1. Len(m_preedit_string) >= MaxPreedit
      BY <1>1, <2>3, BoundAssumption DEF Compositions, Codes
    <3> QED
      BY <1>1, <1>3, <1>11, <3>1 DEF RootKey, c
  <2> QED
    BY <2>2, <2>3
<1>12. ASSUME ApostropheKey(k)  PROVE ScreenInv'
  <2> DEFINE t == create_phrase_lookup_table(c)
             u == [t EXCEPT !.presses = @ + 1]
             v == hide_aux_string(u)
  <2>1. t \in Compositions /\ SameCode(c, t)
    BY <1>1, ListTyped, TableSame
  <2> HIDE DEF t
  <2>2. u \in Compositions /\ SameCode(c, u)
    BY <2>1, PressTyped DEF Compositions, SameCode
  <2> HIDE DEF u
  <2>3. v \in Compositions /\ SameCode(c, v)
    BY <2>2, ScreenTyped, NoteSame DEF SameCode
  <2> HIDE DEF v
  <2>4. Screened(show_lookup_table(update_lookup_table(v)))
    BY <1>1, <2>3, DrawSeen, SameSeen DEF Screened
  <2> QED
    BY <1>3, <1>12, <2>4 DEF ApostropheKey, phrase_key_press, t, u, v, c
<1>13. ASSUME WildcardKey(k)  PROVE ScreenInv'
  <2> DEFINE h == hide_lookup_table(c)
             d == push_back(h, k.code)
  <2>1. k.code \in Wildcards /\ k.code \in KeyChars
    BY <1>13 DEF WildcardKey, KeyChars
  <2>2. h \in Compositions /\ SameCode(c, h)
    BY <1>1, ScreenTyped, HideSeen
  <2> HIDE DEF h
  <2>3. d \in Compositions /\ d.preedit = Append(c.preedit, k.code)
        /\ d.panel.preeditShown = c.panel.preeditShown
    BY <2>1, <2>2, KeyTyped DEF Compositions, SameCode, push_back
  <2> HIDE DEF d
  <2>4. c.preedit \in Codes
    BY <1>1 DEF Compositions
  <2>5. Shaped(d.preedit)
    BY <1>1, <2>1, <2>3, <2>4, AppendShaped DEF Screened
  <2>6. OpenedByRoot(d) => OpenedByRoot(c)
    <3>1. CASE c.preedit = <<>>
      BY <2>1, <2>3, <3>1 DEF OpenedByRoot
    <3>2. CASE c.preedit # <<>>
      <4>1. d.preedit[1] = c.preedit[1]
        BY <2>3, <2>4, <3>2 DEF Codes
      <4> QED
        BY <3>2, <4>1 DEF OpenedByRoot
    <3> QED
      BY <3>1, <3>2
  <2>7. Screened(process_preedit_string(pre_update_preedit_string(d)))
    BY <1>1, <2>3, <2>5, <2>6, SentSeen DEF Screened, CodeSeen
  <2> QED
    BY <1>3, <1>13, <2>7 DEF WildcardKey, c, h, d
<1>14. ASSUME DigitKey(k)  PROVE ScreenInv'
  <2> DEFINE chosen == CandidateInPage(m_lookup_table, SelectNum(k.code))
  <2>1. k.code \in Digits /\ k.code \in KeyChars
    BY <1>14 DEF DigitKey, KeyChars
  <2>2. chosen \in Candidates \cup {NoWord}
    BY <2>1, SelectTyped, CandidateTyped DEF TypeInv
  <2>3. Screened(send_commit_string(c, m_preedit_string, chosen))
    BY <1>1, <2>2, SendSeen
  <2> HIDE DEF chosen
  <2>4. ASSUME m_preedit_string = <<SymbolRoot>>
        PROVE  Screened(process_symbol_preedit_string(
                 pre_update_preedit_string(push_back(c, k.code))))
    <3> DEFINE d == push_back(c, k.code)
               s == pre_update_preedit_string(d)
    <3>1. d \in Compositions /\ d.preedit = Append(c.preedit, k.code)
          /\ d.panel = c.panel
      BY <1>1, <2>1, KeyTyped DEF Compositions, push_back
    <3>2. Shaped(d.preedit)
      BY <1>1, <2>1, <2>4, <3>1, AppendShaped DEF Screened, Compositions
    <3>3. OpenedByRoot(c) /\ d.preedit # <<>>
      BY <1>1, <2>4, <3>1, KeyAssumption DEF OpenedByRoot
    <3> HIDE DEF d
    <3>4. KeyNames(d.preedit) \in Seq(KeyChars \cup {NoLabel})
      BY <3>1, KeyNamesTyped DEF Compositions
    <3>5. s \in Compositions /\ s.preedit = d.preedit
          /\ s.panel.preedit = KeyNames(d.preedit)
          /\ s.panel.preeditShown = d.panel.preeditShown
      BY <3>1, <3>4, DrawTyped DEF Compositions, Panels, pre_update_preedit_string
    <3> HIDE DEF s
    <3>6. CodeSeen(s) /\ Shaped(s.preedit)
      BY <1>1, <3>1, <3>2, <3>3, <3>5 DEF CodeSeen, Screened
    <3> QED
      BY <3>5, <3>6, SymbolSeen DEF s, d
  <2> QED
    BY <1>1, <1>3, <1>14, <2>3, <2>4 DEF DigitKey, c, chosen
<1>15. ASSUME SpacePages(k)  PROVE ScreenInv'
  BY <1>1, <1>3, <1>15, PagedSeen DEF SpacePages, c
<1>16. ASSUME SpaceCommits(k)  PROVE ScreenInv'
  <2>1. Screened(send_commit_string(c, m_preedit_string, First(c)))
    BY <1>1, FirstTyped, SendSeen
  <2>2. Screened(hide_lookup_table(c))
    BY <1>1, HideSeen, SameSeen DEF Screened
  <2> QED
    BY <1>3, <1>16, <2>1, <2>2 DEF SpaceCommits, c
<1>17. ASSUME SpaceLists(k)  PROVE ScreenInv'
  BY <1>1, <1>3, <1>17, ListedSeen DEF SpaceLists, c
<1>18. ASSUME OtherKey(k)  PROVE ScreenInv'
  <2>1. PageTurned(k) \in Compositions /\ Screened(PageTurned(k))
    BY <1>1, PagedSeen, PagedTyped DEF PageTurned, c
  <2>2. \A commit : Screened([PageTurned(k) EXCEPT !.commit = commit])
    BY <2>1 DEF Compositions, Screened, ListSeen, CodeSeen, OpenedByRoot
  <2> QED
    BY <1>3, <1>18, <2>1, <2>2 DEF OtherKey
<1> QED
  BY <1>6, <1>7, <1>8, <1>9, <1>10, <1>11, <1>12, <1>13, <1>14, <1>15, <1>16,
     <1>17, <1>18 DEF process_key_event

LEMMA ScreenStep ==
  ASSUME TypeInv, ScreenInv, [Next]_vars
  PROVE  ScreenInv'
<1>1. Now \in Compositions /\ Screened(Now)
  BY NowTyped, NowSeen DEF ScreenInv, Seen
<1>2. \A d, handled : Becomes(d, handled) /\ Screened(d) => Seen'
  BY BecomesSeen
<1>3. Closed(reset(Now)) /\ ~reset(Now).panel.auxShown /\ Screened(reset(Now))
  BY <1>1, ResetCloses, ClosedSeen
<1>4. ASSUME NEW handled, Becomes(Now, handled), OnlyComposition \/ ToggleLetter
      PROVE  ScreenInv'
  BY <1>1, <1>2, <1>4, NowStays DEF ScreenInv, Seen
<1>5. ASSUME UNCHANGED instance, UNCHANGED modes
      PROVE  ScreenInv'
  BY <1>5 DEF ScreenInv, PanelShowsTable, PanelShowsCode, CodeShape,
     HiddenOnlyBehindWildcard, ForwardIdle, Composing, instance, modes
<1>6. ASSUME NEW k, process_key_event(k)  PROVE ScreenInv'
  BY <1>6, KeyEventSeen
<1>7. ASSUME NEW item \in 0 .. PageSize - 1, select_candidate(item)
      PROVE  ScreenInv'
  BY <1>6, <1>7 DEF select_candidate
<1>8. ASSUME PanelPages  PROVE ScreenInv'
  <2>1. CASE m_forward
    <3>1. lookup_table_page_up(Now) = Now /\ lookup_table_page_down(Now) = Now
      BY <2>1, PagingIdle DEF ScreenInv
    <3> QED
      BY <1>4, <1>8, <3>1 DEF PanelPages
  <2>2. CASE ~m_forward
    <3>1. Screened(lookup_table_page_up(Now))
          /\ Screened(lookup_table_page_down(Now))
      BY <1>1, PagedSeen
    <3> QED
      BY <1>2, <1>8, <2>2, <3>1, ChineseStays DEF PanelPages, ScreenInv, Seen
  <2> QED
    BY <2>1, <2>2
<1>9. ASSUME focus_in  PROVE ScreenInv'
  <2> DEFINE p == pre_update_preedit_string(Now)
             d == show_preedit_string(p)
  <2>1. CASE ~Composing
    BY <1>4, <1>9, <2>1 DEF focus_in
  <2>2. CASE Composing
    <3>1. KeyNames(m_preedit_string) \in Seq(KeyChars \cup {NoLabel})
      BY <1>1, KeyNamesTyped DEF Compositions, Now
    <3>2. p = [Now EXCEPT !.panel.preedit = KeyNames(m_preedit_string)]
      BY DEF Now, pre_update_preedit_string
    <3>3. p \in Compositions /\ d \in Compositions
      BY <1>1, DrawTyped, ScreenTyped
    <3>4. /\ d.preedit = m_preedit_string /\ d.panel.preeditShown
          /\ d.panel.preedit = KeyNames(m_preedit_string)
          /\ SameList(Now, d)
      BY <1>1, <3>1, <3>2
         DEF Compositions, Panels, show_preedit_string, SameList, Now
    <3> HIDE DEF d, p
    <3>5. CodeSeen(d)
      BY <2>2, <3>4 DEF CodeSeen, Composing
    <3>6. Shaped(d.preedit) /\ ListSeen(d)
      BY <1>1, <3>4 DEF Screened, SameList, ListSeen, Now
    <3>7. Screened(d) /\ Screened(show_lookup_table(update_lookup_table(d)))
      BY <3>3, <3>5, <3>6, DrawSeen, SameSeen DEF Screened
    <3>8. ~m_forward
      BY <2>2 DEF ScreenInv, ForwardIdle
    <3> QED
      BY <1>2, <1>9, <2>2, <3>7, <3>8, ChineseStays
         DEF focus_in, ScreenInv, Seen, d, p
  <2> QED
    BY <2>1, <2>2
<1>10. ASSUME focus_out  PROVE ScreenInv'
  BY <1>2, <1>3, <1>10, BecomesIdle DEF focus_out, ScreenInv, Seen
<1>11. ASSUME trigger_property  PROVE ScreenInv'
  <2>1. CASE Becomes(reset(Now), FALSE)
    BY <1>2, <1>3, <2>1, BecomesIdle DEF ScreenInv, Seen
  <2>2. CASE Becomes(Now, FALSE) /\ ToggleLetter
    BY <1>4, <2>2
  <2> QED
    BY <1>11, <2>1, <2>2 DEF trigger_property
<1>12. ASSUME NEW size \in PanelPageSizes, PanelAsksPageSize(size)
       PROVE  ScreenInv'
  BY <1>5, <1>12 DEF PanelAsksPageSize
<1>13. ASSUME update_lookup_table_page_size  PROVE ScreenInv'
  <2> DEFINE d == [Now EXCEPT !.table = SetPageSize(@, resize)]
  <2>1. /\ d.preedit = Now.preedit /\ d.presses = Now.presses
        /\ d.panel = Now.panel /\ d.table = SetPageSize(Now.table, resize)
    BY DEF Now
  <2> HIDE DEF d
  <2>2. /\ d.table.cands = Now.table.cands /\ d.table.start = Now.table.start
        /\ d.table.labels = Now.table.labels
    BY <1>1, <2>1 DEF Compositions, GoodTables, Tables, SetPageSize
  <2>3. Screened(d)
    BY <1>1, <2>1, <2>2 DEF Screened, ListSeen, CodeSeen, OpenedByRoot
  <2>4. Becomes(d, FALSE) /\ UNCHANGED modes
    BY <1>13 DEF update_lookup_table_page_size, d
  <2>5. ForwardIdle'
    BY <2>1, <2>2, <2>4
       DEF ScreenInv, ForwardIdle, Composing, Becomes, Now, modes
  <2> QED
    BY <1>2, <2>3, <2>4, <2>5 DEF ScreenInv, Seen
<1>14. ASSUME NEW cfg \in Configurations, reload_config(cfg)
       PROVE  ScreenInv'
  BY <1>5, <1>14 DEF reload_config
<1>15. ASSUME UNCHANGED vars  PROVE ScreenInv'
  BY <1>5, <1>15 DEF vars
<1> QED
  BY <1>6, <1>7, <1>8, <1>9, <1>10, <1>11, <1>12, <1>13, <1>14, <1>15 DEF Next

LEMMA ScreenInit ==
  ASSUME Init
  PROVE  ScreenInv
BY DEF Init, ScreenInv, PanelShowsTable, PanelShowsCode, CodeShape,
       HiddenOnlyBehindWildcard, ForwardIdle, Composing

LEMMA ScreenAlways == Spec => []ScreenInv
<1>1. Init => TypeInv /\ ScreenInv
  BY TypeInvInit, ScreenInit
<1>2. TypeInv /\ ScreenInv /\ [Next]_vars => TypeInv' /\ ScreenInv'
  BY TypeInvStep, ScreenStep
<1> QED
  BY <1>1, <1>2, PTL DEF Spec
-----------------------------------------------------------------------------
(* While a list is visible it is the list, the page and the labels that a   *)
(* digit selects from: every path that rebuilds or pages m_lookup_table     *)
(* sends it before it is shown.                                             *)
THEOREM ListIsShown == Spec => []PanelShowsTable
BY ScreenAlways, PTL DEF ScreenInv

(* While a code is visible it is the code being looked up.                  *)
THEOREM CodeIsShown == Spec => []PanelShowsCode
BY ScreenAlways, PTL DEF ScreenInv

(* A code that a root opened is visible until it is gone.                   *)
THEOREM OpenedIsShown == Spec => []HiddenOnlyBehindWildcard
BY ScreenAlways, PTL DEF ScreenInv

(* Roots never pass m_max_preedit_len, and a digit stands only behind the   *)
(* symbol root, whatever wildcards and erasures came in between.            *)
THEOREM CodesAreShaped == Spec => []CodeShape
BY ScreenAlways, PTL DEF ScreenInv

(* English mode is free of composition, list, pending press and display,    *)
(* whatever calls reach the engine while it lasts.                          *)
THEOREM EnglishIsIdle == Spec => []ForwardIdle
BY ScreenAlways, PTL DEF ScreenInv

-----------------------------------------------------------------------------
(***************************************************************************)
(* Theorems about what an ArrayInstance offers and commits: the candidates *)
(* are those of the code as it reads, a pending press has one to commit,   *)
(* and whatever is committed, by any path, is a translation of the code    *)
(* that was typed, allowed by the options, and ends the composition.       *)
(*                                                                         *)
(* The lemmas follow a context through a method, as those about the screen *)
(* do; here it is the list, the presses and the commit that matter.  The   *)
(* last part adds what a step shows and hands on beside the word, for      *)
(* which the invariants of the screen are needed too.                      *)
(***************************************************************************)

(***************************************************************************)
(* The invariants, of a context.                                           *)
(***************************************************************************)
Lists(p) ==
  {OrHole(WordsOf("Table", p)), OrHole(PhrasesOf(p))}
  \cup (IF Len(p) <= 2 THEN {OrHole(WordsOf("Short", p))} ELSE {})

FromTables(c) ==
  c.preedit # <<>> /\ ~hasWildcard(c.preedit) => c.table.cands \in Lists(c.preedit)

Pending(c) == c.presses > 0 => c.preedit # <<>> /\ c.table.cands # <<>>

Offers(c) == FromTables(c) /\ Pending(c)

(* What a code lets be committed. *)
Means(p, w) ==
  /\ w \in Words
  /\ ~hasWildcard(p) => w \in CandidatesOf(p)

Allows(p, w) ==
  config.m_special_code_only =>
    w \in Phrases \/ Find(specialCodes, w) = <<>> \/ Head(specialCodes[w]) = p

Emptied(c) == c.preedit = <<>> /\ c.table.cands = <<>> /\ c.presses = 0

Ended(c) ==
  /\ c.presses = 0
  /\ \/ c.preedit = <<>> /\ c.table.cands = <<>>
     \/ \E ch \in Roots : c.preedit = <<ch>>

Rightly(p, c) ==
  c.commit.kind = "word" =>
    Means(p, c.commit.text) /\ Allows(p, c.commit.text) /\ Ended(c)

(* What a step on the way leaves alone. *)
Kept(c, d) ==
  /\ d.preedit = c.preedit /\ d.table.cands = c.table.cands
  /\ d.presses = c.presses /\ d.commit = c.commit

Listing(c, d) ==
  /\ d.preedit = c.preedit /\ d.table.cands \in Lists(c.preedit)
  /\ d.presses = c.presses /\ d.commit = c.commit

InList(c, w) == \E i \in 1 .. Len(c.table.cands) : w = c.table.cands[i]
-----------------------------------------------------------------------------
LEMMA KeptOffers ==
  ASSUME NEW c, NEW d, Kept(c, d)
  PROVE  /\ Offers(c) => Offers(d)
         /\ Pending(c) => Pending(d)
         /\ \A p : Rightly(p, c) => Rightly(p, d)
BY DEF Kept, Offers, FromTables, Pending, Rightly, Ended

LEMMA KeptTwice ==
  ASSUME NEW c, NEW d, NEW e, Kept(c, d), Kept(d, e)
  PROVE  Kept(c, e)
BY DEF Kept

LEMMA ListsFilled ==
  ASSUME NEW p, NEW cands \in Lists(p)
  PROVE  cands # <<>>
<1>1. \A words : OrHole(words) # <<>>
  BY DEF OrHole
<1> QED
  BY <1>1 DEF Lists

LEMMA ListingOffers ==
  ASSUME NEW c, NEW d, Listing(c, d), c.preedit # <<>>
  PROVE  Offers(d)
BY ListsFilled DEF Listing, Offers, FromTables, Pending

LEMMA ListingKept ==
  ASSUME NEW c, NEW d, NEW e, Listing(c, d), Kept(d, e)
  PROVE  Listing(c, e)
BY DEF Listing, Kept

(* What is drawn changes neither the list nor the code. *)
LEMMA ScreenKeeps ==
  ASSUME NEW c \in Compositions
  PROVE  /\ Kept(c, hide_lookup_table(c)) /\ Kept(c, hide_preedit_string(c))
         /\ Kept(c, hide_aux_string(c)) /\ Kept(c, show_lookup_table(c))
         /\ Kept(c, show_preedit_string(c)) /\ Kept(c, update_lookup_table(c))
         /\ Kept(c, pre_update_preedit_string(c))
BY DEF Compositions, Kept, hide_lookup_table, hide_preedit_string,
       hide_aux_string, show_lookup_table, show_preedit_string,
       update_lookup_table, pre_update_preedit_string

LEMMA NotesKeep ==
  ASSUME NEW c \in Compositions, NEW inkey, NEW w
  PROVE  /\ Kept(c, show_special_code(c, inkey, w))
         /\ Kept(c, show_pre_special_code(c))
<1>1. \A note : Kept(c, show_note(c, note))
  BY DEF Compositions, Kept, show_note
<1>2. Kept(c, hide_aux_string(c)) /\ Kept(c, c)
  BY ScreenKeeps DEF Kept
<1> QED
  BY <1>1, <1>2 DEF show_special_code, show_pre_special_code

LEMMA CreateLists ==
  ASSUME NEW c \in Compositions
  PROVE  /\ Listing(c, create_lookup_table(c, "Table"))
         /\ Len(c.preedit) <= 2 => Listing(c, create_lookup_table(c, "Short"))
         /\ Listing(c, create_phrase_lookup_table(c))
<1>1. c.table \in Tables
  BY DEF Compositions, GoodTables
<1>2. \A words, size : Relabel(SetPageSize(Fill(c.table, words), size)).cands = words
  BY <1>1 DEF Tables, Relabel, SetPageSize, Fill, Clear
<1>3. \A words, size :
        Relabel(FixPageSize(SetPageSize(Fill(c.table, words), size), FALSE)).cands = words
  BY <1>1 DEF Tables, Relabel, FixPageSize, SetPageSize, Fill, Clear
<1>4. \A name : /\ create_lookup_table(c, name).table.cands = OrHole(WordsOf(name, c.preedit))
                /\ create_lookup_table(c, name).preedit = c.preedit
                /\ create_lookup_table(c, name).presses = c.presses
                /\ create_lookup_table(c, name).commit = c.commit
  BY <1>2 DEF Compositions, create_lookup_table
<1>5. /\ create_phrase_lookup_table(c).table.cands = OrHole(PhrasesOf(c.preedit))
      /\ create_phrase_lookup_table(c).preedit = c.preedit
      /\ create_phrase_lookup_table(c).presses = c.presses
      /\ create_phrase_lookup_table(c).commit = c.commit
  BY <1>3 DEF Compositions, create_phrase_lookup_table
<1> QED
  BY <1>4, <1>5 DEF Listing, Lists

LEMMA SymbolLists ==
  ASSUME NEW c \in Compositions
  PROVE  Listing(c, process_symbol_preedit_string(c))
<1> DEFINE m == create_lookup_table(c, "Table")
           l == update_lookup_table(m)
<1>1. m \in Compositions /\ Listing(c, m)
  BY ListTyped, CreateLists DEF CinNames
<1> HIDE DEF m
<1>2. l \in Compositions /\ Listing(c, l)
  BY <1>1, DrawTyped, ScreenKeeps, ListingKept
<1> HIDE DEF l
<1> QED
  BY <1>2, ScreenKeeps, ListingKept DEF process_symbol_preedit_string, l, m

LEMMA PagedKeeps ==
  ASSUME NEW c \in Compositions
  PROVE  /\ Kept(c, lookup_table_page_up(c))
         /\ Kept(c, lookup_table_page_down(c))
<1>1. c.table \in Tables
  BY DEF Compositions, GoodTables
<1>2. /\ PageUp(c.table).cands = c.table.cands /\ PageDown(c.table).cands = c.table.cands
      /\ Rewind(c.table).cands = c.table.cands
      /\ PageUp(c.table) \in GoodTables /\ Rewind(c.table) \in GoodTables
      /\ CanPageDown(c.table) => PageDown(c.table) \in GoodTables
  BY <1>1, PageUpGood, PageDownGood, RewindGood
     DEF Compositions, Tables, PageUp, PageDown, Rewind
<1>3. ASSUME NEW t \in GoodTables, t.cands = c.table.cands
      PROVE  Kept(c, Paged(c, t))
  <2> DEFINE d == [c EXCEPT !.table = Relabel(t)]
  <2>1. d \in Compositions
    BY RelabelGood, TableTyped
  <2>2. Relabel(t).cands = t.cands
    BY DEF GoodTables, Tables, Relabel
  <2>3. Kept(c, d)
    BY <1>3, <2>2 DEF Compositions, Kept
  <2> HIDE DEF d
  <2>4. Kept(c, update_lookup_table(d)) /\ Kept(c, c)
    BY <2>1, <2>3, ScreenKeeps, KeptTwice DEF Kept
  <2> QED
    BY <2>4 DEF Paged, d
<1> QED
  BY <1>2, <1>3 DEF lookup_table_page_up, lookup_table_page_down

LEMMA ResetEmpties ==
  ASSUME NEW c \in Compositions
  PROVE  Emptied(reset(c)) /\ reset(c).commit = c.commit
<1>1. FixPageSize(Clear(c.table), TRUE).cands = <<>>
  BY DEF Compositions, GoodTables, Tables, FixPageSize, Clear
<1> QED
  BY <1>1 DEF Compositions, reset, hide_lookup_table, hide_preedit_string,
     hide_aux_string, Emptied

LEMMA EmptiedOffers ==
  ASSUME NEW c, Emptied(c)
  PROVE  Offers(c) /\ Ended(c)
BY DEF Emptied, Offers, FromTables, Pending, Ended
-----------------------------------------------------------------------------
(***************************************************************************)
(* What is taken from a list is a word the code means.                     *)
(***************************************************************************)
LEMMA PageInList ==
  ASSUME NEW c \in Compositions, NEW i \in Nat, CandidateInPage(c.table, i) # NoWord
  PROVE  InList(c, CandidateInPage(c.table, i))
<1>1. c.table.start \in Nat /\ Len(c.table.cands) \in Nat
  BY DEF Compositions, GoodTables, Tables
<1>2. c.table.start + i < Len(c.table.cands)
  BY DEF CandidateInPage
<1>3. c.table.start + i + 1 \in 1 .. Len(c.table.cands)
  BY <1>1, <1>2
<1> QED
  BY <1>2, <1>3 DEF CandidateInPage, InList

LEMMA FirstInList ==
  ASSUME NEW c \in Compositions, First(c) # NoWord
  PROVE  InList(c, First(c))
BY PageInList DEF First

LEMMA ListMeans ==
  ASSUME NEW c \in Compositions, FromTables(c), c.preedit # <<>>,
         NEW w, InList(c, w), w # Hole
  PROVE  Means(c.preedit, w)
<1> DEFINE p == c.preedit
<1>1. PICK i \in 1 .. Len(c.table.cands) : w = c.table.cands[i]
  BY DEF InList
<1>2. c.table.cands \in Seq(Candidates) /\ p \in Codes
  BY DEF Compositions, GoodTables, Tables
<1>3. w \in Words
  BY <1>1, <1>2 DEF Candidates
<1>4. ASSUME ~hasWildcard(p)
      PROVE  w \in CandidatesOf(p)
  <2>1. PICK words \in {WordsOf("Short", p), WordsOf("Table", p), PhrasesOf(p)} :
          c.table.cands = OrHole(words)
    BY <1>4 DEF FromTables, Lists
  <2>2. c.table.cands # <<Hole>>
    BY <1>1
  <2>3. c.table.cands = words
    BY <2>1, <2>2 DEF OrHole
  <2>4. i \in DOMAIN words /\ w = words[i]
    BY <1>1, <1>2, <2>3
  <2>5. w \in {words[j] : j \in DOMAIN words}
    BY <2>4
  <2> QED
    BY <2>5 DEF CandidatesOf
<1> QED
  BY <1>3, <1>4 DEF Means

(* A commit empties the composition, or the options refuse it.              *)
LEMMA SendCommits ==
  ASSUME NEW c \in Compositions, NEW keysLeft, NEW w, w \in Words
  PROVE  LET s == send_commit_string(c, keysLeft, w)
         IN  \/ Kept(c, s)
             \/ Emptied(s) /\ s.commit = Word(w) /\ Allows(c.preedit, w)
<1> DEFINE r == reset(commit_string(c, w))
<1>1. commit_string(c, w) \in Compositions /\ commit_string(c, w).commit = Word(w)
  BY CommitTyped DEF Compositions, commit_string, Candidates
<1>2. r \in Compositions /\ Emptied(r) /\ r.commit = Word(w)
  BY <1>1, ResetTyped, ResetEmpties
<1> HIDE DEF r
<1>3. Kept(r, show_special_code(r, keysLeft, w))
      /\ Kept(c, show_special_code(c, c.preedit, w))
  BY <1>2, NotesKeep
<1>4. Emptied(show_special_code(r, keysLeft, w))
      /\ show_special_code(r, keysLeft, w).commit = Word(w)
  BY <1>2, <1>3 DEF Kept, Emptied
<1>5. w \in Phrases => Allows(c.preedit, w)
  BY DEF Allows
<1>6. ~(config.m_special_code_only /\ ~check_special_code_only(c.preedit, w))
      => Allows(c.preedit, w)
  BY DEF Allows, check_special_code_only
<1> QED
  BY <1>2, <1>3, <1>4, <1>5, <1>6 DEF send_commit_string, r

(* Committing one of the candidates on offer.                               *)
LEMMA SendRightly ==
  ASSUME NEW c \in Compositions, Offers(c), c.preedit # <<>>, c.commit = Nothing,
         NEW keysLeft, NEW w, InList(c, w), w # Hole
  PROVE  LET s == send_commit_string(c, keysLeft, w)
         IN  /\ Offers(s) /\ Rightly(c.preedit, s)
             /\ s.commit.kind = "word" => Emptied(s)
<1> DEFINE s == send_commit_string(c, keysLeft, w)
<1>1. Means(c.preedit, w)
  BY ListMeans DEF Offers
<1>2. w \in Words
  BY <1>1 DEF Means
<1>3. Nothing.kind # "word" /\ Word(w).text = w
  BY DEF Nothing, Word
<1>4. Kept(c, s) \/ (Emptied(s) /\ s.commit = Word(w) /\ Allows(c.preedit, w))
  BY <1>2, SendCommits
<1> HIDE DEF s
<1>5. CASE Kept(c, s)
  <2>1. s.commit.kind # "word"
    BY <1>3, <1>5 DEF Kept
  <2> QED
    BY <1>5, <2>1, KeptOffers DEF Rightly, s
<1>6. CASE Emptied(s) /\ s.commit = Word(w) /\ Allows(c.preedit, w)
  <2>1. Offers(s) /\ Ended(s)
    BY <1>6, EmptiedOffers
  <2>2. Rightly(c.preedit, s)
    BY <1>1, <1>3, <1>6, <2>1 DEF Rightly
  <2> QED
    BY <1>6, <2>1, <2>2 DEF s
<1> QED
  BY <1>4, <1>5, <1>6
-----------------------------------------------------------------------------
(***************************************************************************)
(* The methods that change the code or list it.                            *)
(***************************************************************************)
LEMMA ProcessOffers ==
  ASSUME NEW c \in Compositions, Pending(c)
  PROVE  LET d == process_preedit_string(c)
         IN  /\ Offers(d) /\ d.preedit = c.preedit
             /\ d.presses = c.presses /\ d.commit = c.commit
<1> DEFINE d == process_preedit_string(c)
<1>1. CASE c.preedit = <<>>
  <2>1. hide_preedit_string(c) \in Compositions /\ Kept(c, hide_preedit_string(c))
    BY ScreenTyped, ScreenKeeps
  <2>2. Kept(c, d)
    BY <1>1, <2>1, ScreenKeeps, KeptTwice DEF process_preedit_string
  <2> QED
    BY <1>1, <2>2, KeptOffers DEF Kept, Offers, FromTables
<1>2. CASE c.preedit # <<>> /\ hasWildcard(c.preedit)
  <2>1. Kept(c, d)
    BY <1>2, ScreenKeeps DEF process_preedit_string
  <2> QED
    BY <1>2, <2>1, KeptOffers DEF Kept, Offers, FromTables
<1>3. CASE c.preedit # <<>> /\ ~hasWildcard(c.preedit)
  <2> DEFINE s == create_lookup_table(c, "Short")
             f == create_lookup_table(c, "Table")
  <2>1. s \in Compositions /\ f \in Compositions
    BY ListTyped DEF CinNames
  <2>2. (Len(c.preedit) <= 2 => Listing(c, s)) /\ Listing(c, f)
    BY CreateLists
  <2>3. ASSUME NEW e \in Compositions, Listing(c, e)
        PROVE  Listing(c, show_lookup_table(update_lookup_table(e)))
    <3>1. update_lookup_table(e) \in Compositions
      BY DrawTyped
    <3> QED
      BY <2>3, <3>1, ScreenKeeps, ListingKept
  <2> HIDE DEF s, f
  <2>4. /\ show_pre_special_code(s) \in Compositions /\ Kept(s, show_pre_special_code(s))
        /\ hide_aux_string(f) \in Compositions /\ Kept(f, hide_aux_string(f))
    BY <2>1, NotesTyped, NotesKeep, ScreenTyped, ScreenKeeps
  <2>5. Listing(c, d)
    BY <1>3, <2>2, <2>3, <2>4, ListingKept DEF process_preedit_string, s, f
  <2> HIDE DEF d
  <2> QED
    BY <1>3, <2>5, ListingOffers DEF Listing, d
<1> QED
  BY <1>1, <1>2, <1>3

(* A code is changed, sent and looked up.                                   *)
LEMMA SentOffers ==
  ASSUME NEW c \in Compositions, Pending(c)
  PROVE  LET d == process_preedit_string(pre_update_preedit_string(c))
         IN  /\ Offers(d) /\ d.preedit = c.preedit
             /\ d.presses = c.presses /\ d.commit = c.commit
<1>1. pre_update_preedit_string(c) \in Compositions
      /\ Kept(c, pre_update_preedit_string(c))
  BY DrawTyped, ScreenKeeps
<1>2. Pending(pre_update_preedit_string(c))
  BY <1>1, KeptOffers
<1> QED
  BY <1>1, <1>2, ProcessOffers DEF Kept

LEMMA PushedPends ==
  ASSUME NEW c \in Compositions, Pending(c), NEW ch \in KeyChars
  PROVE  LET d == push_back(c, ch)
         IN  /\ d \in Compositions /\ Pending(d) /\ d.preedit = Append(c.preedit, ch)
             /\ d.presses = c.presses /\ d.commit = c.commit
<1>1. Append(c.preedit, ch) # <<>>
  BY DEF Compositions, Codes
<1> QED
  BY <1>1, KeyTyped DEF Compositions, Pending, push_back

LEMMA RootOffers ==
  ASSUME NEW c \in Compositions, Pending(c), NEW ch \in KeyChars
  PROVE  LET d == RootTyped(c, ch)
         IN  /\ Offers(d) /\ d.preedit = Append(c.preedit, ch)
             /\ d.presses = c.presses /\ d.commit = c.commit
<1> DEFINE o == Opened(c)
           d == push_back(o, ch)
<1>1. o \in Compositions /\ Kept(c, o)
  <2>1. hide_aux_string(c) \in Compositions /\ Kept(c, hide_aux_string(c)) /\ Kept(c, c)
    BY ScreenTyped, ScreenKeeps DEF Kept
  <2> QED
    BY <2>1, ScreenTyped, ScreenKeeps, KeptTwice DEF Opened
<1> HIDE DEF o
<1>2. Pending(o)
  BY <1>1, KeptOffers
<1>3. /\ d \in Compositions /\ Pending(d) /\ d.preedit = Append(c.preedit, ch)
      /\ d.presses = c.presses /\ d.commit = c.commit
  BY <1>1, <1>2, PushedPends DEF Kept
<1> HIDE DEF d
<1> QED
  BY <1>3, SentOffers DEF RootTyped, d, o

(* Typing ahead commits what a press has left, or takes the press back.     *)
LEMMA AheadRightly ==
  ASSUME NEW c \in Compositions, Offers(c), c.commit = Nothing
  PROVE  LET a == CommitAhead(c)
         IN  /\ Offers(a) /\ Rightly(c.preedit, a)
             /\ a.commit.kind = "word" => Emptied(a)
<1>1. Nothing.kind # "word"
  BY DEF Nothing
<1>2. Offers(reset(c)) /\ reset(c).commit = Nothing
  BY ResetEmpties, EmptiedOffers
<1>3. CASE c.presses # 1
  BY <1>1, <1>3 DEF CommitAhead, Rightly
<1>4. CASE c.presses = 1 /\ First(c) \in {NoWord, Hole}
  BY <1>1, <1>2, <1>4 DEF CommitAhead, Rightly
<1>5. CASE c.presses = 1 /\ First(c) \notin {NoWord, Hole}
  <2>1. c.preedit # <<>>
    BY <1>5 DEF Offers, Pending
  <2>2. InList(c, First(c))
    BY <1>5, FirstInList
  <2> QED
    BY <1>5, <2>1, <2>2, SendRightly DEF CommitAhead
<1> QED
  BY <1>3, <1>4, <1>5

(* Space lists the table, and commits what is alone in it.                  *)
LEMMA ListedRightly ==
  ASSUME NEW c \in Compositions, c.preedit # <<>>, c.commit = Nothing
  PROVE  Offers(Listed(c)) /\ Rightly(c.preedit, Listed(c))
<1> DEFINE m == create_lookup_table(c, "Table")
           l == update_lookup_table(m)
           s == show_lookup_table(l)
           h == hide_lookup_table(l)
<1>1. m \in Compositions /\ Listing(c, m)
  BY ListTyped, CreateLists DEF CinNames
<1> HIDE DEF m
<1>2. l \in Compositions /\ Listing(c, l)
  BY <1>1, DrawTyped, ScreenKeeps, ListingKept
<1> HIDE DEF l
<1>3. s \in Compositions /\ Listing(c, s) /\ h \in Compositions /\ Listing(c, h) /\ Kept(l, h)
  BY <1>2, ScreenTyped, ScreenKeeps, ListingKept
<1> HIDE DEF s, h
<1>4. Offers(h) /\ h.preedit = c.preedit /\ h.commit = Nothing
  BY <1>3, ListingOffers DEF Listing
<1>5. Nothing.kind # "word"
  BY DEF Nothing
<1>6. Offers([s EXCEPT !.presses = @ + 1]) /\ Rightly(c.preedit, [s EXCEPT !.presses = @ + 1])
  <2> DEFINE u == [s EXCEPT !.presses = @ + 1]
  <2>1. /\ u.preedit = c.preedit /\ u.table.cands \in Lists(c.preedit)
        /\ u.commit = Nothing
    BY <1>3 DEF Compositions, Listing
  <2> HIDE DEF u
  <2>2. Offers(u) /\ Rightly(c.preedit, u)
    BY <1>5, <2>1, ListsFilled DEF Offers, FromTables, Pending, Rightly
  <2> QED
    BY <2>2 DEF u
<1>7. Rightly(c.preedit, h)
  BY <1>4, <1>5 DEF Rightly
<1>8. ASSUME First(l) \notin {NoWord, Hole}
      PROVE  /\ Offers(send_commit_string(h, l.preedit, First(l)))
             /\ Rightly(c.preedit, send_commit_string(h, l.preedit, First(l)))
  <2>1. InList(h, First(l))
    BY <1>2, <1>3, <1>8, FirstInList DEF InList, Kept
  <2> QED
    BY <1>3, <1>4, <1>8, <2>1, SendRightly
<1> QED
  BY <1>4, <1>6, <1>7, <1>8 DEF Listed, m, l, s, h
-----------------------------------------------------------------------------
(***************************************************************************)
(* The invariant of the instance, and what a step may commit.              *)
(***************************************************************************)
PressesListed == commit_press_count > 0 => Composing /\ m_lookup_table.cands # <<>>

ChoiceInv == TableOfCode /\ PressesListed

Endings ==
  /\ commit_press_count' = 0
  /\ \/ m_preedit_string' = <<>> /\ m_lookup_table'.cands = <<>>
     \/ \E ch \in Roots : m_preedit_string' = <<ch>>

ChoiceStep ==
  CommitsWord =>
    /\ Means(m_preedit_string, reply'.commit.text)
    /\ Allows(m_preedit_string, reply'.commit.text)
    /\ Endings

LEMMA NowOffers ==
  ASSUME ChoiceInv
  PROVE  Offers(Now) /\ Now.commit = Nothing /\ Rightly(m_preedit_string, Now)
BY DEF ChoiceInv, TableOfCode, PressesListed, Composing, Now, Nothing, Offers,
       FromTables, Lists, Pending, Rightly

LEMMA BecomesOffers ==
  ASSUME NEW c, NEW handled, Offers(c), Becomes(c, handled),
         user_phrases' = user_phrases
  PROVE  ChoiceInv'
<1>1. PressesListed'
  BY DEF PressesListed, Composing, Becomes, Offers, Pending
<1>2. TableOfCode'
  <2>1. ASSUME c.preedit # <<>>, ~hasWildcard(c.preedit)
        PROVE  \/ Len(c.preedit) <= 2 /\ c.table.cands = OrHole(WordsOf("Short", c.preedit))
               \/ c.table.cands = OrHole(WordsOf("Table", c.preedit))
               \/ c.table.cands = OrHole(PhrasesOf(c.preedit))
    BY <2>1 DEF Offers, FromTables, Lists
  <2>2. PhrasesOf(m_preedit_string)' = PhrasesOf(m_preedit_string')
    BY DEF PhrasesOf
  <2> QED
    BY <2>1, <2>2 DEF TableOfCode, Composing, Becomes
<1> QED
  BY <1>1, <1>2 DEF ChoiceInv

LEMMA BecomesRightly ==
  ASSUME NEW c, NEW handled, Rightly(m_preedit_string, c), Becomes(c, handled)
  PROVE  ChoiceStep
BY DEF ChoiceStep, CommitsWord, Endings, Becomes, Rightly, Ended

LEMMA SilentStep ==
  ASSUME NEW c, c.commit = Nothing
  PROVE  \A p : Rightly(p, c)
BY DEF Rightly, Nothing

LEMMA KeyEventOffers ==
  ASSUME TypeInv, ChoiceInv, NEW k, process_key_event(k)
  PROVE  ChoiceInv' /\ ChoiceStep
<1> DEFINE c == Now
           p == m_preedit_string
<1>1. /\ c \in Compositions /\ Offers(c) /\ Rightly(p, c) /\ c.commit = Nothing
      /\ c.preedit = p /\ c.table = m_lookup_table
  BY NowTyped, NowOffers DEF Now
<1>2. \A d, handled :
        /\ Becomes(d, handled) /\ Offers(d) /\ Rightly(p, d)
        /\ OnlyComposition \/ ToggleStatus \/ ToggleLetter
        => ChoiceInv' /\ ChoiceStep
  BY BecomesOffers, BecomesRightly DEF OnlyComposition, ToggleStatus, ToggleLetter, factory
<1>3. Offers(reset(c)) /\ Rightly(p, reset(c))
  BY <1>1, ResetEmpties, EmptiedOffers, SilentStep
<1>4. Pending(c)
  BY <1>1 DEF Offers
<1> HIDE DEF c
<1>5. ASSUME KeyRelease(k)  PROVE ChoiceInv' /\ ChoiceStep
  BY <1>1, <1>2, <1>5 DEF KeyRelease, c
<1>6. ASSUME HotKey(k)  PROVE ChoiceInv' /\ ChoiceStep
  BY <1>1, <1>2, <1>3, <1>6 DEF HotKey, c
<1>7. ASSUME ForwardKey(k)  PROVE ChoiceInv' /\ ChoiceStep
  <2>1. PICK commit \in {Typed(k.code, TRUE), Nothing} : \E handled :
          Becomes([c EXCEPT !.commit = commit], handled) /\ OnlyComposition
    BY <1>7 DEF ForwardKey, c
  <2> DEFINE d == [c EXCEPT !.commit = commit]
  <2>2. /\ d.preedit = c.preedit /\ d.table = c.table /\ d.presses = c.presses
        /\ d.commit.kind # "word"
    BY <1>1, <2>1 DEF Compositions, Typed, Nothing
  <2> HIDE DEF d
  <2>3. Offers(d) /\ Rightly(p, d)
    BY <1>1, <2>2 DEF Offers, FromTables, Pending, Rightly
  <2> QED
    BY <1>2, <2>1, <2>3 DEF d
<1>8. ASSUME EscapeKey(k)  PROVE ChoiceInv' /\ ChoiceStep
  BY <1>1, <1>2, <1>3, <1>8 DEF EscapeKey, c
<1>9. ASSUME BackSpaceKey(k)  PROVE ChoiceInv' /\ ChoiceStep
  <2> DEFINE e == Erased(c)
             d == process_preedit_string(pre_update_preedit_string(e))
  <2>1. p # <<>> /\ p \in Codes
    BY <1>1, <1>9 DEF BackSpaceKey, IsBackSpace, Composing, Compositions
  <2>2. SubSeq(p, 1, Len(p) - 1) \in Codes
    BY <2>1 DEF Codes
  <2>3. e \in Compositions /\ e.presses = 0 /\ e.commit = Nothing
    BY <1>1, <2>2 DEF Compositions, Erased
  <2> HIDE DEF e
  <2>4. Pending(e)
    BY <2>3 DEF Pending
  <2>5. Offers(d) /\ Rightly(p, d)
    BY <2>3, <2>4, SentOffers, SilentStep
  <2> QED
    BY <1>2, <1>9, <2>5 DEF BackSpaceKey, c, e
<1>10. ASSUME RootKey(k)  PROVE ChoiceInv' /\ ChoiceStep
  <2> DEFINE a == CommitAhead(c)
             d == RootTyped(a, k.code)
  <2>1. k.code \in Roots /\ k.code \in KeyChars
    BY <1>10 DEF RootKey, IsRoot, KeyChars
  <2>2. /\ a \in Compositions /\ Offers(a) /\ Rightly(p, a)
        /\ a.commit.kind = "word" => Emptied(a)
    BY <1>1, <2>1, RootTypedTyped, AheadRightly
  <2> HIDE DEF a
  <2>3. /\ Offers(d) /\ d.preedit = Append(a.preedit, k.code)
        /\ d.presses = a.presses /\ d.commit = a.commit
    BY <2>1, <2>2, RootOffers DEF Offers
  <2> HIDE DEF d
  <2>4. Rightly(p, d)
    <3>1. Append(<<>>, k.code) = <<k.code>>
      OBVIOUS
    <3>2. a.commit.kind = "word" => d.preedit = <<k.code>> /\ d.presses = 0
      BY <2>2, <2>3, <3>1 DEF Emptied
    <3> QED
      BY <2>1, <2>2, <2>3, <3>2 DEF Rightly, Ended
  <2> QED
    BY <1>1, <1>2, <1>10, <2>3, <2>4 DEF RootKey, a, c, d
<1>11. ASSUME ApostropheKey(k)  PROVE ChoiceInv' /\ ChoiceStep
  <2> DEFINE t == create_phrase_lookup_table(c)
             u == [t EXCEPT !.presses = @ + 1]
             v == hide_aux_string(u)
             w == update_lookup_table(v)
             d == show_lookup_table(w)
  <2>1. t \in Compositions /\ Listing(c, t)
    BY <1>1, ListTyped, CreateLists
  <2> HIDE DEF t
  <2>2. u \in Compositions /\ u.preedit = p /\ u.table.cands \in Lists(p) /\ u.commit = Nothing
    BY <1>1, <2>1, PressTyped DEF Compositions, Listing
  <2> HIDE DEF u
  <2>3. p # <<>>
    BY <1>11 DEF ApostropheKey, IsApostrophe, Composing
  <2>4. Offers(u) /\ Rightly(p, u)
    BY <2>2, <2>3, ListsFilled, SilentStep DEF Offers, FromTables, Pending
  <2>5. v \in Compositions /\ Kept(u, v)
    BY <2>2, ScreenTyped, ScreenKeeps
  <2> HIDE DEF v
  <2>6. w \in Compositions /\ Kept(u, w)
    BY <2>5, DrawTyped, ScreenKeeps, KeptTwice
  <2> HIDE DEF w
  <2>7. Kept(u, d)
    BY <2>6, ScreenKeeps, KeptTwice
  <2> HIDE DEF d
  <2>8. Offers(d) /\ Rightly(p, d)
    BY <2>4, <2>7, KeptOffers
  <2> QED
    BY <1>2, <1>11, <2>8 DEF ApostropheKey, phrase_key_press, t, u, v, w, d, c
<1>12. ASSUME WildcardKey(k)  PROVE ChoiceInv' /\ ChoiceStep
  <2> DEFINE h == hide_lookup_table(c)
             b == push_back(h, k.code)
             d == process_preedit_string(pre_update_preedit_string(b))
  <2>1. k.code \in KeyChars
    BY <1>12 DEF WildcardKey, KeyChars
  <2>2. h \in Compositions /\ Pending(h) /\ h.commit = Nothing
    BY <1>1, <1>4, ScreenTyped, ScreenKeeps, KeptOffers DEF Kept
  <2> HIDE DEF h
  <2>3. b \in Compositions /\ Pending(b) /\ b.commit = Nothing
    BY <2>1, <2>2, PushedPends
  <2> HIDE DEF b
  <2>4. Offers(d) /\ Rightly(p, d)
    BY <2>3, SentOffers, SilentStep
  <2> QED
    BY <1>2, <1>12, <2>4 DEF WildcardKey, c, h, b
<1>13. ASSUME DigitKey(k)  PROVE ChoiceInv' /\ ChoiceStep
  <2> DEFINE chosen == CandidateInPage(c.table, SelectNum(k.code))
             b == push_back(c, k.code)
             q == pre_update_preedit_string(b)
             d == process_symbol_preedit_string(q)
  <2>1. k.code \in Digits /\ k.code \in KeyChars
    BY <1>13 DEF DigitKey, KeyChars
  <2>2. SelectNum(k.code) \in Nat
    <3>1. PageSize \in Nat
      BY KeyAssumption DEF PageSize
    <3> QED
      BY <2>1, <3>1, SelectTyped
  <2>3. ASSUME chosen \notin {NoWord, Hole}, p # <<>>
        PROVE  /\ Offers(send_commit_string(c, p, chosen))
               /\ Rightly(p, send_commit_string(c, p, chosen))
    <3>1. InList(c, chosen)
      BY <1>1, <2>2, <2>3, PageInList
    <3> QED
      BY <1>1, <2>3, <3>1, SendRightly
  <2> HIDE DEF chosen
  <2>4. b \in Compositions /\ b.preedit = Append(p, k.code) /\ b.commit = Nothing
    BY <1>1, <1>4, <2>1, PushedPends
  <2> HIDE DEF b
  <2>5. b.preedit # <<>>
    BY <1>1, <2>4 DEF Compositions, Codes
  <2>6. q \in Compositions /\ q.preedit # <<>> /\ q.commit = Nothing
    BY <2>4, <2>5, DrawTyped, ScreenKeeps DEF Kept
  <2> HIDE DEF q
  <2>7. Offers(d) /\ Rightly(p, d)
    <3>1. Listing(q, d)
      BY <2>6, SymbolLists
    <3> HIDE DEF d
    <3> QED
      BY <2>6, <3>1, ListingOffers, SilentStep DEF Listing
  <2> HIDE DEF d
  <2>8. CASE ~Composing
    <3>1. m_preedit_string # <<SymbolRoot>>
      BY <2>8 DEF Composing
    <3>2. Becomes(c, FALSE) /\ OnlyComposition
      BY <1>13, <2>8, <3>1 DEF DigitKey, c
    <3> QED
      BY <1>1, <1>2, <3>2
  <2>9. CASE m_preedit_string = <<SymbolRoot>>
    BY <1>2, <1>13, <2>7, <2>9 DEF DigitKey, Composing, c, b, q, d
  <2>10. CASE Composing /\ m_preedit_string # <<SymbolRoot>>
    BY <1>1, <1>2, <1>13, <2>3, <2>10 DEF DigitKey, Composing, c, chosen
  <2> QED
    BY <2>8, <2>9, <2>10
<1>14. ASSUME SpacePages(k)  PROVE ChoiceInv' /\ ChoiceStep
  <2>1. Kept(c, lookup_table_page_down(c))
    BY <1>1, PagedKeeps
  <2> QED
    BY <1>1, <1>2, <1>14, <2>1, KeptOffers DEF SpacePages, c
<1>15. ASSUME SpaceCommits(k)  PROVE ChoiceInv' /\ ChoiceStep
  <2>1. p # <<>>
    BY <1>15 DEF SpaceCommits, IsSpace, Composing
  <2>2. Kept(c, hide_lookup_table(c))
    BY <1>1, ScreenKeeps
  <2>3. ASSUME First(c) \notin {NoWord, Hole}
        PROVE  /\ Offers(send_commit_string(c, p, First(c)))
               /\ Rightly(p, send_commit_string(c, p, First(c)))
    BY <1>1, <2>1, <2>3, FirstInList, SendRightly
  <2> QED
    BY <1>1, <1>2, <1>15, <2>2, <2>3, KeptOffers DEF SpaceCommits, c
<1>16. ASSUME SpaceLists(k)  PROVE ChoiceInv' /\ ChoiceStep
  <2>1. p # <<>>
    BY <1>16 DEF SpaceLists, IsSpace, Composing
  <2>2. Offers(Listed(c)) /\ Rightly(p, Listed(c))
    BY <1>1, <2>1, ListedRightly
  <2> QED
    BY <1>2, <1>16, <2>2 DEF SpaceLists, c
<1>17. ASSUME OtherKey(k)  PROVE ChoiceInv' /\ ChoiceStep
  <2>1. PageTurned(k) \in Compositions /\ Kept(c, PageTurned(k))
    BY <1>1, PagedKeeps, PagedTyped DEF PageTurned, Kept, c
  <2>2. Offers(PageTurned(k)) /\ Rightly(p, PageTurned(k))
    BY <1>1, <2>1, KeptOffers
  <2> DEFINE d == [PageTurned(k) EXCEPT !.commit = Typed(k.code, m_full_width_letter)]
  <2>3. Offers(d) /\ Rightly(p, d)
    BY <2>1, <2>2 DEF Compositions, Offers, FromTables, Pending, Rightly, Typed
  <2> QED
    BY <1>2, <1>17, <2>2, <2>3 DEF OtherKey
<1> QED
  BY <1>5, <1>6, <1>7, <1>8, <1>9, <1>10, <1>11, <1>12, <1>13, <1>14, <1>15,
     <1>16, <1>17 DEF process_key_event

LEMMA Undisturbed ==
  ASSUME ChoiceInv, UNCHANGED instance, UNCHANGED user_phrases
  PROVE  ChoiceInv'
<1>1. PressesListed'
  BY DEF ChoiceInv, PressesListed, Composing, instance
<1>2. PhrasesOf(m_preedit_string)' = PhrasesOf(m_preedit_string)
  BY DEF PhrasesOf, instance
<1>3. TableOfCode'
  BY <1>2 DEF ChoiceInv, TableOfCode, Composing, instance
<1> QED
  BY <1>1, <1>3 DEF ChoiceInv

LEMMA NextChoice ==
  ASSUME TypeInv, ChoiceInv, Next
  PROVE  ChoiceInv' /\ ChoiceStep
<1>1. /\ Now \in Compositions /\ Offers(Now) /\ Rightly(m_preedit_string, Now)
      /\ Now.commit = Nothing
  BY NowTyped, NowOffers
<1>2. \A d, handled :
        /\ Becomes(d, handled) /\ Offers(d) /\ Rightly(m_preedit_string, d)
        /\ user_phrases' = user_phrases
        => ChoiceInv' /\ ChoiceStep
  BY BecomesOffers, BecomesRightly
<1>3. Offers(reset(Now)) /\ Rightly(m_preedit_string, reset(Now))
  BY <1>1, ResetEmpties, EmptiedOffers, SilentStep
<1>4. ASSUME UNCHANGED instance, UNCHANGED user_phrases, CommitsNothing
      PROVE  ChoiceInv' /\ ChoiceStep
  BY <1>4, Undisturbed DEF CommitsNothing, ChoiceStep, CommitsWord, Nothing
<1>5. \A k : process_key_event(k) => ChoiceInv' /\ ChoiceStep
  BY KeyEventOffers
<1>6. ASSUME NEW item \in 0 .. PageSize - 1, select_candidate(item)
      PROVE  ChoiceInv' /\ ChoiceStep
  BY <1>5, <1>6 DEF select_candidate
<1>7. ASSUME PanelPages  PROVE ChoiceInv' /\ ChoiceStep
  <2>1. Kept(Now, lookup_table_page_up(Now)) /\ Kept(Now, lookup_table_page_down(Now))
    BY <1>1, PagedKeeps
  <2> QED
    BY <1>1, <1>2, <1>7, <2>1, KeptOffers DEF PanelPages, OnlyComposition, factory
<1>8. ASSUME focus_in  PROVE ChoiceInv' /\ ChoiceStep
  <2> DEFINE p == pre_update_preedit_string(Now)
             d == show_preedit_string(p)
             l == update_lookup_table(d)
             s == show_lookup_table(l)
  <2>1. p \in Compositions /\ Kept(Now, p)
    BY <1>1, DrawTyped, ScreenKeeps
  <2> HIDE DEF p
  <2>2. d \in Compositions /\ Kept(Now, d)
    BY <2>1, ScreenTyped, ScreenKeeps, KeptTwice
  <2> HIDE DEF d
  <2>3. l \in Compositions /\ Kept(Now, l)
    BY <2>2, DrawTyped, ScreenKeeps, KeptTwice
  <2> HIDE DEF l
  <2>4. Kept(Now, s)
    BY <2>3, ScreenKeeps, KeptTwice
  <2> HIDE DEF s
  <2>5. Offers(d) /\ Rightly(m_preedit_string, d) /\ Offers(s) /\ Rightly(m_preedit_string, s)
    BY <1>1, <2>2, <2>4, KeptOffers
  <2> QED
    BY <1>1, <1>2, <1>8, <2>5 DEF focus_in, OnlyComposition, factory, p, d, l, s
<1>9. ASSUME focus_out  PROVE ChoiceInv' /\ ChoiceStep
  BY <1>2, <1>3, <1>9 DEF focus_out, OnlyComposition, factory
<1>10. ASSUME trigger_property  PROVE ChoiceInv' /\ ChoiceStep
  BY <1>1, <1>2, <1>3, <1>10 DEF trigger_property, ToggleStatus, ToggleLetter, factory
<1>11. ASSUME NEW size \in PanelPageSizes, PanelAsksPageSize(size)
       PROVE  ChoiceInv' /\ ChoiceStep
  BY <1>4, <1>11 DEF PanelAsksPageSize, factory
<1>12. ASSUME update_lookup_table_page_size  PROVE ChoiceInv' /\ ChoiceStep
  <2> DEFINE d == [Now EXCEPT !.table = SetPageSize(@, resize)]
  <2>1. SetPageSize(Now.table, resize).cands = Now.table.cands
    BY <1>1 DEF Compositions, GoodTables, Tables, SetPageSize
  <2>2. Kept(Now, d)
    BY <1>1, <2>1 DEF Compositions, Kept
  <2>3. Becomes(d, FALSE) /\ user_phrases' = user_phrases
    BY <1>12 DEF update_lookup_table_page_size, factory
  <2> HIDE DEF d
  <2> QED
    BY <1>1, <1>2, <2>2, <2>3, KeptOffers
<1>13. ASSUME NEW cfg \in Configurations, reload_config(cfg)
       PROVE  ChoiceInv' /\ ChoiceStep
  BY <1>4, <1>13 DEF reload_config
<1> QED
  BY <1>5, <1>6, <1>7, <1>8, <1>9, <1>10, <1>11, <1>12, <1>13 DEF Next

(* NeverCommitsHole is about the last reply: it is carried along. *)
CommitInv == TypeInv /\ ChoiceInv /\ NeverCommitsHole

LEMMA CommitInvInit ==
  ASSUME Init
  PROVE  CommitInv
<1>1. TypeInv
  BY TypeInvInit
<1>2. ChoiceInv
  BY DEF Init, ChoiceInv, TableOfCode, PressesListed, Composing
<1>3. NeverCommitsHole
  BY DEF Init, NeverCommitsHole, Nothing
<1> QED
  BY <1>1, <1>2, <1>3 DEF CommitInv

LEMMA CommitInvStep ==
  ASSUME CommitInv, [Next]_vars
  PROVE  CommitInv' /\ [ChoiceStep]_vars
<1>1. TypeInv'
  BY TypeInvStep DEF CommitInv
<1>2. CASE Next
  <2>1. ChoiceInv' /\ ChoiceStep
    BY <1>2, NextChoice DEF CommitInv
  <2>2. NeverCommitsHole'
    BY <2>1 DEF ChoiceStep, CommitsWord, Means, NeverCommitsHole
  <2> QED
    BY <1>1, <2>1, <2>2 DEF CommitInv
<1>3. CASE UNCHANGED vars
  <2>1. ChoiceInv'
    BY <1>3, Undisturbed DEF CommitInv, vars, factory
  <2>2. NeverCommitsHole'
    BY <1>3 DEF CommitInv, NeverCommitsHole, vars
  <2> QED
    BY <1>1, <1>3, <2>1, <2>2 DEF CommitInv
<1> QED
  BY <1>2, <1>3

LEMMA CommitInvAlways == Spec => []CommitInv /\ [][ChoiceStep]_vars
<1>1. Init => CommitInv
  BY CommitInvInit
<1>2. CommitInv /\ [Next]_vars => CommitInv' /\ [ChoiceStep]_vars
  BY CommitInvStep
<1> QED
  BY <1>1, <1>2, PTL DEF Spec
-----------------------------------------------------------------------------
(***************************************************************************)
(* What a step tells the user and hands to the client, besides the word:   *)
(* the note about a special code, the character of a key that composes     *)
(* nothing, the page space turns to.  A list needs a code under it.        *)
(***************************************************************************)
Backed(c) == c.panel.tableShown => c.preedit # <<>>

Noted(p, c) ==
  c.commit.kind = "word" /\ c.preedit = <<>> =>
    LET w     == c.commit.text
        codes == IF w \in Phrases THEN <<>> ELSE Find(specialCodes, w)
    IN  c.panel.auxShown <=>
          config.m_show_special /\ codes # <<>> /\ Head(codes) # p

Wordy(c) == c.commit.kind \notin {"key", "fullwidth"}

Tells(p, c) == Backed(c) /\ Noted(p, c) /\ Wordy(c)

LEMMA SilentTells ==
  ASSUME NEW c, c.commit = Nothing, Backed(c)
  PROVE  \A p : Tells(p, c)
BY DEF Nothing, Noted, Wordy, Tells

LEMMA CodeBacks ==
  ASSUME NEW c, c.preedit # <<>>
  PROVE  Backed(c)
BY DEF Backed

(* A note changes neither the list on the screen nor the code under it.     *)
LEMMA SameBacked ==
  ASSUME NEW c, NEW d, Backed(c), SameCode(c, d), SameList(c, d)
  PROVE  Backed(d)
BY DEF Backed, SameCode, SameList

LEMMA ResetTells ==
  ASSUME NEW c \in Compositions
  PROVE  /\ reset(c).preedit = <<>> /\ reset(c).commit = c.commit
         /\ ~reset(c).panel.tableShown /\ ~reset(c).panel.auxShown
         /\ Backed(reset(c))
BY ResetCloses, ResetEmpties DEF Closed, Backed

LEMMA HiddenBacked ==
  ASSUME NEW c \in Compositions
  PROVE  Backed(hide_lookup_table(c)) /\ hide_lookup_table(c).commit = c.commit
BY DEF Compositions, Panels, hide_lookup_table, Backed

(* The note that follows a commit is about the code the caller still reads. *)
LEMMA NoteFollows ==
  ASSUME NEW c \in Compositions, ~c.panel.auxShown, NEW keysLeft, NEW w
  PROVE  show_special_code(c, keysLeft, w).panel.auxShown <=>
           /\ config.m_show_special /\ Find(specialCodes, w) # <<>>
           /\ Head(Find(specialCodes, w)) # keysLeft
<1>1. ~hide_aux_string(c).panel.auxShown
  BY DEF Compositions, Panels, hide_aux_string
<1>2. \A note : show_note(c, note).panel.auxShown
  BY DEF Compositions, Panels, show_note
<1>3. Find(specialCodes, w) # <<>> => specialCodes[w] = Find(specialCodes, w)
  BY DEF Find
<1> HIDE DEF hide_aux_string, show_note
<1> QED
  BY <1>1, <1>2, <1>3 DEF show_special_code

LEMMA SendTells ==
  ASSUME NEW c \in Compositions, Backed(c), c.commit = Nothing,
         NEW keysLeft, NEW w \in Words
  PROVE  Tells(keysLeft, send_commit_string(c, keysLeft, w))
<1> DEFINE r == reset(commit_string(c, w))
           n == show_special_code(r, keysLeft, w)
           k == show_special_code(c, c.preedit, w)
<1>1. commit_string(c, w) \in Compositions /\ commit_string(c, w).commit = Word(w)
  BY CommitTyped DEF Compositions, commit_string, Candidates
<1>2. /\ r \in Compositions /\ r.preedit = <<>> /\ r.commit = Word(w)
      /\ ~r.panel.tableShown /\ ~r.panel.auxShown /\ Backed(r)
  BY <1>1, ResetTyped, ResetTells
<1> HIDE DEF r
<1>3. Wordy(r) /\ r.commit.text = w
  BY <1>2 DEF Wordy, Word
<1>4. CASE w \in Phrases
  <2>1. Tells(keysLeft, r)
    BY <1>2, <1>3, <1>4 DEF Tells, Noted
  <2> QED
    BY <1>4, <2>1 DEF send_commit_string, r
<1>5. Tells(keysLeft, k)
  <2>1. Kept(c, k) /\ SameCode(c, k) /\ SameList(c, k)
    BY NotesKeep, NoteSame
  <2> QED
    BY <2>1, SameBacked, SilentTells DEF Kept
<1>6. CASE w \notin Phrases
  <2>1. Kept(r, n) /\ SameCode(r, n) /\ SameList(r, n)
    BY <1>2, NotesKeep, NoteSame
  <2>2. Backed(n) /\ Wordy(n) /\ n.commit.text = w
    BY <1>2, <1>3, <2>1, SameBacked DEF Kept, Wordy
  <2>3. Noted(keysLeft, n)
    BY <1>2, <1>6, <2>2, NoteFollows DEF Noted
  <2>4. Tells(keysLeft, n)
    BY <2>2, <2>3 DEF Tells
  <2> QED
    BY <1>5, <1>6, <2>4 DEF send_commit_string, r
<1> QED
  BY <1>4, <1>6

(* process_preedit_string closes the list of a code that is gone.           *)
LEMMA SentBacked ==
  ASSUME NEW c \in Compositions, Pending(c)
  PROVE  Backed(process_preedit_string(pre_update_preedit_string(c)))
<1> DEFINE s == pre_update_preedit_string(c)
<1>1. s \in Compositions /\ s.preedit = c.preedit /\ Pending(s)
  BY DrawTyped, ScreenKeeps, KeptOffers DEF Kept
<1> HIDE DEF s
<1>2. CASE c.preedit = <<>>
  <2>1. hide_preedit_string(s) \in Compositions
    BY <1>1, ScreenTyped
  <2> QED
    BY <1>1, <1>2, <2>1, HiddenBacked DEF process_preedit_string, s
<1>3. CASE c.preedit # <<>>
  BY <1>1, <1>3, ProcessOffers, CodeBacks DEF s
<1> QED
  BY <1>2, <1>3

LEMMA PagedBacked ==
  ASSUME NEW c \in Compositions, Backed(c)
  PROVE  Backed(lookup_table_page_up(c)) /\ Backed(lookup_table_page_down(c))
<1>1. CASE c.preedit = <<>>
  BY <1>1 DEF lookup_table_page_up, lookup_table_page_down, Paged
<1>2. CASE c.preedit # <<>>
  BY <1>2, PagedKeeps, CodeBacks DEF Kept
<1> QED
  BY <1>1, <1>2

LEMMA ListedTells ==
  ASSUME NEW c \in Compositions, c.preedit # <<>>, c.commit = Nothing
  PROVE  Tells(c.preedit, Listed(c))
<1> DEFINE m == create_lookup_table(c, "Table")
           l == update_lookup_table(m)
           s == show_lookup_table(l)
           h == hide_lookup_table(l)
           u == [s EXCEPT !.presses = @ + 1]
<1>1. m \in Compositions /\ Listing(c, m)
  BY ListTyped, CreateLists DEF CinNames
<1> HIDE DEF m
<1>2. l \in Compositions /\ Listing(c, l)
  BY <1>1, DrawTyped, ScreenKeeps, ListingKept
<1> HIDE DEF l
<1>3. s \in Compositions /\ Listing(c, s) /\ h \in Compositions /\ Listing(c, h)
  BY <1>2, ScreenTyped, ScreenKeeps, ListingKept
<1> HIDE DEF s, h
<1>4. u.preedit = c.preedit /\ u.commit = Nothing
  BY <1>3 DEF Compositions, Listing
<1> HIDE DEF u
<1>5. Tells(c.preedit, u) /\ Tells(c.preedit, h)
  BY <1>3, <1>4, CodeBacks, SilentTells DEF Listing
<1>6. ASSUME First(l) \notin {NoWord, Hole}
      PROVE  Tells(c.preedit, send_commit_string(h, l.preedit, First(l)))
  <2>1. First(l) \in Words
    BY <1>2, <1>6, FirstTyped DEF Candidates
  <2>2. Backed(h) /\ h.commit = Nothing /\ l.preedit = c.preedit
    BY <1>2, <1>3, CodeBacks DEF Listing
  <2> QED
    BY <1>3, <2>1, <2>2, SendTells
<1> QED
  BY <1>5, <1>6 DEF Listed, m, l, s, h, u
-----------------------------------------------------------------------------
(* A list is on the screen only while something is composed.                *)
ListNeedsCode == panel.tableShown => Composing

Notified ==
  CommitsWord /\ m_preedit_string' = <<>> =>
    LET w     == reply'.commit.text
        codes == IF w \in Phrases THEN <<>> ELSE Find(specialCodes, w)
    IN  panel'.auxShown <=>
          config.m_show_special /\ codes # <<>> /\ Head(codes) # m_preedit_string

Waited ==
  reply'.commit.kind \in {"key", "fullwidth"} =>
    /\ ~Composing /\ m_preedit_string' = <<>>
    /\ ~panel'.tableShown /\ ~panel'.preeditShown

Telling == ListNeedsCode' /\ Notified /\ Waited

LEMMA BecomesTells ==
  ASSUME NEW c, NEW handled, Tells(m_preedit_string, c), Becomes(c, handled)
  PROVE  Telling
<1>1. ListNeedsCode'
  BY DEF ListNeedsCode, Composing, Becomes, Tells, Backed
<1>2. Notified
  BY DEF Notified, CommitsWord, Becomes, Tells, Noted
<1>3. Waited
  BY DEF Waited, Becomes, Tells, Wordy
<1> QED
  BY <1>1, <1>2, <1>3 DEF Telling

(* A key handed on: nothing is composed, so nothing is on the screen.       *)
LEMMA PassedTells ==
  ASSUME ListNeedsCode, PanelShowsCode, ~Composing, NEW c, NEW handled,
         Becomes(c, handled), c.preedit = m_preedit_string, c.panel = panel,
         c.commit.kind # "word"
  PROVE  Telling
BY DEF Telling, ListNeedsCode, PanelShowsCode, Composing, Becomes, Notified,
       CommitsWord, Waited

LEMMA KeyEventTells ==
  ASSUME TypeInv, ChoiceInv, ScreenInv, ListNeedsCode, NEW k, process_key_event(k)
  PROVE  Telling
<1> DEFINE c == Now
           p == m_preedit_string
<1>1. /\ c \in Compositions /\ c.commit = Nothing /\ Offers(c) /\ Pending(c)
      /\ c.preedit = p /\ c.table = m_lookup_table /\ c.panel = panel
  BY NowTyped, NowOffers DEF Now, Offers
<1>2. Backed(c)
  BY <1>1 DEF ListNeedsCode, Composing, Backed
<1>3. ASSUME NEW d, NEW handled, Becomes(d, handled), d.commit = Nothing, Backed(d)
      PROVE  Telling
  BY <1>3, SilentTells, BecomesTells
<1>4. ASSUME NEW d, NEW handled, Becomes(d, handled), Tells(p, d)
      PROVE  Telling
  BY <1>4, BecomesTells
<1>5. Backed(reset(c)) /\ reset(c).commit = Nothing
  BY <1>1, ResetTells
<1> HIDE DEF c
<1>6. ASSUME KeyRelease(k)  PROVE Telling
  BY <1>1, <1>2, <1>3, <1>6 DEF KeyRelease, c
<1>7. ASSUME HotKey(k)  PROVE Telling
  BY <1>1, <1>2, <1>3, <1>5, <1>7 DEF HotKey, c
<1>8. ASSUME ForwardKey(k)  PROVE Telling
  <2>1. PICK commit \in {Typed(k.code, TRUE), Nothing} : \E handled :
          Becomes([c EXCEPT !.commit = commit], handled)
    BY <1>8 DEF ForwardKey, c
  <2> DEFINE d == [c EXCEPT !.commit = commit]
  <2>2. d.preedit = p /\ d.panel = panel /\ d.commit.kind # "word"
    BY <1>1, <2>1 DEF Compositions, Typed, Nothing
  <2> HIDE DEF d
  <2>3. ~Composing /\ PanelShowsCode
    BY <1>8 DEF ForwardKey, ScreenInv, ForwardIdle
  <2> QED
    BY <2>1, <2>2, <2>3, PassedTells DEF d
<1>9. ASSUME EscapeKey(k)  PROVE Telling
  BY <1>1, <1>2, <1>3, <1>5, <1>9 DEF EscapeKey, c
<1>10. ASSUME BackSpaceKey(k)  PROVE Telling
  <2> DEFINE e == Erased(c)
             d == process_preedit_string(pre_update_preedit_string(e))
  <2>1. p # <<>> /\ p \in Codes
    BY <1>1, <1>10 DEF BackSpaceKey, IsBackSpace, Composing, Compositions
  <2>2. SubSeq(p, 1, Len(p) - 1) \in Codes
    BY <2>1 DEF Codes
  <2>3. e \in Compositions /\ e.presses = 0 /\ e.commit = Nothing
    BY <1>1, <2>2 DEF Compositions, Erased
  <2> HIDE DEF e
  <2>4. Pending(e)
    BY <2>3 DEF Pending
  <2>5. d.commit = Nothing /\ Backed(d)
    BY <2>3, <2>4, SentOffers, SentBacked
  <2> HIDE DEF d
  <2> QED
    BY <1>3, <1>10, <2>5 DEF BackSpaceKey, c, d, e
<1>11. ASSUME RootKey(k)  PROVE Telling
  <2> DEFINE a == CommitAhead(c)
             d == RootTyped(a, k.code)
  <2>1. k.code \in KeyChars
    BY <1>11 DEF RootKey, IsRoot, KeyChars
  <2>2. a \in Compositions /\ Pending(a)
    BY <1>1, <2>1, RootTypedTyped, AheadRightly DEF Offers
  <2>3. Wordy(a)
    <3>1. Wordy(c) /\ Wordy(reset(c))
      BY <1>1, <1>5 DEF Wordy, Nothing
    <3>2. ASSUME First(c) \notin {NoWord, Hole}
          PROVE  Wordy(send_commit_string(c, <<>>, First(c)))
      <4>1. First(c) \in Words
        BY <1>1, <3>2, FirstTyped DEF Candidates
      <4> QED
        BY <1>1, <1>2, <4>1, SendTells DEF Tells
    <3> QED
      BY <3>1, <3>2 DEF CommitAhead
  <2> HIDE DEF a
  <2>4. d.preedit = Append(a.preedit, k.code) /\ d.commit = a.commit
    BY <2>1, <2>2, RootOffers
  <2> HIDE DEF d
  <2>5. d.preedit # <<>>
    BY <2>2, <2>4 DEF Compositions, Codes
  <2>6. Tells(p, d)
    BY <2>3, <2>4, <2>5, CodeBacks DEF Tells, Noted, Wordy
  <2> QED
    BY <1>1, <1>2, <1>3, <1>4, <1>11, <2>6 DEF RootKey, a, c, d
<1>12. ASSUME ApostropheKey(k)  PROVE Telling
  <2> DEFINE t == create_phrase_lookup_table(c)
             u == [t EXCEPT !.presses = @ + 1]
             v == hide_aux_string(u)
             w == update_lookup_table(v)
             d == show_lookup_table(w)
  <2>1. t \in Compositions /\ Listing(c, t)
    BY <1>1, ListTyped, CreateLists
  <2> HIDE DEF t
  <2>2. u \in Compositions /\ u.preedit = p /\ u.commit = Nothing
    BY <1>1, <2>1, PressTyped DEF Compositions, Listing
  <2> HIDE DEF u
  <2>3. v \in Compositions /\ Kept(u, v)
    BY <2>2, ScreenTyped, ScreenKeeps
  <2> HIDE DEF v
  <2>4. w \in Compositions /\ Kept(u, w)
    BY <2>3, DrawTyped, ScreenKeeps, KeptTwice
  <2> HIDE DEF w
  <2>5. Kept(u, d)
    BY <2>4, ScreenKeeps, KeptTwice
  <2> HIDE DEF d
  <2>6. d.preedit # <<>> /\ d.commit = Nothing
    BY <1>12, <2>2, <2>5 DEF Kept, ApostropheKey, IsApostrophe, Composing
  <2> QED
    BY <1>3, <1>12, <2>6, CodeBacks DEF ApostropheKey, phrase_key_press, t, u, v, w, d, c
<1>13. ASSUME WildcardKey(k)  PROVE Telling
  <2> DEFINE h == hide_lookup_table(c)
             b == push_back(h, k.code)
             d == process_preedit_string(pre_update_preedit_string(b))
  <2>1. k.code \in KeyChars
    BY <1>13 DEF WildcardKey, KeyChars
  <2>2. h \in Compositions /\ Pending(h) /\ h.commit = Nothing
    BY <1>1, ScreenTyped, ScreenKeeps, KeptOffers DEF Kept
  <2> HIDE DEF h
  <2>3. b \in Compositions /\ Pending(b) /\ b.commit = Nothing
    BY <2>1, <2>2, PushedPends
  <2> HIDE DEF b
  <2>4. d.commit = Nothing /\ Backed(d)
    BY <2>3, SentOffers, SentBacked
  <2> QED
    BY <1>3, <1>13, <2>4 DEF WildcardKey, c, h, b
<1>14. ASSUME DigitKey(k)  PROVE Telling
  <2> DEFINE chosen == CandidateInPage(c.table, SelectNum(k.code))
             b == push_back(c, k.code)
             q == pre_update_preedit_string(b)
             d == process_symbol_preedit_string(q)
  <2>1. k.code \in Digits /\ k.code \in KeyChars
    BY <1>14 DEF DigitKey, KeyChars
  <2>2. ASSUME chosen \notin {NoWord, Hole}
        PROVE  Tells(p, send_commit_string(c, p, chosen))
    <3>1. SelectNum(k.code) \in Nat
      BY <2>1, SelectTyped
    <3>2. chosen \in Words
      BY <1>1, <2>2, <3>1, CandidateTyped DEF Compositions, Candidates
    <3> QED
      BY <1>1, <1>2, <3>2, SendTells
  <2> HIDE DEF chosen
  <2>3. b \in Compositions /\ b.preedit = Append(p, k.code) /\ b.commit = Nothing
    BY <1>1, <2>1, PushedPends
  <2> HIDE DEF b
  <2>4. b.preedit # <<>>
    BY <1>1, <2>3 DEF Compositions, Codes
  <2>5. q \in Compositions /\ q.preedit # <<>> /\ q.commit = Nothing
    BY <2>3, <2>4, DrawTyped, ScreenKeeps DEF Kept
  <2> HIDE DEF q
  <2>6. d.commit = Nothing /\ Backed(d)
    BY <2>5, SymbolLists, CodeBacks DEF Listing
  <2> HIDE DEF d
  <2>7. CASE ~Composing
    <3>1. m_preedit_string # <<SymbolRoot>>
      BY <2>7 DEF Composing
    <3>2. Becomes(c, FALSE)
      BY <1>14, <2>7, <3>1 DEF DigitKey, c
    <3> QED
      BY <1>1, <1>2, <1>3, <3>2
  <2>8. CASE m_preedit_string = <<SymbolRoot>>
    BY <1>3, <1>14, <2>6, <2>8 DEF DigitKey, Composing, c, b, q, d
  <2>9. CASE Composing /\ m_preedit_string # <<SymbolRoot>>
    BY <1>1, <1>2, <1>3, <1>4, <1>14, <2>2, <2>9 DEF DigitKey, Composing, c, chosen
  <2> QED
    BY <2>7, <2>8, <2>9
<1>15. ASSUME SpacePages(k)  PROVE Telling
  <2>1. lookup_table_page_down(c).commit = Nothing /\ Backed(lookup_table_page_down(c))
    BY <1>1, <1>2, PagedKeeps, PagedBacked DEF Kept
  <2> QED
    BY <1>3, <1>15, <2>1 DEF SpacePages, c
<1>16. ASSUME SpaceCommits(k)  PROVE Telling
  <2>1. Backed(hide_lookup_table(c)) /\ hide_lookup_table(c).commit = Nothing
    BY <1>1, HiddenBacked
  <2>2. ASSUME First(c) \notin {NoWord, Hole}
        PROVE  Tells(p, send_commit_string(c, p, First(c)))
    <3>1. First(c) \in Words
      BY <1>1, <2>2, FirstTyped DEF Candidates
    <3> QED
      BY <1>1, <1>2, <3>1, SendTells
  <2> QED
    BY <1>3, <1>4, <1>16, <2>1, <2>2 DEF SpaceCommits, c
<1>17. ASSUME SpaceLists(k)  PROVE Telling
  <2>1. p # <<>>
    BY <1>17 DEF SpaceLists, IsSpace, Composing
  <2>2. Tells(p, Listed(c))
    BY <1>1, <2>1, ListedTells
  <2> QED
    BY <1>4, <1>17, <2>2 DEF SpaceLists, c
<1>18. ASSUME OtherKey(k)  PROVE Telling
  <2>1. PageTurned(k).commit = Nothing /\ Backed(PageTurned(k))
    BY <1>1, <1>2, PagedKeeps, PagedBacked DEF PageTurned, Kept, c
  <2>2. CASE ~PassedThrough(k)
    BY <1>3, <1>18, <2>1, <2>2 DEF OtherKey
  <2>3. CASE PassedThrough(k)
    <3> DEFINE d == [PageTurned(k) EXCEPT !.commit = Typed(k.code, m_full_width_letter)]
    <3>1. ~Composing /\ PanelShowsCode
      BY <2>3 DEF PassedThrough, ScreenInv
    <3>2. PageTurned(k) = c
      BY <1>1, <3>1 DEF PageTurned, lookup_table_page_up, lookup_table_page_down,
         Paged, Composing, c
    <3>3. d.preedit = p /\ d.panel = panel /\ d.commit.kind # "word"
      BY <1>1, <3>2 DEF Compositions, Typed
    <3>4. Becomes(d, TRUE)
      BY <1>18, <2>3 DEF OtherKey
    <3> HIDE DEF d
    <3> QED
      BY <3>1, <3>3, <3>4, PassedTells
  <2> QED
    BY <2>2, <2>3
<1> QED
  BY <1>6, <1>7, <1>8, <1>9, <1>10, <1>11, <1>12, <1>13, <1>14, <1>15, <1>16,
     <1>17, <1>18 DEF process_key_event

LEMMA NextTells ==
  ASSUME TypeInv, ChoiceInv, ScreenInv, ListNeedsCode, Next
  PROVE  Telling
<1>1. /\ Now \in Compositions /\ Now.commit = Nothing /\ Backed(Now)
      /\ Now.preedit = m_preedit_string
  BY NowTyped, NowOffers DEF Now, ListNeedsCode, Composing, Backed
<1>2. ASSUME NEW d, NEW handled, Becomes(d, handled), d.commit = Nothing, Backed(d)
      PROVE  Telling
  BY <1>2, SilentTells, BecomesTells
<1>3. Backed(reset(Now)) /\ reset(Now).commit = Nothing
  BY <1>1, ResetTells
<1>4. ASSUME UNCHANGED instance, CommitsNothing
      PROVE  Telling
  BY <1>4 DEF Telling, ListNeedsCode, Composing, Notified, Waited, CommitsWord,
     CommitsNothing, Nothing, instance
<1>5. \A k : process_key_event(k) => Telling
  BY KeyEventTells
<1>6. ASSUME NEW item \in 0 .. PageSize - 1, select_candidate(item)
      PROVE  Telling
  BY <1>5, <1>6 DEF select_candidate
<1>7. ASSUME PanelPages  PROVE Telling
  <2>1. /\ lookup_table_page_up(Now).commit = Nothing
        /\ lookup_table_page_down(Now).commit = Nothing
        /\ Backed(lookup_table_page_up(Now)) /\ Backed(lookup_table_page_down(Now))
    BY <1>1, PagedKeeps, PagedBacked DEF Kept
  <2> QED
    BY <1>2, <1>7, <2>1 DEF PanelPages
<1>8. ASSUME focus_in  PROVE Telling
  <2> DEFINE p == pre_update_preedit_string(Now)
             d == show_preedit_string(p)
             l == update_lookup_table(d)
             s == show_lookup_table(l)
  <2>1. p \in Compositions /\ Kept(Now, p)
    BY <1>1, DrawTyped, ScreenKeeps
  <2> HIDE DEF p
  <2>2. d \in Compositions /\ Kept(Now, d)
    BY <2>1, ScreenTyped, ScreenKeeps, KeptTwice
  <2> HIDE DEF d
  <2>3. l \in Compositions /\ Kept(Now, l)
    BY <2>2, DrawTyped, ScreenKeeps, KeptTwice
  <2> HIDE DEF l
  <2>4. Kept(Now, s)
    BY <2>3, ScreenKeeps, KeptTwice
  <2> HIDE DEF s
  <2>5. CASE ~Composing
    BY <1>1, <1>2, <1>8, <2>5 DEF focus_in
  <2>6. CASE Composing
    <3>1. Backed(d) /\ Backed(s) /\ d.commit = Nothing /\ s.commit = Nothing
      BY <1>1, <2>2, <2>4, <2>6, CodeBacks DEF Kept, Composing
    <3> QED
      BY <1>2, <1>8, <2>6, <3>1 DEF focus_in, p, d, l, s
  <2> QED
    BY <2>5, <2>6
<1>9. ASSUME focus_out  PROVE Telling
  BY <1>2, <1>3, <1>9 DEF focus_out
<1>10. ASSUME trigger_property  PROVE Telling
  BY <1>1, <1>2, <1>3, <1>10 DEF trigger_property
<1>11. ASSUME NEW size \in PanelPageSizes, PanelAsksPageSize(size)
       PROVE  Telling
  BY <1>4, <1>11 DEF PanelAsksPageSize
<1>12. ASSUME update_lookup_table_page_size  PROVE Telling
  <2> DEFINE d == [Now EXCEPT !.table = SetPageSize(@, resize)]
  <2>1. d.commit = Nothing /\ Backed(d)
    BY <1>1 DEF Compositions, Backed
  <2>2. Becomes(d, FALSE)
    BY <1>12 DEF update_lookup_table_page_size
  <2> HIDE DEF d
  <2> QED
    BY <1>2, <2>1, <2>2
<1>13. ASSUME NEW cfg \in Configurations, reload_config(cfg)
       PROVE  Telling
  BY <1>4, <1>13 DEF reload_config
<1> QED
  BY <1>5, <1>6, <1>7, <1>8, <1>9, <1>10, <1>11, <1>12, <1>13 DEF Next

LEMMA TellingAlways == Spec => []ListNeedsCode /\ [][Telling]_vars
<1>1. Init => ListNeedsCode
  BY DEF Init, ListNeedsCode
<1>2. CommitInv /\ ScreenInv /\ ListNeedsCode /\ [Next]_vars
      => ListNeedsCode' /\ [Telling]_vars
  <2>1. ASSUME CommitInv, ScreenInv, ListNeedsCode, Next
        PROVE  ListNeedsCode' /\ Telling
    BY <2>1, NextTells DEF CommitInv, Telling
  <2>2. ASSUME ListNeedsCode, UNCHANGED vars
        PROVE  ListNeedsCode'
    BY <2>2 DEF ListNeedsCode, Composing, vars, instance
  <2> QED
    BY <2>1, <2>2
<1> QED
  BY <1>1, <1>2, CommitInvAlways, ScreenAlways, PTL DEF Spec
-----------------------------------------------------------------------------
(***************************************************************************)
(* Digits and space, by the invariants before the step alone.              *)
(***************************************************************************)
LEMMA DigitTells ==
  ASSUME TypeInv, ChoiceInv, PanelShowsTable, panel.tableShown,
         NEW k, DigitKey(k), CommitsWord
  PROVE  reply'.commit.text = CandidateInPage(panel.table, SelectNum(k.code))
<1> DEFINE c == Now
           p == m_preedit_string
           n == SelectNum(k.code)
           chosen == CandidateInPage(m_lookup_table, n)
           s == send_commit_string(c, p, chosen)
           b == push_back(c, k.code)
           q == pre_update_preedit_string(b)
           d == process_symbol_preedit_string(q)
<1>1. c \in Compositions /\ c.commit = Nothing /\ Pending(c) /\ c.table = m_lookup_table
  BY NowTyped, NowOffers DEF Now, Offers
<1>2. k.code \in KeyChars /\ n \in Nat
  BY SelectTyped DEF DigitKey, KeyChars
<1>3. Nothing.kind # "word"
  BY DEF Nothing
<1>4. d.commit = Nothing
  <2>1. b \in Compositions /\ b.commit = Nothing
    BY <1>1, <1>2, PushedPends
  <2> HIDE DEF b
  <2>2. q \in Compositions /\ q.commit = Nothing
    BY <2>1, DrawTyped, ScreenKeeps DEF Kept
  <2> HIDE DEF q
  <2> QED
    BY <2>2, SymbolLists DEF Listing
<1>5. \A handled : ~Becomes(c, handled) /\ ~Becomes(d, handled)
  BY <1>1, <1>3, <1>4 DEF CommitsWord, Becomes
<1>6. chosen \notin {NoWord, Hole} /\ Becomes(s, TRUE)
  BY <1>5 DEF DigitKey, c, d, q, b, s, chosen, n, p
<1>7. chosen \in Words
  BY <1>1, <1>2, <1>6, CandidateTyped DEF Compositions, Candidates
<1>8. Kept(c, s) \/ s.commit = Word(chosen)
  BY <1>1, <1>7, SendCommits
<1>9. reply'.commit.text = chosen
  BY <1>1, <1>3, <1>6, <1>8 DEF CommitsWord, Becomes, Kept, Word
<1>10. chosen = CandidateInPage(panel.table, n)
  BY DEF PanelShowsTable, CandidateInPage
<1> QED
  BY <1>9, <1>10

LEMMA SpaceTurns ==
  ASSUME TypeInv, NEW k, SpacePages(k)
  PROVE  LET t == m_lookup_table
         IN  m_lookup_table'.start =
               IF t.start + t.pageSize < Len(t.cands) THEN t.start + t.pageSize ELSE 0
<1> DEFINE t == m_lookup_table
           turned == IF CanPageDown(t) THEN PageDown(t) ELSE Rewind(t)
           d == [Now EXCEPT !.table = Relabel(turned)]
<1>1. t \in GoodTables /\ t \in Tables /\ Now \in Compositions /\ Now.table = t
      /\ Now.preedit = m_preedit_string
  BY NowTyped DEF TypeInv, GoodTables, Now
<1>2. /\ m_preedit_string # <<>> /\ t.cands # <<>> /\ t.pageSize < Len(t.cands)
      /\ Becomes(lookup_table_page_down(Now), TRUE)
  <2>1. t.pageSize < Len(t.cands)
    BY DEF SpacePages, ManyPages
  <2>2. t.cands # <<>>
    BY <1>1, <2>1 DEF Tables
  <2> QED
    BY <2>1, <2>2 DEF SpacePages, IsSpace, Composing
<1>3. turned.start = IF t.start + t.pageSize < Len(t.cands) THEN t.start + t.pageSize ELSE 0
  <2>1. CASE CanPageDown(t)
    BY <1>1, <2>1 DEF CanPageDown, PageDown, Tables
  <2>2. CASE ~CanPageDown(t)
    <3>1. Rewind(t).start = 0
      <4>1. CASE t.history = <<>>
        <5>1. t.start = 0
          BY <1>1, <4>1 DEF GoodTables, WayBack
        <5> QED
          BY <4>1, <5>1 DEF Rewind, CanPageUp
      <4>2. CASE t.history # <<>>
        <5>1. t.history[1] = 0 /\ CanPageUp(t)
          BY <1>1, <1>2, <4>2 DEF GoodTables, WayBack, CanPageUp, Tables
        <5> QED
          BY <1>1, <5>1 DEF Rewind, Tables
      <4> QED
        BY <4>1, <4>2
    <3> QED
      BY <2>2, <3>1 DEF CanPageDown
  <2> QED
    BY <2>1, <2>2
<1>4. turned \in GoodTables
  BY <1>1, PageDownGood, RewindGood
<1> HIDE DEF turned
<1>5. Relabel(turned) \in GoodTables /\ Relabel(turned).start = turned.start
  BY <1>4, RelabelGood DEF GoodTables, Tables, Relabel
<1>6. d \in Compositions /\ d.table.start = turned.start
  BY <1>1, <1>5, TableTyped DEF Compositions
<1> HIDE DEF d
<1>7. update_lookup_table(d).table = d.table
  BY <1>6 DEF Compositions, update_lookup_table
<1>8. lookup_table_page_down(Now) = update_lookup_table(d)
  BY <1>1, <1>2 DEF lookup_table_page_down, Paged, d, turned
<1>9. m_lookup_table'.start = turned.start
  BY <1>2, <1>6, <1>7, <1>8 DEF Becomes
<1> QED
  BY <1>3, <1>9
-----------------------------------------------------------------------------
(* Whatever edits, pages, resizes and commits went before, the list an      *)
(* instance holds is the list of the code as it reads, by one of the three  *)
(* ways of filling it (unless a wildcard is pending).                       *)
THEOREM ListOfCode == Spec => []TableOfCode
<1>1. CommitInv => TableOfCode
  BY DEF CommitInv, ChoiceInv
<1> QED
  BY <1>1, CommitInvAlways, PTL

(* A counted press never outlives the list it was counted for: the next key *)
(* that commits by it finds a candidate at the head of the page.            *)
THEOREM PressesHaveCandidates == Spec => []PressHasCandidates
<1>1. ASSUME CommitInv  PROVE PressHasCandidates
  <2>1. /\ m_lookup_table \in GoodTables /\ m_lookup_table \in Tables
        /\ m_lookup_table.cands \in Seq(Candidates)
    BY <1>1 DEF CommitInv, TypeInv, TypeOK, GoodTables, Tables
  <2>2. ASSUME m_lookup_table.cands # <<>>
        PROVE  First(Now) # NoWord
    <3>1. /\ m_lookup_table.start \in Nat
          /\ m_lookup_table.start < Len(m_lookup_table.cands)
      BY <2>1, <2>2 DEF GoodTables, Tables, Inside
    <3>2. m_lookup_table.start + 1 \in 1 .. Len(m_lookup_table.cands)
      BY <2>1, <3>1
    <3>3. First(Now) = m_lookup_table.cands[m_lookup_table.start + 1]
      BY <3>1 DEF First, Now, CandidateInPage
    <3> QED
      BY <2>1, <3>2, <3>3, TableAssumption
  <2> QED
    BY <1>1, <2>2 DEF CommitInv, ChoiceInv, PressesListed, PressHasCandidates
<1> QED
  BY <1>1, CommitInvAlways, PTL

(* No path commits the filler of a hole or the empty string.                *)
THEOREM HolesAreNotCommitted == Spec => []NeverCommitsHole
<1>1. CommitInv => NeverCommitsHole
  BY DEF CommitInv
<1> QED
  BY <1>1, CommitInvAlways, PTL

(* Whatever commits, and however far it paged, the text is a translation of *)
(* the code as it read before the key.                                      *)
THEOREM CommitsMean == Spec => CommitsCandidateOfCode
<1>1. [ChoiceStep]_vars =>
        [CommitsWord /\ ~hasWildcard(m_preedit_string) =>
           reply'.commit.text \in CandidatesOf(m_preedit_string)]_vars
  BY DEF ChoiceStep, Means
<1> QED
  BY <1>1, CommitInvAlways, PTL DEF CommitsCandidateOfCode

(* A commit leaves no code, list or press behind, but for the root that was *)
(* typed ahead of it.                                                       *)
THEOREM CommitsEnd == Spec => CommitEndsComposition
<1>1. [ChoiceStep]_vars =>
        [CommitsWord =>
           /\ commit_press_count' = 0
           /\ \/ m_preedit_string' = <<>> /\ m_lookup_table'.cands = <<>>
              \/ \E ch \in Roots : m_preedit_string' = <<ch>>]_vars
  BY DEF ChoiceStep, Endings
<1> QED
  BY <1>1, CommitInvAlways, PTL DEF CommitEndsComposition

(* With m_special_code_only no commit site lets through a character whose   *)
(* special code is another code than the one typed.                         *)
THEOREM SpecialCodesConfine == Spec => SpecialCodeConfines
<1>1. [ChoiceStep]_vars =>
        [CommitsWord /\ config.m_special_code_only =>
           LET w == reply'.commit.text
           IN  w \in Phrases \/ Find(specialCodes, w) = <<>>
                 \/ Head(specialCodes[w]) = m_preedit_string]_vars
  BY DEF ChoiceStep, Allows
<1> QED
  BY <1>1, CommitInvAlways, PTL DEF SpecialCodeConfines

(* Space turns the page it shows, and the last page to the first, from any  *)
(* page that paging and changes of the page size can reach.                 *)
THEOREM SpaceGoesRound == Spec => SpaceTurnsPages
<1>1. CommitInv /\ [Next]_vars =>
        [ManyPages(m_lookup_table) => \A k \in Keys : SpacePages(k) =>
           LET t == m_lookup_table
           IN  m_lookup_table'.start =
                 IF t.start + t.pageSize < Len(t.cands) THEN t.start + t.pageSize
                                                        ELSE 0]_vars
  BY SpaceTurns DEF CommitInv
<1> QED
  BY <1>1, CommitInvAlways, PTL DEF SpaceTurnsPages, Spec

(* What a digit commits is what the panel draws beside it, since the panel  *)
(* was sent the list and the page the digit counts from.                    *)
THEOREM DigitsSelectShown == Spec => DigitSelectsShown
<1>1. CommitInv /\ ScreenInv /\ [Next]_vars =>
        [CommitsWord /\ panel.tableShown =>
           \A k \in Keys : DigitKey(k) =>
             reply'.commit.text = CandidateInPage(panel.table, SelectNum(k.code))]_vars
  BY DigitTells DEF CommitInv, ScreenInv
<1> QED
  BY <1>1, CommitInvAlways, ScreenAlways, PTL DEF DigitSelectsShown, Spec

(* The character of a key reaches the client only between compositions,     *)
(* when nothing of one is on the screen.                                    *)
THEOREM PlainKeysWait == Spec => PlainKeysWaitForComposition
<1>1. [Telling]_vars =>
        [reply'.commit.kind \in {"key", "fullwidth"} =>
           /\ ~Composing /\ m_preedit_string' = <<>>
           /\ ~panel'.tableShown /\ ~panel'.preeditShown]_vars
  BY DEF Telling, Waited
<1> QED
  BY <1>1, TellingAlways, PTL DEF PlainKeysWaitForComposition

(* A word committed with nothing typed behind it leaves its special code on *)
(* display exactly when it has one, other than the code typed, and the      *)
(* option asks for it.                                                      *)
THEOREM SpecialCodesAreNotified == Spec => SpecialCodeNotified
<1>1. [Telling]_vars =>
        [CommitsWord /\ m_preedit_string' = <<>> =>
           LET w     == reply'.commit.text
               codes == IF w \in Phrases THEN <<>> ELSE Find(specialCodes, w)
           IN  panel'.auxShown <=>
                 /\ config.m_show_special
                 /\ codes # <<>> /\ Head(codes) # m_preedit_string]_vars
  BY DEF Telling, Notified
<1> QED
  BY <1>1, TellingAlways, PTL DEF SpecialCodeNotified
=============================================================================
