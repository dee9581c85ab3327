--------------------------- MODULE ArrayInstance ---------------------------
(***************************************************************************)
(* One input context of the Array 30 engine: class ArrayInstance of        *)
(* src/scim_array_imengine.cpp, with the factory's configuration it reads  *)
(* through references and the panel that draws what it sends.              *)
(*                                                                         *)
(* SCIM calls an engine from one thread, so every virtual method is one    *)
(* action.  A method body is a composition of the operators below: each    *)
(* takes the composition in progress (a "context", see Now) and returns    *)
(* what it becomes, in the order the code calls the methods.               *)
(***************************************************************************)
EXTENDS CommonLookupTable, Integers, FiniteSets

CONSTANTS
  Roots,           (* the 30 keys a-z , . ; / of the layout                *)
  SymbolRoot,      (* the root that opens the symbol input, "w"            *)
  Wildcards,       (* the two wildcard keys, ? and *                       *)
  LabelKeys,       (* the digit keys in label order: 1, 2, ..., 9, 0       *)
  OtherPrintables, (* printable keys the engine gives no meaning           *)
  Keys,            (* the key events a client may send                     *)
  MaxPreedit,      (* m_max_preedit_len: 5, from ArrayFactory::get_maxlen  *)
  Phrases,         (* the words of more than one character                 *)
  arrayCins,       (* for each table, the words of each code it holds      *)
  wildcardWords,   (* for each table, the words of each pattern with any   *)
  specialCodes,    (* the special codes of the characters that have some   *)
  specialChars,    (* and the reverse map                                  *)
  Configurations,  (* what reload_config may read                          *)
  PanelPageSizes,  (* the page sizes the panel may ask for                 *)
  PreeditBound,    (* bound: wildcards lengthen the code without limit     *)
  PressBound       (* bound: presses of space and apostrophe are counted   *)

PageSize == Len(LabelKeys)
Digits   == {LabelKeys[i] : i \in 1 .. PageSize}
KeyChars == Roots \cup Wildcards \cup Digits
Codes    == Seq(KeyChars)

Modifiers == {"Shift", "Control", "Release"}
CinNames  == {"Table", "Short", "Phrases", "UserPhrases"}

KeyEvents == [code : STRING, mask : SUBSET Modifiers]
Printables == KeyChars \cup OtherPrintables \cup {"space", "apostrophe"}

(* A cin table maps finitely many codes to non-empty lists of words. *)
IsCin(f, codes, words) ==
  /\ DOMAIN f \subseteq codes
  /\ \A code \in DOMAIN f : f[code] \in Seq(words) /\ f[code] # <<>>

ASSUME KeyAssumption ==
  /\ SymbolRoot \in Roots
  /\ Roots \cap Digits = {} /\ Wildcards \cap Digits = {}
  /\ Roots \cap Wildcards = {}
  /\ LabelKeys \in Seq(Labels) /\ LabelKeys # <<>>
  /\ Keys \subseteq KeyEvents

ASSUME BoundAssumption ==
  /\ MaxPreedit \in Nat /\ 2 <= MaxPreedit
  /\ PreeditBound \in Nat /\ PressBound \in Nat
  /\ PanelPageSizes \subseteq Nat \ {0}

ASSUME TableAssumption ==
  /\ Phrases \subseteq Words
  /\ Hole \notin Words /\ NoWord \notin Candidates
  /\ \A t \in CinNames :
       /\ IsCin(arrayCins[t], Codes, Candidates)
       /\ IsCin(wildcardWords[t], Codes, Candidates)
  /\ IsCin(specialCodes, Words, Codes)
  /\ IsCin(specialChars, Codes, Words)

ASSUME ConfigurationAssumption ==
  Configurations \subseteq
    [m_show_special : BOOLEAN, m_special_code_only : BOOLEAN,
     m_ench_key : SUBSET KeyEvents, m_full_half_key : SUBSET KeyEvents]

VARIABLES
  m_preedit_string,    (* the code typed so far                            *)
  m_lookup_table,
  commit_press_count,
  m_forward,           (* English mode: keys go to the client              *)
  m_full_width_letter,
  config,              (* the factory's options, shared by reference       *)
  m_use_phrases,       (* read once, when the factory is built             *)
  user_phrases,        (* whether arrayCins[4] was loaded                  *)
  panel,               (* what the panel was sent and told to show         *)
  resize,              (* a page size the panel has asked for, 0 if none   *)
  reply                (* what the last step returned and committed        *)

instance == <<m_preedit_string, m_lookup_table, commit_press_count, panel>>
modes    == <<m_forward, m_full_width_letter>>
factory  == <<config, m_use_phrases, user_phrases>>
vars     == <<instance, modes, factory, resize, reply>>

(* What a call hands to the client: nothing, a word of a table, or the      *)
(* character of a key, half or full width.  Letter case is left out.        *)
Nothing       == [kind |-> "none", text |-> NoWord]
Word(w)       == [kind |-> "word", text |-> w]
Typed(k, full) == [kind |-> IF full THEN "fullwidth" ELSE "key", text |-> k]

(* The special code shown in the auxiliary area, if any, with its owner. *)
NoNote     == [char |-> NoWord, code |-> <<>>]
Note(w, p) == [char |-> w, code |-> p]
-----------------------------------------------------------------------------
(***************************************************************************)
(* The tables.  A lookup copies the list of the entry found, or clears the *)
(* caller's vector.                                                        *)
(***************************************************************************)
Find(cin, key) == IF key \in DOMAIN cin THEN cin[key] ELSE <<>>

hasWildcard(p) == \E i \in 1 .. Len(p) : p[i] \in Wildcards

(* The labels of a page of n candidates repeat every PageSize. *)
create_lookup_table_labels(n) ==
  [i \in 1 .. n |-> LabelKeys[((i - 1) % PageSize) + 1]]

(* valid_key_map names the roots and wildcards, and nothing else. *)
key_to_keyname(ch) == IF ch \in Digits THEN NoLabel ELSE ch

KeyNames(p) == [i \in 1 .. Len(p) |-> key_to_keyname(p[i])]
-----------------------------------------------------------------------------
(***************************************************************************)
(* The composition in progress, as the methods below pass it along.        *)
(***************************************************************************)
Now ==
  [preedit |-> m_preedit_string,   table  |-> m_lookup_table,
   presses |-> commit_press_count, panel  |-> panel,
   commit  |-> Nothing]

(* The call leaves the composition as c and returns handled to SCIM. *)
Becomes(c, handled) ==
  /\ m_preedit_string'   = c.preedit
  /\ m_lookup_table'     = c.table
  /\ commit_press_count' = c.presses
  /\ panel'              = c.panel
  /\ reply' = [handled |-> handled, commit |-> c.commit]

CommitsNothing == reply' = [handled |-> FALSE, commit |-> Nothing]

First(c) == CandidateInPage(c.table, 0)

commit_string(c, w) == [c EXCEPT !.commit = Word(w)]

hide_lookup_table(c) == [c EXCEPT !.panel.tableShown = FALSE]
hide_preedit_string(c) == [c EXCEPT !.panel.preeditShown = FALSE]
hide_aux_string(c) == [c EXCEPT !.panel.auxShown = FALSE]
show_lookup_table(c) == [c EXCEPT !.panel.tableShown = TRUE]
show_preedit_string(c) == [c EXCEPT !.panel.preeditShown = TRUE]
update_lookup_table(c) == [c EXCEPT !.panel.table = Drawing(c.table)]

show_note(c, note) == [c EXCEPT !.panel.aux = note, !.panel.auxShown = TRUE]

pre_update_preedit_string(c) ==
  [c EXCEPT !.panel.preedit = KeyNames(c.preedit)]

push_back(c, ch) == [c EXCEPT !.preedit = Append(@, ch)]

(* Deliberately wrong: the press count, or the list, outlives the code. *)
reset_keeps_presses(c) ==
  hide_aux_string(hide_preedit_string(hide_lookup_table(
    [c EXCEPT !.preedit = <<>>, !.table = FixPageSize(Clear(@), TRUE)])))

reset_keeps_table(c) ==
  hide_aux_string(hide_preedit_string(hide_lookup_table(
    [c EXCEPT !.preedit = <<>>, !.presses = 0])))

(* reset(), which also ends every commit. *)
reset(c) ==
  hide_aux_string(hide_preedit_string(hide_lookup_table(
    [c EXCEPT !.preedit = <<>>,
              !.table   = FixPageSize(Clear(@), TRUE),
              !.presses = 0])))
-----------------------------------------------------------------------------
(***************************************************************************)
(* Special codes.                                                          *)
(***************************************************************************)
show_special_code(c, inkey, w) ==
  IF ~config.m_show_special \/ Find(specialCodes, w) = <<>>
    THEN hide_aux_string(c)
  ELSE IF Head(specialCodes[w]) = inkey THEN c
  ELSE show_note(c, Note(w, Head(specialCodes[w])))

show_pre_special_code(c) ==
  IF ~config.m_show_special \/ Find(specialChars, c.preedit) = <<>>
    THEN hide_aux_string(c)
    ELSE show_note(c, Note(Head(specialChars[c.preedit]), c.preedit))

check_special_code_only(keys, w) ==
  Find(specialCodes, w) # <<>> => Head(specialCodes[w]) = keys

(* Deliberately wrong: commits before it checks, or resets after the note. *)
commit_before_check(c, keysLeft, w) ==
  LET sent == commit_string(c, w)
  IN  IF w \in Phrases THEN reset(sent)
      ELSE IF config.m_special_code_only /\ ~check_special_code_only(c.preedit, w)
        THEN show_special_code(sent, c.preedit, w)
        ELSE show_special_code(reset(sent), keysLeft, w)

reset_after_note(c, keysLeft, w) ==
  IF w \in Phrases THEN reset(commit_string(c, w))
  ELSE IF config.m_special_code_only /\ ~check_special_code_only(c.preedit, w)
    THEN show_special_code(c, c.preedit, w)
    ELSE reset(show_special_code(commit_string(c, w), keysLeft, w))

(***************************************************************************)
(* send_commit_string(inkey, str) is called with the code being composed.  *)
(* inkey is a reference: when the caller passes m_preedit_string itself it *)
(* reads as empty once reset() has run, and keysLeft is what it reads as.  *)
(***************************************************************************)
send_commit_string(c, keysLeft, w) ==
  IF w \in Phrases THEN reset(commit_string(c, w))
  ELSE IF config.m_special_code_only /\ ~check_special_code_only(c.preedit, w)
    THEN show_special_code(c, c.preedit, w)
    ELSE show_special_code(reset(commit_string(c, w)), keysLeft, w)
-----------------------------------------------------------------------------
(***************************************************************************)
(* The candidate list.                                                     *)
(***************************************************************************)
(* The words of code p in a table; a hole stands alone where there is none. *)
WordsOf(t, p) ==
  IF hasWildcard(p) THEN Find(wildcardWords[t], p) ELSE Find(arrayCins[t], p)

OrHole(words) == IF words = <<>> THEN <<Hole>> ELSE words

(* Labels follow the size of the page that is current now. *)
Relabel(t) ==
  [t EXCEPT !.labels = create_lookup_table_labels(CurrentPageSize(t))]

create_lookup_table(c, name) ==
  LET words == OrHole(WordsOf(name, c.preedit))
      size  == IF Len(words) <= PageSize THEN Len(words) ELSE PageSize
  IN  [c EXCEPT !.table = Relabel(SetPageSize(Fill(@, words), size))]

(* User phrases come first; wildcards are not expanded among phrases. *)
PhrasesOf(p) ==
  (IF user_phrases THEN Find(arrayCins["UserPhrases"], p) ELSE <<>>)
    \o Find(arrayCins["Phrases"], p)

create_phrase_lookup_table(c) ==
  LET words == OrHole(PhrasesOf(c.preedit))
  IN  [c EXCEPT !.table =
         Relabel(FixPageSize(SetPageSize(Fill(@, words), PageSize), FALSE))]

(* Deliberately wrong: an emptied code stays on the screen. *)
empty_preedit_shown(c) ==
  IF c.preedit = <<>> THEN hide_lookup_table(c)
  ELSE IF hasWildcard(c.preedit) THEN hide_lookup_table(c)
  ELSE show_lookup_table(update_lookup_table(
         IF Len(c.preedit) <= 2
           THEN show_pre_special_code(create_lookup_table(c, "Short"))
           ELSE hide_aux_string(create_lookup_table(c, "Table"))))

process_preedit_string(c) ==
  IF c.preedit = <<>> THEN hide_lookup_table(hide_preedit_string(c))
  ELSE IF hasWildcard(c.preedit) THEN hide_lookup_table(c)
  ELSE show_lookup_table(update_lookup_table(
         IF Len(c.preedit) <= 2
           THEN show_pre_special_code(create_lookup_table(c, "Short"))
           ELSE hide_aux_string(create_lookup_table(c, "Table"))))

process_symbol_preedit_string(c) ==
  show_lookup_table(update_lookup_table(create_lookup_table(c, "Table")))

(* Deliberately wrong: the page turned is not sent to the panel. *)
paged_unsent(c, t) ==
  IF c.preedit = <<>> \/ c.table.cands = <<>> THEN c
  ELSE [c EXCEPT !.table = Relabel(t)]

(* Both paging calls do nothing while there is nothing to page. *)
Paged(c, t) ==
  IF c.preedit = <<>> \/ c.table.cands = <<>> THEN c
  ELSE update_lookup_table([c EXCEPT !.table = Relabel(t)])

lookup_table_page_up(c) == Paged(c, PageUp(c.table))

(* Deliberately wrong: pages past the end, or stops there. *)
page_down_past_end(c) == Paged(c, PageDown(c.table))

page_down_stops(c) ==
  Paged(c, IF CanPageDown(c.table) THEN PageDown(c.table) ELSE c.table)

lookup_table_page_down(c) ==
  Paged(c, IF CanPageDown(c.table) THEN PageDown(c.table)
                                   ELSE Rewind(c.table))
-----------------------------------------------------------------------------
(***************************************************************************)
(* Keys.  process_key_event tries its cases in order; a case that returns  *)
(* hides the later ones, so each action below repeats what the earlier     *)
(* cases leave over.                                                       *)
(***************************************************************************)
Plain(k) == k.mask = {}
Composing == m_preedit_string # <<>>

match_key_event(hotkeys, k) ==
  \E h \in hotkeys : h.code = k.code /\ h.mask = k.mask

EnglishChineseKey(k) == match_key_event(config.m_ench_key, k)

FullHalfKey(k) ==
  ~EnglishChineseKey(k) /\ match_key_event(config.m_full_half_key, k)

(* A key that reaches the Chinese cases. *)
Reaches(k) ==
  /\ "Release" \notin k.mask
  /\ ~EnglishChineseKey(k) /\ ~FullHalfKey(k)
  /\ ~m_forward

ToggleStatus ==
  /\ m_forward' = ~m_forward
  /\ UNCHANGED <<m_full_width_letter, factory, resize>>

ToggleLetter ==
  /\ m_full_width_letter' = ~m_full_width_letter
  /\ UNCHANGED <<m_forward, factory, resize>>

OnlyComposition == UNCHANGED <<modes, factory, resize>>

KeyRelease(k) ==
  /\ "Release" \in k.mask
  /\ Becomes(Now, FALSE) /\ OnlyComposition

HotKey(k) ==
  /\ "Release" \notin k.mask
  /\ \/ EnglishChineseKey(k) /\ Becomes(reset(Now), TRUE) /\ ToggleStatus
     \/ FullHalfKey(k) /\ Becomes(Now, TRUE) /\ ToggleLetter

(* English mode widens every printable key, whatever its modifiers. *)
ForwardKey(k) ==
  /\ "Release" \notin k.mask
  /\ ~EnglishChineseKey(k) /\ ~FullHalfKey(k)
  /\ m_forward
  /\ LET widened == m_full_width_letter /\ k.code \in Printables
     IN  Becomes([Now EXCEPT !.commit = IF widened THEN Typed(k.code, TRUE)
                                                   ELSE Nothing], widened)
  /\ OnlyComposition

EscapeKey(k) ==
  /\ Reaches(k) /\ k.code = "Escape" /\ Plain(k)
  /\ IF Composing THEN Becomes(reset(Now), TRUE) ELSE Becomes(Now, FALSE)
  /\ OnlyComposition

IsBackSpace(k) == k.code = "BackSpace" /\ Plain(k) /\ Composing

(* Deliberately wrong: takes one press back where all are dropped. *)
one_press_back(c) ==
  [c EXCEPT !.preedit = SubSeq(@, 1, Len(@) - 1), !.presses = @ - 1]

Erased(c) ==
  [c EXCEPT !.preedit = SubSeq(@, 1, Len(@) - 1), !.presses = 0]

(* Deliberately wrong: the list of the longer code is kept. *)
erase_keeps_list(k) ==
  /\ Reaches(k) /\ IsBackSpace(k)
  /\ Becomes(pre_update_preedit_string(Erased(Now)), TRUE)
  /\ OnlyComposition

BackSpaceKey(k) ==
  /\ Reaches(k) /\ IsBackSpace(k)
  /\ Becomes(process_preedit_string(pre_update_preedit_string(Erased(Now))),
             TRUE)
  /\ OnlyComposition

IsRoot(k) == k.code \in Roots /\ Plain(k)

(* Deliberately wrong: typing ahead does not look for the hole. *)
commit_any_ahead(c) ==
  IF c.presses # 1 THEN c
  ELSE IF First(c) = NoWord THEN reset(c)
  ELSE send_commit_string(c, <<>>, First(c))

(* After space has listed the candidates, a root first commits one. *)
CommitAhead(c) ==
  IF c.presses # 1 THEN c
  ELSE IF First(c) \in {NoWord, Hole} THEN reset(c)
  ELSE send_commit_string(c, <<>>, First(c))

(* Deliberately wrong: the code typed is not shown. *)
opened_unseen(c) == IF c.preedit = <<>> THEN hide_aux_string(c) ELSE c

Opened(c) ==
  IF c.preedit = <<>> THEN show_preedit_string(hide_aux_string(c)) ELSE c

RootTyped(c, ch) ==
  process_preedit_string(pre_update_preedit_string(push_back(Opened(c), ch)))

(* Deliberately wrong: one root too many. *)
root_past_length(k) ==
  /\ Reaches(k) /\ IsRoot(k)
  /\ IF Len(m_preedit_string) > MaxPreedit
       THEN Becomes(Now, TRUE)
       ELSE Becomes(RootTyped(CommitAhead(Now), k.code), TRUE)
  /\ OnlyComposition

RootKey(k) ==
  /\ Reaches(k) /\ IsRoot(k)
  /\ IF Len(m_preedit_string) >= MaxPreedit
       THEN Becomes(Now, TRUE)
       ELSE Becomes(RootTyped(CommitAhead(Now), k.code), TRUE)
  /\ OnlyComposition

IsApostrophe(k) == m_use_phrases /\ k.code = "apostrophe" /\ Composing

(* Deliberately wrong: shows the phrases without sending them. *)
phrases_unsent(c) ==
  show_lookup_table(hide_aux_string(
    [create_phrase_lookup_table(c) EXCEPT !.presses = @ + 1]))

(* phrase_key_press: the list is never empty, a hole at the least. *)
phrase_key_press(c) ==
  show_lookup_table(update_lookup_table(hide_aux_string(
    [create_phrase_lookup_table(c) EXCEPT !.presses = @ + 1])))

ApostropheKey(k) ==
  /\ Reaches(k) /\ IsApostrophe(k)
  /\ commit_press_count < PressBound
  /\ Becomes(phrase_key_press(Now), TRUE)
  /\ OnlyComposition

WildcardKey(k) ==
  /\ Reaches(k) /\ k.code \in Wildcards
  /\ Len(m_preedit_string) < PreeditBound
  /\ Becomes(process_preedit_string(pre_update_preedit_string(
               push_back(hide_lookup_table(Now), k.code))), TRUE)
  /\ OnlyComposition

SelectNum(d) == CHOOSE i \in 0 .. PageSize - 1 : LabelKeys[i + 1] = d

DigitKey(k) ==
  /\ Reaches(k) /\ k.code \in Digits
  /\ LET chosen == CandidateInPage(m_lookup_table, SelectNum(k.code))
     IN  \/ ~Composing /\ Becomes(Now, FALSE)
         \/ /\ m_preedit_string = <<SymbolRoot>>
            /\ Becomes(process_symbol_preedit_string(
                 pre_update_preedit_string(push_back(Now, k.code))), TRUE)
         \/ /\ Composing /\ m_preedit_string # <<SymbolRoot>>
            /\ IF chosen \in {NoWord, Hole} THEN Becomes(Now, TRUE)
               ELSE Becomes(send_commit_string(Now, m_preedit_string, chosen),
                            TRUE)
  /\ OnlyComposition

IsSpace(k) == k.code = "space" /\ Plain(k) /\ Composing

(* space_key_press in its three parts: page, commit, or list the table. *)
ManyPages(t) == Len(t.cands) > t.pageSize

SpacePages(k) ==
  /\ Reaches(k) /\ IsSpace(k) /\ ManyPages(m_lookup_table)
  /\ Becomes(lookup_table_page_down(Now), TRUE)
  /\ OnlyComposition

SpaceCommits(k) ==
  /\ Reaches(k) /\ IsSpace(k) /\ ~ManyPages(m_lookup_table)
  /\ commit_press_count = 1 /\ First(Now) # NoWord
  /\ Becomes(IF First(Now) = Hole THEN hide_lookup_table(Now)
             ELSE send_commit_string(Now, m_preedit_string, First(Now)), TRUE)
  /\ OnlyComposition

Listed(c) ==
  LET l == update_lookup_table(create_lookup_table(c, "Table"))
  IN  IF Len(l.table.cands) > 1
        THEN [show_lookup_table(l) EXCEPT !.presses = @ + 1]
      ELSE IF First(l) \in {NoWord, Hole} THEN hide_lookup_table(l)
      ELSE send_commit_string(hide_lookup_table(l), l.preedit, First(l))

SpaceLists(k) ==
  /\ Reaches(k) /\ IsSpace(k) /\ ~ManyPages(m_lookup_table)
  /\ ~(commit_press_count = 1 /\ First(Now) # NoWord)
  /\ commit_press_count < PressBound
  /\ Becomes(Listed(Now), TRUE)
  /\ OnlyComposition

(* Keys no case takes; Page_Up and Page_Down fall through to here. *)
IsOther(k) ==
  /\ ~(k.code = "Escape" /\ Plain(k))
  /\ ~IsBackSpace(k) /\ ~IsRoot(k) /\ ~IsApostrophe(k) /\ ~IsSpace(k)
  /\ k.code \notin Wildcards \cup Digits

PageTurned(k) ==
  IF k.code = "Page_Up" /\ Plain(k) THEN lookup_table_page_up(Now)
  ELSE IF k.code = "Page_Down" /\ Plain(k) THEN lookup_table_page_down(Now)
  ELSE Now

(* Deliberately wrong: passes keys on while a code is being typed. *)
passed_always(k) == k.code \in Printables /\ (Plain(k) \/ "Shift" \in k.mask)

PassedThrough(k) ==
  /\ ~Composing /\ k.code \in Printables
  /\ Plain(k) \/ "Shift" \in k.mask

OtherKey(k) ==
  /\ Reaches(k) /\ IsOther(k)
  /\ IF PassedThrough(k)
       THEN Becomes([PageTurned(k) EXCEPT
                       !.commit = Typed(k.code, m_full_width_letter)], TRUE)
       ELSE Becomes(PageTurned(k), Composing)
  /\ OnlyComposition

process_key_event(k) ==
  \/ KeyRelease(k)    \/ HotKey(k)       \/ ForwardKey(k)
  \/ EscapeKey(k)     \/ BackSpaceKey(k) \/ RootKey(k)
  \/ ApostropheKey(k) \/ WildcardKey(k)  \/ DigitKey(k)
  \/ SpacePages(k)    \/ SpaceCommits(k) \/ SpaceLists(k)
  \/ OtherKey(k)
-----------------------------------------------------------------------------
(***************************************************************************)
(* The other calls of the IMEngine interface.  They return nothing: reply  *)
(* shows FALSE and, when they commit, the text.                            *)
(***************************************************************************)
(* The panel's pick of a candidate is turned into its label's key.  A label *)
(* that is not there gives the key code 0, which is no key of any case.     *)
NullKey == NoLabel

select_candidate(item) ==
  process_key_event([code |-> CandidateLabel(m_lookup_table, item),
                     mask |-> {}])

PanelPages ==
  /\ \/ Becomes(lookup_table_page_up(Now), FALSE)
     \/ Becomes(lookup_table_page_down(Now), FALSE)
  /\ OnlyComposition

focus_in ==
  /\ LET drawn == show_preedit_string(pre_update_preedit_string(Now))
     IN  Becomes(IF ~Composing THEN Now
                 ELSE IF m_lookup_table.cands = <<>> THEN drawn
                 ELSE show_lookup_table(update_lookup_table(drawn)), FALSE)
  /\ OnlyComposition

(* focus_out() is reset(), which clients also call on their own. *)
focus_out == Becomes(reset(Now), FALSE) /\ OnlyComposition

trigger_property ==
  \/ Becomes(reset(Now), FALSE) /\ ToggleStatus
  \/ Becomes(Now, FALSE) /\ ToggleLetter

(***************************************************************************)
(* The panel is another process.  It may ask for a smaller page while it   *)
(* shows a table whose size is not fixed, and the engine handles the       *)
(* request after whatever it was doing in between.                         *)
(***************************************************************************)
PanelAsksPageSize(size) ==
  /\ resize = 0 /\ panel.tableShown /\ ~panel.table.fixed
  /\ resize' = size /\ CommitsNothing
  /\ UNCHANGED <<instance, modes, factory>>

update_lookup_table_page_size ==
  /\ resize > 0
  /\ Becomes([Now EXCEPT !.table = SetPageSize(@, resize)], FALSE)
  /\ resize' = 0
  /\ UNCHANGED <<modes, factory>>

(* The configuration signal: m_use_phrases is const and is not read again. *)
reload_config(cfg) ==
  /\ config' = cfg /\ CommitsNothing
  /\ UNCHANGED <<instance, modes, m_use_phrases, user_phrases, resize>>
-----------------------------------------------------------------------------
(* The page size of a new CommonLookupTable is its default, 10. *)
Init ==
  /\ m_preedit_string = <<>>
  /\ m_lookup_table = EmptyTable(PageSize)
  /\ commit_press_count = 0
  /\ m_forward = FALSE /\ m_full_width_letter = FALSE
  /\ config \in Configurations
  /\ m_use_phrases \in BOOLEAN /\ user_phrases \in BOOLEAN
  /\ user_phrases => m_use_phrases
  /\ panel = [preedit |-> <<>>, preeditShown |-> FALSE,
              table |-> Drawing(EmptyTable(PageSize)), tableShown |-> FALSE,
              aux |-> NoNote, auxShown |-> FALSE]
  /\ resize = 0
  /\ reply = [handled |-> FALSE, commit |-> Nothing]

Next ==
  \/ \E k \in Keys : process_key_event(k)
  \/ \E item \in 0 .. PageSize - 1 : select_candidate(item)
  \/ PanelPages
  \/ focus_in
  \/ focus_out
  \/ trigger_property
  \/ \E size \in PanelPageSizes : PanelAsksPageSize(size)
  \/ update_lookup_table_page_size
  \/ \E cfg \in Configurations : reload_config(cfg)

Spec == Init /\ [][Next]_vars
-----------------------------------------------------------------------------
(***************************************************************************)
(* Properties of the states.                                               *)
(***************************************************************************)
Notes  == [char : Words \cup {NoWord}, code : Codes]
Panels ==
  [preedit : Seq(KeyChars \cup {NoLabel}), preeditShown : BOOLEAN,
   table : Drawings, tableShown : BOOLEAN, aux : Notes, auxShown : BOOLEAN]
Texts   == Candidates \cup {NoWord} \cup Printables
Commits == [kind : {"none", "word", "key", "fullwidth"}, text : Texts]

(* Every variable keeps to its domain; m_preedit_string holds only keys     *)
(* process_key_event appends.                                               *)
TypeOK ==
  /\ m_preedit_string \in Codes
  /\ m_lookup_table \in Tables
  /\ commit_press_count \in Nat
  /\ m_forward \in BOOLEAN /\ m_full_width_letter \in BOOLEAN
  /\ config \in Configurations
  /\ m_use_phrases \in BOOLEAN /\ user_phrases \in BOOLEAN
  /\ panel \in Panels
  /\ resize \in PanelPageSizes \cup {0}
  /\ reply \in [handled : BOOLEAN, commit : Commits]

(* The list the user sees is the list a digit selects from: whatever path   *)
(* rebuilt or paged m_lookup_table also sent it before the list is visible. *)
PanelShowsTable ==
  panel.tableShown =>
    /\ panel.table.cands  = m_lookup_table.cands
    /\ panel.table.start  = m_lookup_table.start
    /\ panel.table.labels = m_lookup_table.labels

(* The code the user sees is the code being looked up, and none is shown    *)
(* once it is gone.                                                         *)
PanelShowsCode ==
  panel.preeditShown =>
    Composing /\ panel.preedit = KeyNames(m_preedit_string)

(* A composition is invisible only when a wildcard opened it: that path     *)
(* never calls show_preedit_string.                                         *)
HiddenOnlyBehindWildcard ==
  Composing /\ m_preedit_string[1] \notin Wildcards => panel.preeditShown

(* English mode holds no composition back: toggling the status resets, and  *)
(* no call rebuilds anything until it is toggled again.                     *)
ForwardIdle ==
  m_forward =>
    /\ ~Composing /\ m_lookup_table.cands = <<>> /\ commit_press_count = 0
    /\ ~panel.tableShown /\ ~panel.preeditShown /\ ~panel.auxShown

(* The candidates belong to the code as it now reads, unless a wildcard is  *)
(* pending: no edit of the code leaves the list of an earlier code behind.  *)
TableOfCode ==
  Composing /\ ~hasWildcard(m_preedit_string) =>
    \/ /\ Len(m_preedit_string) <= 2
       /\ m_lookup_table.cands = OrHole(WordsOf("Short", m_preedit_string))
    \/ m_lookup_table.cands = OrHole(WordsOf("Table", m_preedit_string))
    \/ m_lookup_table.cands = OrHole(PhrasesOf(m_preedit_string))

(* Only wildcards get past m_max_preedit_len, and a digit is part of a code *)
(* only as the second key after the symbol root.                            *)
CodeShape ==
  \A i \in 1 .. Len(m_preedit_string) :
    /\ i > MaxPreedit => m_preedit_string[i] \in Wildcards
    /\ m_preedit_string[i] \in Digits =>
         i = 2 /\ m_preedit_string[1] = SymbolRoot

(* A pending press means there is a list to commit from. *)
PressHasCandidates ==
  commit_press_count > 0 => Composing /\ First(Now) # NoWord

(* The current page is inside the list and the way back leads to the first  *)
(* page, whatever page sizes were in force on the way.                      *)
PageInside ==
  LET t == m_lookup_table
  IN  /\ t.cands = <<>> => t.start = 0
      /\ t.cands # <<>> => t.start < Len(t.cands)
      /\ IF t.start = 0 THEN t.history = <<>>
                        ELSE t.history # <<>> /\ t.history[1] = 0

(* No path commits the filler, nor an empty string: each of the four        *)
(* commit sites tests for both.                                             *)
NeverCommitsHole == reply.commit.kind = "word" => reply.commit.text \in Words
-----------------------------------------------------------------------------
(***************************************************************************)
(* Properties of the steps.                                                *)
(***************************************************************************)
CommitsWord == reply'.commit.kind = "word"

CandidatesOf(p) ==
  UNION {{cin[i] : i \in DOMAIN cin} :
         cin \in {WordsOf("Short", p), WordsOf("Table", p), PhrasesOf(p)}}

(* Text is committed only as a translation of the code that was typed: by   *)
(* any commit site, through any paging, and when typing ahead.              *)
CommitsCandidateOfCode ==
  [][CommitsWord /\ ~hasWildcard(m_preedit_string) =>
       reply'.commit.text \in CandidatesOf(m_preedit_string)]_vars

(* Nothing of a committed composition survives the commit but the key that  *)
(* was typed ahead.                                                         *)
CommitEndsComposition ==
  [][CommitsWord =>
       /\ commit_press_count' = 0
       /\ \/ m_preedit_string' = <<>> /\ m_lookup_table'.cands = <<>>
          \/ \E ch \in Roots : m_preedit_string' = <<ch>>]_vars

(* "If the character has the special code, you will be confined to use it"  *)
(* (setup tooltip): with m_special_code_only no commit site lets through a  *)
(* character with a special code unless that is the code typed.             *)
SpecialCodeConfines ==
  [][CommitsWord /\ config.m_special_code_only =>
       LET w == reply'.commit.text
       IN  w \in Phrases \/ Find(specialCodes, w) = <<>>
             \/ Head(specialCodes[w]) = m_preedit_string]_vars

(* A digit pressed while a list is visible commits the candidate drawn      *)
(* beside that digit, or nothing.                                           *)
DigitSelectsShown ==
  [][CommitsWord /\ panel.tableShown =>
       \A k \in Keys : DigitKey(k) =>
         reply'.commit.text = CandidateInPage(panel.table, SelectNum(k.code))
    ]_vars

(* "other keys is not allowed when preediting": the character of a key is   *)
(* handed to the client only between compositions, never ahead of the text  *)
(* still being composed.                                                    *)
PlainKeysWaitForComposition ==
  [][reply'.commit.kind \in {"key", "fullwidth"} =>
       /\ ~Composing /\ m_preedit_string' = <<>>
       /\ ~panel'.tableShown /\ ~panel'.preeditShown]_vars

(* ChangeLog 2007-08-24: space on the last page goes to the first page,     *)
(* also when the panel changed the page size in between.                    *)
SpaceTurnsPages ==
  [][ManyPages(m_lookup_table) => \A k \in Keys : SpacePages(k) =>
       LET t == m_lookup_table
       IN  m_lookup_table'.start =
             IF t.start + t.pageSize < Len(t.cands) THEN t.start + t.pageSize
                                                    ELSE 0]_vars

(* A single character committed by space, by a digit or by the panel        *)
(* leaves its special code on display exactly when it has one that was not  *)
(* the code typed and the option asks for it.                               *)
SpecialCodeNotified ==
  [][CommitsWord /\ m_preedit_string' = <<>> =>
       LET w     == reply'.commit.text
           codes == IF w \in Phrases THEN <<>> ELSE Find(specialCodes, w)
       IN  panel'.auxShown <=>
             /\ config.m_show_special
             /\ codes # <<>> /\ Head(codes) # m_preedit_string]_vars
-----------------------------------------------------------------------------
(***************************************************************************)
(* What the documents say and the code does not do.                        *)
(***************************************************************************)
(* ChangeLog 2007-08-16: "prevent to catch the composed key, like Ctrl + C".*)
ComposedKeysPass ==
  [][\A k \in Keys :
       /\ "Control" \in k.mask /\ ~EnglishChineseKey(k) /\ ~FullHalfKey(k)
       /\ ~Composing /\ process_key_event(k)
       => ~reply'.handled]_vars

(* "If the user is already press the space before, commit the first         *)
(* candidate in the lookup table": while the one page a space listed is on  *)
(* display, the next space commits its first candidate.                     *)
SecondSpaceCommits ==
  [][\A k \in Keys :
       /\ Reaches(k) /\ IsSpace(k)
       /\ commit_press_count > 0 /\ panel.tableShown
       /\ ~ManyPages(m_lookup_table)
       /\ m_lookup_table.cands = WordsOf("Table", m_preedit_string)
       /\ ~config.m_special_code_only /\ process_key_event(k)
       => CommitsWord]_vars

(* "To notify if the character has the special code" (setup tooltip): the   *)
(* note also follows a character committed by typing ahead.                 *)
AheadIsNotified ==
  [][CommitsWord /\ config.m_show_special =>
       LET codes == Find(specialCodes, reply'.commit.text)
       IN  codes # <<>> /\ Head(codes) # m_preedit_string =>
             panel'.auxShown /\ panel'.aux.char = reply'.commit.text]_vars

(* "reset to 0 to avoid output error": the press counted for one code is    *)
(* dropped when the code is edited, so it stands beside a list space or     *)
(* apostrophe made.                                                         *)
PressDroppedWithCode ==
  commit_press_count > 0 /\ ~hasWildcard(m_preedit_string) =>
    m_lookup_table.cands \in {OrHole(WordsOf("Table", m_preedit_string)),
                              OrHole(PhrasesOf(m_preedit_string))}
=============================================================================
