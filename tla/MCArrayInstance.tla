-------------------------- MODULE MCArrayInstance --------------------------
(***************************************************************************)
(* A small instance of ArrayInstance for TLC.  Two roots, one of them the  *)
(* symbol root; one wildcard; pages of two where the code has ten; codes   *)
(* of three where the code has five.  The tables hold what the shipped     *)
(* ones do: short codes padded with holes, codes with one, with two and    *)
(* with more than a page of words, codes with none, and characters whose   *)
(* special code is and is not the code they are found under.               *)
(***************************************************************************)
EXTENDS ArrayInstance

MCRoots     == {"a", "w"}
MCLabelKeys == <<"1", "2">>
MCWords     == {"c1", "c2", "c3", "c4", "s1", "s2", "s3", "pp", "qq"}
MCPhrases   == {"pp", "qq"}

p_a   == <<"a">>
p_w   == <<"w">>
p_aa  == <<"a", "a">>
p_aw  == <<"a", "w">>
p_w1  == <<"w", "1">>
p_aaa == <<"a", "a", "a">>

Cin(pairs) ==
  [p \in {pair[1] : pair \in pairs} |->
     (CHOOSE pair \in pairs : pair[1] = p)[2]]

MCarrayCins ==
  [Table |-> Cin({<<p_a, <<"c1", "c2">>>>, <<p_w, <<"c3">>>>,
                  <<p_aa, <<"c2", "c4", "c3">>>>, <<p_aw, <<"c1">>>>,
                  <<p_w1, <<"s1", "s2", "s3">>>>, <<p_aaa, <<"c4", "c1">>>>}),
   Short |-> Cin({<<p_a, <<"c2", "c1">>>>, <<p_w, <<"c3", "hole">>>>,
                  <<p_aa, <<"hole", "c2">>>>, <<p_aw, <<"c3", "hole">>>>}),
   Phrases     |-> Cin({<<p_a, <<"pp", "qq">>>>, <<p_aaa, <<"qq">>>>}),
   UserPhrases |-> Cin({<<p_a, <<"qq">>>>})]

MCwildcardWords ==
  [Table |-> Cin({<<<<"?">>, <<"c1", "c2", "c3">>>>,
                  <<<<"a", "?">>, <<"c2", "c4", "c3", "c1">>>>,
                  <<<<"w", "?">>, <<"s1", "s2", "s3">>>>,
                  <<<<"a", "a", "?">>, <<"c4">>>>}),
   Short |-> <<>>, Phrases |-> <<>>, UserPhrases |-> <<>>]

MCspecialCodes == Cin({<<"c1", <<p_aw>>>>, <<"c2", <<p_aa>>>>})
MCspecialChars == Cin({<<p_aw, <<"c1">>>>, <<p_aa, <<"c2">>>>})

Key(code, mask) == [code |-> code, mask |-> mask]

EnchKey == Key("F1", {})
HfKey   == Key("space", {"Shift"})

MCKeys ==
  {Key(code, {}) : code \in {"a", "w", "?", "1", "2", "space", "apostrophe",
                             "BackSpace", "Escape", "Page_Up", "Page_Down"}}
  \cup {EnchKey, HfKey, Key("a", {"Release"}), Key("A", {"Shift"}),
        Key("C", {"Control"}), Key("C", {"Control", "Shift"}),
        Key("1", {"Control"})}

(* The keys that tell phrases from words, for a run that pages through them. *)
MCPhraseKeys ==
  {Key(code, {}) : code \in {"a", "?", "1", "2", "space", "apostrophe",
                             "BackSpace", "Page_Up", "Page_Down"}}

Configuration(show, only) ==
  [m_show_special |-> show, m_special_code_only |-> only,
   m_ench_key |-> {EnchKey}, m_full_half_key |-> {HfKey}]

(* A behaviour has the phrase library or has it not, as the factory was     *)
(* built.  Without it every key is typed, with the special codes unseen or  *)
(* shown and enforced, in some runs only shown as well.                     *)
Unseen == Configuration(FALSE, FALSE)

MCTwoOptions   == {Unseen, Configuration(TRUE, TRUE)}
MCThreeOptions == MCTwoOptions \cup {Configuration(TRUE, FALSE)}

TypingInit == Init /\ m_use_phrases = FALSE
TypingSpec == TypingInit /\ [][Next]_vars

(* With it the special codes are shown but not enforced, and the panel may  *)
(* shrink the page.                                                         *)
MCShowOnly == {Configuration(TRUE, FALSE)}

PhrasesInit == Init /\ m_use_phrases = TRUE /\ config \in MCShowOnly
PhrasesSpec == PhrasesInit /\ [][Next]_vars

(* The two side by side.  Letters, whose width has no say in a composition, *)
(* are widened where there is nothing else to see.                          *)
PhrasesBound == 3   (* what PreeditBound is without the library *)

LettersBound == ~ m_use_phrases /\ config = Unseen

KeysTyped ==
  IF m_use_phrases
  THEN {k \in MCPhraseKeys :
          k.code \in Wildcards => Len(m_preedit_string) < PhrasesBound}
  ELSE MCKeys \ (IF LettersBound THEN {} ELSE {HfKey})

SizesAsked == IF user_phrases THEN PanelPageSizes ELSE {}

ConfigurationsRead ==
  IF m_use_phrases THEN MCShowOnly
  ELSE IF m_full_width_letter THEN {Unseen} ELSE MCTwoOptions

BothInit == (TypingInit /\ config \in MCTwoOptions) \/ PhrasesInit

BothNext ==
  \/ \E k \in KeysTyped : process_key_event(k)
  \/ \E item \in 0 .. PageSize - 1 : select_candidate(item)
  \/ PanelPages
  \/ focus_in
  \/ focus_out
  \/ trigger_property /\ (LettersBound \/ UNCHANGED m_full_width_letter)
  \/ \E size \in SizesAsked : PanelAsksPageSize(size)
  \/ update_lookup_table_page_size
  \/ \E cfg \in ConfigurationsRead : reload_config(cfg)

BothSpec == BothInit /\ [][BothNext]_vars
=============================================================================
