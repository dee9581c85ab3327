----------------------------- MODULE ArraySetup -----------------------------
(***************************************************************************)
(* The configuration dialog, src/scim_array_imengine_setup.cpp: a plug-in  *)
(* of scim-setup with five widgets over the five options, and one flag     *)
(* that tells scim-setup whether there is anything to save.                *)
(*                                                                         *)
(* The dialog runs in GTK's thread: its callbacks do not interleave.  The  *)
(* store they write to is another matter: save_config writes five keys one *)
(* after the other, each write may be refused, and the engine may read in  *)
(* between, so each write is a step.                                       *)
(***************************************************************************)
EXTENDS ScimConfig, Naturals, Sequences

CONSTANTS
  EditBound,   (* bound: how often the user edits a widget                 *)
  Refusable    (* bound: the keys whose write the store may refuse         *)

ASSUME RefusableAssumption == Refusable \subseteq OptionKeys
ASSUME EditAssumption == EditBound \in Nat

VARIABLES
  setup_ui,      (* "none", "made", and "loaded" once load_config has run  *)
  shown,         (* what the five widgets show                             *)
  have_changed,  (* __have_changed                                         *)
  saving,        (* how many writes of save_config are done, or NotSaving  *)
  edits,         (* history: the edits the user has made                   *)
  edited,        (* history: there were some since the last load or save   *)
  refused        (* history: keys whose last write was refused             *)

setupVars == <<setup_ui, shown, have_changed, saving, edits, edited, refused>>

(* The order in which save_config writes. *)
SaveOrder == <<"Enchkey", "ShowSpecial", "SpecialCodeOnly", "UsePhrases", "Hfkey">>
NotSaving == Len(SaveOrder) + 1

SetupTypeOK ==
  /\ setup_ui \in {"none", "made", "loaded"} /\ have_changed \in BOOLEAN /\ edited \in BOOLEAN
  /\ shown \in OptionsOver(OptionKeys)
  /\ saving \in 0 .. NotSaving
  /\ edits \in 0 .. EditBound
  /\ refused \subseteq OptionKeys

(* The defaults load_config gives for keys the store does not have. *)
SetupDefault ==
  [Enchkey |-> NoKeys, Hfkey |-> ShiftSpace, ShowSpecial |-> "false",
   SpecialCodeOnly |-> "false", UsePhrases |-> "false"]
-----------------------------------------------------------------------------
(***************************************************************************)
(* Widgets.  Setting one to another value emits the signal whose handler,  *)
(* on_default_editable_changed or on_default_toggle_button_toggled, raises *)
(* the flag, whoever set it.                                               *)
(***************************************************************************)
Widgets == [shown |-> shown, changed |-> have_changed]

(* gtk_entry_set_text, gtk_toggle_button_set_active *)
Set(w, key, value) ==
  IF w.shown[key] = value THEN w
  ELSE [shown |-> [w.shown EXCEPT ![key] = value], changed |-> TRUE]

Cleared(w) == [w EXCEPT !.changed = FALSE]

SetFromConfig(w, key) == Set(w, key, Read(key, SetupDefault[key]))

Filled(w) ==
  SetFromConfig(SetFromConfig(SetFromConfig(SetFromConfig(SetFromConfig(
    w, "Enchkey"), "ShowSpecial"), "Hfkey"), "SpecialCodeOnly"), "UsePhrases")

Become(w) == shown' = w.shown /\ have_changed' = w.changed

(* scim-setup loads the configuration before it shows the window. *)
AtRest == setup_ui = "loaded" /\ saving = NotSaving

(* scim_setup_module_create_ui and create_setup_window, once; the entries   *)
(* are created empty and the buttons off, before any handler is connected.  *)
create_setup_window ==
  /\ setup_ui = "none" /\ setup_ui' = "made"
  /\ shown' = [key \in OptionKeys |-> IF key \in KeyOptions THEN NoKeys ELSE "false"]
  /\ UNCHANGED <<have_changed, saving, edits, edited, refused, config, reload_due>>

(* Deliberately wrong: clears the flag before the widgets raise it. *)
flag_cleared_first ==
  /\ setup_ui # "none" /\ saving = NotSaving
  /\ Become(Filled(Cleared(Widgets)))
  /\ setup_ui' = "loaded" /\ edited' = FALSE /\ refused' = {}
  /\ UNCHANGED <<saving, edits, config, reload_due>>

load_config ==
  /\ setup_ui # "none" /\ saving = NotSaving
  /\ Become(Cleared(Filled(Widgets)))
  /\ setup_ui' = "loaded" /\ edited' = FALSE /\ refused' = {}
  /\ UNCHANGED <<saving, edits, config, reload_due>>

CountEdit ==
  /\ edits < EditBound /\ edits' = edits + 1
  /\ UNCHANGED <<setup_ui, saving, refused, config, reload_due>>

(* The user clicks a check button. *)
on_default_toggle_button_toggled ==
  /\ AtRest /\ CountEdit
  /\ \E key \in FlagOptions :
       Become(Set(Widgets, key, IF shown[key] = "true" THEN "false" ELSE "true"))
  /\ edited' = TRUE

(* The user opens the key selection dialog and closes it with OK: the text  *)
(* is set when the keys chosen (none at all read as "") differ from it.     *)
on_default_key_selection_clicked ==
  /\ AtRest /\ CountEdit
  /\ \E key \in KeyOptions, keys \in KeyTexts :
       /\ Become(Set(Widgets, key, keys))
       /\ edited' = (edited \/ keys # shown[key])

query_changed == have_changed
-----------------------------------------------------------------------------
(***************************************************************************)
(* scim-setup has the dialog save.  The result of a write is not looked    *)
(* at, and the flag falls when all are made.                               *)
(***************************************************************************)
save_config ==
  /\ AtRest
  /\ saving' = 0 /\ refused' = {}
  /\ UNCHANGED <<setup_ui, shown, have_changed, edits, edited, config, reload_due>>

WriteNext ==
  /\ saving < Len(SaveOrder)
  /\ saving' = saving + 1
  /\ LET key == SaveOrder[saving + 1]
     IN  \E accepted \in BOOLEAN :
           /\ Write(key, shown[key], accepted)
           /\ accepted \/ key \in Refusable
           /\ refused' = IF accepted THEN refused ELSE refused \cup {key}
  /\ UNCHANGED <<setup_ui, shown, have_changed, edits, edited>>

SaveDone ==
  /\ saving = Len(SaveOrder) /\ saving' = NotSaving
  /\ have_changed' = FALSE /\ edited' = FALSE
  /\ UNCHANGED <<setup_ui, shown, edits, refused, config, reload_due>>

SetupInit ==
  /\ setup_ui = "none" /\ have_changed = FALSE /\ edited = FALSE
  /\ shown = [key \in OptionKeys |-> IF key \in KeyOptions THEN NoKeys ELSE "false"]
  /\ saving = NotSaving /\ edits = 0 /\ refused = {}

SetupNext ==
  \/ create_setup_window \/ load_config
  \/ on_default_toggle_button_toggled \/ on_default_key_selection_clicked
  \/ save_config \/ WriteNext \/ SaveDone
-----------------------------------------------------------------------------
(* scim-setup asks the flag before it closes.  It stands exactly when the   *)
(* user touched something since the last load or save: not because the      *)
(* dialog filled its own widgets, whose signals raise it too, and not after *)
(* a save.                                                                  *)
ChangedTellsEdits == AtRest => (query_changed <=> edited)

=============================================================================
