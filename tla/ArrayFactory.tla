---------------------------- MODULE ArrayFactory ----------------------------
(***************************************************************************)
(* The factory of src/scim_array_imengine.cpp: the tables, the options and *)
(* the two property objects that every input context shares, from the time *)
(* the module makes it until the last input context lets go of it.  Of an  *)
(* input context only its two modes are kept (ArrayInstance has the rest). *)
(*                                                                         *)
(* SCIM calls the engine from one thread; the panel and the configuration  *)
(* are other processes, so a click on a property may be handled when the   *)
(* focus has moved on.                                                     *)
(***************************************************************************)
EXTENDS ScimConfig, Naturals

CONSTANTS
  Homes,       (* what may be at the paths of the user's phrases           *)
  Instances,   (* the input contexts                                       *)
  NoInstance,
  ModeBound    (* bound: how often modes are switched                      *)

Kinds == {"absent", "directory", "regular"}

ASSUME InstanceAssumption == NoInstance \notin Instances
ASSUME ModeAssumption == ModeBound \in Nat
ASSUME HomeAssumption == Homes \subseteq [dir : Kinds, file : Kinds]

VARIABLES
  home,        (* what stat finds of the user's phrases: a directory and a *)
               (* file kind each                                           *)
  factory,     (* "none", "alive", or "hung" in its constructor            *)
  held,        (* __array_factory holds it                                 *)
  arrayCins,   (* the five slots: "table", "null" or "garbage"             *)
  options,     (* the options read; m_use_phrases is options.UsePhrases    *)
  labels,      (* the labels of m_status_property and m_letter_property    *)
  instances,   (* the modes of each input context that there is            *)
  focus,       (* the input context the frontend has focused               *)
  panel,       (* the labels the panel shows                               *)
  clicked,     (* a click on the panel not handled yet                     *)
  switches,    (* history: how often modes were switched                   *)
  misused      (* history: the factory's slots used that were never set     *)

factoryVars == <<home, factory, held, arrayCins, options, labels, instances,
                 focus, panel, clicked, switches, misused>>

Reloaded == OptionKeys \ {"UsePhrases"}
Slots    == 0 .. 4
InputModes == [m_forward : BOOLEAN, m_full_width_letter : BOOLEAN]
Labels   == [status : {"name", "En", "Ch"}, letter : {"name", "Full", "Half"}]
Properties == {"status", "letter"}
NoClick  == [instance |-> NoInstance, property |-> "status"]

FactoryTypeOK ==
  /\ home \in Homes
  /\ factory \in {"none", "alive", "hung"} /\ held \in BOOLEAN
  /\ arrayCins \in [Slots -> {"table", "null", "garbage"}]
  /\ options \in OptionsOver(OptionKeys)
  /\ labels \in Labels /\ panel \in Labels
  /\ DOMAIN instances \subseteq Instances
  /\ \A i \in DOMAIN instances : instances[i] \in InputModes
  /\ focus \in DOMAIN instances \cup {NoInstance}
  /\ clicked \in [instance : Instances \cup {NoInstance}, property : Properties]
  /\ switches \in 0 .. ModeBound
  /\ misused \subseteq {"followed", "deleted"}

StatusLabel(m) == IF m.m_forward THEN "En" ELSE "Ch"
LetterLabel(m) == IF m.m_full_width_letter THEN "Full" ELSE "Half"
-----------------------------------------------------------------------------
(***************************************************************************)
(* Construction.                                                           *)
(***************************************************************************)
(* The file kind read from a struct stat: when stat fails, and its result   *)
(* is not looked at, the struct is uninitialised and may read as any kind.  *)
KindsRead(kind) == IF kind = "absent" THEN Kinds ELSE {kind}

(* What load_user_phrases makes of slot 4.  A file that is not there is     *)
(* read for ever, and a slot that is not assigned is what the memory held.  *)
load_user_phrases ==
  UNION {UNION {
    IF dir = "directory" /\ file = "regular"
      THEN {IF home.dir = "directory" /\ home.file = "regular" THEN "table" ELSE "endless"}
      ELSE {"null", "garbage"}
    : file \in KindsRead(IF home.dir = "directory" THEN home.file ELSE "absent")}
    : dir \in KindsRead(home.dir)}

FactoryDefault ==
  [Enchkey |-> NoKeys, Hfkey |-> ShiftSpace, ShowSpecial |-> "false",
   SpecialCodeOnly |-> "false", UsePhrases |-> "false"]

(* Deliberately wrong: no default, or another default than the dialog's.    *)
reload_config_no_default ==
  [key \in OptionKeys |-> IF key \in Reloaded THEN config[key] ELSE options[key]]

reload_config_other_default ==
  [key \in OptionKeys |->
     IF key \in Reloaded
       THEN Read(key, IF key = "Hfkey" THEN NoKeys ELSE FactoryDefault[key])
       ELSE options[key]]

(* reload_config(config): the options but m_use_phrases, which is const. *)
reload_config ==
  [key \in OptionKeys |->
     IF key \in Reloaded THEN Read(key, FactoryDefault[key]) ELSE options[key]]

Labelled(status, letter) == [status |-> status, letter |-> letter]

(* ArrayFactory::ArrayFactory(config), in uninitialised memory.  It reads   *)
(* m_use_phrases before anything, loads, then reads the other options.      *)
(* Without m_use_phrases slot 4 stays what the memory held.                 *)
ConstructFactory ==
  LET use_phrases == Read("UsePhrases", FactoryDefault["UsePhrases"])
  IN  /\ \E slot4 \in IF use_phrases = "true" THEN load_user_phrases
                                              ELSE {"garbage"} :
           /\ factory' = IF slot4 = "endless" THEN "hung" ELSE "alive"
           /\ arrayCins' =
                [s \in Slots |->
                   IF s < 3 THEN "table"
                   ELSE IF s = 3 THEN IF use_phrases = "true" THEN "table" ELSE "null"
                   ELSE IF slot4 = "endless" THEN "null" ELSE slot4]
      /\ options' = [key \in OptionKeys |-> Read(key, FactoryDefault[key])]
      /\ labels' = Labelled("name", "name") /\ misused' = {}

(* scim_imengine_module_create_factory keeps the one there is. *)
scim_imengine_module_create_factory ==
  /\ factory = "none" /\ ConstructFactory /\ held' = TRUE
  /\ UNCHANGED <<home, instances, focus, panel, clicked, switches,
                 config, reload_due>>

(* ~ArrayFactory: slots 3 and 4 only with m_use_phrases. *)
DeletedSlots == IF options["UsePhrases"] = "true" THEN Slots ELSE 0 .. 2

(* The last Pointer to the factory goes; deleting null does nothing. *)
DestroyFactory ==
  /\ factory' = "none" /\ held' = FALSE
  /\ misused' = IF \E s \in DeletedSlots : arrayCins[s] = "garbage"
                  THEN misused \cup {"deleted"} ELSE misused
  /\ UNCHANGED <<arrayCins, options, labels>>

KeepFactory == UNCHANGED <<factory, arrayCins, options, labels, misused>>

scim_module_exit ==
  /\ factory = "alive" /\ held /\ held' = FALSE
  /\ IF instances = <<>> THEN DestroyFactory ELSE KeepFactory
  /\ UNCHANGED <<home, instances, focus, panel, clicked, switches,
                 config, reload_due>>

(* The reload signal, to which the factory is connected while it lives. *)
ReloadSignal ==
  /\ reload_due /\ reload_due' = FALSE
  /\ options' = IF factory = "alive" THEN reload_config ELSE options
  /\ factory # "hung"
  /\ UNCHANGED <<home, factory, held, arrayCins, labels, instances, focus,
                 panel, clicked, switches, misused, config>>
-----------------------------------------------------------------------------
(***************************************************************************)
(* The properties.  There is one pair of objects for all input contexts:   *)
(* an input context writes its label into it and sends it.  SCIM passes on *)
(* to the panel what the focused input context sends.                      *)
(***************************************************************************)
SentBy(i, shown) == IF i = focus' THEN shown ELSE panel

(* Deliberately wrong: refreshes one of the two. *)
initialize_status_only(i, m) ==
  /\ labels' = [labels EXCEPT !.status = StatusLabel(m)]
  /\ panel' = SentBy(i, labels')

(* register_properties shows the labels as they are; then both are set from *)
(* the modes and sent.                                                      *)
initialize_properties(i, m) ==
  /\ labels' = Labelled(StatusLabel(m), LetterLabel(m))
  /\ panel' = SentBy(i, labels')

(* focus_in; reset() of the one that had the focus sends no property. *)
focus_in(i) ==
  /\ factory = "alive" /\ i \in DOMAIN instances
  /\ focus' = i
  /\ initialize_properties(i, instances[i])
  /\ UNCHANGED <<home, factory, held, arrayCins, options, instances, clicked,
                 switches, misused, config, reload_due>>

(* trigger_property(property): switch, refresh_status_property or           *)
(* refresh_letter_property, which set the label and send the property.      *)
trigger_property(i, property) ==
  /\ focus' = focus
  /\ instances' = [instances EXCEPT ![i] =
       IF property = "status" THEN [@ EXCEPT !.m_forward = ~@]
                              ELSE [@ EXCEPT !.m_full_width_letter = ~@]]
  /\ labels' = IF property = "status"
                 THEN [labels EXCEPT !.status = StatusLabel(instances'[i])]
                 ELSE [labels EXCEPT !.letter = LetterLabel(instances'[i])]
  /\ panel' = SentBy(i, [panel EXCEPT ![property] = labels'[property]])

CountSwitch ==
  /\ switches < ModeBound /\ switches' = switches + 1
  /\ UNCHANGED <<home, factory, held, arrayCins, options, misused, config, reload_due>>

(* A hot key of the focused input context; with an empty list none matches, *)
(* and a key of both lists switches the status.                             *)
HotKey(property) ==
  /\ focus # NoInstance
  /\ IF property = "status" THEN options["Enchkey"] # NoKeys
     ELSE options["Hfkey"] \notin {NoKeys, options["Enchkey"]}
  /\ trigger_property(focus, property)
  /\ CountSwitch /\ UNCHANGED clicked

PanelClicks(property) ==
  /\ focus # NoInstance /\ clicked = NoClick
  /\ clicked' = [instance |-> focus, property |-> property]
  /\ UNCHANGED <<home, factory, held, arrayCins, options, labels, instances,
                 focus, panel, switches, misused, config, reload_due>>

(* The click arrives, perhaps when another input context has the focus. *)
ClickArrives ==
  /\ clicked.instance \in DOMAIN instances
  /\ trigger_property(clicked.instance, clicked.property)
  /\ clicked' = NoClick /\ CountSwitch
-----------------------------------------------------------------------------
(***************************************************************************)
(* Input contexts.                                                         *)
(***************************************************************************)
create_instance(i) ==
  /\ factory = "alive" /\ held /\ i \notin DOMAIN instances
  /\ instances' = [j \in DOMAIN instances \cup {i} |->
       IF j = i THEN [m_forward |-> FALSE, m_full_width_letter |-> FALSE]
                ELSE instances[j]]
  /\ UNCHANGED <<home, factory, held, arrayCins, options, labels, focus, panel,
                 clicked, switches, misused, config, reload_due>>

delete_instance(i) ==
  /\ i \in DOMAIN instances
  /\ instances' = [j \in DOMAIN instances \ {i} |-> instances[j]]
  /\ focus' = IF focus = i THEN NoInstance ELSE focus
  /\ clicked' = IF clicked.instance = i THEN NoClick ELSE clicked
  /\ IF held \/ instances' # <<>> THEN KeepFactory /\ UNCHANGED held
                                  ELSE DestroyFactory
  /\ UNCHANGED <<home, panel, switches, config, reload_due>>

(* create_phrase_lookup_table, with m_use_phrases: slot 4 is followed unless *)
(* it is null, and slot 3 always.                                           *)
PhraseLookup ==
  /\ focus # NoInstance /\ options["UsePhrases"] = "true"
  /\ misused' = IF arrayCins[4] = "garbage" \/ arrayCins[3] # "table"
                  THEN misused \cup {"followed"} ELSE misused
  /\ UNCHANGED <<home, factory, held, arrayCins, options, labels, instances,
                 focus, panel, clicked, switches, config, reload_due>>

FactoryInit ==
  /\ home \in Homes
  /\ factory = "none" /\ held = FALSE
  /\ arrayCins = [s \in Slots |-> "null"]
  /\ options = FactoryDefault
  /\ labels = Labelled("name", "name") /\ panel = Labelled("name", "name")
  /\ instances = <<>> /\ focus = NoInstance /\ clicked = NoClick
  /\ switches = 0 /\ misused = {}

FactoryNext ==
  \/ scim_imengine_module_create_factory \/ scim_module_exit \/ ReloadSignal
  \/ \E i \in Instances : create_instance(i) \/ delete_instance(i) \/ focus_in(i)
  \/ \E p \in Properties : HotKey(p) \/ PanelClicks(p)
  \/ ClickArrives \/ PhraseLookup
-----------------------------------------------------------------------------
(* The panel shows the modes of the input context that has the focus,       *)
(* though the labels it is sent live in objects that every input context    *)
(* writes, some of them after they have lost the focus.                     *)
PanelShowsModes ==
  focus # NoInstance =>
    panel = Labelled(StatusLabel(instances[focus]), LetterLabel(instances[focus]))

(* "if (m_factory->arrayCins[4] != NULL)", and only slot 3 otherwise: the    *)
(* user's phrases may be missing, so no lookup follows and no destructor    *)
(* deletes a slot that was never set.                                       *)
OnlySetSlotsUsed == misused = {}
=============================================================================
