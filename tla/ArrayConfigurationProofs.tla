----------------------- MODULE ArrayConfigurationProofs -----------------------
(***************************************************************************)
(* Theorems about the factory, the setup dialog and the configuration they *)
(* share, for any hot keys, any number of input contexts, any number of    *)
(* edits and any writes refused.                                           *)
(***************************************************************************)
EXTENDS ArrayConfiguration, TLAPS

LEMMA ReadTyped ==
  ASSUME ConfigTypeOK, NEW key \in OptionKeys, NEW default \in Values(key)
  PROVE  Read(key, default) \in Values(key)
BY DEF ConfigTypeOK, Read

LEMMA DefaultsTyped ==
  /\ SetupDefault \in OptionsOver(OptionKeys)
  /\ FactoryDefault = SetupDefault
  /\ \A key \in OptionKeys : SetupDefault[key] \in Values(key)
<1>1. \A key \in OptionKeys : SetupDefault[key] \in Values(key)
  BY KeyTextAssumption
     DEF SetupDefault, OptionKeys, KeyOptions, FlagOptions, Values, Flags
<1>2. SetupDefault \in [OptionKeys -> KeyTexts \cup Flags]
  BY KeyTextAssumption DEF SetupDefault, OptionKeys, KeyOptions, FlagOptions, Flags
<1> QED
  BY <1>1, <1>2 DEF OptionsOver, FactoryDefault, SetupDefault

LEMMA ReadAllTyped ==
  ASSUME ConfigTypeOK
  PROVE  [key \in OptionKeys |-> Read(key, SetupDefault[key])] \in OptionsOver(OptionKeys)
<1>1. \A key \in OptionKeys : Read(key, SetupDefault[key]) \in Values(key)
  BY ReadTyped, DefaultsTyped
<1>2. \A key \in OptionKeys : Values(key) \subseteq KeyTexts \cup Flags
  BY DEF Values
<1> QED
  BY <1>1, <1>2 DEF OptionsOver

(* A widget takes a value of its own kind. *)
WidgetsOK(w) == w \in [shown : OptionsOver(OptionKeys), changed : BOOLEAN]

LEMMA SetTyped ==
  ASSUME NEW w, WidgetsOK(w), NEW key \in OptionKeys, NEW value \in Values(key)
  PROVE  /\ WidgetsOK(Set(w, key, value))
         /\ Set(w, key, value).shown[key] = value
         /\ \A other \in OptionKeys \ {key} :
              Set(w, key, value).shown[other] = w.shown[other]
<1>1. value \in KeyTexts \cup Flags
  BY DEF Values
<1>2. w.shown \in [OptionKeys -> KeyTexts \cup Flags]
  BY DEF WidgetsOK, OptionsOver
<1>3. [w.shown EXCEPT ![key] = value] \in OptionsOver(OptionKeys)
  BY <1>1, <1>2 DEF WidgetsOK, OptionsOver
<1> QED
  BY <1>2, <1>3 DEF Set, WidgetsOK

LEMMA FilledTyped ==
  ASSUME ConfigTypeOK, NEW w, WidgetsOK(w)
  PROVE  /\ WidgetsOK(Filled(w))
         /\ \A key \in OptionKeys : Filled(w).shown[key] = Read(key, SetupDefault[key])
<1> DEFINE a == SetFromConfig(w, "Enchkey")
           b == SetFromConfig(a, "ShowSpecial")
           c == SetFromConfig(b, "Hfkey")
           d == SetFromConfig(c, "SpecialCodeOnly")
           e == SetFromConfig(d, "UsePhrases")
<1>1. ASSUME NEW v, WidgetsOK(v), NEW key \in OptionKeys
      PROVE  /\ WidgetsOK(SetFromConfig(v, key))
             /\ SetFromConfig(v, key).shown[key] = Read(key, SetupDefault[key])
             /\ \A other \in OptionKeys \ {key} :
                  SetFromConfig(v, key).shown[other] = v.shown[other]
  <2>1. Read(key, SetupDefault[key]) \in Values(key)
    BY ReadTyped, DefaultsTyped
  <2> QED
    BY <1>1, <2>1, SetTyped DEF SetFromConfig
<1>2. OptionKeys = {"Enchkey", "Hfkey", "ShowSpecial", "SpecialCodeOnly", "UsePhrases"}
  BY DEF OptionKeys, KeyOptions, FlagOptions
<1>3. Filled(w) = e
  BY DEF Filled
<1> HIDE DEF a, b, c, d, e
<1>4. /\ WidgetsOK(a)
      /\ a.shown["Enchkey"] = Read("Enchkey", SetupDefault["Enchkey"])
  BY <1>1, <1>2 DEF a
<1>5. /\ WidgetsOK(b)
      /\ b.shown["ShowSpecial"] = Read("ShowSpecial", SetupDefault["ShowSpecial"])
      /\ \A o \in OptionKeys \ {"ShowSpecial"} : b.shown[o] = a.shown[o]
  BY <1>1, <1>2, <1>4 DEF b
<1>6. /\ WidgetsOK(c)
      /\ c.shown["Hfkey"] = Read("Hfkey", SetupDefault["Hfkey"])
      /\ \A o \in OptionKeys \ {"Hfkey"} : c.shown[o] = b.shown[o]
  BY <1>1, <1>2, <1>5 DEF c
<1>7. /\ WidgetsOK(d)
      /\ d.shown["SpecialCodeOnly"] = Read("SpecialCodeOnly", SetupDefault["SpecialCodeOnly"])
      /\ \A o \in OptionKeys \ {"SpecialCodeOnly"} : d.shown[o] = c.shown[o]
  BY <1>1, <1>2, <1>6 DEF d
<1>8. /\ WidgetsOK(e)
      /\ e.shown["UsePhrases"] = Read("UsePhrases", SetupDefault["UsePhrases"])
      /\ \A o \in OptionKeys \ {"UsePhrases"} : e.shown[o] = d.shown[o]
  BY <1>1, <1>2, <1>7 DEF e
<1> QED
  BY <1>2, <1>3, <1>4, <1>5, <1>6, <1>7, <1>8
-----------------------------------------------------------------------------
(***************************************************************************)
(* The dialog.                                                             *)
(***************************************************************************)
LEMMA Saves ==
  /\ Len(SaveOrder) = 5 /\ NotSaving = 6
  /\ \A i \in 1 .. 5 : SaveOrder[i] \in OptionKeys
  /\ \A key \in OptionKeys : \E i \in 1 .. 5 : SaveOrder[i] = key
<1>1. /\ SaveOrder[1] = "Enchkey" /\ SaveOrder[2] = "ShowSpecial"
      /\ SaveOrder[3] = "SpecialCodeOnly" /\ SaveOrder[4] = "UsePhrases"
      /\ SaveOrder[5] = "Hfkey" /\ Len(SaveOrder) = 5
  BY DEF SaveOrder
<1> QED
  BY <1>1 DEF NotSaving, OptionKeys, KeyOptions, FlagOptions

(* What the writes made so far, and those of the last save, have stored. *)
Stored ==
  /\ saving # NotSaving =>
       /\ setup_ui = "loaded"
       /\ \A i \in 1 .. 5 : i <= saving /\ SaveOrder[i] \notin refused =>
            config[SaveOrder[i]] = shown[SaveOrder[i]]
  /\ AtRest /\ ~query_changed =>
       \A key \in OptionKeys \ refused : Read(key, SetupDefault[key]) = shown[key]

DialogInv == ConfigTypeOK /\ SetupTypeOK /\ ChangedTellsEdits /\ Stored

LEMMA DialogInit ==
  ASSUME ConfigurationInit
  PROVE  DialogInv
<1>1. OptionKeys = {"Enchkey", "Hfkey", "ShowSpecial", "SpecialCodeOnly", "UsePhrases"}
  BY DEF OptionKeys, KeyOptions, FlagOptions
<1>2. \A key \in OptionKeys : SetupDefault[key] \in Values(key)
  BY DefaultsTyped
<1>3. \A key \in OptionKeys : Values(key) \subseteq KeyTexts \cup Flags
  BY DEF Values
<1>4. ConfigTypeOK
  <2>1. CASE config = [key \in OptionKeys |-> Unset] /\ reload_due = FALSE
    BY <2>1 DEF ConfigTypeOK
  <2>2. CASE config = [SetupDefault EXCEPT !["UsePhrases"] = "true"] /\ reload_due = FALSE
    <3>1. SetupDefault \in [OptionKeys -> KeyTexts \cup Flags]
      BY DefaultsTyped DEF OptionsOver
    <3>2. "true" \in Values("UsePhrases")
      BY DEF Values, KeyOptions, Flags
    <3> QED
      BY <1>1, <1>2, <1>3, <2>2, <3>1, <3>2 DEF ConfigTypeOK
  <2> QED
    BY <2>1, <2>2 DEF ConfigurationInit
<1>5. SetupTypeOK
  <2>1. shown = [key \in OptionKeys |-> IF key \in KeyOptions THEN NoKeys ELSE "false"]
    BY DEF ConfigurationInit, SetupInit
  <2>2. shown \in OptionsOver(OptionKeys)
    BY <2>1, KeyTextAssumption DEF OptionsOver, Values, Flags
  <2>3. saving \in 0 .. NotSaving /\ edits \in 0 .. EditBound
    BY Saves, EditAssumption DEF ConfigurationInit, SetupInit
  <2> QED
    BY <2>2, <2>3 DEF ConfigurationInit, SetupInit, SetupTypeOK
<1> QED
  BY <1>4, <1>5 DEF ConfigurationInit, SetupInit, DialogInv, Stored, AtRest, ChangedTellsEdits

LEMMA EditStays ==
  ASSUME DialogInv, AtRest, CountEdit,
         NEW key \in OptionKeys, NEW value \in Values(key),
         Become(Set(Widgets, key, value)),
         edited' = (edited \/ value # shown[key])
  PROVE  DialogInv'
<1>1. WidgetsOK(Widgets)
  BY DEF DialogInv, SetupTypeOK, Widgets, WidgetsOK
<1> DEFINE w == Set(Widgets, key, value)
<1>2. /\ WidgetsOK(w)
      /\ value = shown[key] => w = Widgets
      /\ value # shown[key] => w.changed = TRUE
  BY <1>1, SetTyped DEF Set, Widgets
<1>3. shown' = w.shown /\ have_changed' = w.changed
  BY DEF Become
<1> HIDE DEF w
<1>4. /\ shown' \in OptionsOver(OptionKeys) /\ have_changed' \in BOOLEAN
      /\ value = shown[key] => shown' = shown /\ have_changed' = have_changed
      /\ value # shown[key] => have_changed' = TRUE
  BY <1>2, <1>3 DEF Widgets, WidgetsOK
<1>5. edits' \in 0 .. EditBound
  BY EditAssumption DEF CountEdit, DialogInv, SetupTypeOK
<1>6. ConfigTypeOK' /\ SetupTypeOK'
  BY <1>4, <1>5 DEF CountEdit, DialogInv, SetupTypeOK, ConfigTypeOK
<1>7. ChangedTellsEdits'
  BY <1>4 DEF DialogInv, ChangedTellsEdits, query_changed, CountEdit, AtRest
<1>8. Stored'
  BY <1>4 DEF DialogInv, Stored, query_changed, CountEdit, AtRest, Read
<1> QED
  BY <1>6, <1>7, <1>8 DEF DialogInv

LEMMA LoadStays ==
  ASSUME DialogInv, load_config
  PROVE  DialogInv'
<1>1. WidgetsOK(Widgets)
  BY DEF DialogInv, SetupTypeOK, Widgets, WidgetsOK
<1>2. /\ WidgetsOK(Filled(Widgets))
      /\ \A key \in OptionKeys : Filled(Widgets).shown[key] = Read(key, SetupDefault[key])
  BY <1>1, FilledTyped DEF DialogInv
<1>3. shown' = Filled(Widgets).shown /\ have_changed' = FALSE
  BY <1>2 DEF load_config, Become, Cleared, WidgetsOK
<1>4. config' = config /\ UNCHANGED <<saving, edits, reload_due>> /\ saving = NotSaving
  BY DEF load_config
<1>5. ConfigTypeOK' /\ SetupTypeOK'
  BY <1>2, <1>3, <1>4 DEF load_config, DialogInv, SetupTypeOK, ConfigTypeOK, WidgetsOK
<1>6. ChangedTellsEdits'
  BY <1>3 DEF load_config, ChangedTellsEdits, query_changed
<1>7. \A key : Read(key, SetupDefault[key])' = Read(key, SetupDefault[key])
  BY <1>4 DEF Read, SetupDefault
<1>8. Stored'
  BY <1>2, <1>3, <1>4, <1>7 DEF Stored, Saves
<1> QED
  BY <1>5, <1>6, <1>8 DEF DialogInv

LEMMA WriteStays ==
  ASSUME DialogInv, WriteNext
  PROVE  DialogInv'
<1> DEFINE key == SaveOrder[saving + 1]
<1>1. PICK accepted \in BOOLEAN :
        /\ Write(key, shown[key], accepted)
        /\ refused' = IF accepted THEN refused ELSE refused \cup {key}
  BY DEF WriteNext
<1>2. /\ saving \in 0 .. 4 /\ saving' = saving + 1 /\ saving + 1 \in 1 .. 5
      /\ saving # NotSaving /\ saving' # NotSaving
      /\ shown' = shown /\ have_changed' = have_changed /\ setup_ui' = setup_ui
      /\ edits' = edits /\ edited' = edited
  BY Saves DEF WriteNext, DialogInv, SetupTypeOK
<1>3. key \in OptionKeys
  BY <1>2, Saves
<1> HIDE DEF key
<1>4. shown[key] \in Values(key) /\ shown[key] \in KeyTexts \cup Flags
  BY <1>3 DEF DialogInv, SetupTypeOK, OptionsOver
<1>5. /\ config' = IF accepted THEN [config EXCEPT ![key] = shown[key]] ELSE config
      /\ reload_due' \in BOOLEAN
  BY <1>1 DEF Write, DialogInv, ConfigTypeOK
<1>6. ConfigTypeOK'
  BY <1>3, <1>4, <1>5 DEF DialogInv, ConfigTypeOK
<1>7. SetupTypeOK'
  BY <1>1, <1>2, <1>3, Saves DEF DialogInv, SetupTypeOK
<1>8. ChangedTellsEdits'
  BY <1>2 DEF ChangedTellsEdits, AtRest
<1>9. Stored'
  <2>1. setup_ui' = "loaded"
    BY <1>2 DEF DialogInv, Stored
  <2>2. ASSUME NEW i \in 1 .. 5, i <= saving', SaveOrder[i] \notin refused'
        PROVE  config'[SaveOrder[i]] = shown'[SaveOrder[i]]
    <3>1. SaveOrder[i] \in OptionKeys /\ SaveOrder[i] \notin refused
      BY <1>1, <2>2, Saves
    <3>2. CASE SaveOrder[i] = key
      BY <1>1, <1>2, <1>3, <1>5, <2>2, <3>2 DEF DialogInv, ConfigTypeOK
    <3>3. CASE SaveOrder[i] # key
      <4>1. i <= saving
        BY <1>2, <2>2, <3>3 DEF key
      <4>2. config[SaveOrder[i]] = shown[SaveOrder[i]]
        BY <1>2, <3>1, <4>1 DEF DialogInv, Stored
      <4> QED
        BY <1>2, <1>3, <1>5, <3>1, <3>3, <4>2 DEF DialogInv, ConfigTypeOK
    <3> QED
      BY <3>2, <3>3
  <2> QED
    BY <1>2, <2>1, <2>2 DEF Stored, AtRest
<1> QED
  BY <1>6, <1>7, <1>8, <1>9 DEF DialogInv

LEMMA DialogStays ==
  ASSUME DialogInv, SetupNext
  PROVE  DialogInv'
<1>1. ASSUME create_setup_window  PROVE DialogInv'
  <2>1. saving = NotSaving
    BY <1>1 DEF create_setup_window, DialogInv, Stored
  <2>2. shown' \in OptionsOver(OptionKeys)
    BY <1>1, KeyTextAssumption DEF create_setup_window, OptionsOver, Values, Flags
  <2>3. ConfigTypeOK' /\ SetupTypeOK'
    BY <1>1, <2>2 DEF create_setup_window, DialogInv, SetupTypeOK, ConfigTypeOK
  <2> QED
    BY <1>1, <2>1, <2>3
       DEF create_setup_window, DialogInv, Stored, AtRest, ChangedTellsEdits
<1>2. ASSUME load_config  PROVE DialogInv'
  BY <1>2, LoadStays
<1>3. ASSUME on_default_toggle_button_toggled  PROVE DialogInv'
  <2>1. PICK key \in FlagOptions :
          Become(Set(Widgets, key, IF shown[key] = "true" THEN "false" ELSE "true"))
    BY <1>3 DEF on_default_toggle_button_toggled
  <2> DEFINE value == IF shown[key] = "true" THEN "false" ELSE "true"
  <2>2. key \in OptionKeys /\ value \in Values(key) /\ value # shown[key]
    BY DEF OptionKeys, Values, Flags, KeyOptions, FlagOptions
  <2>3. edited' = (edited \/ value # shown[key])
    BY <1>3, <2>2 DEF on_default_toggle_button_toggled
  <2> HIDE DEF value
  <2>4. Become(Set(Widgets, key, value))
    BY <2>1 DEF value
  <2> QED
    BY <1>3, <2>2, <2>3, <2>4, EditStays DEF on_default_toggle_button_toggled
<1>4. ASSUME on_default_key_selection_clicked  PROVE DialogInv'
  <2>1. PICK key \in KeyOptions, keys \in KeyTexts :
          Become(Set(Widgets, key, keys)) /\ edited' = (edited \/ keys # shown[key])
    BY <1>4 DEF on_default_key_selection_clicked
  <2>2. key \in OptionKeys /\ keys \in Values(key)
    BY DEF OptionKeys, Values
  <2> QED
    BY <1>4, <2>1, <2>2, EditStays DEF on_default_key_selection_clicked
<1>5. ASSUME save_config  PROVE DialogInv'
  BY <1>5, Saves DEF save_config, DialogInv, ConfigTypeOK, SetupTypeOK,
     ChangedTellsEdits, AtRest, Stored
<1>6. ASSUME WriteNext  PROVE DialogInv'
  BY <1>6, WriteStays
<1>7. ASSUME SaveDone  PROVE DialogInv'
  <2>1. saving' \in 0 .. NotSaving
    BY <1>7, Saves DEF SaveDone
  <2>2. ConfigTypeOK' /\ SetupTypeOK'
    BY <1>7, <2>1 DEF SaveDone, DialogInv, ConfigTypeOK, SetupTypeOK
  <2>3. ASSUME NEW key \in OptionKeys, key \notin refused
        PROVE  Read(key, SetupDefault[key]) = shown[key]
    <3>1. PICK i \in 1 .. 5 : SaveOrder[i] = key
      BY Saves
    <3>2. config[key] = shown[key]
      BY <1>7, <2>3, <3>1, Saves DEF SaveDone, DialogInv, Stored
    <3>3. shown[key] \in Values(key) /\ Values(key) \subseteq KeyTexts \cup Flags
      BY DEF DialogInv, SetupTypeOK, OptionsOver, Values
    <3> QED
      BY <3>2, <3>3, KeyTextAssumption DEF Read
  <2>4. \A key : Read(key, SetupDefault[key])' = Read(key, SetupDefault[key])
    BY <1>7 DEF SaveDone, Read, SetupDefault
  <2>5. Stored' /\ ChangedTellsEdits'
    BY <1>7, <2>3, <2>4 DEF SaveDone, Stored, ChangedTellsEdits, AtRest, query_changed
  <2> QED
    BY <2>2, <2>5 DEF DialogInv
<1> QED
  BY <1>1, <1>2, <1>3, <1>4, <1>5, <1>6, <1>7 DEF SetupNext
-----------------------------------------------------------------------------
(***************************************************************************)
(* The factory.                                                            *)
(***************************************************************************)
(* The options read are those stored, unless a signal is on its way. *)
InForce ==
  factory = "alive" /\ ~reload_due =>
    \A key \in Reloaded : options[key] = Read(key, SetupDefault[key])

FactoryInv ==
  /\ ConfigTypeOK /\ FactoryTypeOK /\ InForce
  /\ DOMAIN instances # {} => factory = "alive"
  /\ PanelShowsModes

LEMMA SlotValues ==
  load_user_phrases \subseteq {"table", "endless", "null", "garbage"}
BY DEF load_user_phrases

LEMMA FactoryInitial ==
  ASSUME ConfigurationInit, ConfigTypeOK
  PROVE  FactoryInv
<1>1. FactoryDefault \in OptionsOver(OptionKeys)
  BY DefaultsTyped
<1>2. FactoryTypeOK
  <2>1. switches \in 0 .. ModeBound
    BY ModeAssumption DEF ConfigurationInit, FactoryInit
  <2>2. DOMAIN instances = {}
    BY DEF ConfigurationInit, FactoryInit
  <2> QED
    BY <1>1, <2>1, <2>2 DEF ConfigurationInit, FactoryInit, FactoryTypeOK, Slots,
       Labelled, Labels, NoClick, Properties
<1>3. DOMAIN instances = {}
  BY DEF ConfigurationInit, FactoryInit
<1> QED
  BY <1>2, <1>3 DEF ConfigurationInit, FactoryInit, FactoryInv, InForce,
     PanelShowsModes

LEMMA ConstructStays ==
  ASSUME FactoryInv, scim_imengine_module_create_factory
  PROVE  FactoryInv'
<1> DEFINE use == Read("UsePhrases", FactoryDefault["UsePhrases"])
<1>1. PICK slot4 \in IF use = "true" THEN load_user_phrases ELSE {"garbage"} :
        /\ factory' = IF slot4 = "endless" THEN "hung" ELSE "alive"
        /\ arrayCins' =
             [s \in Slots |->
                IF s < 3 THEN "table"
                ELSE IF s = 3 THEN IF use = "true" THEN "table" ELSE "null"
                ELSE IF slot4 = "endless" THEN "null" ELSE slot4]
  BY DEF scim_imengine_module_create_factory, ConstructFactory
<1>2. /\ options' = [key \in OptionKeys |-> Read(key, SetupDefault[key])]
      /\ labels' = Labelled("name", "name") /\ misused' = {} /\ held' = TRUE
      /\ UNCHANGED <<home, instances, focus, panel, clicked, switches, config, reload_due>>
      /\ factory = "none"
  BY DefaultsTyped DEF scim_imengine_module_create_factory, ConstructFactory
<1> HIDE DEF use
<1>3. ConfigTypeOK' /\ FactoryTypeOK'
  <2>1. options' \in OptionsOver(OptionKeys)
    BY <1>2, ReadAllTyped DEF FactoryInv
  <2>2. slot4 \in {"table", "endless", "null", "garbage"}
    BY SlotValues
  <2>3. arrayCins' \in [Slots -> {"table", "null", "garbage"}]
    BY <1>1, <2>2
  <2> QED
    BY <1>1, <1>2, <2>1, <2>3
       DEF FactoryInv, ConfigTypeOK, FactoryTypeOK, Labelled, Labels
<1>4. InForce'
  BY <1>2 DEF InForce, Reloaded, Read, SetupDefault
<1>5. DOMAIN instances = {} /\ focus = NoInstance
  BY <1>2 DEF FactoryInv, FactoryTypeOK
<1> QED
  BY <1>2, <1>3, <1>4, <1>5 DEF FactoryInv, PanelShowsModes

LEMMA LetGo ==
  ASSUME FactoryInv, factory = "alive", DestroyFactory \/ KeepFactory
  PROVE  /\ factory' \in {"none", "alive"} /\ misused' \subseteq {"followed", "deleted"}
         /\ UNCHANGED <<arrayCins, options, labels>>
BY DEF FactoryInv, FactoryTypeOK, DestroyFactory, KeepFactory

(* What the factory takes no part in. *)
LEMMA Elsewhere ==
  ASSUME FactoryInv, UNCHANGED <<home, factory, arrayCins, options, misused, config, reload_due>>
  PROVE  InForce' /\ ConfigTypeOK'
<1>1. \A key : Read(key, SetupDefault[key])' = Read(key, SetupDefault[key])
  BY DEF Read, SetupDefault
<1>2. InForce'
  BY <1>1 DEF FactoryInv, InForce, Reloaded
<1> QED
  BY <1>2 DEF FactoryInv, ConfigTypeOK

LEMMA LabelsTyped ==
  \A m : /\ StatusLabel(m) \in {"En", "Ch"} /\ LetterLabel(m) \in {"Full", "Half"}
         /\ Labelled(StatusLabel(m), LetterLabel(m)) \in Labels
BY DEF StatusLabel, LetterLabel, Labelled, Labels

(* Switching a mode of any input context: the panel follows the focused one *)
(* and only that one.                                                       *)
LEMMA TriggerStays ==
  ASSUME FactoryInv, NEW i \in DOMAIN instances, NEW property \in Properties,
         trigger_property(i, property), CountSwitch,
         clicked' \in {clicked, NoClick}
  PROVE  FactoryInv'
<1> DEFINE m == instances'[i]
           status == IF property = "status" THEN StatusLabel(m) ELSE labels.status
           letter == IF property = "status" THEN labels.letter ELSE LetterLabel(m)
<1>1. /\ UNCHANGED <<home, factory, arrayCins, options, misused, config, reload_due>>
      /\ held' = held /\ focus' = focus
  BY DEF CountSwitch, trigger_property
<1>2. /\ DOMAIN instances' = DOMAIN instances
      /\ \A j \in DOMAIN instances : instances'[j] \in InputModes
      /\ \A j \in DOMAIN instances \ {i} : instances'[j] = instances[j]
  BY DEF trigger_property, FactoryInv, FactoryTypeOK, InputModes
<1>3. /\ property = "status" => LetterLabel(m) = LetterLabel(instances[i])
      /\ property # "status" => StatusLabel(m) = StatusLabel(instances[i])
  BY DEF trigger_property, FactoryInv, FactoryTypeOK, InputModes, LetterLabel, StatusLabel
<1>4. labels' \in Labels
  BY LabelsTyped DEF trigger_property, FactoryInv, FactoryTypeOK, Labels
<1>5. /\ property = "status" => labels'.status = StatusLabel(m)
      /\ property # "status" => labels'.letter = LetterLabel(m)
  BY DEF trigger_property, FactoryInv, FactoryTypeOK, Labels
<1>6. panel' \in Labels
  <2>1. labels'[property] \in
          IF property = "status" THEN {"name", "En", "Ch"} ELSE {"name", "Full", "Half"}
    BY <1>4 DEF Properties, Labels
  <2>2. panel \in Labels
    BY DEF FactoryInv, FactoryTypeOK
  <2> QED
    BY <2>1, <2>2 DEF trigger_property, SentBy, Labels, Properties
<1>7. FactoryTypeOK'
  <2>1. switches' \in 0 .. ModeBound
    BY ModeAssumption DEF CountSwitch, FactoryInv, FactoryTypeOK
  <2>2. clicked' \in [instance : Instances \cup {NoInstance}, property : Properties]
    BY DEF FactoryInv, FactoryTypeOK, NoClick, Properties
  <2> QED
    BY <1>1, <1>2, <1>4, <1>6, <2>1, <2>2 DEF FactoryInv, FactoryTypeOK
<1>8. PanelShowsModes'
  <2>1. CASE focus = i
    <3>1. panel = Labelled(StatusLabel(instances[i]), LetterLabel(instances[i]))
      BY <2>1, InstanceAssumption DEF FactoryInv, FactoryTypeOK, PanelShowsModes
    <3>2. panel' = [panel EXCEPT ![property] = labels'[property]]
      BY <1>1, <2>1 DEF trigger_property, SentBy
    <3>3. panel' = Labelled(StatusLabel(m), LetterLabel(m))
      BY <1>3, <1>5, <3>1, <3>2 DEF Labelled, Properties
    <3> QED
      BY <1>1, <2>1, <3>3 DEF PanelShowsModes, StatusLabel, LetterLabel
  <2>2. CASE focus # i
    <3>1. panel' = panel
      BY <1>1, <2>2 DEF trigger_property, SentBy
    <3>2. focus # NoInstance => instances'[focus] = instances[focus]
      BY <1>2, <2>2 DEF FactoryInv, FactoryTypeOK
    <3> QED
      BY <1>1, <3>1, <3>2 DEF FactoryInv, PanelShowsModes, StatusLabel, LetterLabel
  <2> QED
    BY <2>1, <2>2
<1> QED
  BY <1>1, <1>2, <1>7, <1>8, Elsewhere DEF FactoryInv

LEMMA DeleteStays ==
  ASSUME FactoryInv, NEW i \in Instances, delete_instance(i)
  PROVE  FactoryInv'
<1>1. /\ i \in DOMAIN instances /\ DOMAIN instances' = DOMAIN instances \ {i}
      /\ \A j \in DOMAIN instances' : instances'[j] = instances[j]
      /\ UNCHANGED <<home, panel, switches, config, reload_due>>
      /\ focus' = IF focus = i THEN NoInstance ELSE focus
      /\ clicked' \in {clicked, NoClick}
      /\ held' \in BOOLEAN
  BY DEF delete_instance, FactoryInv, FactoryTypeOK, DestroyFactory
<1>2. factory = "alive" /\ (DestroyFactory \/ KeepFactory)
  BY <1>1 DEF delete_instance, FactoryInv
<1>3. /\ factory' \in {"none", "alive"} /\ misused' \subseteq {"followed", "deleted"}
      /\ UNCHANGED <<arrayCins, options, labels>>
  BY <1>1, <1>2, LetGo
<1>4. DOMAIN instances' # {} => factory' = "alive"
  <2>1. instances' = <<>> => DOMAIN instances' = {}
    OBVIOUS
  <2> QED
    BY <1>2, <2>1 DEF delete_instance, KeepFactory
<1>5. FactoryTypeOK' /\ ConfigTypeOK'
  <2>1. clicked' \in [instance : Instances \cup {NoInstance}, property : Properties]
    BY <1>1 DEF FactoryInv, FactoryTypeOK, NoClick, Properties
  <2> QED
    BY <1>1, <1>3, <2>1 DEF FactoryInv, FactoryTypeOK, ConfigTypeOK
<1>6. \A key : Read(key, SetupDefault[key])' = Read(key, SetupDefault[key])
  BY <1>1 DEF Read, SetupDefault
<1>7. InForce'
  BY <1>1, <1>2, <1>3, <1>6 DEF FactoryInv, InForce, Reloaded
<1>8. PanelShowsModes'
  <2>1. ASSUME focus' # NoInstance
        PROVE  focus' = focus /\ instances'[focus] = instances[focus] /\ focus # NoInstance
    BY <1>1, <2>1 DEF FactoryInv, FactoryTypeOK
  <2> QED
    BY <1>1, <2>1 DEF FactoryInv, PanelShowsModes, StatusLabel, LetterLabel
<1> QED
  BY <1>3, <1>4, <1>5, <1>7, <1>8 DEF FactoryInv

LEMMA FactoryStays ==
  ASSUME FactoryInv, FactoryNext
  PROVE  FactoryInv'
<1>1. ASSUME scim_imengine_module_create_factory  PROVE FactoryInv'
  BY <1>1, ConstructStays
<1>2. ASSUME scim_module_exit  PROVE FactoryInv'
  <2>1. /\ UNCHANGED <<home, instances, focus, panel, clicked, switches, config, reload_due>>
        /\ held' = FALSE /\ factory = "alive" /\ (DestroyFactory \/ KeepFactory)
    BY <1>2 DEF scim_module_exit
  <2>2. /\ factory' \in {"none", "alive"} /\ misused' \subseteq {"followed", "deleted"}
        /\ UNCHANGED <<arrayCins, options, labels>>
    BY <2>1, LetGo
  <2>3. DOMAIN instances' # {} => factory' = "alive"
    <3>1. instances = <<>> => DOMAIN instances = {}
      OBVIOUS
    <3> QED
      BY <1>2, <2>1, <3>1 DEF scim_module_exit, KeepFactory
  <2>4. \A key : Read(key, SetupDefault[key])' = Read(key, SetupDefault[key])
    BY <2>1 DEF Read, SetupDefault
  <2> QED
    BY <2>1, <2>2, <2>3, <2>4 DEF FactoryInv, FactoryTypeOK, ConfigTypeOK, InForce,
       Reloaded, PanelShowsModes, StatusLabel, LetterLabel
<1>3. ASSUME ReloadSignal  PROVE FactoryInv'
  <2>1. /\ UNCHANGED <<home, factory, held, arrayCins, labels, instances, focus,
                       panel, clicked, switches, misused, config>>
        /\ reload_due' = FALSE
        /\ options' = IF factory = "alive" THEN reload_config ELSE options
    BY <1>3 DEF ReloadSignal
  <2>2. options \in OptionsOver(OptionKeys)
    BY DEF FactoryInv, FactoryTypeOK
  <2>3. \A key \in OptionKeys : Read(key, FactoryDefault[key]) \in Values(key)
    BY ReadTyped, DefaultsTyped DEF FactoryInv
  <2>4. options' \in OptionsOver(OptionKeys)
    BY <2>1, <2>2, <2>3 DEF reload_config, OptionsOver, Values
  <2>5. InForce'
    <3>1. ASSUME factory = "alive", NEW key \in Reloaded
          PROVE  options'[key] = Read(key, SetupDefault[key])
      BY <2>1, <3>1, DefaultsTyped DEF reload_config, Reloaded
    <3>2. \A key : Read(key, SetupDefault[key])' = Read(key, SetupDefault[key])
      BY <2>1 DEF Read, SetupDefault
    <3> QED
      BY <2>1, <3>1, <3>2 DEF InForce, Reloaded
  <2>6. FactoryTypeOK' /\ ConfigTypeOK'
    BY <2>1, <2>4 DEF FactoryInv, FactoryTypeOK, ConfigTypeOK
  <2> QED
    BY <2>1, <2>5, <2>6
       DEF FactoryInv, PanelShowsModes, StatusLabel, LetterLabel
<1>4. ASSUME NEW i \in Instances, create_instance(i)  PROVE FactoryInv'
  <2>1. /\ UNCHANGED <<home, factory, held, arrayCins, options, labels, focus, panel,
                       clicked, switches, misused, config, reload_due>>
        /\ factory = "alive" /\ i \notin DOMAIN instances
        /\ DOMAIN instances' = DOMAIN instances \cup {i}
        /\ \A j \in DOMAIN instances : instances'[j] = instances[j]
        /\ instances'[i] \in InputModes
    BY <1>4 DEF create_instance, InputModes
  <2>2. FactoryTypeOK'
    BY <2>1 DEF FactoryInv, FactoryTypeOK
  <2>3. PanelShowsModes'
    BY <2>1 DEF FactoryInv, FactoryTypeOK, PanelShowsModes, StatusLabel, LetterLabel
  <2> QED
    BY <2>1, <2>2, <2>3, Elsewhere DEF FactoryInv
<1>5. ASSUME NEW i \in Instances, delete_instance(i)  PROVE FactoryInv'
  BY <1>5, DeleteStays
<1>6. ASSUME NEW i \in Instances, focus_in(i)  PROVE FactoryInv'
  <2>1. /\ UNCHANGED <<home, factory, held, arrayCins, options, instances, clicked,
                       switches, misused, config, reload_due>>
        /\ i \in DOMAIN instances /\ focus' = i
        /\ labels' = Labelled(StatusLabel(instances[i]), LetterLabel(instances[i]))
        /\ panel' = labels'
    BY <1>6 DEF focus_in, initialize_properties, SentBy
  <2>2. FactoryTypeOK'
    BY <2>1, LabelsTyped DEF FactoryInv, FactoryTypeOK
  <2>3. PanelShowsModes'
    BY <2>1 DEF PanelShowsModes, StatusLabel, LetterLabel
  <2> QED
    BY <2>1, <2>2, <2>3, Elsewhere DEF FactoryInv
<1>7. ASSUME NEW property \in Properties, HotKey(property)  PROVE FactoryInv'
  <2>1. focus \in DOMAIN instances
    BY <1>7 DEF HotKey, FactoryInv, FactoryTypeOK
  <2> QED
    BY <1>7, <2>1, TriggerStays DEF HotKey
<1>8. ASSUME NEW property \in Properties, PanelClicks(property)  PROVE FactoryInv'
  <2>1. /\ UNCHANGED <<home, factory, held, arrayCins, options, labels, instances, focus,
                       panel, switches, misused, config, reload_due>>
        /\ clicked' \in [instance : Instances \cup {NoInstance}, property : Properties]
    BY <1>8 DEF PanelClicks, FactoryInv, FactoryTypeOK
  <2> QED
    BY <2>1, Elsewhere
       DEF FactoryInv, FactoryTypeOK, PanelShowsModes, StatusLabel, LetterLabel
<1>9. ASSUME ClickArrives  PROVE FactoryInv'
  <2>1. clicked.property \in Properties
    BY DEF FactoryInv, FactoryTypeOK
  <2> QED
    BY <1>9, <2>1, TriggerStays DEF ClickArrives
<1>10. ASSUME PhraseLookup  PROVE FactoryInv'
  <2>1. /\ UNCHANGED <<home, factory, held, arrayCins, options, labels, instances, focus,
                       panel, clicked, switches, config, reload_due>>
        /\ focus # NoInstance /\ options["UsePhrases"] = "true"
        /\ misused' = IF arrayCins[4] = "garbage" \/ arrayCins[3] # "table"
                        THEN misused \cup {"followed"} ELSE misused
    BY <1>10 DEF PhraseLookup
  <2>2. \A key : Read(key, SetupDefault[key])' = Read(key, SetupDefault[key])
    BY <2>1 DEF Read, SetupDefault
  <2>3. FactoryTypeOK' /\ ConfigTypeOK'
    BY <2>1 DEF FactoryInv, FactoryTypeOK, ConfigTypeOK
  <2>4. InForce'
    BY <2>1, <2>2 DEF FactoryInv, InForce, Reloaded
  <2> QED
    BY <2>1, <2>3, <2>4 DEF FactoryInv, PanelShowsModes, StatusLabel, LetterLabel
<1> QED
  BY <1>1, <1>2, <1>3, <1>4, <1>5, <1>6, <1>7, <1>8, <1>9, <1>10 DEF FactoryNext
-----------------------------------------------------------------------------
(***************************************************************************)
(* Both together.                                                          *)
(***************************************************************************)
ConfigurationInv == DialogInv /\ FactoryInv

(* A write raises the signal, so what the engine has read may then differ.  *)
LEMMA DialogLeavesFactory ==
  ASSUME ConfigurationInv, DialogInv', SetupNext, UNCHANGED factoryVars
  PROVE  FactoryInv'
<1>1. (config' = config /\ reload_due' = reload_due) \/ reload_due' = TRUE
  BY DEF SetupNext, create_setup_window, load_config, CountEdit, WriteNext, Write,
     on_default_toggle_button_toggled, on_default_key_selection_clicked,
     save_config, SaveDone, ConfigurationInv, FactoryInv, ConfigTypeOK
<1>2. InForce'
  BY <1>1 DEF ConfigurationInv, FactoryInv, InForce, factoryVars, Read, Reloaded, SetupDefault
<1> QED
  BY <1>2 DEF ConfigurationInv, DialogInv, FactoryInv, factoryVars, FactoryTypeOK,
     PanelShowsModes, StatusLabel, LetterLabel

LEMMA FactoryLeavesDialog ==
  ASSUME ConfigurationInv, FactoryInv', UNCHANGED <<setupVars, config>>
  PROVE  DialogInv'
BY DEF ConfigurationInv, DialogInv, FactoryInv, setupVars, SetupTypeOK, Stored,
   ChangedTellsEdits, AtRest, query_changed, Read, SetupDefault

LEMMA ConfigurationStays ==
  ASSUME ConfigurationInv, [ConfigurationNext]_configurationVars
  PROVE  ConfigurationInv'
<1>1. CASE FactoryNext /\ UNCHANGED setupVars
  <2>1. config' = config
    BY <1>1 DEF FactoryNext, scim_imengine_module_create_factory, scim_module_exit,
       ReloadSignal, create_instance, delete_instance, focus_in, HotKey, CountSwitch,
       PanelClicks, ClickArrives, PhraseLookup
  <2> QED
    BY <1>1, <2>1, FactoryStays, FactoryLeavesDialog DEF ConfigurationInv
<1>2. CASE SetupNext /\ UNCHANGED factoryVars
  BY <1>2, DialogStays, DialogLeavesFactory DEF ConfigurationInv
<1>3. CASE UNCHANGED configurationVars
  <2>1. FactoryInv'
    BY <1>3, Elsewhere DEF configurationVars, factoryVars, ConfigurationInv, FactoryInv,
       FactoryTypeOK, PanelShowsModes, StatusLabel, LetterLabel
  <2> QED
    BY <1>3, <2>1, FactoryLeavesDialog DEF configurationVars, ConfigurationInv
<1> QED
  BY <1>1, <1>2, <1>3 DEF ConfigurationNext

LEMMA ConfigurationAlways == ConfigurationSpec => []ConfigurationInv
<1>1. ConfigurationInit => ConfigurationInv
  BY DialogInit, FactoryInitial DEF ConfigurationInv, DialogInv
<1>2. ConfigurationInv /\ [ConfigurationNext]_configurationVars => ConfigurationInv'
  BY ConfigurationStays
<1> QED
  BY <1>1, <1>2, PTL DEF ConfigurationSpec

(* Every variable of the store, the dialog and the factory keeps to its     *)
(* domain.                                                                  *)
THEOREM ConfigurationTypeCorrect == ConfigurationSpec => []ConfigurationTypeOK
<1>1. ConfigurationInv => ConfigurationTypeOK
  BY DEF ConfigurationInv, DialogInv, FactoryInv, ConfigurationTypeOK
<1> QED
  BY <1>1, ConfigurationAlways, PTL

(* However often it was loaded, edited and saved, the dialog says it has    *)
(* changes exactly when the user made some since.                           *)
THEOREM ChangesAreTold == ConfigurationSpec => []ChangedTellsEdits
<1>1. ConfigurationInv => ChangedTellsEdits
  BY DEF ConfigurationInv, DialogInv
<1> QED
  BY <1>1, ConfigurationAlways, PTL

(* Whichever input context a hot key or a late click is for, the panel      *)
(* keeps to the modes of the one in focus.                                  *)
THEOREM PanelFollowsFocus == ConfigurationSpec => []PanelShowsModes
<1>1. ConfigurationInv => PanelShowsModes
  BY DEF ConfigurationInv, FactoryInv
<1> QED
  BY <1>1, ConfigurationAlways, PTL

(* At rest, an unchanged dialog, the store and (once the signal is out) the *)
(* engine agree on every option whose last write was taken.                 *)
THEOREM ShownTakesEffect == ConfigurationSpec => []ShownIsInForce
<1>1. ConfigurationInv => ShownIsInForce
  BY DEF ConfigurationInv, DialogInv, FactoryInv, Stored, InForce, ShownIsInForce, Reloaded
<1> QED
  BY <1>1, ConfigurationAlways, PTL
=============================================================================
