----------------------------- MODULE ScimConfig -----------------------------
(***************************************************************************)
(* SCIM's configuration (external), as the engine and its setup dialog use *)
(* it: a store that both processes read and write key by key, and a signal *)
(* that tells the engine to read it again.  Values are the texts stored.   *)
(***************************************************************************)
CONSTANTS
  KeyTexts,    (* the texts a list of hot keys is written as               *)
  NoKeys,      (* the empty text                                           *)
  ShiftSpace,  (* the text "Shift+space"                                   *)
  Unset        (* what stands for a key the store does not have            *)

Flags == {"true", "false"}

ASSUME KeyTextAssumption ==
  /\ NoKeys \in KeyTexts /\ ShiftSpace \in KeyTexts
  /\ Unset \notin KeyTexts \cup Flags

VARIABLES
  config,      (* what is stored under each key, or Unset                  *)
  reload_due   (* written since the reload signal was last sent            *)

KeyOptions  == {"Enchkey", "Hfkey"}
FlagOptions == {"ShowSpecial", "SpecialCodeOnly", "UsePhrases"}
OptionKeys  == KeyOptions \cup FlagOptions

Values(key) == IF key \in KeyOptions THEN KeyTexts ELSE Flags

(* A value for each key of the set. *)
OptionsOver(keys) ==
  {o \in [keys -> KeyTexts \cup Flags] : \A key \in keys : o[key] \in Values(key)}

ConfigTypeOK ==
  /\ config \in [OptionKeys -> KeyTexts \cup Flags \cup {Unset}]
  /\ \A key \in OptionKeys : config[key] \in Values(key) \cup {Unset}
  /\ reload_due \in BOOLEAN

(* config->read(key, default) *)
Read(key, default) == IF config[key] = Unset THEN default ELSE config[key]

(* config->write(key, value): the store may refuse it, and says so. *)
Write(key, value, accepted) ==
  /\ config' = IF accepted THEN [config EXCEPT ![key] = value] ELSE config
  /\ reload_due' = (reload_due \/ accepted)
=============================================================================
