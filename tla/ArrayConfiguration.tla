------------------------- MODULE ArrayConfiguration -------------------------
(***************************************************************************)
(* The setup dialog and the engine over one configuration: scim-setup runs *)
(* in a process of its own, so its saves fall anywhere between the calls   *)
(* SCIM makes of the engine.                                               *)
(***************************************************************************)
EXTENDS ArrayFactory, ArraySetup

ConfigurationInit ==
  /\ FactoryInit /\ SetupInit /\ reload_due = FALSE
  /\ config \in {[key \in OptionKeys |-> Unset],
                 [SetupDefault EXCEPT !["UsePhrases"] = "true"]}

ConfigurationNext ==
  \/ FactoryNext /\ UNCHANGED setupVars
  \/ SetupNext /\ UNCHANGED factoryVars

configurationVars == <<config, reload_due, factoryVars, setupVars>>

ConfigurationSpec == ConfigurationInit /\ [][ConfigurationNext]_configurationVars

(* Every variable of the three keeps to its domain. *)
ConfigurationTypeOK == ConfigTypeOK /\ FactoryTypeOK /\ SetupTypeOK

(* What the dialog shows and calls saved is what the store holds and, once  *)
(* the reload signal is out, what the engine does: both sides give a key    *)
(* that is not stored the same meaning, and writes that the engine saw the  *)
(* middle of are read again.  Only a refused write is lost.                 *)
ShownIsInForce ==
  AtRest /\ ~query_changed =>
    \A key \in OptionKeys \ refused :
      /\ Read(key, SetupDefault[key]) = shown[key]
      /\ factory = "alive" /\ ~reload_due /\ key \in Reloaded =>
           options[key] = shown[key]
=============================================================================
