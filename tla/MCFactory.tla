----------------------------- MODULE MCFactory -----------------------------
(***************************************************************************)
(* What the factory holds, part by part: a behaviour is one of its tables  *)
(* or of the matcher they are searched with (MCTables), or one of its      *)
(* configuration (MCArrayConfiguration) while those rest.                  *)
(***************************************************************************)
EXTENDS MCTables, MCArrayConfiguration

(* The user's phrases are there: the run with MCHomes is the one about them. *)
MCOneHome == {MCHome}

Rests == [key \in OptionKeys |-> Unset]

FactoryPartsInit ==
  /\ \/ TablesInit /\ config = Rests
     \/ /\ part = "configuration"
        /\ Init /\ file = Missing /\ mode.reverse
        /\ MatcherInit /\ expression = <<>> /\ target = <<>>
  /\ ConfigurationInit

TablesOnly(step) == step /\ UNCHANGED configurationVars

FactoryPartsNext ==
  \/ TablesOnly(TablesNext)
  \/ part = "configuration" /\ ConfigurationNext /\ UNCHANGED tablesVars

factoryPartsVars == <<tablesVars, configurationVars>>

(* As in TablesSpec, a call under way runs on; of the configuration no step *)
(* has to come.                                                             *)
FactoryPartsSpec ==
  /\ FactoryPartsInit /\ [][FactoryPartsNext]_factoryPartsVars
  /\ WF_factoryPartsVars(TablesOnly(TableStep(Work)))
  /\ WF_factoryPartsVars(TablesOnly(MatcherStep(MatcherNext)))
=============================================================================
