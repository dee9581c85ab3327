----------------------- MODULE MCArrayConfiguration ------------------------
(***************************************************************************)
(* The configuration of two input contexts for TLC: two texts a list of    *)
(* hot keys may be (the empty one, which no key matches, and the default), *)
(* the user's phrases there or not, one edit and one switch of a mode.     *)
(***************************************************************************)
EXTENDS ArrayConfiguration

MCHome  == [dir |-> "directory", file |-> "regular"]
MCHomes == {MCHome, [dir |-> "directory", file |-> "absent"]}
=============================================================================
