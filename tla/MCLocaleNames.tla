--------------------------- MODULE MCLocaleNames ---------------------------
(***************************************************************************)
(* Names for LocaleNames: every number of pieces, codesets that are and    *)
(* are not in normal form, empty pieces, an absolute path, aliases of      *)
(* either case in the first and in the second file.                        *)
(***************************************************************************)
EXTENDS LocaleNames

Alias(a, v) == [kind |-> "alias", alias |-> a, value |-> v]

MCNames ==
  {<<"a">>, <<"a", "_", "A">>, <<"a", "_", "A", ".", "T", "-", "8">>,
   <<"a", "_", "A", ".", "T", "-", "8", "@", "s">>, <<"a", ".", "t", "8", "@", "s">>,
   <<"a", "_", "A", ".", "t", "8">>, <<"a", ".", "1", "8">>, <<"a", "_", ".", "T", "@">>,
   <<"a", "_", "A", "@", "s">>, <<"a", "@", "s", "_", "A">>, <<"_", "a">>, <<"/", "a", "_", "A">>,
   <<"b", "A", "T">>, <<"i", "o">>, <<"t", "o">>}

MCAliasPaths ==
  {<<>>,
   <<<<[kind |-> "comment"], Alias(<<"B", "a", "t">>, <<"a", "_", "A">>), [kind |-> "alias only"],
       Alias(<<"b", "A", "t">>, <<"a", ".", "1", "8">>)>>,
     <<Alias(<<"i", "o">>, <<"a", "_", "A", ".", "T", "-", "8">>)>>>>}
=============================================================================
