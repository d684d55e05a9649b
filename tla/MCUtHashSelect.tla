--------------------------- MODULE MCUtHashSelect ----------------------------
(* Constants for the model checking of UtHashSelect. *)
EXTENDS UtHashSelect

MCElts == 1 .. 3
MCKeyOf == <<"a", "b", "c">>
MCRankOf == <<2, 2, 1>>
Mixed == [a |-> 0, b |-> 16, c |-> 1]
=============================================================================
