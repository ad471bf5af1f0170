------------------------------ MODULE MCRebase ------------------------------
EXTENDS RebaseProps, TLC

(* Every action first or last, a group that a dropped entry cuts, one at the end, and a  *)
(* plan that is refused.                                                                  *)
MCPlans == {<<"drop", "squash">>, <<"edit", "pick">>, <<"edit", "squash", "drop">>, <<"pick", "squash", "drop", "squash">>}

Symmetry == Permutations(Workers)
=============================================================================
