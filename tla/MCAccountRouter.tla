--------------------------- MODULE MCAccountRouter ---------------------------
(***************************************************************************)
(* Instances of AccountRouter for TLC: two accounts, two request threads,  *)
(* one conversation slot and a cooldown of one tick.  Turns and Convs are  *)
(* interchangeable; accounts are not, config order breaks ties.            *)
(***************************************************************************)
EXTENDS AccountRouter, TLC

Symmetry == Permutations(Turns) \union Permutations(Convs)
=============================================================================
