--------------------------------- MODULE Sums ---------------------------------
(***************************************************************************)
(* What the elements of a finite set weigh together.                       *)
(***************************************************************************)
EXTENDS Naturals, Folds

\* w gives each element of S its weight.
Weight(w, S) ==
    MapThenFoldSet(+, 0, LAMBDA x : w[x], LAMBDA s : CHOOSE x \in s : TRUE, S)
=============================================================================
