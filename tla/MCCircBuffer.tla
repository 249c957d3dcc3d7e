---------------------------- MODULE MCCircBuffer ----------------------------
(* Three places: the array wraps in the middle of transfers and a call can   *)
(* go round more than once.  What is stored is only ever compared, so the    *)
(* values are interchangeable.                                               *)
EXTENDS CircBuffer, TLC

Symmetry == Permutations(Values)
=============================================================================
