------------------------------ MODULE MCTuiData ------------------------------
(* TuiData with model values: the repositories and the slots of the event   *)
(* loop's goroutines are interchangeable.                                   *)
EXTENDS TuiData, TLC

Symmetry == Permutations(Repos) \cup Permutations(Slots)
=============================================================================
