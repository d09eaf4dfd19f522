--------------------------- MODULE MCResultsStore ---------------------------
(* Small instances of the results directory. *)
EXTENDS ResultsStore, TLC

JobSymmetry == Permutations(Jobs)
=============================================================================
