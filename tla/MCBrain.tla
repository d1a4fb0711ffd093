------------------------------- MODULE MCBrain -------------------------------
(***************************************************************************)
(* Instances of Brain for TLC: a few interchangeable runs of one label.     *)
(***************************************************************************)
EXTENDS Brain, TLC

\* The runs are interchangeable: nothing names one of them.
RunSymmetry == Permutations(Runs)

=============================================================================
