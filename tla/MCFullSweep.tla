----------------------------- MODULE MCFullSweep -----------------------------
(***************************************************************************)
(* Instances of FullSweep for TLC.                                          *)
(***************************************************************************)
EXTENDS FullSweep

\* Open ports at both ends of the range and on either side of a cut.
SomePorts == {1, 3, 4, 7}

=============================================================================
