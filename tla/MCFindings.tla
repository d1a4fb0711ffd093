------------------------------ MODULE MCFindings ------------------------------
(***************************************************************************)
(* An instance of Findings for TLC: two CVEs for a table with one row, each *)
(* asked for in a request of its own; with no score or 9.8.                 *)
(***************************************************************************)
EXTENDS Findings

MCScores == {-1, 98}

=============================================================================
