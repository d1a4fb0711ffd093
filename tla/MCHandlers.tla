------------------------------ MODULE MCHandlers ------------------------------
(***************************************************************************)
(* An instance of Handlers for TLC: every service, and three communities of *)
(* which two differ in a character that file names replace.                 *)
(***************************************************************************)
EXTENDS Handlers

CONSTANTS public, priv_space, priv_hash

MCCommunities == {public, priv_space, priv_hash}

MCSafe(c) == IF c = priv_hash THEN priv_space ELSE c

=============================================================================
