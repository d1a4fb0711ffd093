------------------------------ MODULE MCWebRecon ------------------------------
(***************************************************************************)
(* Instances of WebRecon for TLC: the two ports a URL leaves out, and one   *)
(* that only nmap's name can tell is a web port.                            *)
(***************************************************************************)
EXTENDS WebRecon

=============================================================================
