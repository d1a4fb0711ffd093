------------------------------- MODULE MCRecon -------------------------------
(***************************************************************************)
(* An instance of Recon for TLC: a plain name, one in capitals, one with a  *)
(* trailing dot, one of a cloud provider and one that starts with a dash;   *)
(* two nameservers and a complaint of dig; wordlists longer and shorter     *)
(* than the cap.                                                            *)
(***************************************************************************)
EXTENDS Recon

CONSTANTS plain, capitals, rooted, cloudy, dashed, ns1, ns2, complaint

MCNames       == {plain, capitals, rooted, cloudy, dashed}
MCValid(n)     == n # dashed
MCCloud(n)     == n = cloudy
MCLowerCase(n) == n # capitals
MCDotted(n)    == n = rooted

MCNameservers == {ns1, ns2}
MCSafe(l)      == l

\* The empty list is no different from a missing file.
MCWordlists == {<<"word">>, <<"comment", "blank">>, <<"word", "word">>,
                <<"comment", "word", "blank", "word", "word", "word">>}

=============================================================================
