------------------------------- MODULE MCReport -------------------------------
(***************************************************************************)
(* An instance of Report for TLC: a sweep in two chunks of one port each,   *)
(* one UDP port, and a file of each sort the sections treat differently.    *)
(***************************************************************************)
EXTENDS Report

MCRanges == <<{22}, {80}>>

File(folder, kind, size) == [in |-> folder, kind |-> kind, size |-> size, readable |-> TRUE]

MCEvidence ==
    {File("network-scan", "nmap", "fits"), File("network-scan", "txt", "fits"),
     File("service-enum", "txt", "long"), File("dns-recon", "underscore", "fits"),
     File("osint", "txt", "empty"),
     [File("service-enum", "nmap", "fits") EXCEPT !.readable = FALSE]}

=============================================================================
