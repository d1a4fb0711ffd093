---------------------------- MODULE MCServiceEnum ----------------------------
(***************************************************************************)
(* Instances of ServiceEnum for TLC: a DNS server on TCP and UDP, the two   *)
(* ports of smb, and one port nothing is mapped to.                         *)
(***************************************************************************)
EXTENDS ServiceEnum

MCPortKeys == {"53/tcp", "139/tcp", "445/tcp", "53/udp"}
MCUdp      == {"53/udp"}

MCStandard(k) == CASE k \in {"53/tcp", "53/udp"} -> "dns"
                   [] k = "445/tcp" -> "smb"
                   [] k = "139/tcp" -> "none"

=============================================================================
