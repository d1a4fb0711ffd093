---------------------------- MODULE MCNetworkScan ----------------------------
(***************************************************************************)
(* Instances of NetworkScan for TLC.                                        *)
(***************************************************************************)
EXTENDS NetworkScan, TLC

\* TCP ports are interchangeable, and so are UDP ports: nothing names one.
PortSymmetry == Permutations(TcpPorts) \cup Permutations(UdpPorts)

=============================================================================
