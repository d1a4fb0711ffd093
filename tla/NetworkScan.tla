----------------------------- MODULE NetworkScan -----------------------------
(***************************************************************************)
(* network_scan.py: the decision tree of the network-scan phase.  Each step *)
(* runs one nmap, parses the XML file it left (nmap_xml.py) and decides     *)
(* from it what to run next.  The environment chooses how nmap ends and     *)
(* what it reports; the tree itself is deterministic.                       *)
(*                                                                          *)
(* A scan is the set of TCP (or UDP) ports listed as open, the set listed   *)
(* in one of NmapScan's filtered states, and the XML's <extraports>.  The   *)
(* chunks of the full sweep are one step here (module FullSweep has them).  *)
(***************************************************************************)
EXTENDS Sequences

CONSTANTS
    TcpPorts,   \* TCP ports nmap may report
    UdpPorts,   \* UDP ports nmap may report
    Leftovers   \* does the folder hold XML files of an earlier run?

ASSUME PortsAssumption == TcpPorts \cap UdpPorts = {}
ASSUME LeftoversAssumption == Leftovers \in BOOLEAN

VARIABLES
    pc,         \* the step of the decision tree
    privileged, \* os.geteuid() == 0
    ipv6,       \* the target is an IPv6 literal
    config,     \* the evasion options of the run configuration
    forcePn,    \* no reply to host discovery: -Pn from here on
    open,       \* open_tcp
    filtered,   \* filtered_tcp
    services,   \* the ports that have an entry in the service-name map
    udpOpen,    \* summary["udp_ports"]
    udpMaybe,   \* summary["udp_open_filtered"]
    firewall,   \* firewall_detected
    evasion,    \* what the "evasion_branch" step record says
    todo,       \* the techniques _run_evasion still has to fire
    baseline,   \* set(open_tcp) as _run_evasion got it
    revealed,   \* the union of the techniques' revealed_ports
    aborted,    \* summary has "aborted"
    call,       \* the flags and ports of the last nmap, with the step it is for
    seen        \* every port an nmap of this run has listed as open

vars == <<pc, privileged, ipv6, config, forcePn, open, filtered, services, udpOpen,
          udpMaybe, firewall, evasion, todo, baseline, revealed, aborted, call, seen>>

\* The inputs of a run, which no step changes.
inputs == <<privileged, ipv6, config>>

Configs == [source_ip : BOOLEAN, interface : BOOLEAN, dns_server : BOOLEAN]

\* Steps whose nmap needs raw sockets.  "quick" stands for the common scans:
\* scan_type makes them SYN scans with privileges and Connect scans without.
Evasions == {"fragmentation", "decoys", "source_port", "source_ip_spoof", "dns_relay"}
RawSteps == {"udp", "ack"} \cup Evasions

NoCall == [step |-> "none", pn |-> FALSE, six |-> FALSE, ports |-> {}]

----------------------------------------------------------------------------
(* One nmap invocation: _run_nmap with run_tool and parse_scan. *)

Listings(P) == {s \in [open : SUBSET P, filtered : SUBSET P] : s.open \cap s.filtered = {}}

Nothing == [open |-> {}, filtered |-> {}]

\* How an nmap over ports P of a protocol with ports All can end, and what
\* parse_scan then returns.  A timed-out or failed nmap may have closed its
\* <host> or not.  An nmap that never opened its -oA files (missing, or failed
\* early) leaves those of an earlier run, and parse_scan reads them.
Nmap(P, All) ==
    [end : {"ok", "timeout", "failed"}, scan : Listings(P), own : {TRUE}]
    \cup [end : {"timeout", "failed", "missing"}, scan : {Nothing}, own : {TRUE}]
    \cup [end : {"failed", "missing"}, scan : IF Leftovers THEN Listings(All) ELSE {},
          own : {FALSE}]

TcpScan(P) == Nmap(P, TcpPorts)

Seen(result) == seen' = IF result.own THEN seen \cup result.scan.open ELSE seen

\* base_flags: -Pn once discovery got no reply, -6 for an IPv6 target.
Call(step, ports) ==
    call' = [step |-> step, pn |-> forcePn, six |-> ipv6, ports |-> ports]

----------------------------------------------------------------------------

Init ==
    /\ pc = "discovery"
    /\ privileged \in BOOLEAN
    /\ ipv6 \in BOOLEAN
    /\ config \in Configs
    /\ forcePn = FALSE
    /\ open = {} /\ filtered = {} /\ services = {}
    /\ udpOpen = {} /\ udpMaybe = {}
    /\ firewall = FALSE
    /\ evasion = "undecided"
    /\ todo = <<>>
    /\ baseline = {} /\ revealed = {}
    /\ aborted = FALSE
    /\ call = NoCall
    /\ seen = {}

\* -sn.  A missing or timed-out nmap ends the phase; no reply forces -Pn.  The
\* only thing read is whether the host is up, here a listing of one port or more.
HostDiscovery ==
    /\ pc = "discovery"
    /\ \E result \in TcpScan(TcpPorts) :
         /\ Call("discovery", {})
         /\ \/ /\ result.end \in {"missing", "timeout"}
               /\ pc' = "done"
               /\ aborted' = TRUE
               /\ UNCHANGED forcePn
            \/ /\ result.end \in {"ok", "failed"}
               /\ forcePn' = (result.scan = Nothing)
               /\ pc' = "quick"
               /\ UNCHANGED aborted
    /\ UNCHANGED <<inputs, open, filtered, services, udpOpen, udpMaybe, firewall,
                   evasion, todo, baseline, revealed, seen>>

\* -F.  Same way out as discovery; otherwise its ports wait for the sweep's.
QuickScan ==
    /\ pc = "quick"
    /\ \E result \in TcpScan(TcpPorts) :
         /\ Call("quick", TcpPorts)
         /\ Seen(result)
         /\ \/ /\ result.end \in {"missing", "timeout"}
               /\ pc' = "done"
               /\ aborted' = TRUE
               /\ UNCHANGED <<open, filtered, services>>
            \/ /\ result.end \in {"ok", "failed"}
               /\ pc' = "sweep"
               /\ open' = result.scan.open
               /\ filtered' = result.scan.filtered
               /\ services' \in SUBSET result.scan.open
               /\ UNCHANGED aborted
    /\ UNCHANGED <<inputs, forcePn, udpOpen, udpMaybe, firewall, evasion, todo,
                   baseline, revealed>>

\* The chunks together, and the picture of quick scan plus sweep: a port open
\* in either is not filtered.
FullSweep ==
    /\ pc = "sweep"
    /\ \E result \in TcpScan(TcpPorts) :
         /\ Call("sweep", TcpPorts)
         /\ open' = open \cup result.scan.open
         /\ filtered' = (filtered \cup result.scan.filtered) \ open'
         /\ \E named \in SUBSET result.scan.open : services' = services \cup named
         /\ Seen(result)
    /\ pc' = "udp"
    /\ UNCHANGED <<inputs, forcePn, udpOpen, udpMaybe, firewall, evasion, todo,
                   baseline, revealed, aborted>>

\* Here and below, D_<fault> is D with a fault put in, for mutation only.
UdpScan_namesEveryPort ==
    /\ pc = "udp"
    /\ pc' = "ack"
    /\ privileged
    /\ \E result \in Nmap(UdpPorts, UdpPorts) :
         /\ Call("udp", UdpPorts)
         /\ udpOpen' = result.scan.open
         /\ udpMaybe' \in SUBSET result.scan.filtered
         /\ \E named \in SUBSET UdpPorts : services' = services \cup named
         /\ Seen(result)
    /\ UNCHANGED <<inputs, forcePn, open, filtered, firewall, evasion, todo, baseline,
                   revealed, aborted>>

\* -sU, as root only.  Of the filtered states only open|filtered is kept, and the
\* service names of ports in it or open.
UdpScan ==
    /\ pc = "udp"
    /\ pc' = "ack"
    /\ \/ /\ privileged
          /\ \E result \in Nmap(UdpPorts, UdpPorts) :
               /\ Call("udp", UdpPorts)
               /\ udpOpen' = result.scan.open
               /\ udpMaybe' \in SUBSET result.scan.filtered
               /\ \E named \in SUBSET (udpOpen' \cup udpMaybe') :
                    services' = services \cup named
               /\ Seen(result)
       \/ /\ ~privileged
          /\ UNCHANGED <<udpOpen, udpMaybe, services, call, seen>>
    /\ UNCHANGED <<inputs, forcePn, open, filtered, firewall, evasion, todo, baseline,
                   revealed, aborted>>

\* -sA, as root only: ports listed as filtered or collapsed into <extraports>.
AckScan ==
    /\ pc = "ack"
    /\ pc' = "evasion_branch"
    /\ \/ /\ privileged
          /\ \E result \in TcpScan(TcpPorts), extraports \in BOOLEAN :
               /\ Call("ack", TcpPorts)
               /\ extraports => result.end # "missing" \/ ~result.own
               /\ firewall' = \/ filtered # {}
                              \/ result.scan.filtered # {}
                              \/ extraports
       \/ /\ ~privileged
          /\ firewall' = (filtered # {})
          /\ UNCHANGED call
    /\ UNCHANGED <<inputs, forcePn, open, filtered, services, udpOpen, udpMaybe,
                   evasion, todo, baseline, revealed, aborted, seen>>

\* The techniques of _run_evasion, in order; a spoofed source address without
\* an interface is noted and skipped.
Techniques ==
    <<"fragmentation", "decoys", "source_port">>
    \o (IF config.source_ip /\ config.interface THEN <<"source_ip_spoof">> ELSE <<>>)
    \o (IF config.dns_server THEN <<"dns_relay">> ELSE <<>>)

worthEvading_firewallOnly == firewall

worthEvading == firewall /\ filtered # {}

\* The four ways out of the evasion branch.
EvasionBranch ==
    /\ pc = "evasion_branch"
    /\ \/ /\ worthEvading /\ privileged /\ ~ipv6
          /\ evasion' = "escalating"
          /\ todo' = Techniques
          /\ baseline' = open
          /\ pc' = "evade"
       \/ /\ worthEvading /\ privileged /\ ipv6
          /\ evasion' = "IPv4-only"
          /\ pc' = "deep"
          /\ UNCHANGED <<todo, baseline>>
       \/ /\ worthEvading /\ ~privileged
          /\ evasion' = "requires root"
          /\ pc' = "deep"
          /\ UNCHANGED <<todo, baseline>>
       \/ /\ ~worthEvading
          /\ evasion' = "no firewall signal"
          /\ pc' = "deep"
          /\ UNCHANGED <<todo, baseline>>
    /\ UNCHANGED <<inputs, forcePn, open, filtered, services, udpOpen, udpMaybe,
                   firewall, revealed, aborted, call, seen>>

evasionPorts_all == TcpPorts

\* What _run_evasion aims at.
evasionPorts == filtered

evasionCall_noPn(technique) ==
    [step |-> technique, pn |-> FALSE, six |-> FALSE, ports |-> evasionPorts]

\* _run_evasion puts its flags together by itself: -Pn like the others, no -6.
evasionCall(technique) ==
    [step |-> technique, pn |-> forcePn, six |-> FALSE, ports |-> evasionPorts]

\* One technique.
Evade ==
    /\ pc = "evade"
    /\ todo # <<>>
    /\ call' = evasionCall(Head(todo))
    /\ \E result \in TcpScan(evasionPorts) :
         /\ revealed' = revealed \cup (result.scan.open \ baseline)
         /\ Seen(result)
    /\ todo' = Tail(todo)
    /\ UNCHANGED <<pc, inputs, forcePn, open, filtered, services, udpOpen, udpMaybe,
                   firewall, evasion, baseline, aborted>>

FoldRevealed_dropped ==
    /\ pc = "evade"
    /\ todo = <<>>
    /\ pc' = "deep"
    /\ UNCHANGED <<inputs, forcePn, open, filtered, services, udpOpen, udpMaybe, firewall,
                   evasion, todo, baseline, revealed, aborted, call, seen>>

\* Back from _run_evasion: what was revealed is open from now on.
FoldRevealed ==
    /\ pc = "evade"
    /\ todo = <<>>
    /\ open' = open \cup revealed
    /\ pc' = "deep"
    /\ UNCHANGED <<inputs, forcePn, filtered, services, udpOpen, udpMaybe, firewall,
                   evasion, todo, baseline, revealed, aborted, call, seen>>

\* -sV -sC on the open ports; its service names replace the guesses, whatever
\* state it now finds the ports in.
DeepScan ==
    /\ pc = "deep"
    /\ open # {}
    /\ \E result \in TcpScan(open) :
         /\ Call("deep", open)
         /\ \E named \in SUBSET (open \cup result.scan.open \cup result.scan.filtered) :
              services' = services \cup named
         /\ Seen(result)
    /\ pc' = "vuln"
    /\ UNCHANGED <<inputs, forcePn, open, filtered, udpOpen, udpMaybe, firewall, evasion,
                   todo, baseline, revealed, aborted>>

SkipDeepScan ==
    /\ pc = "deep"
    /\ open = {}
    /\ pc' = "html"
    /\ UNCHANGED <<inputs, forcePn, open, filtered, services, udpOpen, udpMaybe, firewall,
                   evasion, todo, baseline, revealed, aborted, call, seen>>

\* --script vuln on the same ports; nothing is decided from its result.
VulnScan ==
    /\ pc = "vuln"
    /\ Call("vuln", open)
    /\ pc' = "html"
    /\ UNCHANGED <<inputs, forcePn, open, filtered, services, udpOpen, udpMaybe, firewall,
                   evasion, todo, baseline, revealed, aborted, seen>>

\* _generate_html_reports and the return of the summary.
HtmlReports ==
    /\ pc = "html"
    /\ pc' = "done"
    /\ UNCHANGED <<inputs, forcePn, open, filtered, services, udpOpen, udpMaybe, firewall,
                   evasion, todo, baseline, revealed, aborted, call, seen>>

Next ==
    \/ HostDiscovery \/ QuickScan \/ FullSweep \/ UdpScan \/ AckScan
    \/ EvasionBranch \/ Evade \/ FoldRevealed
    \/ DeepScan \/ SkipDeepScan \/ VulnScan \/ HtmlReports

Spec == Init /\ [][Next]_vars

----------------------------------------------------------------------------
(* Properties. *)

TypeOK ==
    /\ pc \in {"discovery", "quick", "sweep", "udp", "ack", "evasion_branch", "evade",
               "deep", "vuln", "html", "done"}
    /\ privileged \in BOOLEAN /\ ipv6 \in BOOLEAN /\ config \in Configs
    /\ forcePn \in BOOLEAN /\ firewall \in BOOLEAN /\ aborted \in BOOLEAN
    /\ open \subseteq TcpPorts /\ filtered \subseteq TcpPorts
    /\ baseline \subseteq TcpPorts /\ revealed \subseteq TcpPorts
    /\ udpOpen \subseteq UdpPorts /\ udpMaybe \subseteq UdpPorts
    /\ services \subseteq TcpPorts \cup UdpPorts
    /\ seen \subseteq TcpPorts \cup UdpPorts
    /\ evasion \in {"undecided", "escalating", "IPv4-only", "requires root",
                    "no firewall signal"}
    /\ todo \in Seq(Evasions)
    /\ call \in [step : {"none", "discovery", "quick", "sweep", "deep", "vuln"} \cup RawSteps,
                 pn : BOOLEAN, six : BOOLEAN, ports : SUBSET (TcpPorts \cup UdpPorts)]

\* Every scan after discovery carries -Pn iff discovery got no reply and -6 iff
\* the target is IPv6 -- the evasion scans too, which do not use base_flags --
\* and raw-socket scans are run by root only (network_scan.py:36, 141-156).
FlagsFit ==
    call.step \notin {"none", "discovery"} =>
        /\ call.pn = forcePn
        /\ call.six = ipv6
        /\ call.step \in RawSteps => privileged

\* No nmap gets an empty or a wrong port list: evasion goes against ports that
\* are filtered and not open, deep and vulnerability scan against all open
\* ports, those evasion revealed included.
PortListsFit ==
    /\ call.step \in Evasions => call.ports # {} /\ call.ports = filtered \ baseline
    /\ call.step \in {"deep", "vuln"} => call.ports # {} /\ call.ports = open

\* "newly revealed a previously-filtered port" (network_scan.py:415): with no
\* files of an earlier run about, what evasion reveals was filtered before.
RevealedWereFiltered == revealed \subseteq filtered \ baseline

\* With no files of an earlier run about, the service-name map only speaks of
\* ports the summary lists (network_scan.py:185-193, 211-214, 306-309).
ServicesOfListedPorts == pc = "done" => services \subseteq open \cup udpOpen \cup udpMaybe

\* With no files of an earlier run about, the open ports of the summary are the
\* ports some nmap of this run reported open: no step forgets one or invents one.
OpenPortsExact == pc = "done" /\ ~aborted => open \cup udpOpen = seen

=============================================================================
