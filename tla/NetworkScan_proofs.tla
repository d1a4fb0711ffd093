-------------------------- MODULE NetworkScan_proofs --------------------------
(***************************************************************************)
(* The decision tree of network_scan.py for any set of ports: which flags   *)
(* and ports each nmap is given, and that evasion only ever claims ports    *)
(* that were filtered.  Then its full sweep for any number of ports and of  *)
(* chunks: it misses no port without saying so, makes no more chunks than   *)
(* asked for and stays within its time budget; and what it comes to is the  *)
(* one scan the decision tree takes it for.                                 *)
(***************************************************************************)
EXTENDS NetworkScan, FullSweep, TLAPS

-----------------------------------------------------------------------------
(* The invariant, part by part. *)

\* The variables the flags and port lists depend on.
Shapes ==
    /\ open \subseteq TcpPorts /\ filtered \subseteq TcpPorts
    /\ privileged \in BOOLEAN /\ ipv6 \in BOOLEAN /\ forcePn \in BOOLEAN
    /\ revealed \subseteq TcpPorts
    /\ todo \in Seq(Evasions)

\* The evasion phase runs on filtered ports of an IPv4 host, as root, and
\* nothing is both open and filtered until its results are folded in.
EvadeInv ==
    /\ pc = "evade" => filtered # {} /\ privileged /\ ~ipv6 /\ baseline = open
    /\ pc \in {"udp", "ack", "evasion_branch", "evade"} => open \cap filtered = {}

\* What the last call tells about where the phase is.
CallInv ==
    /\ pc = "discovery" => call.step = "none"
    /\ pc \in {"quick", "sweep", "udp", "ack", "evasion_branch"} => call.step \notin Evasions
    /\ call.step \in {"deep", "vuln"} => pc \in {"vuln", "html", "done"}
    /\ pc = "vuln" => open # {}

LEMMA ShapesInit == Init => Shapes
<1>1. <<>> \in Seq(Evasions)
  OBVIOUS
<1> QED
  BY <1>1 DEF Init, Shapes

\* An nmap lists ports of its protocol only.
LEMMA ListsKnownPorts ==
    ASSUME NEW P, NEW All, P \subseteq All, NEW result \in Nmap(P, All)
    PROVE  result.scan.open \subseteq All /\ result.scan.filtered \subseteq All
<1>1. result.scan \in Listings(P) \cup {Nothing} \cup Listings(All)
  BY DEF Nmap
<1> QED
  BY <1>1 DEF Listings, Nothing

\* In a folder without older files it lists ports it was asked for only.
LEMMA ListsItsPorts ==
    ASSUME ~Leftovers, NEW P, NEW All, NEW result \in Nmap(P, All)
    PROVE  /\ result.own
           /\ result.scan.open \subseteq P /\ result.scan.filtered \subseteq P
<1>1. result.own /\ result.scan \in Listings(P) \cup {Nothing}
  BY DEF Nmap
<1> QED
  BY <1>1 DEF Listings, Nothing

LEMMA TechniquesType == Techniques \in Seq(Evasions)
<1>1. /\ <<"fragmentation", "decoys", "source_port">> \in Seq(Evasions)
      /\ <<"source_ip_spoof">> \in Seq(Evasions)
      /\ <<"dns_relay">> \in Seq(Evasions)
      /\ <<>> \in Seq(Evasions)
  BY DEF Evasions
<1> QED
  BY <1>1 DEF Techniques

LEMMA ShapesStep == Shapes /\ [Next]_vars => Shapes'
<1> SUFFICES ASSUME Shapes, [Next]_vars PROVE Shapes'
  OBVIOUS
<1> USE DEF Shapes
<1>1. CASE HostDiscovery
  BY <1>1 DEF HostDiscovery, inputs
<1>2. CASE QuickScan
  BY <1>2, ListsKnownPorts DEF QuickScan, inputs, TcpScan
<1>3. CASE FullSweep
  BY <1>3, ListsKnownPorts DEF FullSweep, inputs, TcpScan
<1>4. CASE UdpScan
  BY <1>4 DEF UdpScan, inputs
<1>5. CASE AckScan
  BY <1>5 DEF AckScan, inputs
<1>6. CASE EvasionBranch
  BY <1>6, TechniquesType DEF EvasionBranch, worthEvading, inputs
<1>7. CASE Evade
  BY <1>7, ListsKnownPorts DEF Evade, evasionCall, evasionPorts, inputs, TcpScan
<1>8. CASE FoldRevealed
  BY <1>8 DEF FoldRevealed, inputs
<1>9. CASE DeepScan
  BY <1>9 DEF DeepScan, inputs
<1>10. CASE SkipDeepScan
  BY <1>10 DEF SkipDeepScan, inputs
<1>11. CASE VulnScan
  BY <1>11 DEF VulnScan, inputs
<1>12. CASE HtmlReports
  BY <1>12 DEF HtmlReports, inputs
<1>13. CASE UNCHANGED vars
  BY <1>13 DEF vars, inputs
<1> QED
  BY <1>1, <1>2, <1>3, <1>4, <1>5, <1>6, <1>7,
     <1>8, <1>9, <1>10, <1>11, <1>12, <1>13 DEF Next

LEMMA EvadeInit == Init => EvadeInv
BY DEF Init, EvadeInv

LEMMA EvadeStep == EvadeInv /\ [Next]_vars => EvadeInv'
<1> SUFFICES ASSUME EvadeInv, [Next]_vars PROVE EvadeInv'
  OBVIOUS
<1> USE DEF EvadeInv
<1>1. CASE HostDiscovery
  BY <1>1 DEF HostDiscovery, inputs
<1>2. CASE QuickScan
  BY <1>2 DEF QuickScan, inputs
<1>3. CASE FullSweep
  BY <1>3 DEF FullSweep, inputs
<1>4. CASE UdpScan
  BY <1>4 DEF UdpScan, inputs
<1>5. CASE AckScan
  BY <1>5 DEF AckScan, inputs
<1>6. CASE EvasionBranch
  BY <1>6 DEF EvasionBranch, worthEvading, inputs
<1>7. CASE Evade
  BY <1>7 DEF Evade, evasionCall, evasionPorts, inputs
<1>8. CASE FoldRevealed
  BY <1>8 DEF FoldRevealed, inputs
<1>9. CASE DeepScan
  BY <1>9 DEF DeepScan, inputs
<1>10. CASE SkipDeepScan
  BY <1>10 DEF SkipDeepScan, inputs
<1>11. CASE VulnScan
  BY <1>11 DEF VulnScan, inputs
<1>12. CASE HtmlReports
  BY <1>12 DEF HtmlReports, inputs
<1>13. CASE UNCHANGED vars
  BY <1>13 DEF vars, inputs
<1> QED
  BY <1>1, <1>2, <1>3, <1>4, <1>5, <1>6, <1>7,
     <1>8, <1>9, <1>10, <1>11, <1>12, <1>13 DEF Next

\* The two calls whose flags do not come straight from base_flags.
LEMMA AckCall ==
    AckScan => \/ UNCHANGED call
               \/ /\ privileged
                  /\ call'.step = "ack" /\ call'.pn = forcePn /\ call'.six = ipv6
<1> SUFFICES ASSUME AckScan, call' # call
             PROVE  /\ privileged
                    /\ call'.step = "ack" /\ call'.pn = forcePn /\ call'.six = ipv6
  OBVIOUS
<1>1. privileged /\ Call("ack", TcpPorts)
  BY Zenon DEF AckScan
<1> QED
  BY <1>1 DEF Call

LEMMA EvadeCall ==
    Shapes /\ Evade => /\ call'.step \in Evasions /\ call'.pn = forcePn
                       /\ call'.six = FALSE /\ call'.ports = filtered
BY DEF Shapes, Evade, evasionCall, evasionPorts

LEMMA CallInit == Init => CallInv
BY DEF Init, CallInv, NoCall, Evasions

LEMMA CallStep == Shapes /\ CallInv /\ [Next]_vars => CallInv'
<1> SUFFICES ASSUME Shapes, CallInv, [Next]_vars PROVE CallInv'
  OBVIOUS
<1> USE DEF CallInv, Evasions, Call
<1>1. CASE HostDiscovery
  BY <1>1 DEF HostDiscovery, inputs
<1>2. CASE QuickScan
  BY <1>2 DEF QuickScan, inputs
<1>3. CASE FullSweep
  BY <1>3 DEF FullSweep, inputs
<1>4. CASE UdpScan
  BY <1>4 DEF UdpScan, inputs
<1>5. CASE AckScan
  BY <1>5, AckCall DEF AckScan, inputs
<1>6. CASE EvasionBranch
  BY <1>6 DEF EvasionBranch, worthEvading, inputs
<1>7. CASE Evade
  BY <1>7, EvadeCall DEF Evade, evasionCall, evasionPorts, inputs
<1>8. CASE FoldRevealed
  BY <1>8 DEF FoldRevealed, inputs
<1>9. CASE DeepScan
  BY <1>9 DEF DeepScan, inputs
<1>10. CASE SkipDeepScan
  BY <1>10 DEF SkipDeepScan, inputs
<1>11. CASE VulnScan
  BY <1>11 DEF VulnScan, inputs
<1>12. CASE HtmlReports
  BY <1>12 DEF HtmlReports, inputs
<1>13. CASE UNCHANGED vars
  BY <1>13 DEF vars, inputs
<1> QED
  BY <1>1, <1>2, <1>3, <1>4, <1>5, <1>6, <1>7,
     <1>8, <1>9, <1>10, <1>11, <1>12, <1>13 DEF Next

-----------------------------------------------------------------------------
(* Flags and port lists. *)

LEMMA FlagsInit == Init => FlagsFit
BY DEF Init, FlagsFit, NoCall

LEMMA FlagsStep == Shapes /\ CallInv /\ EvadeInv /\ FlagsFit /\ [Next]_vars => FlagsFit'
<1> SUFFICES ASSUME Shapes, CallInv, EvadeInv, FlagsFit, [Next]_vars PROVE FlagsFit'
  OBVIOUS
<1> USE DEF CallInv, EvadeInv, FlagsFit, Call, RawSteps, Evasions
<1>1. CASE HostDiscovery
  BY <1>1 DEF HostDiscovery, inputs
<1>2. CASE QuickScan
  BY <1>2 DEF QuickScan, inputs
<1>3. CASE FullSweep
  BY <1>3 DEF FullSweep, inputs
<1>4. CASE UdpScan
  BY <1>4 DEF UdpScan, inputs
<1>5. CASE AckScan
  BY <1>5, AckCall DEF AckScan, inputs
<1>6. CASE EvasionBranch
  BY <1>6 DEF EvasionBranch, worthEvading, inputs
<1>7. CASE Evade
  BY <1>7, EvadeCall DEF Evade, Shapes, evasionCall, evasionPorts, inputs
<1>8. CASE FoldRevealed
  BY <1>8 DEF FoldRevealed, inputs
<1>9. CASE DeepScan
  BY <1>9 DEF DeepScan, inputs
<1>10. CASE SkipDeepScan
  BY <1>10 DEF SkipDeepScan, inputs
<1>11. CASE VulnScan
  BY <1>11 DEF VulnScan, inputs
<1>12. CASE HtmlReports
  BY <1>12 DEF HtmlReports, inputs
<1>13. CASE UNCHANGED vars
  BY <1>13 DEF vars, inputs
<1> QED
  BY <1>1, <1>2, <1>3, <1>4, <1>5, <1>6, <1>7,
     <1>8, <1>9, <1>10, <1>11, <1>12, <1>13 DEF Next

LEMMA PortListsInit == Init => PortListsFit
BY DEF Init, PortListsFit, NoCall, Evasions

LEMMA PortListsStep == Shapes /\ CallInv /\ EvadeInv /\ PortListsFit /\ [Next]_vars => PortListsFit'
<1> SUFFICES ASSUME Shapes, CallInv, EvadeInv, PortListsFit, [Next]_vars PROVE PortListsFit'
  OBVIOUS
<1> USE DEF CallInv, EvadeInv, PortListsFit, Call, Evasions
<1>1. CASE HostDiscovery
  BY <1>1 DEF HostDiscovery, inputs
<1>2. CASE QuickScan
  BY <1>2 DEF QuickScan, inputs
<1>3. CASE FullSweep
  BY <1>3 DEF FullSweep, inputs
<1>4. CASE UdpScan
  BY <1>4 DEF UdpScan, inputs
<1>5. CASE AckScan
  BY <1>5, AckCall DEF AckScan, inputs
<1>6. CASE EvasionBranch
  BY <1>6 DEF EvasionBranch, worthEvading, inputs
<1>7. CASE Evade
  BY <1>7, EvadeCall DEF Evade, evasionCall, evasionPorts, inputs
<1>8. CASE FoldRevealed
  BY <1>8 DEF FoldRevealed, inputs
<1>9. CASE DeepScan
  BY <1>9 DEF DeepScan, inputs
<1>10. CASE SkipDeepScan
  BY <1>10 DEF SkipDeepScan, inputs
<1>11. CASE VulnScan
  BY <1>11 DEF VulnScan, inputs
<1>12. CASE HtmlReports
  BY <1>12 DEF HtmlReports, inputs
<1>13. CASE UNCHANGED vars
  BY <1>13 DEF vars, inputs
<1> QED
  BY <1>1, <1>2, <1>3, <1>4, <1>5, <1>6, <1>7,
     <1>8, <1>9, <1>10, <1>11, <1>12, <1>13 DEF Next

-----------------------------------------------------------------------------
(* What the open ports of the summary are, in a folder without older files. *)

\* Revealed ports were filtered, and are open once folded in.
RevealedInv ==
    /\ RevealedWereFiltered
    /\ pc \in {"discovery", "quick", "sweep", "udp", "ack", "evasion_branch"} => revealed = {}
    /\ pc # "evade" => revealed \subseteq open

\* The ports seen open are those in the summary, or about to be.
SeenInv ==
    /\ pc \in {"discovery", "quick"} => open = {} /\ seen = {}
    /\ pc \in {"discovery", "quick", "sweep", "udp"} => udpOpen = {}
    /\ pc # "done" => ~aborted
    /\ ~aborted => seen = open \cup udpOpen \cup revealed

LEMMA RevealedInit == Init => RevealedInv
BY DEF Init, RevealedInv, RevealedWereFiltered

LEMMA RevealedStep == ~Leftovers /\ EvadeInv /\ RevealedInv /\ [Next]_vars => RevealedInv'
<1> SUFFICES ASSUME ~Leftovers, EvadeInv, RevealedInv, [Next]_vars PROVE RevealedInv'
  OBVIOUS
<1> USE DEF EvadeInv, RevealedInv, RevealedWereFiltered
<1>1. CASE HostDiscovery
  BY <1>1 DEF HostDiscovery, inputs
<1>2. CASE QuickScan
  BY <1>2 DEF QuickScan, inputs
<1>3. CASE FullSweep
  BY <1>3 DEF FullSweep, inputs
<1>4. CASE UdpScan
  BY <1>4 DEF UdpScan, inputs
<1>5. CASE AckScan
  BY <1>5 DEF AckScan, inputs
<1>6. CASE EvasionBranch
  BY <1>6 DEF EvasionBranch, worthEvading, inputs
<1>7. CASE Evade
  BY <1>7, ListsItsPorts DEF Evade, evasionCall, evasionPorts, inputs, TcpScan
<1>8. CASE FoldRevealed
  BY <1>8 DEF FoldRevealed, inputs
<1>9. CASE DeepScan
  BY <1>9 DEF DeepScan, inputs
<1>10. CASE SkipDeepScan
  BY <1>10 DEF SkipDeepScan, inputs
<1>11. CASE VulnScan
  BY <1>11 DEF VulnScan, inputs
<1>12. CASE HtmlReports
  BY <1>12 DEF HtmlReports, inputs
<1>13. CASE UNCHANGED vars
  BY <1>13 DEF vars, inputs
<1> QED
  BY <1>1, <1>2, <1>3, <1>4, <1>5, <1>6, <1>7,
     <1>8, <1>9, <1>10, <1>11, <1>12, <1>13 DEF Next

LEMMA SeenInit == Init => SeenInv
BY DEF Init, SeenInv

LEMMA SeenStep == ~Leftovers /\ Shapes /\ EvadeInv /\ RevealedInv /\ SeenInv /\ [Next]_vars => SeenInv'
<1> SUFFICES ASSUME ~Leftovers, Shapes, EvadeInv, RevealedInv, SeenInv, [Next]_vars PROVE SeenInv'
  OBVIOUS
<1> USE DEF EvadeInv, RevealedInv, SeenInv, Seen
<1>1. CASE HostDiscovery
  BY <1>1, ListsItsPorts DEF HostDiscovery, inputs, TcpScan
<1>2. CASE QuickScan
  BY <1>2, ListsItsPorts DEF QuickScan, inputs, TcpScan
<1>3. CASE FullSweep
  BY <1>3, ListsItsPorts DEF FullSweep, inputs, TcpScan
<1>4. CASE UdpScan
  BY <1>4, ListsItsPorts DEF UdpScan, inputs, TcpScan
<1>5. CASE AckScan
  BY <1>5 DEF AckScan, inputs
<1>6. CASE EvasionBranch
  BY <1>6 DEF EvasionBranch, worthEvading, inputs
<1>7. CASE Evade
  BY <1>7, ListsItsPorts DEF Evade, evasionCall, evasionPorts, inputs, TcpScan
<1>8. CASE FoldRevealed
  BY <1>8 DEF FoldRevealed, inputs
<1>9. CASE DeepScan
  BY <1>9, ListsItsPorts DEF DeepScan, inputs, TcpScan
<1>10. CASE SkipDeepScan
  BY <1>10 DEF SkipDeepScan, inputs
<1>11. CASE VulnScan
  BY <1>11 DEF VulnScan, inputs
<1>12. CASE HtmlReports
  BY <1>12 DEF HtmlReports, inputs
<1>13. CASE UNCHANGED vars
  BY <1>13 DEF vars, inputs
<1> QED
  BY <1>1, <1>2, <1>3, <1>4, <1>5, <1>6, <1>7,
     <1>8, <1>9, <1>10, <1>11, <1>12, <1>13 DEF Next

-----------------------------------------------------------------------------
(* Types, and the service-name map. *)

\* TypeOK, less what Shapes says.
WordType ==
    /\ pc \in {"discovery", "quick", "sweep", "udp", "ack", "evasion_branch", "evade",
               "deep", "vuln", "html", "done"}
    /\ evasion \in {"undecided", "escalating", "IPv4-only", "requires root",
                    "no firewall signal"}
    /\ config \in Configs
    /\ firewall \in BOOLEAN /\ aborted \in BOOLEAN

PortType ==
    /\ baseline \subseteq TcpPorts
    /\ udpOpen \subseteq UdpPorts /\ udpMaybe \subseteq UdpPorts
    /\ services \subseteq TcpPorts \cup UdpPorts
    /\ seen \subseteq TcpPorts \cup UdpPorts

Steps == {"none", "discovery", "quick", "sweep", "deep", "vuln"} \cup RawSteps

CallType ==
    call \in [step : Steps, pn : BOOLEAN, six : BOOLEAN,
              ports : SUBSET (TcpPorts \cup UdpPorts)]

LEMMA WordInit == Init => WordType
BY DEF Init, WordType

LEMMA WordStep == WordType /\ [Next]_vars => WordType'
<1> SUFFICES ASSUME WordType, [Next]_vars PROVE WordType'
  OBVIOUS
<1> USE DEF WordType
<1>1. CASE HostDiscovery
  BY <1>1 DEF HostDiscovery, inputs
<1>2. CASE QuickScan
  BY <1>2 DEF QuickScan, inputs
<1>3. CASE FullSweep
  BY <1>3 DEF FullSweep, inputs
<1>4. CASE UdpScan
  BY <1>4 DEF UdpScan, inputs
<1>5. CASE AckScan
  BY <1>5 DEF AckScan, inputs
<1>6. CASE EvasionBranch
  BY <1>6 DEF EvasionBranch, inputs
<1>7. CASE Evade
  BY <1>7 DEF Evade, inputs
<1>8. CASE FoldRevealed
  BY <1>8 DEF FoldRevealed, inputs
<1>9. CASE DeepScan
  BY <1>9 DEF DeepScan, inputs
<1>10. CASE SkipDeepScan
  BY <1>10 DEF SkipDeepScan, inputs
<1>11. CASE VulnScan
  BY <1>11 DEF VulnScan, inputs
<1>12. CASE HtmlReports
  BY <1>12 DEF HtmlReports, inputs
<1>13. CASE UNCHANGED vars
  BY <1>13 DEF vars, inputs
<1> QED
  BY <1>1, <1>2, <1>3, <1>4, <1>5, <1>6, <1>7,
     <1>8, <1>9, <1>10, <1>11, <1>12, <1>13 DEF Next

LEMMA PortInit == Init => PortType
BY DEF Init, PortType

LEMMA PortStep == Shapes /\ PortType /\ [Next]_vars => PortType'
<1> SUFFICES ASSUME Shapes, PortType, [Next]_vars PROVE PortType'
  OBVIOUS
<1> USE DEF PortType
<1>1. CASE HostDiscovery
  BY <1>1 DEF HostDiscovery, inputs
<1>2. CASE QuickScan
  BY <1>2, ListsKnownPorts DEF QuickScan, inputs, TcpScan, Seen
<1>3. CASE FullSweep
  BY <1>3, ListsKnownPorts DEF FullSweep, inputs, TcpScan, Seen
<1>4. CASE UdpScan
  BY <1>4, ListsKnownPorts DEF UdpScan, inputs, Seen
<1>5. CASE AckScan
  BY <1>5 DEF AckScan, inputs
<1>6. CASE EvasionBranch
  BY <1>6 DEF EvasionBranch, inputs, Shapes
<1>7. CASE Evade
  BY <1>7, ListsKnownPorts DEF Evade, inputs, Shapes, TcpScan, Seen, evasionCall, evasionPorts
<1>8. CASE FoldRevealed
  BY <1>8 DEF FoldRevealed, inputs
<1>9. CASE DeepScan
  BY <1>9, ListsKnownPorts DEF DeepScan, inputs, Shapes, TcpScan, Seen
<1>10. CASE SkipDeepScan
  BY <1>10 DEF SkipDeepScan, inputs
<1>11. CASE VulnScan
  BY <1>11 DEF VulnScan, inputs
<1>12. CASE HtmlReports
  BY <1>12 DEF HtmlReports, inputs
<1>13. CASE UNCHANGED vars
  BY <1>13 DEF vars, inputs
<1> QED
  BY <1>1, <1>2, <1>3, <1>4, <1>5, <1>6, <1>7,
     <1>8, <1>9, <1>10, <1>11, <1>12, <1>13 DEF Next

\* What Call makes has the type; so has a technique's call.
LEMMA CallFits ==
    ASSUME Shapes, NEW s \in Steps, NEW P \in SUBSET (TcpPorts \cup UdpPorts), Call(s, P)
    PROVE  CallType'
BY DEF Shapes, Call, CallType

LEMMA EvadeCallFits == Shapes /\ Evade => CallType'
<1> SUFFICES ASSUME Shapes, Evade PROVE CallType'
  OBVIOUS
<1>1. Head(todo) \in Evasions
  BY DEF Shapes, Evade
<1>2. call' = [step |-> Head(todo), pn |-> forcePn, six |-> FALSE, ports |-> filtered]
  BY DEF Evade, evasionCall, evasionPorts
<1>3. Head(todo) \in Steps /\ filtered \in SUBSET (TcpPorts \cup UdpPorts)
  BY <1>1 DEF Steps, RawSteps, Shapes
<1> QED
  BY <1>2, <1>3 DEF CallType, Shapes

LEMMA CallTypeInit == Init => CallType
BY DEF Init, CallType, NoCall, Steps

LEMMA CallTypeStep == Shapes /\ CallType /\ [Next]_vars => CallType'
<1> SUFFICES ASSUME Shapes, CallType, [Next]_vars PROVE CallType'
  OBVIOUS
<1>1. CASE UNCHANGED call
  BY <1>1 DEF CallType
<1>2. ASSUME NEW s \in {"discovery", "quick", "sweep", "udp", "ack", "deep", "vuln"},
             NEW P \in {{}, TcpPorts, UdpPorts, open}, Call(s, P)
      PROVE  CallType'
  <2>1. s \in Steps /\ P \in SUBSET (TcpPorts \cup UdpPorts)
    BY DEF Steps, RawSteps, Shapes
  <2> QED
    BY <1>2, <2>1, CallFits
<1>3. CASE HostDiscovery
  <2>1. Call("discovery", {})
    BY <1>3 DEF HostDiscovery
  <2> QED
    BY <1>2, <2>1
<1>4. CASE QuickScan
  <2>1. Call("quick", TcpPorts)
    BY <1>4 DEF QuickScan
  <2> QED
    BY <1>2, <2>1
<1>5. CASE FullSweep
  <2>1. Call("sweep", TcpPorts)
    BY <1>5 DEF FullSweep
  <2> QED
    BY <1>2, <2>1
<1>6. CASE UdpScan
  <2>1. Call("udp", UdpPorts) \/ UNCHANGED call
    BY <1>6 DEF UdpScan
  <2> QED
    BY <1>1, <1>2, <2>1
<1>7. CASE AckScan
  <2>1. Call("ack", TcpPorts) \/ UNCHANGED call
    BY <1>7, Zenon DEF AckScan
  <2> QED
    BY <1>1, <1>2, <2>1
<1>8. CASE Evade
  BY <1>8, EvadeCallFits
<1>9. CASE DeepScan
  <2>1. Call("deep", open)
    BY <1>9 DEF DeepScan
  <2> QED
    BY <1>2, <2>1
<1>10. CASE VulnScan
  <2>1. Call("vuln", open)
    BY <1>10 DEF VulnScan
  <2> QED
    BY <1>2, <2>1
<1>11. CASE EvasionBranch \/ FoldRevealed \/ SkipDeepScan \/ HtmlReports \/ UNCHANGED vars
  <2>1. UNCHANGED call
    BY <1>11 DEF EvasionBranch, FoldRevealed, SkipDeepScan, HtmlReports, vars
  <2> QED
    BY <1>1, <2>1
<1> QED
  BY <1>3, <1>4, <1>5, <1>6, <1>7, <1>8, <1>9, <1>10, <1>11 DEF Next

\* Names are kept for listed ports only; before the UDP scan that is open_tcp.
ServicesInv ==
    /\ services \subseteq open \cup udpOpen \cup udpMaybe
    /\ pc \in {"discovery", "quick", "sweep", "udp"} => services \subseteq open

LEMMA ServicesInit == Init => ServicesInv
BY DEF Init, ServicesInv

LEMMA ServicesStep == ~Leftovers /\ ServicesInv /\ [Next]_vars => ServicesInv'
<1> SUFFICES ASSUME ~Leftovers, ServicesInv, [Next]_vars PROVE ServicesInv'
  OBVIOUS
<1> USE DEF ServicesInv
<1>1. CASE HostDiscovery
  BY <1>1 DEF HostDiscovery, inputs
<1>2. CASE QuickScan
  BY <1>2, ListsItsPorts DEF QuickScan, inputs, TcpScan
<1>3. CASE FullSweep
  BY <1>3, ListsItsPorts DEF FullSweep, inputs, TcpScan
<1>4. CASE UdpScan
  BY <1>4, ListsItsPorts DEF UdpScan, inputs, TcpScan
<1>5. CASE AckScan
  BY <1>5 DEF AckScan, inputs
<1>6. CASE EvasionBranch
  BY <1>6 DEF EvasionBranch, inputs
<1>7. CASE Evade
  BY <1>7 DEF Evade, inputs
<1>8. CASE FoldRevealed
  BY <1>8 DEF FoldRevealed, inputs
<1>9. CASE DeepScan
  BY <1>9, ListsItsPorts DEF DeepScan, inputs, TcpScan
<1>10. CASE SkipDeepScan
  BY <1>10 DEF SkipDeepScan, inputs
<1>11. CASE VulnScan
  BY <1>11 DEF VulnScan, inputs
<1>12. CASE HtmlReports
  BY <1>12 DEF HtmlReports, inputs
<1>13. CASE UNCHANGED vars
  BY <1>13 DEF vars, inputs
<1> QED
  BY <1>1, <1>2, <1>3, <1>4, <1>5, <1>6, <1>7,
     <1>8, <1>9, <1>10, <1>11, <1>12, <1>13 DEF Next

-----------------------------------------------------------------------------
(* The theorems. *)

IInv == Shapes /\ EvadeInv /\ CallInv /\ FlagsFit /\ PortListsFit

LEMMA InductiveInvariant == Spec => []IInv
<1>1. Init => IInv
  BY ShapesInit, EvadeInit, CallInit, FlagsInit, PortListsInit DEF IInv
<1>2. IInv /\ [Next]_vars => IInv'
  BY ShapesStep, EvadeStep, CallStep, FlagsStep, PortListsStep DEF IInv
<1> QED
  BY <1>1, <1>2, PTL DEF Spec

\* The variables of the scan keep their types, whatever any nmap reports.
THEOREM TypeCorrect == Spec => []TypeOK
<1> DEFINE I == Shapes /\ WordType /\ PortType /\ CallType
<1>1. Init => I
  BY ShapesInit, WordInit, PortInit, CallTypeInit
<1>2. I /\ [Next]_vars => I'
  BY ShapesStep, WordStep, PortStep, CallTypeStep
<1>3. I => TypeOK
  BY DEF Shapes, WordType, PortType, CallType, Steps, TypeOK
<1> QED
  BY <1>1, <1>2, <1>3, PTL DEF Spec

\* Every scan after discovery carries -Pn and -6 when it must and only then,
\* the evasion scans included, and only root sends raw packets.
THEOREM FlagsCorrect == Spec => []FlagsFit
BY InductiveInvariant, PTL DEF IInv

\* Evasion always has filtered, not yet open ports to go against; deep and
\* vulnerability scan always cover all open ports.
THEOREM PortListsCorrect == Spec => []PortListsFit
BY InductiveInvariant, PTL DEF IInv

\* Without files of an earlier run, evasion only claims ports that were
\* filtered and not open before it.
THEOREM RevealedCorrect ==
    ASSUME ~Leftovers PROVE Spec => []RevealedWereFiltered
<1>1. IInv /\ RevealedInv /\ [Next]_vars => RevealedInv'
  BY RevealedStep DEF IInv
<1>2. RevealedInv => RevealedWereFiltered
  BY DEF RevealedInv
<1> QED
  BY <1>1, <1>2, RevealedInit, InductiveInvariant, PTL DEF Spec

\* Without files of an earlier run, service-enum is told of no service on a port
\* the summary does not list.
THEOREM ServicesCorrect ==
    ASSUME ~Leftovers PROVE Spec => []ServicesOfListedPorts
<1>1. ServicesInv /\ [Next]_vars => ServicesInv'
  BY ServicesStep
<1>2. ServicesInv => ServicesOfListedPorts
  BY DEF ServicesInv, ServicesOfListedPorts
<1> QED
  BY <1>1, <1>2, ServicesInit, PTL DEF Spec

\* Without files of an earlier run, the summary's open ports are those some
\* nmap of this run reported open, no more and no less.
THEOREM SummaryExact ==
    ASSUME ~Leftovers PROVE Spec => []OpenPortsExact
<1> DEFINE I == RevealedInv /\ SeenInv
<1>1. Init => I
  BY RevealedInit, SeenInit
<1>2. IInv /\ I /\ [Next]_vars => I'
  BY RevealedStep, SeenStep DEF IInv
<1>3. I => OpenPortsExact
  BY DEF RevealedInv, SeenInv, OpenPortsExact
<1> QED
  BY <1>1, <1>2, <1>3, InductiveInvariant, PTL DEF Spec

-----------------------------------------------------------------------------
(* The full sweep: arithmetic of the cut. *)

LEMMA DivBounds ==
    ASSUME NEW a \in Int, NEW n \in Nat \ {0}
    PROVE  /\ a \div n \in Int
           /\ (a \div n) * n <= a
           /\ a < (a \div n) * n + n
OBVIOUS

LEMMA TimesMonotonic ==
    ASSUME NEW a \in Int, NEW b \in Int, NEW c \in Nat, a <= b
    PROVE  a * c <= b * c
OBVIOUS

LEMMA NType == N \in Nat \ {0}
BY SweepAssumption DEF N

\* Chunks are not empty, and N of them cover every port.
LEMMA ChunkSizeCovers == ChunkSize \in Nat \ {0} /\ TotalPorts <= N * ChunkSize
<1> DEFINE q == (-TotalPorts) \div N
<1>1. q \in Int /\ q * N <= -TotalPorts /\ -TotalPorts < q * N + N
  BY NType, DivBounds, SweepAssumption
<1> HIDE DEF q
<1>2. N * (-q) = -(q * N)
  BY <1>1, NType
<1>3. TotalPorts <= N * (-q)
  BY <1>1, <1>2, SweepAssumption, NType
<1>4. -q > 0
  <2> SUFFICES ASSUME -q <= 0 PROVE FALSE
    BY <1>1
  <2>1. (-q) * N <= 0 * N
    BY <1>1, NType, TimesMonotonic
  <2> QED
    BY <2>1, <1>1, <1>3, NType, SweepAssumption
<1> QED
  BY <1>1, <1>3, <1>4 DEF ChunkSize, q

\* N chunks fit in the budget, or get no more than the minimum each.
LEMMA TimeoutFits ==
    /\ PerChunkTimeout \in Nat
    /\ PerChunkTimeout * N <= Budget \/ PerChunkTimeout = MinTimeout
<1> DEFINE q == Budget \div N
<1>1. q \in Int /\ q * N <= Budget /\ Budget < q * N + N
  BY NType, DivBounds, SweepAssumption
<1>2. PerChunkTimeout = IF q > MinTimeout THEN q ELSE MinTimeout
  BY DEF PerChunkTimeout
<1> HIDE DEF q
<1>3. PerChunkTimeout \in Nat
  BY <1>1, <1>2, SweepAssumption
<1> QED
  BY <1>1, <1>2, <1>3

-----------------------------------------------------------------------------
(* The inductive invariant. *)

\* While there are ports left, the next chunk starts where idx full chunks end;
\* that is what bounds idx, and idx bounds the time.
SweepInv ==
    /\ SweepTypeOK
    /\ running /\ start <= TotalPorts => start = idx * ChunkSize + 1
    /\ ChunkCountBounded
    /\ spent <= idx * PerChunkTimeout
    /\ NoPortSkipped
    /\ ~running => start = TotalPorts + 1 \/ noted > 0
    /\ running => noted = 0
    /\ running => scanned = 1..(start - 1)
    /\ ~running => scanned = 1..((IF noted > 0 THEN noted ELSE TotalPorts + 1) - 1)

LEMMA SweepStart == SweepInit => SweepInv
<1> SUFFICES ASSUME SweepInit PROVE SweepInv
  OBVIOUS
<1>1. 0 * ChunkSize = 0 /\ 0 * PerChunkTimeout = 0
  BY ChunkSizeCovers, TimeoutFits
<1> QED
  BY <1>1, SweepAssumption, NType
     DEF SweepInit, SweepInv, SweepTypeOK, ChunkCountBounded, NoPortSkipped

\* The last port of a chunk, and what the next one knows.
LEMMA EndFacts ==
    ASSUME SweepInv, running, start <= TotalPorts
    PROVE  /\ End \in start..TotalPorts
           /\ idx + 1 <= N
           /\ End < TotalPorts => End + 1 = (idx + 1) * ChunkSize + 1
<1> USE DEF SweepInv, SweepTypeOK
<1>1. ChunkSize \in Nat \ {0} /\ TotalPorts <= N * ChunkSize
  BY ChunkSizeCovers
<1>2. End \in start..TotalPorts
  BY <1>1, SweepAssumption DEF End
<1>3. idx * ChunkSize \in Int /\ start = idx * ChunkSize + 1
  BY <1>1
<1>4. (idx + 1) * ChunkSize = idx * ChunkSize + ChunkSize
  BY <1>1
<1>5. idx + 1 <= N
  <2> SUFFICES ASSUME N <= idx PROVE FALSE
    BY NType
  <2>1. N * ChunkSize <= idx * ChunkSize
    BY <1>1, NType, TimesMonotonic
  <2> QED
    BY <2>1, <1>1, <1>3, NType, SweepAssumption
<1> QED
  BY <1>1, <1>2, <1>3, <1>4, <1>5, SweepAssumption DEF End

LEMMA SweepStep == SweepInv /\ [SweepNext]_sweep_vars => SweepInv'
<1> SUFFICES ASSUME SweepInv, [SweepNext]_sweep_vars PROVE SweepInv'
  OBVIOUS
<1> USE DEF SweepInv, SweepTypeOK
<1>1. PerChunkTimeout \in Nat
  BY TimeoutFits
<1>2. (idx + 1) * PerChunkTimeout = idx * PerChunkTimeout + PerChunkTimeout
      /\ idx * PerChunkTimeout \in Nat
  BY <1>1
<1>3. CASE ChunkDone
  <2>1. /\ End \in start..TotalPorts
        /\ idx + 1 <= N
        /\ End < TotalPorts => End + 1 = (idx + 1) * ChunkSize + 1
    BY <1>3, EndFacts DEF ChunkDone
  <2>2. spent' \in Nat /\ spent' <= idx' * PerChunkTimeout
    BY <1>1, <1>2, <1>3 DEF ChunkDone
  <2>3. start' \in 1..(TotalPorts + 1) /\ idx' \in Nat /\ idx' <= N
    BY <2>1, <1>3, SweepAssumption DEF ChunkDone
  <2>4. found' \subseteq OpenPorts /\ failed' \subseteq 1..TotalPorts /\ scanned' = 1..(start' - 1)
    BY <2>1, <1>3, SweepAssumption DEF ChunkDone
  <2>5. NoPortSkipped'
    BY <2>1, <1>3, SweepAssumption DEF ChunkDone, NoPortSkipped
  <2> QED
    BY <2>1, <2>2, <2>3, <2>4, <2>5, <1>3, SweepAssumption
       DEF ChunkDone, ChunkCountBounded
<1>4. CASE ChunkFailed
  <2>1. /\ End \in start..TotalPorts
        /\ idx + 1 <= N
        /\ End < TotalPorts => End + 1 = (idx + 1) * ChunkSize + 1
    BY <1>4, EndFacts DEF ChunkFailed
  <2>2. spent' \in Nat /\ spent' <= idx' * PerChunkTimeout
    BY <1>1, <1>2, <1>4 DEF ChunkFailed
  <2>3. start' \in 1..(TotalPorts + 1) /\ idx' \in Nat /\ idx' <= N
    BY <2>1, <1>4, SweepAssumption DEF ChunkFailed
  <2>4. found' \subseteq OpenPorts /\ failed' \subseteq 1..TotalPorts /\ scanned' = 1..(start' - 1)
    BY <2>1, <1>4, SweepAssumption DEF ChunkFailed
  <2>5. NoPortSkipped'
    BY <2>1, <1>4, SweepAssumption DEF ChunkFailed, NoPortSkipped
  <2> QED
    BY <2>1, <2>2, <2>3, <2>4, <2>5, <1>4, SweepAssumption
       DEF ChunkFailed, ChunkCountBounded
<1>5. CASE ChunkTimedOut
  <2>1. End \in start..TotalPorts /\ idx + 1 <= N
    BY <1>5, EndFacts DEF ChunkTimedOut
  <2>2. spent' \in Nat /\ spent' <= idx' * PerChunkTimeout
    BY <1>1, <1>2, <1>5 DEF ChunkTimedOut
  <2>3. noted' \in 0..(TotalPorts + 1) /\ start' < noted' /\ noted' > 0
    BY <2>1, <1>5, SweepAssumption DEF ChunkTimedOut
  <2>4. /\ running' = FALSE /\ UNCHANGED <<start, failed>>
        /\ found \subseteq found' /\ found' \subseteq OpenPorts
        /\ scanned' = 1..(noted' - 1) /\ scanned' \subseteq 1..TotalPorts
    BY <2>1, <1>5, SweepAssumption DEF ChunkTimedOut
  <2>5. NoPortSkipped'
    BY <2>3, <2>4 DEF NoPortSkipped
  <2>6. idx' \in Nat /\ ChunkCountBounded'
    BY <2>1, <1>5 DEF ChunkTimedOut, ChunkCountBounded
  <2> QED
    BY <2>2, <2>3, <2>4, <2>5, <2>6
<1>6. CASE SweepOver
  <2>1. running' = FALSE /\ UNCHANGED <<start, idx, found, failed, scanned, noted, spent>>
    BY <1>6 DEF SweepOver
  <2>2. start' = TotalPorts + 1
    BY <1>6, SweepAssumption DEF SweepOver
  <2>3. NoPortSkipped' /\ ChunkCountBounded' /\ spent' <= idx' * PerChunkTimeout
    BY <2>1 DEF NoPortSkipped, ChunkCountBounded
  <2>4. running /\ noted' = 0 /\ scanned' = 1..((TotalPorts + 1) - 1)
    BY <2>1, <2>2, <1>6 DEF SweepOver
  <2>5. SweepTypeOK'
    BY <2>1
  <2>6. scanned' = 1..((IF noted' > 0 THEN noted' ELSE TotalPorts + 1) - 1)
    BY <2>4
  <2> QED
    BY <2>1, <2>2, <2>3, <2>5, <2>6
<1>7. CASE UNCHANGED sweep_vars
  BY <1>7 DEF sweep_vars, ChunkCountBounded, NoPortSkipped
<1> QED
  BY <1>3, <1>4, <1>5, <1>6, <1>7 DEF SweepNext

LEMMA SweepInvariant == SweepSpec => []SweepInv
BY SweepStart, SweepStep, PTL DEF SweepSpec

-----------------------------------------------------------------------------
(* The theorems. *)

\* The variables of the sweep keep their types, for any range and any split.
THEOREM SweepTypeCorrect == SweepSpec => []SweepTypeOK
BY SweepInvariant, PTL DEF SweepInv

\* However the ports are cut, an open port is missing from the result only if
\* its chunk failed, or the sweep was stopped and says from where on.
THEOREM NothingSilentlyLost == SweepSpec => []GapsAccountedFor
<1>1. SweepInv => GapsAccountedFor
  BY SweepAssumption DEF SweepInv, SweepTypeOK, NoPortSkipped, GapsAccountedFor
<1> QED
  BY <1>1, SweepInvariant, PTL

\* When a sweep is over, its record of what was left unscanned names every port no
\* nmap was started on, and no other (network_scan.py, _run_full_sweep).
THEOREM NoteCorrect == SweepSpec => []NoteIsExact
<1>1. SweepInv => NoteIsExact
  <2> SUFFICES ASSUME SweepInv, ~running PROVE NoteIsExact
    BY DEF NoteIsExact
  <2>1. CASE noted > 0
    BY <2>1, SweepAssumption DEF SweepInv, SweepTypeOK, NoteIsExact
  <2>2. CASE ~(noted > 0)
    BY <2>2, SweepAssumption DEF SweepInv, SweepTypeOK, NoteIsExact
  <2> QED
    BY <2>1, <2>2
<1> QED
  BY <1>1, SweepInvariant, PTL

\* Rounding up makes at most as many chunks as configured, and at least one.
THEOREM ChunksBounded == SweepSpec => []ChunkCountBounded
BY SweepInvariant, PTL DEF SweepInv

\* Chunking costs no more time than the one sweep it replaces, or than the
\* minimum of every chunk together where the budget is smaller than that.
THEOREM BudgetKept == SweepSpec => []WithinBudget
<1>1. SweepInv => WithinBudget
  <2> SUFFICES ASSUME SweepInv PROVE WithinBudget
    OBVIOUS
  <2>1. idx * PerChunkTimeout <= N * PerChunkTimeout
    BY NType, TimeoutFits, TimesMonotonic DEF SweepInv, SweepTypeOK, ChunkCountBounded
  <2>2. N * PerChunkTimeout = PerChunkTimeout * N
    BY NType, TimeoutFits
  <2>3. spent \in Nat /\ spent <= PerChunkTimeout * N
    BY <2>1, <2>2, TimeoutFits, NType DEF SweepInv, SweepTypeOK
  <2>4. PerChunkTimeout * N <= Budget \/ PerChunkTimeout * N = MinTimeout * N
    BY TimeoutFits
  <2> QED
    BY <2>3, <2>4, TimeoutFits, NType, SweepAssumption DEF WithinBudget
<1> QED
  BY <1>1, SweepInvariant, PTL

\* The ports of the chunk after the first i.
ChunkPorts(i) == {p \in 1..TotalPorts : i * ChunkSize < p /\ p <= (i + 1) * ChunkSize}

\* Every chunk that is scanned is one of N that have no port in common and leave
\* none out: what the report takes for granted when it joins their files
\* (network_scan.py, _run_full_sweep; report.py, _ports_source).
THEOREM ChunksPartition ==
    /\ SweepSpec => [](running /\ start <= TotalPorts => start..End = ChunkPorts(idx))
    /\ \A i, j \in Nat : i # j => ChunkPorts(i) \cap ChunkPorts(j) = {}
    /\ UNION {ChunkPorts(i) : i \in 0..N - 1} = 1..TotalPorts
<1>1. SweepInv => (running /\ start <= TotalPorts => start..End = ChunkPorts(idx))
  <2> SUFFICES ASSUME SweepInv, running, start <= TotalPorts
               PROVE  start..End = ChunkPorts(idx)
    OBVIOUS
  <2> DEFINE before == idx * ChunkSize
  <2>1. /\ start = before + 1 /\ before \in Int /\ start >= 1
        /\ (idx + 1) * ChunkSize = before + ChunkSize
        /\ ChunkSize \in Nat \ {0} /\ TotalPorts \in Nat \ {0}
    BY ChunkSizeCovers, SweepAssumption DEF SweepInv, SweepTypeOK
  <2>2. End = IF before + ChunkSize < TotalPorts THEN before + ChunkSize ELSE TotalPorts
    <3> HIDE DEF before
    <3> QED
      BY <2>1 DEF End
  <2>3. ChunkPorts(idx) = {p \in 1..TotalPorts : before < p /\ p <= before + ChunkSize}
    BY <2>1 DEF ChunkPorts
  <2> HIDE DEF before
  <2>4. End \in Int
    BY <2>1, <2>2
  <2>5. ASSUME NEW p \in Int
        PROVE  p \in start..End <=> p \in 1..TotalPorts /\ before < p /\ p <= before + ChunkSize
    <3>1. 0 <= before
      BY <2>1
    <3>2. p \in start..End <=> before < p /\ p <= End
      BY <2>1, <2>4
    <3> QED
      BY <2>1, <2>2, <3>1, <3>2
  <2>6. \A p \in start..End : p \in Int
    BY <2>1, <2>4
  <2> QED
    BY <2>3, <2>5, <2>6
<1>2. ASSUME NEW i \in Nat, NEW j \in Nat, i < j
      PROVE  ChunkPorts(i) \cap ChunkPorts(j) = {}
  <2>1. (i + 1) * ChunkSize <= j * ChunkSize
    BY <1>2, ChunkSizeCovers, TimesMonotonic
  <2> DEFINE above == (i + 1) * ChunkSize
             below == j * ChunkSize
  <2>2. above \in Int /\ below \in Int /\ above <= below
    BY <2>1, ChunkSizeCovers
  <2>3. /\ \A p \in ChunkPorts(i) : p \in Int /\ p <= above
        /\ \A p \in ChunkPorts(j) : p \in Int /\ below < p
    BY DEF ChunkPorts
  <2> HIDE DEF above, below
  <2> QED
    BY <2>2, <2>3
<1>3. \A i, j \in Nat : i # j => ChunkPorts(i) \cap ChunkPorts(j) = {}
  <2> SUFFICES ASSUME NEW i \in Nat, NEW j \in Nat, i # j
               PROVE  ChunkPorts(i) \cap ChunkPorts(j) = {}
    OBVIOUS
  <2>1. i < j \/ j < i
    OBVIOUS
  <2> QED
    BY <1>2, <2>1
<1>4. ASSUME NEW p \in 1..TotalPorts PROVE \E i \in 0..N - 1 : p \in ChunkPorts(i)
  <2> DEFINE i == (p - 1) \div ChunkSize
  <2>1. ChunkSize \in Nat \ {0} /\ TotalPorts <= N * ChunkSize /\ N \in Nat \ {0}
    BY ChunkSizeCovers, NType
  <2>2. i \in Int /\ i * ChunkSize <= p - 1 /\ p - 1 < i * ChunkSize + ChunkSize
    BY <2>1, DivBounds, SweepAssumption
  <2>3. (i + 1) * ChunkSize = i * ChunkSize + ChunkSize
    BY <2>1, <2>2
  <2> HIDE DEF i
  <2>4. i < N
    <3> SUFFICES ASSUME N <= i PROVE FALSE
      BY <2>1, <2>2
    <3>1. N * ChunkSize <= i * ChunkSize
      BY <2>1, <2>2, TimesMonotonic
    <3> QED
      BY <2>1, <2>2, <3>1, SweepAssumption
  <2>5. 0 <= i
    <3> SUFFICES ASSUME i + 1 <= 0 PROVE FALSE
      BY <2>2
    <3>1. (i + 1) * ChunkSize <= 0 * ChunkSize
      BY <2>1, <2>2, TimesMonotonic
    <3> QED
      BY <2>1, <2>2, <2>3, <3>1, SweepAssumption
  <2>6. i \in 0..N - 1
    BY <2>1, <2>2, <2>4, <2>5
  <2>7. p \in ChunkPorts(i)
    BY <2>1, <2>2, <2>3, SweepAssumption DEF ChunkPorts
  <2> QED
    BY <2>6, <2>7
<1>5. UNION {ChunkPorts(i) : i \in 0..N - 1} = 1..TotalPorts
  BY <1>4 DEF ChunkPorts
<1> QED
  BY <1>1, <1>3, <1>5, SweepInvariant, PTL

-----------------------------------------------------------------------------
(* The sweep as the decision tree sees it. *)

\* What the chunks come to, taken for one nmap over the whole range.
SweepResult ==
    [end  |-> IF noted > 0 THEN "timeout" ELSE IF failed # {} THEN "failed" ELSE "ok",
     scan |-> [open |-> found, filtered |-> {}],
     own  |-> TRUE]

SweepRefines ==
    ~running => /\ SweepResult \in TcpScan(TcpPorts)
                /\ SweepResult.end = "ok" => SweepResult.scan.open = OpenPorts

\* The chunks of _run_full_sweep are together one of the scans that the tree's
\* FullSweep step allows for, in whatever way each of them ends; and where none
\* failed and none timed out, that scan has every open port (network_scan.py,
\* _run_full_sweep and the place in run_network_scan that merges its ports).
THEOREM SweepIsOneScan ==
    ASSUME OpenPorts \subseteq TcpPorts
    PROVE  SweepSpec => []SweepRefines
<1>1. SweepInv => SweepRefines
  <2> SUFFICES ASSUME SweepInv, ~running PROVE SweepRefines
    BY DEF SweepRefines
  <2>1. found \subseteq TcpPorts
    BY DEF SweepInv, SweepTypeOK
  <2>2. [open |-> found, filtered |-> {}] \in Listings(TcpPorts)
    BY <2>1 DEF Listings
  <2>3. SweepResult \in [end : {"ok", "timeout", "failed"}, scan : Listings(TcpPorts), own : {TRUE}]
    BY <2>2 DEF SweepResult
  <2>4. ASSUME SweepResult.end = "ok" PROVE found = OpenPorts
    <3>1. ~(noted > 0) /\ failed = {}
      BY <2>4 DEF SweepResult
    <3>2. \A p \in OpenPorts \ found : p \in failed \/ (noted > 0 /\ p >= start)
      BY SweepAssumption DEF SweepInv, SweepTypeOK, NoPortSkipped
    <3> QED
      BY <3>1, <3>2 DEF SweepInv, SweepTypeOK
  <2> QED
    BY <2>3, <2>4 DEF SweepRefines, TcpScan, Nmap, SweepResult
<1> QED
  BY <1>1, SweepInvariant, PTL

=============================================================================
