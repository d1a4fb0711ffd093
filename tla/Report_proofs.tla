---------------------------- MODULE Report_proofs ----------------------------
(***************************************************************************)
(* The report for any split of the sweep, any ports and any evidence file:  *)
(* what is missing from its port table, and what is gone when the raw       *)
(* folders are.  And its findings, for any CVEs, scores and script outputs: *)
(* where a CVE is listed, and which the report leaves out.                  *)
(***************************************************************************)
EXTENDS Report, Findings, TLAPS, FiniteSetTheorems, SequenceTheorems

-----------------------------------------------------------------------------
(* The invariant, part by part. *)

\* What the network scan has left, which report generation does not change.
InputsInv ==
    /\ aborted \in BOOLEAN
    /\ \A i \in DOMAIN sweep : sweep[i] \in Scans(Ranges[i])
    /\ quick \in Scans(TcpPorts)
    /\ deepRan \in BOOLEAN /\ scanned \in Nat
    /\ deep \in Scans(IF deepRan THEN open_ports ELSE TcpPorts)
    /\ ~aborted => DOMAIN sweep = 1..Len(Ranges) /\ scanned <= Len(Ranges)
    /\ file \in Evidence

\* Where the context is known, it is the one of these inputs.
ContextInv ==
    at \in {"html", "pdf"} \/ pdf_ok =>
        /\ table = IF ports_source.listed # {} THEN ports_source.open ELSE open_ports \cup udp
        /\ note = (ports_source.listed = {} /\ open_ports \cup udp # {})
        /\ embedded = IF [in |-> file.in, kind |-> file.kind] \in shown THEN pre ELSE "no"

\* The order in which the report is written and the evidence removed.
OrderInv ==
    /\ at \in {"context", "html", "pdf", "cleanup", "over"}
    /\ pdf_ok => at \in {"cleanup", "over"} /\ html = "this run's" /\ pdf = "this run's"
    /\ at = "pdf" => html = "this run's"
    /\ there \/ pdf_ok

IInv == InputsInv /\ ContextInv /\ OrderInv

LEMMA InitIInv == Init => IInv
<1> SUFFICES ASSUME Init PROVE IInv
  OBVIOUS
<1>0. Len(Ranges) \in Nat /\ DOMAIN Ranges = 1..Len(Ranges)
  BY ReportAssumption, LenProperties
<1>1. DOMAIN sweep = DOMAIN Ranges /\ \A i \in DOMAIN sweep : sweep[i] \in Scans(Ranges[i])
  <2>1. sweep \in {s \in [DOMAIN Ranges -> Scans(TcpPorts)] :
                     \A i \in DOMAIN Ranges : s[i] \in Scans(Ranges[i])}
    BY DEF Init
  <2> QED
    BY <2>1
<1>2. scanned \in Nat /\ (~aborted => scanned <= Len(Ranges))
  <2>1. CASE aborted
    BY <2>1 DEF Init
  <2>2. CASE ~aborted
    BY <1>0, <2>2 DEF Init
  <2> QED
    BY <2>1, <2>2
<1>4. deepRan \in BOOLEAN /\ deep \in Scans(IF deepRan THEN open_ports ELSE TcpPorts)
  BY DEF Init
<1>3. InputsInv
  BY <1>0, <1>1, <1>2, <1>4 DEF Init, InputsInv
<1> QED
  BY <1>3 DEF Init, IInv, ContextInv, OrderInv

\* Nothing the port table is built from depends on the step.
LEMMA ContextStays ==
    ASSUME IInv, UNCHANGED inputs
    PROVE  InputsInv' /\ UNCHANGED <<open_ports, ports_source, pre>>
BY DEF IInv, InputsInv, inputs, open_ports, SweepOpen, Scanned, ports_source, Chunks, pre

LEMMA NextIInv == IInv /\ [Next]_vars => IInv'
<1> SUFFICES ASSUME IInv, [Next]_vars PROVE IInv'
  OBVIOUS
<1>1. UNCHANGED inputs
  BY DEF Next, BuildContext, RenderFails, WriteHtml, NoWeasyPrint, WritePdf, PdfOnly,
         vars, inputs
<1>2. InputsInv' /\ UNCHANGED <<open_ports, ports_source, pre>>
  BY <1>1, ContextStays
<1> USE DEF IInv, OrderInv, ContextInv
<1>3. CASE BuildContext
  BY <1>2, <1>3 DEF BuildContext, network_section, inputs, outputs, shown
<1>4. CASE RenderFails
  BY <1>2, <1>4 DEF RenderFails, inputs, context, outputs
<1>5. CASE WriteHtml
  BY <1>2, <1>5 DEF WriteHtml, inputs, context, shown
<1>6. CASE NoWeasyPrint
  BY <1>2, <1>6 DEF NoWeasyPrint, inputs, context, outputs
<1>7. CASE WritePdf
  <2>1. /\ UNCHANGED <<file, udp, table, note, embedded, html>>
        /\ at = "pdf" /\ at' = "cleanup"
    BY <1>7 DEF WritePdf, inputs, context
  <2>2. there' = there
    BY <1>7 DEF WritePdf
  <2>3. ~pdf_ok /\ there
    BY <2>1
  <2>4. \/ pdf' = "this run's" /\ pdf_ok'
        \/ ~pdf_ok'
    BY <1>7, <2>3 DEF WritePdf
  <2>5. OrderInv'
    BY <2>1, <2>2, <2>3, <2>4
  <2>6. ContextInv'
    BY <1>2, <2>1 DEF shown
  <2> QED
    BY <1>2, <2>5, <2>6
<1>8. CASE PdfOnly
  BY <1>2, <1>8 DEF PdfOnly, inputs, context, outputs, shown
<1>9. CASE UNCHANGED vars
  BY <1>2, <1>9 DEF vars, shown
<1> QED
  BY <1>3, <1>4, <1>5, <1>6, <1>7, <1>8, <1>9 DEF Next

LEMMA InductiveInvariant == Spec => []IInv
BY InitIInv, NextIInv, PTL DEF Spec

-----------------------------------------------------------------------------
(* The theorems. *)

\* A scan has open only what it lists, and nothing without an XML.
LEMMA ScanFacts ==
    ASSUME NEW P, NEW s \in Scans(P)
    PROVE  /\ s.xml \in {"absent", "unreadable", "read"}
           /\ s.open \subseteq s.listed /\ s.listed \subseteq P
           /\ s.xml # "read" => s.listed = {}
BY DEF Scans

\* Whatever was scanned: a counted port is missing from the report's table only for
\* the reasons the property lists, and the table has a port that is not counted only
\* of an aborted scan or from an earlier run's file.
THEOREM TableCorrect == Spec => []TableAccountedFor
<1>1. IInv => TableAccountedFor
  <2> SUFFICES ASSUME IInv, at \in {"html", "pdf"}
               PROVE  /\ \A p \in Summary \ table :
                           \/ p \in udp /\ ~note
                           \/ deep.xml = "read" /\ p \notin deep.open
                           \/ deep.xml = "absent" /\ p \notin SweepOpen
                      /\ \A p \in table \ Summary :
                           \/ aborted
                           \/ deep.xml = "read" /\ ~deepRan /\ p \in deep.open
                           \/ /\ deep.xml = "absent"
                              /\ \E i \in DOMAIN sweep : i > scanned /\ p \in sweep[i].open
                      /\ note => table = Summary
    BY DEF TableAccountedFor
  <2>1. /\ table = IF ports_source.listed # {} THEN ports_source.open ELSE Summary
        /\ note = (ports_source.listed = {} /\ Summary # {})
    BY DEF IInv, ContextInv, Summary
  <2>2. CASE ports_source.listed = {}
    BY <2>1, <2>2
  <2>3. CASE ports_source.listed # {}
    <3>1. table = ports_source.open /\ ~note
      BY <2>1, <2>3
    <3>2. /\ deep.xml \in {"absent", "unreadable", "read"}
          /\ deep.xml # "read" => deep.listed = {}
          /\ deepRan => deep.open \subseteq open_ports
      BY ScanFacts DEF IInv, InputsInv
    <3>3. \A i \in DOMAIN sweep : /\ sweep[i].xml \in {"absent", "unreadable", "read"}
                                  /\ sweep[i].open \subseteq sweep[i].listed
                                  /\ sweep[i].xml # "read" => sweep[i].listed = {}
      BY ScanFacts DEF IInv, InputsInv
    <3>4. CASE deep.xml # "absent"
      <4>1. ports_source = deep /\ deep.xml = "read"
        BY <2>3, <3>2, <3>4 DEF ports_source
      <4> QED
        BY <3>1, <3>2, <4>1 DEF Summary
    <3>5. CASE deep.xml = "absent" /\ Chunks # {}
      <4>1. table = SweepOpen
        BY <3>1, <3>5 DEF ports_source
      <4>2. ASSUME ~aborted, NEW p \in SweepOpen \ open_ports
            PROVE  \E i \in DOMAIN sweep : i > scanned /\ p \in sweep[i].open
        <5>1. PICK i \in DOMAIN sweep : p \in sweep[i].open
          BY DEF SweepOpen
        <5>2. DOMAIN sweep = 1..Len(Ranges) /\ scanned \in Nat /\ Len(Ranges) \in Nat
          BY <4>2, ReportAssumption, LenProperties DEF IInv, InputsInv
        <5>3. i \notin 1..scanned
          BY <4>2, <5>1 DEF open_ports, Scanned
        <5> QED
          BY <5>1, <5>2, <5>3
      <4> QED
        BY <3>1, <3>5, <4>1, <4>2 DEF Summary
    <3>6. CASE deep.xml = "absent" /\ Chunks = {}
      <4>1. table = quick.open
        BY <3>1, <3>6 DEF ports_source
      <4>2. SweepOpen = {}
        BY <3>3, <3>6 DEF Chunks, SweepOpen
      <4>3. ~aborted => quick.open \subseteq open_ports
        BY DEF open_ports
      <4> QED
        BY <3>1, <3>6, <4>1, <4>2, <4>3 DEF Summary
    <3> QED
      BY <3>4, <3>5, <3>6
  <2> QED
    BY <2>2, <2>3
<1> QED
  BY <1>1, InductiveInvariant, PTL

\* The evidence goes only when this run's report.html and report.pdf are both there.
THEOREM RemovalJustified == Spec => []RemovedOnlyWithReport
<1>1. IInv => RemovedOnlyWithReport
  BY DEF IInv, OrderInv, RemovedOnlyWithReport
<1> QED
  BY <1>1, InductiveInvariant, PTL

\* Any evidence file that is gone and not whole in the report is empty, cut, could not
\* be read, or is of a kind no section embeds.
THEOREM LossAccountedFor == Spec => []LostAccountedFor
<1>1. IInv => LostAccountedFor
  <2> SUFFICES ASSUME IInv, ~there, embedded # "whole", file.size \notin {"empty", "long"}
               PROVE  \/ ~file.readable
                      \/ file.kind \in {"xml", "gnmap", "json", "underscore", "html"}
                      \/ file.in = "network-scan" /\ file.kind = "txt"
    BY DEF LostAccountedFor
  <2>1. embedded = IF [in |-> file.in, kind |-> file.kind] \in shown THEN pre ELSE "no"
    BY DEF IInv, OrderInv, ContextInv
  <2>2. file.readable => pre = "whole"
    BY EvidenceAssumption DEF pre, IInv, InputsInv
  <2>3. file.readable => [in |-> file.in, kind |-> file.kind] \notin shown
    BY <2>1, <2>2
  <2>4. /\ file.in \in {"network-scan", "service-enum", "dns-recon", "web-recon", "osint"}
        /\ file.kind \in {"txt", "nmap", "xml", "gnmap", "json", "underscore", "html"}
        /\ file.kind = "nmap" => file.in \in {"network-scan", "service-enum"}
    BY EvidenceAssumption DEF IInv, InputsInv
  <2> QED
    BY <2>3, <2>4 DEF shown
<1> QED
  BY <1>1, InductiveInvariant, PTL

-----------------------------------------------------------------------------
(* The findings: lemmas about lists. *)

\* What is kept of a list has the kept places' members, none twice that was not.
LEMMA KeptFacts ==
    ASSUME NEW T, NEW list \in Seq(T), NEW S, S \subseteq DOMAIN list, NEW kept \in Kept(list, S)
    PROVE  /\ kept \in Seq(T)
           /\ in(kept) = {list[i] : i \in S}
           /\ (\A i, j \in DOMAIN list : list[i] = list[j] => i = j)
                => \A p, q \in DOMAIN kept : kept[p] = kept[q] => p = q
<1>1. PICK f \in Rising(S, Len(list)) : kept = [p \in DOMAIN f |-> list[f[p]]]
  BY DEF Kept
<1>2. PICK n \in 0..Len(list) : f \in [1..n -> S]
  BY <1>1 DEF Rising
<1>3. {f[p] : p \in 1..n} = S /\ \A p, q \in 1..n : p < q => f[p] < f[q]
  BY <1>1, <1>2 DEF Rising, in
<1>4. n \in Nat /\ DOMAIN kept = 1..n /\ \A p \in 1..n : kept[p] = list[f[p]] /\ f[p] \in S
  <2>1. Len(list) \in Nat
    BY LenProperties
  <2> QED
    BY <1>1, <1>2, <2>1
<1>5. \A i \in DOMAIN list : list[i] \in T /\ i \in Nat
  BY LenProperties, ElementOfSeq
<1>6. kept \in Seq(T)
  <2>1. kept \in [1..n -> T]
    BY <1>1, <1>2, <1>4, <1>5
  <2> QED
    BY <1>4, <2>1
<1>7. in(kept) = {list[i] : i \in S}
  <2>1. in(kept) = {list[f[p]] : p \in 1..n}
    BY <1>4 DEF in
  <2>2. \A i \in S : \E p \in 1..n : f[p] = i
    BY <1>3
  <2> QED
    BY <1>4, <2>1, <2>2
<1>8. ASSUME \A i, j \in DOMAIN list : list[i] = list[j] => i = j
      PROVE  \A p, q \in DOMAIN kept : kept[p] = kept[q] => p = q
  <2> SUFFICES ASSUME NEW p \in 1..n, NEW q \in 1..n, kept[p] = kept[q] PROVE p = q
    BY <1>4
  <2>1. f[p] = f[q] /\ f[p] \in Nat
    BY <1>4, <1>5, <1>8
  <2>2. ~(f[p] < f[q]) /\ ~(f[q] < f[p])
    BY <2>1
  <2>3. ~(p < q) /\ ~(q < p)
    BY <1>3, <2>2
  <2> QED
    BY <1>4, <2>3
<1> QED
  BY <1>6, <1>7, <1>8

\* The members of two lists one after the other.
LEMMA JoinedMembers ==
    ASSUME NEW T, NEW s \in Seq(T), NEW t \in Seq(T)
    PROVE  /\ s \o t \in Seq(T)
           /\ in(s \o t) = in(s) \cup in(t)
           /\ /\ \A i, j \in DOMAIN s : s[i] = s[j] => i = j
              /\ \A i, j \in DOMAIN t : t[i] = t[j] => i = j
              /\ in(s) \cap in(t) = {}
              => \A i, j \in DOMAIN (s \o t) : (s \o t)[i] = (s \o t)[j] => i = j
<1> DEFINE st == s \o t
<1>1. /\ st \in Seq(T) /\ Len(st) = Len(s) + Len(t)
      /\ \A i \in 1..Len(s) : st[i] = s[i]
      /\ \A i \in 1..Len(t) : st[Len(s) + i] = t[i]
      /\ \A i \in 1..Len(st) : st[i] = IF i <= Len(s) THEN s[i] ELSE t[i - Len(s)]
  BY ConcatProperties
<1>2. /\ Len(s) \in Nat /\ Len(t) \in Nat
      /\ DOMAIN s = 1..Len(s) /\ DOMAIN t = 1..Len(t) /\ DOMAIN st = 1..Len(st)
  BY <1>1, LenProperties
<1> HIDE DEF st
<1>3. \A i \in 1..Len(st) : \/ i \in 1..Len(s) /\ st[i] = s[i]
                            \/ i - Len(s) \in 1..Len(t) /\ st[i] = t[i - Len(s)]
  BY <1>1, <1>2
<1>4. in(st) = in(s) \cup in(t)
  <2>1. in(st) \subseteq in(s) \cup in(t)
    BY <1>2, <1>3 DEF in
  <2>2. \A i \in 1..Len(s) : i \in 1..Len(st)
    BY <1>1, <1>2
  <2>3. \A i \in 1..Len(t) : Len(s) + i \in 1..Len(st)
    BY <1>1, <1>2
  <2>4. in(s) \subseteq in(st)
    BY <1>1, <1>2, <2>2 DEF in
  <2>5. in(t) \subseteq in(st)
    <3>1. ASSUME NEW i \in 1..Len(t) PROVE t[i] \in in(st)
      <4>1. Len(s) + i \in DOMAIN st /\ st[Len(s) + i] = t[i]
        BY <1>1, <1>2, <2>3
      <4> QED
        BY <4>1 DEF in
    <3> QED
      BY <1>2, <3>1 DEF in
  <2> QED
    BY <2>1, <2>4, <2>5
<1>5. ASSUME \A i, j \in DOMAIN s : s[i] = s[j] => i = j,
             \A i, j \in DOMAIN t : t[i] = t[j] => i = j,
             in(s) \cap in(t) = {}
      PROVE  \A i, j \in DOMAIN st : st[i] = st[j] => i = j
  <2> SUFFICES ASSUME NEW i \in 1..Len(st), NEW j \in 1..Len(st), st[i] = st[j] PROVE i = j
    BY <1>2
  <2>1. \A k \in 1..Len(s), l \in 1..Len(t) : s[k] # t[l]
    BY <1>2, <1>5 DEF in
  <2>2. CASE i \in 1..Len(s) /\ st[i] = s[i]
    BY <1>2, <1>3, <1>5, <2>1, <2>2
  <2>3. CASE i - Len(s) \in 1..Len(t) /\ st[i] = t[i - Len(s)]
    <3>1. j - Len(s) \in 1..Len(t) /\ st[j] = t[j - Len(s)]
      BY <1>3, <2>1, <2>3
    <3>2. i - Len(s) = j - Len(s)
      BY <1>2, <1>5, <2>3, <3>1
    <3> QED
      BY <1>1, <1>2, <3>2
  <2> QED
    BY <1>3, <2>2, <2>3
<1> QED
  BY <1>1, <1>4, <1>5 DEF st


-----------------------------------------------------------------------------
(* The findings: the invariant, part by part. *)

\* The scan and the world, which no step changes.
WorldInv ==
    /\ scripts \in Seq(Outputs)
    /\ cvss \in [Cves -> Scores] /\ epss \in [Cves -> Epss] /\ exploited \subseteq Cves

Injective(list) == \A i, j \in DOMAIN list : list[i] = list[j] => i = j

Everywhere == in(potential) \cup behavioral

\* The three lists hold what was read, the lowest of them nothing twice and, from
\* DropInferred on, nothing of the other two.
TiersInv ==
    /\ stage \in {"read", "drop", "epss", "kev", "rank", "show", "shown"}
    /\ potential \in Seq(Cves) /\ Injective(potential)
    /\ confirmed \in Seq(Seq(Cves)) /\ heuristic \in Seq(Seq(Cves))
    /\ read \in 0..Len(scripts) /\ (stage # "read" => read = Len(scripts))
    /\ Everywhere = Reported(read)
    /\ stage \notin {"read", "drop"} => in(potential) \cap behavioral = {}

\* The two services have told all they know of what their answers were about.
AnswersInv ==
    /\ epss_map = {c \in answered : epss[c] > 0}
    /\ kev = IF catalog THEN exploited ELSE {}
    /\ catalog \in BOOLEAN
    /\ stage \in {"read", "drop", "epss", "kev"} => kev = {} /\ ~catalog

\* Once ranked, none is behind one of a lower key; the report takes the first of them.
RankInv ==
    /\ stage \in {"show", "shown"} =>
         \A p, q \in DOMAIN potential :
           p < q => ~Above(priority_key(potential[q]), priority_key(potential[p]))
    /\ stage = "shown" =>
         \E n \in 0..Len(potential) :
           DOMAIN top = 1..n /\ \A i \in 1..n : top[i] = potential[i]

FindingsInv == WorldInv /\ TiersInv /\ AnswersInv /\ RankInv

\* What one output names is a list of CVEs, none twice.
LEMMA OutputFacts ==
    ASSUME NEW o \in Outputs
    PROVE  o.cves \in Seq(Cves) /\ Injective(o.cves) /\ o.id \in {"vulners", "check"}
<1>1. o.cves \in CveLists /\ o.id \in {"vulners", "check"}
  BY DEF Outputs
<1>2. Cardinality(Cves) \in Nat
  BY FindingsAssumption, FS_CardinalityType
<1> QED
  BY <1>1, <1>2 DEF CveLists, Orders, Injective

LEMMA FindingsStart == FindingsInit => FindingsInv
<1> SUFFICES ASSUME FindingsInit PROVE FindingsInv
  OBVIOUS
<1> USE DEF FindingsInit
<1>1. PICK n \in 1..MaxScripts : scripts \in [1..n -> Outputs]
  OBVIOUS
<1>2. WorldInv
  BY <1>1, FindingsAssumption DEF WorldInv
<1>3. in(potential) = {} /\ named(confirmed) = {} /\ named(heuristic) = {}
  BY DEF in, named
<1>4. Reported(0) = {}
  BY DEF Reported
<1>5. TiersInv
  <2>1. Len(scripts) \in Nat
    BY <1>2, LenProperties DEF WorldInv
  <2>2. Everywhere = Reported(read)
    BY <1>3, <1>4 DEF Everywhere, behavioral
  <2> QED
    BY <2>1, <2>2 DEF TiersInv, Injective
<1> QED
  BY <1>2, <1>5 DEF FindingsInv, AnswersInv, RankInv

\* One output more.
LEMMA ReportedNext ==
    ASSUME NEW n \in Nat
    PROVE  Reported(n + 1) =
             Reported(n) \cup (IF \/ scripts[n + 1].id = "vulners"
                                  \/ scripts[n + 1].state \notin {"NOT", "silent"}
                               THEN in(scripts[n + 1].cves) ELSE {})
<1>1. \A i : i \in 1..n + 1 <=> i \in 1..n \/ i = n + 1
  OBVIOUS
<1> QED
  BY <1>1 DEF Reported

\* One member more of a list of lists.
LEMMA NamedNext ==
    ASSUME NEW list \in Seq(Seq(Cves)), NEW cves \in Seq(Cves)
    PROVE  /\ list \o <<cves>> \in Seq(Seq(Cves))
           /\ named(list \o <<cves>>) = named(list) \cup in(cves)
<1> DEFINE one == <<cves>>
<1>1. one \in Seq(Seq(Cves)) /\ in(one) = {cves}
  BY DEF in
<1> HIDE DEF one
<1>2. list \o one \in Seq(Seq(Cves)) /\ in(list \o one) = in(list) \cup in(one)
  BY <1>1, JoinedMembers
<1>3. \A l : named(l) = UNION {in(m) : m \in in(l)}
  <2> SUFFICES ASSUME NEW l PROVE named(l) = UNION {in(m) : m \in in(l)}
    OBVIOUS
  <2>1. in(l) = {l[i] : i \in DOMAIN l}
    BY DEF in
  <2>2. {in(m) : m \in {l[i] : i \in DOMAIN l}} = {in(l[i]) : i \in DOMAIN l}
    OBVIOUS
  <2> QED
    BY <2>1, <2>2 DEF named
<1>4. named(list \o one) = named(list) \cup in(cves)
  BY <1>1, <1>2, <1>3
<1> QED
  BY <1>2, <1>4 DEF one

LEMMA ReadVulnersStep == FindingsInv /\ ReadVulners => FindingsInv'
<1> SUFFICES ASSUME FindingsInv, ReadVulners PROVE FindingsInv'
  OBVIOUS
<1>1. /\ stage = "read" /\ stage' = stage /\ read < Len(scripts) /\ read' = read + 1
      /\ Output.id = "vulners"
      /\ UNCHANGED <<scripts, cvss, epss, exploited, toAsk, epss_map, kev, answered, catalog,
                     confirmed, heuristic, top>>
  BY DEF ReadVulners, world, answers
<1>2. read \in Nat /\ read + 1 \in 1..Len(scripts) /\ scripts \in Seq(Outputs) /\ Len(scripts) \in Nat
  BY <1>1, LenProperties DEF FindingsInv, TiersInv, WorldInv
<1>3. Output \in Outputs
  BY <1>2, ElementOfSeq DEF Output
<1>4. Output.cves \in Seq(Cves) /\ Injective(Output.cves)
  BY <1>3, OutputFacts
<1> DEFINE S == {i \in DOMAIN Output.cves : Output.cves[i] \notin in(potential)}
<1>5. PICK new \in Kept(Output.cves, S) : potential' = potential \o new
  BY DEF ReadVulners, NewPotential
<1>6. /\ new \in Seq(Cves) /\ in(new) = {Output.cves[i] : i \in S} /\ Injective(new)
  <2>1. S \subseteq DOMAIN Output.cves
    OBVIOUS
  <2> DEFINE cves == Output.cves
  <2>2. cves \in Seq(Cves) /\ Injective(cves) /\ S \subseteq DOMAIN cves /\ new \in Kept(cves, S)
    BY <1>4, <1>5, <2>1
  <2> HIDE DEF S, cves
  <2>3. /\ new \in Seq(Cves) /\ in(new) = {cves[i] : i \in S}
        /\ (\A i, j \in DOMAIN cves : cves[i] = cves[j] => i = j)
             => \A p, q \in DOMAIN new : new[p] = new[q] => p = q
    BY <2>2, KeptFacts
  <2>4. Injective(new)
    BY <2>2, <2>3 DEF Injective
  <2> QED
    BY <2>3, <2>4 DEF cves
<1>7. in(new) = in(Output.cves) \ in(potential)
  BY <1>6 DEF in
<1>8. /\ potential' \in Seq(Cves) /\ Injective(potential)'
      /\ in(potential)' = in(potential) \cup in(Output.cves)
  <2>1. potential \in Seq(Cves) /\ Injective(potential)
    BY DEF FindingsInv, TiersInv
  <2>2. in(potential) \cap in(new) = {}
    BY <1>7
  <2>3. /\ potential \o new \in Seq(Cves) /\ Injective(potential \o new)
        /\ in(potential \o new) = in(potential) \cup in(new)
    BY <1>6, <2>1, <2>2, JoinedMembers DEF Injective
  <2> QED
    BY <1>5, <1>7, <2>3
<1>9. Everywhere' = Reported(read)'
  <2>1. Reported(read + 1) = Reported(read) \cup in(Output.cves)
    BY <1>1, <1>2, ReportedNext DEF Output
  <2>2. Reported(read)' = Reported(read + 1)
    BY <1>1 DEF Reported
  <2>3. behavioral' = behavioral
    BY <1>1 DEF behavioral
  <2> QED
    BY <1>8, <2>1, <2>2, <2>3 DEF FindingsInv, TiersInv, Everywhere
<1>10. TiersInv'
  BY <1>1, <1>2, <1>8, <1>9 DEF FindingsInv, TiersInv
<1> QED
  BY <1>1, <1>10 DEF FindingsInv, WorldInv, AnswersInv, RankInv

LEMMA ReadCheckStep == FindingsInv /\ ReadCheck => FindingsInv'
<1> SUFFICES ASSUME FindingsInv, ReadCheck PROVE FindingsInv'
  OBVIOUS
<1>1. /\ stage = "read" /\ stage' = stage /\ read < Len(scripts) /\ read' = read + 1
      /\ Output.id = "check"
      /\ UNCHANGED <<scripts, cvss, epss, exploited, toAsk, epss_map, kev, answered, catalog,
                     potential, top>>
  BY DEF ReadCheck, world, answers
<1>2. read \in Nat /\ read + 1 \in 1..Len(scripts) /\ scripts \in Seq(Outputs) /\ Len(scripts) \in Nat
  BY <1>1, LenProperties DEF FindingsInv, TiersInv, WorldInv
<1>3. Output \in Outputs
  BY <1>2, ElementOfSeq DEF Output
<1>4. Output.cves \in Seq(Cves)
  BY <1>3, OutputFacts
<1>5. confirmed \in Seq(Seq(Cves)) /\ heuristic \in Seq(Seq(Cves))
  BY DEF FindingsInv, TiersInv
<1>6. /\ confirmed' \in Seq(Seq(Cves)) /\ heuristic' \in Seq(Seq(Cves))
      /\ behavioral' = behavioral \cup (IF Output.state \in {"NOT", "silent"} THEN {} ELSE in(Output.cves))
  <2>1. CASE Output.state \in {"NOT", "silent"}
    <3>1. UNCHANGED <<confirmed, heuristic>>
      BY <2>1 DEF ReadCheck
    <3> QED
      BY <1>5, <2>1, <3>1 DEF behavioral
  <2>2. CASE Output.state = "VULNERABLE"
    <3>1. confirmed' = confirmed \o <<Output.cves>> /\ heuristic' = heuristic
      BY <2>2 DEF ReadCheck
    <3>2. confirmed' \in Seq(Seq(Cves)) /\ named(confirmed') = named(confirmed) \cup in(Output.cves)
      BY <1>4, <1>5, <3>1, NamedNext
    <3> QED
      BY <1>5, <2>2, <3>1, <3>2 DEF behavioral
  <2>3. CASE Output.state \notin {"NOT", "silent", "VULNERABLE"}
    <3>1. heuristic' = heuristic \o <<Output.cves>> /\ confirmed' = confirmed
      BY <2>3 DEF ReadCheck
    <3>2. heuristic' \in Seq(Seq(Cves)) /\ named(heuristic') = named(heuristic) \cup in(Output.cves)
      BY <1>4, <1>5, <3>1, NamedNext
    <3> QED
      BY <1>5, <2>3, <3>1, <3>2 DEF behavioral
  <2> QED
    BY <2>1, <2>2, <2>3
<1>7. Everywhere' = Reported(read)'
  <2>1. Reported(read + 1) = Reported(read)
          \cup (IF Output.state \in {"NOT", "silent"} THEN {} ELSE in(Output.cves))
    BY <1>1, <1>2, ReportedNext DEF Output
  <2>2. Reported(read)' = Reported(read + 1)
    BY <1>1 DEF Reported
  <2>3. in(potential)' = in(potential)
    BY <1>1
  <2> QED
    BY <1>6, <2>1, <2>2, <2>3 DEF FindingsInv, TiersInv, Everywhere
<1>8. TiersInv'
  BY <1>1, <1>2, <1>6, <1>7 DEF FindingsInv, TiersInv
<1> QED
  BY <1>1, <1>8 DEF FindingsInv, WorldInv, AnswersInv, RankInv

LEMMA DropStep == FindingsInv /\ DropInferred => FindingsInv'
<1> SUFFICES ASSUME FindingsInv, DropInferred PROVE FindingsInv'
  OBVIOUS
<1>1. /\ stage = "drop" /\ stage' \in {"epss", "rank"}
      /\ toAsk' = in(potential') \cup behavioral
      /\ UNCHANGED <<read, scripts, cvss, epss, exploited, epss_map, kev, answered, catalog, confirmed,
                     heuristic, top>>
  BY DEF DropInferred, world
<1> DEFINE S == {i \in DOMAIN potential : potential[i] \notin behavioral}
<1>2. potential' \in Kept(potential, S)
  BY DEF DropInferred
<1>3. potential \in Seq(Cves) /\ Injective(potential)
  BY DEF FindingsInv, TiersInv
<1>4. /\ potential' \in Seq(Cves) /\ in(potential') = {potential[i] : i \in S} /\ Injective(potential')
  <2>1. S \subseteq DOMAIN potential
    OBVIOUS
  <2> HIDE DEF S
  <2> QED
    BY <1>2, <1>3, <2>1, KeptFacts DEF Injective
<1>5. in(potential') = in(potential) \ behavioral
  BY <1>4 DEF in
<1>6. behavioral' = behavioral /\ Reported(read)' = Reported(read)
  BY <1>1 DEF behavioral, Reported
<1>7. TiersInv'
  <2>1. Everywhere' = Everywhere
    BY <1>5, <1>6 DEF Everywhere
  <2>2. Injective(potential)' /\ in(potential)' \cap behavioral' = {}
    BY <1>4, <1>5, <1>6
  <2> QED
    BY <1>1, <1>4, <1>6, <2>1, <2>2 DEF FindingsInv, TiersInv
<1>8. AnswersInv'
  BY <1>1 DEF FindingsInv, AnswersInv
<1> QED
  BY <1>1, <1>7, <1>8 DEF FindingsInv, WorldInv, RankInv

\* The three lists stay as they are outside the steps that read, drop and rank.
LEMMA TiersStay ==
    ASSUME FindingsInv, stage' \in {"epss", "kev", "rank", "show", "shown"},
           stage \notin {"read", "drop"},
           UNCHANGED <<read, scripts, cvss, epss, exploited, confirmed, heuristic, potential>>
    PROVE  WorldInv' /\ TiersInv' /\ Everywhere' = Everywhere
<1>1. /\ behavioral' = behavioral /\ Reported(read)' = Reported(read)
      /\ in(potential)' = in(potential) /\ Injective(potential)' = Injective(potential)
  BY DEF behavioral, Reported, Injective
<1> QED
  BY <1>1 DEF FindingsInv, WorldInv, TiersInv, Everywhere

LEMMA AskStep == FindingsInv /\ AskEpss => FindingsInv'
<1> SUFFICES ASSUME FindingsInv, AskEpss PROVE FindingsInv'
  OBVIOUS
<1>1. /\ stage = "epss" /\ stage' = "epss"
      /\ UNCHANGED <<read, scripts, cvss, epss, exploited, kev, catalog, confirmed, heuristic,
                     potential, top>>
  BY DEF AskEpss, world
<1>2. PICK A : /\ answered' = answered \cup A
               /\ epss_map' = epss_map \cup {c \in A : epss[c] > 0}
  BY DEF AskEpss
<1>3. WorldInv' /\ TiersInv' /\ Everywhere' = Everywhere
  BY <1>1, TiersStay
<1>4. AnswersInv'
  BY <1>1, <1>2 DEF FindingsInv, AnswersInv
<1> QED
  BY <1>1, <1>3, <1>4 DEF FindingsInv, RankInv

LEMMA EnrichmentSteps ==
    FindingsInv /\ (EpssOver \/ LoadKev \/ EnrichmentRaises) => FindingsInv'
<1> SUFFICES ASSUME FindingsInv, EpssOver \/ LoadKev \/ EnrichmentRaises PROVE FindingsInv'
  OBVIOUS
<1>1. /\ stage \in {"epss", "kev"} /\ stage' \in {"kev", "rank"}
      /\ UNCHANGED <<read, scripts, cvss, epss, exploited, confirmed, heuristic, potential, top>>
  BY DEF EpssOver, LoadKev, EnrichmentRaises, world, answers
<1>2. WorldInv' /\ TiersInv' /\ Everywhere' = Everywhere
  BY <1>1, TiersStay
<1>3. CASE EpssOver
  <2>1. AnswersInv'
    BY <1>1, <1>2, <1>3 DEF EpssOver, answers, FindingsInv, AnswersInv
  <2> QED
    BY <1>1, <1>2, <2>1 DEF FindingsInv, RankInv
<1>4. CASE LoadKev
  <2>1. AnswersInv'
    <3>1. /\ stage' = "rank" /\ epss' = epss /\ exploited' = exploited
          /\ epss_map' = epss_map /\ answered' = answered
      BY <1>1, <1>4 DEF LoadKev
    <3>2. kev = {} /\ catalog = FALSE /\ epss_map = {c \in answered : epss[c] > 0}
      <4>1. stage = "kev"
        BY <1>4 DEF LoadKev
      <4>2. kev = {} /\ epss_map = {c \in answered : epss[c] > 0}
        BY <4>1 DEF FindingsInv, AnswersInv
      <4>3. catalog \in BOOLEAN /\ ~catalog
        BY <4>1 DEF FindingsInv, AnswersInv
      <4> QED
        BY <4>2, <4>3
    <3>3. CASE kev' = exploited /\ catalog' = TRUE
      BY <3>1, <3>2, <3>3 DEF AnswersInv
    <3>4. CASE kev' = kev /\ catalog' = catalog
      BY <3>1, <3>2, <3>4 DEF AnswersInv
    <3> QED
      BY <1>4, <3>3, <3>4 DEF LoadKev
  <2> QED
    BY <1>1, <1>2, <2>1 DEF FindingsInv, RankInv
<1>5. CASE EnrichmentRaises
  <2>1. AnswersInv'
    BY <1>1, <1>2, <1>5 DEF EnrichmentRaises, FindingsInv, AnswersInv
  <2> QED
    BY <1>1, <1>2, <2>1 DEF FindingsInv, RankInv
<1> QED
  BY <1>3, <1>4, <1>5

\* What a CVE is ranked by is made of integers.
LEMMA KeyType ==
    ASSUME WorldInv, NEW c \in Cves
    PROVE  /\ (IF c \in kev THEN 1 ELSE 0) \in Int /\ epssOf(c) \in Int
           /\ band(cvss[c]) \in Int /\ cvss[c] \in Int /\ cvss[c] >= -1 /\ cvss[c] <= 100
           /\ epss[c] \in Nat
<1>1. cvss[c] \in (-1)..100
  <2>1. cvss[c] \in Scores
    BY DEF WorldInv
  <2>2. Scores \subseteq (-1)..100
    BY FindingsAssumption
  <2> QED
    BY <2>1, <2>2
<1>3. epss[c] \in 0..1000
  <2>1. epss[c] \in Epss
    BY DEF WorldInv
  <2>2. Epss \subseteq 0..1000
    BY FindingsAssumption
  <2> QED
    BY <2>1, <2>2
<1>2. band(cvss[c]) \in 0..5
  <2>1. \/ cvss[c] = -1 \/ cvss[c] = 0 \/ cvss[c] \in 1..39 \/ cvss[c] \in 40..69
        \/ cvss[c] \in 70..89 \/ cvss[c] \in 90..100
    BY <1>1
  <2> QED
    BY <2>1 DEF band
<1> QED
  BY <1>1, <1>2, <1>3 DEF epssOf

LEMMA RankStep == FindingsInv /\ Rank => FindingsInv'
<1> SUFFICES ASSUME FindingsInv, Rank PROVE FindingsInv'
  OBVIOUS
<1>1. /\ stage = "rank" /\ stage' = "show"
      /\ UNCHANGED <<read, scripts, cvss, epss, exploited, toAsk, epss_map, kev, answered, catalog,
                     confirmed, heuristic, top>>
  BY DEF Rank, world, answers
<1>2. PICK f \in [DOMAIN potential -> DOMAIN potential] :
        /\ potential' = [p \in DOMAIN potential |-> potential[f[p]]]
        /\ in(f) = DOMAIN potential
        /\ \A p, q \in DOMAIN potential : p < q =>
             LET k == priority_key(potential[f[p]])
                 l == priority_key(potential[f[q]])
             IN  Above(k, l) \/ (~Above(l, k) /\ f[p] < f[q])
  BY DEF Rank, Sorted
<1>3. /\ potential \in Seq(Cves) /\ Injective(potential) /\ WorldInv
      /\ Len(potential) \in Nat /\ DOMAIN potential = 1..Len(potential)
      /\ \A p \in DOMAIN potential : potential[p] \in Cves
  BY LenProperties, ElementOfSeq DEF FindingsInv, TiersInv
<1>4. \A c, d \in Cves : ~(Above(priority_key(c), priority_key(d))
                           /\ Above(priority_key(d), priority_key(c)))
  <2> SUFFICES ASSUME NEW c \in Cves, NEW d \in Cves,
                      Above(priority_key(c), priority_key(d)), Above(priority_key(d), priority_key(c))
               PROVE  FALSE
    OBVIOUS
  <2> DEFINE c1 == IF c \in kev THEN 1 ELSE 0
             d1 == IF d \in kev THEN 1 ELSE 0
             c2 == epssOf(c)
             d2 == epssOf(d)
             c3 == band(cvss[c])
             d3 == band(cvss[d])
             c4 == cvss[c]
             d4 == cvss[d]
  <2>1. /\ c1 \in Int /\ c2 \in Int /\ c3 \in Int /\ c4 \in Int
        /\ d1 \in Int /\ d2 \in Int /\ d3 \in Int /\ d4 \in Int
    BY <1>3, KeyType
  <2>2. priority_key(c) = <<c1, c2, c3, c4>> /\ priority_key(d) = <<d1, d2, d3, d4>>
    BY DEF priority_key
  <2> HIDE DEF c1, c2, c3, c4, d1, d2, d3, d4
  <2>3. Above(<<c1, c2, c3, c4>>, <<d1, d2, d3, d4>>) /\ Above(<<d1, d2, d3, d4>>, <<c1, c2, c3, c4>>)
    BY <2>2
  <2> QED
    BY <2>1, <2>3 DEF Above
<1>5. \A p, q \in DOMAIN potential : f[p] = f[q] => p = q
  <2> SUFFICES ASSUME NEW p \in DOMAIN potential, NEW q \in DOMAIN potential, p < q, f[p] = f[q]
               PROVE  FALSE
    BY <1>3
  <2>1. f[p] \in DOMAIN potential /\ f[p] \in Nat
    BY <1>2, <1>3
  <2>2. priority_key(potential[f[p]]) = priority_key(potential[f[q]]) /\ ~(f[p] < f[q])
    BY <2>1
  <2> QED
    BY <1>2, <1>3, <1>4, <2>1, <2>2
<1>6. /\ potential' \in Seq(Cves) /\ Injective(potential')
      /\ DOMAIN potential' = DOMAIN potential
      /\ in(potential') = in(potential)
  <2>1. potential' \in [1..Len(potential) -> Cves]
    BY <1>2, <1>3
  <2>2. DOMAIN potential' = DOMAIN potential
        /\ \A p \in DOMAIN potential : potential'[p] = potential[f[p]] /\ f[p] \in DOMAIN potential
    BY <1>2
  <2>3. Injective(potential')
    BY <1>3, <1>5, <2>2 DEF Injective
  <2>4. in(potential') = in(potential)
    <3>1. \A i \in DOMAIN potential : \E p \in DOMAIN potential : f[p] = i
      BY <1>2 DEF in
    <3> QED
      BY <2>2, <3>1 DEF in
  <2> QED
    BY <1>3, <2>1, <2>2, <2>3, <2>4
<1>7. behavioral' = behavioral /\ Reported(read)' = Reported(read) /\ Everywhere' = Everywhere
  <2>1. behavioral' = behavioral /\ Reported(read)' = Reported(read)
    BY <1>1 DEF behavioral, Reported
  <2> QED
    BY <1>6, <2>1 DEF Everywhere
<1>8. TiersInv'
  <2>1. Injective(potential)' /\ in(potential)' = in(potential)
    BY <1>6
  <2> QED
    BY <1>1, <1>6, <1>7, <2>1 DEF FindingsInv, TiersInv
<1>9. RankInv'
  <2>1. \A c : priority_key(c)' = priority_key(c)
    BY <1>1 DEF priority_key, epssOf
  <2>2. ASSUME NEW p \in DOMAIN potential, NEW q \in DOMAIN potential, p < q
        PROVE  ~Above(priority_key(potential'[q]), priority_key(potential'[p]))
    <3>1. potential'[p] = potential[f[p]] /\ potential'[q] = potential[f[q]]
      BY <1>2
    <3>2. potential[f[p]] \in Cves /\ potential[f[q]] \in Cves
      BY <1>2, <1>3
    <3> QED
      BY <1>2, <1>4, <2>2, <3>1, <3>2
  <2>3. \A p, q \in DOMAIN potential' :
           p < q => ~Above(priority_key(potential[q]), priority_key(potential[p]))'
    BY <1>6, <2>1, <2>2
  <2> QED
    BY <1>1, <2>3 DEF RankInv
<1> QED
  BY <1>1, <1>7, <1>8, <1>9 DEF FindingsInv, WorldInv, AnswersInv

LEMMA ShowStep == FindingsInv /\ Show => FindingsInv'
<1> SUFFICES ASSUME FindingsInv, Show PROVE FindingsInv'
  OBVIOUS
<1>1. /\ stage = "show" /\ stage' = "shown"
      /\ UNCHANGED <<read, scripts, cvss, epss, exploited, toAsk, epss_map, kev, answered, catalog,
                     confirmed, heuristic, potential>>
  BY DEF Show, world, answers
<1>2. WorldInv' /\ TiersInv' /\ Everywhere' = Everywhere
  BY <1>1, TiersStay
<1>3. potential \in Seq(Cves) /\ Len(potential) \in Nat
  BY LenProperties DEF FindingsInv, TiersInv
<1>4. PICK n \in 0..Len(potential) : top' = SubSeq(potential, 1, n)
  <2> DEFINE m == IF Len(potential) < TopN THEN Len(potential) ELSE TopN
  <2>1. m \in 0..Len(potential)
    BY <1>3, FindingsAssumption
  <2>2. top' = SubSeq(potential, 1, m)
    BY DEF Show
  <2> HIDE DEF m
  <2> QED
    BY <2>1, <2>2
<1>5. DOMAIN top' = 1..n /\ \A i \in 1..n : top'[i] = potential[i]
  BY <1>3, <1>4
<1>6. RankInv'
  <2>1. \A c : priority_key(c)' = priority_key(c)
    BY <1>1 DEF priority_key, epssOf
  <2> QED
    BY <1>1, <1>5, <2>1 DEF FindingsInv, RankInv
<1> QED
  BY <1>1, <1>2, <1>6 DEF FindingsInv, AnswersInv

LEMMA FindingsStep == FindingsInv /\ [FindingsNext]_findings_vars => FindingsInv'
<1> SUFFICES ASSUME FindingsInv, [FindingsNext]_findings_vars PROVE FindingsInv'
  OBVIOUS
<1>1. CASE ReadAll
  <2>1. /\ stage' = "drop" /\ stage = "read" /\ read = Len(scripts)
        /\ UNCHANGED <<read, scripts, cvss, epss, exploited, toAsk, epss_map, kev, answered, catalog,
                       confirmed, heuristic, potential, top>>
    BY <1>1 DEF ReadAll, world, answers
  <2>2. behavioral' = behavioral /\ Reported(read)' = Reported(read) /\ Everywhere' = Everywhere
        /\ Injective(potential)' = Injective(potential)
    BY <2>1 DEF behavioral, Reported, Everywhere, Injective
  <2> QED
    BY <2>1, <2>2 DEF FindingsInv, WorldInv, TiersInv, AnswersInv, RankInv
<1>2. CASE UNCHANGED findings_vars
  <2>1. /\ behavioral' = behavioral /\ Reported(read)' = Reported(read) /\ Everywhere' = Everywhere
        /\ Injective(potential)' = Injective(potential)
        /\ \A c : priority_key(c)' = priority_key(c)
    BY <1>2 DEF findings_vars, behavioral, Reported, Everywhere, Injective, priority_key, epssOf
  <2> QED
    BY <1>2, <2>1 DEF findings_vars, FindingsInv, WorldInv, TiersInv, AnswersInv, RankInv
<1> QED
  BY <1>1, <1>2, ReadVulnersStep, ReadCheckStep, DropStep, AskStep, EnrichmentSteps, RankStep,
     ShowStep DEF FindingsNext

LEMMA FindingsInvariant == FindingsSpec => []FindingsInv
BY FindingsStart, FindingsStep, PTL DEF FindingsSpec

-----------------------------------------------------------------------------
(* The findings: the theorems. *)

\* A CVE is in one of the report's tiers, once if in the inferred one, and in one
\* of them whenever an output named it: the two `seen` sets of classify.
THEOREM EachCveListedOnce == FindingsSpec => []EachCveOnce
<1>1. FindingsInv => EachCveOnce
  BY DEF FindingsInv, TiersInv, EachCveOnce, Everywhere, behavioral, Injective
<1> QED
  BY <1>1, FindingsInvariant, PTL

LEMMA BandMonotone ==
    ASSUME NEW a \in Int, NEW b \in Int, -1 <= b, b < a, a <= 100
    PROVE  band(a) >= band(b) /\ band(a) \in Int /\ band(b) \in Int
<1>1. \/ a = 0 \/ a \in 1..39 \/ a \in 40..69 \/ a \in 70..89 \/ a \in 90..100
  OBVIOUS
<1>2. \/ b = -1 \/ b = 0 \/ b \in 1..39 \/ b \in 40..69 \/ b \in 70..89 \/ b \in 90..100
  OBVIOUS
<1> QED
  BY <1>1, <1>2 DEF band

\* A key that is not above another has no first part above the other's.
LEMMA NotAbove ==
    ASSUME NEW a1 \in Int, NEW a2 \in Int, NEW a3 \in Int, NEW a4 \in Int,
           NEW b1 \in Int, NEW b2 \in Int, NEW b3 \in Int, NEW b4 \in Int,
           ~Above(<<a1, a2, a3, a4>>, <<b1, b2, b3, b4>>)
    PROVE  /\ a1 <= b1
           /\ a1 = b1 => a2 <= b2
           /\ a1 = b1 /\ a2 = b2 => a3 <= b3
           /\ a1 = b1 /\ a2 = b2 /\ a3 = b3 => a4 <= b4
BY DEF Above

\* Two findings in the order the ranking gives them.
LEMMA KeyParts ==
    ASSUME WorldInv, NEW o \in Cves, NEW s \in Cves, ~Above(priority_key(o), priority_key(s))
    PROVE  LET o1 == IF o \in kev THEN 1 ELSE 0
               s1 == IF s \in kev THEN 1 ELSE 0
           IN  /\ o1 <= s1
               /\ o1 = s1 => epssOf(o) <= epssOf(s)
               /\ o1 = s1 /\ epssOf(o) = epssOf(s) => cvss[o] <= cvss[s]
<1> DEFINE o1 == IF o \in kev THEN 1 ELSE 0
           s1 == IF s \in kev THEN 1 ELSE 0
           o2 == epssOf(o)
           s2 == epssOf(s)
           o3 == band(cvss[o])
           s3 == band(cvss[s])
           o4 == cvss[o]
           s4 == cvss[s]
<1>1. /\ o1 \in Int /\ o2 \in Int /\ o3 \in Int /\ o4 \in Int /\ o4 >= -1 /\ o4 <= 100
      /\ s1 \in Int /\ s2 \in Int /\ s3 \in Int /\ s4 \in Int /\ s4 >= -1 /\ s4 <= 100
  BY KeyType
<1>2. ~Above(<<o1, o2, o3, o4>>, <<s1, s2, s3, s4>>)
  BY DEF priority_key
<1>3. o4 > s4 => o3 >= s3
  BY <1>1, BandMonotone
<1> SUFFICES /\ o1 <= s1
             /\ o1 = s1 => o2 <= s2
             /\ o1 = s1 /\ o2 = s2 => o4 <= s4
  OBVIOUS
<1> HIDE DEF o1, s1, o2, s2, o3, s3, o4, s4
<1>4. /\ o1 <= s1
      /\ o1 = s1 => o2 <= s2
      /\ o1 = s1 /\ o2 = s2 => o3 <= s3
      /\ o1 = s1 /\ o2 = s2 /\ o3 = s3 => o4 <= s4
  BY <1>1, <1>2, NotAbove
<1> QED
  BY <1>1, <1>3, <1>4

\* The cut to the first TopN findings leaves out none that is worse than one it
\* keeps: not in the order of the whole risk when the one left out was answered for,
\* and not in that of CVSS when no answer came.
THEOREM OmissionsJustified == FindingsSpec => []OmittedAccountedFor
<1>1. FindingsInv => OmittedAccountedFor
  <2> SUFFICES ASSUME FindingsInv, stage = "shown",
                      NEW o \in in(potential) \ in(top), NEW s \in in(top)
               PROVE  /\ o \in answered => ~Above(Risk(o), Risk(s))
                      /\ ~enriched => cvss[o] <= cvss[s]
    BY DEF OmittedAccountedFor
  <2>1. potential \in Seq(Cves) /\ WorldInv /\ Len(potential) \in Nat
        /\ DOMAIN potential = 1..Len(potential)
    BY LenProperties DEF FindingsInv, TiersInv
  <2>2. PICK n \in 0..Len(potential) :
          DOMAIN top = 1..n /\ \A i \in 1..n : top[i] = potential[i]
    BY DEF FindingsInv, RankInv
  <2>3. PICK i \in 1..n : s = potential[i]
    BY <2>2 DEF in
  <2>4. PICK j \in 1..Len(potential) : o = potential[j]
    BY <2>1 DEF in
  <2>5. i < j /\ i \in DOMAIN potential
    <3>1. j \notin 1..n
      BY <2>2, <2>4 DEF in
    <3> QED
      BY <2>1, <2>2, <3>1
  <2>6. o \in Cves /\ s \in Cves
    BY <2>1, <2>3, <2>4, <2>5, ElementOfSeq
  <2>7. ~Above(priority_key(o), priority_key(s))
    BY <2>1, <2>3, <2>4, <2>5 DEF FindingsInv, RankInv
  <2> DEFINE o1 == IF o \in kev THEN 1 ELSE 0
             s1 == IF s \in kev THEN 1 ELSE 0
  <2>8. /\ o1 <= s1
        /\ o1 = s1 => epssOf(o) <= epssOf(s)
        /\ o1 = s1 /\ epssOf(o) = epssOf(s) => cvss[o] <= cvss[s]
    BY <2>1, <2>6, <2>7, KeyParts
  <2>9. /\ epss[o] \in Nat /\ epss[s] \in Nat
        /\ cvss[o] \in Int /\ cvss[s] \in Int
    BY <2>1, <2>6, KeyType
  <2>10. ASSUME o \in answered PROVE ~Above(Risk(o), Risk(s))
    <3>1. kev = (IF catalog THEN exploited ELSE {}) /\ epss_map = {c \in answered : epss[c] > 0}
      BY DEF FindingsInv, AnswersInv
    <3>3. /\ epssOf(o) = IF epss[o] > 0 THEN epss[o] ELSE -1
          /\ epssOf(s) = IF s \in answered /\ epss[s] > 0 THEN epss[s] ELSE -1
      BY <2>10, <3>1 DEF epssOf
    <3> DEFINE o2 == epss[o]
               s2 == epss[s]
               o4 == cvss[o]
               s4 == cvss[s]
    <3>4. /\ o1 <= s1
          /\ o1 = s1 => o2 <= s2
          /\ o1 = s1 /\ o2 = s2 => o4 <= s4
      BY <2>8, <2>9, <3>3
    <3>5. Risk(o) = <<o1, o2, o4>> /\ Risk(s) = <<s1, s2, s4>>
      BY <3>1 DEF Risk
    <3>6. o1 \in Int /\ s1 \in Int /\ o2 \in Int /\ s2 \in Int /\ o4 \in Int /\ s4 \in Int
      BY <2>9
    <3> HIDE DEF o1, s1, o2, s2, o4, s4
    <3>7. ~Above(<<o1, o2, o4>>, <<s1, s2, s4>>)
      BY <3>4, <3>6 DEF Above
    <3> QED
      BY <3>5, <3>7
  <2>11. ASSUME ~enriched PROVE cvss[o] <= cvss[s]
    BY <2>8, <2>11 DEF enriched, epssOf
  <2> QED
    BY <2>10, <2>11
<1> QED
  BY <1>1, FindingsInvariant, PTL

=============================================================================
