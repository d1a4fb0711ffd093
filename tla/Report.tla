-------------------------------- MODULE Report --------------------------------
(***************************************************************************)
(* report.py's part of the bargain brain.py makes with the raw evidence:    *)
(* what of the scans and of the files reaches the report, and in which order *)
(* it is written before the folders are removed.  One evidence file,        *)
(* whichever, is followed from its folder into the report.  Findings are    *)
(* module Findings'; the folders' life is module Brain's.                   *)
(***************************************************************************)
EXTENDS Naturals, Sequences, FiniteSets

CONSTANTS
    Ranges,         \* the full sweep's chunks: a sequence of sets of TCP ports
    UdpPorts,
    Evidence        \* the files that may be followed: [in, kind, size, readable]

TcpPorts == UNION {Ranges[i] : i \in DOMAIN Ranges}

ASSUME ReportAssumption ==
    /\ Ranges \in Seq(SUBSET TcpPorts)
    /\ \A i, j \in DOMAIN Ranges : i # j => Ranges[i] \cap Ranges[j] = {}

\* nmap writes its .nmap files for the network scan and for the NSE scripts.
ASSUME EvidenceAssumption ==
    /\ Evidence \subseteq
         [in : {"network-scan", "service-enum", "dns-recon", "web-recon", "osint"},
          kind : {"txt", "nmap", "xml", "gnmap", "json", "underscore", "html"},
          size : {"empty", "fits", "long"}, readable : BOOLEAN]
    /\ \A f \in Evidence : f.kind = "nmap" => f.in \in {"network-scan", "service-enum"}

VARIABLES
    at,             \* the step of generate_report, then of main(), that comes next
    aborted,        \* the quick scan failed, and the network scan ended there
    quick, sweep, deep, \* what parse_scan finds on disk: sweep is a sequence
    scanned,        \* the sweep's chunks that this run came to
    deepRan,        \* 06_deep_scan.xml is this run's
    revealed,       \* ports that only evasion saw open
    udp,            \* UDP ports that are open
    file,           \* the evidence file
    there,          \* it is still in its folder
    keepRaw,        \* RECONBOX_KEEP_RAW=1
    table,          \* the ports of the report's port table
    note,           \* the report says they are from the run summary
    embedded,       \* what the report holds of the file: "no", "cut", "whole"
    html, pdf,      \* whose report.html and report.pdf is there
    pdf_ok

vars == <<at, aborted, quick, sweep, deep, scanned, deepRan, revealed, udp, file, there, keepRaw,
          table, note, embedded, html, pdf, pdf_ok>>

inputs  == <<aborted, quick, sweep, deep, scanned, deepRan, revealed, udp, file, keepRaw>>
context == <<table, note, embedded>>
outputs == <<html, pdf, pdf_ok>>

----------------------------------------------------------------------------
(* The network scan's files, as parse_scan reads them.                       *)

\* No XML, one that cannot be recovered, or one that lists ports, some open.
Scans(ports) ==
    [xml : {"absent", "unreadable"}, listed : {{}}, open : {{}}]
    \cup {s \in [xml : {"read"}, listed : SUBSET ports, open : SUBSET ports] : s.open \subseteq s.listed}

NoScan == [xml |-> "absent", listed |-> {}, open |-> {}]

SweepOpen == UNION {sweep[i].open : i \in DOMAIN sweep}

\* The chunks this run came to: it leaves the sweep at the first that times out.
Scanned == UNION {sweep[i].open : i \in 1..scanned}

\* summary["open_ports"]: absent from the summary of an aborted scan.
open_ports == IF aborted THEN {} ELSE quick.open \cup Scanned \cup revealed

\* The folder may hold files of an earlier run, under the same names: those of the
\* scans this run did not come to, or that left no file, are still there.
Init ==
    /\ at = "context"
    /\ aborted \in BOOLEAN
    /\ quick \in Scans(TcpPorts)
    /\ sweep \in {s \in [DOMAIN Ranges -> Scans(TcpPorts)] :
                    \A i \in DOMAIN Ranges : s[i] \in Scans(Ranges[i])}
    /\ IF aborted
       THEN scanned = 0 /\ revealed = {} /\ udp = {}
       ELSE /\ scanned \in 1..Len(Ranges)
            /\ revealed \in SUBSET (TcpPorts \ (quick.open \cup Scanned))
            /\ udp \in SUBSET UdpPorts
    /\ deepRan \in IF open_ports = {} THEN {FALSE} ELSE BOOLEAN
    /\ deep \in Scans(IF deepRan THEN open_ports ELSE TcpPorts)
    /\ file \in Evidence
    /\ there = TRUE
    /\ keepRaw \in BOOLEAN
    /\ table = {} /\ note = FALSE /\ embedded = "no"
    /\ html \in {"none", "earlier"} /\ pdf = html /\ pdf_ok = FALSE

----------------------------------------------------------------------------
(* build_context                                                             *)

Chunks == {i \in DOMAIN sweep : sweep[i].xml # "absent"}

\* Here and below, D_<fault> is D with a fault put in, for mutation only.
ports_source_quickFirst ==
    IF quick.xml # "absent" THEN quick ELSE deep

\* The first of these files that is there, whether it can be read or not.
ports_source ==
    CASE deep.xml # "absent" -> deep
      [] deep.xml = "absent" /\ Chunks # {} ->
           [xml |-> "read", listed |-> UNION {sweep[i].listed : i \in Chunks}, open |-> SweepOpen]
      [] deep.xml = "absent" /\ Chunks = {} -> quick

\* _network_section: rows from that file, or from the summary if it lists nothing.
network_section ==
    /\ table' = IF ports_source.listed # {} THEN ports_source.open ELSE open_ports \cup udp
    /\ note' = (ports_source.listed = {} /\ open_ports \cup udp # {})

\* The sections' choice of files, by folder and suffix.
shown_txtOnly ==
    {[in |-> folder, kind |-> "txt"] : folder \in {"service-enum", "dns-recon", "web-recon"}}

shown ==
    {[in |-> "network-scan", kind |-> "nmap"], [in |-> "osint", kind |-> "txt"],
     [in |-> "dns-recon", kind |-> "txt"], [in |-> "web-recon", kind |-> "txt"],
     [in |-> "service-enum", kind |-> "txt"], [in |-> "service-enum", kind |-> "nmap"]}

\* _pre and _read: nothing of an empty file or of one that cannot be read, the
\* beginning of a long one.
pre ==
    CASE ~file.readable \/ file.size = "empty" -> "no"
      [] file.readable /\ file.size = "long" -> "cut"
      [] file.readable /\ file.size = "fits" -> "whole"

BuildContext ==
    /\ at = "context"
    /\ at' = "html"
    /\ network_section
    /\ embedded' = IF [in |-> file.in, kind |-> file.kind] \in shown THEN pre ELSE "no"
    /\ UNCHANGED <<inputs, there, outputs>>

\* An exception while gathering or rendering: no pdf_ok in the result at all.
RenderFails ==
    /\ at \in {"context", "html"}
    /\ at' = "cleanup"
    /\ UNCHANGED <<inputs, there, context, outputs>>

\* The open empties an earlier file even if the write then fails.
WriteHtml ==
    /\ at = "html"
    /\ \/ html' = "this run's" /\ at' = "pdf"
       \/ html' \in {html, "part"} /\ at' = "cleanup"
    /\ UNCHANGED <<inputs, there, context, pdf, pdf_ok>>

NoWeasyPrint ==
    /\ at = "pdf"
    /\ at' = "cleanup"
    /\ UNCHANGED <<inputs, there, context, outputs>>

WritePdf_okFirst ==
    /\ at = "pdf"
    /\ at' = "cleanup"
    /\ pdf_ok' = TRUE
    /\ pdf' \in {"this run's", pdf, "part"}
    /\ UNCHANGED <<inputs, there, context, html>>

WritePdf ==
    /\ at = "pdf"
    /\ at' = "cleanup"
    /\ \/ pdf' = "this run's" /\ pdf_ok' = TRUE
       \/ pdf' \in {pdf, "part"} /\ UNCHANGED pdf_ok
    /\ UNCHANGED <<inputs, there, context, html>>

\* main(): PDF-only mode, whose rmtree may leave what it cannot remove.
PdfOnly ==
    /\ at = "cleanup"
    /\ at' = "over"
    /\ there' \in IF pdf_ok /\ ~keepRaw THEN BOOLEAN ELSE {TRUE}
    /\ UNCHANGED <<inputs, context, outputs>>

Next == BuildContext \/ RenderFails \/ WriteHtml \/ NoWeasyPrint \/ WritePdf \/ PdfOnly

Spec == Init /\ [][Next]_vars

----------------------------------------------------------------------------
(* Properties. *)

Summary == open_ports \cup udp

\* The port table and the counts of the report's summary are built from different
\* things (report.py:70-94, 494-495).  A port that is counted is in the table
\* unless it is a UDP port beside any TCP scan that lists something, or the one
\* scan the table is read from does not have it open; and a port in the table is
\* counted unless the scan was aborted, or the file that has it is an earlier run's,
\* of a scan this run did not make.  Under the note, the table is complete.
TableAccountedFor ==
    at \in {"html", "pdf"} =>
        /\ \A p \in Summary \ table :
             \/ p \in udp /\ ~note
             \/ deep.xml = "read" /\ p \notin deep.open
             \/ deep.xml = "absent" /\ p \notin SweepOpen
        /\ \A p \in table \ Summary :
             \/ aborted
             \/ deep.xml = "read" /\ ~deepRan /\ p \in deep.open
             \/ deep.xml = "absent" /\ \E i \in DOMAIN sweep : i > scanned /\ p \in sweep[i].open
        /\ note => table = Summary

\* "Never delete if the PDF failed" (brain.py:204-206): when the evidence is gone,
\* both files are this run's, whatever lay there before.
RemovedOnlyWithReport == ~there => html = "this run's" /\ pdf = "this run's"

\* What "nothing is lost when the raw files are deleted" (report.py:14-16) comes to:
\* an evidence file that is gone is in the report unless it is cut, empty, could not
\* be read, or is of a kind no section embeds.
LostAccountedFor ==
    ~there /\ embedded # "whole" =>
        \/ file.size \in {"empty", "long"}
        \/ ~file.readable
        \/ file.kind \in {"xml", "gnmap", "json", "underscore", "html"}
        \/ file.in = "network-scan" /\ file.kind = "txt"

\* The claim itself, of the files it can only be about: those that a section embeds.
NothingLost ==
    /\ ~there
    /\ file.size # "empty" /\ file.readable
    /\ [in |-> file.in, kind |-> file.kind] \in shown
    => embedded = "whole"

=============================================================================
