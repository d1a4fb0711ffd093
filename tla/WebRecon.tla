------------------------------- MODULE WebRecon -------------------------------
(***************************************************************************)
(* web_recon.py: which base URLs are probed, derived from the open ports    *)
(* and service names of the network-scan summary; the CDN downgrade of      *)
(* cdn.py; and the evidence files of each endpoint.                         *)
(*                                                                          *)
(* A URL is a scheme and a port, 0 the port of a URL that names none, and   *)
(* Verbatim the domain itself taken for a URL.                              *)
(*                                                                          *)
(* Out of this module: net_summary = None and a target with no domain,      *)
(* which brain.py never passes.                                             *)
(***************************************************************************)
EXTENDS Naturals, Sequences, FiniteSets, Lists

CONSTANTS
    Ports,          \* TCP port numbers
    HttpsPorts,     \* _HTTPS_PORTS: well-known TLS ports
    HttpPorts,      \* _HTTP_PORTS: well-known plain HTTP ports
    MaxEndpoints    \* _MAX_ENDPOINTS

ASSUME WebPortsAssumption ==
    /\ Ports \subseteq Nat \ {0} /\ IsFiniteSet(Ports)
    /\ HttpsPorts \cap HttpPorts = {}
    /\ 443 \in HttpsPorts /\ 80 \in HttpPorts
ASSUME MaxEndpointsAssumption == MaxEndpoints \in Nat \ {0}

VARIABLES
    pc,         \* "start", "probe", "gau", "done", "raised"
    open,       \* net_summary["open_ports"], in its order
    service,    \* net_summary["services"]: nmap's name for each, or "none"
    cdn,        \* cdn_for_ip(target.ip) found a CDN
    httpName,   \* the domain name begins with "http"
    wordlist,   \* the ffuf wordlist is a file
    targets,    \* summary["web_targets"]
    probed,     \* how many of them have been through _probe_endpoint
    found,      \* summary["endpoints_capped"]["found"], or 0 if it is not there
    files,      \* tag of the evidence files -> the URLs they tell about
    fuzzed,     \* the URLs ffuf was run against
    noWebPort   \* the summary says that the target has no open web port

inputs == <<open, service, cdn, httpName, wordlist>>

vars == <<pc, inputs, targets, probed, found, files, fuzzed, noWebPort>>

----------------------------------------------------------------------------
(* The input: any network-scan summary.  What it lists need not be all that is *)
(* open: a scan that was aborted lists nothing, and one of whose sweep chunks *)
(* failed or timed out lacks that range.                                      *)

\* The names nmap gives to what listens, by what the loop looks for in them.  -sV
\* tells HTTP inside TLS from plain HTTP by the tunnel attribute, which parse_scan
\* does not read; the name is "http" for both.  "https" is the name by port number
\* alone, "ssl" a TLS service nothing more is known of.
Names == {"none", "http", "https", "ssl", "other"}

Listed == in(open)

----------------------------------------------------------------------------
(* _web_targets *)

isHttps(p) == p \in HttpsPorts \/ service[p] \in {"https", "ssl"}

isHttp(p) == p \in HttpPorts \/ (service[p] = "http" /\ ~isHttps(p))

\* Here and below, D_<fault> is D with a fault put in, for mutation only.
isWeb_numbersOnly(p) == p \in HttpsPorts \cup HttpPorts

isWeb(p) == isHttps(p) \/ isHttp(p)

url(p) ==
    LET scheme == IF isHttps(p) THEN "https" ELSE "http"
    IN  [scheme |-> scheme,
         port |-> IF <<scheme, p>> \in {<<"https", 443>>, <<"http", 80>>} THEN 0 ELSE p]

\* In the order of the ports.  These are distinct, so no URL comes up twice.
webTargets ==
    {[i \in DOMAIN web |-> url(web[i])] :
       web \in Kept(open, {i \in DOMAIN open : isWeb(open[i])})}

----------------------------------------------------------------------------
(* The rest of run_web_recon's helpers. *)

Verbatim == [scheme |-> "http"]

\* _dedupe_scheme: what it keeps is of a scheme that nothing it kept before is of.
dedupeScheme(ts) ==
    UNION {Kept(ts, S) :
             S \in {S \in SUBSET DOMAIN ts :
                      \A i \in DOMAIN ts :
                        i \in S <=> \A j \in S : j < i => ts[j].scheme # ts[i].scheme}}

capped_late(ts) ==
    IF Len(ts) > MaxEndpoints + 1 THEN SubSeq(ts, 1, MaxEndpoints) ELSE ts

\* The governor.
capped(ts) == IF Len(ts) > MaxEndpoints THEN SubSeq(ts, 1, MaxEndpoints) ELSE ts

urlTag_always80(u) == <<u.scheme, IF u.port # 0 THEN u.port ELSE 80>>

\* _url_tag: the port is spelled out again.
urlTag(u) ==
    <<u.scheme, IF u.port # 0 THEN u.port ELSE IF u.scheme = "https" THEN 443 ELSE 80>>

Tags == {"http", "https"} \X ({443, 80} \cup Ports)

----------------------------------------------------------------------------

Init ==
    /\ pc = "start"
    /\ open \in Orders(Ports, Cardinality(Ports))
    /\ service \in {f \in [Ports -> Names] : \A p \in Ports \ Listed : f[p] = "none"}
    /\ cdn \in BOOLEAN
    /\ httpName \in BOOLEAN
    /\ wordlist \in BOOLEAN
    /\ targets = <<>>
    /\ probed = 0
    /\ found = 0
    /\ files = [t \in Tags |-> {}]
    /\ fuzzed = {}
    /\ noWebPort = FALSE

\* The start of run_web_recon, up to summary["web_targets"].
ChooseTargets ==
    /\ pc = "start"
    /\ \E all \in IF httpName THEN {<<Verbatim>>} ELSE webTargets :
       \E some \in IF cdn THEN dedupeScheme(all) ELSE {all} :
         /\ targets' = capped(some)
         /\ found' = IF Len(some) > MaxEndpoints THEN Len(some) ELSE 0
    /\ pc' = "probe"
    /\ UNCHANGED <<inputs, probed, files, fuzzed, noWebPort>>

\* _probe_endpoint: httpx, whatweb, katana and, but for a CDN or a missing
\* wordlist, ffuf.  run_tool comes back from each, whatever it says.
ProbeEndpoint ==
    /\ pc = "probe"
    /\ probed < Len(targets)
    /\ LET u == targets[probed + 1] IN
         /\ u # Verbatim
         /\ files' = [files EXCEPT ![urlTag(u)] = @ \cup {u}]
         /\ fuzzed' = IF ~cdn /\ wordlist THEN fuzzed \cup {u} ELSE fuzzed
    /\ probed' = probed + 1
    /\ UNCHANGED <<pc, inputs, targets, found, noWebPort>>

\* _url_tag splits at "://" and takes the second half.
TagRaises ==
    /\ pc = "probe"
    /\ probed < Len(targets)
    /\ targets[probed + 1] = Verbatim
    /\ pc' = "raised"
    /\ UNCHANGED <<inputs, targets, probed, found, files, fuzzed, noWebPort>>

\* Every endpoint is done, or there is none, which the summary puts down to the target.
ProbesDone ==
    /\ pc = "probe"
    /\ probed = Len(targets)
    /\ noWebPort' = (targets = <<>>)
    /\ pc' = "gau"
    /\ UNCHANGED <<inputs, targets, probed, found, files, fuzzed>>

\* gau asks for the domain, with or without an endpoint.
Gau ==
    /\ pc = "gau"
    /\ pc' = "done"
    /\ UNCHANGED <<inputs, targets, probed, found, files, fuzzed, noWebPort>>

Next == ChooseTargets \/ ProbeEndpoint \/ TagRaises \/ ProbesDone \/ Gau

Spec == Init /\ [][Next]_vars

----------------------------------------------------------------------------
(* Properties. *)

ByNumber(p) == p \in HttpsPorts \cup HttpPorts
ByName(p)   == service[p] \in {"http", "https", "ssl"}

\* When the phase has run, every port of the network scan's summary that its
\* number or nmap's name gives away as a web port has been probed, or web-recon's
\* own summary says why not: it lists the endpoints as capped, or it names the CDN
\* and has one endpoint of that scheme.  That the target has no open web port is
\* said only when the scan's summary lists none (web_recon.py:197-203); of a port
\* the scan missed, or of a host whose scan was aborted, it is said all the same.
WebPortsAccountedFor ==
    \A p \in Listed : ByNumber(p) \/ ByName(p) =>
        /\ pc = "done" =>
             \/ url(p) \in files[urlTag(url(p))]
             \/ found > Len(targets) /\ Len(targets) = MaxEndpoints
             \/ cdn /\ \E u \in in(targets) : u.scheme = url(p).scheme
        /\ ~noWebPort

\* Two endpoints never share an evidence file, however their URLs are written:
\* what is in <tag>_httpx.txt tells about one of them (web_recon.py:64-72).
EndpointsKeepTheirFiles == \A t \in Tags : Cardinality(files[t]) <= 1

\* A CDN edge is fingerprinted once per scheme and never fuzzed, and no host
\* gets the tools against more than MaxEndpoints endpoints
\* (web_recon.py:22-25, 170-189).
LoadIsBounded ==
    /\ Len(targets) <= MaxEndpoints
    /\ cdn => /\ fuzzed = {}
              /\ \A i, j \in 1..Len(targets) : targets[i].scheme = targets[j].scheme => i = j

\* "If the operator already handed us a full URL, honor it verbatim."
\* (web_recon.py:164): the phase comes back, whatever the domain is called.
PhaseComesBack == pc # "raised"

=============================================================================
