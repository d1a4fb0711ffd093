-------------------------------- MODULE Recon --------------------------------
(***************************************************************************)
(* What reconbox does about a domain: the resolver decides whether there is *)
(* one (resolver.py), dns-recon asks its servers (dns_recon.py), osint asks *)
(* third parties (osint.py).  Each step is one external tool whose answer   *)
(* the next ones are built from.  A tool's output is what the code reads of *)
(* it; steps nothing depends on have no data.                               *)
(***************************************************************************)
EXTENDS Integers, Sequences

CONSTANTS
    Names,          \* hostnames an operator or a PTR record may give
    Ip,             \* an IP address, as the operator's input
    NoName,         \* no hostname
    Valid(_),       \* _HOSTNAME_RE matches the name
    Cloud(_),       \* a pattern of CLOUD_PTR_PATTERNS matches the name
    LowerCase(_),   \* the name has no upper-case letter
    Dotted(_),      \* the name ends in a dot, as _HOSTNAME_RE lets it
    Nameservers,    \* hosts that dig lists for the domain
    Complaints,     \* lines dig prints there when it cannot ask
    Safe(_),        \* a line as _safe puts it into a file name
    MaxLines,       \* bound on the lines of that list
    Wordlists,      \* what the subdomain wordlist may be
    MaxEntries,     \* bound on the entries of crt.sh's answer
    Caps            \* what RECONBOX_SUBDOMAIN_MAX may be

ASSUME ReconAssumption ==
    /\ Ip \notin Names /\ NoName \notin Names
    /\ Nameservers \cap Complaints = {}
    /\ \A s \in Nameservers, t \in Nameservers \cup Complaints : Safe(s) = Safe(t) => s = t
    /\ Caps \subseteq Int
    /\ MaxLines \in Nat /\ MaxEntries \in Nat
    /\ \A w \in Wordlists : w \in Seq({"blank", "comment", "word"})

VARIABLES
    at,             \* the step that comes next
    raw,            \* the operator's input
    target,         \* what resolve_target returned
    lines,          \* the nameserver list
    transfers,      \* zone_transfer_succeeded, per line asked so far
    files,          \* the 06_axfr files: file name -> [by, holds]
    SUBDOMAIN_BRUTE_MAX,
    wordlist,       \* the wordlist, or <<>>
    line,           \* its line under the loop
    candidates,     \* the words written so far
    count,          \* the code's count of them
    answer,         \* the entries of crt.sh's answer
    subs            \* the names kept of them

vars == <<at, raw, target, lines, transfers, files, SUBDOMAIN_BRUTE_MAX, wordlist, line,
          candidates, count, answer, subs>>

dns_vars   == <<lines, transfers, files>>
brute_vars == <<SUBDOMAIN_BRUTE_MAX, wordlist, line, candidates, count>>
osint_vars == <<answer, subs>>

----------------------------------------------------------------------------
(* resolver.py                                                               *)

Target(domain, ip) == [domain |-> domain, ip |-> ip, is_domain_target |-> domain # NoName]

\* A hostname, with or without an address.
resolve_from_domain(domain) == {Target(domain, found) : found \in BOOLEAN}

\* Here and below, D_<fault> is D with a fault put in, for mutation only.
resolve_from_ip_trusting(ptr) ==
    {Target(IF ptr = NoName \/ Cloud(ptr) THEN NoName ELSE ptr, TRUE)}

\* An address: its PTR record makes it a domain target when the name is neither
\* a cloud provider's nor malformed.
resolve_from_ip(ptr) ==
    {Target(IF ptr = NoName \/ Cloud(ptr) \/ ~Valid(ptr) THEN NoName ELSE ptr, TRUE)}

Init ==
    /\ at = "resolve"
    /\ raw \in Names \cup {Ip}
    /\ target = Target(NoName, FALSE)
    /\ lines = <<>> /\ transfers = <<>>
    /\ files = <<>>
    /\ SUBDOMAIN_BRUTE_MAX \in Caps
    /\ wordlist = <<>> /\ line = 1 /\ candidates = <<>> /\ count = 0
    /\ answer = <<>> /\ subs = {}

\* resolve_target, and main()'s branch on what it returns.
Resolve ==
    /\ at = "resolve"
    /\ \/ raw = Ip /\ \E ptr \in Names \cup {NoName} : target' \in resolve_from_ip(ptr)
       \/ raw # Ip /\ Valid(raw) /\ target' \in resolve_from_domain(raw)
    /\ at' = IF target'.is_domain_target THEN "whois" ELSE "over"
    /\ UNCHANGED <<raw, dns_vars, brute_vars, osint_vars>>

\* ValueError: main() ends.
Reject ==
    /\ at = "resolve"
    /\ raw # Ip /\ ~Valid(raw)
    /\ at' = "over"
    /\ UNCHANGED <<raw, target, dns_vars, brute_vars, osint_vars>>

----------------------------------------------------------------------------
(* dns_recon.py                                                              *)

\* A query whose answer is only kept.
Then(here, next) ==
    /\ at = here /\ at' = next
    /\ UNCHANGED <<raw, target, dns_vars, brute_vars, osint_vars>>

Whois  == Then("whois", "dig")
Dig    == Then("dig", "subfinder")      \* A, NS, MX and TXT
\* dnsx runs on what subfinder found, if anything.
Subfinder == Then("subfinder", "dnsx") \/ Then("subfinder", "dig any")
Dnsx      == Then("dnsx", "dig any")
DigAny    == Then("dig any", "ns list")

\* dig lists a nameserver once, and may complain more than once.
NsAnswers ==
    {s \in UNION {[1..n -> Nameservers \cup Complaints] : n \in 0..MaxLines} :
       \A i, j \in DOMAIN s : s[i] = s[j] /\ s[i] \in Nameservers => i = j}

\* Every line of the answer is taken for a nameserver, its exit status unread.
NsList ==
    /\ at = "ns list"
    /\ lines' \in NsAnswers
    /\ at' = "axfr"
    /\ UNCHANGED <<raw, target, transfers, files, brute_vars, osint_vars>>

\* How dig may come back from an AXFR, "none" without any output for whatever
\* reason, and what it printed: a zone closes with "XFR size"; a server that
\* refuses, or breaks off, makes it say "Transfer failed", exit 0 or not.
AxfrAnswers(server) ==
    {[exit |-> "none", holds |-> "nothing"], [exit |-> "nonzero", holds |-> "complaint"],
     [exit |-> "timeout", holds |-> "part"]}
    \cup IF server \in Nameservers
         THEN {[exit |-> "zero", holds |-> "zone"], [exit |-> "zero", holds |-> "failed"],
               [exit |-> "nonzero", holds |-> "failed"]}
         ELSE {}

succeeded(a) == a.exit = "zero" /\ a.holds = "zone"

axfr_file_perDomain(server) == "06_axfr"
axfr_file(server)           == Safe(server)

AsksOn == Len(transfers) < Len(lines)

\* One nameserver: its transfer, then its version, which nothing reads.
Axfr ==
    /\ at = "axfr" /\ AsksOn
    /\ LET server == lines[Len(transfers) + 1]
           file   == axfr_file(server)
       IN  \E a \in AxfrAnswers(server) :
             /\ transfers' = Append(transfers, succeeded(a))
             /\ files' = IF a.exit = "none" THEN files
                         ELSE [f \in DOMAIN files \cup {file} |->
                                 IF f = file THEN [by |-> server, holds |-> a.holds]
                                 ELSE files[f]]
    /\ UNCHANGED <<at, raw, target, lines, brute_vars, osint_vars>>

\* The brute force begins with its wordlist, if that is a file.
OpenWordlist ==
    /\ at = "axfr" /\ ~AsksOn
    /\ \/ wordlist' \in Wordlists /\ at' = "candidates"
       \/ UNCHANGED wordlist /\ at' = "crtsh"
    /\ UNCHANGED <<raw, target, dns_vars, SUBDOMAIN_BRUTE_MAX, line, candidates, count, osint_vars>>

skipped(l) == l \in {"blank", "comment"}

capReached_late == count' > SUBDOMAIN_BRUTE_MAX
capReached      == count' >= SUBDOMAIN_BRUTE_MAX

\* The loop over the lines of the wordlist; the cap is tested after the write.
Candidate ==
    /\ at = "candidates" /\ line <= Len(wordlist)
    /\ line' = line + 1
    /\ IF skipped(wordlist[line])
       THEN UNCHANGED <<at, candidates, count>>
       ELSE /\ candidates' = Append(candidates, line)
            /\ count' = count + 1
            /\ at' = IF capReached THEN "dnsx brute" ELSE at
    /\ UNCHANGED <<raw, target, dns_vars, SUBDOMAIN_BRUTE_MAX, wordlist, osint_vars>>

WordlistOver ==
    /\ line > Len(wordlist)
    /\ Then("candidates", "dnsx brute")

DnsxBrute == Then("dnsx brute", "crtsh")

----------------------------------------------------------------------------
(* osint.py, after web-recon (module WebRecon).                              *)

\* A name in the answer, by what it is to the domain: "sibling" only ends in the
\* same letters; "null" is an entry without a string where one is expected.
Entries == {"domain", "sublabel", "sibling", "null"}

\* Names are lowered before they are compared with the domain, which is taken as it
\* was given; and no name on a certificate ends in a dot.
Comparable(domain) == LowerCase(domain) /\ ~Dotted(domain)

belongs_endsWith(entry) == Comparable(target.domain) /\ entry \in {"domain", "sublabel", "sibling"}

belongs(entry) == Comparable(target.domain) /\ entry \in {"domain", "sublabel"}

\* The loop ends at the first entry it trips over and keeps what it has.
Readable(entries) ==
    LET bad == {i \in 1..Len(entries) : entries[i] = "null"}
    IN  {i \in 1..Len(entries) : \A j \in bad : i < j}

kept(entries) == {i \in Readable(entries) : belongs(entries[i])}

\* _crtsh: anything but a JSON list counts as an empty one.
Crtsh ==
    /\ at = "crtsh"
    /\ answer' \in UNION {[1..n -> Entries] : n \in 0..MaxEntries}
    /\ subs' = kept(answer')
    /\ at' = "cert"
    /\ UNCHANGED <<raw, target, dns_vars, brute_vars>>

Cert == Then("cert", "shodan")

\* Asked only with a key and an address; skipped otherwise.
Shodan == Then("shodan", "over")

\* A disk that refuses errors.log, _subdomains_found.txt, the candidates or the
\* names ends the run: nothing here is caught.
Dies ==
    /\ at \notin {"resolve", "over", "dead"}
    /\ at' = "dead"
    /\ UNCHANGED <<raw, target, dns_vars, brute_vars, osint_vars>>

Next ==
    \/ Resolve \/ Reject
    \/ Whois \/ Dig \/ Subfinder \/ Dnsx \/ DigAny \/ NsList \/ Axfr
    \/ OpenWordlist \/ Candidate \/ WordlistOver \/ DnsxBrute
    \/ Crtsh \/ Cert \/ Shodan
    \/ Dies

Spec == Init /\ [][Next]_vars

----------------------------------------------------------------------------
(* Properties. *)

Steps == {"resolve", "whois", "dig", "subfinder", "dnsx", "dig any", "ns list", "axfr",
          "candidates", "dnsx brute", "crtsh", "cert", "shodan", "over", "dead"}

TypeOK ==
    /\ at \in Steps
    /\ raw \in Names \cup {Ip}
    /\ target.domain \in Names \cup {NoName} /\ target.ip \in BOOLEAN
    /\ Len(transfers) <= Len(lines)
    /\ \A f \in DOMAIN files : files[f].by \in Nameservers \cup Complaints
    /\ SUBDOMAIN_BRUTE_MAX \in Caps
    /\ line \in 1..Len(wordlist) + 1

\* "a target -- or an attacker-controlled PTR record -- can never smuggle a leading
\* dash into a tool's argv" (resolver.py:22): the name the domain tools are given
\* is well-formed, and a provider's only when the operator typed it.
NamesAreVetted ==
    target.domain # NoName =>
        /\ Valid(target.domain)
        /\ Cloud(target.domain) => target.domain = raw

\* A zone transfer is told in the summary exactly when the zone is in the file of
\* that nameserver, which no later query has overwritten (dns_recon.py:112-119).
TransfersTrue ==
    \A i \in 1..Len(transfers) :
        transfers[i] <=> /\ lines[i] \in Nameservers
                         /\ Safe(lines[i]) \in DOMAIN files
                         /\ files[Safe(lines[i])] = [by |-> lines[i], holds |-> "zone"]

Words == {i \in 1..Len(wordlist) : wordlist[i] \notin {"blank", "comment"}}
Allowed == IF SUBDOMAIN_BRUTE_MAX < 1 THEN 1 ELSE SUBDOMAIN_BRUTE_MAX
Chosen == {candidates[i] : i \in 1..Len(candidates)}

\* The candidates are the first words of the wordlist, in its order and none left
\* out, as many as the cap allows -- but one when the cap is less than that
\* (dns_recon.py:146) -- and the number told is theirs.
CandidatesExact ==
    /\ count = Len(candidates) /\ count <= Allowed
    /\ \A i, j \in 1..Len(candidates) : i < j => candidates[i] < candidates[j]
    /\ Chosen \subseteq Words
    /\ \A w \in Words, c \in Chosen : w < c => w \in Chosen
    /\ at = "dnsx brute" => count = Allowed \/ Chosen = Words

\* "Exact match or a real sub-label only" (osint.py:54-56): nothing else is kept, and
\* nothing of the domain's is dropped but what follows an entry the loop trips over,
\* and everything when the domain was given with an upper-case letter or with the
\* trailing dot the resolver accepts (resolver.py:21-29).
SubdomainsExact ==
    \A i \in DOMAIN answer :
        i \in subs <=> /\ answer[i] \in {"domain", "sublabel"}
                       /\ \A j \in 1..i : answer[j] # "null"
                       /\ LowerCase(target.domain) /\ ~Dotted(target.domain)

=============================================================================
