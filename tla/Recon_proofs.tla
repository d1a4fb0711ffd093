----------------------------- MODULE Recon_proofs -----------------------------
(***************************************************************************)
(* The steps about a domain for any names, nameservers, wordlists and caps: *)
(* which names may reach the tools, when a zone transfer is told, which     *)
(* candidates are tried and which names of crt.sh's answer are kept.        *)
(***************************************************************************)
EXTENDS Recon, TLAPS, SequenceTheorems

-----------------------------------------------------------------------------
(* The invariant, part by part.  Each is about the variables of one step.    *)

Hosts == Nameservers \cup Complaints

Lines == {"blank", "comment", "word"}

\* The target is what the resolver let through.
TargetInv ==
    /\ at \in Steps
    /\ raw \in Names \cup {Ip}
    /\ target.domain \in Names \cup {NoName} /\ target.ip \in BOOLEAN
    /\ NamesAreVetted

\* The nameserver list, and the transfers so far with their files.
ZoneInv ==
    /\ lines \in Seq(Hosts)
    /\ \A i, j \in 1..Len(lines) : lines[i] = lines[j] /\ lines[i] \in Nameservers => i = j
    /\ transfers \in Seq(BOOLEAN) /\ Len(transfers) <= Len(lines)
    /\ \A f \in DOMAIN files : \E i \in 1..Len(transfers) : files[f].by = lines[i]
    /\ at \in {"resolve", "whois", "dig", "subfinder", "dnsx", "dig any", "ns list"} =>
         transfers = <<>>
    /\ TransfersTrue

\* The loop over the wordlist.
LoopInv ==
    /\ SUBDOMAIN_BRUTE_MAX \in Caps /\ SUBDOMAIN_BRUTE_MAX \in Int
    /\ wordlist \in Seq(Lines)
    /\ line \in 1..Len(wordlist) + 1
    /\ candidates \in Seq(Nat)
    /\ at \in Steps \ {"candidates", "dnsx brute", "crtsh", "cert", "shodan", "over", "dead"} =>
         line = 1 /\ candidates = <<>> /\ count = 0
    /\ at = "candidates" => count < Allowed
    /\ \A c \in Chosen : c < line
    /\ \A w \in Words : w < line => w \in Chosen
    /\ CandidatesExact

\* What is kept of crt.sh's answer.
AnswerInv ==
    /\ at = "resolve" => answer = <<>>
    /\ SubdomainsExact

IInv == TargetInv /\ ZoneInv /\ LoopInv /\ AnswerInv

LEMMA InitIInv == Init => IInv
<1> SUFFICES ASSUME Init PROVE IInv
  OBVIOUS
<1>1. TargetInv
  BY DEF Init, TargetInv, Steps, Target, NamesAreVetted
<1>2. ZoneInv
  <2>1. <<>> \in Seq(Hosts) /\ <<>> \in Seq(BOOLEAN) /\ Len(<<>>) = 0 /\ DOMAIN <<>> = {}
    OBVIOUS
  <2> QED
    BY <2>1 DEF Init, ZoneInv, TransfersTrue
<1>3. LoopInv
  <2>1. /\ wordlist = <<>> /\ candidates = <<>> /\ line = 1 /\ count = 0
        /\ at = "resolve" /\ SUBDOMAIN_BRUTE_MAX \in Caps /\ SUBDOMAIN_BRUTE_MAX \in Int
    BY ReconAssumption DEF Init
  <2>2. wordlist \in Seq(Lines) /\ candidates \in Seq(Nat) /\ Len(wordlist) = 0 /\ Len(candidates) = 0
    BY <2>1
  <2>3. Chosen = {} /\ Words = {}
    BY <2>2 DEF Chosen, Words
  <2>4. CandidatesExact
    BY <2>1, <2>2, <2>3 DEF CandidatesExact, Allowed
  <2> QED
    BY <2>1, <2>2, <2>3, <2>4 DEF LoopInv
<1>4. AnswerInv
  <2>1. answer = <<>> /\ subs = {} /\ DOMAIN answer = {}
    BY DEF Init
  <2> QED
    BY <2>1 DEF AnswerInv, SubdomainsExact
<1> QED
  BY <1>1, <1>2, <1>3, <1>4 DEF IInv

-----------------------------------------------------------------------------
(* The target. *)

LEMMA TargetStep == TargetInv /\ [Next]_vars => TargetInv'
<1> SUFFICES ASSUME TargetInv, [Next]_vars PROVE TargetInv'
  OBVIOUS
<1>1. CASE Resolve
  <2>1. \/ \E ptr \in Names \cup {NoName} : target' \in resolve_from_ip(ptr)
        \/ Valid(raw) /\ raw # Ip /\ target' \in resolve_from_domain(raw)
    BY <1>1 DEF Resolve
  <2>2. raw' = raw /\ at' \in Steps
    BY <1>1 DEF Resolve, Steps
  <2>3. CASE \E ptr \in Names \cup {NoName} : target' \in resolve_from_ip(ptr)
    <3>1. PICK ptr \in Names \cup {NoName} : target' \in resolve_from_ip(ptr)
      BY <2>3
    <3>2. /\ target'.domain = IF ptr = NoName \/ Cloud(ptr) \/ ~Valid(ptr) THEN NoName ELSE ptr
          /\ target'.ip = TRUE
      BY <3>1 DEF resolve_from_ip, Target
    <3> QED
      BY <2>2, <3>2 DEF TargetInv, NamesAreVetted
  <2>4. CASE Valid(raw) /\ raw # Ip /\ target' \in resolve_from_domain(raw)
    <3>1. target'.domain = raw /\ target'.ip \in BOOLEAN
      BY <2>4 DEF resolve_from_domain, Target
    <3> QED
      BY <2>2, <2>4, <3>1 DEF TargetInv, NamesAreVetted
  <2> QED
    BY <2>1, <2>3, <2>4
<1>2. CASE ~Resolve
  <2>1. UNCHANGED <<raw, target>>
    BY <1>2 DEF Next, Reject, Whois, Dig, Subfinder, Dnsx, DigAny, NsList, Axfr, OpenWordlist,
                Candidate, WordlistOver, DnsxBrute, Crtsh, Cert, Shodan, Dies, Then, vars
  <2>2. at' \in Steps
    BY <1>2 DEF Next, Reject, Whois, Dig, Subfinder, Dnsx, DigAny, NsList, Axfr, OpenWordlist,
                Candidate, WordlistOver, DnsxBrute, Crtsh, Cert, Shodan, Dies, Then, vars,
                TargetInv, Steps
  <2> QED
    BY <2>1, <2>2 DEF TargetInv, NamesAreVetted
<1> QED
  BY <1>1, <1>2

-----------------------------------------------------------------------------
(* The zone transfers. *)

\* The next nameserver.
LEMMA ServerFacts ==
    ASSUME ZoneInv, AsksOn, NEW a \in AxfrAnswers(lines[Len(transfers) + 1]),
           transfers' = Append(transfers, succeeded(a))
    PROVE  /\ Len(transfers) \in Nat /\ Len(lines) \in Nat
           /\ Len(transfers) + 1 \in 1..Len(lines) /\ lines[Len(transfers) + 1] \in Hosts
           /\ transfers' \in Seq(BOOLEAN) /\ Len(transfers') = Len(transfers) + 1
           /\ \A i \in 1..Len(transfers) : transfers'[i] = transfers[i]
           /\ transfers'[Len(transfers) + 1] = succeeded(a)
<1>1. Len(transfers) \in Nat /\ Len(lines) \in Nat
  BY LenProperties DEF ZoneInv
<1>2. Len(transfers) + 1 \in 1..Len(lines)
  <2>1. Len(transfers) < Len(lines)
    BY DEF AsksOn
  <2> QED
    BY <1>1, <2>1
<1>3. lines[Len(transfers) + 1] \in Hosts
  BY <1>2, ElementOfSeq DEF ZoneInv
<1>4. succeeded(a) \in BOOLEAN /\ transfers \in Seq(BOOLEAN)
  BY DEF succeeded, ZoneInv
<1> QED
  BY <1>1, <1>2, <1>3, <1>4, AppendProperties

\* The transfer of one nameserver leaves the telling of the earlier ones true, and
\* its own is true.
LEMMA AxfrStep == ZoneInv /\ Axfr => ZoneInv'
<1> SUFFICES ASSUME ZoneInv, Axfr PROVE ZoneInv'
  OBVIOUS
<1>0. PICK server : server = lines[Len(transfers) + 1]
  OBVIOUS
<1>1. PICK a \in AxfrAnswers(server) :
         /\ transfers' = Append(transfers, succeeded(a))
         /\ files' = IF a.exit = "none" THEN files
                     ELSE [f \in DOMAIN files \cup {axfr_file(server)} |->
                             IF f = axfr_file(server) THEN [by |-> server, holds |-> a.holds]
                             ELSE files[f]]
  BY <1>0 DEF Axfr
<1>2. AsksOn /\ at = "axfr" /\ at' = at /\ lines' = lines
  BY DEF Axfr
<1> DEFINE n == Len(transfers)
<1>3. /\ n \in Nat /\ Len(lines) \in Nat /\ n + 1 \in 1..Len(lines) /\ server \in Hosts
      /\ transfers' \in Seq(BOOLEAN) /\ Len(transfers') = n + 1
      /\ \A i \in 1..n : transfers'[i] = transfers[i]
      /\ transfers'[n + 1] = succeeded(a)
  BY <1>0, <1>1, <1>2, ServerFacts
<1>4. server \in Nameservers => \A i \in 1..n : lines[i] # server
  <2>1. \A i \in 1..n : i \in 1..Len(lines) /\ i # n + 1
    BY <1>3
  <2> QED
    BY <1>0, <1>3, <2>1 DEF ZoneInv
<1>5. \A i \in 1..n : lines[i] \in Nameservers => Safe(lines[i]) # Safe(server)
  <2> SUFFICES ASSUME NEW i \in 1..n, lines[i] \in Nameservers, Safe(lines[i]) = Safe(server)
               PROVE  FALSE
    OBVIOUS
  <2>1. lines[i] = server
    BY <1>3, ReconAssumption DEF Hosts
  <2> QED
    BY <1>4, <2>1
<1>6. /\ succeeded(a) => a.exit # "none" /\ a.holds = "zone" /\ server \in Nameservers
      /\ a.holds = "zone" => succeeded(a)
  BY <1>1 DEF AxfrAnswers, succeeded
<1>7. ASSUME NEW f \in DOMAIN files'
      PROVE  \E i \in 1..n + 1 : files'[f].by = lines[i]
  <2>1. CASE a.exit # "none" /\ f = axfr_file(server)
    BY <1>0, <1>1, <1>3, <2>1
  <2>2. CASE ~(a.exit # "none" /\ f = axfr_file(server))
    <3>1. f \in DOMAIN files /\ files'[f] = files[f]
      BY <1>1, <2>2
    <3>2. PICK i \in 1..n : files[f].by = lines[i]
      BY <3>1 DEF ZoneInv
    <3> QED
      BY <1>3, <3>1, <3>2
  <2> QED
    BY <2>1, <2>2
<1>8. ASSUME NEW i \in 1..n
      PROVE  transfers'[i] <=> /\ lines[i] \in Nameservers
                               /\ Safe(lines[i]) \in DOMAIN files'
                               /\ files'[Safe(lines[i])] = [by |-> lines[i], holds |-> "zone"]
  <2>1. transfers[i] <=> /\ lines[i] \in Nameservers
                         /\ Safe(lines[i]) \in DOMAIN files
                         /\ files[Safe(lines[i])] = [by |-> lines[i], holds |-> "zone"]
    BY DEF ZoneInv, TransfersTrue
  <2>2. CASE lines[i] \notin Nameservers
    BY <1>3, <2>1, <2>2
  <2>3. CASE lines[i] \in Nameservers
    <3>1. Safe(lines[i]) # axfr_file(server)
      BY <1>5, <2>3 DEF axfr_file
    <3>2. /\ Safe(lines[i]) \in DOMAIN files' <=> Safe(lines[i]) \in DOMAIN files
          /\ Safe(lines[i]) \in DOMAIN files => files'[Safe(lines[i])] = files[Safe(lines[i])]
      BY <1>1, <3>1
    <3> QED
      BY <1>3, <2>1, <3>2
  <2> QED
    BY <2>2, <2>3
<1>9. succeeded(a) <=> /\ server \in Nameservers
                       /\ Safe(server) \in DOMAIN files'
                       /\ files'[Safe(server)] = [by |-> server, holds |-> "zone"]
  <2>1. CASE a.exit = "none"
    <3>1. files' = files /\ ~succeeded(a)
      BY <1>1, <2>1 DEF succeeded
    <3>2. ASSUME server \in Nameservers, Safe(server) \in DOMAIN files,
                 files[Safe(server)] = [by |-> server, holds |-> "zone"]
          PROVE  FALSE
      <4>1. PICK i \in 1..n : files[Safe(server)].by = lines[i]
        BY <3>2 DEF ZoneInv
      <4> QED
        BY <1>4, <3>2, <4>1
    <3> QED
      BY <3>1, <3>2
  <2>2. CASE a.exit # "none"
    <3>1. Safe(server) \in DOMAIN files' /\ files'[Safe(server)] = [by |-> server, holds |-> a.holds]
      BY <1>1, <2>2 DEF axfr_file
    <3>2. a.holds = "zone" <=> files'[Safe(server)] = [by |-> server, holds |-> "zone"]
      <4>1. files'[Safe(server)].holds = a.holds
        BY <3>1
      <4> QED
        BY <3>1, <4>1
    <3> QED
      BY <1>6, <3>1, <3>2
  <2> QED
    BY <2>1, <2>2
<1>10. TransfersTrue'
  <2> SUFFICES ASSUME NEW i \in 1..Len(transfers')
               PROVE  (transfers[i] <=> /\ lines[i] \in Nameservers
                                        /\ Safe(lines[i]) \in DOMAIN files
                                        /\ files[Safe(lines[i])] = [by |-> lines[i], holds |-> "zone"])'
    BY DEF TransfersTrue
  <2>1. i \in 1..n \/ i = n + 1
    BY <1>3
  <2> QED
    BY <1>0, <1>2, <1>3, <1>8, <1>9, <2>1
<1> QED
  BY <1>2, <1>3, <1>7, <1>10 DEF ZoneInv

LEMMA ZoneStep == ZoneInv /\ [Next]_vars => ZoneInv'
<1> SUFFICES ASSUME ZoneInv, [Next]_vars PROVE ZoneInv'
  OBVIOUS
<1>1. CASE Axfr
  BY <1>1, AxfrStep
<1>2. CASE NsList
  <2>1. PICK m \in 0..MaxLines : lines' \in [1..m -> Hosts]
    BY <1>2 DEF NsList, NsAnswers, Hosts
  <2>2. m \in Nat
    BY ReconAssumption
  <2>3. lines' \in Seq(Hosts) /\ Len(lines') = m /\ DOMAIN lines' = 1..m
    BY <2>1, <2>2
  <2>4. \A i, j \in 1..m : lines'[i] = lines'[j] /\ lines'[i] \in Nameservers => i = j
    BY <1>2, <2>3 DEF NsList, NsAnswers
  <2>5. transfers' = <<>> /\ transfers = <<>> /\ files' = files /\ at' = "axfr" /\ Len(<<>>) = 0
    BY <1>2 DEF NsList, ZoneInv
  <2>6. DOMAIN files = {}
    <3>1. 1..Len(transfers) = {}
      BY <2>5
    <3> QED
      BY <3>1 DEF ZoneInv
  <2> QED
    BY <2>2, <2>3, <2>4, <2>5, <2>6 DEF ZoneInv, TransfersTrue
<1>3. CASE ~Axfr /\ ~NsList
  <2>1. UNCHANGED <<lines, transfers, files>>
    BY <1>3 DEF Next, Resolve, Reject, Whois, Dig, Subfinder, Dnsx, DigAny, OpenWordlist,
                Candidate, WordlistOver, DnsxBrute, Crtsh, Cert, Shodan, Dies, Then, vars, dns_vars
  <2>2. at' \in {"resolve", "whois", "dig", "subfinder", "dnsx", "dig any", "ns list"} =>
          at \in {"resolve", "whois", "dig", "subfinder", "dnsx", "dig any", "ns list"}
    BY <1>3 DEF Next, Resolve, Reject, Whois, Dig, Subfinder, Dnsx, DigAny, OpenWordlist,
                Candidate, WordlistOver, DnsxBrute, Crtsh, Cert, Shodan, Dies, Then, vars
  <2> QED
    BY <2>1, <2>2 DEF ZoneInv, TransfersTrue
<1> QED
  BY <1>1, <1>2, <1>3

-----------------------------------------------------------------------------
(* The loop over the wordlist. *)

LEMMA OpenWordlistStep == LoopInv /\ OpenWordlist => LoopInv'
<1> SUFFICES ASSUME LoopInv, OpenWordlist PROVE LoopInv'
  OBVIOUS
<1>1. /\ line' = line /\ candidates' = candidates /\ count' = count
      /\ SUBDOMAIN_BRUTE_MAX' = SUBDOMAIN_BRUTE_MAX /\ at' \in {"candidates", "crtsh"}
      /\ at = "axfr"
  BY DEF OpenWordlist
<1>2. line = 1 /\ candidates = <<>> /\ count = 0
  BY <1>1 DEF LoopInv, Steps
<1>3. wordlist' \in Seq(Lines)
  BY ReconAssumption DEF OpenWordlist, LoopInv, Lines
<1>4. Len(wordlist') \in Nat /\ line' \in 1..Len(wordlist') + 1
  BY <1>1, <1>2, <1>3, LenProperties
<1>5. candidates' \in Seq(Nat) /\ Len(candidates') = 0
  BY <1>1, <1>2
<1>6. Chosen' = {}
  BY <1>5 DEF Chosen
<1>7. \A w \in Words' : ~(w < line')
  BY <1>1, <1>2, <1>4 DEF Words
<1>8. count' < Allowed' /\ count' <= Allowed'
  BY <1>1, <1>2 DEF Allowed, LoopInv
<1>9. CandidatesExact'
  <2>1. 1..Len(candidates') = {}
    BY <1>5
  <2>2. count' = Len(candidates') /\ at' # "dnsx brute"
    BY <1>1, <1>2, <1>5
  <2> QED
    BY <1>6, <1>8, <2>1, <2>2 DEF CandidatesExact
<1> QED
  BY <1>1, <1>3, <1>4, <1>5, <1>6, <1>7, <1>8, <1>9 DEF LoopInv, Steps

\* One line of the wordlist.
LEMMA CandidateStep == LoopInv /\ Candidate => LoopInv'
<1> SUFFICES ASSUME LoopInv, Candidate PROVE LoopInv'
  OBVIOUS
<1>1. /\ at = "candidates" /\ line <= Len(wordlist) /\ line' = line + 1
      /\ wordlist' = wordlist /\ SUBDOMAIN_BRUTE_MAX' = SUBDOMAIN_BRUTE_MAX
  BY DEF Candidate
<1>2. Len(wordlist) \in Nat /\ line \in 1..Len(wordlist) /\ line' \in 1..Len(wordlist) + 1
  <2>1. Len(wordlist) \in Nat /\ line \in 1..Len(wordlist) + 1
    BY LenProperties DEF LoopInv
  <2> QED
    BY <1>1, <2>1
<1>3. Words' = Words /\ Allowed' = Allowed /\ Words \subseteq 1..Len(wordlist)
  BY <1>1 DEF Words, Allowed
<1>4. count < Allowed /\ count = Len(candidates) /\ Len(candidates) \in Nat /\ Allowed \in Int
  BY <1>1, LenProperties DEF LoopInv, CandidatesExact, Allowed
<1>7. \A c \in Chosen : c \in Int /\ c < line
  <2>1. Chosen \subseteq Words /\ \A c \in Chosen : c < line
    BY DEF LoopInv, CandidatesExact
  <2> QED
    BY <1>2, <1>3, <2>1
<1>5. CASE skipped(wordlist[line])
  <2>1. UNCHANGED <<at, candidates, count>>
    BY <1>5 DEF Candidate
  <2>2. line \notin Words
    BY <1>5 DEF skipped, Words
  <2>3. Chosen' = Chosen
    BY <2>1 DEF Chosen
  <2>4. \A w \in Words' : w < line' => w \in Chosen'
    BY <1>1, <1>2, <1>3, <2>2, <2>3 DEF LoopInv
  <2>5. \A c \in Chosen' : c < line'
    <3>1. \A c \in Chosen : c \in Int /\ c < line
      BY <1>3, <1>7
    <3> QED
      BY <1>1, <1>2, <2>3, <3>1
  <2>6. CandidatesExact'
    BY <1>1, <1>3, <2>1, <2>3 DEF LoopInv, CandidatesExact
  <2> QED
    BY <1>1, <1>2, <1>3, <1>4, <2>1, <2>4, <2>5, <2>6 DEF LoopInv
<1>6. CASE ~skipped(wordlist[line])
  <2>1. /\ candidates' = Append(candidates, line) /\ count' = count + 1
        /\ at' = IF capReached THEN "dnsx brute" ELSE at
    BY <1>6 DEF Candidate
  <2>2. line \in Words
    BY <1>2, <1>6 DEF skipped, Words
  <2>3. line \in Nat /\ candidates \in Seq(Nat)
    <3>1. candidates \in Seq(Nat)
      BY DEF LoopInv
    <3> QED
      BY <1>2, <3>1
  <2>4. /\ candidates' \in Seq(Nat) /\ Len(candidates') = Len(candidates) + 1
        /\ \A i \in 1..Len(candidates) : candidates'[i] = candidates[i]
        /\ candidates'[Len(candidates) + 1] = line
    <3>1. candidates \in Seq(Nat) /\ line \in Nat
      BY <2>3
    <3> QED
      BY <2>1, <3>1, AppendProperties
  <2>5. Chosen' = Chosen \cup {line}
    BY <1>4, <2>4 DEF Chosen
  <2>6. \A c \in Chosen' : c < line'
    BY <1>1, <1>2, <1>7, <2>3, <2>5
  <2>8. \A w \in Words' : w < line' => w \in Chosen'
    BY <1>1, <1>2, <1>3, <2>5 DEF LoopInv
  <2>9. /\ at' = "dnsx brute" => count' = Allowed
        /\ at' = "candidates" => count' < Allowed
        /\ at' \in {"candidates", "dnsx brute"} /\ count' <= Allowed
    <3>1. SUBDOMAIN_BRUTE_MAX \in Int /\ count \in Nat /\ count' = count + 1
      BY <1>4, <2>1 DEF LoopInv
    <3>2. Allowed = IF SUBDOMAIN_BRUTE_MAX < 1 THEN 1 ELSE SUBDOMAIN_BRUTE_MAX
      BY DEF Allowed
    <3>3. at' = IF count' >= SUBDOMAIN_BRUTE_MAX THEN "dnsx brute" ELSE "candidates"
      BY <1>1, <2>1 DEF capReached
    <3>4. count' \in Int /\ count' <= Allowed
      BY <1>4, <3>1
    <3>5. count' >= SUBDOMAIN_BRUTE_MAX => count' = Allowed
      BY <1>4, <3>1, <3>2, <3>4
    <3>6. ~(count' >= SUBDOMAIN_BRUTE_MAX) => count' < Allowed
      BY <1>4, <3>1, <3>2, <3>4
    <3> QED
      BY <3>3, <3>4, <3>5, <3>6
  <2>10. ASSUME NEW i \in 1..Len(candidates'), NEW j \in 1..Len(candidates'), i < j
         PROVE  candidates'[i] < candidates'[j]
    <3>1. i \in 1..Len(candidates)
      BY <1>4, <2>4, <2>10
    <3>2. CASE j \in 1..Len(candidates)
      BY <2>4, <2>10, <3>1, <3>2 DEF LoopInv, CandidatesExact
    <3>3. CASE j = Len(candidates) + 1
      <4>1. candidates[i] \in Chosen
        BY <3>1 DEF Chosen
      <4> QED
        BY <1>7, <2>4, <3>1, <3>3, <4>1
    <3> QED
      BY <1>4, <2>4, <3>2, <3>3
  <2>11. Chosen' \subseteq Words'
    BY <1>3, <2>2, <2>5 DEF LoopInv, CandidatesExact
  <2>12. \A w \in Words', c \in Chosen' : w < c => w \in Chosen'
    BY <1>3, <2>5 DEF LoopInv, CandidatesExact
  <2>13. CandidatesExact'
    BY <1>3, <1>4, <2>1, <2>4, <2>9, <2>10, <2>11, <2>12 DEF CandidatesExact
  <2> QED
    BY <1>1, <1>2, <1>3, <2>4, <2>6, <2>8, <2>9, <2>13 DEF LoopInv
<1> QED
  BY <1>5, <1>6

LEMMA LoopStep == LoopInv /\ [Next]_vars => LoopInv'
<1> SUFFICES ASSUME LoopInv, [Next]_vars PROVE LoopInv'
  OBVIOUS
<1>1. CASE OpenWordlist
  BY <1>1, OpenWordlistStep
<1>2. CASE Candidate
  BY <1>2, CandidateStep
<1>3. CASE WordlistOver
  <2>1. UNCHANGED brute_vars /\ at' = "dnsx brute" /\ line > Len(wordlist)
    BY <1>3 DEF WordlistOver, Then
  <2>2. UNCHANGED <<Chosen, Words, Allowed>>
    BY <2>1 DEF brute_vars, Chosen, Words, Allowed
  <2>3. Chosen = Words
    <3>1. \A w \in Words : w < line
      <4>1. Len(wordlist) \in Nat
        BY LenProperties DEF LoopInv
      <4>2. Words \subseteq 1..Len(wordlist)
        BY DEF Words
      <4>3. line \in 1..Len(wordlist) + 1 /\ line > Len(wordlist)
        BY <2>1 DEF LoopInv
      <4> QED
        BY <4>1, <4>2, <4>3
    <3> QED
      BY <3>1 DEF LoopInv, CandidatesExact
  <2> QED
    BY <2>1, <2>2, <2>3 DEF LoopInv, CandidatesExact, brute_vars
<1>4. CASE ~OpenWordlist /\ ~Candidate /\ ~WordlistOver
  <2>1. UNCHANGED brute_vars
    BY <1>4 DEF Next, Resolve, Reject, Whois, Dig, Subfinder, Dnsx, DigAny, NsList, Axfr,
                DnsxBrute, Crtsh, Cert, Shodan, Dies, Then, vars, brute_vars
  <2>2. /\ at' \in Steps \ {"candidates", "dnsx brute", "crtsh", "cert", "shodan", "over", "dead"}
             => at \in Steps \ {"candidates", "dnsx brute", "crtsh", "cert", "shodan", "over", "dead"}
        /\ at' \in {"candidates", "dnsx brute"} => at' = at
    <3>1. CASE Resolve \/ Reject
      BY <3>1 DEF Resolve, Reject, Steps
    <3>2. CASE Axfr \/ NsList \/ Crtsh \/ Dies \/ UNCHANGED vars
      BY <3>2 DEF Axfr, NsList, Crtsh, Dies, vars, Steps
    <3>3. CASE Whois \/ Dig \/ Subfinder \/ Dnsx \/ DigAny \/ DnsxBrute \/ Cert \/ Shodan
      BY <3>3 DEF Whois, Dig, Subfinder, Dnsx, DigAny, DnsxBrute, Cert, Shodan, Then, Steps
    <3> QED
      BY <1>4, <3>1, <3>2, <3>3 DEF Next
  <2>3. UNCHANGED <<Chosen, Words, Allowed>>
    BY <2>1 DEF brute_vars, Chosen, Words, Allowed
  <2> QED
    BY <2>1, <2>2, <2>3 DEF LoopInv, CandidatesExact, brute_vars
<1> QED
  BY <1>1, <1>2, <1>3, <1>4

-----------------------------------------------------------------------------
(* The names of crt.sh's answer. *)

LEMMA AnswerStep == AnswerInv /\ [Next]_vars => AnswerInv'
<1> SUFFICES ASSUME AnswerInv, [Next]_vars PROVE AnswerInv'
  OBVIOUS
<1>1. CASE Crtsh
  <2>1. PICK n \in 0..MaxEntries : answer' \in [1..n -> Entries]
    BY <1>1 DEF Crtsh
  <2>2. n \in Nat /\ DOMAIN answer' = 1..n /\ Len(answer') = n
    <3>1. n \in Nat
      BY ReconAssumption
    <3>2. answer' \in Seq(Entries) /\ DOMAIN answer' = 1..n
      BY <2>1, <3>1
    <3> QED
      BY <3>1, <3>2, LenProperties
  <2>3. target' = target /\ at' = "cert" /\ subs' = kept(answer')
    BY <1>1 DEF Crtsh
  <2>4. ASSUME NEW i \in 1..n
        PROVE  i \in subs' <=> /\ answer'[i] \in {"domain", "sublabel"}
                               /\ \A j \in 1..i : answer'[j] # "null"
                               /\ LowerCase(target'.domain) /\ ~Dotted(target'.domain)
    <3>1. i \in Readable(answer') <=> \A j \in 1..n : answer'[j] = "null" => i < j
      BY <2>2 DEF Readable
    <3>2. (\A j \in 1..n : answer'[j] = "null" => i < j) <=> \A j \in 1..i : answer'[j] # "null"
      BY <2>2
    <3> QED
      BY <2>3, <3>1, <3>2 DEF kept, belongs, Comparable
  <2> QED
    BY <2>2, <2>3, <2>4 DEF AnswerInv, SubdomainsExact
<1>2. CASE Resolve
  <2>1. answer' = answer /\ answer = <<>> /\ DOMAIN answer = {}
    BY <1>2 DEF Resolve, osint_vars, AnswerInv
  <2> QED
    BY <2>1 DEF AnswerInv, SubdomainsExact
<1>3. CASE ~Crtsh /\ ~Resolve
  <2>1. UNCHANGED <<target, answer, subs>> /\ (at' = "resolve" => at = "resolve")
    BY <1>3 DEF Next, Reject, Whois, Dig, Subfinder, Dnsx, DigAny, NsList, Axfr, OpenWordlist,
                Candidate, WordlistOver, DnsxBrute, Cert, Shodan, Dies, Then, vars, osint_vars
  <2> QED
    BY <2>1 DEF AnswerInv, SubdomainsExact
<1> QED
  BY <1>1, <1>2, <1>3

-----------------------------------------------------------------------------
(* The theorems. *)

\* The invariant holds of every run.
THEOREM InductiveInvariant == Spec => []IInv
<1>1. IInv /\ [Next]_vars => IInv'
  BY TargetStep, ZoneStep, LoopStep, AnswerStep DEF IInv
<1> QED
  BY InitIInv, <1>1, PTL DEF Spec

\* The types of the steps.
THEOREM TypeCorrect == Spec => []TypeOK
<1>1. IInv => TypeOK
  <2> SUFFICES ASSUME IInv PROVE TypeOK
    OBVIOUS
  <2>1. \A f \in DOMAIN files : files[f].by \in Nameservers \cup Complaints
    <3>1. ASSUME NEW f \in DOMAIN files PROVE files[f].by \in Hosts
      <4>1. PICK i \in 1..Len(transfers) : files[f].by = lines[i]
        BY DEF IInv, ZoneInv
      <4>2. Len(transfers) \in Nat /\ Len(lines) \in Nat /\ Len(transfers) <= Len(lines)
        BY LenProperties DEF IInv, ZoneInv
      <4>3. i \in 1..Len(lines)
        BY <4>2
      <4>4. lines \in Seq(Hosts)
        BY DEF IInv, ZoneInv
      <4> QED
        BY <4>1, <4>3, <4>4, ElementOfSeq
    <3> QED
      BY <3>1 DEF Hosts
  <2> QED
    BY <2>1 DEF IInv, TargetInv, ZoneInv, LoopInv, TypeOK
<1> QED
  BY InductiveInvariant, <1>1, PTL

\* resolver.py:22: the domain tools are given a well-formed name, whatever the operator
\* typed and whatever the PTR record says, and a cloud provider's only when typed.
THEOREM NamesVetted == Spec => []NamesAreVetted
<1>1. IInv => NamesAreVetted
  BY DEF IInv, TargetInv
<1> QED
  BY InductiveInvariant, <1>1, PTL

\* dns_recon.py:112-119: the summary tells of a zone transfer exactly when the zone is
\* in that nameserver's file, for any list dig may print.
THEOREM TransfersTold == Spec => []TransfersTrue
<1>1. IInv => TransfersTrue
  BY DEF IInv, ZoneInv
<1> QED
  BY InductiveInvariant, <1>1, PTL

\* dns_recon.py:137-148: the candidates are the first words of any wordlist, for any cap.
THEOREM CandidatesCorrect == Spec => []CandidatesExact
<1>1. IInv => CandidatesExact
  BY DEF IInv, LoopInv
<1> QED
  BY InductiveInvariant, <1>1, PTL

\* osint.py:54-59: the names kept are those of the domain, for any answer of crt.sh and
\* any domain the resolver lets through, given in capitals or with a trailing dot.
THEOREM SubdomainsCorrect == Spec => []SubdomainsExact
<1>1. IInv => SubdomainsExact
  BY DEF IInv, AnswerInv
<1> QED
  BY InductiveInvariant, <1>1, PTL

=============================================================================
