------------------------------- MODULE Findings -------------------------------
(***************************************************************************)
(* report.classify_network_findings and severity.py: the vulnerability      *)
(* scan's script outputs become three tiers of findings, are enriched from  *)
(* two services that may not answer, ranked, and the lowest tier is cut to  *)
(* its first entries.  CVSS is in tenths, EPSS in thousandths.              *)
(***************************************************************************)
EXTENDS Integers, Sequences, FiniteSets, Lists

CONSTANTS
    Cves,
    MaxScripts,     \* bound on the script outputs of one scan
    Scores,         \* what vulners may print after a CVE; -1 is no score
    Epss,           \* what FIRST may know of a CVE; 0 is nothing
    BatchSize,      \* CVEs per request; 100 in the code
    TopN            \* potential findings the report shows; 25 in the code

ASSUME FindingsAssumption ==
    /\ IsFiniteSet(Cves) /\ MaxScripts \in Nat
    /\ Scores \subseteq -1..100 /\ Epss \subseteq 0..1000
    /\ BatchSize \in Nat \ {0} /\ TopN \in Nat

VARIABLES
    stage,          \* "read", "drop", "epss", "kev", "rank", "show", "shown"
    scripts,        \* the script outputs, in the order of the XML
    read,           \* how many of them the loop is through with
    cvss, epss, exploited,  \* what the world knows of each CVE
    confirmed, heuristic, potential,    \* the code's three lists
    toAsk,          \* CVEs not yet asked FIRST about
    epss_map,       \* CVEs whose EPSS came back
    kev,            \* the KEV catalog as far as it was loaded
    answered,       \* the CVEs FIRST's answers could be read for: a history variable
    catalog,        \* the KEV catalog came: another
    top             \* the potential findings in the report

findings_vars == <<stage, scripts, read, cvss, epss, exploited, confirmed, heuristic, potential,
                   toAsk, epss_map, kev, answered, catalog, top>>

world   == <<scripts, cvss, epss, exploited>>
answers == <<toAsk, epss_map, kev, answered, catalog>>

----------------------------------------------------------------------------
(* One script output: the CVEs named in it, in order, and, unless it is      *)
(* vulners', the first State: it reports ("LIKELY" stands for UNKNOWN too);  *)
(* one without such a line says VULNERABLE somewhere or is silent.           *)

CveLists == Orders(Cves, Cardinality(Cves))

Outputs == [id : {"vulners"}, state : {"silent"}, cves : CveLists]
    \cup [id : {"check"}, state : {"VULNERABLE", "LIKELY", "NOT", "said", "silent"}, cves : CveLists]

named(list) == UNION {in(list[i]) : i \in DOMAIN list}

FindingsInit ==
    /\ stage = "read" /\ read = 0
    /\ scripts \in UNION {[1..n -> Outputs] : n \in 1..MaxScripts}
    /\ cvss \in [Cves -> Scores] /\ epss \in [Cves -> Epss] /\ exploited \in SUBSET Cves
    /\ confirmed = <<>> /\ heuristic = <<>> /\ potential = <<>>
    /\ toAsk = {} /\ epss_map = {} /\ kev = {} /\ answered = {} /\ catalog = FALSE
    /\ top = <<>>

\* band_for_cvss and BAND_RANK.
band(score) ==
    CASE score = -1 -> 0
      [] score = 0 -> 1
      [] score \in 1..39 -> 2
      [] score \in 40..69 -> 3
      [] score \in 70..89 -> 4
      [] OTHER -> 5

\* vulners: each CVE once over all ports and outputs.
NewPotential(cves) == Kept(cves, {i \in DOMAIN cves : cves[i] \notin in(potential)})

Output == scripts[read + 1]

ReadVulners ==
    /\ stage = "read" /\ read < Len(scripts) /\ Output.id = "vulners"
    /\ read' = read + 1
    /\ potential' \in {potential \o new : new \in NewPotential(Output.cves)}
    /\ UNCHANGED <<stage, world, answers, confirmed, heuristic, top>>

\* A behavioral check: confirmed, heuristic, or no finding at all.
ReadCheck ==
    /\ stage = "read" /\ read < Len(scripts) /\ Output.id = "check"
    /\ read' = read + 1
    /\ LET finding == <<Output.cves>>
       IN  CASE Output.state \in {"NOT", "silent"} -> UNCHANGED <<confirmed, heuristic>>
             [] Output.state = "VULNERABLE" ->
                  confirmed' = confirmed \o finding /\ UNCHANGED heuristic
             [] OTHER -> heuristic' = heuristic \o finding /\ UNCHANGED confirmed
    /\ UNCHANGED <<stage, world, answers, potential, top>>

ReadAll ==
    /\ stage = "read" /\ read = Len(scripts)
    /\ stage' = "drop"
    /\ UNCHANGED <<read, world, answers, confirmed, heuristic, potential, top>>

\* Here and below, D_<fault> is D with a fault put in, for mutation only.
behavioral_confirmedOnly == named(confirmed)
behavioral == named(confirmed) \cup named(heuristic)

\* Then the enrichment, unless it is switched off or there is nothing to enrich.
DropInferred ==
    /\ stage = "drop"
    /\ potential' \in Kept(potential, {i \in DOMAIN potential : potential[i] \notin behavioral})
    /\ toAsk' = in(potential') \cup behavioral
    /\ stage' \in {"epss", "rank"}
    /\ UNCHANGED <<read, world, epss_map, kev, answered, catalog, confirmed, heuristic, top>>

----------------------------------------------------------------------------
(* severity.py                                                               *)

Batches == {B \in SUBSET toAsk : Cardinality(B) = IF Cardinality(toAsk) < BatchSize
                                                 THEN Cardinality(toAsk) ELSE BatchSize}

\* One request to FIRST: what its answer, if any, says of a CVE may be unreadable.
AskEpss ==
    /\ stage = "epss" /\ toAsk # {}
    /\ \E B \in Batches :
         /\ toAsk' = toAsk \ B
         /\ \E A \in SUBSET B :
              /\ answered' = answered \cup A
              /\ epss_map' = epss_map \cup {c \in A : epss[c] > 0}
    /\ UNCHANGED <<stage, read, world, kev, catalog, confirmed, heuristic, potential, top>>

EpssOver ==
    /\ stage = "epss" /\ toAsk = {}
    /\ stage' = "kev"
    /\ UNCHANGED <<read, world, answers, confirmed, heuristic, potential, top>>

LoadKev ==
    /\ stage = "kev"
    /\ stage' = "rank"
    /\ \/ kev' = exploited /\ catalog' = TRUE
       \/ UNCHANGED <<kev, catalog>>
    /\ UNCHANGED <<read, world, toAsk, epss_map, answered, confirmed, heuristic, potential, top>>

\* An answer of an unforeseen form raises; classify drops what both services said.
EnrichmentRaises ==
    /\ stage \in {"epss", "kev"}
    /\ stage' = "rank"
    /\ epss_map' = {} /\ kev' = {}
    /\ answered' = {} /\ catalog' = FALSE
    /\ UNCHANGED <<read, world, toAsk, confirmed, heuristic, potential, top>>

\* epss.get("epss") or -1.0: a zero counts as unknown.
epssOf(c) == IF c \in epss_map THEN epss[c] ELSE -1

priority_key_bandFirst(c) == <<band(cvss[c]), IF c \in kev THEN 1 ELSE 0, epssOf(c), cvss[c]>>
priority_key(c)           == <<IF c \in kev THEN 1 ELSE 0, epssOf(c), band(cvss[c]), cvss[c]>>

Above(k, l) == \E i \in DOMAIN k : k[i] > l[i] /\ \A j \in 1..i - 1 : k[j] = l[j]

\* list.sort(reverse=True), which keeps the order of equals: a set with one member.
Sorted(list) ==
    LET ahead(i, j) == \/ Above(priority_key(list[i]), priority_key(list[j]))
                       \/ ~Above(priority_key(list[j]), priority_key(list[i])) /\ i < j
    IN  {[p \in DOMAIN list |-> list[f[p]]] :
           f \in {f \in [DOMAIN list -> DOMAIN list] :
                    /\ in(f) = DOMAIN list
                    /\ \A p, q \in DOMAIN list : p < q => ahead(f[p], f[q])}}

Rank ==
    /\ stage = "rank"
    /\ stage' = "show"
    /\ potential' \in Sorted(potential)
    /\ UNCHANGED <<read, world, answers, confirmed, heuristic, top>>

\* _findings_section: every confirmed and heuristic finding, the top of the rest.
Show ==
    /\ stage = "show"
    /\ stage' = "shown"
    /\ top' = SubSeq(potential, 1, IF Len(potential) < TopN THEN Len(potential) ELSE TopN)
    /\ UNCHANGED <<read, world, answers, confirmed, heuristic, potential>>

FindingsNext ==
    \/ ReadVulners \/ ReadCheck \/ ReadAll \/ DropInferred
    \/ AskEpss \/ EpssOver \/ LoadKev \/ EnrichmentRaises
    \/ Rank \/ Show

FindingsSpec == FindingsInit /\ [][FindingsNext]_findings_vars

----------------------------------------------------------------------------
(* Properties. *)

\* The CVEs in the first n outputs, but for the checks that found nothing.
Reported(n) == UNION {in(scripts[i].cves) :
                  i \in {i \in 1..n : scripts[i].id = "vulners"
                                     \/ scripts[i].state \notin {"NOT", "silent"}}}

\* "A CVE surfaced by a behavioral check must not also sit in the inferred pile"
\* (report.py:236), none is listed there twice, and none that vulners names is in
\* neither place, whatever the order in which scripts and ports name it.
EachCveOnce ==
    stage \notin {"read", "drop"} =>
        /\ in(potential) \cap (named(confirmed) \cup named(heuristic)) = {}
        /\ \A i, j \in DOMAIN potential : potential[i] = potential[j] => i = j
        /\ in(potential) \cup named(confirmed) \cup named(heuristic) = Reported(Len(scripts))

\* What the world knows of a CVE, most telling first (severity.py:132-140), as far as
\* the catalog came.
Risk(c) == <<IF catalog /\ c \in exploited THEN 1 ELSE 0, epss[c], cvss[c]>>

enriched == epss_map \cup kev # {}

\* The report never leaves out a potential finding for one of lesser risk, unless what
\* FIRST says of the one it leaves out was lost: a lost answer about any other never
\* costs it its place (severity.py:109-116).  When none came at all, CVSS alone
\* decides, as the report then says (report.py:312-314).
OmittedAccountedFor ==
    stage = "shown" =>
        \A o \in in(potential) \ in(top), s \in in(top) :
            /\ o \in answered => ~Above(Risk(o), Risk(s))
            /\ ~enriched => cvss[o] <= cvss[s]

=============================================================================
