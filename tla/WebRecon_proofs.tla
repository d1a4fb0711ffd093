--------------------------- MODULE WebRecon_proofs ---------------------------
(***************************************************************************)
(* Web recon for any ports and any cap: which URLs are probed, which        *)
(* evidence file belongs to which, and how much a host has to bear.         *)
(***************************************************************************)
EXTENDS WebRecon, TLAPS, FiniteSetTheorems, SequenceTheorems

-----------------------------------------------------------------------------
(* Lists and URLs. *)

\* What is kept of a list are the members at the kept places, in their order.
LEMMA KeptFacts ==
    ASSUME NEW T, NEW list \in Seq(T), NEW S, S \subseteq DOMAIN list, NEW kept \in Kept(list, S)
    PROVE  /\ kept \in Seq(T)
           /\ in(kept) = {list[i] : i \in S}
           /\ \A p, q \in DOMAIN kept : p < q =>
                \E i, j \in S : i < j /\ kept[p] = list[i] /\ kept[q] = list[j]
<1>1. PICK f \in Rising(S, Len(list)) : kept = [p \in DOMAIN f |-> list[f[p]]]
  BY DEF Kept
<1>2. PICK n \in 0..Len(list) : f \in [1..n -> S]
  BY <1>1 DEF Rising
<1>3. {f[p] : p \in 1..n} = S /\ \A p, q \in 1..n : p < q => f[p] < f[q]
  BY <1>1, <1>2 DEF Rising, in
<1>4. n \in Nat /\ DOMAIN kept = 1..n /\ \A p \in 1..n : kept[p] = list[f[p]] /\ f[p] \in S
  <2>1. Len(list) \in Nat
    BY LenProperties
  <2> QED
    BY <1>1, <1>2, <2>1
<1>5. \A i \in DOMAIN list : list[i] \in T
  BY LenProperties, ElementOfSeq
<1>6. kept \in Seq(T)
  <2>1. kept \in [1..n -> T]
    BY <1>1, <1>2, <1>4, <1>5
  <2> QED
    BY <1>4, <2>1
<1>7. in(kept) = {list[i] : i \in S}
  <2>1. in(kept) = {list[f[p]] : p \in 1..n}
    BY <1>4 DEF in
  <2>2. \A i \in S : \E p \in 1..n : f[p] = i
    BY <1>3
  <2> QED
    BY <1>4, <2>1, <2>2
<1>8. \A p, q \in DOMAIN kept : p < q =>
        \E i, j \in S : i < j /\ kept[p] = list[i] /\ kept[q] = list[j]
  BY <1>3, <1>4
<1> QED
  BY <1>6, <1>7, <1>8

Links == {url(p) : p \in Ports} \cup {Verbatim}

\* A port's URL is told apart by its tag, which spells the port out again.
LEMMA TagOfUrl ==
    ASSUME NEW p \in Ports
    PROVE  /\ url(p).scheme \in {"http", "https"}
           /\ urlTag(url(p)) = <<url(p).scheme, p>>
           /\ urlTag(url(p)) \in Tags
<1>1. p \in Nat /\ p # 0
  BY WebPortsAssumption
<1> DEFINE scheme == IF isHttps(p) THEN "https" ELSE "http"
           port == IF <<scheme, p>> \in {<<"https", 443>>, <<"http", 80>>} THEN 0 ELSE p
<1>2. url(p) = [scheme |-> scheme, port |-> port]
  BY DEF url
<1>3. scheme \in {"http", "https"}
  OBVIOUS
<1>4. port = IF (scheme = "https" /\ p = 443) \/ (scheme = "http" /\ p = 80) THEN 0 ELSE p
  OBVIOUS
<1> HIDE DEF scheme, port
<1>5. url(p).scheme = scheme /\ url(p).port = port
  BY <1>2
<1>6. urlTag(url(p)) = <<scheme, p>>
  BY <1>1, <1>3, <1>4, <1>5 DEF urlTag
<1> QED
  BY <1>3, <1>5, <1>6 DEF Tags

\* What gives a port away is what the loop looks at.
LEMMA GivenAway ==
    ASSUME NEW p \in Ports, ByNumber(p) \/ ByName(p)
    PROVE  isWeb(p)
BY DEF ByNumber, ByName, isWeb, isHttps, isHttp

-----------------------------------------------------------------------------
(* The invariant, part by part. *)

\* The scan's list is one of ports.
OpenInv == open \in Seq(Ports)

\* Why a web port's URL may not be in a list of targets of which there were n.
Covered(p, ts, n) ==
    \/ url(p) \in in(ts)
    \/ n > Len(ts) /\ Len(ts) = MaxEndpoints
    \/ cdn /\ \E u \in in(ts) : u.scheme = url(p).scheme

OnePerScheme(ts) == \A i, j \in 1..Len(ts) : ts[i].scheme = ts[j].scheme => i = j

TargetsInv ==
    /\ targets \in Seq(Links) /\ Len(targets) <= MaxEndpoints
    /\ cdn => OnePerScheme(targets)
    /\ pc = "start" => targets = <<>>
    /\ pc # "start" =>
         /\ httpName => targets = <<Verbatim>>
         /\ ~httpName => \A i \in 1..Len(targets) : \E p \in Ports : targets[i] = url(p)
         /\ ~httpName => \A p \in Listed : isWeb(p) => Covered(p, targets, found)

\* A file tells about the one URL its name stands for, and every URL that was
\* probed is in its file.
FilesInv ==
    /\ files \in [Tags -> SUBSET Links]
    /\ \A t \in Tags : \A u \in files[t] : \E p \in Ports : u = url(p) /\ t = <<u.scheme, p>>
    /\ probed \in 0..Len(targets)
    /\ \A i \in 1..probed : \E p \in Ports : targets[i] = url(p) /\ url(p) \in files[urlTag(url(p))]
    /\ cdn => fuzzed = {}

StageInv ==
    /\ pc \in {"start", "probe", "gau", "done", "raised"}
    /\ pc = "start" => probed = 0
    /\ pc \in {"gau", "done"} => probed = Len(targets)
    /\ noWebPort => targets = <<>> /\ pc # "start"

WebInv == OpenInv /\ TargetsInv /\ FilesInv /\ StageInv

LEMMA WebStart == Init => WebInv
<1> SUFFICES ASSUME Init PROVE WebInv
  OBVIOUS
<1> USE DEF Init
<1>1. OpenInv
  <2>1. PICK n \in 0..Cardinality(Ports) : open \in [1..n -> Ports]
    BY DEF Orders
  <2>2. n \in Nat
    BY <2>1
  <2> QED
    BY <2>1, <2>2 DEF OpenInv
<1>2. TargetsInv
  BY MaxEndpointsAssumption DEF TargetsInv, OnePerScheme
<1>3. FilesInv
  BY DEF FilesInv
<1>4. StageInv
  BY DEF StageInv
<1> QED
  BY <1>1, <1>2, <1>3, <1>4 DEF WebInv

-----------------------------------------------------------------------------
(* The choice of the targets. *)

\* The URLs of the open web ports.
LEMMA WebTargetsFacts ==
    ASSUME OpenInv, NEW all \in webTargets
    PROVE  /\ all \in Seq(Links)
           /\ \A i \in 1..Len(all) : \E p \in Ports : all[i] = url(p)
           /\ \A p \in Listed : isWeb(p) => url(p) \in in(all)
<1> DEFINE S == {i \in DOMAIN open : isWeb(open[i])}
<1>1. PICK web \in Kept(open, S) : all = [i \in DOMAIN web |-> url(web[i])]
  BY DEF webTargets
<1>2. open \in Seq(Ports) /\ S \subseteq DOMAIN open
  BY DEF OpenInv
<1>3. web \in Seq(Ports) /\ in(web) = {open[i] : i \in S}
  <2> HIDE DEF S
  <2> QED
    BY <1>1, <1>2, KeptFacts
<1>4. /\ Len(web) \in Nat /\ DOMAIN web = 1..Len(web)
      /\ \A i \in 1..Len(web) : web[i] \in Ports
  BY <1>3, LenProperties, ElementOfSeq
<1>5. all \in Seq(Links) /\ Len(all) = Len(web) /\ \A i \in 1..Len(web) : all[i] = url(web[i])
  <2>1. all \in [1..Len(web) -> Links]
    BY <1>1, <1>4 DEF Links
  <2> QED
    BY <1>1, <1>4, <2>1
<1>6. ASSUME NEW p \in Listed, isWeb(p) PROVE url(p) \in in(all)
  <2>1. PICK i \in DOMAIN open : p = open[i]
    BY DEF Listed, in
  <2>2. p \in in(web)
    BY <1>3, <1>6, <2>1
  <2>3. PICK j \in 1..Len(web) : p = web[j]
    BY <1>4, <2>2 DEF in
  <2>4. all[j] = url(p) /\ j \in DOMAIN all
    BY <1>1, <1>4, <1>5, <2>3
  <2> QED
    BY <2>4 DEF in
<1> QED
  BY <1>4, <1>5, <1>6

\* One of each scheme is left, and of every scheme that there was.
LEMMA DedupeFacts ==
    ASSUME NEW ts \in Seq(Links), NEW some \in dedupeScheme(ts)
    PROVE  /\ some \in Seq(Links) /\ in(some) \subseteq in(ts)
           /\ OnePerScheme(some)
           /\ \A u \in in(ts) : \E v \in in(some) : v.scheme = u.scheme
<1>1. PICK S \in SUBSET DOMAIN ts :
        /\ some \in Kept(ts, S)
        /\ \A i \in DOMAIN ts : i \in S <=> \A j \in S : j < i => ts[j].scheme # ts[i].scheme
  BY DEF dedupeScheme
<1>2. /\ some \in Seq(Links) /\ in(some) = {ts[i] : i \in S}
      /\ \A p, q \in DOMAIN some : p < q =>
           \E i, j \in S : i < j /\ some[p] = ts[i] /\ some[q] = ts[j]
  BY <1>1, KeptFacts
<1>3. in(some) \subseteq in(ts)
  BY <1>2 DEF in
<1>4. OnePerScheme(some)
  <2> SUFFICES ASSUME NEW p \in 1..Len(some), NEW q \in 1..Len(some), p < q,
                      some[p].scheme = some[q].scheme
               PROVE  FALSE
    BY DEF OnePerScheme
  <2>1. PICK i \in S, j \in S : i < j /\ some[p] = ts[i] /\ some[q] = ts[j]
    <3>1. DOMAIN some = 1..Len(some)
      BY <1>2, LenProperties
    <3>2. p \in DOMAIN some /\ q \in DOMAIN some
      BY <3>1
    <3> QED
      BY <1>2, <3>2
  <2> QED
    BY <1>1, <2>1
<1>5. ASSUME NEW u \in in(ts) PROVE \E v \in in(some) : v.scheme = u.scheme
  <2>1. PICK i \in DOMAIN ts : u = ts[i]
    BY DEF in
  <2>2. CASE i \in S
    BY <1>2, <2>1, <2>2
  <2>3. CASE i \notin S
    <3>1. PICK j \in S : ts[j].scheme = ts[i].scheme
      BY <1>1, <2>3
    <3> QED
      BY <1>2, <2>1, <3>1
  <2> QED
    BY <2>2, <2>3
<1> QED
  BY <1>2, <1>3, <1>4, <1>5

\* The governor leaves the list, or its first MaxEndpoints members.
LEMMA CappedFacts ==
    ASSUME NEW ts \in Seq(Links)
    PROVE  /\ capped(ts) \in Seq(Links) /\ Len(capped(ts)) <= MaxEndpoints
           /\ Len(capped(ts)) <= Len(ts) /\ Len(ts) \in Nat /\ Len(capped(ts)) \in Nat
           /\ \A i \in 1..Len(capped(ts)) : capped(ts)[i] = ts[i]
           /\ \/ capped(ts) = ts /\ Len(ts) <= MaxEndpoints
              \/ Len(ts) > MaxEndpoints /\ Len(capped(ts)) = MaxEndpoints
<1>1. Len(ts) \in Nat /\ MaxEndpoints \in Nat
  BY LenProperties, MaxEndpointsAssumption
<1>2. CASE Len(ts) > MaxEndpoints
  <2>1. capped(ts) = SubSeq(ts, 1, MaxEndpoints)
    BY <1>2 DEF capped
  <2>2. /\ SubSeq(ts, 1, MaxEndpoints) \in Seq(Links)
        /\ Len(SubSeq(ts, 1, MaxEndpoints)) = MaxEndpoints
        /\ \A i \in 1..MaxEndpoints : SubSeq(ts, 1, MaxEndpoints)[i] = ts[i]
    <3>1. 1 \in 1..Len(ts) + 1 /\ MaxEndpoints \in 0..Len(ts)
      BY <1>1, <1>2
    <3> QED
      BY <1>1, <1>2, <3>1, SubSeqProperties
  <2> QED
    BY <1>1, <1>2, <2>1, <2>2
<1>3. CASE ~(Len(ts) > MaxEndpoints)
  BY <1>1, <1>3 DEF capped
<1> QED
  BY <1>2, <1>3

LEMMA ChooseStep == WebInv /\ ChooseTargets => WebInv'
<1> SUFFICES ASSUME WebInv, ChooseTargets PROVE WebInv'
  OBVIOUS
<1>1. /\ pc = "start" /\ pc' = "probe"
      /\ UNCHANGED <<open, service, cdn, httpName, wordlist,
                     probed, files, fuzzed, noWebPort>>
  BY DEF ChooseTargets, inputs
<1>2. PICK all : /\ all \in IF httpName THEN {<<Verbatim>>} ELSE webTargets
                 /\ \E some \in IF cdn THEN dedupeScheme(all) ELSE {all} :
                      /\ targets' = capped(some)
                      /\ found' = IF Len(some) > MaxEndpoints THEN Len(some) ELSE 0
  BY DEF ChooseTargets
<1>3. PICK some \in IF cdn THEN dedupeScheme(all) ELSE {all} :
         /\ targets' = capped(some)
         /\ found' = IF Len(some) > MaxEndpoints THEN Len(some) ELSE 0
  BY <1>2
<1>4. all \in Seq(Links)
  <2>1. CASE httpName
    <3>1. all = <<Verbatim>> /\ Verbatim \in Links
      BY <1>2, <2>1 DEF Links
    <3> QED
      BY <3>1
  <2>2. CASE ~httpName
    BY <1>2, <2>2, WebTargetsFacts DEF WebInv
  <2> QED
    BY <2>1, <2>2
<1>5. /\ some \in Seq(Links) /\ in(some) \subseteq in(all)
      /\ cdn => /\ OnePerScheme(some)
                /\ \A u \in in(all) : \E v \in in(some) : v.scheme = u.scheme
      /\ ~cdn => some = all
  BY <1>4, <1>3, DedupeFacts
<1>6. /\ targets' \in Seq(Links) /\ Len(targets') <= MaxEndpoints
      /\ Len(targets') <= Len(some) /\ Len(some) \in Nat /\ Len(targets') \in Nat
      /\ \A i \in 1..Len(targets') : targets'[i] = some[i]
      /\ \/ targets' = some /\ Len(some) <= MaxEndpoints
         \/ Len(some) > MaxEndpoints /\ Len(targets') = MaxEndpoints
  BY <1>5, <1>3, CappedFacts
<1>7. /\ DOMAIN some = 1..Len(some) /\ DOMAIN targets' = 1..Len(targets')
      /\ DOMAIN all = 1..Len(all) /\ Len(all) \in Nat
  BY <1>4, <1>5, <1>6, LenProperties
<1>8. /\ \A p : isHttps(p)' = isHttps(p) /\ url(p)' = url(p) /\ isWeb(p)' = isWeb(p)
      /\ Listed' = Listed /\ Links' = Links
  BY <1>1 DEF isHttps, isHttp, isWeb, url, Listed, Links
<1>9. cdn => OnePerScheme(targets')
  BY <1>5, <1>6 DEF OnePerScheme
<1>10. ASSUME httpName PROVE targets' = <<Verbatim>>
  <2>1. all = <<Verbatim>> /\ in(all) = {Verbatim} /\ Len(all) = 1
    BY <1>2, <1>10 DEF in
  <2>2. Len(some) = 1 /\ some[1] = Verbatim
    <3>1. CASE ~cdn
      BY <1>5, <2>1, <3>1
    <3>2. CASE cdn
      <4>1. \A i \in 1..Len(some) : some[i] = Verbatim
        BY <1>5, <1>7, <2>1 DEF in
      <4>2. Len(some) # 0
        BY <1>5, <1>7, <2>1, <3>2 DEF in
      <4>3. Len(some) <= 1
        <5> SUFFICES ASSUME Len(some) >= 2 PROVE FALSE
          BY <1>6
        <5>1. 1 \in 1..Len(some) /\ 2 \in 1..Len(some)
          BY <1>6
        <5> QED
          BY <1>5, <3>2, <4>1, <5>1 DEF OnePerScheme
      <4> DEFINE n == Len(some)
      <4>4. n \in Nat /\ n # 0 /\ n <= 1
        BY <1>6, <4>2, <4>3
      <4> HIDE DEF n
      <4>5. n = 1
        BY <4>4
      <4>6. Len(some) = 1
        BY <4>5 DEF n
      <4>7. some[1] = Verbatim
        BY <4>1, <4>6
      <4> QED
        BY <4>6, <4>7
    <3> QED
      BY <3>1, <3>2
  <2>3. targets' = some
    BY <1>6, <2>2, MaxEndpointsAssumption
  <2> QED
    BY <1>5, <1>7, <2>2, <2>3
<1>11. ASSUME ~httpName PROVE \A i \in 1..Len(targets') : \E p \in Ports : targets'[i] = url(p)
  <2>1. all \in webTargets
    BY <1>2, <1>11
  <2>2. \A u \in in(all) : \E p \in Ports : u = url(p)
    BY <1>7, <2>1, WebTargetsFacts DEF WebInv, in
  <2>3. \A i \in 1..Len(targets') : targets'[i] \in in(some)
    BY <1>6, <1>7 DEF in
  <2> QED
    BY <1>5, <2>2, <2>3
<1>12. ASSUME ~httpName, NEW p \in Listed, isWeb(p)
       PROVE  Covered(p, targets', found')
  <2>1. all \in webTargets
    BY <1>2, <1>12
  <2>2. url(p) \in in(all)
    BY <1>12, <2>1, WebTargetsFacts DEF WebInv
  <2>3. CASE targets' = some
    BY <1>5, <2>2, <2>3 DEF Covered
  <2>4. CASE Len(some) > MaxEndpoints /\ Len(targets') = MaxEndpoints
    BY <1>3, <2>4 DEF Covered
  <2> QED
    BY <1>6, <2>3, <2>4
<1>13. TargetsInv'
  <2>1. \A p : Covered(p, targets, found)' = Covered(p, targets', found')
    BY <1>1, <1>8 DEF Covered
  <2>2. OnePerScheme(targets)' = OnePerScheme(targets')
    BY DEF OnePerScheme
  <2> QED
    BY <1>1, <1>6, <1>8, <1>9, <1>10, <1>11, <1>12, <2>1, <2>2 DEF TargetsInv
<1>14. FilesInv'
  <2>1. probed = 0
    BY <1>1 DEF WebInv, StageInv
  <2> QED
    BY <1>1, <1>6, <1>8, <2>1 DEF WebInv, FilesInv
<1>15. OpenInv' /\ StageInv'
  BY <1>1, <1>8 DEF WebInv, OpenInv, StageInv
<1> QED
  BY <1>13, <1>14, <1>15 DEF WebInv

-----------------------------------------------------------------------------
(* The other steps, and the theorems. *)

\* What the steps after the choice leave alone.
LEMMA TargetsStay ==
    ASSUME WebInv, pc \notin {"start"}, pc' \in {"probe", "gau", "done", "raised"},
           UNCHANGED <<open, service, cdn, httpName, targets, found>>
    PROVE  /\ OpenInv' /\ TargetsInv' /\ Links' = Links
           /\ \A p : url(p)' = url(p)
<1>1. /\ \A p : isHttps(p)' = isHttps(p) /\ url(p)' = url(p) /\ isWeb(p)' = isWeb(p)
      /\ Listed' = Listed /\ Links' = Links
  BY DEF isHttps, isHttp, isWeb, url, Listed, Links
<1>2. /\ \A p : Covered(p, targets, found)' = Covered(p, targets, found)
      /\ OnePerScheme(targets)' = OnePerScheme(targets)
  BY <1>1 DEF Covered, OnePerScheme
<1> QED
  BY <1>1, <1>2 DEF WebInv, OpenInv, TargetsInv

LEMMA ProbeStep == WebInv /\ ProbeEndpoint => WebInv'
<1> SUFFICES ASSUME WebInv, ProbeEndpoint PROVE WebInv'
  OBVIOUS
<1>1. /\ pc = "probe" /\ pc' = pc /\ probed < Len(targets) /\ probed' = probed + 1
      /\ UNCHANGED <<open, service, cdn, httpName, wordlist,
                     targets, found, noWebPort>>
  BY DEF ProbeEndpoint, inputs
<1> DEFINE u == targets[probed + 1]
<1>2. /\ u # Verbatim
      /\ files' = [files EXCEPT ![urlTag(u)] = @ \cup {u}]
      /\ cdn => fuzzed' = fuzzed
  BY DEF ProbeEndpoint
<1>3. probed \in Nat /\ Len(targets) \in Nat /\ probed + 1 \in 1..Len(targets)
  BY <1>1, LenProperties DEF WebInv, FilesInv, TargetsInv
<1>4. ~httpName
  <2> SUFFICES ASSUME httpName PROVE FALSE
    OBVIOUS
  <2>1. targets = <<Verbatim>>
    BY <1>1 DEF WebInv, TargetsInv
  <2>2. probed = 0
    BY <1>3, <2>1
  <2> QED
    BY <1>2, <2>1, <2>2
<1>5. PICK p \in Ports : u = url(p)
  BY <1>1, <1>3, <1>4 DEF WebInv, TargetsInv
<1>6. OpenInv' /\ TargetsInv' /\ Links' = Links /\ \A q : url(q)' = url(q)
  BY <1>1, TargetsStay
<1>7. /\ urlTag(u) \in Tags /\ urlTag(u) = <<u.scheme, p>> /\ u \in Links
  BY <1>5, TagOfUrl DEF Links
<1> HIDE DEF u
<1>8. /\ files' \in [Tags -> SUBSET Links]
      /\ \A t \in Tags : files'[t] = IF t = urlTag(u) THEN files[t] \cup {u} ELSE files[t]
  BY <1>2, <1>7 DEF WebInv, FilesInv
<1>9. FilesInv'
  <2>1. ASSUME NEW t \in Tags, NEW v \in files'[t]
        PROVE  \E q \in Ports : v = url(q) /\ t = <<v.scheme, q>>
    <3>1. CASE v \in files[t]
      BY <3>1 DEF WebInv, FilesInv
    <3>2. CASE v = u /\ t = urlTag(u)
      BY <1>5, <1>7, <3>2
    <3> QED
      BY <1>8, <2>1, <3>1, <3>2
  <2>2. ASSUME NEW i \in 1..probed + 1
        PROVE  \E q \in Ports : targets[i] = url(q) /\ url(q) \in files'[urlTag(url(q))]
    <3>1. CASE i \in 1..probed
      <4>1. PICK q \in Ports : targets[i] = url(q) /\ url(q) \in files[urlTag(url(q))]
        BY <3>1 DEF WebInv, FilesInv
      <4>2. urlTag(url(q)) \in Tags
        BY TagOfUrl
      <4> QED
        BY <1>8, <4>1, <4>2
    <3>2. CASE i = probed + 1
      <4>1. targets[i] = url(p) /\ u = url(p)
        BY <1>5, <3>2 DEF u
      <4>2. u \in files'[urlTag(u)]
        BY <1>7, <1>8
      <4> QED
        BY <4>1, <4>2
    <3> QED
      BY <1>3, <3>1, <3>2
  <2>3. /\ files' \in [Tags -> SUBSET Links'] /\ probed' \in 0..Len(targets')
        /\ cdn' => fuzzed' = {}
    BY <1>1, <1>2, <1>3, <1>6, <1>8 DEF WebInv, FilesInv
  <2>4. \A v : urlTag(v)' = urlTag(v)
    BY DEF urlTag
  <2> QED
    BY <1>1, <1>6, <2>1, <2>2, <2>3, <2>4 DEF FilesInv
<1>10. StageInv'
  BY <1>1 DEF WebInv, StageInv
<1> QED
  BY <1>6, <1>9, <1>10 DEF WebInv

\* The steps that probe nothing.
LEMMA OtherSteps == WebInv /\ (TagRaises \/ ProbesDone \/ Gau) => WebInv'
<1> SUFFICES ASSUME WebInv, TagRaises \/ ProbesDone \/ Gau PROVE WebInv'
  OBVIOUS
<1>1. /\ pc \in {"probe", "gau"} /\ pc' \in {"gau", "done", "raised"}
      /\ UNCHANGED <<open, service, cdn, httpName, wordlist,
                     targets, probed, found, files, fuzzed>>
  BY DEF TagRaises, ProbesDone, Gau, inputs
<1>2. OpenInv' /\ TargetsInv' /\ Links' = Links /\ \A p : url(p)' = url(p)
  BY <1>1, TargetsStay
<1>3. FilesInv'
  BY <1>1, <1>2 DEF WebInv, FilesInv, urlTag
<1>4. StageInv'
  <2>1. CASE TagRaises
    BY <1>1, <2>1 DEF WebInv, StageInv, TagRaises
  <2>2. CASE ProbesDone
    <3>1. probed = Len(targets) /\ pc' = "gau" /\ noWebPort' = (targets = <<>>)
      BY <2>2 DEF ProbesDone
    <3> QED
      BY <1>1, <3>1 DEF StageInv
  <2>3. CASE Gau
    BY <1>1, <2>3 DEF WebInv, StageInv, Gau
  <2> QED
    BY <2>1, <2>2, <2>3
<1> QED
  BY <1>2, <1>3, <1>4 DEF WebInv

LEMMA WebStep == WebInv /\ [Next]_vars => WebInv'
<1> SUFFICES ASSUME WebInv, [Next]_vars PROVE WebInv'
  OBVIOUS
<1>1. CASE UNCHANGED vars
  <2>1. /\ UNCHANGED <<pc, open, service, cdn, httpName, wordlist,
                       targets, probed, found, files, fuzzed, noWebPort>>
    BY <1>1 DEF vars, inputs
  <2>2. /\ \A p : isHttps(p)' = isHttps(p) /\ url(p)' = url(p) /\ isWeb(p)' = isWeb(p)
        /\ Listed' = Listed /\ Links' = Links
    BY <2>1 DEF isHttps, isHttp, isWeb, url, Listed, Links
  <2>3. /\ \A p : Covered(p, targets, found)' = Covered(p, targets, found)
        /\ OnePerScheme(targets)' = OnePerScheme(targets)
    BY <2>1, <2>2 DEF Covered, OnePerScheme
  <2>4. OpenInv' /\ StageInv'
    BY <2>1, <2>2 DEF WebInv, OpenInv, StageInv
  <2>5. TargetsInv'
    BY <2>1, <2>2, <2>3 DEF WebInv, TargetsInv
  <2>6. FilesInv'
    BY <2>1, <2>2 DEF WebInv, FilesInv, urlTag
  <2> QED
    BY <2>4, <2>5, <2>6 DEF WebInv
<1> QED
  BY <1>1, ChooseStep, ProbeStep, OtherSteps DEF Next

LEMMA WebInvariant == Spec => []WebInv
BY WebStart, WebStep, PTL DEF Spec

\* However many web ports a host has, the tools run against MaxEndpoints of them,
\* against one of a scheme behind a CDN, and ffuf against none there.
THEOREM LoadBounded == Spec => []LoadIsBounded
<1>1. WebInv => LoadIsBounded
  BY DEF WebInv, TargetsInv, FilesInv, OnePerScheme, LoadIsBounded
<1> QED
  BY <1>1, WebInvariant, PTL

\* _url_tag gives two ports two tags, whether or not their URLs name them.
THEOREM FilesOfOneEndpoint == Spec => []EndpointsKeepTheirFiles
<1>1. WebInv => EndpointsKeepTheirFiles
  <2> SUFFICES ASSUME WebInv, NEW t \in Tags PROVE Cardinality(files[t]) <= 1
    BY DEF EndpointsKeepTheirFiles
  <2>1. \A u \in files[t] : \E p \in Ports : u = url(p) /\ t = <<u.scheme, p>>
    BY DEF WebInv, FilesInv
  <2>2. \A u, v \in files[t] : u = v
    BY <2>1
  <2>3. CASE files[t] = {}
    BY <2>3, FS_EmptySet
  <2>4. CASE files[t] # {}
    <3>1. PICK u : files[t] = {u}
      BY <2>2, <2>4
    <3> QED
      BY <3>1, FS_Singleton
  <2> QED
    BY <2>3, <2>4
<1> QED
  BY <1>1, WebInvariant, PTL

\* A web port of the scan's summary that was not probed has one of the listed
\* reasons, and that there is none is said only where the summary has none, for any
\* summary (src/modules/web_recon.py, _web_targets and run_web_recon).
THEOREM WebPortsTold == Spec => []WebPortsAccountedFor
<1>1. WebInv => WebPortsAccountedFor
  <2> SUFFICES ASSUME WebInv, NEW p \in Listed, ByNumber(p) \/ ByName(p)
               PROVE  /\ pc = "done" =>
                           \/ url(p) \in files[urlTag(url(p))]
                           \/ found > Len(targets) /\ Len(targets) = MaxEndpoints
                           \/ cdn /\ \E u \in in(targets) : u.scheme = url(p).scheme
                      /\ ~noWebPort
    BY DEF WebPortsAccountedFor
  <2>1. isWeb(p)
    <3>1. Listed \subseteq Ports
      BY LenProperties, ElementOfSeq DEF WebInv, OpenInv, Listed, in
    <3> QED
      BY <3>1, GivenAway
  <2>2. ASSUME pc # "start", ~httpName PROVE Covered(p, targets, found)
    BY <2>1, <2>2 DEF WebInv, TargetsInv
  <2>3. Len(targets) \in Nat /\ DOMAIN targets = 1..Len(targets)
    BY LenProperties DEF WebInv, TargetsInv
  <2>4. ASSUME noWebPort PROVE FALSE
    <3>1. targets = <<>> /\ pc # "start"
      BY <2>4 DEF WebInv, StageInv
    <3>2. ~httpName
      BY <3>1 DEF WebInv, TargetsInv
    <3>3. in(targets) = {} /\ Len(targets) = 0
      BY <3>1 DEF in
    <3> QED
      BY <2>2, <3>1, <3>2, <3>3, MaxEndpointsAssumption DEF Covered
  <2>5. ASSUME pc = "done"
        PROVE  \/ url(p) \in files[urlTag(url(p))]
               \/ found > Len(targets) /\ Len(targets) = MaxEndpoints
               \/ cdn /\ \E u \in in(targets) : u.scheme = url(p).scheme
    <3>1. probed = Len(targets)
      BY <2>5 DEF WebInv, StageInv
    <3>2. \A i \in 1..Len(targets) :
             \E q \in Ports : targets[i] = url(q) /\ url(q) \in files[urlTag(url(q))]
      BY <3>1 DEF WebInv, FilesInv
    <3>3. ~httpName
      <4> SUFFICES ASSUME httpName PROVE FALSE
        OBVIOUS
      <4>1. targets = <<Verbatim>>
        BY <2>5 DEF WebInv, TargetsInv
      <4>2. PICK q \in Ports : Verbatim = url(q)
        BY <3>2, <4>1
      <4> QED
        BY <4>2 DEF Verbatim, url
    <3>4. CASE url(p) \in in(targets)
      BY <2>3, <3>2, <3>4 DEF in
    <3> QED
      BY <2>2, <2>5, <3>3, <3>4 DEF Covered
  <2> QED
    BY <2>4, <2>5
<1> QED
  BY <1>1, WebInvariant, PTL

=============================================================================
