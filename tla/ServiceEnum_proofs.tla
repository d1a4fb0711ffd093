-------------------------- MODULE ServiceEnum_proofs --------------------------
(***************************************************************************)
(* The dispatcher of service_enum.py for any ports and any detected         *)
(* services: what is planned, what is passed over and why, that the         *)
(* sub-item counter of progress.py fits, and what a broken handler costs.   *)
(***************************************************************************)
EXTENDS ServiceEnum, TLAPS, FiniteSetTheorems, SequenceTheorems

-----------------------------------------------------------------------------
(* The invariant, part by part. *)

\* The ports pass 1 has not looked at.
Rest == {ports[i] : i \in 1..Len(ports)}

Accounted(k) ==
    \/ k \in Planned /\ canonical(k) \in Handled
    \/ skipped[k] = "no enumerator for this service" /\ canonical(k) = NoService
    \/ skipped[k] = "handler not implemented" /\ canonical(k) \notin Handled
    \/ /\ skipped[k] = "already enumerated on this host"
       /\ \E i \in 1..Len(work) : work[i].canon = canonical(k) /\ work[i].key # k

\* The lists, and what their entries are.
ListsInv ==
    /\ listed \subseteq PortKeys
    /\ ports \in Seq(PortKeys) /\ Rest \subseteq listed
    /\ \A i, j \in 1..Len(ports) : ports[i] = ports[j] => i = j
    /\ work \in Seq([key : PortKeys, canon : Canons])
    /\ \A i \in 1..Len(work) : /\ work[i].key \in listed \ Rest
                               /\ work[i].canon = canonical(work[i].key)
                               /\ work[i].canon \in Handled
    /\ skipped \in [PortKeys -> {"no", "no enumerator for this service",
                                 "handler not implemented", "already enumerated on this host"}]
    /\ detected \in [PortKeys -> Canons \cup {NoService}]

\* seen is what is in the work list.
SeenInv == seen = {work[i].canon : i \in 1..Len(work)}

\* Every port pass 1 is through with is accounted for.
PlanInv ==
    /\ \A k \in listed \ Rest : Accounted(k)
    /\ pc \notin {"start", "plan"} => Rest = {}

\* The counters, at each step of the phase.
CountInv ==
    /\ ProgressTypeOK
    /\ pc \in {"start", "plan", "work", "done", "next phase", "crashed"}
    /\ enumerated \in Seq(Canons) /\ Len(enumerated) <= Len(work)
    /\ pc \in {"start", "plan"} => Len(enumerated) = 0
    /\ pc \in {"start", "plan", "next phase"} => ~cur_sub /\ sub_i = 0 /\ sub_n = 0
    /\ pc = "work" => sub_n = Len(work) /\ sub_i = Len(enumerated)
    /\ pc = "done" => sub_i = Len(work)

\* The steps told so far, and the handlers that raised: those told of, but for one
\* whose line was refused.
OutcomeInv ==
    /\ results \in Seq({"result", "error"}) /\ Len(results) = Len(enumerated)
    /\ \A i \in 1..Len(enumerated) : enumerated[i] = work[i].canon
    /\ logged = {i \in 1..Len(enumerated) : results[i] = "error"}
    /\ refused \in BOOLEAN
    /\ pc # "crashed" => ~refused /\ raised = logged
    /\ pc = "crashed" => /\ refused /\ Len(enumerated) < Len(work)
                         /\ raised = logged \cup {Len(enumerated) + 1}
    /\ pc \in {"done", "next phase"} => Len(enumerated) = Len(work)

IInv == ListsInv /\ SeenInv /\ HostWideOnce /\ PlanInv /\ CountInv /\ OutcomeInv

-----------------------------------------------------------------------------
(* Lemmas. *)

\* A canonical service is a name, or none.
LEMMA CanonicalType ==
    ASSUME ListsInv, NEW k \in PortKeys
    PROVE  canonical(k) \in Canons \cup {NoService}
BY CanonsAssumption DEF ListsInv, canonical

\* The port pass 1 looks at, and those it leaves.
LEMMA HeadFacts ==
    ASSUME ListsInv, ports # <<>>, ports' = Tail(ports)
    PROVE  /\ Head(ports) \in listed /\ Head(ports) \in Rest
           /\ ports' \in Seq(PortKeys) /\ Rest' = Rest \ {Head(ports)}
           /\ \A i, j \in 1..Len(ports') : ports'[i] = ports'[j] => i = j
<1>1. /\ ports' \in Seq(PortKeys)
      /\ Len(ports') = Len(ports) - 1
      /\ \A i \in 1..Len(ports') : ports'[i] = ports[i + 1]
  BY HeadTailProperties DEF ListsInv
<1>2. Len(ports) \in Nat \ {0} /\ Head(ports) = ports[1]
  <2>1. ports \in Seq(PortKeys)
    BY DEF ListsInv
  <2>2. Len(ports) \in Nat \ {0}
    BY <2>1, EmptySeq
  <2> QED
    BY <2>1, <2>2
<1>3. ASSUME NEW i \in 1..Len(ports')
      PROVE  i + 1 \in 1..Len(ports) /\ i + 1 # 1
  BY <1>1, <1>2
<1>4. \A i, j \in 1..Len(ports) : ports[i] = ports[j] => i = j
  BY DEF ListsInv
<1>5. Rest' = Rest \ {Head(ports)}
  <2>1. ASSUME NEW k \in Rest' PROVE k \in Rest \ {Head(ports)}
    <3>1. PICK i \in 1..Len(ports') : k = ports[i + 1]
      BY <1>1, <2>1 DEF Rest
    <3>2. i + 1 \in 1..Len(ports) /\ i + 1 # 1 /\ 1 \in 1..Len(ports)
      BY <1>3, <1>2
    <3>3. ports[i + 1] # ports[1]
      BY <3>2, <1>4
    <3> QED
      BY <1>2, <3>1, <3>2, <3>3 DEF Rest
  <2>2. ASSUME NEW k \in Rest \ {Head(ports)} PROVE k \in Rest'
    <3>1. PICK i \in 1..Len(ports) : k = ports[i]
      BY DEF Rest
    <3>2. i - 1 \in 1..Len(ports') /\ ports'[i - 1] = k
      BY <1>1, <1>2, <2>2, <3>1
    <3> QED
      BY <3>2 DEF Rest
  <2> QED
    BY <2>1, <2>2
<1>6. \A i, j \in 1..Len(ports') : ports'[i] = ports'[j] => i = j
  <2> SUFFICES ASSUME NEW i \in 1..Len(ports'), NEW j \in 1..Len(ports'), ports'[i] = ports'[j]
               PROVE  i = j
    OBVIOUS
  <2>1. i + 1 \in 1..Len(ports) /\ j + 1 \in 1..Len(ports) /\ ports[i + 1] = ports[j + 1]
    BY <1>3, <1>1
  <2>2. i + 1 = j + 1
    BY <2>1, <1>4
  <2> QED
    BY <1>1, <2>2
<1> QED
  <2>1. 1 \in 1..Len(ports) /\ Head(ports) = ports[1]
    BY <1>2
  <2> QED
    BY <1>1, <1>5, <1>6, <2>1 DEF Rest, ListsInv

LEMMA InitIInv == Init => IInv
<1> SUFFICES ASSUME Init PROVE IInv
  OBVIOUS
<1>1. PICK n \in 0..Cardinality(PortKeys) : ports \in [1..n -> PortKeys]
  BY DEF Init, PortLists
<1>2. n \in Nat
  BY FS_CardinalityType, KeysAssumption
<1>3. ports \in Seq(PortKeys) /\ Len(ports) = n /\ DOMAIN ports = 1..n
  BY <1>1, <1>2
<1>4. \A i, j \in 1..n : ports[i] = ports[j] => i = j
  <2>1. \A i, j \in 1..n : i < j => ports[i] # ports[j]
    BY <1>3 DEF Init, PortLists
  <2> QED
    BY <1>2, <2>1
<1>5. Rest = listed /\ listed \subseteq PortKeys
  BY <1>1, <1>3 DEF Init, Rest
<1>6. ListsInv
  BY <1>3, <1>4, <1>5 DEF Init, ListsInv
<1>7. SeenInv /\ HostWideOnce
  BY DEF Init, SeenInv, HostWideOnce
<1>8. PlanInv
  BY <1>5 DEF Init, PlanInv
<1>9. CountInv
  <2>1. enumerated = <<>> /\ work = <<>> /\ pc = "start"
    BY DEF Init
  <2>2. enumerated \in Seq(Canons) /\ Len(enumerated) = 0 /\ Len(work) = 0
    BY <2>1
  <2>3. ProgressTypeOK /\ ~cur_sub /\ sub_i = 0 /\ sub_n = 0
    BY DEF Init, Configured, ProgressTypeOK
  <2> QED
    BY <2>1, <2>2, <2>3 DEF CountInv
<1>10. OutcomeInv
  <2>1. /\ enumerated = <<>> /\ results = <<>> /\ pc = "start"
        /\ raised = {} /\ logged = {} /\ refused = FALSE
    BY DEF Init
  <2>2. results \in Seq({"result", "error"}) /\ Len(results) = 0 /\ Len(enumerated) = 0
    BY <2>1
  <2>3. logged = {i \in 1..Len(enumerated) : results[i] = "error"}
    BY <2>1, <2>2
  <2>4. refused \in BOOLEAN /\ ~refused
    BY <2>1, Zenon
  <2>5. \A i \in 1..Len(enumerated) : enumerated[i] = work[i].canon
    BY <2>2
  <2> QED
    BY <2>1, <2>2, <2>3, <2>4, <2>5 DEF OutcomeInv
<1> QED
  BY <1>6, <1>7, <1>8, <1>9, <1>10 DEF IInv

-----------------------------------------------------------------------------
(* The steps of pass 1. *)

\* Why pass 1 passes over a port, or that its service has a handler.
LEMMA ReasonFacts ==
    ASSUME ListsInv, NEW k \in PortKeys
    PROVE  \/ Reason(k) = "no enumerator for this service" /\ canonical(k) = NoService
           \/ Reason(k) = "handler not implemented" /\ canonical(k) \notin Handled
           \/ /\ Reason(k) = "already enumerated on this host"
              /\ canonical(k) \in HostWide \cap seen
           \/ /\ Reason(k) = "no" /\ canonical(k) \in Handled
              /\ canonical(k) \notin HostWide \cap seen
<1>1. canonical(k) \in Canons \cup {NoService}
  BY CanonicalType
<1>2. CASE canonical(k) = NoService
  BY <1>2, CanonsAssumption DEF Reason
<1>3. CASE canonical(k) \in Canons \ Handled
  BY <1>3, CanonsAssumption DEF Reason
<1>4. CASE canonical(k) \in HostWide \cap Handled \cap seen
  BY <1>4, CanonsAssumption DEF Reason
<1>5. CASE canonical(k) \in Handled /\ canonical(k) \notin HostWide \cap seen
  BY <1>5, CanonsAssumption DEF Reason
<1> QED
  BY <1>1, <1>2, <1>3, <1>4, <1>5

LEMMA SkipStep == IInv /\ SkipPort => IInv'
<1> SUFFICES ASSUME IInv, SkipPort PROVE IInv'
  OBVIOUS
<1>1. PICK k \in PortKeys :
         /\ k = Head(ports) /\ k \in listed /\ k \in Rest
         /\ ports' \in Seq(PortKeys) /\ Rest' = Rest \ {k}
         /\ \A i, j \in 1..Len(ports') : ports'[i] = ports'[j] => i = j
  BY HeadFacts DEF IInv, ListsInv, SkipPort
<1>2. /\ skipped' = [skipped EXCEPT ![k] = Reason(k)] /\ Reason(k) # "no"
      /\ UNCHANGED <<work, listed, detected, seen, outcome, pc, progress>>
  BY <1>1 DEF SkipPort, inputs
<1>3. \A l \in PortKeys : canonical(l)' = canonical(l)
  BY <1>2 DEF canonical
<1>4. ListsInv'
  BY <1>1, <1>2, <1>3, ReasonFacts DEF IInv, ListsInv
<1>5. SeenInv' /\ HostWideOnce'
  BY <1>2 DEF IInv, SeenInv, HostWideOnce
<1>6. CountInv' /\ OutcomeInv'
  BY <1>2 DEF IInv, CountInv, OutcomeInv, ProgressTypeOK, progress, outcome
<1>7. Accounted(k)'
  <2>1. ASSUME canonical(k) \in seen
        PROVE  \E i \in 1..Len(work) : work[i].canon = canonical(k) /\ work[i].key # k
    <3>1. PICK i \in 1..Len(work) : work[i].canon = canonical(k)
      BY <2>1 DEF IInv, SeenInv
    <3> QED
      BY <1>1, <3>1 DEF IInv, ListsInv
  <2>2. skipped'[k] = Reason(k)
    BY <1>1, <1>2 DEF IInv, ListsInv
  <2> QED
    BY <1>1, <1>2, <1>3, <2>1, <2>2, ReasonFacts DEF IInv, Accounted
<1>8. ASSUME NEW l \in listed \ Rest, Accounted(l) PROVE Accounted(l)'
  <2>1. l \in PortKeys /\ skipped'[l] = skipped[l]
    BY <1>1, <1>2 DEF IInv, ListsInv
  <2> QED
    BY <1>2, <1>3, <1>8, <2>1 DEF Accounted, Planned
<1>9. PlanInv'
  BY <1>1, <1>2, <1>7, <1>8 DEF IInv, PlanInv, SkipPort
<1> QED
  BY <1>4, <1>5, <1>6, <1>9 DEF IInv

\* Appending to the work list.
LEMMA AppendFacts ==
    ASSUME ListsInv, NEW w \in [key : PortKeys, canon : Canons], work' = Append(work, w)
    PROVE  /\ work' \in Seq([key : PortKeys, canon : Canons])
           /\ Len(work) \in Nat /\ Len(work') = Len(work) + 1
           /\ work'[Len(work')] = w
           /\ \A i \in 1..Len(work) : work'[i] = work[i]
<1>1. work \in Seq([key : PortKeys, canon : Canons])
  BY DEF ListsInv
<1>2. Len(work) \in Nat
  BY <1>1, LenProperties
<1> QED
  BY <1>1, <1>2, AppendProperties

LEMMA PlanStep == IInv /\ PlanPort => IInv'
<1> SUFFICES ASSUME IInv, PlanPort PROVE IInv'
  OBVIOUS
<1>1. PICK k \in PortKeys :
         /\ k = Head(ports) /\ k \in listed /\ k \in Rest
         /\ ports' \in Seq(PortKeys) /\ Rest' = Rest \ {k}
         /\ \A i, j \in 1..Len(ports') : ports'[i] = ports'[j] => i = j
  BY HeadFacts DEF IInv, ListsInv, PlanPort
<1>2. /\ work' = Append(work, [key |-> k, canon |-> canonical(k)]) /\ seen' = seen \cup {canonical(k)}
      /\ Reason(k) = "no"
      /\ UNCHANGED <<skipped, listed, detected, outcome, pc, progress>>
      /\ pc = "plan"
  BY <1>1 DEF PlanPort, inputs
<1>3. canonical(k) \in Handled /\ canonical(k) \notin HostWide \cap seen
  BY <1>1, <1>2, ReasonFacts DEF IInv
<1>4. PICK w \in [key : PortKeys, canon : Canons] :
         w = [key |-> k, canon |-> canonical(k)] /\ w.key = k /\ w.canon = canonical(k)
  <2>1. canonical(k) \in Canons
    BY <1>3, CanonsAssumption
  <2>2. [key |-> k, canon |-> canonical(k)] \in [key : PortKeys, canon : Canons]
    BY <2>1
  <2> QED
    BY <2>2
<1>5. /\ work' \in Seq([key : PortKeys, canon : Canons])
      /\ Len(work) \in Nat /\ Len(work') = Len(work) + 1
      /\ work'[Len(work')] = w
      /\ \A i \in 1..Len(work) : work'[i] = work[i]
  BY <1>2, <1>4, AppendFacts DEF IInv
<1>6. \A i \in 1..Len(work') : i \in 1..Len(work) \/ i = Len(work')
  BY <1>5
<1>7. \A l \in PortKeys : canonical(l)' = canonical(l)
  BY <1>2 DEF canonical
<1>8. ListsInv'
  <2>1. ASSUME NEW i \in 1..Len(work')
        PROVE  /\ work'[i].key \in listed' \ Rest'
               /\ (work[i].canon = canonical(work[i].key))'
               /\ work'[i].canon \in Handled
    <3>1. CASE i \in 1..Len(work)
      <4>1. work[i].key \in listed \ Rest /\ work[i].canon = canonical(work[i].key)
            /\ work[i].canon \in Handled /\ work'[i] = work[i]
        BY <1>5, <3>1 DEF IInv, ListsInv
      <4>2. work[i].key \in PortKeys
        BY <4>1 DEF IInv, ListsInv
      <4> QED
        BY <1>1, <1>2, <4>1, <4>2 DEF canonical
    <3>2. CASE i = Len(work')
      BY <1>1, <1>2, <1>3, <1>4, <1>5, <3>2 DEF canonical
    <3> QED
      BY <1>6, <3>1, <3>2
  <2>2. Rest' \subseteq listed' /\ listed' \subseteq PortKeys
    BY <1>1, <1>2 DEF IInv, ListsInv
  <2>3. /\ skipped' = skipped /\ detected' = detected
    BY <1>2
  <2> QED
    BY <1>1, <1>5, <2>1, <2>2, <2>3 DEF IInv, ListsInv
<1>9. SeenInv'
  <2>1. {work'[i].canon : i \in 1..Len(work')} =
          {work[i].canon : i \in 1..Len(work)} \cup {canonical(k)}
    BY <1>4, <1>5, <1>6
  <2> QED
    BY <1>2, <2>1 DEF IInv, SeenInv
<1>10. HostWideOnce'
  <2> SUFFICES ASSUME NEW i \in 1..Len(work'), NEW j \in 1..Len(work'),
                      work'[i].canon = work'[j].canon, work'[i].canon \in HostWide
               PROVE  i = j
    BY DEF HostWideOnce
  <2>1. \A l \in 1..Len(work) : work[l].canon \in seen
    BY DEF IInv, SeenInv
  <2>2. CASE i \in 1..Len(work) /\ j \in 1..Len(work)
    BY <1>5, <2>2 DEF IInv, HostWideOnce
  <2>3. CASE i = Len(work') /\ j \in 1..Len(work)
    BY <1>3, <1>4, <1>5, <2>1, <2>3
  <2>4. CASE j = Len(work') /\ i \in 1..Len(work)
    BY <1>3, <1>4, <1>5, <2>1, <2>4
  <2> QED
    BY <1>6, <2>2, <2>3, <2>4
<1>11. CountInv' /\ OutcomeInv'
  <2>1. CountInv'
    BY <1>2, <1>5 DEF IInv, CountInv, ProgressTypeOK, progress, outcome
  <2>2. OutcomeInv'
    BY <1>2 DEF IInv, CountInv, OutcomeInv, outcome
  <2> QED
    BY <2>1, <2>2
<1>12. Accounted(k)'
  <2>1. k \in Planned'
    BY <1>4, <1>5 DEF Planned
  <2> QED
    BY <1>1, <1>2, <1>3, <1>7, <2>1 DEF Accounted
<1>13. ASSUME NEW l \in listed \ Rest, Accounted(l) PROVE Accounted(l)'
  <2>1. l \in PortKeys /\ skipped'[l] = skipped[l] /\ canonical(l)' = canonical(l)
    BY <1>2, <1>7 DEF IInv, ListsInv
  <2>2. l \in Planned => l \in Planned'
    BY <1>5, <1>6 DEF Planned
  <2>3. \A i \in 1..Len(work) : i \in 1..Len(work') /\ work'[i] = work[i]
    BY <1>5
  <2> QED
    BY <1>13, <2>1, <2>2, <2>3 DEF Accounted
<1>14. PlanInv'
  BY <1>1, <1>2, <1>12, <1>13 DEF IInv, PlanInv
<1> QED
  BY <1>8, <1>9, <1>10, <1>11, <1>14 DEF IInv

-----------------------------------------------------------------------------
(* The other steps, which leave what pass 1 decides alone. *)

LEMMA PlanStays ==
    ASSUME ListsInv, SeenInv, HostWideOnce, \A k \in listed \ Rest : Accounted(k),
           UNCHANGED <<ports, listed, detected, seen, work, skipped>>
    PROVE  ListsInv' /\ SeenInv' /\ HostWideOnce' /\ \A k \in listed' \ Rest' : Accounted(k)'
<1>1. Rest' = Rest
  BY DEF Rest
<1>2. ListsInv'
  BY <1>1 DEF ListsInv, canonical
<1>3. SeenInv' /\ HostWideOnce'
  BY DEF SeenInv, HostWideOnce
<1>4. ASSUME NEW k \in listed \ Rest PROVE Accounted(k)'
  <2>1. Planned' = Planned /\ canonical(k)' = canonical(k)
    BY DEF Planned, canonical
  <2> QED
    BY <2>1 DEF Accounted
<1> QED
  BY <1>1, <1>2, <1>3, <1>4

LEMMA PhaseStartTyped == ProgressTypeOK /\ start_phase => ProgressTypeOK'
<1> SUFFICES ASSUME ProgressTypeOK, start_phase PROVE ProgressTypeOK'
  OBVIOUS
<1>1. phase_i' \in Nat
  BY DEF ProgressTypeOK, start_phase
<1>2. steps' \in Nat /\ sub_i' \in Nat /\ sub_n' \in Nat
  BY DEF ProgressTypeOK, start_phase
<1>3. cur_sub' \in BOOLEAN
  BY Zenon DEF start_phase
<1> QED
  BY <1>1, <1>2, <1>3 DEF ProgressTypeOK

\* What one handler adds to what is told, or that the phase ends with it.
LEMMA RunHandlerOutcome ==
    ASSUME IInv, RunHandler
    PROVE  /\ enumerated' \in Seq(Canons) /\ Len(enumerated') <= Len(work)
           /\ \/ pc' = pc /\ Len(enumerated') = Len(enumerated) + 1
              \/ pc' = "crashed" /\ Len(enumerated') = Len(enumerated)
           /\ OutcomeInv'
<1> DEFINE e == Len(enumerated)
           next == work[e + 1].canon
<1>1. /\ enumerated \in Seq(Canons) /\ results \in Seq({"result", "error"})
      /\ e \in Nat /\ Len(results) = e /\ Len(work) \in Nat /\ e + 1 \in 1..Len(work)
      /\ pc = "work" /\ ~refused /\ raised = logged /\ work' = work
  <2>1. /\ enumerated \in Seq(Canons) /\ results \in Seq({"result", "error"})
        /\ work \in Seq([key : PortKeys, canon : Canons]) /\ Len(results) = e
        /\ pc # "crashed" => ~refused /\ raised = logged
    BY DEF IInv, ListsInv, CountInv, OutcomeInv
  <2>2. e \in Nat /\ Len(work) \in Nat
    BY <2>1, LenProperties
  <2>3. pc = "work" /\ e < Len(work) /\ work' = work
    BY DEF RunHandler
  <2> QED
    BY <2>1, <2>2, <2>3
<1>2. next \in Canons
  BY <1>1, CanonsAssumption DEF IInv, ListsInv
<1>3. ASSUME NEW res \in {"result", "error"}, Tell(res)
      PROVE  /\ enumerated' \in Seq(Canons) /\ results' \in Seq({"result", "error"})
             /\ Len(enumerated') = e + 1 /\ Len(results') = e + 1
             /\ enumerated'[e + 1] = next /\ results'[e + 1] = res
             /\ \A i \in 1..e : enumerated'[i] = enumerated[i] /\ results'[i] = results[i]
  BY <1>1, <1>2, <1>3, AppendProperties DEF Tell
<1> HIDE DEF e, next
<1>4. \A i \in 1..(e + 1) : i \in 1..e \/ i = e + 1
  BY <1>1
<1>5. \A i \in 1..e : enumerated[i] = work[i].canon
  BY DEF IInv, OutcomeInv, e
<1>6. logged = {i \in 1..e : results[i] = "error"}
  BY DEF IInv, OutcomeInv, e
<1>7. ASSUME NEW res \in {"result", "error"}, Tell(res), pc' = pc, raised' = logged', refused' = refused,
             logged' = IF res = "error" THEN logged \cup {e + 1} ELSE logged
      PROVE  /\ enumerated' \in Seq(Canons) /\ Len(enumerated') = e + 1
             /\ OutcomeInv'
  <2>1. /\ enumerated' \in Seq(Canons) /\ results' \in Seq({"result", "error"})
        /\ Len(enumerated') = e + 1 /\ Len(results') = e + 1
        /\ enumerated'[e + 1] = next /\ results'[e + 1] = res
        /\ \A i \in 1..e : enumerated'[i] = enumerated[i] /\ results'[i] = results[i]
    BY <1>3, <1>7
  <2>2. \A i \in 1..(e + 1) : enumerated'[i] = work'[i].canon
    BY <1>1, <1>4, <1>5, <2>1 DEF next
  <2>3. logged' = {i \in 1..(e + 1) : results'[i] = "error"}
    BY <1>1, <1>4, <1>6, <1>7, <2>1
  <2>4. refused' \in BOOLEAN
    BY <1>7, Zenon DEF IInv, OutcomeInv
  <2>5. pc' = "work" /\ ~refused'
    BY <1>1, <1>7
  <2> QED
    BY <1>7, <2>1, <2>2, <2>3, <2>4, <2>5 DEF OutcomeInv
<1>8. CASE Tell("result") /\ UNCHANGED <<pc, raised, logged, refused>>
  <2>1. enumerated' \in Seq(Canons) /\ Len(enumerated') = e + 1 /\ OutcomeInv'
    BY <1>1, <1>7, <1>8
  <2>2. Len(enumerated') <= Len(work)
    BY <1>1, <2>1
  <2> QED
    BY <1>8, <2>1, <2>2 DEF e
<1>9. CASE /\ raised' = raised \cup {e + 1} /\ logged' = logged \cup {e + 1}
           /\ Tell("error") /\ UNCHANGED <<pc, refused>>
  <2>1. enumerated' \in Seq(Canons) /\ Len(enumerated') = e + 1 /\ OutcomeInv'
    BY <1>1, <1>7, <1>9
  <2>2. Len(enumerated') <= Len(work)
    BY <1>1, <2>1
  <2> QED
    BY <1>9, <2>1, <2>2 DEF e
<1>10. CASE /\ raised' = raised \cup {e + 1} /\ refused' = TRUE /\ pc' = "crashed"
            /\ UNCHANGED <<enumerated, results, logged>>
  BY <1>1, <1>2, <1>5, <1>6, <1>10 DEF OutcomeInv, e
<1>11. \/ Tell("result") /\ UNCHANGED <<pc, raised, logged, refused>>
       \/ /\ raised' = raised \cup {e + 1} /\ logged' = logged \cup {e + 1}
          /\ Tell("error") /\ UNCHANGED <<pc, refused>>
       \/ /\ raised' = raised \cup {e + 1} /\ refused' = TRUE /\ pc' = "crashed"
          /\ UNCHANGED <<enumerated, results, logged>>
  BY DEF RunHandler, e
<1> QED
  BY <1>8, <1>9, <1>10, <1>11 DEF e

LEMMA OtherSteps ==
    IInv /\ (StartPhase \/ StartWork \/ RunHandler \/ Finish \/ NextPhase \/ UNCHANGED vars) => IInv'
<1> SUFFICES ASSUME IInv,
                    StartPhase \/ StartWork \/ RunHandler \/ Finish \/ NextPhase \/ UNCHANGED vars
             PROVE  IInv'
  OBVIOUS
<1>1. UNCHANGED <<ports, listed, detected, seen, work, skipped>>
  BY DEF StartPhase, StartWork, RunHandler, Finish, NextPhase, vars, inputs
<1>2. ListsInv' /\ SeenInv' /\ HostWideOnce' /\ \A k \in listed' \ Rest' : Accounted(k)'
  BY <1>1, PlanStays DEF IInv, PlanInv
<1>3. Len(work) \in Nat /\ Len(enumerated) \in Nat
  BY LenProperties DEF IInv, ListsInv, CountInv
<1>4. (pc \notin {"start", "plan"} => Rest = {})'
  <2>1. ports = <<>> => Rest = {}
    BY DEF Rest
  <2>2. Rest' = Rest
    BY <1>1 DEF Rest
  <2> QED
    BY <2>1, <2>2 DEF StartPhase, StartWork, RunHandler, Finish, NextPhase, vars, IInv, PlanInv
<1>5. PlanInv'
  BY <1>2, <1>4 DEF PlanInv
<1>6. OutcomeInv'
  <2> USE DEF OutcomeInv
  <2>1. CASE StartPhase \/ StartWork \/ NextPhase
    <3>1. /\ UNCHANGED <<enumerated, results, raised, logged, refused, work>>
          /\ pc # "crashed" /\ pc' \in {"plan", "work", "next phase"}
          /\ pc' = "next phase" => pc = "done"
      BY <1>1, <2>1 DEF StartPhase, StartWork, NextPhase, outcome
    <3> QED
      BY <3>1 DEF IInv
  <2>2. CASE Finish
    BY <1>1, <2>2 DEF Finish, outcome, IInv
  <2>3. CASE RunHandler
    BY <1>1, <1>3, <2>3, RunHandlerOutcome DEF IInv
  <2>4. CASE UNCHANGED vars
    BY <1>1, <2>4 DEF vars, outcome, IInv
  <2> QED
    BY <2>1, <2>2, <2>3, <2>4
<1>7. CountInv'
  <2> USE DEF CountInv, IInv
  <2>1. CASE StartPhase
    <3>1. ProgressTypeOK' /\ sub_i' = 0 /\ sub_n' = 0 /\ ~cur_sub'
      BY <2>1, PhaseStartTyped DEF StartPhase, start_phase
    <3> QED
      BY <1>1, <2>1, <3>1 DEF StartPhase, outcome
  <2>2. CASE StartWork
    BY <1>1, <1>3, <2>2 DEF StartWork, set_subtotal, ProgressTypeOK, outcome
  <2>3. CASE RunHandler
    <3>1. /\ enumerated' \in Seq(Canons) /\ Len(enumerated) < Len(work)
          /\ \/ pc' = pc /\ Len(enumerated') = Len(enumerated) + 1
             \/ pc' = "crashed" /\ Len(enumerated') = Len(enumerated)
      BY <1>3, <2>3, RunHandlerOutcome DEF RunHandler
    <3>2. ProgressTypeOK'
      <4>1. cur_sub' \in BOOLEAN
        BY <2>3, Zenon DEF RunHandler, start_subitem
      <4> QED
        BY <2>3, <4>1 DEF RunHandler, start_subitem, ProgressTypeOK
    <3>3. pc = "work" /\ sub_i' = sub_i + 1 /\ sub_n' = sub_n
      BY <2>3 DEF RunHandler, start_subitem
    <3>4. Len(enumerated') <= Len(work') /\ Len(work') = Len(work)
      <4>1. work' = work
        BY <1>1
      <4>2. Len(work') = Len(work)
        BY <4>1
      <4>3. Len(enumerated') <= Len(work)
        BY <2>3, RunHandlerOutcome
      <4> QED
        BY <4>2, <4>3
    <3>5. CASE pc' = pc /\ Len(enumerated') = Len(enumerated) + 1
      BY <3>1, <3>2, <3>3, <3>4, <3>5
    <3>6. CASE pc' = "crashed" /\ Len(enumerated') = Len(enumerated)
      BY <3>1, <3>2, <3>3, <3>4, <3>6
    <3> QED
      BY <3>1, <3>5, <3>6
  <2>4. CASE Finish
    BY <1>1, <2>4 DEF Finish, outcome, progress, ProgressTypeOK
  <2>5. CASE NextPhase
    <3>1. ProgressTypeOK' /\ sub_i' = 0 /\ sub_n' = 0 /\ ~cur_sub'
      BY <2>5, PhaseStartTyped DEF NextPhase, start_phase
    <3> QED
      BY <1>1, <2>5, <3>1 DEF NextPhase, outcome
  <2>6. CASE UNCHANGED vars
    BY <1>1, <2>6 DEF vars, progress, ProgressTypeOK, outcome
  <2> QED
    BY <2>1, <2>2, <2>3, <2>4, <2>5, <2>6
<1> QED
  BY <1>2, <1>5, <1>6, <1>7 DEF IInv

LEMMA InductiveInvariant == Spec => []IInv
<1>1. IInv /\ [Next]_vars => IInv'
  BY SkipStep, PlanStep, OtherSteps DEF Next
<1> QED
  BY <1>1, InitIInv, PTL DEF Spec

-----------------------------------------------------------------------------
(* The theorems. *)

\* The ports, the work list, the reasons and what is told of the handlers keep their
\* types (run_service_enum, pass 1 and pass 2).
THEOREM TypeCorrect == Spec => []TypeOK
<1>1. IInv => TypeOK
  <2> SUFFICES ASSUME IInv PROVE TypeOK
    OBVIOUS
  <2>1. seen \in SUBSET Canons
    <3>1. \A i \in 1..Len(work) : work[i].canon \in Canons
      BY CanonsAssumption DEF IInv, ListsInv
    <3> QED
      BY <3>1 DEF IInv, SeenInv
  <2>2. logged \subseteq raised /\ raised \subseteq 1..Len(work)
    <3>1. Len(work) \in Nat /\ Len(enumerated) \in Nat /\ Len(enumerated) <= Len(work)
      BY LenProperties DEF IInv, ListsInv, CountInv
    <3>2. pc = "crashed" => Len(enumerated) < Len(work) /\ raised = logged \cup {Len(enumerated) + 1}
      BY DEF IInv, OutcomeInv
    <3>3. pc # "crashed" => raised = logged
      BY DEF IInv, OutcomeInv
    <3>4. logged \subseteq 1..Len(enumerated)
      BY DEF IInv, OutcomeInv
    <3>5. CASE pc = "crashed"
      <4>1. Len(enumerated) + 1 \in 1..Len(work) /\ 1..Len(enumerated) \subseteq 1..Len(work)
        BY <3>1, <3>2, <3>5
      <4> QED
        BY <3>2, <3>4, <3>5, <4>1
    <3>6. CASE pc # "crashed"
      <4>1. 1..Len(enumerated) \subseteq 1..Len(work)
        BY <3>1
      <4> QED
        BY <3>3, <3>4, <3>6, <4>1
    <3> QED
      BY <3>5, <3>6
  <2> QED
    BY <2>1, <2>2 DEF IInv, ListsInv, CountInv, OutcomeInv, TypeOK
<1> QED
  BY <1>1, InductiveInvariant, PTL

\* Whatever ports and services are found, a host-wide service is planned once.
THEOREM HostWidePlannedOnce == Spec => []HostWideOnce
BY InductiveInvariant, PTL DEF IInv

\* No listed port is passed over but for a reason that is recorded and true.
THEOREM PortsAccountedFor == Spec => []EveryPortAccountedFor
<1>1. IInv => EveryPortAccountedFor
  BY DEF IInv, PlanInv, Accounted, EveryPortAccountedFor
<1> QED
  BY <1>1, InductiveInvariant, PTL

\* The counters of progress.py fit the work list while the phase lasts, and tell
\* the next phase nothing of it.
THEOREM CountersFit == Spec => []SubItemsFit
<1>1. IInv => SubItemsFit
  BY DEF IInv, CountInv, SubItemsFit
<1> QED
  BY <1>1, InductiveInvariant, PTL

\* However many handlers raise, only a refused line of errors.log ends the phase
\* before every planned service is enumerated and every failure told of
\* (src/modules/service_enum.py, the except block of pass 2).
THEOREM BrokenHandlersContained == Spec => []BrokenHandlerContained
<1>1. IInv => BrokenHandlerContained
  <2> SUFFICES ASSUME IInv, pc \in {"done", "next phase"}
               PROVE  /\ ~refused /\ raised = logged
                      /\ enumerated = [i \in 1..Len(work) |-> work[i].canon]
                      /\ raised = {i \in 1..Len(work) : results[i] = "error"}
    BY DEF IInv, OutcomeInv, BrokenHandlerContained
  <2>1. /\ ~refused /\ raised = logged /\ Len(enumerated) = Len(work)
        /\ raised = {i \in 1..Len(work) : results[i] = "error"}
        /\ \A i \in 1..Len(work) : enumerated[i] = work[i].canon
    BY DEF IInv, OutcomeInv
  <2>2. enumerated \in [1..Len(work) -> Canons]
    BY <2>1, LenProperties DEF IInv, CountInv
  <2> QED
    BY <2>1, <2>2
<1> QED
  BY <1>1, InductiveInvariant, PTL

=============================================================================
