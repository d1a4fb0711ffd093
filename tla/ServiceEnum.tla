----------------------------- MODULE ServiceEnum -----------------------------
(***************************************************************************)
(* service_enum.py: from the ports and service names of the network-scan    *)
(* summary to one handler call per port (or per host, for the host-wide     *)
(* services), which may return or raise.  The phase drives the sub-item     *)
(* counters of progress.py.                                                 *)
(***************************************************************************)
EXTENDS Progress, Sequences, FiniteSets

CONSTANTS
    PortKeys,       \* "number/proto" keys, as nmap_xml.parse_scan makes them
    Udp,            \* those of PortKeys whose protocol is UDP
    Standard(_),    \* STANDARD_PORT_MAP: the canonical service of a key, or NoService
    Canons,         \* canonical service names
    Handled,        \* those a handler is registered for (HANDLERS)
    HostWide,       \* _HOST_WIDE: those enumerated once for the whole host
    NoService       \* no such service; not a canonical name

ASSUME KeysAssumption == IsFiniteSet(PortKeys) /\ Udp \subseteq PortKeys
ASSUME CanonsAssumption ==
    /\ Handled \subseteq Canons /\ HostWide \subseteq Canons
    /\ NoService \notin Canons
    /\ \A k \in PortKeys : Standard(k) \in Canons \cup {NoService}

VARIABLES
    pc,         \* "start", "plan" (pass 1), "work" (pass 2), "done", "next phase",
                \* or "crashed": an exception has left the phase
    ports,      \* the port keys still to be looked at, in order
    listed,     \* all of them (open_ports and udp_ports)
    detected,   \* per key: the canonical service nmap's name stands for, if any
    seen,       \* canonical services already in the work list
    work,       \* the work list: [key, canon] in order
    skipped,    \* per key: why it is not in the work list
    enumerated, \* summary["enumerated"]
    results,    \* what the steps of those say: the handler's "result", or an "error"
    raised,     \* history: the places in the work list whose handler raised
    logged,     \* those of them that have a line in errors.log
    refused     \* history: errors.log could not be written

inputs == <<listed, detected>>

outcome == <<enumerated, results, raised, logged, refused>>

vars == <<progress, pc, ports, inputs, seen, work, skipped, outcome>>

\* _canonical: the detected service first, else the standard port's.
canonical(k) == IF detected[k] # NoService THEN detected[k] ELSE Standard(k)

\* The lists network_scan.py can hand over: TCP ports before UDP ports, no port
\* twice.  Ambiguous UDP ports are in none of them.
PortLists == {s \in UNION {[1..n -> PortKeys] : n \in 0..Cardinality(PortKeys)} :
                \A i, j \in DOMAIN s : i < j =>
                  s[i] # s[j] /\ (s[i] \in Udp => s[j] \in Udp)}

Init ==
    /\ Configured
    /\ pc = "start"
    /\ ports \in PortLists
    /\ listed = {ports[i] : i \in DOMAIN ports}
    /\ detected \in {f \in [PortKeys -> Canons \cup {NoService}] :
                       \A k \in PortKeys \ listed : f[k] = NoService}
    /\ seen = {}
    /\ work = <<>>
    /\ skipped = [k \in PortKeys |-> "no"]
    /\ enumerated = <<>> /\ results = <<>>
    /\ raised = {} /\ logged = {} /\ refused = FALSE

\* brain.py starts the phase.
StartPhase ==
    /\ pc = "start"
    /\ start_phase
    /\ pc' = "plan"
    /\ UNCHANGED <<inputs, ports, seen, work, skipped, outcome>>

----------------------------------------------------------------------------
(* Pass 1: dispatch and deduplication, one port at a time. *)

\* Here and below, D_<fault> is D with a fault put in, for mutation only.
Reason_plansUnknown(k) ==
    CASE canonical(k) \in Canons \ Handled -> "handler not implemented"
      [] canonical(k) \in HostWide \cap Handled \cap seen -> "already enumerated on this host"
      [] OTHER -> "no"

\* Why pass 1 passes over key k, or "no".
Reason(k) ==
    CASE canonical(k) = NoService -> "no enumerator for this service"
      [] canonical(k) \in Canons \ Handled -> "handler not implemented"
      [] canonical(k) \in HostWide \cap Handled \cap seen -> "already enumerated on this host"
      [] OTHER -> "no"

SkipPort_silently ==
    /\ pc = "plan"
    /\ ports # <<>>
    /\ Reason(Head(ports)) # "no"
    /\ ports' = Tail(ports)
    /\ UNCHANGED <<progress, pc, inputs, skipped, seen, work, outcome>>

SkipPort ==
    /\ pc = "plan"
    /\ ports # <<>>
    /\ Reason(Head(ports)) # "no"
    /\ skipped' = [skipped EXCEPT ![Head(ports)] = Reason(Head(ports))]
    /\ ports' = Tail(ports)
    /\ UNCHANGED <<progress, pc, inputs, seen, work, outcome>>

PlanPort_forgetsSeen ==
    /\ pc = "plan"
    /\ ports # <<>>
    /\ Reason(Head(ports)) = "no"
    /\ work' = Append(work, [key |-> Head(ports), canon |-> canonical(Head(ports))])
    /\ ports' = Tail(ports)
    /\ UNCHANGED <<progress, pc, inputs, skipped, seen, outcome>>

PlanPort ==
    /\ pc = "plan"
    /\ ports # <<>>
    /\ Reason(Head(ports)) = "no"
    /\ seen' = seen \cup {canonical(Head(ports))}
    /\ work' = Append(work, [key |-> Head(ports), canon |-> canonical(Head(ports))])
    /\ ports' = Tail(ports)
    /\ UNCHANGED <<progress, pc, inputs, skipped, outcome>>

----------------------------------------------------------------------------
(* Pass 2: the handlers. *)

StartWork_countsPorts ==
    /\ pc = "plan"
    /\ ports = <<>>
    /\ set_subtotal(Cardinality(listed))
    /\ pc' = "work"
    /\ UNCHANGED <<inputs, ports, seen, work, skipped, outcome>>

StartWork ==
    /\ pc = "plan"
    /\ ports = <<>>
    /\ set_subtotal(Len(work))
    /\ pc' = "work"
    /\ UNCHANGED <<inputs, ports, seen, work, skipped, outcome>>

\* The step of the manifest for the next of the work list.
Tell(result) ==
    /\ enumerated' = Append(enumerated, work[Len(enumerated) + 1].canon)
    /\ results' = Append(results, result)

RunHandler_uncaught ==
    /\ pc = "work"
    /\ Len(enumerated) < Len(work)
    /\ start_subitem
    /\ \/ Tell("result") /\ UNCHANGED <<pc, raised, logged>>
       \/ /\ raised' = raised \cup {Len(enumerated) + 1}
          /\ pc' = "crashed"
          /\ UNCHANGED <<enumerated, results, logged>>
    /\ UNCHANGED <<inputs, ports, seen, work, skipped, refused>>

\* One handler.  It returns, or what it raises becomes the step's error and a line
\* of errors.log; where that line is refused, the refusal leaves the phase, before
\* the step is told.
RunHandler ==
    /\ pc = "work"
    /\ Len(enumerated) < Len(work)
    /\ start_subitem
    /\ \/ Tell("result") /\ UNCHANGED <<pc, raised, logged, refused>>
       \/ /\ raised' = raised \cup {Len(enumerated) + 1}
          /\ \/ /\ logged' = logged \cup {Len(enumerated) + 1}
                /\ Tell("error")
                /\ UNCHANGED <<pc, refused>>
             \/ /\ refused' = TRUE
                /\ pc' = "crashed"
                /\ UNCHANGED <<enumerated, results, logged>>
    /\ UNCHANGED <<inputs, ports, seen, work, skipped>>

Finish ==
    /\ pc = "work"
    /\ Len(enumerated) = Len(work)
    /\ pc' = "done"
    /\ UNCHANGED <<progress, inputs, ports, seen, work, skipped, outcome>>

\* brain.py goes on to the next phase.
NextPhase ==
    /\ pc = "done"
    /\ start_phase
    /\ pc' = "next phase"
    /\ UNCHANGED <<inputs, ports, seen, work, skipped, outcome>>

Next ==
    StartPhase \/ SkipPort \/ PlanPort \/ StartWork \/ RunHandler \/ Finish \/ NextPhase

Spec == Init /\ [][Next]_vars

----------------------------------------------------------------------------
(* Properties. *)

Planned == {work[i].key : i \in 1..Len(work)}

TypeOK ==
    /\ ProgressTypeOK
    /\ pc \in {"start", "plan", "work", "done", "next phase", "crashed"}
    /\ ports \in Seq(PortKeys)
    /\ listed \in SUBSET PortKeys
    /\ detected \in [PortKeys -> Canons \cup {NoService}]
    /\ seen \in SUBSET Canons
    /\ work \in Seq([key : PortKeys, canon : Canons])
    /\ skipped \in [PortKeys -> {"no", "no enumerator for this service",
                                 "handler not implemented", "already enumerated on this host"}]
    /\ enumerated \in Seq(Canons)
    /\ results \in Seq({"result", "error"})
    /\ raised \subseteq 1..Len(work) /\ logged \subseteq raised
    /\ refused \in BOOLEAN

\* A service whose enumeration covers the whole host is planned once, whatever
\* ports it is found on (service_enum.py:18-22).
HostWideOnce ==
    \A i, j \in 1..Len(work) :
      work[i].canon = work[j].canon /\ work[i].canon \in HostWide => i = j

\* No listed port is passed over without a reason, and the reason is true: a
\* "duplicate" has its service in the work list, on another port.
EveryPortAccountedFor ==
    pc \notin {"start", "plan"} => \A k \in listed :
      \/ k \in Planned /\ canonical(k) \in Handled
      \/ skipped[k] = "no enumerator for this service" /\ canonical(k) = NoService
      \/ skipped[k] = "handler not implemented" /\ canonical(k) \notin Handled
      \/ /\ skipped[k] = "already enumerated on this host"
         /\ \E i \in 1..Len(work) : work[i].canon = canonical(k) /\ work[i].key # k

\* "[j/N]" counts up to N and no further, and no tool of a later phase is shown
\* under a service (progress.py:50-68).
SubItemsFit ==
    /\ pc = "work" => sub_n = Len(work) /\ sub_i <= sub_n
    /\ pc = "done" => sub_i = Len(work)
    /\ pc = "next phase" => ~cur_sub /\ sub_i = 0 /\ sub_n = 0

\* "a broken handler must not kill the phase" (service_enum.py:86), and costs no
\* service but its own: the phase ends early only where errors.log refuses a line,
\* and when it is through, every planned service is enumerated, in the order of
\* the plan, and the handlers that raised are those the manifest and errors.log
\* say of.
BrokenHandlerContained ==
    /\ pc = "crashed" => refused
    /\ pc \in {"done", "next phase"} =>
         /\ ~refused
         /\ enumerated = [i \in 1..Len(work) |-> work[i].canon]
         /\ raised = logged
         /\ raised = {i \in 1..Len(work) : results[i] = "error"}

=============================================================================
