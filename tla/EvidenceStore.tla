---------------------------- MODULE EvidenceStore ----------------------------
(***************************************************************************)
(* What /output/<label>/ promises to the runs that share it: one owner at a *)
(* time, and evidence that its own run cannot lose before it is published.  *)
(* brain.py's locking, phases and PDF-only cleanup implement this module    *)
(* (module Brain, instance Store).                                          *)
(***************************************************************************)
CONSTANTS
    Runs,       \* the runs that may use the directory, each of them once
    NoRun       \* "nobody": not a run

VARIABLES
    owner,      \* the run writing to the directory, or NoRun
    store,      \* the runs some evidence of which is in the directory
    published   \* the run the published report belongs to, or NoRun

vars == <<owner, store, published>>

Init ==
    /\ owner = NoRun
    /\ store = {}
    /\ published = NoRun

\* A run becomes the owner of a directory nobody owns.
Open(r) ==
    /\ owner = NoRun
    /\ owner' = r
    /\ UNCHANGED <<store, published>>

\* The owner adds evidence; files of the same name left by other runs may go.
Collect(r) ==
    /\ owner = r
    /\ \E kept \in SUBSET (store \ {r}) : store' = kept \cup {r}
    /\ UNCHANGED <<owner, published>>

\* The owner publishes a report.
Publish(r) ==
    /\ owner = r
    /\ published' = r
    /\ UNCHANGED <<owner, store>>

\* The owner removes evidence: its own only once its report is published.
Discard(r) ==
    /\ owner = r
    /\ store' \in SUBSET store
    /\ r \in store \ store' => published = r
    /\ UNCHANGED <<owner, published>>

\* The owner leaves, whatever it has done until then.
Close(r) ==
    /\ owner = r
    /\ owner' = NoRun
    /\ UNCHANGED <<store, published>>

Next ==
    \E r \in Runs : Open(r) \/ Collect(r) \/ Publish(r) \/ Discard(r) \/ Close(r)

Spec == Init /\ [][Next]_vars

=============================================================================
