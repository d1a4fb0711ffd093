------------------------------ MODULE FullSweep ------------------------------
(***************************************************************************)
(* network_scan._run_full_sweep: the TCP sweep, cut into contiguous port    *)
(* ranges that are scanned one nmap after the other until they are through  *)
(* or one of them times out.  nmap writes a host's ports when the host is   *)
(* finished, so a range that does not finish yields all its ports or, nearly *)
(* always, none; what its XML lists is merged either way.  The folder is    *)
(* taken to hold no XML of an earlier run (see NetworkScan's Leftovers).    *)
(***************************************************************************)
EXTENDS Integers

CONSTANTS
    TotalPorts,     \* 65535 in the code
    Chunks,         \* settings.FULL_SWEEP_CHUNKS
    Budget,         \* settings.TIMEOUTS["nmap_full"], in seconds
    MinTimeout,     \* 60 in the code: no chunk gets less
    OpenPorts       \* the ports of the host nmap would report open

ASSUME SweepAssumption ==
    /\ TotalPorts \in Nat \ {0}
    /\ Chunks \in Int
    /\ Budget \in Nat
    /\ MinTimeout \in Nat \ {0}
    /\ OpenPorts \subseteq 1..TotalPorts

VARIABLES
    start,      \* first port of the next chunk
    idx,        \* number of the last chunk started
    found,      \* open_ports collected so far
    failed,     \* ports of chunks nmap did not finish without timing out
    scanned,    \* history: the ports of the ranges nmap was started on
    noted,      \* the first port the "incomplete" record calls unscanned, or 0
    spent,      \* seconds spent in nmap
    running     \* the while loop is still going

sweep_vars == <<start, idx, found, failed, scanned, noted, spent, running>>

N == IF Chunks > 1 THEN Chunks ELSE 1

\* -(-total_ports // n): division rounding up.
ChunkSize == -((-TotalPorts) \div N)

\* Here and below, D_<fault> is D with a fault put in, for mutation only.
PerChunkTimeout_undivided == Budget

PerChunkTimeout ==
    IF Budget \div N > MinTimeout THEN Budget \div N ELSE MinTimeout

\* The last port of the chunk at start.
End == IF start + ChunkSize - 1 < TotalPorts
       THEN start + ChunkSize - 1
       ELSE TotalPorts

SweepInit ==
    /\ start = 1
    /\ idx = 0
    /\ found = {}
    /\ failed = {}
    /\ scanned = {}
    /\ noted = 0
    /\ spent = 0
    /\ running = TRUE

ChunkDone_offByOne ==
    /\ running /\ start <= TotalPorts
    /\ \E seconds \in 0..PerChunkTimeout : spent' = spent + seconds
    /\ found' = found \cup (OpenPorts \cap start..End)
    /\ idx' = idx + 1
    /\ scanned' = scanned \cup start..End
    /\ start' = End + 2
    /\ UNCHANGED <<failed, noted, running>>

\* nmap finishes the range in time and its XML is read.
ChunkDone ==
    /\ running /\ start <= TotalPorts
    /\ \E seconds \in 0..PerChunkTimeout : spent' = spent + seconds
    /\ found' = found \cup (OpenPorts \cap start..End)
    /\ idx' = idx + 1
    /\ scanned' = scanned \cup start..End
    /\ start' = End + 1
    /\ UNCHANGED <<failed, noted, running>>

\* nmap is missing, exits with an error or leaves no readable XML: the range
\* counts for what its XML lists, the sweep goes on and nothing calls it
\* incomplete.
ChunkFailed ==
    /\ running /\ start <= TotalPorts
    /\ \E seconds \in 0..PerChunkTimeout : spent' = spent + seconds
    /\ found' \in {found, found \cup (OpenPorts \cap start..End)}
    /\ failed' = failed \cup start..End
    /\ idx' = idx + 1
    /\ scanned' = scanned \cup start..End
    /\ start' = End + 1
    /\ UNCHANGED <<noted, running>>

ChunkTimedOut_notesTheRange ==
    /\ running /\ start <= TotalPorts
    /\ spent' = spent + PerChunkTimeout
    /\ found' \in {found, found \cup (OpenPorts \cap start..End)}
    /\ noted' = start
    /\ idx' = idx + 1
    /\ scanned' = scanned \cup start..End
    /\ running' = FALSE
    /\ UNCHANGED <<start, failed>>

\* The range times out, nearly always before nmap has written its ports: record
\* what is left unscanned and stop.
ChunkTimedOut ==
    /\ running /\ start <= TotalPorts
    /\ spent' = spent + PerChunkTimeout
    /\ found' \in {found, found \cup (OpenPorts \cap start..End)}
    /\ noted' = End + 1
    /\ idx' = idx + 1
    /\ scanned' = scanned \cup start..End
    /\ running' = FALSE
    /\ UNCHANGED <<start, failed>>

\* The while condition fails: the sweep is through.
SweepOver ==
    /\ running /\ start > TotalPorts
    /\ running' = FALSE
    /\ UNCHANGED <<start, idx, found, failed, scanned, noted, spent>>

SweepNext == ChunkDone \/ ChunkFailed \/ ChunkTimedOut \/ SweepOver

SweepSpec == SweepInit /\ [][SweepNext]_sweep_vars

----------------------------------------------------------------------------
(* Properties. *)

SweepTypeOK ==
    /\ start \in 1..(TotalPorts + 1)
    /\ idx \in Nat
    /\ found \subseteq OpenPorts
    /\ failed \subseteq 1..TotalPorts
    /\ scanned \subseteq 1..TotalPorts
    /\ noted \in 0..(TotalPorts + 1)
    /\ spent \in Nat
    /\ running \in BOOLEAN

\* No port before the next chunk is forgotten: whatever chunk it fell into, an
\* open port is reported unless its own chunk failed.
NoPortSkipped ==
    \A p \in OpenPorts : p < start => p \in found \/ p \in failed

\* At the end, an open port is missing from the list only if its chunk failed,
\* it is in the range that timed out, or the incomplete record names it.
GapsAccountedFor ==
    ~running => \A p \in OpenPorts \ found :
                  \/ p \in failed
                  \/ noted > 0 /\ p >= start

\* When the sweep is over, the ports its "incomplete" record calls unscanned are
\* those no nmap was started on, none more and none less; where there is no
\* record, every port was scanned.
NoteIsExact ==
    ~running => {p \in 1..TotalPorts : noted > 0 /\ p >= noted} = (1..TotalPorts) \ scanned

\* Rounding never makes more chunks than asked for.
ChunkCountBounded == idx <= N

\* "The nmap_full time budget is divided evenly across the chunks so total
\* wall-clock is unchanged" (network_scan.py:361): the chunks take no longer than
\* the budget, or than their minimum together where that is more.
WithinBudget ==
    \/ spent <= Budget
    \/ spent <= MinTimeout * N /\ MinTimeout * N > Budget

=============================================================================
