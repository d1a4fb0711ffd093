------------------------------- MODULE Progress -------------------------------
(***************************************************************************)
(* progress.py: the counters behind the heartbeat lines.  The modules that  *)
(* call it extend this one; each action changes these variables only.       *)
(***************************************************************************)
EXTENDS Naturals

VARIABLES
    phase_i,    \* number of the phase at work
    steps,      \* external tool runs started so far
    sub_i,      \* number of the current sub-item of the phase
    sub_n,      \* how many sub-items the phase has; 0 also stands for unknown
    cur_sub     \* a sub-item is current, and tool lines are indented under it

progress == <<phase_i, steps, sub_i, sub_n, cur_sub>>

ProgressTypeOK ==
    /\ phase_i \in Nat /\ steps \in Nat /\ sub_i \in Nat /\ sub_n \in Nat
    /\ cur_sub \in BOOLEAN

\* configure: the module's state when main() has declared the plan.
Configured ==
    /\ phase_i = 0 /\ steps = 0 /\ sub_i = 0 /\ sub_n = 0
    /\ cur_sub = FALSE

start_phase ==
    /\ phase_i' = phase_i + 1
    /\ sub_i' = 0 /\ sub_n' = 0
    /\ cur_sub' = FALSE
    /\ UNCHANGED steps

set_subtotal(n) ==
    /\ sub_n' = n
    /\ UNCHANGED <<phase_i, steps, sub_i, cur_sub>>

start_subitem ==
    /\ sub_i' = sub_i + 1
    /\ cur_sub' = TRUE
    /\ UNCHANGED <<phase_i, steps, sub_n>>

tool_start ==
    /\ steps' = steps + 1
    /\ UNCHANGED <<phase_i, sub_i, sub_n, cur_sub>>

=============================================================================
