------------------------------- MODULE Executor -------------------------------
(***************************************************************************)
(* executor.run_tool: one external tool, from tool_start to the ToolResult. *)
(* The tool may be missing, exit, time out or fail to start; the disk may   *)
(* refuse the output file or the line of errors.log.  run_tool's handlers   *)
(* catch some of that and not the rest, depending on where it happens.      *)
(* Module Handlers composes it with its callers.                            *)
(***************************************************************************)
EXTENDS Progress

VARIABLES
    pc,         \* where run_tool is
    out,        \* this call has an output_path
    exit,       \* how the tool ended, as subprocess.run tells it
    written,    \* what this call put into its output file
    logged,     \* this call put a line into errors.log
    diskError,  \* a write of this call failed
    result      \* what the caller gets

executor == <<pc, out, exit, written, logged, diskError, result>>
ExecutorVars == <<progress, executor>>

\* "undecodable": the tool ran, but its output is not UTF-8 and text=True raises.
Exits == {"none", "zero", "nonzero", "timeout", "not started", "undecodable"}

NoResult == [missing |-> FALSE, timed_out |-> FALSE, returncode |-> "None", stdout |-> FALSE]

Results == [missing : BOOLEAN, timed_out : BOOLEAN,
            returncode : {"None", "zero", "nonzero"}, stdout : BOOLEAN]

\* ToolResult.ok
ok(res) == ~res.missing /\ ~res.timed_out /\ res.returncode = "zero"

ExecutorInit ==
    /\ Configured
    /\ pc = "idle"
    /\ out = FALSE
    /\ exit = "none"
    /\ written = "nothing"
    /\ logged = FALSE
    /\ diskError = FALSE
    /\ result = NoResult

\* The caller's call, with an output_path or without: tool_start, then the look
\* for the binary on PATH, which finds it when the caller has just looked too.
Call(path, available) ==
    /\ pc = "idle"
    /\ tool_start
    /\ out' = path
    /\ pc' \in {"running"} \cup (IF available THEN {} ELSE {"missing"})
    /\ exit' = "none"
    /\ written' = "nothing"
    /\ logged' = FALSE
    /\ diskError' = FALSE
    /\ result' = NoResult

\* Here and below, D_<fault> is D with a fault put in, for mutation only.
handler_unlogged(e) ==
    CASE e \in {"zero", "nonzero"} -> IF out THEN "write output" ELSE "return"
      [] e = "timeout" -> "log timeout"
      [] OTHER -> "log error"

handler_osErrorOnly(e) ==
    CASE e \in {"zero", "nonzero"} -> IF out THEN "write output" ELSE "return"
      [] e = "timeout" -> "log timeout"
      [] e = "not started" -> "log error"
      [] e = "undecodable" -> "raised"

\* What comes after subprocess.run: the rest of the try, or an except block.
handler(e) ==
    CASE e = "zero" /\ ~out -> "return"
      [] e = "nonzero" /\ ~out -> "log exit"
      [] e \in {"zero", "nonzero"} /\ out -> "write output"
      [] e = "timeout" -> "log timeout"
      [] OTHER -> "log error"

\* subprocess.run returns or raises; capture is in memory until then.
ToolEnds ==
    /\ pc = "running"
    /\ exit' \in Exits \ {"none"}
    /\ pc' = handler(exit')
    /\ UNCHANGED <<progress, out, written, logged, diskError, result>>

WriteOutput_bestEffort ==
    /\ pc = "write output"
    /\ pc' = IF exit = "zero" THEN "return" ELSE "log exit"
    /\ \/ written' = "output" /\ UNCHANGED diskError
       \/ diskError' = TRUE /\ UNCHANGED written
    /\ UNCHANGED <<progress, out, exit, logged, result>>

\* _write_raw_output in the try: its failure goes to "except Exception".
WriteOutput ==
    /\ pc = "write output"
    /\ \/ /\ written' = "output"
          /\ pc' = IF exit = "zero" THEN "return" ELSE "log exit"
          /\ UNCHANGED diskError
       \/ /\ diskError' = TRUE
          /\ pc' = "log error"
          /\ UNCHANGED written
    /\ UNCHANGED <<progress, out, exit, logged, result>>

\* _log_error of a non-zero exit, in the try as well.
LogExit ==
    /\ pc = "log exit"
    /\ \/ /\ logged' = TRUE
          /\ pc' = "return"
          /\ UNCHANGED diskError
       \/ /\ diskError' = TRUE
          /\ pc' = "log error"
          /\ UNCHANGED logged
    /\ UNCHANGED <<progress, out, exit, written, result>>

\* _log_error where no handler is left: before the try, or in one of the
\* except blocks.  Its OSError leaves run_tool.
LogUnguarded ==
    /\ pc \in {"missing", "log timeout", "log error"}
    /\ \/ /\ logged' = TRUE
          /\ pc' = CASE pc = "log timeout" /\ out -> "write partial"
                     [] pc = "log timeout" /\ ~out -> "return timeout"
                     [] pc = "missing" -> "return missing"
                     [] OTHER -> "return error"
          /\ UNCHANGED diskError
       \/ /\ diskError' = TRUE
          /\ pc' = "raised"
          /\ UNCHANGED logged
    /\ UNCHANGED <<progress, out, exit, written, result>>

\* What the tool said before it was killed, written in the except block.
WritePartial ==
    /\ pc = "write partial"
    /\ \/ /\ written' = "partial output"
          /\ pc' = "return timeout"
          /\ UNCHANGED diskError
       \/ /\ diskError' = TRUE
          /\ pc' = "raised"
          /\ UNCHANGED written
    /\ UNCHANGED <<progress, out, exit, logged, result>>

toolResult_killCode ==
    CASE pc = "return" -> [NoResult EXCEPT !.returncode = exit, !.stdout = TRUE]
      [] pc = "return missing" -> [NoResult EXCEPT !.missing = TRUE]
      [] pc = "return timeout" -> [NoResult EXCEPT !.returncode = "killed", !.stdout = TRUE]
      [] OTHER -> NoResult

\* The ToolResult of each of the four returns.
toolResult ==
    CASE pc = "return" -> [NoResult EXCEPT !.returncode = exit, !.stdout = TRUE]
      [] pc = "return missing" -> [NoResult EXCEPT !.missing = TRUE]
      [] pc = "return timeout" -> [NoResult EXCEPT !.timed_out = TRUE, !.stdout = TRUE]
      [] OTHER -> NoResult

\* The ToolResult and its tool_end line.
Return ==
    /\ pc \in {"return", "return missing", "return timeout", "return error"}
    /\ result' = toolResult
    /\ pc' = "idle"
    /\ UNCHANGED <<progress, out, exit, written, logged, diskError>>

\* What comes between the tool's end and the return.
Settle == WriteOutput \/ LogExit \/ LogUnguarded \/ WritePartial

\* run_tool under any caller that does not survive its exceptions.
ExecutorNext ==
    \/ \E path, available \in BOOLEAN : Call(path, available)
    \/ ToolEnds
    \/ Settle
    \/ Return

ExecutorSpec == ExecutorInit /\ [][ExecutorNext]_ExecutorVars

----------------------------------------------------------------------------
(* Properties. *)

ExecutorTypeOK ==
    /\ ProgressTypeOK
    /\ pc \in {"idle", "missing", "running", "write output", "log exit", "log timeout",
               "write partial", "log error", "return", "return missing",
               "return timeout", "return error", "raised"}
    /\ out \in BOOLEAN /\ logged \in BOOLEAN /\ diskError \in BOOLEAN
    /\ exit \in Exits
    /\ written \in {"nothing", "output", "partial output"}
    /\ result \in Results

Returned == pc = "idle" /\ steps > 0

\* A call that does not succeed has a line in errors.log: "a missing tool or a
\* timeout is logged" (README.md:64), and so is every other failure.
FailureIsLogged == Returned /\ ~ok(result) => logged

\* A call that reports success has its complete output on disk; one that
\* reports a timeout has what there was (executor.py:130, 150).
ResultHasEvidence ==
    Returned /\ out => /\ ok(result) => written = "output"
                       /\ result.timed_out => written = "partial output"

\* "Never raises -- every failure mode is captured" (executor.py:103): only a
\* disk that refuses a write breaks that promise, never a tool.
RaisesOnlyForTheDisk == pc = "raised" => diskError

=============================================================================
