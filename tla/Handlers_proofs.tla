--------------------------- MODULE Handlers_proofs ---------------------------
(***************************************************************************)
(* What run_tool promises, with any caller: first for the tool executor by  *)
(* itself, then for every service handler, whose steps are shown to be      *)
(* steps of the executor or none of its business.  After that the handlers' *)
(* own properties.  A list of steps is a program whose modes say where the  *)
(* credential file and the mount are; every list a handler starts with, and *)
(* every list a result makes it go on with, leads to its end in such modes, *)
(* and the invariant says that the steps still ahead do.                    *)
(***************************************************************************)
EXTENDS Handlers, TLAPS, SequenceTheorems

-----------------------------------------------------------------------------
(* The executor's invariant: what is known at each place in run_tool. *)

\* Ahead of a return to the caller.
Leaving ==
    /\ pc = "return" => /\ exit \in {"zero", "nonzero"}
                        /\ exit = "nonzero" => logged
                        /\ out => written = "output"
    /\ pc = "return timeout" => logged /\ (out => written = "partial output")
    /\ pc \in {"return missing", "return error"} => logged

\* Between the tool's end and that.
Settling ==
    /\ pc = "write output" => exit \in {"zero", "nonzero"}
    /\ pc = "log exit" => exit = "nonzero" /\ (out => written = "output")
    /\ pc = "write partial" => logged

ExecutorInv ==
    /\ ExecutorTypeOK /\ Settling /\ Leaving
    /\ FailureIsLogged /\ ResultHasEvidence /\ RaisesOnlyForTheDisk

\* The executor starts in its invariant.
LEMMA ExecutorStart == ExecutorInit => ExecutorInv
<1> SUFFICES ASSUME ExecutorInit PROVE ExecutorInv
  OBVIOUS
<1>1. ExecutorTypeOK
  BY DEF ExecutorInit, Configured, ExecutorTypeOK, ProgressTypeOK, Exits, Results, NoResult
<1> QED
  BY <1>1 DEF ExecutorInit, Configured, ExecutorInv, Settling, Leaving, FailureIsLogged,
              ResultHasEvidence, RaisesOnlyForTheDisk, Returned

\* The result of each return, and what it says of the call.
LEMMA ToolResultFits ==
    ASSUME ExecutorInv, Return
    PROVE  /\ toolResult \in Results
           /\ ok(toolResult) <=> pc = "return" /\ exit = "zero"
           /\ toolResult.timed_out => pc = "return timeout"
<1>1. CASE pc = "return"
  <2>1. toolResult = [NoResult EXCEPT !.returncode = exit, !.stdout = TRUE]
    BY <1>1 DEF toolResult
  <2> QED
    BY <1>1, <2>1 DEF ExecutorInv, Leaving, NoResult, Results, ok
<1>2. CASE pc = "return missing"
  <2>1. toolResult = [NoResult EXCEPT !.missing = TRUE]
    BY <1>2 DEF toolResult
  <2> QED
    BY <1>2, <2>1 DEF NoResult, Results, ok
<1>3. CASE pc = "return timeout"
  <2>1. toolResult = [NoResult EXCEPT !.timed_out = TRUE, !.stdout = TRUE]
    BY <1>3 DEF toolResult
  <2> QED
    BY <1>3, <2>1 DEF NoResult, Results, ok
<1>4. CASE pc = "return error"
  <2>1. toolResult = NoResult
    BY <1>4 DEF toolResult
  <2> QED
    BY <1>4, <2>1 DEF NoResult, Results, ok
<1> QED
  BY <1>1, <1>2, <1>3, <1>4 DEF Return

\* tool_start keeps the counters' types.
LEMMA ToolStartTyped == ProgressTypeOK /\ tool_start => ProgressTypeOK'
<1> SUFFICES ASSUME ProgressTypeOK, tool_start PROVE ProgressTypeOK'
  OBVIOUS
<1>1. steps' \in Nat
  BY DEF ProgressTypeOK, tool_start
<1>2. cur_sub' \in BOOLEAN
  BY Zenon DEF ProgressTypeOK, tool_start
<1> QED
  BY <1>1, <1>2 DEF ProgressTypeOK, tool_start

\* Every step of run_tool keeps its invariant.
LEMMA ExecutorStep == ExecutorInv /\ [ExecutorNext]_ExecutorVars => ExecutorInv'
<1> SUFFICES ASSUME ExecutorInv, [ExecutorNext]_ExecutorVars
             PROVE  ExecutorInv'
  OBVIOUS
<1> USE DEF ExecutorInv, ExecutorTypeOK, ProgressTypeOK, Settling, Leaving,
            FailureIsLogged, ResultHasEvidence, RaisesOnlyForTheDisk, Returned
<1>1. ASSUME NEW path \in BOOLEAN, NEW available \in BOOLEAN, Call(path, available)
      PROVE  ExecutorInv'
  <2>1. pc' \in {"running", "missing"} /\ result' \in Results
    BY <1>1 DEF Call, NoResult, Results
  <2>2. ProgressTypeOK'
    BY <1>1, ToolStartTyped DEF Call
  <2>3. out' \in BOOLEAN /\ logged' \in BOOLEAN /\ diskError' \in BOOLEAN
    BY <1>1, Zenon DEF Call
  <2>4. exit' \in Exits /\ written' \in {"nothing", "output", "partial output"}
    BY <1>1 DEF Call, Exits
  <2>5. ExecutorTypeOK'
    BY <2>1, <2>2, <2>3, <2>4
  <2> QED
    BY <2>1, <2>5
<1>2. CASE ToolEnds
  BY <1>2 DEF ToolEnds, handler, progress, Exits
<1>3. CASE WriteOutput
  BY <1>3 DEF WriteOutput, progress
<1>4. CASE LogExit
  BY <1>4 DEF LogExit, progress
<1>5. CASE LogUnguarded
  <2>1. CASE pc' = "raised"
    BY <1>5, <2>1 DEF LogUnguarded, progress
  <2>2. CASE pc' # "raised"
    <3>1. /\ logged' = TRUE
          /\ pc' = "return timeout" => ~out
          /\ pc' \in {"write partial", "return timeout", "return missing", "return error"}
      <4>1. CASE pc = "log timeout"
        <5>1. CASE out
          BY <1>5, <2>2, <4>1, <5>1 DEF LogUnguarded
        <5>2. CASE ~out
          BY <1>5, <2>2, <4>1, <5>2 DEF LogUnguarded
        <5> QED
          BY <5>1, <5>2
      <4>2. CASE pc = "missing"
        BY <1>5, <2>2, <4>2 DEF LogUnguarded
      <4>3. CASE pc = "log error"
        BY <1>5, <2>2, <4>3 DEF LogUnguarded
      <4> QED
        BY <1>5, <4>1, <4>2, <4>3 DEF LogUnguarded
    <3> QED
      BY <1>5, <3>1 DEF LogUnguarded, progress
  <2> QED
    BY <2>1, <2>2
<1>6. CASE WritePartial
  BY <1>6 DEF WritePartial, progress
<1>7. CASE Return
  <2>1. /\ toolResult \in Results
        /\ ok(toolResult) <=> pc = "return" /\ exit = "zero"
        /\ toolResult.timed_out => pc = "return timeout"
    BY <1>7, ToolResultFits
  <2>2. /\ ok(result)' <=> pc = "return" /\ exit = "zero"
        /\ result.timed_out' => pc = "return timeout"
    BY <1>7, <2>1 DEF Return, ok
  <2>3. ExecutorTypeOK'
    BY <1>7, <2>1 DEF Return, progress
  <2>4. pc' = "idle" /\ (~ok(result)' => logged')
    BY <1>7, <2>2 DEF Return
  <2>5. out' /\ ok(result)' => written' = "output"
    BY <1>7, <2>2 DEF Return
  <2>6. out' /\ result.timed_out' => written' = "partial output"
    BY <1>7, <2>2 DEF Return
  <2> QED
    BY <2>3, <2>4, <2>5, <2>6
<1>8. CASE UNCHANGED ExecutorVars
  BY <1>8 DEF ExecutorVars, executor, progress, ok
<1> QED
  BY <1>1, <1>2, <1>3, <1>4, <1>5, <1>6, <1>7, <1>8 DEF ExecutorNext, Settle

\* So it holds of the executor by itself.
LEMMA ExecutorInvariant == ExecutorSpec => []ExecutorInv
BY ExecutorStart, ExecutorStep, PTL DEF ExecutorSpec

-----------------------------------------------------------------------------
(* The handlers on top of it. *)

\* A handler finds run_tool at rest.
LEMMA HandlerStart == Init => ExecutorInit
BY DEF Init

\* What a handler, its dispatcher or the cleanup does is a step of run_tool or
\* leaves run_tool's variables alone.
LEMMA HandlerStep == [Next]_vars => [ExecutorNext]_ExecutorVars
<1> SUFFICES ASSUME [Next]_vars PROVE [ExecutorNext]_ExecutorVars
  OBVIOUS
<1> USE DEF ExecutorVars
<1>1. CASE CallTool
  <2> DEFINE path == Ahead.op \notin {"nse", "umount"}
             available == Ahead.op \in {"checked", "mount"}
  <2>1. path \in BOOLEAN /\ available \in BOOLEAN /\ Call(path, available)
    BY <1>1 DEF CallTool
  <2> QED
    BY <2>1 DEF ExecutorNext
<1>2. CASE ToolRuns
  BY <1>2 DEF ToolRuns, ExecutorNext
<1>3. CASE RunToolSettles
  BY <1>3 DEF RunToolSettles, ExecutorNext
<1>4. CASE ToolReturns
  BY <1>4 DEF ToolReturns, ExecutorNext
<1>5. CASE ToolRaises \/ Caught \/ HandlerReturns \/ Die
  BY <1>5 DEF ToolRaises, Caught, HandlerReturns, Die
<1>6. CASE WriteText \/ OpenSecret \/ DropSecret
  BY <1>6 DEF WriteText, OpenSecret, DropSecret, Doing
<1>7. CASE UNCHANGED vars
  BY <1>7 DEF vars
<1> QED
  BY <1>1, <1>2, <1>3, <1>4, <1>5, <1>6, <1>7 DEF Next

\* Every behavior of a handler, seen through run_tool's variables, is one of the
\* executor: no handler gets between run_tool and its caller.
THEOREM HandlersUseRunTool == Spec => ExecutorSpec
BY HandlerStart, HandlerStep, PTL DEF Spec, ExecutorSpec

\* Whatever a handler does, a tool that was missing, failed or timed out has its
\* line in errors.log by the time run_tool is back.
THEOREM FailuresLogged == Spec => []FailureIsLogged
BY HandlersUseRunTool, ExecutorInvariant, PTL DEF ExecutorInv

\* run_tool raises into a handler only when the disk refused a write.
THEOREM OnlyTheDiskRaises == Spec => []RaisesOnlyForTheDisk
BY HandlersUseRunTool, ExecutorInvariant, PTL DEF ExecutorInv

\* When run_tool is back, a success has its output on disk and a timeout what the
\* tool had printed.
THEOREM ResultsHaveEvidence == Spec => []ResultHasEvidence
BY HandlersUseRunTool, ExecutorInvariant, PTL DEF ExecutorInv

-----------------------------------------------------------------------------
(* The shape of a handler's list of steps.  A mode says what the steps so far *)
(* have set up, and with that what the next one may be.                       *)

\* "plain"; "secret", between the credential file and its removal; "mounted" and
\* "walking", in the steps that follow the mount and onesixtyone; "done", after
\* the umount, or where the list ends because a result decides what comes next.
Modes == {"plain", "secret", "mounted", "walking", "done"}

\* The files of the steps that are in no list a handler begins with.
LateFiles == {<<"nfs", "listing">>} \cup ({"snmp walk"} \X {Safe(c) : c \in Communities})

\* The two parts of a file's name.
Keys == {"dns", "ftp", "imap", "ipmi", "mssql", "mysql", "nfs", "oracle", "pop3", "rdp",
         "rservices", "rsync", "smb", "smtp", "snmp", "ssh", "tftp", "winrm", "wmi",
         "msrpc", "none"}
Parts == {"nse", "version", "any", "axfr", "listing", "cert", "probe", "query", "showmount",
          "mount point", "mount", "modules", "shares", "rpcclient", "smbmap", "enum4linux",
          "onesixtyone", "audit", "banner", "nxc", "rpcdump", "none"}

Files == (Keys \X Parts) \cup LateFiles

Steps == [op : Ops, file : Files, reads : BOOLEAN, who : Files \cup Communities]

\* A handler of service s may take the step in mode m, and is in mode n then.
Fits(step, s, m, n) ==
    /\ step.file = NoFile <=> step.op \in {"secret", "unguarded secret", "drop", "umount"}
    /\ step.reads => m = "secret" /\ step.op \in {"nse", "native"}
    /\ m \in {"plain", "secret"} => step.file \notin LateFiles
    /\ \/ step.op \in {"nse", "native", "checked"} /\ m # "done" /\ n = m
       \/ step.op = "write" /\ m = "plain" /\ n = "plain"
       \/ step.op = "secret" /\ m = "plain" /\ n = "secret"
       \/ step.op = "unguarded secret" /\ s = "mssql" /\ m = "plain" /\ n = "secret"
       \/ step.op = "drop" /\ m = "secret" /\ n = "plain"
       \/ step.op = "mount" /\ m = "plain" /\ n = "done"
       \/ step.op = "communities" /\ s = "snmp" /\ m = "plain" /\ n = "done"
       \/ step.op = "umount" /\ m = "mounted" /\ n = "done"

\* The two steps write files of the same name, for different communities.
Clash(s, a, b) ==
    /\ s = "snmp" /\ a.who # b.who
    /\ a.who \in Communities /\ b.who \in Communities /\ Safe(a.who) = Safe(b.who)

\* No file of the list is written twice, but for that.
Distinct(list, s) ==
    \A i, j \in 1..Len(list) :
        i # j /\ list[i].file = list[j].file => list[i].file = NoFile \/ Clash(s, list[i], list[j])

\* The list leads from mode m to mode n, one mode before each step and one behind.
Leads(list, s, m, n) ==
    \E f \in [1..Len(list) + 1 -> Modes] :
        /\ f[1] = m /\ f[Len(list) + 1] = n
        /\ \A i \in 1..Len(list) : Fits(list[i], s, f[i], f[i + 1])

Program(list, s, m, n) == list \in Seq(Steps) /\ Leads(list, s, m, n) /\ Distinct(list, s)

\* The same, and the list writes files for the parts N alone.
Script(list, s, m, n, N) ==
    /\ Program(list, s, m, n)
    /\ \A i \in 1..Len(list) : list[i].file = NoFile \/ list[i].file[2] \in N

\* One step is a list.
LEMMA Single ==
    ASSUME NEW step \in Steps, NEW s, NEW m \in Modes, NEW n \in Modes, NEW N,
           Fits(step, s, m, n), step.file = NoFile \/ step.file[2] \in N
    PROVE  Script(<<step>>, s, m, n, N)
<1> DEFINE list == <<step>>
           f == [i \in 1..2 |-> IF i = 1 THEN m ELSE n]
<1>1. list \in Seq(Steps) /\ Len(list) = 1 /\ list[1] = step
  OBVIOUS
<1>2. Leads(list, s, m, n)
  <2>1. f \in [1..Len(list) + 1 -> Modes] /\ f[1] = m /\ f[Len(list) + 1] = n
    BY <1>1
  <2>2. \A i \in 1..Len(list) : Fits(list[i], s, f[i], f[i + 1])
    <3>1. f[1] = m /\ f[2] = n
      OBVIOUS
    <3> QED
      BY <1>1, <3>1
  <2> HIDE DEF f, list
  <2> QED
    BY <2>1, <2>2 DEF Leads
<1>3. Distinct(list, s)
  BY <1>1 DEF Distinct
<1> QED
  BY <1>1, <1>2, <1>3 DEF Script, Program

\* Two lists one after the other are a list.
LEMMA Joined ==
    ASSUME NEW a, NEW b, NEW s, NEW l, NEW m, NEW n, NEW A, NEW B, NEW N,
           Script(a, s, l, m, A), Script(b, s, m, n, B),
           A \cap B = {}, A \cup B \subseteq N
    PROVE  Script(a \o b, s, l, n, N)
<1> DEFINE c == a \o b
<1>1. a \in Seq(Steps) /\ b \in Seq(Steps)
  BY DEF Script, Program
<1>2. /\ c \in Seq(Steps) /\ Len(c) = Len(a) + Len(b)
      /\ \A i \in 1..Len(a) + Len(b) : c[i] = IF i <= Len(a) THEN a[i] ELSE b[i - Len(a)]
  BY <1>1, ConcatProperties
<1>3. Len(a) \in Nat /\ Len(b) \in Nat
  BY <1>1, LenProperties
<1> HIDE DEF c
<1>4. Leads(c, s, l, n)
  <2>1. PICK f \in [1..Len(a) + 1 -> Modes] :
              /\ f[1] = l /\ f[Len(a) + 1] = m
              /\ \A i \in 1..Len(a) : Fits(a[i], s, f[i], f[i + 1])
    BY DEF Script, Program, Leads
  <2>2. PICK g \in [1..Len(b) + 1 -> Modes] :
              /\ g[1] = m /\ g[Len(b) + 1] = n
              /\ \A i \in 1..Len(b) : Fits(b[i], s, g[i], g[i + 1])
    BY DEF Script, Program, Leads
  <2> DEFINE h == [i \in 1..Len(c) + 1 |-> IF i <= Len(a) THEN f[i] ELSE g[i - Len(a)]]
  <2>3. h \in [1..Len(c) + 1 -> Modes]
    <3>1. ASSUME NEW i \in 1..Len(c) + 1
          PROVE  (IF i <= Len(a) THEN f[i] ELSE g[i - Len(a)]) \in Modes
      <4>1. CASE i <= Len(a)
        <5>1. i \in 1..Len(a) + 1
          BY <1>3, <4>1
        <5> QED
          BY <2>1, <4>1, <5>1
      <4>2. CASE ~(i <= Len(a))
        <5>1. i - Len(a) \in 1..Len(b) + 1
          BY <1>2, <1>3, <4>2
        <5> QED
          BY <2>2, <4>2, <5>1
      <4> QED
        BY <4>1, <4>2
    <3> QED
      BY <3>1
  <2>4. h[1] = l /\ h[Len(c) + 1] = n
    BY <1>2, <1>3, <2>1, <2>2
  <2>5. ASSUME NEW i \in 1..Len(c) PROVE Fits(c[i], s, h[i], h[i + 1])
    <3>1. CASE i < Len(a)
      BY <1>2, <1>3, <2>1, <3>1
    <3>2. CASE i = Len(a)
      BY <1>2, <1>3, <2>1, <2>2, <3>2
    <3>3. CASE i > Len(a)
      <4>1. i - Len(a) \in 1..Len(b) /\ (i + 1) - Len(a) = (i - Len(a)) + 1
        BY <1>2, <1>3, <3>3
      <4>2. c[i] = b[i - Len(a)] /\ h[i] = g[i - Len(a)] /\ h[i + 1] = g[(i + 1) - Len(a)]
        BY <1>2, <1>3, <3>3
      <4> QED
        BY <2>2, <4>1, <4>2
    <3> QED
      BY <1>2, <1>3, <3>1, <3>2, <3>3
  <2> HIDE DEF h
  <2> QED
    BY <2>3, <2>4, <2>5 DEF Leads
<1>5. ASSUME NEW i \in 1..Len(c)
      PROVE  \/ i \in 1..Len(a) /\ c[i] = a[i] /\ (c[i].file = NoFile \/ c[i].file[2] \in A)
             \/ /\ i - Len(a) \in 1..Len(b) /\ c[i] = b[i - Len(a)]
                /\ (c[i].file = NoFile \/ c[i].file[2] \in B)
  BY <1>2, <1>3 DEF Script
<1>6. Distinct(c, s)
  <2> SUFFICES ASSUME NEW i \in 1..Len(c), NEW j \in 1..Len(c), i # j,
                      c[i].file = c[j].file, c[i].file # NoFile
               PROVE  Clash(s, c[i], c[j])
    BY DEF Distinct
  <2>1. CASE i \in 1..Len(a) /\ j \in 1..Len(a)
    BY <1>2, <1>3, <2>1 DEF Script, Program, Distinct
  <2>2. CASE i - Len(a) \in 1..Len(b) /\ j - Len(a) \in 1..Len(b)
    <3>1. c[i] = b[i - Len(a)] /\ c[j] = b[j - Len(a)] /\ i - Len(a) # j - Len(a)
      BY <1>2, <1>3, <2>2
    <3> QED
      BY <2>2, <3>1 DEF Script, Program, Distinct
  <2> QED
    BY <1>5, <2>1, <2>2
<1> QED
  BY <1>2, <1>4, <1>5, <1>6 DEF Script, Program, c

\* Taking a step of a list leaves a list, which does not write its file again.
LEMMA Taken ==
    ASSUME NEW list, NEW s, NEW m, NEW n, Program(list, s, m, n), list # <<>>
    PROVE  /\ Head(list) \in Steps
           /\ \E k \in Modes : Fits(Head(list), s, m, k) /\ Program(Tail(list), s, k, n)
           /\ \A i \in 1..Len(Tail(list)) :
                /\ \E j \in 1..Len(list) : Tail(list)[i] = list[j]
                /\ Tail(list)[i].file = Head(list).file =>
                     Head(list).file = NoFile \/ Clash(s, Head(list), Tail(list)[i])
<1>1. /\ list \in Seq(Steps) /\ Head(list) \in Steps /\ Tail(list) \in Seq(Steps)
      /\ Len(Tail(list)) = Len(list) - 1
      /\ \A i \in 1..Len(Tail(list)) : Tail(list)[i] = list[i + 1]
  BY HeadTailProperties DEF Program
<1>2. Len(list) \in Nat \ {0} /\ Head(list) = list[1]
  BY <1>1, EmptySeq
<1> DEFINE rest == Tail(list)
<1>3. Len(rest) \in Nat /\ Len(list) = Len(rest) + 1
  BY <1>1, <1>2
<1>4. ASSUME NEW i \in 1..Len(rest) PROVE i + 1 \in 1..Len(list) /\ rest[i] = list[i + 1]
  BY <1>1, <1>3
<1> HIDE DEF rest
<1>5. PICK f \in [1..Len(list) + 1 -> Modes] :
            /\ f[1] = m /\ f[Len(list) + 1] = n
            /\ \A i \in 1..Len(list) : Fits(list[i], s, f[i], f[i + 1])
  BY DEF Program, Leads
<1> DEFINE g == [i \in 1..Len(rest) + 1 |-> f[i + 1]]
<1>6. Leads(rest, s, f[2], n)
  <2>1. g \in [1..Len(rest) + 1 -> Modes] /\ g[1] = f[2] /\ g[Len(rest) + 1] = n
    BY <1>3, <1>5
  <2>2. ASSUME NEW i \in 1..Len(rest) PROVE Fits(rest[i], s, g[i], g[i + 1])
    BY <1>3, <1>4, <1>5
  <2> HIDE DEF g
  <2> QED
    BY <2>1, <2>2 DEF Leads
<1>7. \A i, j \in 1..Len(list) :
         i # j /\ list[i].file = list[j].file => list[i].file = NoFile \/ Clash(s, list[i], list[j])
  BY DEF Program, Distinct
<1>8. Distinct(rest, s)
  <2> SUFFICES ASSUME NEW i \in 1..Len(rest), NEW j \in 1..Len(rest), i # j,
                      rest[i].file = rest[j].file
               PROVE  rest[i].file = NoFile \/ Clash(s, rest[i], rest[j])
    BY DEF Distinct
  <2>1. i + 1 # j + 1
    BY <1>3
  <2> QED
    BY <1>4, <1>7, <2>1
<1>9. f[2] \in Modes /\ Fits(Head(list), s, m, f[2])
  BY <1>2, <1>3, <1>5
<1>10. ASSUME NEW i \in 1..Len(rest), rest[i].file = Head(list).file
       PROVE  Head(list).file = NoFile \/ Clash(s, Head(list), rest[i])
  <2>1. 1 \in 1..Len(list) /\ i + 1 # 1
    BY <1>3
  <2> QED
    BY <1>2, <1>4, <1>7, <1>10, <2>1
<1> QED
  BY <1>1, <1>4, <1>6, <1>8, <1>9, <1>10 DEF Program, rest

\* A list that leads nowhere new is empty when its mode is "done".
LEMMA DoneIsEmpty ==
    ASSUME NEW list, NEW s, NEW n, Program(list, s, "done", n)
    PROVE  list = <<>>
<1> SUFFICES ASSUME list # <<>> PROVE FALSE
  OBVIOUS
<1>1. PICK k \in Modes : Fits(Head(list), s, "done", k)
  BY Taken
<1> QED
  BY <1>1 DEF Fits

\* The empty list leaves every mode as it is.
LEMMA EmptyProgram ==
    ASSUME NEW s, NEW m \in Modes
    PROVE  Program(<<>>, s, m, m)
<1> DEFINE f == [i \in 1..1 |-> m]
<1>1. <<>> \in Seq(Steps) /\ Len(<<>>) = 0
  OBVIOUS
<1>2. Leads(<<>>, s, m, m)
  <2>1. f \in [1..Len(<<>>) + 1 -> Modes] /\ f[1] = m /\ f[Len(<<>>) + 1] = m
    BY <1>1
  <2> HIDE DEF f
  <2> QED
    BY <1>1, <2>1 DEF Leads
<1> QED
  BY <1>1, <1>2 DEF Program, Distinct

-----------------------------------------------------------------------------
(* The nineteen handlers' lists, from their parts. *)

Ordinary(s, p) == s # "none" /\ (s # "nfs" \/ p # "listing")

\* A file named for a key and a part is none of the late ones.
LEMMA OrdinaryFile ==
    ASSUME NEW s \in Keys, NEW p \in Parts, Ordinary(s, p)
    PROVE  <<s, p>> \notin LateFiles /\ <<s, p>> # NoFile
BY DEF Ordinary, Keys, LateFiles, NoFile

\* A tool that reads no credentials, in any mode but the last.
LEMMA ToolScript ==
    ASSUME NEW op \in {"nse", "native", "checked"}, NEW t, NEW s \in Keys, NEW p \in Parts,
           Ordinary(s, p), NEW m \in Modes \ {"done"}
    PROVE  Script(<<Step(op, <<s, p>>)>>, t, m, m, {p})
<1> DEFINE step == Step(op, <<s, p>>)
<1>1. op \in Ops
  BY DEF Ops
<1>2. step \in Steps /\ step.op = op /\ step.file = <<s, p>> /\ step.reads = FALSE
  BY <1>1 DEF Step, Reading, Steps, Files
<1> HIDE DEF step
<1>3. Fits(step, t, m, m)
  BY <1>2, OrdinaryFile DEF Fits
<1>4. Script(<<step>>, t, m, m, {p})
  BY <1>2, <1>3, Single
<1> QED
  BY <1>4 DEF step

\* One that reads them, while they are there.
LEMMA ReadingScript ==
    ASSUME NEW op \in {"nse", "native"}, NEW t, NEW s \in Keys, NEW p \in Parts, Ordinary(s, p)
    PROVE  Script(<<Reading(Step(op, <<s, p>>))>>, t, "secret", "secret", {p})
<1> DEFINE step == Reading(Step(op, <<s, p>>))
<1>1. op \in Ops
  BY DEF Ops
<1>2. step \in Steps /\ step.op = op /\ step.file = <<s, p>>
  BY <1>1 DEF Step, Reading, Steps, Files
<1> HIDE DEF step
<1>3. Fits(step, t, "secret", "secret")
  BY <1>2, OrdinaryFile DEF Fits
<1>4. step.file[2] \in {p}
  BY <1>2
<1>5. Script(<<step>>, t, "secret", "secret", {p})
  BY <1>2, <1>3, <1>4, Single DEF Modes
<1> QED
  BY <1>5 DEF step

\* A file the handler writes, the mount, and the question for communities.
LEMMA PlainScript ==
    ASSUME NEW op \in {"write", "mount", "communities"}, NEW t, op = "communities" => t = "snmp",
           NEW s \in Keys, NEW p \in Parts, Ordinary(s, p)
    PROVE  Script(<<Step(op, <<s, p>>)>>, t, "plain",
                  IF op = "write" THEN "plain" ELSE "done", {p})
<1> DEFINE step == Step(op, <<s, p>>)
           n == IF op = "write" THEN "plain" ELSE "done"
<1>1. op \in Ops
  BY DEF Ops
<1>2. step \in Steps /\ step.op = op /\ step.file = <<s, p>> /\ step.reads = FALSE
  BY <1>1 DEF Step, Reading, Steps, Files
<1> HIDE DEF step
<1>3. Fits(step, t, "plain", n)
  BY <1>2, OrdinaryFile DEF Fits
<1>4. "plain" \in Modes /\ n \in Modes
  BY DEF Modes
<1>5. Script(<<step>>, t, "plain", n, {p})
  BY <1>2, <1>3, <1>4, Single
<1> QED
  BY <1>5 DEF step

\* The credential file and its removal, and the umount: no output file.
LEMMA FilelessScript ==
    ASSUME NEW op \in {"secret", "unguarded secret", "drop", "umount"}, NEW t,
           op = "unguarded secret" => t = "mssql"
    PROVE  Script(<<Step(op, NoFile)>>, t,
                  CASE op = "drop" -> "secret" [] op = "umount" -> "mounted" [] OTHER -> "plain",
                  CASE op = "drop" -> "plain" [] op = "umount" -> "done" [] OTHER -> "secret", {})
<1> DEFINE step == Step(op, NoFile)
           m == CASE op = "drop" -> "secret" [] op = "umount" -> "mounted" [] OTHER -> "plain"
           n == CASE op = "drop" -> "plain" [] op = "umount" -> "done" [] OTHER -> "secret"
<1>1. op \in Ops
  BY DEF Ops
<1>2. step \in Steps /\ step.op = op /\ step.file = NoFile /\ step.reads = FALSE
  <2>1. NoFile \in Files
    BY DEF NoFile, Files, Keys, Parts
  <2> QED
    BY <1>1, <2>1 DEF Step, Steps
<1>3. NoFile \notin LateFiles
  BY DEF NoFile, LateFiles
<1> HIDE DEF step
<1>4. Fits(step, t, m, n)
  <2>1. CASE op = "drop"
    BY <1>2, <1>3, <2>1 DEF Fits
  <2>2. CASE op = "umount"
    BY <1>2, <1>3, <2>2 DEF Fits
  <2>3. CASE op \in {"secret", "unguarded secret"}
    BY <1>2, <1>3, <2>3 DEF Fits
  <2> QED
    BY <2>1, <2>2, <2>3
<1>5. m \in Modes /\ n \in Modes
  BY DEF Modes
<1> HIDE DEF m, n
<1>6. Script(<<step>>, t, m, n, {})
  BY <1>2, <1>4, <1>5, Single
<1> QED
  BY <1>6 DEF step, m, n

\* creds_file around two lists that leave the credential file where it is.
LEMMA CredsScript ==
    ASSUME NEW head, NEW tail, NEW t, NEW A, NEW B, NEW N,
           Script(head, t, "secret", "secret", A), Script(tail, t, "secret", "secret", B),
           A \cap B = {}, A \cup B \subseteq N
    PROVE  Script(creds_file(head, tail), t, "plain", "plain", N)
<1> DEFINE open == <<Step("secret", NoFile)>>
           drop == <<Step("drop", NoFile)>>
<1>1. Script(open, t, "plain", "secret", {})
  BY FilelessScript
<1>2. Script(drop, t, "secret", "plain", {})
  BY FilelessScript
<1> HIDE DEF open, drop
<1>3. Script(open \o head, t, "plain", "secret", A)
  BY <1>1, Joined
<1>4. Script((open \o head) \o tail, t, "plain", "secret", N)
  BY <1>3, Joined
<1>5. Script(((open \o head) \o tail) \o drop, t, "plain", "plain", N)
  BY <1>2, <1>4, Joined
<1> QED
  BY <1>5 DEF creds_file, open, drop

\* What the lemmas below say of a service's lists: they begin with nothing set up,
\* and in the end no credential file is left and no mount unless it is the last step.
ListsFit(s, lists) ==
    \A list \in lists : \E n \in {"plain", "done"} : Program(list, s, "plain", n)

\* The parts, as they occur in the lists.
LEMMA PartScripts ==
    ASSUME NEW t, NEW s \in Keys \ {"none"}, NEW p \in Parts, Ordinary(s, p)
    PROVE  /\ Script(Native(s, p), t, "plain", "plain", {p})
           /\ Script(Native(s, p), t, "secret", "secret", {p})
           /\ Script(Native(s, p), t, "mounted", "mounted", {p})
           /\ Script(Authed(s, p), t, "secret", "secret", {p})
           /\ Script(Checked(s, p), t, "plain", "plain", {p})
           /\ Script(Write(s, p), t, "plain", "plain", {p})
<1>1. {"plain", "secret", "mounted"} \subseteq Modes \ {"done"}
  BY DEF Modes
<1> QED
  BY <1>1, ToolScript, ReadingScript, PlainScript DEF Native, Authed, Checked, Write

\* Most handlers begin with nmap's own scripts.
LEMMA NseScript ==
    ASSUME NEW s \in Keys \ {"none"}
    PROVE  Script(Nse(s), s, "plain", "plain", {"nse"})
BY ToolScript DEF Nse, Modes, Ordinary, Parts

\* A handler may also have nothing to add.
LEMMA EmptyScript ==
    ASSUME NEW t, NEW m \in Modes
    PROVE  Script(<<>>, t, m, m, {})
BY EmptyProgram DEF Script

LEMMA DnsLists == ListsFit("dns", enum_dns)
<1>1. Script(Native("dns", "version"), "dns", "plain", "plain", {"version"})
  BY PartScripts DEF Ordinary, Keys, Parts
<1>2. Script(Native("dns", "any"), "dns", "plain", "plain", {"any"})
  BY PartScripts DEF Ordinary, Keys, Parts
<1>3. Script(Native("dns", "version") \o Native("dns", "any"),
             "dns", "plain", "plain", {"version", "any"})
  BY <1>1, <1>2, Joined
<1>4. Script(Native("dns", "axfr"), "dns", "plain", "plain", {"axfr"})
  BY PartScripts DEF Ordinary, Keys, Parts
<1>5. Script(Native("dns", "version") \o Native("dns", "any") \o Native("dns", "axfr"),
             "dns", "plain", "plain", {"version", "any", "axfr"})
  BY <1>3, <1>4, Joined
<1> QED
  BY <1>1, <1>5 DEF ListsFit, enum_dns, Script

LEMMA FtpLists == ListsFit("ftp", enum_ftp)
<1>1. Script(Nse("ftp"), "ftp", "plain", "plain", {"nse"})
  BY NseScript DEF Keys
<1>2. Script(Native("ftp", "listing"), "ftp", "plain", "plain", {"listing"})
  BY PartScripts DEF Ordinary, Keys, Parts
<1>3. Script(Nse("ftp") \o Native("ftp", "listing"), "ftp", "plain", "plain", {"nse", "listing"})
  BY <1>1, <1>2, Joined
<1>4. Script(Native("ftp", "cert"), "ftp", "plain", "plain", {"cert"})
  BY PartScripts DEF Ordinary, Keys, Parts
<1>5. Script(Nse("ftp") \o Native("ftp", "listing") \o Native("ftp", "cert"),
             "ftp", "plain", "plain", {"nse", "listing", "cert"})
  BY <1>3, <1>4, Joined
<1>6. Script(Authed("ftp", "listing"), "ftp", "secret", "secret", {"listing"})
  BY PartScripts DEF Ordinary, Keys, Parts
<1>7. Script(<<>>, "ftp", "secret", "secret", {})
  BY EmptyScript DEF Modes
<1>8. Script(creds_file(Authed("ftp", "listing"), <<>>), "ftp", "plain", "plain", {"listing"})
  BY <1>6, <1>7, CredsScript
<1>9. Script(Nse("ftp") \o creds_file(Authed("ftp", "listing"), <<>>),
             "ftp", "plain", "plain", {"nse", "listing"})
  BY <1>1, <1>8, Joined
<1>10. Script(Nse("ftp") \o creds_file(Authed("ftp", "listing"), <<>>) \o Native("ftp", "cert"),
             "ftp", "plain", "plain", {"nse", "listing", "cert"})
  BY <1>9, <1>4, Joined
<1> QED
  BY <1>5, <1>10 DEF ListsFit, enum_ftp, Script

LEMMA ImapLists == ListsFit("imap", enum_mailbox("imap"))
<1>1. Script(Nse("imap"), "imap", "plain", "plain", {"nse"})
  BY NseScript DEF Keys
<1>2. Script(Native("imap", "cert"), "imap", "plain", "plain", {"cert"})
  BY PartScripts DEF Ordinary, Keys, Parts
<1>3. Script(Nse("imap") \o Native("imap", "cert"), "imap", "plain", "plain", {"nse", "cert"})
  BY <1>1, <1>2, Joined
<1>4. Script(Authed("imap", "listing"), "imap", "secret", "secret", {"listing"})
  BY PartScripts DEF Ordinary, Keys, Parts
<1>5. Script(<<>>, "imap", "secret", "secret", {})
  BY EmptyScript DEF Modes
<1>6. Script(creds_file(Authed("imap", "listing"), <<>>), "imap", "plain", "plain", {"listing"})
  BY <1>4, <1>5, CredsScript
<1>7. Script(Nse("imap") \o Native("imap", "cert") \o creds_file(Authed("imap", "listing"), <<>>),
             "imap", "plain", "plain", {"nse", "cert", "listing"})
  BY <1>3, <1>6, Joined
<1>8. Script(Write("imap", "probe"), "imap", "plain", "plain", {"probe"})
  BY PartScripts DEF Ordinary, Keys, Parts
<1>9. Script(Nse("imap") \o Write("imap", "probe"), "imap", "plain", "plain", {"nse", "probe"})
  BY <1>1, <1>8, Joined
<1> QED
  BY <1>3, <1>7, <1>9 DEF ListsFit, enum_mailbox, Script

LEMMA Pop3Lists == ListsFit("pop3", enum_mailbox("pop3"))
<1>1. Script(Nse("pop3"), "pop3", "plain", "plain", {"nse"})
  BY NseScript DEF Keys
<1>2. Script(Native("pop3", "cert"), "pop3", "plain", "plain", {"cert"})
  BY PartScripts DEF Ordinary, Keys, Parts
<1>3. Script(Nse("pop3") \o Native("pop3", "cert"), "pop3", "plain", "plain", {"nse", "cert"})
  BY <1>1, <1>2, Joined
<1>4. Script(Authed("pop3", "listing"), "pop3", "secret", "secret", {"listing"})
  BY PartScripts DEF Ordinary, Keys, Parts
<1>5. Script(<<>>, "pop3", "secret", "secret", {})
  BY EmptyScript DEF Modes
<1>6. Script(creds_file(Authed("pop3", "listing"), <<>>), "pop3", "plain", "plain", {"listing"})
  BY <1>4, <1>5, CredsScript
<1>7. Script(Nse("pop3") \o Native("pop3", "cert") \o creds_file(Authed("pop3", "listing"), <<>>),
             "pop3", "plain", "plain", {"nse", "cert", "listing"})
  BY <1>3, <1>6, Joined
<1>8. Script(Write("pop3", "probe"), "pop3", "plain", "plain", {"probe"})
  BY PartScripts DEF Ordinary, Keys, Parts
<1>9. Script(Nse("pop3") \o Write("pop3", "probe"), "pop3", "plain", "plain", {"nse", "probe"})
  BY <1>1, <1>8, Joined
<1> QED
  BY <1>3, <1>7, <1>9 DEF ListsFit, enum_mailbox, Script

LEMMA MssqlLists == ListsFit("mssql", enum_mssql)
<1> DEFINE open == <<Step("unguarded secret", NoFile)>>
           read == <<Reading(Step("nse", <<"mssql", "nse">>))>>
           drop == <<Step("drop", NoFile)>>
<1>1. Script(Nse("mssql"), "mssql", "plain", "plain", {"nse"})
  BY NseScript DEF Keys
<1>2. Script(open, "mssql", "plain", "secret", {})
  BY FilelessScript
<1>3. Script(read, "mssql", "secret", "secret", {"nse"})
  BY ReadingScript DEF Ordinary, Keys, Parts
<1>4. Script(drop, "mssql", "secret", "plain", {})
  BY FilelessScript
<1>5. enum_mssql = {Nse("mssql"), open \o read \o drop}
  BY DEF enum_mssql
<1> HIDE DEF open, read, drop
<1>6. Script(open \o read, "mssql", "plain", "secret", {"nse"})
  BY <1>2, <1>3, Joined
<1>7. Script(open \o read \o drop, "mssql", "plain", "plain", {"nse"})
  BY <1>4, <1>6, Joined
<1> QED
  BY <1>1, <1>5, <1>7 DEF ListsFit, Script

LEMMA MysqlLists == ListsFit("mysql", enum_mysql)
<1>1. Script(Nse("mysql"), "mysql", "plain", "plain", {"nse"})
  BY NseScript DEF Keys
<1>2. Script(Native("mysql", "query"), "mysql", "plain", "plain", {"query"})
  BY PartScripts DEF Ordinary, Keys, Parts
<1>3. Script(Nse("mysql") \o Native("mysql", "query"),
             "mysql", "plain", "plain", {"nse", "query"})
  BY <1>1, <1>2, Joined
<1>4. Script(Authed("mysql", "query"), "mysql", "secret", "secret", {"query"})
  BY PartScripts DEF Ordinary, Keys, Parts
<1>5. Script(<<>>, "mysql", "secret", "secret", {})
  BY EmptyScript DEF Modes
<1>6. Script(creds_file(Authed("mysql", "query"), <<>>), "mysql", "plain", "plain", {"query"})
  BY <1>4, <1>5, CredsScript
<1>7. Script(Nse("mysql") \o creds_file(Authed("mysql", "query"), <<>>),
             "mysql", "plain", "plain", {"nse", "query"})
  BY <1>1, <1>6, Joined
<1> QED
  BY <1>1, <1>3, <1>7 DEF ListsFit, enum_mysql, Script

LEMMA NfsLists == ListsFit("nfs", enum_nfs)
<1> DEFINE head == Nse("nfs") \o Native("nfs", "showmount")
           point == Write("nfs", "mount point")
           mount == <<Step("mount", <<"nfs", "mount">>)>>
<1>1. Script(Nse("nfs"), "nfs", "plain", "plain", {"nse"})
  BY NseScript DEF Keys
<1>2. Script(Native("nfs", "showmount"), "nfs", "plain", "plain", {"showmount"})
  BY PartScripts DEF Ordinary, Keys, Parts
<1>3. Script(head, "nfs", "plain", "plain", {"nse", "showmount"})
  BY <1>1, <1>2, Joined
<1>4. Script(<<>>, "nfs", "plain", "plain", {})
  BY EmptyScript DEF Modes
<1>5. Script(point, "nfs", "plain", "plain", {"mount point"})
  BY PartScripts DEF Ordinary, Keys, Parts
<1>6. Script(mount, "nfs", "plain", "done", {"mount"})
  BY PlainScript DEF Ordinary, Keys, Parts
<1>7. enum_nfs = {head \o <<>>, head \o (point \o mount)}
  BY DEF enum_nfs
<1> HIDE DEF head, point, mount
<1>8. Script(head \o <<>>, "nfs", "plain", "plain", {"nse", "showmount"})
  BY <1>3, <1>4, Joined
<1>9. Script(point \o mount, "nfs", "plain", "done", {"mount point", "mount"})
  <2>1. {"mount point"} \cap {"mount"} = {}
    OBVIOUS
  <2>2. {"mount point"} \cup {"mount"} \subseteq {"mount point", "mount"}
    OBVIOUS
  <2> QED
    BY <1>5, <1>6, <2>1, <2>2, Joined
<1>10. Script(head \o (point \o mount), "nfs", "plain", "done",
              {"nse", "showmount", "mount point", "mount"})
  <2> DEFINE all == {"nse", "showmount", "mount point", "mount"}
  <2>1. {"nse", "showmount"} \cap {"mount point", "mount"} = {}
    OBVIOUS
  <2>2. {"nse", "showmount"} \cup {"mount point", "mount"} \subseteq all
    OBVIOUS
  <2> HIDE DEF all
  <2>3. Script(head \o (point \o mount), "nfs", "plain", "done", all)
    BY <1>3, <1>9, <2>1, <2>2, Joined
  <2> QED
    BY <2>3 DEF all
<1> QED
  BY <1>7, <1>8, <1>10 DEF ListsFit, Script

LEMMA OracleLists == ListsFit("oracle", enum_oracle)
<1>1. Script(Nse("oracle"), "oracle", "plain", "plain", {"nse"})
  BY NseScript DEF Keys
<1> QED
  BY <1>1 DEF ListsFit, enum_oracle, Script

LEMMA IpmiLists == ListsFit("ipmi", enum_ipmi)
<1>1. Script(Nse("ipmi"), "ipmi", "plain", "plain", {"nse"})
  BY NseScript DEF Keys
<1> QED
  BY <1>1 DEF ListsFit, enum_ipmi, Script

LEMMA RdpLists == ListsFit("rdp", enum_rdp)
<1>1. Script(Nse("rdp"), "rdp", "plain", "plain", {"nse"})
  BY NseScript DEF Keys
<1> QED
  BY <1>1 DEF ListsFit, enum_rdp, Script

LEMMA TftpLists == ListsFit("tftp", enum_tftp)
<1>1. Script(Nse("tftp"), "tftp", "plain", "plain", {"nse"})
  BY NseScript DEF Keys
<1> QED
  BY <1>1 DEF ListsFit, enum_tftp, Script

LEMMA RservicesLists == ListsFit("rservices", enum_rservices)
<1>1. Script(Nse("rservices"), "rservices", "plain", "plain", {"nse"})
  BY NseScript DEF Keys
<1> QED
  BY <1>1 DEF ListsFit, enum_rservices, Script

LEMMA RsyncLists == ListsFit("rsync", enum_rsync)
<1>1. Script(Nse("rsync"), "rsync", "plain", "plain", {"nse"})
  BY NseScript DEF Keys
<1>2. Script(Native("rsync", "modules"), "rsync", "plain", "plain", {"modules"})
  BY PartScripts DEF Ordinary, Keys, Parts
<1>3. Script(Nse("rsync") \o Native("rsync", "modules"),
             "rsync", "plain", "plain", {"nse", "modules"})
  BY <1>1, <1>2, Joined
<1> QED
  BY <1>3 DEF ListsFit, enum_rsync, Script

LEMMA SmbLists == ListsFit("smb", enum_smb)
<1> DEFINE argv == Native("smb", "smbmap") \o Native("smb", "enum4linux")
           guest == Nse("smb") \o Native("smb", "shares") \o Native("smb", "rpcclient")
           named == Authed("smb", "rpcclient") \o argv
           creds == creds_file(Authed("smb", "shares"), named)
<1>1. Script(Nse("smb"), "smb", "plain", "plain", {"nse"})
  BY NseScript DEF Keys
<1>2. ASSUME NEW m \in {"plain", "secret"}
      PROVE  Script(argv, "smb", m, m, {"smbmap", "enum4linux"})
  <2>1. Script(Native("smb", "smbmap"), "smb", m, m, {"smbmap"})
    BY ToolScript DEF Native, Modes, Ordinary, Keys, Parts
  <2>2. Script(Native("smb", "enum4linux"), "smb", m, m, {"enum4linux"})
    BY ToolScript DEF Native, Modes, Ordinary, Keys, Parts
  <2> QED
    BY <2>1, <2>2, Joined
<1>3. Script(guest, "smb", "plain", "plain", {"nse", "shares", "rpcclient"})
  <2>1. Script(Native("smb", "shares"), "smb", "plain", "plain", {"shares"})
    BY PartScripts DEF Ordinary, Keys, Parts
  <2>2. Script(Native("smb", "rpcclient"), "smb", "plain", "plain", {"rpcclient"})
    BY PartScripts DEF Ordinary, Keys, Parts
  <2>3. Script(Nse("smb") \o Native("smb", "shares"), "smb", "plain", "plain", {"nse", "shares"})
    BY <1>1, <2>1, Joined
  <2> QED
    BY <2>2, <2>3, Joined
<1>4. Script(Authed("smb", "rpcclient"), "smb", "secret", "secret", {"rpcclient"})
  BY PartScripts DEF Ordinary, Keys, Parts
<1>5. Script(Authed("smb", "shares"), "smb", "secret", "secret", {"shares"})
  BY PartScripts DEF Ordinary, Keys, Parts
<1>6. enum_smb = {guest \o argv, Nse("smb") \o creds}
  BY DEF enum_smb
<1> HIDE DEF argv, guest
<1>7. Script(guest \o argv, "smb", "plain", "plain",
             {"nse", "shares", "rpcclient", "smbmap", "enum4linux"})
  BY <1>2, <1>3, Joined
<1>8. Script(named, "smb", "secret", "secret", {"rpcclient", "smbmap", "enum4linux"})
  BY <1>2, <1>4, Joined
<1> HIDE DEF named
<1>9. Script(creds, "smb", "plain", "plain", {"shares", "rpcclient", "smbmap", "enum4linux"})
  BY <1>5, <1>8, CredsScript
<1> HIDE DEF creds
<1>10. Script(Nse("smb") \o creds, "smb", "plain", "plain",
              {"nse", "shares", "rpcclient", "smbmap", "enum4linux"})
  BY <1>1, <1>9, Joined
<1> QED
  BY <1>6, <1>7, <1>10 DEF ListsFit, Script

LEMMA SmtpLists == ListsFit("smtp", enum_smtp)
<1>1. Script(Nse("smtp"), "smtp", "plain", "plain", {"nse"})
  BY NseScript DEF Keys
<1>2. Script(<<>>, "smtp", "plain", "plain", {})
  BY EmptyScript DEF Modes
<1>3. Script(Nse("smtp") \o <<>>, "smtp", "plain", "plain", {"nse"})
  BY <1>1, <1>2, Joined
<1>4. Script(Native("smtp", "cert"), "smtp", "plain", "plain", {"cert"})
  BY PartScripts DEF Ordinary, Keys, Parts
<1>5. Script(Nse("smtp") \o <<>> \o Native("smtp", "cert"),
             "smtp", "plain", "plain", {"nse", "cert"})
  BY <1>3, <1>4, Joined
<1>6. Script(Write("smtp", "probe"), "smtp", "plain", "plain", {"probe"})
  BY PartScripts DEF Ordinary, Keys, Parts
<1>7. Script(Nse("smtp") \o Write("smtp", "probe"), "smtp", "plain", "plain", {"nse", "probe"})
  BY <1>1, <1>6, Joined
<1>8. Script(Nse("smtp") \o Write("smtp", "probe") \o Native("smtp", "cert"),
             "smtp", "plain", "plain", {"nse", "probe", "cert"})
  BY <1>7, <1>4, Joined
<1> QED
  BY <1>5, <1>8 DEF ListsFit, enum_smtp, Script

LEMMA SnmpLists == ListsFit("snmp", enum_snmp)
<1>1. Script(Nse("snmp"), "snmp", "plain", "plain", {"nse"})
  BY NseScript DEF Keys
<1>2. Script(<<Step("communities", <<"snmp", "onesixtyone">>)>>,
             "snmp", "plain", "done", {"onesixtyone"})
  BY PlainScript DEF Ordinary, Keys, Parts
<1>3. Script(Nse("snmp") \o <<Step("communities", <<"snmp", "onesixtyone">>)>>,
             "snmp", "plain", "done", {"nse", "onesixtyone"})
  BY <1>1, <1>2, Joined
<1> QED
  BY <1>3 DEF ListsFit, enum_snmp, Script

LEMMA SshLists == ListsFit("ssh", enum_ssh)
<1>1. Script(Nse("ssh"), "ssh", "plain", "plain", {"nse"})
  BY NseScript DEF Keys
<1>2. Script(<<>>, "ssh", "plain", "plain", {})
  BY EmptyScript DEF Modes
<1>3. Script(Nse("ssh") \o <<>>, "ssh", "plain", "plain", {"nse"})
  BY <1>1, <1>2, Joined
<1>4. Script(Write("ssh", "banner"), "ssh", "plain", "plain", {"banner"})
  BY PartScripts DEF Ordinary, Keys, Parts
<1>5. Script(Nse("ssh") \o <<>> \o Write("ssh", "banner"),
             "ssh", "plain", "plain", {"nse", "banner"})
  BY <1>3, <1>4, Joined
<1>6. Script(Checked("ssh", "audit"), "ssh", "plain", "plain", {"audit"})
  BY PartScripts DEF Ordinary, Keys, Parts
<1>7. Script(Nse("ssh") \o Checked("ssh", "audit"), "ssh", "plain", "plain", {"nse", "audit"})
  BY <1>1, <1>6, Joined
<1>8. Script(Nse("ssh") \o Checked("ssh", "audit") \o Write("ssh", "banner"),
             "ssh", "plain", "plain", {"nse", "audit", "banner"})
  BY <1>7, <1>4, Joined
<1> QED
  BY <1>5, <1>8 DEF ListsFit, enum_ssh, Script

LEMMA WinrmLists == ListsFit("winrm", enum_winrm)
<1>1. Script(Nse("winrm"), "winrm", "plain", "plain", {"nse"})
  BY NseScript DEF Keys
<1>2. Script(<<>>, "winrm", "plain", "plain", {})
  BY EmptyScript DEF Modes
<1>3. Script(Nse("winrm") \o <<>>, "winrm", "plain", "plain", {"nse"})
  BY <1>1, <1>2, Joined
<1>4. Script(Checked("winrm", "nxc"), "winrm", "plain", "plain", {"nxc"})
  BY PartScripts DEF Ordinary, Keys, Parts
<1>5. Script(Nse("winrm") \o Checked("winrm", "nxc"), "winrm", "plain", "plain", {"nse", "nxc"})
  BY <1>1, <1>4, Joined
<1> QED
  BY <1>3, <1>5 DEF ListsFit, enum_winrm, Script

LEMMA WmiLists == ListsFit("wmi", enum_wmi)
<1>1. Script(Nse("wmi"), "wmi", "plain", "plain", {"nse"})
  BY NseScript DEF Keys
<1>2. Script(<<>>, "wmi", "plain", "plain", {})
  BY EmptyScript DEF Modes
<1>3. Script(Nse("wmi") \o <<>>, "wmi", "plain", "plain", {"nse"})
  BY <1>1, <1>2, Joined
<1>4. Script(Checked("msrpc", "rpcdump"), "wmi", "plain", "plain", {"rpcdump"})
  BY PartScripts DEF Ordinary, Keys, Parts
<1>5. Script(Nse("wmi") \o Checked("msrpc", "rpcdump"),
             "wmi", "plain", "plain", {"nse", "rpcdump"})
  BY <1>1, <1>4, Joined
<1> QED
  BY <1>3, <1>5 DEF ListsFit, enum_wmi, Script

\* The lists of every handler in the registry.
LEMMA EveryListFits ==
    ASSUME NEW s \in DOMAIN HANDLERS, NEW list \in HANDLERS[s]
    PROVE  \E n \in {"plain", "done"} : Program(list, s, "plain", n)
<1>1. s \in {"dns", "ftp", "imap", "ipmi", "mssql", "mysql", "nfs", "oracle", "pop3", "rdp",
             "rservices", "rsync", "smb", "smtp", "snmp", "ssh", "tftp", "winrm", "wmi"}
  BY DEF HANDLERS
<1>2. CASE s = "dns"
  BY <1>2, DnsLists DEF ListsFit, HANDLERS
<1>3. CASE s = "ftp"
  BY <1>3, FtpLists DEF ListsFit, HANDLERS
<1>4. CASE s = "imap"
  BY <1>4, ImapLists DEF ListsFit, HANDLERS
<1>5. CASE s = "ipmi"
  BY <1>5, IpmiLists DEF ListsFit, HANDLERS
<1>6. CASE s = "mssql"
  BY <1>6, MssqlLists DEF ListsFit, HANDLERS
<1>7. CASE s = "mysql"
  BY <1>7, MysqlLists DEF ListsFit, HANDLERS
<1>8. CASE s = "nfs"
  BY <1>8, NfsLists DEF ListsFit, HANDLERS
<1>9. CASE s = "oracle"
  BY <1>9, OracleLists DEF ListsFit, HANDLERS
<1>10. CASE s = "pop3"
  BY <1>10, Pop3Lists DEF ListsFit, HANDLERS
<1>11. CASE s = "rdp"
  BY <1>11, RdpLists DEF ListsFit, HANDLERS
<1>12. CASE s = "rservices"
  BY <1>12, RservicesLists DEF ListsFit, HANDLERS
<1>13. CASE s = "rsync"
  BY <1>13, RsyncLists DEF ListsFit, HANDLERS
<1>14. CASE s = "smb"
  BY <1>14, SmbLists DEF ListsFit, HANDLERS
<1>15. CASE s = "smtp"
  BY <1>15, SmtpLists DEF ListsFit, HANDLERS
<1>16. CASE s = "snmp"
  BY <1>16, SnmpLists DEF ListsFit, HANDLERS
<1>17. CASE s = "ssh"
  BY <1>17, SshLists DEF ListsFit, HANDLERS
<1>18. CASE s = "tftp"
  BY <1>18, TftpLists DEF ListsFit, HANDLERS
<1>19. CASE s = "winrm"
  BY <1>19, WinrmLists DEF ListsFit, HANDLERS
<1>20. CASE s = "wmi"
  BY <1>20, WmiLists DEF ListsFit, HANDLERS
<1> QED
  BY <1>1, <1>2, <1>3, <1>4, <1>5, <1>6, <1>7, <1>8, <1>9, <1>10, <1>11, <1>12, <1>13,
     <1>14, <1>15, <1>16, <1>17, <1>18, <1>19, <1>20

-----------------------------------------------------------------------------
(* The lists a result decides on. *)

\* What follows a mount: the listing, then the umount.
LEMMA ListingScript ==
    /\ \A s : Program(ListAndUnmount, s, "mounted", "done")
    /\ \A i \in 1..Len(ListAndUnmount) : ListAndUnmount[i].file \in LateFiles \cup {NoFile}
<1> DEFINE listing == Step("native", <<"nfs", "listing">>)
           unmount == Step("umount", NoFile)
<1>1. listing \in Steps /\ listing.op = "native" /\ listing.file = <<"nfs", "listing">>
      /\ listing.reads = FALSE
  <2>1. <<"nfs", "listing">> \in Files
    BY DEF Files, Keys, Parts
  <2> QED
    BY <2>1 DEF Step, Steps, Ops
<1>2. unmount.file = NoFile /\ \A s : Script(<<unmount>>, s, "mounted", "done", {})
  BY FilelessScript DEF Step
<1>3. ListAndUnmount = <<listing>> \o <<unmount>>
  BY DEF ListAndUnmount, Native
<1> HIDE DEF listing, unmount
<1>4. \A i \in 1..Len(<<listing>> \o <<unmount>>) :
        (<<listing>> \o <<unmount>>)[i] \in {listing, unmount}
  <2> DEFINE head == <<listing>>
             tail == <<unmount>>
  <2>1. /\ head \in Seq({listing, unmount}) /\ Len(head) = 1 /\ head[1] = listing
        /\ tail \in Seq({listing, unmount}) /\ Len(tail) = 1 /\ tail[1] = unmount
    OBVIOUS
  <2> HIDE DEF head, tail
  <2>2. head \o tail \in Seq({listing, unmount})
    BY <2>1, ConcatProperties
  <2>3. \A i \in 1..Len(head \o tail) : (head \o tail)[i] \in {listing, unmount}
    BY <2>2, ElementOfSeq
  <2> QED
    BY <2>3 DEF head, tail
<1>5. ASSUME NEW s PROVE Program(ListAndUnmount, s, "mounted", "done")
  <2>1. Fits(listing, s, "mounted", "mounted")
    BY <1>1 DEF Fits, NoFile
  <2>2. listing.file[2] \in {"listing"}
    BY <1>1
  <2> DEFINE head == <<listing>>
             tail == <<unmount>>
  <2>3. Script(head, s, "mounted", "mounted", {"listing"})
    BY <1>1, <2>1, <2>2, Single DEF Modes
  <2>4. Script(tail, s, "mounted", "done", {})
    BY <1>2
  <2>5. ListAndUnmount = head \o tail
    BY <1>3
  <2> HIDE DEF head, tail
  <2>6. Script(head \o tail, s, "mounted", "done", {"listing"})
    BY <2>3, <2>4, Joined
  <2> QED
    BY <2>5, <2>6 DEF Script
<1>6. ASSUME NEW i \in 1..Len(ListAndUnmount)
      PROVE  ListAndUnmount[i].file \in LateFiles \cup {NoFile}
  <2>1. ListAndUnmount[i] \in {listing, unmount}
    BY <1>3, <1>4
  <2>2. <<"nfs", "listing">> \in LateFiles
    BY DEF LateFiles
  <2> QED
    BY <1>1, <1>2, <2>1, <2>2
<1> QED
  BY <1>5, <1>6

\* The walk of one community, field by field.
LEMMA WalkFields ==
    ASSUME NEW c \in Communities
    PROVE  /\ Walk(c) \in Steps /\ Walk(c).op = "native" /\ Walk(c).file = <<"snmp walk", Safe(c)>>
           /\ ~Walk(c).reads /\ Walk(c).who = c /\ Walk(c).file \in LateFiles
<1> DEFINE file == <<"snmp walk", Safe(c)>>
<1>1. file \in LateFiles /\ file \in Files
  BY DEF LateFiles, Files
<1>2. Walk(c) = [op |-> "native", file |-> file, reads |-> FALSE, who |-> c]
  BY DEF Walk
<1> HIDE DEF file
<1>3. Walk(c) \in Steps
  BY <1>1, <1>2 DEF Steps, Ops
<1>4. Walk(c).op = "native" /\ Walk(c).file = file /\ ~Walk(c).reads /\ Walk(c).who = c
  BY <1>2
<1> QED
  BY <1>1, <1>3, <1>4 DEF file

\* Two walks of one list share a file only when the communities clash.
LEMMA WalksScript ==
    ASSUME NEW found \in Found
    PROVE  /\ Program(Walks(found), "snmp", "walking", "walking")
           /\ \A i \in 1..Len(Walks(found)) : Walks(found)[i].file \in LateFiles
<1> DEFINE all == IF found = <<>> THEN <<Public>> ELSE found
           n == IF Len(all) < MaxWalks THEN Len(all) ELSE MaxWalks
           list == [i \in 1..n |-> Walk(all[i])]
<1>1. /\ Len(all) \in Nat
      /\ \A i \in 1..Len(all) : all[i] \in Communities
      /\ \A i, j \in 1..Len(all) : all[i] = all[j] => i = j
  <2>1. PICK k \in 0..Cardinality(Communities) :
               found \in [1..k -> Communities] /\ \A i, j \in 1..k : found[i] = found[j] => i = j
    BY DEF Found
  <2>2. k \in Nat
    BY <2>1
  <2>3. found \in Seq(Communities) /\ Len(found) = k
    BY <2>1, <2>2
  <2>4. CASE found = <<>>
    BY <2>4, SnmpAssumption
  <2>5. CASE found # <<>>
    BY <2>1, <2>2, <2>3, <2>5
  <2> QED
    BY <2>4, <2>5
<1>2. n \in Nat /\ n <= Len(all)
  BY <1>1, SnmpAssumption
<1>3. Walks(found) = list
  BY DEF Walks
<1> HIDE DEF all, n
<1>4. ASSUME NEW i \in 1..n
      PROVE  i \in 1..Len(all) /\ all[i] \in Communities /\ Walk(all[i]) \in Steps
  <2>1. i \in 1..Len(all)
    BY <1>1, <1>2
  <2>2. all[i] \in Communities
    BY <1>1, <2>1
  <2> QED
    BY <2>1, <2>2, WalkFields
<1>5. list \in Seq(Steps) /\ Len(list) = n /\ \A i \in 1..n : list[i] = Walk(all[i])
  BY <1>2, <1>4
<1> HIDE DEF list
<1>6. ASSUME NEW i \in 1..n PROVE Fits(list[i], "snmp", "walking", "walking")
  <2>1. list[i] = Walk(all[i]) /\ all[i] \in Communities
    BY <1>4, <1>5
  <2>2. /\ list[i].op = "native" /\ ~list[i].reads
        /\ list[i].file = <<"snmp walk", Safe(all[i])>>
    BY <2>1, WalkFields
  <2>3. <<"snmp walk", Safe(all[i])>> # NoFile
    BY DEF NoFile
  <2> QED
    BY <2>2, <2>3 DEF Fits
<1>7. Leads(list, "snmp", "walking", "walking")
  <2> DEFINE f == [i \in 1..n + 1 |-> "walking"]
  <2>1. f \in [1..Len(list) + 1 -> Modes] /\ f[1] = "walking" /\ f[Len(list) + 1] = "walking"
    BY <1>2, <1>5 DEF Modes
  <2>2. \A i \in 1..Len(list) : Fits(list[i], "snmp", f[i], f[i + 1])
    <3> SUFFICES ASSUME NEW i \in 1..n PROVE Fits(list[i], "snmp", f[i], f[i + 1])
      BY <1>5
    <3>1. f[i] = "walking" /\ f[i + 1] = "walking"
      BY <1>2
    <3> QED
      BY <1>6, <3>1
  <2> HIDE DEF f
  <2> QED
    BY <2>1, <2>2 DEF Leads
<1>8. Distinct(list, "snmp")
  <2> SUFFICES ASSUME NEW i \in 1..n, NEW j \in 1..n, i # j, list[i].file = list[j].file
               PROVE  Clash("snmp", list[i], list[j])
    BY <1>5 DEF Distinct
  <2>1. /\ list[i].file = <<"snmp walk", Safe(all[i])>> /\ list[i].who = all[i]
        /\ list[j].file = <<"snmp walk", Safe(all[j])>> /\ list[j].who = all[j]
    BY <1>4, <1>5, WalkFields
  <2>2. all[i] # all[j]
    BY <1>1, <1>4
  <2>3. <<"snmp walk", Safe(all[i])>> = <<"snmp walk", Safe(all[j])>>
    BY <2>1
  <2>4. Safe(all[i]) = Safe(all[j])
    BY <2>3
  <2> QED
    BY <1>4, <2>1, <2>2, <2>4 DEF Clash
<1>9. \A i \in 1..n : list[i].file \in LateFiles
  BY <1>4, <1>5, WalkFields
<1> QED
  BY <1>3, <1>5, <1>7, <1>8, <1>9 DEF Program

-----------------------------------------------------------------------------
(* The handlers' invariant. *)

\* A mount outlives its handler only when the umount did not do its work, or when
\* run_tool could not say that the mount had succeeded.
StillMounted ==
    \/ last = "umount" /\ exit # "zero"
    \/ last = "mount" /\ (exit # "zero" \/ diskError)

\* What each mode says of the credential file, the mount and the claims.
ModeFits(m) ==
    /\ m = "secret" <=> secret = "held"
    /\ m \in {"plain", "secret"} =>
         /\ \A c \in claims : c.file \notin LateFiles
         /\ mounted => pc \notin {"idle", "running"} /\ Ahead.op = "mount"
    /\ m = "walking" => ~mounted
    /\ m = "done" /\ mounted => StillMounted

\* The steps left lead from the mode the handler is in to its end.
StepsInv ==
    at = "handler" =>
        /\ secret \notin {"leaked", "stuck"}
        /\ \E m \in Modes, n \in {"plain", "walking", "done"} :
             Program(todo, svc, m, n) /\ ModeFits(m)

\* No step left writes a file that a claim is about, but for a clash.
ClaimsInv ==
    /\ \A c \in claims : c.file # NoFile
    /\ at = "handler" => \A c \in claims : \A i \in 1..Len(todo) :
                            c.file = todo[i].file => Clash(svc, c, todo[i])

\* While run_tool is at work it works on the step ahead.
CallInv ==
    at = "handler" /\ pc # "idle" =>
        /\ todo # <<>> /\ Ahead.op \in ToolOps /\ last = Ahead.op
        /\ out <=> Ahead.op \notin {"nse", "umount"}
        /\ Ahead.op = "umount" /\ pc # "running" /\ mounted => exit # "zero"

\* What the exit is at each place in run_tool.
ExitInv ==
    /\ pc \in {"running", "missing", "return missing"} => exit = "none"
    /\ pc \in {"log timeout", "write partial", "return timeout"} => exit = "timeout"
    /\ pc \in {"log error", "return error"} /\ exit \in {"zero", "nonzero"} => diskError

\* When the handler is over.
AroundInv ==
    /\ at # "handler" => secret # "held"
    /\ at \in {"raised", "over", "crashed"} /\ secret = "leaked" => svc = "mssql"
    /\ at \in {"raised", "crashed"} /\ mounted => pc = "raised" /\ diskError
    /\ at = "over" /\ mounted /\ pc # "raised" => StillMounted

HandlerTypes ==
    /\ at \in {"handler", "raised", "over", "crashed", "dead"}
    /\ svc \in DOMAIN HANDLERS
    /\ todo \in Seq(Steps)
    /\ last \in ToolOps \cup {"none"}
    /\ secret \in {"none", "held", "leaked", "stuck"}
    /\ mounted \in BOOLEAN

IInv ==
    /\ ExecutorInv /\ ExitInv
    /\ HandlerTypes /\ StepsInv /\ ClaimsInv /\ CallInv /\ AroundInv
    /\ SuccessHasEvidence

\* Whatever service and inputs a handler is called for.
LEMMA InitIInv == Init => IInv
<1> SUFFICES ASSUME Init PROVE IInv
  OBVIOUS
<1>1. ExecutorInv /\ ExitInv
  <2>1. ExecutorInv
    BY ExecutorStart DEF Init
  <2> QED
    BY <2>1 DEF Init, ExecutorInit, ExitInv
<1>2. PICK n \in {"plain", "done"} : Program(todo, svc, "plain", n)
  BY EveryListFits DEF Init
<1>3. HandlerTypes
  BY <1>2 DEF Init, HandlerTypes, Program
<1>4. ModeFits("plain")
  BY DEF Init, ModeFits
<1>5. StepsInv
  BY <1>2, <1>4 DEF StepsInv, Init, Modes
<1>6. ClaimsInv /\ CallInv /\ AroundInv
  BY DEF Init, ExecutorInit, ClaimsInv, CallInv, AroundInv
<1> QED
  BY <1>1, <1>3, <1>5, <1>6 DEF IInv, Init, SuccessHasEvidence

\* run_tool keeps what ExitInv says of its exit.
LEMMA ExitStep ==
    ASSUME ExecutorInv, ExitInv, [ExecutorNext]_ExecutorVars
    PROVE  ExitInv'
<1> USE DEF ExitInv
<1>1. ASSUME NEW path \in BOOLEAN, NEW available \in BOOLEAN, Call(path, available)
      PROVE  ExitInv'
  BY <1>1 DEF Call
<1>2. CASE ToolEnds
  BY <1>2 DEF ToolEnds, handler, Exits
<1>3. CASE WriteOutput
  BY <1>3 DEF WriteOutput, ExecutorInv, Settling
<1>4. CASE LogExit
  BY <1>4 DEF LogExit
<1>5. CASE LogUnguarded
  <2>1. UNCHANGED exit /\ (UNCHANGED diskError \/ diskError')
    BY <1>5 DEF LogUnguarded
  <2>2. \/ pc' = "raised"
        \/ pc = "log timeout" /\ pc' \in {"write partial", "return timeout"}
        \/ pc = "missing" /\ pc' = "return missing"
        \/ pc = "log error" /\ pc' = "return error"
    <3>1. CASE pc = "log timeout" /\ out
      BY <1>5, <3>1 DEF LogUnguarded
    <3>2. CASE pc = "log timeout" /\ ~out
      BY <1>5, <3>2 DEF LogUnguarded
    <3>3. CASE pc \in {"missing", "log error"}
      BY <1>5, <3>3 DEF LogUnguarded
    <3> QED
      BY <1>5, <3>1, <3>2, <3>3 DEF LogUnguarded
  <2> QED
    BY <2>1, <2>2
<1>6. CASE WritePartial
  BY <1>6 DEF WritePartial
<1>7. CASE Return
  BY <1>7 DEF Return
<1>8. CASE UNCHANGED ExecutorVars
  BY <1>8 DEF ExecutorVars, executor
<1> QED
  BY <1>1, <1>2, <1>3, <1>4, <1>5, <1>6, <1>7, <1>8 DEF ExecutorNext, Settle

\* The mode and the end of the list, as a witness for the step lemmas.
LEMMA ModeNow ==
    ASSUME IInv, at = "handler"
    PROVE  \E m \in Modes, n \in {"plain", "walking", "done"} :
             Program(todo, svc, m, n) /\ ModeFits(m)
BY DEF IInv, StepsInv

\* A step keeps StepsInv when it leaves a list for a mode that fits.
LEMMA StepsKept ==
    ASSUME NEW m \in Modes, NEW n \in {"plain", "walking", "done"},
           Program(todo', svc', m, n), ModeFits(m)', secret' \notin {"leaked", "stuck"}
    PROVE  StepsInv'
BY DEF StepsInv

\* A step that touches neither files nor claims keeps every claim's evidence.
LEMMA EvidenceKept ==
    ASSUME NEW step, files' \in FilesAfter(step), NEW f \in files, f.file # step.file
    PROVE  f \in files'
<1>1. files' = files \/ Overwritten(step.file) \subseteq files'
  BY DEF FilesAfter
<1>2. f \in Overwritten(step.file)
  BY DEF Overwritten
<1> QED
  BY <1>1, <1>2

\* A claim whose file this step writes again is one of two that clash.
LEMMA ClaimsKept ==
    ASSUME IInv, at = "handler", todo # <<>>, svc' = svc, files' \in FilesAfter(Ahead),
           NEW c \in claims
    PROVE  \/ c \in files'
           \/ svc' = "snmp" /\ \E d \in Communities \ {c.who} : Safe(d) = Safe(c.who)
<1>1. \/ c \in files
      \/ svc = "snmp" /\ \E d \in Communities \ {c.who} : Safe(d) = Safe(c.who)
  BY DEF IInv, SuccessHasEvidence
<1>2. CASE c.file # Ahead.file
  BY <1>1, <1>2, EvidenceKept
<1>3. CASE c.file = Ahead.file
  <2>1. todo \in Seq(Steps)
    BY DEF IInv, HandlerTypes
  <2>2. 1 \in 1..Len(todo) /\ Ahead = todo[1]
    BY <2>1, EmptySeq DEF Ahead
  <2>3. Clash(svc, c, Ahead)
    BY <1>3, <2>2 DEF IInv, ClaimsInv
  <2> QED
    BY <2>3 DEF Clash
<1> QED
  BY <1>2, <1>3

\* The call of a tool is a step the mode allows.
LEMMA CallToolStep == IInv /\ CallTool => IInv'
<1> SUFFICES ASSUME IInv, CallTool PROVE IInv'
  OBVIOUS
<1>1. ExecutorInv' /\ ExitInv'
  BY HandlerStep, ExecutorStep, ExitStep DEF IInv, Next
<1>2. /\ at = "handler" /\ pc = "idle" /\ todo # <<>> /\ Ahead.op \in ToolOps
      /\ pc' \in {"running", "missing"} /\ exit' = "none" /\ last' = Ahead.op
      /\ out' = (Ahead.op \notin {"nse", "umount"})
      /\ UNCHANGED <<at, svc, todo, secret, mounted, files, claims>>
  BY DEF CallTool, Call
<1>3. PICK m \in Modes, n \in {"plain", "walking", "done"} : Program(todo, svc, m, n) /\ ModeFits(m)
  BY <1>2, ModeNow
<1>4. m # "done"
  BY <1>2, <1>3, DoneIsEmpty
<1>5. ModeFits(m)'
  BY <1>2, <1>3, <1>4 DEF ModeFits
<1>6. StepsInv'
  <2>1. Program(todo', svc', m, n)
    BY <1>2, <1>3
  <2> QED
    BY <1>2, <1>5, <2>1, StepsKept DEF IInv, StepsInv
<1>7. HandlerTypes' /\ ClaimsInv' /\ AroundInv'
  BY <1>2 DEF IInv, HandlerTypes, ClaimsInv, AroundInv
<1>8. CallInv'
  BY <1>2 DEF CallInv, Ahead
<1> QED
  BY <1>1, <1>2, <1>6, <1>7, <1>8 DEF IInv, SuccessHasEvidence

\* The tool's end: the mount may be there now, or gone.
LEMMA ToolRunsStep == IInv /\ ToolRuns => IInv'
<1> SUFFICES ASSUME IInv, ToolRuns PROVE IInv'
  OBVIOUS
<1>1. ExecutorInv' /\ ExitInv'
  BY HandlerStep, ExecutorStep, ExitStep DEF IInv, Next
<1>2. /\ at = "handler" /\ pc = "running"
      /\ pc' \in {"return", "log exit", "write output", "log timeout", "log error"}
      /\ mounted' \in Remounted(Ahead.op, exit')
      /\ UNCHANGED <<out, at, svc, todo, last, secret, files, claims>>
  <2>1. handler(exit') \in {"return", "log exit", "write output", "log timeout", "log error"}
    BY DEF handler
  <2> QED
    BY <2>1 DEF ToolRuns, ToolEnds
<1>3. PICK m \in Modes, n \in {"plain", "walking", "done"} : Program(todo, svc, m, n) /\ ModeFits(m)
  BY <1>2, ModeNow
<1>4. todo # <<>> /\ Ahead.op \in ToolOps /\ last = Ahead.op /\ Ahead' = Ahead
      /\ (out <=> Ahead.op \notin {"nse", "umount"})
  BY <1>2 DEF IInv, CallInv, Ahead
<1>5. PICK k \in Modes : Fits(Ahead, svc, m, k)
  BY <1>3, <1>4, Taken DEF Ahead
<1>6. Ahead.op \notin {"mount", "umount"} => mounted' = mounted
  BY <1>2 DEF Remounted
<1>7. mounted' \in BOOLEAN
  BY <1>2 DEF Remounted, IInv, HandlerTypes
<1>8. Ahead.op = "umount" /\ mounted' => exit' # "zero"
  BY <1>2 DEF Remounted
<1>9. ModeFits(m)'
  <2>1. /\ m # "done" /\ (m # "mounted" => Ahead.op # "umount")
        /\ m \in {"secret", "walking"} => Ahead.op # "mount"
    BY <1>4, <1>5 DEF Fits
  <2>2. m \in {"plain", "secret"} => ~mounted
    BY <1>2, <1>3 DEF ModeFits
  <2>3. m \in {"plain", "secret"} /\ mounted' => Ahead.op = "mount"
    BY <1>6, <2>1, <2>2
  <2>4. m = "walking" => ~mounted'
    BY <1>3, <1>6, <2>1 DEF ModeFits
  <2> QED
    BY <1>2, <1>3, <1>4, <2>1, <2>3, <2>4 DEF ModeFits
<1>10. StepsInv'
  <2>1. Program(todo', svc', m, n)
    BY <1>2, <1>3
  <2> QED
    BY <1>2, <1>9, <2>1, StepsKept DEF IInv, StepsInv
<1>11. HandlerTypes' /\ ClaimsInv' /\ AroundInv'
  BY <1>2, <1>7 DEF IInv, HandlerTypes, ClaimsInv, AroundInv
<1>12. CallInv'
  BY <1>2, <1>4, <1>8 DEF CallInv
<1> QED
  BY <1>1, <1>2, <1>10, <1>11, <1>12 DEF IInv, SuccessHasEvidence

\* run_tool's bookkeeping is none of the handler's business.
LEMMA SettlesStep == IInv /\ RunToolSettles => IInv'
<1> SUFFICES ASSUME IInv, RunToolSettles PROVE IInv'
  OBVIOUS
<1>1. ExecutorInv' /\ ExitInv'
  BY HandlerStep, ExecutorStep, ExitStep DEF IInv, Next
<1>2. at = "handler" /\ UNCHANGED handler_vars
  BY DEF RunToolSettles
<1>3. pc \notin {"idle", "running"} /\ UNCHANGED <<out, exit>>
  BY DEF RunToolSettles, Settle, WriteOutput, LogExit, LogUnguarded, WritePartial
<1>4. pc' \notin {"idle", "running"}
  <2>1. CASE WriteOutput
    BY <2>1 DEF WriteOutput
  <2>2. CASE LogExit
    BY <2>2 DEF LogExit
  <2>3. CASE LogUnguarded
    <3> DEFINE next == CASE pc = "log timeout" /\ out -> "write partial"
                         [] pc = "log timeout" /\ ~out -> "return timeout"
                         [] pc = "missing" -> "return missing"
                         [] OTHER -> "return error"
    <3>1. next \in {"write partial", "return timeout", "return missing", "return error"}
      OBVIOUS
    <3> QED
      BY <2>3, <3>1 DEF LogUnguarded
  <2>4. CASE WritePartial
    BY <2>4 DEF WritePartial
  <2> QED
    BY <2>1, <2>2, <2>3, <2>4 DEF RunToolSettles, Settle
<1>5. PICK m \in Modes, n \in {"plain", "walking", "done"} : Program(todo, svc, m, n) /\ ModeFits(m)
  BY <1>2, ModeNow
<1>6. m # "done"
  BY <1>2, <1>3, <1>5, DoneIsEmpty DEF IInv, CallInv
<1>7. ModeFits(m)'
  BY <1>2, <1>3, <1>4, <1>5, <1>6 DEF ModeFits, handler_vars, Ahead
<1>8. StepsInv'
  <2>1. Program(todo', svc', m, n)
    BY <1>2, <1>5 DEF handler_vars
  <2> QED
    BY <1>2, <1>7, <2>1, StepsKept DEF IInv, StepsInv, handler_vars
<1>9. HandlerTypes' /\ ClaimsInv' /\ AroundInv'
  BY <1>2 DEF IInv, HandlerTypes, ClaimsInv, AroundInv, handler_vars
<1>10. CallInv'
  BY <1>2, <1>3 DEF IInv, CallInv, Ahead, handler_vars
<1> QED
  BY <1>1, <1>2, <1>8, <1>9, <1>10 DEF IInv, SuccessHasEvidence, handler_vars

\* What the return of a tool leaves on disk and in the claims.
LEMMA ReturnKeepsEvidence ==
    ASSUME IInv, ToolReturns
    PROVE  /\ SuccessHasEvidence'
           /\ \A c \in claims' : c \in claims \/ (out /\ c.file = Ahead.file /\ c.who = Ahead.who)
<1> DEFINE mine == [file |-> Ahead.file, who |-> Ahead.who]
<1>1. /\ at = "handler" /\ pc # "idle" /\ Return /\ svc' = svc
      /\ files' \in FilesAfter(Ahead)
      /\ claims' = IF ok(result') /\ out THEN claims \cup {mine} ELSE claims
  BY DEF ToolReturns, Return
<1>2. todo # <<>>
  BY <1>1 DEF IInv, CallInv
<1>3. ASSUME ok(result'), out PROVE mine \in files'
  <2>1. result' = toolResult
    BY <1>1 DEF Return
  <2>2. pc = "return"
    BY <1>1, <1>3, <2>1, ToolResultFits DEF IInv
  <2>3. written = "output"
    BY <1>3, <2>2 DEF IInv, ExecutorInv, Leaving
  <2>4. FilesAfter(Ahead) = {Overwritten(Ahead.file) \cup {mine}}
    BY <1>3, <2>3 DEF FilesAfter
  <2> QED
    BY <1>1, <2>4
<1>4. ASSUME NEW c \in claims'
      PROVE  \/ c \in files'
             \/ svc' = "snmp" /\ \E d \in Communities \ {c.who} : Safe(d) = Safe(c.who)
  <2>1. CASE c \in claims
    BY <1>1, <1>2, <2>1, ClaimsKept
  <2>2. CASE c \notin claims
    BY <1>1, <1>3, <2>2
  <2> QED
    BY <2>1, <2>2
<1>5. SuccessHasEvidence'
  BY <1>4 DEF SuccessHasEvidence
<1>6. ASSUME NEW c \in claims', c \notin claims
      PROVE  out /\ c.file = Ahead.file /\ c.who = Ahead.who
  <2>1. out /\ c = mine
    BY <1>1, <1>6
  <2> QED
    BY <2>1
<1> QED
  BY <1>5, <1>6

\* How a handler goes on after a tool: to the list a result decides on, or to the rest.
LEMMA ReturnGoesOn ==
    ASSUME IInv, ToolReturns,
           NEW m \in Modes, NEW n \in {"plain", "walking", "done"},
           Program(todo, svc, m, n), ModeFits(m)
    PROVE  \E k \in Modes, l \in {"plain", "walking", "done"} :
             /\ Program(todo', svc', k, l) /\ ModeFits(k)'
<1>1. /\ at = "handler" /\ pc # "idle" /\ Return /\ pc' = "idle"
      /\ todo' \in Continued(Ahead, result')
      /\ UNCHANGED <<at, svc, last, secret, mounted, exit, diskError>>
      /\ pc \in {"return", "return missing", "return timeout", "return error"}
  BY DEF ToolReturns, Return
<1>2. todo # <<>> /\ Ahead.op \in ToolOps /\ last = Ahead.op
      /\ (Ahead.op = "umount" /\ mounted => exit # "zero")
  BY <1>1 DEF IInv, CallInv
<1>3. PICK k \in Modes : Fits(Ahead, svc, m, k) /\ Program(Tail(todo), svc, k, n)
  BY <1>2, Taken DEF Ahead
<1>4. result' = toolResult /\ (ok(result') <=> pc = "return" /\ exit = "zero")
  <2>1. result' = toolResult
    BY <1>1 DEF Return
  <2> QED
    BY <1>1, <2>1, ToolResultFits DEF IInv
<1>5. m # "done"
  BY <1>3 DEF Fits
<1>6. ASSUME m \in {"plain", "secret"}
      PROVE  \A c \in claims' : c.file \notin LateFiles
  <2>1. Ahead.file \notin LateFiles
    BY <1>3, <1>6 DEF Fits
  <2>2. \A c \in claims : c.file \notin LateFiles
    BY <1>6 DEF ModeFits
  <2> QED
    BY <2>1, <2>2, ReturnKeepsEvidence
<1>7. CASE Ahead.op = "mount" /\ ok(result')
  <2>1. todo' = ListAndUnmount
    BY <1>1, <1>7 DEF Continued
  <2>2. m = "plain"
    BY <1>3, <1>7 DEF Fits
  <2>3. ModeFits("mounted")'
    BY <1>1, <2>2 DEF ModeFits
  <2>4. Program(todo', svc', "mounted", "done")
    BY <2>1, ListingScript
  <2> QED
    BY <2>3, <2>4 DEF Modes
<1>8. CASE Ahead.op = "communities"
  <2>1. PICK found \in Found : todo' = Walks(found)
    BY <1>1, <1>8 DEF Continued
  <2>2. m = "plain" /\ svc = "snmp"
    BY <1>3, <1>8 DEF Fits
  <2>3. ~mounted
    BY <1>8, <2>2 DEF ModeFits
  <2>4. ModeFits("walking")'
    BY <1>1, <2>2, <2>3 DEF ModeFits
  <2>5. Program(todo', svc', "walking", "walking")
    BY <1>1, <2>1, <2>2, WalksScript
  <2> QED
    BY <2>4, <2>5 DEF Modes
<1>9. CASE ~(Ahead.op = "mount" /\ ok(result')) /\ Ahead.op # "communities"
  <2>1. todo' = Tail(todo)
    BY <1>1, <1>9 DEF Continued
  <2>2. CASE Ahead.op \in {"nse", "native", "checked"}
    <3>1. k = m
      BY <1>3, <2>2 DEF Fits
    <3>2. ModeFits(m)'
      <4>1. m \in {"plain", "secret"} => ~mounted
        BY <2>2 DEF ModeFits
      <4> QED
        BY <1>1, <1>5, <1>6, <4>1 DEF ModeFits
    <3> QED
      BY <1>1, <1>3, <2>1, <3>1, <3>2
  <2>3. CASE Ahead.op = "mount"
    <3>1. m = "plain" /\ k = "done"
      BY <1>3, <2>3 DEF Fits
    <3>2. exit # "zero" \/ diskError
      BY <1>1, <1>4, <1>9, <2>3 DEF IInv, ExitInv
    <3>3. ModeFits("done")'
      BY <1>1, <1>2, <2>3, <3>1, <3>2 DEF ModeFits, StillMounted
    <3> QED
      BY <1>1, <1>3, <2>1, <3>1, <3>3
  <2>4. CASE Ahead.op = "umount"
    <3>1. m = "mounted" /\ k = "done"
      BY <1>3, <2>4 DEF Fits
    <3>2. ModeFits("done")'
      BY <1>1, <1>2, <2>4, <3>1 DEF ModeFits, StillMounted
    <3> QED
      BY <1>1, <1>3, <2>1, <3>1, <3>2
  <2> QED
    BY <1>2, <1>9, <2>2, <2>3, <2>4 DEF ToolOps
<1> QED
  BY <1>7, <1>8, <1>9

\* No claim is about a file of the steps left, but for a clash.
LEMMA ReturnKeepsClaims ==
    ASSUME IInv, ToolReturns
    PROVE  ClaimsInv'
<1>1. /\ at = "handler" /\ pc # "idle" /\ svc' = svc
      /\ todo' \in Continued(Ahead, result')
  BY DEF ToolReturns, Return
<1>2. todo # <<>> /\ (out => Ahead.op \notin {"nse", "umount"}) /\ Ahead.op \in ToolOps
  BY <1>1 DEF IInv, CallInv
<1>3. PICK m \in Modes, n \in {"plain", "walking", "done"} : Program(todo, svc, m, n) /\ ModeFits(m)
  BY <1>1, ModeNow
<1>4. PICK k \in Modes : Fits(Ahead, svc, m, k)
  BY <1>2, <1>3, Taken DEF Ahead
<1>5. out => Ahead.file # NoFile
  BY <1>2, <1>4 DEF Fits, ToolOps
<1>6. \A c \in claims' : c.file # NoFile
  BY <1>5, ReturnKeepsEvidence DEF IInv, ClaimsInv
<1>7. ASSUME NEW c \in claims', NEW i \in 1..Len(todo'), c.file = todo'[i].file
      PROVE  Clash(svc, c, todo'[i])
  <2>1. CASE Ahead.op \in {"mount", "communities"} /\ todo' # Tail(todo)
    <3>1. m = "plain" /\ Ahead.file \notin LateFiles
      BY <1>4, <2>1 DEF Fits
    <3>2. c.file \notin LateFiles
      BY <1>3, <3>1, ReturnKeepsEvidence DEF ModeFits
    <3>3. todo'[i].file \in LateFiles \cup {NoFile}
      <4>1. CASE Ahead.op = "mount"
        <5>1. todo' = ListAndUnmount
          BY <1>1, <2>1, <4>1 DEF Continued
        <5> QED
          BY <5>1, ListingScript
      <4>2. CASE Ahead.op = "communities"
        <5>1. PICK found \in Found : todo' = Walks(found)
          BY <1>1, <4>2 DEF Continued
        <5> QED
          BY <5>1, WalksScript
      <4> QED
        BY <2>1, <4>1, <4>2
    <3> QED
      BY <1>6, <1>7, <3>2, <3>3
  <2>2. CASE todo' = Tail(todo)
    <3>1. PICK j \in 1..Len(todo) : todo'[i] = todo[j]
      BY <1>2, <1>3, <1>7, <2>2, Taken
    <3>2. CASE c \in claims
      BY <1>1, <1>7, <3>1, <3>2 DEF IInv, ClaimsInv
    <3>3. CASE c \notin claims
      <4>1. out /\ c.file = Ahead.file /\ c.who = Ahead.who
        BY <3>3, ReturnKeepsEvidence
      <4>2. Clash(svc, Ahead, todo'[i])
        BY <1>2, <1>3, <1>5, <1>7, <2>2, <4>1, Taken DEF Ahead
      <4> QED
        BY <4>1, <4>2 DEF Clash
    <3> QED
      BY <3>2, <3>3
  <2>3. \/ Ahead.op \in {"mount", "communities"} /\ todo' # Tail(todo)
        \/ todo' = Tail(todo)
    BY <1>1 DEF Continued
  <2> QED
    BY <2>1, <2>2, <2>3
<1> QED
  BY <1>1, <1>6, <1>7 DEF ClaimsInv

\* The return: a new claim, a file in its place, the next step or a new list.
LEMMA ToolReturnsStep == IInv /\ ToolReturns => IInv'
<1> SUFFICES ASSUME IInv, ToolReturns PROVE IInv'
  OBVIOUS
<1>1. ExecutorInv' /\ ExitInv'
  BY HandlerStep, ExecutorStep, ExitStep DEF IInv, Next
<1>2. /\ at = "handler" /\ pc' = "idle"
      /\ UNCHANGED <<at, svc, last, secret, mounted>>
  BY DEF ToolReturns, Return
<1>3. PICK m \in Modes, n \in {"plain", "walking", "done"} : Program(todo, svc, m, n) /\ ModeFits(m)
  BY <1>2, ModeNow
<1>4. PICK k \in Modes, l \in {"plain", "walking", "done"} :
             Program(todo', svc', k, l) /\ ModeFits(k)'
  BY <1>3, ReturnGoesOn
<1>5. StepsInv'
  BY <1>2, <1>4, StepsKept DEF IInv, StepsInv
<1>6. HandlerTypes'
  BY <1>2, <1>4 DEF IInv, HandlerTypes, Program
<1>7. CallInv' /\ AroundInv'
  BY <1>2 DEF IInv, CallInv, AroundInv
<1>8. ClaimsInv' /\ SuccessHasEvidence'
  BY ReturnKeepsClaims, ReturnKeepsEvidence
<1> QED
  BY <1>1, <1>2, <1>5, <1>6, <1>7, <1>8 DEF IInv

\* A file the handler writes itself.
LEMMA WriteTextStep == IInv /\ WriteText => IInv'
<1> SUFFICES ASSUME IInv, WriteText PROVE IInv'
  OBVIOUS
<1> DEFINE mine == [file |-> Ahead.file, who |-> Ahead.who]
<1>1. ExecutorInv' /\ ExitInv'
  BY HandlerStep, ExecutorStep, ExitStep DEF IInv, Next
<1>2. /\ at = "handler" /\ pc = "idle" /\ pc' = "idle" /\ todo # <<>> /\ Ahead.op = "write"
      /\ UNCHANGED <<svc, last, secret, mounted, exit, diskError>>
  BY DEF WriteText, Doing, executor
<1>3. PICK m \in Modes, n \in {"plain", "walking", "done"} : Program(todo, svc, m, n) /\ ModeFits(m)
  BY <1>2, ModeNow
<1>4. PICK k \in Modes : Fits(Ahead, svc, m, k) /\ Program(Tail(todo), svc, k, n)
  BY <1>2, <1>3, Taken DEF Ahead
<1>5. m = "plain" /\ k = "plain" /\ Ahead.file # NoFile /\ Ahead.file \notin LateFiles
  BY <1>2, <1>4 DEF Fits
<1>6. secret # "held" /\ ~mounted
  BY <1>2, <1>3, <1>5 DEF ModeFits
<1>7. CASE at' = "raised" /\ UNCHANGED <<todo, files, claims>>
  <2>1. HandlerTypes' /\ StepsInv' /\ ClaimsInv' /\ CallInv' /\ AroundInv'
    BY <1>2, <1>6, <1>7
       DEF IInv, HandlerTypes, StepsInv, ClaimsInv, CallInv, AroundInv
  <2> QED
    BY <1>1, <1>2, <1>7, <2>1 DEF IInv, SuccessHasEvidence
<1>8. CASE /\ files' = Overwritten(Ahead.file) \cup {mine}
           /\ claims' = claims \cup {mine} /\ todo' = Tail(todo) /\ at' = at
  <2>1. ModeFits("plain")'
    BY <1>2, <1>3, <1>5, <1>6, <1>8 DEF ModeFits
  <2>2. StepsInv'
    BY <1>2, <1>4, <1>5, <1>8, <2>1, StepsKept DEF IInv, StepsInv
  <2>3. HandlerTypes'
    BY <1>2, <1>4, <1>8 DEF IInv, HandlerTypes, Program
  <2>4. ASSUME NEW c \in claims', NEW i \in 1..Len(todo'), c.file = todo'[i].file
        PROVE  Clash(svc, c, todo'[i])
    <3>1. PICK j \in 1..Len(todo) : todo'[i] = todo[j]
      BY <1>2, <1>3, <1>8, <2>4, Taken
    <3>2. CASE c \in claims
      BY <1>2, <2>4, <3>1, <3>2 DEF IInv, ClaimsInv
    <3>3. CASE c = mine
      <4>1. Clash(svc, Ahead, todo'[i])
        BY <1>2, <1>3, <1>5, <1>8, <2>4, <3>3, Taken DEF Ahead
      <4> QED
        BY <3>3, <4>1 DEF Clash
    <3> QED
      BY <1>8, <3>2, <3>3
  <2>5. ClaimsInv'
    BY <1>2, <1>5, <1>8, <2>4 DEF IInv, ClaimsInv
  <2>6. CallInv' /\ AroundInv'
    BY <1>2, <1>8 DEF CallInv, AroundInv
  <2>7. ASSUME NEW c \in claims'
        PROVE  \/ c \in files'
               \/ svc' = "snmp" /\ \E d \in Communities \ {c.who} : Safe(d) = Safe(c.who)
    <3>1. CASE c = mine
      BY <1>8, <3>1
    <3>2. CASE c \in claims /\ c.file # Ahead.file
      BY <1>2, <1>8, <3>2 DEF IInv, SuccessHasEvidence, Overwritten
    <3>3. CASE c \in claims /\ c.file = Ahead.file
      <4>1. 1 \in 1..Len(todo) /\ Ahead = todo[1]
        BY <1>2, EmptySeq DEF IInv, HandlerTypes, Ahead
      <4>2. Clash(svc, c, Ahead)
        BY <1>2, <3>3, <4>1 DEF IInv, ClaimsInv
      <4> QED
        BY <1>2, <4>2 DEF Clash
    <3> QED
      BY <1>8, <3>1, <3>2, <3>3
  <2>8. SuccessHasEvidence'
    BY <2>7 DEF SuccessHasEvidence
  <2> QED
    BY <1>1, <1>2, <2>2, <2>3, <2>5, <2>6, <2>8 DEF IInv
<1> QED
  BY <1>7, <1>8 DEF WriteText

\* A step that writes nothing, without a tool: the rest of the list is fit for the
\* mode k it leaves, or the handler has raised.
LEMMA FilelessStep ==
    ASSUME IInv, at = "handler", pc = "idle", todo # <<>>,
           UNCHANGED <<progress, executor, svc, last, mounted, files, claims>>,
           todo' = Tail(todo), at' = at, secret' \in {"none", "held"},
           NEW k \in Modes, NEW n \in {"plain", "walking", "done"},
           NEW m, Program(todo, svc, m, n), Program(Tail(todo), svc, k, n), ModeFits(k)'
    PROVE  IInv'
<1>1. ExecutorInv' /\ ExitInv'
  <2>1. UNCHANGED ExecutorVars
    BY DEF ExecutorVars
  <2> QED
    BY <2>1, ExecutorStep, ExitStep DEF IInv
<1>2. StepsInv'
  BY StepsKept
<1>3. HandlerTypes'
  BY DEF IInv, HandlerTypes, Program
<1>4. ClaimsInv'
  <2>1. \A i \in 1..Len(todo') : \E j \in 1..Len(todo) : todo'[i] = todo[j]
    BY Taken
  <2> QED
    BY <2>1 DEF IInv, ClaimsInv
<1>5. CallInv' /\ AroundInv'
  BY DEF CallInv, AroundInv, executor
<1> QED
  BY <1>1, <1>2, <1>3, <1>4, <1>5 DEF IInv, SuccessHasEvidence

\* The credential file appears, or the handler ends.
LEMMA OpenSecretStep == IInv /\ OpenSecret => IInv'
<1> SUFFICES ASSUME IInv, OpenSecret PROVE IInv'
  OBVIOUS
<1>1. /\ at = "handler" /\ pc = "idle" /\ todo # <<>>
      /\ Ahead.op \in {"secret", "unguarded secret"}
      /\ UNCHANGED <<progress, executor, svc, last, mounted, files, claims>>
  BY DEF OpenSecret, Doing
<1>2. PICK m \in Modes, n \in {"plain", "walking", "done"} : Program(todo, svc, m, n) /\ ModeFits(m)
  BY <1>1, ModeNow
<1>3. PICK k \in Modes : Fits(Ahead, svc, m, k) /\ Program(Tail(todo), svc, k, n)
  BY <1>1, <1>2, Taken DEF Ahead
<1>4. m = "plain" /\ k = "secret" /\ (Ahead.op = "unguarded secret" => svc = "mssql")
  BY <1>1, <1>3 DEF Fits
<1>5. secret # "held" /\ ~mounted /\ \A c \in claims : c.file \notin LateFiles
  BY <1>1, <1>2, <1>4 DEF ModeFits
<1>6. CASE secret' = "held" /\ todo' = Tail(todo) /\ at' = at
  <2>1. ModeFits("secret")'
    BY <1>1, <1>5, <1>6 DEF ModeFits
  <2> QED
    BY <1>1, <1>2, <1>3, <1>4, <1>6, <2>1, FilelessStep
<1>7. CASE /\ at' = "raised" /\ todo' = todo
           /\ \/ secret' = secret
              \/ secret' = "leaked" /\ Ahead.op = "unguarded secret"
              \/ secret' = "stuck"
  <2>1. ExecutorInv' /\ ExitInv'
    BY HandlerStep, ExecutorStep, ExitStep DEF IInv, Next
  <2>2. secret \notin {"leaked", "stuck"}
    BY <1>1 DEF IInv, StepsInv
  <2>3. HandlerTypes' /\ StepsInv' /\ ClaimsInv' /\ CallInv' /\ AroundInv'
    BY <1>1, <1>4, <1>5, <1>7, <2>2
       DEF IInv, HandlerTypes, StepsInv, ClaimsInv, CallInv, AroundInv
  <2> QED
    BY <1>1, <2>1, <2>3 DEF IInv, SuccessHasEvidence
<1> QED
  BY <1>6, <1>7 DEF OpenSecret

\* The credential file goes in the finally, or the handler ends there.
LEMMA DropSecretStep == IInv /\ DropSecret => IInv'
<1> SUFFICES ASSUME IInv, DropSecret PROVE IInv'
  OBVIOUS
<1>1. /\ at = "handler" /\ pc = "idle" /\ todo # <<>> /\ Ahead.op = "drop"
      /\ UNCHANGED <<progress, executor, svc, last, mounted, files, claims>>
  BY DEF DropSecret, Doing
<1>2. PICK m \in Modes, n \in {"plain", "walking", "done"} : Program(todo, svc, m, n) /\ ModeFits(m)
  BY <1>1, ModeNow
<1>3. PICK k \in Modes : Fits(Ahead, svc, m, k) /\ Program(Tail(todo), svc, k, n)
  BY <1>1, <1>2, Taken DEF Ahead
<1>4. m = "secret" /\ k = "plain"
  BY <1>1, <1>3 DEF Fits
<1>5. ~mounted /\ \A c \in claims : c.file \notin LateFiles
  BY <1>1, <1>2, <1>4 DEF ModeFits
<1>6. CASE secret' = "none" /\ todo' = Tail(todo) /\ at' = at
  <2>1. ModeFits("plain")'
    BY <1>1, <1>5, <1>6 DEF ModeFits
  <2> QED
    BY <1>1, <1>2, <1>3, <1>4, <1>6, <2>1, FilelessStep
<1>7. CASE secret' = "stuck" /\ at' = "raised" /\ todo' = todo
  <2>1. ExecutorInv' /\ ExitInv'
    BY HandlerStep, ExecutorStep, ExitStep DEF IInv, Next
  <2>2. HandlerTypes' /\ StepsInv' /\ ClaimsInv' /\ CallInv' /\ AroundInv'
    BY <1>1, <1>5, <1>7 DEF IInv, HandlerTypes, StepsInv, ClaimsInv, CallInv, AroundInv
  <2> QED
    BY <1>1, <2>1, <2>2 DEF IInv, SuccessHasEvidence
<1> QED
  BY <1>6, <1>7 DEF DropSecret

\* The one exception a tool's call ends in goes through the finally.
LEMMA ToolRaisesStep == IInv /\ ToolRaises => IInv'
<1> SUFFICES ASSUME IInv, ToolRaises PROVE IInv'
  OBVIOUS
<1>1. ExecutorInv' /\ ExitInv'
  BY HandlerStep, ExecutorStep, ExitStep DEF IInv, Next
<1>2. /\ at = "handler" /\ pc = "raised" /\ at' = "raised" /\ secret' \in AfterFinally
      /\ files' \in FilesAfter(Ahead)
      /\ UNCHANGED <<pc, diskError, svc, todo, last, mounted, claims>>
  BY DEF ToolRaises, executor
<1>3. secret \notin {"leaked", "stuck"} /\ secret' \in {"none", "stuck"}
  BY <1>2 DEF IInv, StepsInv, HandlerTypes, AfterFinally
<1>4. diskError
  BY <1>2 DEF IInv, ExecutorInv, RaisesOnlyForTheDisk
<1>5. HandlerTypes' /\ StepsInv' /\ ClaimsInv' /\ CallInv' /\ AroundInv'
  BY <1>2, <1>3, <1>4 DEF IInv, HandlerTypes, StepsInv, ClaimsInv, CallInv, AroundInv
<1>6. SuccessHasEvidence'
  <2>1. todo # <<>>
    BY <1>2 DEF IInv, CallInv
  <2> QED
    BY <1>2, <2>1, ClaimsKept DEF SuccessHasEvidence
<1> QED
  BY <1>1, <1>2, <1>5, <1>6 DEF IInv

\* What comes after the handler, or instead of the rest of it.
LEMMA AfterHandlerStep == IInv /\ (Caught \/ HandlerReturns \/ Die) => IInv'
<1> SUFFICES ASSUME IInv, Caught \/ HandlerReturns \/ Die PROVE IInv'
  OBVIOUS
<1>1. ExecutorInv' /\ ExitInv'
  BY HandlerStep, ExecutorStep, ExitStep DEF IInv, Next
<1>2. CASE Caught
  <2>1. HandlerTypes' /\ StepsInv' /\ ClaimsInv' /\ CallInv' /\ AroundInv'
    BY <1>2 DEF Caught, IInv, HandlerTypes, StepsInv, ClaimsInv, CallInv, AroundInv, executor
  <2> QED
    BY <1>1, <1>2, <2>1 DEF Caught, IInv, SuccessHasEvidence
<1>3. CASE HandlerReturns
  <2>1. at = "handler" /\ todo = <<>> /\ at' = "over"
        /\ UNCHANGED <<progress, executor, svc, todo, last, secret, mounted, files, claims>>
    BY <1>3 DEF HandlerReturns
  <2>2. PICK m \in Modes, n \in {"plain", "walking", "done"} :
          Program(todo, svc, m, n) /\ ModeFits(m)
    BY <2>1, ModeNow
  <2>3. m \in {"plain", "walking", "done"}
    <3>1. PICK f \in [1..Len(todo) + 1 -> Modes] : f[1] = m /\ f[Len(todo) + 1] = n
      BY <2>2 DEF Program, Leads
    <3> QED
      BY <2>1, <3>1
  <2>4. secret \notin {"held", "leaked", "stuck"} /\ (mounted => StillMounted)
    BY <1>3, <2>2, <2>3 DEF HandlerReturns, ModeFits, IInv, StepsInv
  <2>5. HandlerTypes' /\ StepsInv' /\ ClaimsInv' /\ CallInv' /\ AroundInv'
    BY <2>1, <2>4 DEF IInv, HandlerTypes, StepsInv, ClaimsInv, CallInv, AroundInv,
                      StillMounted, executor
  <2> QED
    BY <1>1, <2>1, <2>5 DEF IInv, SuccessHasEvidence
<1>4. CASE Die
  <2>1. at' = "dead" /\ secret' # "held"
    BY <1>4 DEF Die
  <2>2. mounted' \in BOOLEAN /\ secret' \in {"none", "held", "leaked", "stuck"}
    BY <1>4 DEF Die, IInv, HandlerTypes
  <2>3. HandlerTypes' /\ StepsInv' /\ ClaimsInv' /\ CallInv' /\ AroundInv'
    BY <1>4, <2>1, <2>2 DEF Die, IInv, HandlerTypes, StepsInv, ClaimsInv, CallInv, AroundInv
  <2> QED
    BY <1>1, <1>4, <2>3 DEF Die, IInv, SuccessHasEvidence
<1> QED
  BY <1>2, <1>3, <1>4

\* Every step of every actor keeps the invariant.
LEMMA NextIInv == IInv /\ [Next]_vars => IInv'
<1> SUFFICES ASSUME IInv, [Next]_vars PROVE IInv'
  OBVIOUS
<1>1. CASE UNCHANGED vars
  <2>1. ExecutorInv' /\ ExitInv'
    BY HandlerStep, ExecutorStep, ExitStep DEF IInv
  <2>2. \A m : ModeFits(m)' <=> ModeFits(m)
    BY <1>1 DEF ModeFits, StillMounted, Ahead, vars, handler_vars, executor
  <2>3. StepsInv'
    BY <1>1, <2>2 DEF IInv, StepsInv, vars, handler_vars
  <2>4. HandlerTypes' /\ ClaimsInv' /\ CallInv' /\ AroundInv'
    BY <1>1 DEF IInv, HandlerTypes, ClaimsInv, CallInv, AroundInv, StillMounted, Ahead, vars,
                handler_vars, executor
  <2> QED
    BY <1>1, <2>1, <2>3, <2>4 DEF IInv, SuccessHasEvidence, vars, handler_vars
<1> QED
  BY <1>1, CallToolStep, ToolRunsStep, SettlesStep, ToolReturnsStep, ToolRaisesStep,
     WriteTextStep, OpenSecretStep, DropSecretStep, AfterHandlerStep DEF Next

\* So the invariant holds of every behaviour.
LEMMA HandlerInvariant == Spec => []IInv
BY InitIInv, NextIInv, PTL DEF Spec

-----------------------------------------------------------------------------
(* The properties of a handler. *)

\* Every variable keeps its type; in particular every step a handler will ever
\* have before it is one of the kinds of step (the functions of
\* src/modules/services/).
THEOREM TypeCorrect == Spec => []TypeOK
<1>1. IInv => TypeOK
  <2> SUFFICES ASSUME IInv PROVE TypeOK
    OBVIOUS
  <2>1. ExecutorTypeOK
    BY DEF IInv, ExecutorInv
  <2>2. \A i \in 1..Len(todo) : todo[i].op \in Ops
    <3>1. todo \in Seq(Steps)
      BY DEF IInv, HandlerTypes
    <3>2. \A i \in 1..Len(todo) : todo[i] \in Steps
      BY <3>1, ElementOfSeq
    <3> QED
      BY <3>2 DEF Steps
  <2> QED
    BY <2>1, <2>2 DEF IInv, HandlerTypes, TypeOK
<1> QED
  BY <1>1, HandlerInvariant, PTL

\* A tool that reads the credential file finds it, and the file outlives the
\* handler only where the process was killed, where enum_mssql writes it ahead of
\* its try, or where the system refused to remove it
\* (src/modules/services/common.py, creds_file, and mssql.py).
THEOREM SecretsSafe == Spec => []SecretsLive
<1>1. IInv => SecretsLive
  <2> SUFFICES ASSUME IInv PROVE SecretsLive
    OBVIOUS
  <2>1. secret = "held" => at = "handler"
    BY DEF IInv, AroundInv
  <2>2. ASSUME at = "handler", pc # "idle", Ahead.reads PROVE secret = "held"
    <3>1. todo # <<>>
      BY <2>2 DEF IInv, CallInv
    <3>2. PICK m \in Modes, n \in {"plain", "walking", "done"} :
            Program(todo, svc, m, n) /\ ModeFits(m)
      BY <2>2, ModeNow
    <3>3. PICK k \in Modes : Fits(Head(todo), svc, m, k)
      BY <3>1, <3>2, Taken
    <3> QED
      BY <2>2, <3>2, <3>3 DEF Fits, ModeFits, Ahead
  <2>3. secret = "leaked" => svc = "mssql" \/ at = "dead"
    BY DEF IInv, AroundInv, StepsInv, HandlerTypes
  <2>4. secret = "stuck" => at # "handler"
    BY DEF IInv, StepsInv
  <2> QED
    BY <2>1, <2>2, <2>3, <2>4 DEF SecretsLive
<1> QED
  BY <1>1, HandlerInvariant, PTL

\* enum_nfs leaves the export mounted in the listed cases alone: a umount that did
\* not do its work, a mount whose success it did not learn of, a disk that refuses
\* a write, or its death (src/modules/services/nfs.py).
THEOREM MountsCorrect == Spec => []MountsAccountedFor
<1>1. IInv => MountsAccountedFor
  BY DEF IInv, AroundInv, StillMounted, MountsAccountedFor
<1> QED
  BY <1>1, HandlerInvariant, PTL

\* No step of a handler writes over, cuts short or loses the file of a success it
\* was told of before, whatever the tools and the disk do, but for two SNMP
\* communities whose names are the same once they are made safe
\* (src/modules/executor.py, run_tool, and src/modules/services/snmp.py).
THEOREM EvidenceOfSuccess == Spec => []SuccessHasEvidence
<1>1. IInv => SuccessHasEvidence
  BY DEF IInv
<1> QED
  BY <1>1, HandlerInvariant, PTL

==============================================================================
