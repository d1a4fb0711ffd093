------------------------------ MODULE Handlers ------------------------------
(***************************************************************************)
(* modules/services/: one service handler, from the dispatcher's call to    *)
(* its return, with run_tool (module Executor) under it and the dispatcher's *)
(* except block around it.  A handler is the list of steps it takes: tools,   *)
(* files it writes itself, the temporary credential file around the tools    *)
(* that read it, the NFS mount.  What an exception or the end of the process *)
(* leaves behind is what the properties are about.                           *)
(***************************************************************************)
EXTENDS Executor, Sequences, FiniteSets

CONSTANTS
    Communities,    \* SNMP community strings a device may answer to
    Public,         \* "public", tried when onesixtyone finds none
    Safe(_),        \* a community as enum_snmp puts it into a file name
    MaxWalks        \* enum_snmp walks that many communities; 5 in the code

ASSUME SnmpAssumption == Public \in Communities /\ MaxWalks \in Nat

VARIABLES
    at,         \* "handler", "raised", "over", "crashed" or "dead"
    svc,        \* the canonical service
    todo,       \* the steps the handler still has to take
    last,       \* the tool it ran last
    secret,     \* the temporary credential file: "none", "held", "leaked" or "stuck"
    mounted,    \* the export is mounted under the phase folder
    files,      \* complete outputs on disk: [file, who]
    claims      \* the calls that returned a success and named a file

handler_vars == <<at, svc, todo, last, secret, mounted, files, claims>>
vars         == <<progress, executor, handler_vars>>

----------------------------------------------------------------------------
(* Steps.  A file is named for a service key and a part; "who" tells two     *)
(* steps apart that may write files of the same name.                        *)

Ops == {"nse", "native", "checked", "communities", "mount", "umount",   \* tools
        "write", "secret", "unguarded secret", "drop"}
ToolOps == {"nse", "native", "checked", "communities", "mount", "umount"}

NoFile == <<"none", "none">>

Step(op, file) == [op |-> op, file |-> file, reads |-> FALSE, who |-> file]
Reading(step)  == [step EXCEPT !.reads = TRUE]

Nse(s)        == <<Step("nse", <<s, "nse">>)>>
Native(s, p)  == <<Step("native", <<s, p>>)>>
Authed(s, p)  == <<Reading(Step("native", <<s, p>>))>>
Checked(s, p) == <<Step("checked", <<s, p>>)>>
Write(s, p)   == <<Step("write", <<s, p>>)>>

\* Here and below, D_<fault> is D with a fault put in, for mutation only.
creds_file_early(head, tail) ==
    <<Step("secret", NoFile)>> \o head \o <<Step("drop", NoFile)>> \o tail

\* "with creds_file(...)": the steps between the two run in its try.
creds_file(head, tail) ==
    <<Step("secret", NoFile)>> \o head \o tail \o <<Step("drop", NoFile)>>

----------------------------------------------------------------------------
(* The handlers: per service, the lists of steps its inputs (credentials, the *)
(* port, a known domain, the tools found, root) can make of it.               *)

enum_dns == {Native("dns", "version"),
             Native("dns", "version") \o Native("dns", "any") \o Native("dns", "axfr")}

enum_ftp == {Nse("ftp") \o listing \o Native("ftp", "cert") :
               listing \in {Native("ftp", "listing"),
                            creds_file(Authed("ftp", "listing"), <<>>)}}

\* An implicit-TLS port or not; the listing wants TLS and credentials.
enum_mailbox(kind) ==
    {Nse(kind) \o Native(kind, "cert"),
     Nse(kind) \o Native(kind, "cert") \o creds_file(Authed(kind, "listing"), <<>>),
     Nse(kind) \o Write(kind, "probe")}

\* The arguments file is written before the try whose finally removes it.
enum_mssql == {Nse("mssql"),
               <<Step("unguarded secret", NoFile)>>
                 \o <<Reading(Step("nse", <<"mssql", "nse">>))>>
                 \o <<Step("drop", NoFile)>>}

\* A user name without a password needs no option file.
enum_mysql == {Nse("mysql"),
               Nse("mysql") \o Native("mysql", "query"),
               Nse("mysql") \o creds_file(Authed("mysql", "query"), <<>>)}

\* As root with mount at hand: the mount point, the mount, and -- when that
\* succeeds -- the listing and the umount.
enum_nfs == {Nse("nfs") \o Native("nfs", "showmount") \o tail :
               tail \in {<<>>, Write("nfs", "mount point")
                                 \o <<Step("mount", <<"nfs", "mount">>)>>}}

enum_oracle    == {Nse("oracle")}
enum_ipmi      == {Nse("ipmi")}
enum_rdp       == {Nse("rdp")}
enum_tftp      == {Nse("tftp")}
enum_rservices == {Nse("rservices")}
enum_rsync     == {Nse("rsync") \o Native("rsync", "modules")}

\* smbclient and rpcclient read the authentication file when there is one:
\* without credentials, or with a line break in one, there is none.
enum_smb ==
    LET argv == Native("smb", "smbmap") \o Native("smb", "enum4linux")
    IN  {Nse("smb") \o Native("smb", "shares") \o Native("smb", "rpcclient") \o argv,
         Nse("smb") \o creds_file(Authed("smb", "shares"), Authed("smb", "rpcclient") \o argv)}

\* STARTTLS ports get the plaintext probe as well.
enum_smtp == {Nse("smtp") \o probe \o Native("smtp", "cert") :
                probe \in {<<>>, Write("smtp", "probe")}}

\* The walks follow once onesixtyone is back.
enum_snmp == {Nse("snmp") \o <<Step("communities", <<"snmp", "onesixtyone">>)>>}

enum_ssh == {Nse("ssh") \o audit \o Write("ssh", "banner") :
               audit \in {<<>>, Checked("ssh", "audit")}}

enum_winrm == {Nse("winrm") \o check : check \in {<<>>, Checked("winrm", "nxc")}}

\* rpcdump's file is named for msrpc, not for the service key.
enum_wmi == {Nse("wmi") \o dump : dump \in {<<>>, Checked("msrpc", "rpcdump")}}

\* The registry @register fills.
HANDLERS ==
    [dns |-> enum_dns, ftp |-> enum_ftp, imap |-> enum_mailbox("imap"),
     ipmi |-> enum_ipmi, mssql |-> enum_mssql, mysql |-> enum_mysql, nfs |-> enum_nfs,
     oracle |-> enum_oracle, pop3 |-> enum_mailbox("pop3"), rdp |-> enum_rdp,
     rservices |-> enum_rservices, rsync |-> enum_rsync, smb |-> enum_smb,
     smtp |-> enum_smtp, snmp |-> enum_snmp, ssh |-> enum_ssh, tftp |-> enum_tftp,
     winrm |-> enum_winrm, wmi |-> enum_wmi]

Init ==
    /\ ExecutorInit
    /\ at = "handler"
    /\ svc \in DOMAIN HANDLERS
    /\ todo \in HANDLERS[svc]
    /\ last = "none"
    /\ secret = "none"
    /\ mounted = FALSE
    /\ files = {}
    /\ claims = {}

----------------------------------------------------------------------------
(* The tool steps: run_tool, and what the tool itself does to the mount.     *)

Ahead == Head(todo)

CallTool ==
    /\ at = "handler" /\ todo # <<>> /\ Ahead.op \in ToolOps
    /\ Call(Ahead.op \notin {"nse", "umount"}, Ahead.op \in {"checked", "mount"})
    /\ last' = Ahead.op
    /\ UNCHANGED <<at, svc, todo, secret, mounted, files, claims>>

\* What "mount" and "umount -f -l" leave: a killed one may have done its work.
Remounted(op, e) ==
    IF op \in {"mount", "umount"}
    THEN CASE e \in {"timeout", "undecodable"} -> BOOLEAN
           [] e = "zero" -> {op = "mount"}
           [] OTHER -> {mounted}
    ELSE {mounted}

ToolRuns ==
    /\ at = "handler"
    /\ ToolEnds
    /\ mounted' \in Remounted(Ahead.op, exit')
    /\ UNCHANGED <<at, svc, todo, last, secret, files, claims>>

RunToolSettles == at = "handler" /\ Settle /\ UNCHANGED handler_vars

Overwritten(file) == {f \in files : f.file # file}

WriteFailed == diskError /\ (exit \in {"zero", "nonzero"} \/ (exit = "timeout" /\ logged))

\* The file a call leaves: whole, or cut short.  A write that fails may have
\* emptied the file of that name already.
FilesAfter(step) ==
    CASE ~out \/ (written = "nothing" /\ ~WriteFailed) -> {files}
      [] out /\ written = "output" -> {Overwritten(step.file) \cup {[file |-> step.file, who |-> step.who]}}
      [] out /\ written = "partial output" -> {Overwritten(step.file)}
      [] OTHER -> {files, Overwritten(step.file)}

Walk(c) == [op |-> "native", file |-> <<"snmp walk", Safe(c)>>, reads |-> FALSE, who |-> c]

\* _parse_communities: what onesixtyone printed, each once, in its order.
Found == UNION {{s \in [1..n -> Communities] : \A i, j \in 1..n : s[i] = s[j] => i = j} :
                  n \in 0..Cardinality(Communities)}

Walks(found) ==
    LET all == IF found = <<>> THEN <<Public>> ELSE found
    IN  [i \in 1..(IF Len(all) < MaxWalks THEN Len(all) ELSE MaxWalks) |-> Walk(all[i])]

ListAndUnmount == Native("nfs", "listing") \o <<Step("umount", NoFile)>>

\* What the handler does next when a tool is back: it goes on whatever the
\* result was, and only the mount's matters.
Continued_stopsAtFailure(step, res) ==
    CASE step.op = "mount" /\ ok(res) -> {ListAndUnmount}
      [] step.op = "communities" -> {Walks(found) : found \in Found}
      [] OTHER -> {IF ok(res) THEN Tail(todo) ELSE <<>>}

Continued(step, res) ==
    CASE step.op = "mount" /\ ok(res) -> {ListAndUnmount}
      [] step.op = "communities" -> {Walks(found) : found \in Found}
      [] OTHER -> {Tail(todo)}

ToolReturns ==
    /\ at = "handler"
    /\ Return
    /\ files' \in FilesAfter(Ahead)
    /\ claims' = IF ok(result') /\ out
                 THEN claims \cup {[file |-> Ahead.file, who |-> Ahead.who]} ELSE claims
    /\ todo' \in Continued(Ahead, result')
    /\ UNCHANGED <<at, svc, last, secret, mounted>>

----------------------------------------------------------------------------
(* The steps without a tool.                                                 *)

Doing(op) ==
    /\ at = "handler" /\ pc = "idle" /\ todo # <<>> /\ Ahead.op = op
    /\ UNCHANGED <<progress, executor, svc, last, mounted>>

\* write_text, and the makedirs of the mount point.
WriteText ==
    /\ Doing("write")
    /\ LET mine == [file |-> Ahead.file, who |-> Ahead.who]
       IN  \/ /\ files' = Overwritten(Ahead.file) \cup {mine}
              /\ claims' = claims \cup {mine}
              /\ todo' = Tail(todo)
              /\ UNCHANGED at
           \/ /\ at' = "raised"
              /\ UNCHANGED <<todo, files, claims>>
    /\ UNCHANGED secret

\* What the finally makes of the file it finds: gone, or still there when the
\* system refuses to remove it, which raises in its turn.
AfterFinally == IF secret = "held" THEN {"none", "stuck"} ELSE {secret}

\* mkstemp and the write of the credentials: either may fail, and the file
\* stays behind when the write is outside the try, or the finally cannot remove
\* it.
OpenSecret ==
    /\ \/ Doing("secret")
       \/ Doing("unguarded secret")
    /\ \/ secret' = "held" /\ todo' = Tail(todo) /\ UNCHANGED at
       \/ at' = "raised" /\ UNCHANGED <<todo, secret>>
       \/ /\ at' = "raised" /\ UNCHANGED todo
          /\ secret' = IF Ahead.op = "unguarded secret" THEN "leaked" ELSE "stuck"
    /\ UNCHANGED <<files, claims>>

\* The finally, when all went well before it.
DropSecret ==
    /\ Doing("drop")
    /\ secret' \in AfterFinally
    /\ \/ secret' = "none" /\ todo' = Tail(todo) /\ UNCHANGED at
       \/ secret' = "stuck" /\ at' = "raised" /\ UNCHANGED todo
    /\ UNCHANGED <<files, claims>>

\* run_tool raises: the handler ends here, through its finally.
ToolRaises ==
    /\ at = "handler" /\ pc = "raised"
    /\ at' = "raised"
    /\ secret' \in AfterFinally
    /\ files' \in FilesAfter(Ahead)
    /\ UNCHANGED <<progress, executor, svc, todo, last, mounted, claims>>

----------------------------------------------------------------------------
(* Around the handler.                                                       *)

\* The dispatcher's except block, whose own line in errors.log may be refused.
Caught ==
    /\ at = "raised"
    /\ at' \in {"over", "crashed"}
    /\ UNCHANGED <<progress, executor, svc, todo, last, secret, mounted,
                   files, claims>>

HandlerReturns ==
    /\ at = "handler" /\ pc = "idle" /\ todo = <<>>
    /\ at' = "over"
    /\ UNCHANGED <<progress, executor, svc, todo, last, secret, mounted,
                   files, claims>>

\* The process is killed: no finally, and a mount under way may still succeed.
Die ==
    /\ at = "handler"
    /\ at' = "dead"
    /\ secret' = IF secret = "held" THEN "leaked" ELSE secret
    /\ mounted' \in IF pc = "running" /\ Ahead.op = "mount" THEN BOOLEAN ELSE {mounted}
    /\ UNCHANGED <<progress, executor, svc, todo, last, files, claims>>

Next ==
    \/ CallTool \/ ToolRuns \/ RunToolSettles \/ ToolReturns \/ ToolRaises
    \/ WriteText \/ OpenSecret \/ DropSecret
    \/ Caught \/ HandlerReturns \/ Die

Spec == Init /\ [][Next]_vars

----------------------------------------------------------------------------
(* Properties. *)

TypeOK ==
    /\ ExecutorTypeOK
    /\ at \in {"handler", "raised", "over", "crashed", "dead"}
    /\ svc \in DOMAIN HANDLERS
    /\ \A i \in 1..Len(todo) : todo[i].op \in Ops
    /\ last \in ToolOps \cup {"none"}
    /\ secret \in {"none", "held", "leaked", "stuck"}
    /\ mounted \in BOOLEAN

\* A call that came back with a success has its complete output on disk from
\* then on, with one exception: two SNMP communities that enum_snmp
\* writes into file names the same way (services/snmp.py:38-42).
SuccessHasEvidence ==
    \A c \in claims :
        \/ c \in files
        \/ svc = "snmp" /\ \E d \in Communities \ {c.who} : Safe(d) = Safe(c.who)

\* Credentials on disk live as long as the tools that read them, and no longer: a
\* tool that reads them finds them, and but for a system that refuses to remove
\* them, which ends the handler there, they are left behind only by a process
\* that was killed or by enum_mssql, which writes them before its try.
SecretsLive ==
    /\ secret = "held" => at = "handler"
    /\ at = "handler" /\ pc # "idle" /\ Ahead.reads => secret = "held"
    /\ secret = "leaked" => svc = "mssql" \/ at = "dead"
    /\ secret = "stuck" => at # "handler"

\* "is unmounted afterwards" (services/nfs.py:6) holds but for a umount that did
\* not do its work, a mount whose success the handler did not learn of, a disk
\* that refuses a write, and the death of the process.
MountsAccountedFor ==
    /\ mounted /\ at = "over" /\ pc # "raised" =>
           \/ last = "umount" /\ exit # "zero"
           \/ last = "mount" /\ (exit # "zero" \/ diskError)
    /\ mounted /\ at \in {"raised", "crashed"} => diskError

=============================================================================
