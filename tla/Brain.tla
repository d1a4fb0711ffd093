-------------------------------- MODULE Brain --------------------------------
(***************************************************************************)
(* brain.py: the life of the runs (one operating-system process each) that  *)
(* were started for the same target and so share /output/<label>/.  Runs    *)
(* interleave freely, and any of them may die at any step: brain.py guards  *)
(* no phase with a try, and a process can be killed.                        *)
(*                                                                          *)
(* Evidence is abstracted to the set of runs that have a file in a raw      *)
(* folder: a file keeps its name from run to run, so a later run may        *)
(* overwrite an earlier one's.  Only what a phase does to the directory is  *)
(* modelled here; NetworkScan and ServiceEnum model the phases themselves.  *)
(***************************************************************************)
EXTENDS Naturals

CONSTANTS
    Runs,       \* the processes started for this label
    NoRun,      \* "no run": not a process
    IsDomain    \* Target.is_domain_target; the label is a domain iff it holds

ASSUME RunsAssumption == NoRun \notin Runs
ASSUME IsDomainAssumption == IsDomain \in BOOLEAN

Domain == {"dns-recon", "web-recon", "osint"}
Raw    == {"network-scan", "service-enum"} \cup Domain

\* The raw folders in the order build_dirs makes them.
BuildOrder == <<"network-scan", "service-enum", "dns-recon", "web-recon", "osint">>

\* The raw folders in the order the cleanup removes them.  Here and below, a
\* definition named D_<fault> is D with a fault put in, for mutation only.
CleanupOrder_osintTwice ==
    <<"network-scan", "service-enum", "dns-recon", "osint", "osint">>

CleanupOrder == <<"network-scan", "service-enum", "dns-recon", "web-recon", "osint">>

VARIABLES
    pc,         \* per run: where main() is
    lock,       \* the run holding flock on .reconbox.lock, or NoRun
    dirs,       \* the raw folders that exist
    evidence,   \* per raw folder: the runs with files in it
    built,      \* per run: how many of the folders its build_dirs has made
    keepRaw,    \* per run: RECONBOX_KEEP_RAW = 1
    enumerated, \* per run: svc_summary["enumerated"] is not empty
    pdfOk,      \* per run: report_summary["pdf_ok"]
    swept,      \* per run: how many folders its cleanup has tried to remove
    stuck,      \* per run: some rmtree(ignore_errors=True) left files behind
    targetInfo, \* the run that wrote meta/target_info.json, or NoRun
    manifest,   \* the run that wrote meta/run_manifest.json, or NoRun
    pdf,        \* the run that wrote report.pdf, or NoRun
    embedded    \* the runs whose evidence report.pdf was built from

shared == <<lock, dirs, evidence, targetInfo, manifest, pdf, embedded>>
local  == <<built, keepRaw, enumerated, pdfOk, swept, stuck>>
vars   == <<pc, shared, local>>

----------------------------------------------------------------------------
(* Where main() can be. *)

Ended   == {"exited", "refused", "done", "dead"}
Outside == {"start", "prepared"} \cup Ended
Inside  == {"locked", "planned", "service-done", "report", "manifest", "cleanup"} \cup Raw
PC      == Outside \cup Inside

\* The state main() is in when it enters the phase that owns folder d.
Preceding == [d \in Raw |->
    CASE d = "network-scan" -> "planned"
      [] d = "service-enum" -> "network-scan"
      [] d = "dns-recon"    -> "service-done"
      [] d = "web-recon"    -> "dns-recon"
      [] d = "osint"        -> "web-recon"]

\* Evidence some file of which is anywhere under the label.
Collected == UNION {evidence[d] : d \in Raw}

Init ==
    /\ pc = [r \in Runs |-> "start"]
    /\ lock = NoRun
    /\ dirs = {}
    /\ evidence = [d \in Raw |-> {}]
    /\ built = [r \in Runs |-> 0]
    /\ keepRaw \in [Runs -> BOOLEAN]
    /\ enumerated = [r \in Runs |-> FALSE]
    /\ pdfOk = [r \in Runs |-> FALSE]
    /\ swept = [r \in Runs |-> 0]
    /\ stuck = [r \in Runs |-> FALSE]
    /\ targetInfo = NoRun
    /\ manifest = NoRun
    /\ pdf = NoRun
    /\ embedded = {}

----------------------------------------------------------------------------
(* The start of main(): everything before the lock is held. *)

\* Wrong usage (exit 1) or an invalid target (exit 2).
RejectTarget(r) ==
    /\ pc[r] = "start" /\ built[r] = 0
    /\ pc' = [pc EXCEPT ![r] = "exited"]
    /\ UNCHANGED <<shared, local>>

\* After check_tools, load_config and resolve_target, one makedirs of build_dirs:
\* the folders are made before the lock is taken.
BuildDir(r) ==
    /\ pc[r] = "start" /\ built[r] < 5
    /\ built' = [built EXCEPT ![r] = @ + 1]
    /\ dirs' = dirs \cup {BuildOrder[built[r] + 1]}
    /\ UNCHANGED <<pc, lock, evidence, targetInfo, manifest, pdf, embedded,
                   keepRaw, enumerated, pdfOk, swept, stuck>>

\* build_dirs returns.
DirsBuilt(r) ==
    /\ pc[r] = "start" /\ built[r] = 5
    /\ pc' = [pc EXCEPT ![r] = "prepared"]
    /\ UNCHANGED <<shared, local>>

AcquireRunLock_unguarded(r) ==
    /\ pc[r] = "prepared"
    /\ lock' = r
    /\ pc' = [pc EXCEPT ![r] = "locked"]
    /\ UNCHANGED <<dirs, evidence, targetInfo, manifest, pdf, embedded, local>>

\* flock(LOCK_EX | LOCK_NB) succeeds.
AcquireRunLock(r) ==
    /\ pc[r] = "prepared"
    /\ lock = NoRun
    /\ lock' = r
    /\ pc' = [pc EXCEPT ![r] = "locked"]
    /\ UNCHANGED <<dirs, evidence, targetInfo, manifest, pdf, embedded, local>>

\* Another run holds the lock: exit 3.
Refuse(r) ==
    /\ pc[r] = "prepared"
    /\ lock # NoRun
    /\ pc' = [pc EXCEPT ![r] = "refused"]
    /\ UNCHANGED <<shared, local>>

WriteTargetInfo_once(r) ==
    /\ pc[r] = "locked"
    /\ targetInfo' = IF targetInfo = NoRun THEN r ELSE targetInfo
    /\ pc' = [pc EXCEPT ![r] = "planned"]
    /\ UNCHANGED <<lock, dirs, evidence, manifest, pdf, embedded, local>>

\* Resolver messages are flushed and target_info.json is written.
WriteTargetInfo(r) ==
    /\ pc[r] = "locked"
    /\ targetInfo' = r
    /\ pc' = [pc EXCEPT ![r] = "planned"]
    /\ UNCHANGED <<lock, dirs, evidence, manifest, pdf, embedded, local>>

----------------------------------------------------------------------------
(* The phases. *)

StartPhase_trustsBuildDirs(r, d) ==
    /\ pc[r] = Preceding[d]
    /\ d \in Domain => IsDomain
    /\ pc' = [pc EXCEPT ![r] = d]
    /\ \E some \in BOOLEAN :
         /\ d # "service-enum" => ~some
         /\ enumerated' = [enumerated EXCEPT ![r] = @ \/ some]
    /\ UNCHANGED <<dirs, lock, evidence, targetInfo, manifest, pdf, embedded,
                   built, keepRaw, pdfOk, swept, stuck>>

\* A phase makes its folder again, whatever build_dirs did.  Pass 1 of
\* service-enum decides here whether anything will be enumerated at all.
StartPhase(r, d) ==
    /\ pc[r] = Preceding[d]
    /\ d \in Domain => IsDomain
    /\ pc' = [pc EXCEPT ![r] = d]
    /\ dirs' = dirs \cup {d}
    /\ \E some \in BOOLEAN :
         /\ d # "service-enum" => ~some
         /\ enumerated' = [enumerated EXCEPT ![r] = @ \/ some]
    /\ UNCHANGED <<lock, evidence, targetInfo, manifest, pdf, embedded,
                   built, keepRaw, pdfOk, swept, stuck>>

\* One tool of the current phase writes its files, over those of the same
\* name.  A service with no enumerator runs no tool.
WriteEvidence(r) ==
    /\ pc[r] \in Raw
    /\ pc[r] = "service-enum" => enumerated[r]
    /\ \E kept \in SUBSET (evidence[pc[r]] \ {r}) :
         evidence' = [evidence EXCEPT ![pc[r]] = kept \cup {r}]
    /\ UNCHANGED <<pc, lock, dirs, targetInfo, manifest, pdf, embedded, local>>

\* rmtree(ignore_errors=True) of the folders in D: those in gone are gone, the
\* others keep what did not let itself be removed, and nobody is told.
RemoveFolders(D, gone) ==
    /\ gone \subseteq D
    /\ dirs' = dirs \ gone
    /\ \E left \in [D \ gone -> SUBSET Runs] :
         evidence' = [d \in Raw |->
            IF d \in gone THEN {}
            ELSE IF d \in D THEN evidence[d] \cap left[d] ELSE evidence[d]]

\* Back from run_service_enum: a phase that enumerated nothing loses its folder.
FinishServiceEnum(r) ==
    /\ pc[r] = "service-enum"
    /\ pc' = [pc EXCEPT ![r] = "service-done"]
    /\ \E gone \in SUBSET {"service-enum"} :
         RemoveFolders(IF enumerated[r] THEN {} ELSE {"service-enum"}, gone)
    /\ UNCHANGED <<lock, targetInfo, manifest, pdf, embedded, local>>

\* IP-only target: the three domain phases are skipped, their folders removed.
SkipDomainPhases(r) ==
    /\ pc[r] = "service-done"
    /\ ~IsDomain
    /\ pc' = [pc EXCEPT ![r] = "report"]
    /\ \E gone \in SUBSET Domain : RemoveFolders(Domain, gone)
    /\ UNCHANGED <<lock, targetInfo, manifest, pdf, embedded, local>>

FinishDomainPhases(r) ==
    /\ pc[r] = "osint"
    /\ pc' = [pc EXCEPT ![r] = "report"]
    /\ UNCHANGED <<shared, local>>

----------------------------------------------------------------------------
(* The report, the manifest and the PDF-only cleanup. *)

\* generate_report never raises: either report.pdf is replaced, or the report
\* of an earlier run stays.  It reads whatever is in the folders.
GenerateReport(r) ==
    /\ pc[r] = "report"
    /\ pc' = [pc EXCEPT ![r] = "manifest"]
    /\ \/ /\ pdfOk' = [pdfOk EXCEPT ![r] = TRUE]
          /\ pdf' = r
          /\ embedded' = Collected
       \/ UNCHANGED <<pdfOk, pdf, embedded>>
    /\ UNCHANGED <<lock, dirs, evidence, targetInfo, manifest,
                   built, keepRaw, enumerated, swept, stuck>>

\* json.dump of the manifest; the cleanup comes next.
WriteManifest(r) ==
    /\ pc[r] = "manifest"
    /\ manifest' = r
    /\ pc' = [pc EXCEPT ![r] = "cleanup"]
    /\ UNCHANGED <<lock, dirs, evidence, targetInfo, pdf, embedded, local>>

PdfOnly_ignoresKeepRaw(r) == pdfOk[r]

\* The condition of brain.py's cleanup.
PdfOnly(r) == pdfOk[r] /\ ~keepRaw[r]

\* One rmtree of the cleanup loop.
RemoveRaw(r) ==
    /\ pc[r] = "cleanup"
    /\ PdfOnly(r)
    /\ swept[r] < 5
    /\ swept' = [swept EXCEPT ![r] = @ + 1]
    /\ LET d == CleanupOrder[swept[r] + 1] IN
       \E gone \in SUBSET {d} :
         /\ RemoveFolders({d}, gone)
         /\ stuck' = [stuck EXCEPT ![r] = @ \/ gone = {}]
    /\ UNCHANGED <<pc, lock, targetInfo, manifest, pdf, embedded,
                   built, keepRaw, enumerated, pdfOk>>

\* The operating system drops the lock of a process that is gone.
Unlock(r) == lock' = IF lock = r THEN NoRun ELSE lock

Finish_onlyWhenClean(r) ==
    /\ pc[r] = "cleanup"
    /\ PdfOnly(r) => swept[r] = 5 /\ ~stuck[r]
    /\ pc' = [pc EXCEPT ![r] = "done"]
    /\ Unlock(r)
    /\ UNCHANGED <<dirs, evidence, targetInfo, manifest, pdf, embedded, local>>

\* main() returns and the process exits.
Finish(r) ==
    /\ pc[r] = "cleanup"
    /\ PdfOnly(r) => swept[r] = 5
    /\ pc' = [pc EXCEPT ![r] = "done"]
    /\ Unlock(r)
    /\ UNCHANGED <<dirs, evidence, targetInfo, manifest, pdf, embedded, local>>

\* An exception main() does not catch, or a signal: what the process knew is
\* gone with it, what it wrote stays.
Die(r) ==
    /\ pc[r] \notin Ended
    /\ pc' = [pc EXCEPT ![r] = "dead"]
    /\ Unlock(r)
    /\ built' = [built EXCEPT ![r] = 0]
    /\ enumerated' = [enumerated EXCEPT ![r] = FALSE]
    /\ pdfOk' = [pdfOk EXCEPT ![r] = FALSE]
    /\ swept' = [swept EXCEPT ![r] = 0]
    /\ stuck' = [stuck EXCEPT ![r] = FALSE]
    /\ UNCHANGED <<dirs, evidence, targetInfo, manifest, pdf, embedded, keepRaw>>

----------------------------------------------------------------------------

\* Every step of main() but the writes of a phase's tools: each brings the run
\* closer to its end.
Advance(r) ==
    \/ RejectTarget(r)
    \/ BuildDir(r)
    \/ DirsBuilt(r)
    \/ AcquireRunLock(r)
    \/ Refuse(r)
    \/ WriteTargetInfo(r)
    \/ \E d \in Raw : StartPhase(r, d)
    \/ FinishServiceEnum(r)
    \/ SkipDomainPhases(r)
    \/ FinishDomainPhases(r)
    \/ GenerateReport(r)
    \/ WriteManifest(r)
    \/ RemoveRaw(r)
    \/ Finish(r)

\* Every run has come to an end.
AllEnded == (\A r \in Runs : pc[r] \in Ended) /\ UNCHANGED vars

Next ==
    \/ \E r \in Runs : Advance(r) \/ WriteEvidence(r) \/ Die(r)
    \/ AllEnded

Spec == Init /\ [][Next]_vars

\* Every tool is run under a timeout, so a process that is not killed keeps
\* moving through main().  Death is never owed.
FairSpec == Spec /\ \A r \in Runs : WF_vars(Advance(r))

----------------------------------------------------------------------------
(* Properties. *)

TypeOK ==
    /\ pc \in [Runs -> PC]
    /\ lock \in Runs \cup {NoRun}
    /\ dirs \in SUBSET Raw
    /\ evidence \in [Raw -> SUBSET Runs]
    /\ built \in [Runs -> 0..5]
    /\ keepRaw \in [Runs -> BOOLEAN]
    /\ enumerated \in [Runs -> BOOLEAN]
    /\ pdfOk \in [Runs -> BOOLEAN]
    /\ swept \in [Runs -> 0..5]
    /\ stuck \in [Runs -> BOOLEAN]
    /\ targetInfo \in Runs \cup {NoRun}
    /\ manifest \in Runs \cup {NoRun}
    /\ pdf \in Runs \cup {NoRun}
    /\ embedded \in SUBSET Runs

\* Two runs are never between the lock and the end of main() together, whoever
\* died while holding it (brain.py:114-122).
OneRunAtATime ==
    \A q, r \in Runs : pc[q] \in Inside /\ pc[r] \in Inside => q = r

\* A phase always finds its folder, although another run may have removed it
\* between this run's build_dirs and its lock.
PhaseHasFolder ==
    \A r \in Runs : pc[r] \in Raw => pc[r] \in dirs

\* A run that owes the directory nothing any more: it died, kept its raw files
\* on purpose, has no PDF, or could not remove them all.
LeftFilesBehind(r) ==
    \/ pc[r] = "dead"
    \/ pc[r] = "done" /\ (~PdfOnly(r) \/ stuck[r])

\* Files in a raw folder belong to the run at work or to one that left its
\* files behind: a run that ended well leaves nothing a later report picks up.
NoOrphanEvidence ==
    \A d \in Raw : \A q \in evidence[d] : pc[q] \in Inside \/ LeftFilesBehind(q)

\* "Write target/meta info first, so even a crash mid-run leaves a trace"
\* (brain.py:133): whatever the owner has collected, target_info.json is its own.
TraceBeforeEvidence ==
    \A r \in Runs : pc[r] \in Inside /\ r \in Collected => targetInfo = r

\* The steps that take nothing of its own from a live run, but for a cleanup
\* after a PDF built from it and a manifest, with RECONBOX_KEEP_RAW unset.
KeepsOwnEvidence ==
    \A r \in Runs, d \in Raw :
      pc[r] \in Inside /\ r \in evidence[d] /\ r \notin evidence'[d] =>
        pdf = r /\ r \in embedded /\ manifest = r /\ ~keepRaw[r]

\* A run loses evidence of its own, while it is alive, only in its cleanup:
\* after a PDF built from that evidence and a manifest of the same run, and
\* never with RECONBOX_KEEP_RAW=1 (brain.py:204-210).
OwnEvidenceKept == [][KeepsOwnEvidence]_vars

\* Every run ends, and so gives its lock back.
Termination == \A r \in Runs : <>(pc[r] \in Ended)

\* The directory, as the runs see it, is the store of module EvidenceStore.
Store == INSTANCE EvidenceStore WITH
    owner <- lock, store <- Collected, published <- pdf

ImplementsStore == Store!Spec

=============================================================================
