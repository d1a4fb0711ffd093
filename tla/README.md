# reconbox in TLA+

TLA+ models of reconbox, TLC instances that check them, and TLAPS proofs about
them. Line references are to the repository's `src/` tree. Every definition is
translated from the code; `PROJECT.json` maps each one to the lines it models.

Run a check with `tlc -config MCBrain_domain.cfg MCBrain`, the proofs with
`tlapm Brain_proofs.tla`.

## 1. The system

One process (`brain.py`) per target runs a fixed sequence of phases. Each phase
runs external tools one after the other through `executor.run_tool`, reads what
they left, and decides what to run next. There are no threads: concurrency is
between whole processes started for the same target, which share
`/output/<label>/`. All state between phases is either in the summary
dictionaries the phases return or in files under that directory.

| Component | State | Operations | Talks to |
|---|---|---|---|
| run lifecycle, `brain.py` | position in `main()`, run lock, folders, `target_info.json`, manifest, PDF | `build_dirs`, `acquire_run_lock`, the phases, PDF-only cleanup | all phases by call; other runs by the directory and `flock` |
| run configuration, `config_wizard.py`, `settings.py` | the configuration dictionary | `load_config`, `_ask`, `_coerce` | environment, terminal; read by the phases |
| resolver, `modules/resolver.py` | none | `resolve_target` | brain; its domain goes to every domain tool |
| network scan, `modules/network_scan.py` | open / filtered / UDP ports, service map, firewall flag, `-Pn` | one nmap per step of a decision tree, evasion loop, chunked sweep | executor, XML parser; its summary feeds service-enum, web-recon, report |
| XML parser, `modules/nmap_xml.py` | none | `parse_scan`, state filters, `extraports` | files nmap left |
| executor, `modules/executor.py` | none between calls | `run_tool`: one tool, three handlers | disk, `errors.log`, progress |
| progress, `modules/progress.py` | module-level counters | `start_phase`, `start_subitem`, `tool_start`, ... | called by brain, service-enum, executor |
| service-enum, `modules/service_enum.py` | work list, services seen | plan (pass 1), run handlers (pass 2) | network summary, handlers |
| handlers, `modules/services/*.py` | files, NFS mount, temporary credential files | lists of tools, writes, mount and umount | executor; files named by port and service |
| web-recon, `modules/web_recon.py`, `cdn.py` | endpoint list | choose, downgrade, cap, probe | network summary, executor |
| dns-recon, osint | nameserver list, candidates, subdomains | queries, transfers, wordlist loop, crt.sh | executor |
| report, severity | findings, port table, HTML and PDF | classify, enrich, rank, build, render, convert | everything on disk; two web services |
| entrypoint, Dockerfile, CI | none | packaging | - |

**What is hard here.** Two runs of one label, one of which makes folders before
it holds the lock; death at any point, since `main()` catches nothing; folders
removed with `ignore_errors=True`; files that keep their names from run to run,
so that stale ones can be read; a decision tree in which each nmap may be
missing, fail, time out or lie about nothing; a sweep cut by integer division;
error handlers that themselves write to the disk, below handlers that hold a
mount or a credential file; deduplication and naming rules in which two things
may collide; external answers in which complaints look like data; a report that
is the only thing left when the evidence has been removed. `PROJECT.json` lists
each of these under `hazards`, at its line, with the properties that watch it.

**What makes each component correct.**

- *run lifecycle*: one run at a time inside the lock; a run's evidence outlives
  everything but its own cleanup; the cleanup follows its own PDF and manifest;
  what a report finds that is not its run's own was left there for a reason; a
  run with evidence is on record; every run ends.
- *run configuration*: each option is the operator's, the environment's or the
  default, in that order, and of the type its reader needs.
- *resolver, dns-recon, osint*: only vetted names reach the tools; what the
  summary says of transfers, candidates and subdomains is so.
- *network scan*: the open ports of the summary are the ports some scan
  reported; no scan gets an empty or a wrong port list or the wrong flags; the
  sweep loses no port silently and stays in its budget.
- *executor and handlers*: failures are logged, successes have their evidence,
  nothing a tool does makes `run_tool` raise, and whatever happens in the middle
  of a handler, credentials and mounts are accounted for.
- *service-enum*: every port is enumerated or has a true reason why not;
  host-wide services run once; a broken handler costs only itself.
- *web-recon*: every web port is probed or accounted for; evidence files are not
  shared; the load on one host is bounded.
- *report*: the port table differs from the counts only where a reason is known;
  evidence is removed only for a report that replaces it; a CVE is listed once,
  not as inferred when a check found it, and none is left out for a lesser one.

## 2. The modules

| Module | Models | Checked by | Proved in |
|---|---|---|---|
| `EvidenceStore` | what the output directory promises (abstract) | through `MCBrain` | `Brain_proofs` |
| `Brain` | `brain.py` for any set of runs | `MCBrain` | `Brain_proofs` |
| `Config` | `load_config`, and how a phase reads an option | `MCConfig`, outside the table of section 3 | `Config_proofs` |
| `NetworkScan` | `run_network_scan`, `_run_evasion`, `nmap_xml` as its callers see it | `MCNetworkScan` | `NetworkScan_proofs` |
| `FullSweep` | `_run_full_sweep` | `MCFullSweep` | `NetworkScan_proofs` |
| `Progress` | `progress.py` counters, extended by the next three | - | - |
| `Executor` | `run_tool`, with `Progress` | through `MCHandlers` | `Handlers_proofs` |
| `Handlers` | the nineteen service handlers over `Executor`, and the dispatcher's `except` around them | `MCHandlers` | `Handlers_proofs` |
| `ServiceEnum` | `run_service_enum`, with `Progress` | `MCServiceEnum` | `ServiceEnum_proofs` |
| `WebRecon` | `run_web_recon` | `MCWebRecon` | `WebRecon_proofs` |
| `Recon` | `resolve_target`, `dns_recon.py`, `osint.py` | `MCRecon` | `Recon_proofs` |
| `Findings` | `classify_network_findings`, `severity.py`, the findings section | `MCFindings` | `Report_proofs` |
| `Lists` | what a loop keeps of a list, as a relation; used by `Findings` and `WebRecon` | - | - |
| `Report` | the port table, the embedding of evidence, HTML, PDF, cleanup | `MCReport` | `Report_proofs` |

Definitions named `D_<fault>` are `D` with a plausible bug put in. Nothing uses
them; substituting one for `D` must break the property `PROJECT.json` pairs it
with, which shows that the property can fail.

### Brain

`pc[r]` is where the `main()` of run `r` is; states named after a raw folder are
the phase that owns it. `lock` is the `flock` holder: the operating system takes
it back from a process that is gone, whatever the way (`Unlock` in `Finish` and
`Die`). `dirs` and `evidence` are the directory: which raw folders exist, and
which runs have a file in each. A phase's tools are abstracted to `WriteEvidence`
(one file written, over any of the same name), because nothing in `brain.py`
depends on which. `built[r]` counts the folders the run's `build_dirs` has made:
it makes them one by one (`BuildDir`), and another run may remove them between two
of them. `StartPhase` includes the `os.makedirs(exist_ok=True)` at the
top of each phase and, for service-enum, the choice whether its pass 1 plans
anything (`enumerated`), which decides at once whether handlers write and whether
the folder is dropped afterwards. `GenerateReport` succeeds or leaves the earlier
`report.pdf`; it never raises. `RemoveFolders(D, gone)` is
`rmtree(ignore_errors=True)` of the folders `D`: any of them may stay, with any
part of its files. `Die` is both an uncaught exception and a signal.

`stuck`, `swept` and `embedded` are the cleanup loop's progress and the evidence
the last PDF was built from: `embedded` and `stuck` only serve the properties.
The report's later life (nobody removes it) and `meta/errors.log` are left out.
A `report.pdf` that WeasyPrint began to write and did not finish counts as the
earlier one being kept.

`EvidenceStore` says: one owner at a time; the owner collects, publishes,
discards and leaves; it discards evidence of its own only once its report is
published. `Brain` implements it with `owner <- lock`, `store <-` the union of
the folders' evidence and `published <- pdf`.

### NetworkScan and FullSweep

One action per numbered step of the code. `Nmap(P, All)` is the outcome of one
`_run_nmap`: how it ended, and what `parse_scan` then returned. A scan that timed
out or failed may have closed its `<host>` element or not, so it may list ports
or nothing. A listing is a set of open ports and a set of ports in one of the
"filtered" states; which ports these are is the environment's choice in every
scan, since hosts and networks change their mind between scans. `seen` is a
history variable: every port a scan of this run has listed as open.

`Leftovers` is a constant: may XML files of an earlier run be in the folder? If
so, an nmap that never opened its `-oA` files is followed by a parse of the old
ones (`network_scan.py:84-85`). The checked instance and three theorems take a
fresh folder (see section 6).

`FullSweep` refines the one step of that name: chunk by chunk, with the division
that cuts the range, the per-chunk timeout, and the record an incomplete sweep
leaves. A chunk that fails or times out may still have listed its ports. `failed`
and `scanned` are history variables: the ranges that failed without a timeout,
which the code does not record as incomplete, and all ranges nmap was started on.

`_ncat_verify` and `_generate_html_reports` decide nothing and are part of
`Evade` and `HtmlReports`.

### Config

Per option: its environment variable, whether the wizard runs, and each answer
in turn. A value is where it comes from and one of four kinds, the ones
`_coerce`, `_is_int` and the readers' `or DEFAULT` tell apart. An answer that is
refused is asked for again, which changes nothing and is no step. `heard` is a
history variable. `used` is the readers' side.

### Progress, Executor, Handlers

`Executor` follows one call of `run_tool` from `tool_start` to the `ToolResult`
and its `tool_end` line; each write to the output file or `errors.log` may be
refused. What happens then depends on where it is: inside the `try` it reaches
`except Exception`, in an `except` block or before the `try` it leaves
`run_tool`. "undecodable" output is output that is not UTF-8, which `text=True`
turns into an exception.

`Handlers` puts the callers on top. A handler is the list of steps its inputs
make of it (`enum_ftp`, `enum_smb`, ...: per service, the set of lists for every
combination of credentials, port, tools found and root), taken one by one;
`Continued` is what depends on a result, the NFS mount and the SNMP communities.
`creds_file` brackets the steps that read the credential file; `enum_mssql`
writes its file outside the `try` and has a step of its own for that. The
actions compose with `Executor`'s: `ToolRuns` is `ToolEnds` plus what the tool
did to the mount, `ToolReturns` is `Return` plus the file it left and the next
step, `ToolRaises` is the exception on its way through the `finally`. The
`finally` itself may fail to remove the credential file, which is then "stuck"
and the handler over (`AfterFinally`, `DropSecret`). `Caught` is the dispatcher's
`except`, whose own line in `errors.log` may be refused; `Die` skips every
`finally`. `claims` is a history variable: the calls that reported success.

### ServiceEnum

`ServiceEnum` takes any port list the network scan could return, in any order it
could have, with any service detected on each, and runs both passes. A handler is
one step: it returns, or it raises into the loop's `except`, which tells the
manifest and writes a line of `errors.log`; where that line is refused, the
refusal ends the phase ("crashed"), as nothing catches it there
(`service_enum.py:86-88`, `98-104`). `raised` and `refused` are history variables.
`SERVICE_ALIASES` and `STANDARD_PORT_MAP` are the constants' `detected` and
`Standard`. What a handler writes, and where, is `Handlers`'.

### WebRecon

A URL is a scheme and a port, 0 when the URL names none. The input is any summary
of the network scan: `open`, its TCP ports in any order, and `service`, nmap's name
for each, by what `_web_targets` looks for in it (`Names`, external). What is
really open on the host is not in the model: a summary may lack ports, and what
web-recon says is judged by the summary it was given. Keys outside TCP and
`net_summary = None` are out: `brain.py` passes neither. `dedupeScheme` keeps an
endpoint when nothing it has kept is of that scheme, which is the loop's `seen`.

### Recon

One action per tool, in the order `main()` reaches them with a domain; a query
whose answer is only kept has no data. `Valid`, `Cloud`, `LowerCase` and `Dotted`
stand for the patterns a name is tested with, or would have to be: the resolver
lets a name with a capital or a trailing dot through, and `osint.py:57` compares
it as it is (`Comparable`). A nameserver line is a name or a complaint of
`dig`; an AXFR answer is how `dig` ended and what it printed. A wordlist is a
sequence of blanks, comments and words, an answer of crt.sh a sequence of entries
classified by what they are to the domain.

### Findings

The script outputs are the input: each names CVEs in an order, and is vulners' or
a check with a state. `ReadVulners` and `ReadCheck` are the loop,
`DropInferred` the filter after it. EPSS is asked in batches; of each batch any
part may be answered, since a request may fail and a row be unreadable; an
unforeseen answer drops everything (`EnrichmentRaises`). Scores are CVSS in tenths
and EPSS in thousandths. `answered` and `catalog` are history variables: the CVEs
whose answer could be read, and whether the KEV catalog came. `Kept` and `Sorted`
are sets with one member, which say what the loop and `list.sort` return instead
of computing it: so the provers can reason about them.

### Report

`Report` composes what the network scan left (the quick, sweep and deep XML
files, each absent, unreadable or listing ports), what the summary counts, one
evidence file of any folder and kind, which can be read or not, and the order of
HTML, PDF and cleanup. Following one file is enough: files do not influence each
other. "part" is a report file that was begun and not finished.

The folder is not taken to be fresh. `quick`, `sweep` and `deep` are what is on
disk when the report is built; `scanned` is how many sweep chunks this run came to
and `deepRan` whether `06_deep_scan.xml` is its own. What lies beyond is an earlier
run's, kept or left by its death: of all scans after an aborted run's first, of the
chunks after one that timed out, of the deep scan when nothing was open or its nmap
left no file. `SweepOpen` is what the chunks on disk have open, `Scanned` what this
run's have. That a scan of this run can itself be read from an earlier run's file
is `NetworkScan`'s `Leftovers`.

## 3. Runs

| Run | Instance | Shows |
|---|---|---|
| `brain_domain` | 2 runs of a domain, symmetric, deaths anywhere; 821k states | all safety of `Brain`, and that it implements `EvidenceStore` |
| `brain_ip` | 2 runs of an IP, `FairSpec`, no symmetry; 328k states | every run ends |
| `full_sweep` | 7 ports in 3 chunks, budget 9; 768 states | chunking, record, budget |
| `network_scan` | 2 TCP ports, 1 UDP port, every privilege, IP version and evasion option; 23k states | the decision tree |
| `handlers` | every handler, 3 SNMP communities of which 2 are walked; 26k states | `run_tool` under its callers, credentials, mounts, evidence |
| `service_enum` | 53/tcp, 139/tcp, 445/tcp, 53/udp; a per-port, a host-wide and an unhandled service; 45k states | dispatch, counters, broken handlers |
| `web_recon` | ports 80, 443, 9000, room for 2 endpoints, any summary; 32k states | endpoint choice |
| `web_recon_raises` | the same | finding 2 |
| `recon` | 5 names, 2 nameservers and a complaint, lists of 2, 4 wordlists, caps 2 and 0; 1.2M states | names, transfers, candidates, subdomains |
| `findings` | 2 CVEs in up to 2 script outputs, one request each, room for 1; 2.0M states | tiers, ranking, truncation |
| `report` | 2 sweep chunks of one port, 1 UDP port, 6 sorts of evidence file, an earlier run's files or none; 16.5M states | table against counts, order, losses |
| `report_lost` | the same | finding 1 |

`MCConfig` (an integer option, a text without a default and one with; 45k states)
is a sanity check of `Config` before its proofs, which cover every list of
options; `PROJECT.json` lists the proofs and not the instance.

**Why the bounds are enough.** Two runs are enough for every pair to race, for
one to meet what another left, and for a third party (the lock) to be handed on;
the proofs cover any number. Three chunks with a remainder give a full, a middle
and a short chunk; the proofs cover any total. Two TCP ports allow one open and
one filtered at every step, and one of each revealed or not. Handlers share
no state, so one at a time suffices, and three communities with a limit of two
give one left out and two that share a file name. Four service ports
allow a duplicate, a pair that shares a number, and a port without a mapping;
longer lists repeat these. Three web ports with a cap of two exceed the cap by
one and let both schemes occur twice. Two lines of nameservers let one overwrite
another's file; wordlists are shorter than, as long as and longer than the cap.
Two CVEs are the least that can be ranked and cut, and each may be in either tier
or both. Two sweep chunks let one be this run's and one an earlier run's. The proofs
cover all sizes.
`MaxLines` and `MaxEntries` (`Recon`), `MaxScripts` (`Findings`) are bounds of
the models alone; `MaxWalks`, `MaxEndpoints`, `TopN`, `BatchSize` are the code's
own limits, smaller.

**Fairness.** `Brain!FairSpec` asks weak fairness of the steps of each run's
`main()`, and nothing of `WriteEvidence` (how many files a tool writes is not
owed) or `Die`. The code justifies it: every tool runs under a timeout
(`executor.py:118-127`), the lock is non-blocking, and headless runs read no
terminal (`brain.py:98-100`). No other module states liveness: they are
straight-line programs and counting loops.

**Deadlock.** `Brain` ends in an explicit self-loop once every run has ended, so
deadlock is checked there. The other instances stop by design when their phase
or call is over.

## 4. What is proved

For every value of the constants allowed by the `ASSUME`s of the modules (named
there, and evaluated by TLC in the runs):

- **`Brain_proofs`**, any set of runs. `TypeCorrect` and the six properties of
  `brain_domain`: `MutualExclusion`, `FolderThere`, `OnlyLeftOvers`,
  `TraceFirst`, `OwnEvidenceSafe` and `StoreImplemented`. None but the types is
  inductive by itself. `LockInv` ties `lock` to the program counters (mutual
  exclusion follows because `lock` is one value).
  `ReachedInv` says a run has files only in folders whose phase it has reached:
  without it `SkipDomainPhases` and `FinishServiceEnum` might remove files of
  their own run. `ReportInv` says that a live run that has its PDF owns
  `report.pdf`, which holds its evidence, and that the manifest is its own during
  the cleanup; `SweepInv` says the cleanup loop has removed what it has passed,
  or is `stuck`. `TraceInv` places `target_info.json`. `IInv` is their
  conjunction. The refinement maps `AcquireRunLock` to `Open`, `WriteEvidence` to
  `Collect`, a successful `GenerateReport` to `Publish`, the three removals to
  `Discard`, `Finish` and `Die` to `Close`, and everything else to a stutter;
  that a removal is a legal `Discard` is `OwnEvidenceSafe`'s step lemma.
- **`NetworkScan_proofs`**, any sets of ports: `TypeCorrect`, `FlagsCorrect`,
  `PortListsCorrect`, and, under the hypothesis `~Leftovers`, `RevealedCorrect`,
  `ServicesCorrect` and `SummaryExact`. `EvadeInv` and `CallInv` say what the
  program counter implies of the port sets and of the last call, which the flags
  and port lists need; `SeenInv` follows the open ports from scan to summary.
  For the sweep, any number of ports, chunks (even zero or negative, as
  `max(1, n)` allows) and any budget: `SweepTypeCorrect`, `NothingSilentlyLost`,
  `NoteCorrect`, `ChunksBounded`, `BudgetKept`. `NoteCorrect` is two-sided: what
  the record calls unscanned is what no nmap was started on. The arithmetic is two lemmas: N
  chunks of ceil(total / N) ports cover the range, and N timeouts of
  floor(budget / N) fit in the budget. The invariant that carries them is that
  the next chunk starts where `idx` full chunks end. `ChunksPartition`: the ranges
  scanned are disjoint and cover the range. `SweepIsOneScan` joins the
  two levels: what the chunks of `FullSweep` found in the end is one of the
  outcomes that `NetworkScan` allows its one sweep (`SweepRefines`), and all the
  open ports if no chunk failed.
- **`Config_proofs`**, any list of options that is `WellFormed` (each asked once,
  integers with integer defaults): `NumbersCorrect`, `PrecedenceCorrect`. The
  invariant says that after the first step each option is `_coerce` of its
  source (answer, environment or default), and that an answer that was taken is
  one `validate` let through.
- **`Handlers_proofs`**, any communities and any way of making them safe for a
  file name. `HandlersUseRunTool`: every step of `Handlers` is a step of
  `ExecutorNext` or leaves `run_tool`'s variables alone, so that
  `Spec => ExecutorSpec`. What `Executor` promises then carries over:
  `FailuresLogged`, `OnlyTheDiskRaises`, `ResultsHaveEvidence`. `Settling` and
  `Leaving` say what each place in `run_tool` knows of the exit, the log and the
  file. The other four, `TypeCorrect`, `SecretsSafe`, `MountsCorrect` and
  `EvidenceOfSuccess`, need to know what is still ahead. A
  handler is in a mode: plain, holding a credential file, holding the mount,
  walking the communities, done. `Fits` says which step may come in which mode,
  and to which it leads (a reader only where the file exists, a "drop" or a
  "umount" out of it). `Program(list, ..)` says that the steps ahead lead from
  the mode the handler is in to the end, and that no evidence file comes twice.
  One lemma for each of the nineteen handlers says that every list it can make is
  a program; `Joined` and `Taken`, that programs can be put together and stepped
  through; `ListingScript` and `WalksScript`, that what depends on a result (the
  mount, the communities) is one too. The invariant is then that the steps ahead
  are a program from the present mode (`StepsInv`), that the mode tells the truth
  about file and mount (`ModeFits`), and that each claim of success has its file,
  which nothing ahead writes again (`ClaimsInv`).
- **`ServiceEnum_proofs`**, any ports, services and order: `TypeCorrect`,
  `HostWidePlannedOnce`, `PortsAccountedFor`, `CountersFit`,
  `BrokenHandlersContained`. The invariant ties `seen` to the work list, accounts for
  every port that pass 1 is through with, relates the sub-item counter to the number
  of handlers called, and the manifest's steps and the lines of `errors.log` to the
  handlers that raised.
- **`Recon_proofs`**, any names, patterns, lists, wordlists, answers and caps:
  `NamesVetted`, `TransfersTold`, `CandidatesCorrect`, `SubdomainsCorrect`, and
  the types. `ZoneInv` says that every AXFR file belongs to a line already asked
  and that a nameserver is listed once: a transfer then finds its own file
  untouched. `LoopInv` says the loop has chosen all the words it has passed.
- **`Report_proofs`**, any split of the ports, any evidence: `TableCorrect`,
  `RemovalJustified`, `LossAccountedFor`. `ContextInv` ties the rendered context
  to the inputs, `OrderInv` the PDF to the HTML and the removal to both. For the
  findings, any CVEs, scores, outputs, batch size and `TopN`: `EachCveListedOnce`
  and `OmissionsJustified`. `TiersInv` says that the three lists together hold
  what the outputs read so far report, the lowest of them nothing twice;
  `AnswersInv`, that the EPSS map has every score above zero of the CVEs whose
  answer could be read and no other, and that the KEV set is the catalog's if it came; `RankInv`, that the list is sorted and the
  report has a beginning of it. That `list.sort` keeps every member follows from
  its being a numbering of the places; that no CVE overtakes one of higher risk,
  from `band` being monotone in the score (`BandMonotone`, `KeyParts`).
- **`WebRecon_proofs`**, any ports and any cap from one on: `LoadBounded`,
  `FilesOfOneEndpoint`, `WebPortsTold`. `TagOfUrl` is the reason that files are not
  shared: the tag of a port's URL spells the port out again, default or not.
  `TargetsInv` says of every web port of the summary why its URL is or is not a target,
  `FilesInv` that a file tells about the port its name spells and that the
  targets passed have theirs. A domain taken for a URL never gets beyond the
  first probe, so that what is said of a finished phase is about ports.

**Assumptions worth knowing.** `ReconAssumption` says that the file names made of
two nameservers differ (`Safe` is one-to-one on host names, which have no
character it replaces) and that dig lists a nameserver once (`NsAnswers`).
`ReportAssumption` says that the sweep's chunks are disjoint, which
`ChunksPartition` shows of `_run_full_sweep`'s ranges. `SnmpAssumption` that
`public` is a community.

`FindingsAssumption` gives the CVEs of one report a finite number, scores the
range of CVSS (or none) and EPSS its own; `MaxEndpointsAssumption` that the cap is
not zero (it is 4): with a cap of zero every host would be said to have no web
port.

**Only model-checked**: `Termination` of `Brain`: liveness under fairness is out of
the prover's reach here. Every other property of a run has a
theorem. That `Kept`, `Sorted` and `dedupeScheme` always have a member, so that the
steps that use them can be taken, is an induction over a list and not proved; on
the instances every run of `MCFindings` and `MCWebRecon` does go on to its last
stage.

## 5. Findings

1. **`report.py:14-16`** promises that everything without a table is embedded in
   full "so nothing is lost when the raw files are deleted", as `README.md:164-166`
   does. `_read` cuts at 20000 characters (`report.py:47-48`), and `main()` then
   removes the only full copy. `NothingLost` is about readable files of the kinds a
   section embeds, so that nothing but the cut can refute it. `LostAccountedFor`
   states what does hold of every file.
2. **`web_recon.py:164-165`**: a hostname that begins with `http` is taken for a
   URL, and `_url_tag` raises `IndexError`, which ends the run.

## 6. Other disagreements met

Not given a run of their own:

- `README.md:151` removes raw folders only after the PDF; `brain.py:170-172`
  removes `service-enum` before the report when this run enumerated nothing, with
  whatever an earlier run kept or left there. A run never loses files of its own
  that way (`OwnEvidenceSafe`).
- `executor.py:103` "Never raises": a refused write in an `except` block, or of
  the missing-tool line, does raise. `RaisesOnlyForTheDisk` states what holds.
- `network_scan.py:76-77` "empty but valid if nmap was missing": with an old XML
  file under the same name it is the old scan. With `Leftovers = TRUE`,
  `OpenPortsExact`, `RevealedWereFiltered` and `ServicesOfListedPorts` fail;
  `FlagsFit` and `PortListsFit` hold, and are proved for both cases.
- `network_scan.py:179` "A port confirmed open anywhere is not filtered": ports
  that evasion reveals are added to `open_ports` and stay in `filtered_ports`
  (270-275).
- `network_scan.py:288-291` records "No filtered ports / firewall signal" also
  when the ACK scan has just detected a firewall and no port is listed one by one.
- `network_scan.py:212` seeds service names "for both confirmed and ambiguous UDP
  ports"; `service_enum.py:45-46` never reads `udp_open_filtered`.
- An aborted network scan leaves XML files from which the report's table may show
  open ports while its counts are zero. An earlier run's files do the same: a run
  that finds nothing open makes no deep scan, and the report reads the
  `06_deep_scan.xml` it finds first (`report.py:77-80`); after a sweep that timed
  out it merges the later chunks of an earlier one (82-87). `TableAccountedFor` lists
  all three.
- `web_recon.py:197` "no open web port" is said of the network scan's summary, also
  when that scan was aborted or lost the range of a sweep chunk the port is in.
- `report.py:44-45`: a file that cannot be read is left out of the report as if it
  were empty, and removed with the rest.
- `service_enum.py:8` "Each canonical service is enumerated once per host" holds
  for the host-wide ones only, as lines 18-22 say; and "we capture each port's
  nuances" (19-21) fails for 53/tcp and 53/udp, which write the same file names
  (`services/common.py:111`). File names are not in `ServiceEnum`.
- `services/snmp.py:5-7` dumps the MIB "for each discovered community": only five
  are walked, and two whose names differ in a replaced character share a file.
- `services/nfs.py:6` "unmounted afterwards" has the exceptions
  `MountsAccountedFor` lists; `services/mssql.py:34` writes its file before the
  `try` that removes it. `os.remove` in a `finally` may fail: the file stays, and the
  handler raises (`SecretsLive`).
- `service_enum.py:86` "a broken handler must not kill the phase": it does when its
  line in `errors.log` is refused, since `_log` (98-104) is called in the `except`.
  `BrokenHandlerContained` states what holds.
- `rpcdump`'s file is keyed `msrpc` while the rest of its service is `wmi`, so the
  report shows them apart (`report.py:398-406`).
- `RECONBOX_SSH_KEY` (`README.md:105`, `README.md:131`) reaches `ctx.creds` and no
  handler reads it. The wizard cannot clear an option the environment has set: a
  blank line keeps it. `RECONBOX_SUBDOMAIN_MAX` that is no integer ends every run
  at import (`settings.py:204`), which the comment at `config_wizard.py:155-157`
  wanted to avoid for the other numbers; as 0 it still tries one candidate.
- `web_recon.py:6-10`: HTTPS on a non-standard port is named `http` by nmap with a
  `tunnel` attribute `parse_scan` drops (`nmap_xml.py:131`), so it is probed in
  the clear.
- `dns_recon.py:108`: dig's error lines are taken for nameservers and asked.
- `osint.py:57` lowers the names of the answer and not the domain: a domain typed
  with a capital keeps nothing, nor does one with the trailing dot the resolver
  accepts (`resolver.py:21-29`), as the names of certificates have none.
- `severity.py:74-78` speaks of findings hidden by default; `DEFAULT_DISPLAY_QOD`
  is never used. An EPSS of 0.0 counts as unknown (143). A report still says it is
  enriched when a batch of EPSS requests was lost. Only the first `State:` of a
  script's output is read, and only four CVEs of a finding are printed
  (`report.py:320`).
- Four kinds of evidence are embedded nowhere: `*.json` of Shodan, crt.sh and
  ffuf, the `ncat` verification, and files whose name begins with an underscore.

## 7. Not modelled

- *text*: redaction, XML recovery, command lines, report layout and template, the
  SMB tables, progress wording. What a decision depends on is modelled as the
  outcome it has.
- *names of evidence files of one port*: which files two ports of one number share
  (`services/common.py:111`) is read off one expression.
- *cdn.py*: a table of address ranges; its answer is an input of `WebRecon`.
- *settings.py*: constants, which are `CONSTANTS` of the modules that use them.
- *container, CI*: packaging. The entrypoint's `TERM` trap is listed as a hazard:
  the shell waits for python before it runs it.
- *the manifest's copy of the configuration*: a copy.

## 8. Plan

Done: the modules of section 2 and a theorem for every safety property of a run.
What is left, most important first:

1. `NetworkScan`'s summary handed to `ServiceEnum`, `WebRecon` and `Report` in one
   module; today each takes any summary the network scan could return.
2. `NetworkScan` with `Leftovers = TRUE`: what still holds beside stale files.
3. `Handlers` under `ServiceEnum`'s loop: today the dispatcher sees a handler as
   one step, and `Handlers` follows one handler.
