----------------------------- MODULE Brain_proofs -----------------------------
(***************************************************************************)
(* What holds of brain.py for any set of runs: types, the mutual exclusion  *)
(* of the run lock, and what a run may count on about its own evidence.     *)
(***************************************************************************)
EXTENDS Brain, TLAPS

\* The lock is held by the run that is between AcquireRunLock and its end.
LockInv == \A r \in Runs : pc[r] \in Inside <=> lock = r

\* The states from which a run may already have files in folder d.
Since == [d \in Raw |->
    CASE d = "network-scan" -> Inside \ {"locked", "planned"}
      [] d = "service-enum" -> Inside \ {"locked", "planned", "network-scan"}
      [] d = "dns-recon"    -> Domain \cup {"report", "manifest", "cleanup"}
      [] d = "web-recon"    -> {"web-recon", "osint", "report", "manifest", "cleanup"}
      [] d = "osint"        -> {"osint", "report", "manifest", "cleanup"}]

\* A run has files only in folders whose phase it has reached, and in the one
\* of service-enum only if it enumerates something.
ReachedInv ==
    \A r \in Runs, d \in Raw : r \in evidence[d] =>
        /\ pc[r] \in Since[d] \cup {"done", "dead"}
        /\ d = "service-enum" /\ pc[r] = "service-enum" => enumerated[r]

\* A run that has its PDF is past the report, and the PDF is its own and made
\* from its own evidence as long as the run is alive.
ReportInv ==
    \A r \in Runs :
        /\ pdfOk[r] => pc[r] \in {"manifest", "cleanup", "done"}
        /\ pdfOk[r] /\ pc[r] \in Inside =>
             pdf = r /\ \A d \in Raw : r \in evidence[d] => r \in embedded
        /\ pc[r] = "cleanup" => manifest = r

\* How far the cleanup is, and that it forgets nothing it did not get stuck on.
SweepInv ==
    \A r \in Runs :
        /\ pc[r] \notin {"cleanup", "done"} => swept[r] = 0
        /\ pc[r] = "cleanup" /\ ~stuck[r] =>
             \A i \in 1..5 : i <= swept[r] => r \notin evidence[CleanupOrder[i]]
        /\ pc[r] = "done" /\ ~LeftFilesBehind(r) => \A d \in Raw : r \notin evidence[d]

\* The owner wrote target_info.json before it collected anything.
TraceInv == \A r \in Runs : pc[r] \in Inside \ {"locked"} => targetInfo = r

\* Removing folders makes no folder and no evidence.
LEMMA RemovalOnlyRemoves ==
  ASSUME TypeOK, NEW D, NEW gone, RemoveFolders(D, gone)
  PROVE  /\ dirs' \in SUBSET Raw
         /\ evidence' \in [Raw -> SUBSET Runs]
         /\ \A d \in Raw : evidence'[d] \subseteq evidence[d]
<1>1. PICK left \in [D \ gone -> SUBSET Runs] :
        evidence' = [d \in Raw |->
            IF d \in gone THEN {}
            ELSE IF d \in D THEN evidence[d] \cap left[d] ELSE evidence[d]]
  BY DEF RemoveFolders
<1>2. \A d \in Raw : evidence'[d] \subseteq evidence[d]
  BY <1>1
<1>3. evidence' \in [Raw -> SUBSET Runs]
  BY <1>1 DEF TypeOK
<1> QED
  BY <1>2, <1>3 DEF RemoveFolders, TypeOK

-----------------------------------------------------------------------------
(* Types. *)

LEMMA TypeInit == Init => TypeOK
BY RunsAssumption DEF Init, TypeOK, PC, Outside

LEMMA TypeStep == TypeOK /\ [Next]_vars => TypeOK'
<1> SUFFICES ASSUME TypeOK, [Next]_vars PROVE TypeOK'
  OBVIOUS
<1> USE DEF TypeOK, PC, Outside, Inside, Ended, Raw, Domain
<1>1. ASSUME NEW r \in Runs, RejectTarget(r) PROVE TypeOK'
  BY <1>1 DEF RejectTarget, shared, local
<1>2. ASSUME NEW r \in Runs, BuildDir(r) \/ DirsBuilt(r) PROVE TypeOK'
  <2>1. CASE BuildDir(r)
    <3>1. built[r] \in 0..4 /\ built' = [built EXCEPT ![r] = @ + 1]
      BY <2>1 DEF BuildDir
    <3>2. built' \in [Runs -> 0..5]
      BY <3>1
    <3>3. BuildOrder[built[r] + 1] \in Raw
      <4>1. \/ built[r] = 0 \/ built[r] = 1 \/ built[r] = 2 \/ built[r] = 3 \/ built[r] = 4
        BY <3>1
      <4> QED
        BY <4>1 DEF BuildOrder
    <3> QED
      BY <2>1, <3>2, <3>3 DEF BuildDir
  <2>2. CASE DirsBuilt(r)
    BY <2>2 DEF DirsBuilt, shared, local
  <2> QED
    BY <1>2, <2>1, <2>2
<1>3. ASSUME NEW r \in Runs, AcquireRunLock(r) PROVE TypeOK'
  BY <1>3 DEF AcquireRunLock, local
<1>4. ASSUME NEW r \in Runs, Refuse(r) PROVE TypeOK'
  BY <1>4 DEF Refuse, shared, local
<1>5. ASSUME NEW r \in Runs, WriteTargetInfo(r) PROVE TypeOK'
  BY <1>5 DEF WriteTargetInfo, local
<1>6. ASSUME NEW r \in Runs, NEW d \in Raw, StartPhase(r, d) PROVE TypeOK'
  BY <1>6 DEF StartPhase
<1>7. ASSUME NEW r \in Runs, WriteEvidence(r) PROVE TypeOK'
  BY <1>7 DEF WriteEvidence, local
<1>8. ASSUME NEW r \in Runs, FinishServiceEnum(r) PROVE TypeOK'
  BY <1>8 DEF FinishServiceEnum, RemoveFolders, local
<1>9. ASSUME NEW r \in Runs, SkipDomainPhases(r) PROVE TypeOK'
  BY <1>9 DEF SkipDomainPhases, RemoveFolders, local
<1>10. ASSUME NEW r \in Runs, FinishDomainPhases(r) PROVE TypeOK'
  BY <1>10 DEF FinishDomainPhases, shared, local
<1>11. ASSUME NEW r \in Runs, GenerateReport(r) PROVE TypeOK'
  <2>1. Collected \in SUBSET Runs
    BY DEF Collected
  <2> QED
    BY <1>11, <2>1 DEF GenerateReport
<1>12. ASSUME NEW r \in Runs, WriteManifest(r) PROVE TypeOK'
  BY <1>12 DEF WriteManifest, local
<1>13. ASSUME NEW r \in Runs, RemoveRaw(r) PROVE TypeOK'
  <2>1. swept' \in [Runs -> 0..5]
    BY <1>13 DEF RemoveRaw
  <2>2. stuck' \in [Runs -> BOOLEAN]
    BY <1>13 DEF RemoveRaw
  <2>3. dirs' \in SUBSET Raw /\ evidence' \in [Raw -> SUBSET Runs]
    BY <1>13, RemovalOnlyRemoves DEF RemoveRaw
  <2> QED
    BY <1>13, <2>1, <2>2, <2>3 DEF RemoveRaw
<1>14. ASSUME NEW r \in Runs, Finish(r) PROVE TypeOK'
  BY <1>14 DEF Finish, Unlock, local
<1>15. ASSUME NEW r \in Runs, Die(r) PROVE TypeOK'
  BY <1>15 DEF Die, Unlock
<1>16. CASE UNCHANGED vars
  BY <1>16 DEF vars, shared, local
<1> QED
  BY <1>1, <1>2, <1>3, <1>4, <1>5, <1>6, <1>7, <1>8, <1>9, <1>10, <1>11,
     <1>12, <1>13, <1>14, <1>15, <1>16 DEF Next, Advance, AllEnded

-----------------------------------------------------------------------------
(* The lock. *)

LEMMA LockInit == Init => LockInv
BY RunsAssumption DEF Init, LockInv, Inside, Raw, Domain

LEMMA LockStep == TypeOK /\ LockInv /\ [Next]_vars => LockInv'
<1> SUFFICES ASSUME TypeOK, LockInv, [Next]_vars PROVE LockInv'
  OBVIOUS
<1> USE DEF TypeOK, PC, Outside, Inside, Ended, Raw, Domain, LockInv
<1>1. ASSUME NEW r \in Runs, RejectTarget(r) PROVE LockInv'
  BY <1>1 DEF RejectTarget, shared, local
<1>2. ASSUME NEW r \in Runs, BuildDir(r) \/ DirsBuilt(r) PROVE LockInv'
  BY <1>2 DEF BuildDir, DirsBuilt, shared, local
<1>3. ASSUME NEW r \in Runs, AcquireRunLock(r) PROVE LockInv'
  BY <1>3, RunsAssumption DEF AcquireRunLock, local
<1>4. ASSUME NEW r \in Runs, Refuse(r) PROVE LockInv'
  BY <1>4 DEF Refuse, shared, local
<1>5. ASSUME NEW r \in Runs, WriteTargetInfo(r) PROVE LockInv'
  BY <1>5 DEF WriteTargetInfo, local
<1>6. ASSUME NEW r \in Runs, NEW d \in Raw, StartPhase(r, d) PROVE LockInv'
  BY <1>6 DEF StartPhase, Preceding
<1>7. ASSUME NEW r \in Runs, WriteEvidence(r) PROVE LockInv'
  BY <1>7 DEF WriteEvidence, local
<1>8. ASSUME NEW r \in Runs, FinishServiceEnum(r) PROVE LockInv'
  BY <1>8 DEF FinishServiceEnum, RemoveFolders, local
<1>9. ASSUME NEW r \in Runs, SkipDomainPhases(r) PROVE LockInv'
  BY <1>9 DEF SkipDomainPhases, RemoveFolders, local
<1>10. ASSUME NEW r \in Runs, FinishDomainPhases(r) PROVE LockInv'
  BY <1>10 DEF FinishDomainPhases, shared, local
<1>11. ASSUME NEW r \in Runs, GenerateReport(r) PROVE LockInv'
  BY <1>11 DEF GenerateReport
<1>12. ASSUME NEW r \in Runs, WriteManifest(r) PROVE LockInv'
  BY <1>12 DEF WriteManifest, local
<1>13. ASSUME NEW r \in Runs, RemoveRaw(r) PROVE LockInv'
  BY <1>13 DEF RemoveRaw, RemoveFolders
<1>14. ASSUME NEW r \in Runs, Finish(r) PROVE LockInv'
  BY <1>14, RunsAssumption DEF Finish, Unlock, local
<1>15. ASSUME NEW r \in Runs, Die(r) PROVE LockInv'
  BY <1>15, RunsAssumption DEF Die, Unlock
<1>16. CASE UNCHANGED vars
  BY <1>16 DEF vars, shared, local
<1> QED
  BY <1>1, <1>2, <1>3, <1>4, <1>5, <1>6, <1>7, <1>8, <1>9, <1>10, <1>11,
     <1>12, <1>13, <1>14, <1>15, <1>16 DEF Next, Advance, AllEnded

-----------------------------------------------------------------------------
(* The target_info.json of the run at work. *)

LEMMA TraceInit == Init => TraceInv
BY DEF Init, TraceInv, Inside, Raw, Domain

LEMMA TraceStep == TypeOK /\ LockInv /\ TraceInv /\ [Next]_vars => TraceInv'
<1> SUFFICES ASSUME TypeOK, LockInv, TraceInv, [Next]_vars PROVE TraceInv'
  OBVIOUS
<1> USE DEF TypeOK, PC, Outside, Inside, Ended, Raw, Domain, TraceInv
<1>1. ASSUME NEW r \in Runs, RejectTarget(r) PROVE TraceInv'
  BY <1>1 DEF RejectTarget, shared, local
<1>2. ASSUME NEW r \in Runs, BuildDir(r) \/ DirsBuilt(r) PROVE TraceInv'
  BY <1>2 DEF BuildDir, DirsBuilt, shared, local
<1>3. ASSUME NEW r \in Runs, AcquireRunLock(r) PROVE TraceInv'
  BY <1>3 DEF AcquireRunLock, local
<1>4. ASSUME NEW r \in Runs, Refuse(r) PROVE TraceInv'
  BY <1>4 DEF Refuse, shared, local
<1>5. ASSUME NEW r \in Runs, WriteTargetInfo(r) PROVE TraceInv'
  BY <1>5 DEF WriteTargetInfo, local, LockInv
<1>6. ASSUME NEW r \in Runs, NEW d \in Raw, StartPhase(r, d) PROVE TraceInv'
  BY <1>6 DEF StartPhase, Preceding
<1>7. ASSUME NEW r \in Runs, WriteEvidence(r) PROVE TraceInv'
  BY <1>7 DEF WriteEvidence, local
<1>8. ASSUME NEW r \in Runs, FinishServiceEnum(r) PROVE TraceInv'
  BY <1>8 DEF FinishServiceEnum, RemoveFolders, local
<1>9. ASSUME NEW r \in Runs, SkipDomainPhases(r) PROVE TraceInv'
  BY <1>9 DEF SkipDomainPhases, RemoveFolders, local
<1>10. ASSUME NEW r \in Runs, FinishDomainPhases(r) PROVE TraceInv'
  BY <1>10 DEF FinishDomainPhases, shared, local
<1>11. ASSUME NEW r \in Runs, GenerateReport(r) PROVE TraceInv'
  BY <1>11 DEF GenerateReport
<1>12. ASSUME NEW r \in Runs, WriteManifest(r) PROVE TraceInv'
  BY <1>12 DEF WriteManifest, local
<1>13. ASSUME NEW r \in Runs, RemoveRaw(r) PROVE TraceInv'
  BY <1>13 DEF RemoveRaw, RemoveFolders
<1>14. ASSUME NEW r \in Runs, Finish(r) PROVE TraceInv'
  BY <1>14 DEF Finish, Unlock, local
<1>15. ASSUME NEW r \in Runs, Die(r) PROVE TraceInv'
  BY <1>15 DEF Die, Unlock
<1>16. CASE UNCHANGED vars
  BY <1>16 DEF vars, shared, local
<1> QED
  BY <1>1, <1>2, <1>3, <1>4, <1>5, <1>6, <1>7, <1>8, <1>9, <1>10, <1>11,
     <1>12, <1>13, <1>14, <1>15, <1>16 DEF Next, Advance, AllEnded

-----------------------------------------------------------------------------
(* Files are only where their run has been. *)

LEMMA ReachedInit == Init => ReachedInv
BY DEF Init, ReachedInv

LEMMA ReachedStep == TypeOK /\ ReachedInv /\ [Next]_vars => ReachedInv'
<1> SUFFICES ASSUME TypeOK, ReachedInv, [Next]_vars PROVE ReachedInv'
  OBVIOUS
<1> USE DEF TypeOK, PC, Outside, Inside, Ended, Raw, Domain, ReachedInv, Since
<1>1. ASSUME NEW r \in Runs, RejectTarget(r) PROVE ReachedInv'
  BY <1>1 DEF RejectTarget, shared, local
<1>2. ASSUME NEW r \in Runs, BuildDir(r) \/ DirsBuilt(r) PROVE ReachedInv'
  BY <1>2 DEF BuildDir, DirsBuilt, shared, local
<1>3. ASSUME NEW r \in Runs, AcquireRunLock(r) PROVE ReachedInv'
  BY <1>3 DEF AcquireRunLock, local
<1>4. ASSUME NEW r \in Runs, Refuse(r) PROVE ReachedInv'
  BY <1>4 DEF Refuse, shared, local
<1>5. ASSUME NEW r \in Runs, WriteTargetInfo(r) PROVE ReachedInv'
  BY <1>5 DEF WriteTargetInfo, local
<1>6. ASSUME NEW r \in Runs, NEW d \in Raw, StartPhase(r, d) PROVE ReachedInv'
  BY <1>6 DEF StartPhase, Preceding
<1>7. ASSUME NEW r \in Runs, WriteEvidence(r) PROVE ReachedInv'
  BY <1>7 DEF WriteEvidence, local
<1>8. ASSUME NEW r \in Runs, FinishServiceEnum(r) PROVE ReachedInv'
  BY <1>8 DEF FinishServiceEnum, RemoveFolders, local
<1>9. ASSUME NEW r \in Runs, SkipDomainPhases(r) PROVE ReachedInv'
  BY <1>9 DEF SkipDomainPhases, RemoveFolders, local
<1>10. ASSUME NEW r \in Runs, FinishDomainPhases(r) PROVE ReachedInv'
  BY <1>10 DEF FinishDomainPhases, shared, local
<1>11. ASSUME NEW r \in Runs, GenerateReport(r) PROVE ReachedInv'
  BY <1>11 DEF GenerateReport
<1>12. ASSUME NEW r \in Runs, WriteManifest(r) PROVE ReachedInv'
  BY <1>12 DEF WriteManifest, local
<1>13. ASSUME NEW r \in Runs, RemoveRaw(r) PROVE ReachedInv'
  BY <1>13 DEF RemoveRaw, RemoveFolders
<1>14. ASSUME NEW r \in Runs, Finish(r) PROVE ReachedInv'
  BY <1>14 DEF Finish, Unlock, local
<1>15. ASSUME NEW r \in Runs, Die(r) PROVE ReachedInv'
  BY <1>15 DEF Die, Unlock
<1>16. CASE UNCHANGED vars
  BY <1>16 DEF vars, shared, local
<1> QED
  BY <1>1, <1>2, <1>3, <1>4, <1>5, <1>6, <1>7, <1>8, <1>9, <1>10, <1>11,
     <1>12, <1>13, <1>14, <1>15, <1>16 DEF Next, Advance, AllEnded

-----------------------------------------------------------------------------
(* The report and the cleanup. *)

LEMMA ReportInit == Init => ReportInv
BY DEF Init, ReportInv, Inside, Raw, Domain

LEMMA ReportStep == TypeOK /\ LockInv /\ ReportInv /\ [Next]_vars => ReportInv'
<1> SUFFICES ASSUME TypeOK, LockInv, ReportInv, [Next]_vars PROVE ReportInv'
  OBVIOUS
<1> USE DEF TypeOK, PC, Outside, Inside, Ended, Raw, Domain, ReportInv
<1>1. ASSUME NEW r \in Runs, RejectTarget(r) PROVE ReportInv'
  BY <1>1 DEF RejectTarget, shared, local
<1>2. ASSUME NEW r \in Runs, BuildDir(r) \/ DirsBuilt(r) PROVE ReportInv'
  BY <1>2 DEF BuildDir, DirsBuilt, shared, local
<1>3. ASSUME NEW r \in Runs, AcquireRunLock(r) PROVE ReportInv'
  BY <1>3 DEF AcquireRunLock, local
<1>4. ASSUME NEW r \in Runs, Refuse(r) PROVE ReportInv'
  BY <1>4 DEF Refuse, shared, local
<1>5. ASSUME NEW r \in Runs, WriteTargetInfo(r) PROVE ReportInv'
  BY <1>5 DEF WriteTargetInfo, local
<1>6. ASSUME NEW r \in Runs, NEW d \in Raw, StartPhase(r, d) PROVE ReportInv'
  BY <1>6 DEF StartPhase, Preceding
<1>7. ASSUME NEW r \in Runs, WriteEvidence(r) PROVE ReportInv'
  BY <1>7 DEF WriteEvidence, local
<1>8. ASSUME NEW r \in Runs, FinishServiceEnum(r) PROVE ReportInv'
  BY <1>8 DEF FinishServiceEnum, RemoveFolders, local
<1>9. ASSUME NEW r \in Runs, SkipDomainPhases(r) PROVE ReportInv'
  BY <1>9 DEF SkipDomainPhases, RemoveFolders, local
<1>10. ASSUME NEW r \in Runs, FinishDomainPhases(r) PROVE ReportInv'
  BY <1>10 DEF FinishDomainPhases, shared, local
<1>11. ASSUME NEW r \in Runs, GenerateReport(r) PROVE ReportInv'
  BY <1>11 DEF GenerateReport, LockInv, Collected
<1>12. ASSUME NEW r \in Runs, WriteManifest(r) PROVE ReportInv'
  BY <1>12 DEF WriteManifest, LockInv, local
<1>13. ASSUME NEW r \in Runs, RemoveRaw(r) PROVE ReportInv'
  BY <1>13 DEF RemoveRaw, RemoveFolders
<1>14. ASSUME NEW r \in Runs, Finish(r) PROVE ReportInv'
  BY <1>14 DEF Finish, Unlock, local
<1>15. ASSUME NEW r \in Runs, Die(r) PROVE ReportInv'
  BY <1>15 DEF Die, Unlock
<1>16. CASE UNCHANGED vars
  BY <1>16 DEF vars, shared, local
<1> QED
  BY <1>1, <1>2, <1>3, <1>4, <1>5, <1>6, <1>7, <1>8, <1>9, <1>10, <1>11,
     <1>12, <1>13, <1>14, <1>15, <1>16 DEF Next, Advance, AllEnded

LEMMA SweepInit == Init => SweepInv
BY DEF Init, SweepInv, Raw, Domain

LEMMA SweepStep == TypeOK /\ SweepInv /\ [Next]_vars => SweepInv'
<1> SUFFICES ASSUME TypeOK, SweepInv, [Next]_vars PROVE SweepInv'
  OBVIOUS
<1> USE DEF TypeOK, PC, Outside, Inside, Ended, Raw, Domain, SweepInv, LeftFilesBehind, PdfOnly, CleanupOrder
<1>1. ASSUME NEW r \in Runs, RejectTarget(r) PROVE SweepInv'
  BY <1>1 DEF RejectTarget, shared, local
<1>2. ASSUME NEW r \in Runs, BuildDir(r) \/ DirsBuilt(r) PROVE SweepInv'
  BY <1>2 DEF BuildDir, DirsBuilt, shared, local
<1>3. ASSUME NEW r \in Runs, AcquireRunLock(r) PROVE SweepInv'
  BY <1>3 DEF AcquireRunLock, local
<1>4. ASSUME NEW r \in Runs, Refuse(r) PROVE SweepInv'
  BY <1>4 DEF Refuse, shared, local
<1>5. ASSUME NEW r \in Runs, WriteTargetInfo(r) PROVE SweepInv'
  BY <1>5 DEF WriteTargetInfo, local
<1>6. ASSUME NEW r \in Runs, NEW d \in Raw, StartPhase(r, d) PROVE SweepInv'
  BY <1>6 DEF StartPhase, Preceding
<1>7. ASSUME NEW r \in Runs, WriteEvidence(r) PROVE SweepInv'
  BY <1>7 DEF WriteEvidence, local
<1>8. ASSUME NEW r \in Runs, FinishServiceEnum(r) PROVE SweepInv'
  BY <1>8 DEF FinishServiceEnum, RemoveFolders, local
<1>9. ASSUME NEW r \in Runs, SkipDomainPhases(r) PROVE SweepInv'
  BY <1>9 DEF SkipDomainPhases, RemoveFolders, local
<1>10. ASSUME NEW r \in Runs, FinishDomainPhases(r) PROVE SweepInv'
  BY <1>10 DEF FinishDomainPhases, shared, local
<1>11. ASSUME NEW r \in Runs, GenerateReport(r) PROVE SweepInv'
  BY <1>11 DEF GenerateReport
<1>12. ASSUME NEW r \in Runs, WriteManifest(r) PROVE SweepInv'
  BY <1>12 DEF WriteManifest, local
<1>13. ASSUME NEW r \in Runs, RemoveRaw(r) PROVE SweepInv'
  BY <1>13 DEF RemoveRaw, RemoveFolders
<1>14. ASSUME NEW r \in Runs, Finish(r) PROVE SweepInv'
  BY <1>14 DEF Finish, Unlock, local
<1>15. ASSUME NEW r \in Runs, Die(r) PROVE SweepInv'
  BY <1>15 DEF Die, Unlock
<1>16. CASE UNCHANGED vars
  BY <1>16 DEF vars, shared, local
<1> QED
  BY <1>1, <1>2, <1>3, <1>4, <1>5, <1>6, <1>7, <1>8, <1>9, <1>10, <1>11,
     <1>12, <1>13, <1>14, <1>15, <1>16 DEF Next, Advance, AllEnded

-----------------------------------------------------------------------------
(* The folder of the phase at work. *)

LEMMA FolderInit == Init => PhaseHasFolder
BY DEF Init, PhaseHasFolder, Raw, Domain

LEMMA FolderStep == TypeOK /\ LockInv /\ PhaseHasFolder /\ [Next]_vars => PhaseHasFolder'
<1> SUFFICES ASSUME TypeOK, LockInv, PhaseHasFolder, [Next]_vars PROVE PhaseHasFolder'
  OBVIOUS
<1> USE DEF TypeOK, PC, Outside, Inside, Ended, Raw, Domain, PhaseHasFolder, LockInv
<1>1. ASSUME NEW r \in Runs, RejectTarget(r) PROVE PhaseHasFolder'
  BY <1>1 DEF RejectTarget, shared, local
<1>2. ASSUME NEW r \in Runs, BuildDir(r) \/ DirsBuilt(r) PROVE PhaseHasFolder'
  BY <1>2 DEF BuildDir, DirsBuilt, shared, local
<1>3. ASSUME NEW r \in Runs, AcquireRunLock(r) PROVE PhaseHasFolder'
  BY <1>3 DEF AcquireRunLock, local
<1>4. ASSUME NEW r \in Runs, Refuse(r) PROVE PhaseHasFolder'
  BY <1>4 DEF Refuse, shared, local
<1>5. ASSUME NEW r \in Runs, WriteTargetInfo(r) PROVE PhaseHasFolder'
  BY <1>5 DEF WriteTargetInfo, local
<1>6. ASSUME NEW r \in Runs, NEW d \in Raw, StartPhase(r, d) PROVE PhaseHasFolder'
  BY <1>6 DEF StartPhase, Preceding
<1>7. ASSUME NEW r \in Runs, WriteEvidence(r) PROVE PhaseHasFolder'
  BY <1>7 DEF WriteEvidence, local
<1>8. ASSUME NEW r \in Runs, FinishServiceEnum(r) PROVE PhaseHasFolder'
  BY <1>8 DEF FinishServiceEnum, RemoveFolders, local
<1>9. ASSUME NEW r \in Runs, SkipDomainPhases(r) PROVE PhaseHasFolder'
  BY <1>9 DEF SkipDomainPhases, RemoveFolders, local
<1>10. ASSUME NEW r \in Runs, FinishDomainPhases(r) PROVE PhaseHasFolder'
  BY <1>10 DEF FinishDomainPhases, shared, local
<1>11. ASSUME NEW r \in Runs, GenerateReport(r) PROVE PhaseHasFolder'
  BY <1>11 DEF GenerateReport
<1>12. ASSUME NEW r \in Runs, WriteManifest(r) PROVE PhaseHasFolder'
  BY <1>12 DEF WriteManifest, local
<1>13. ASSUME NEW r \in Runs, RemoveRaw(r) PROVE PhaseHasFolder'
  BY <1>13 DEF RemoveRaw, RemoveFolders
<1>14. ASSUME NEW r \in Runs, Finish(r) PROVE PhaseHasFolder'
  BY <1>14 DEF Finish, Unlock, local
<1>15. ASSUME NEW r \in Runs, Die(r) PROVE PhaseHasFolder'
  BY <1>15 DEF Die, Unlock
<1>16. CASE UNCHANGED vars
  BY <1>16 DEF vars, shared, local
<1> QED
  BY <1>1, <1>2, <1>3, <1>4, <1>5, <1>6, <1>7, <1>8, <1>9, <1>10, <1>11,
     <1>12, <1>13, <1>14, <1>15, <1>16 DEF Next, Advance, AllEnded

-----------------------------------------------------------------------------
(* The inductive invariant, and what follows from it. *)

IInv == TypeOK /\ LockInv /\ TraceInv /\ ReachedInv /\ ReportInv /\ SweepInv /\ PhaseHasFolder

LEMMA InductiveInvariant == Spec => []IInv
<1>1. Init => IInv
  BY TypeInit, LockInit, TraceInit, ReachedInit, ReportInit, SweepInit, FolderInit DEF IInv
<1>2. IInv /\ [Next]_vars => IInv'
  BY TypeStep, LockStep, TraceStep, ReachedStep, ReportStep, SweepStep, FolderStep DEF IInv
<1> QED
  BY <1>1, <1>2, PTL DEF Spec

\* The variables of brain.py keep their types whatever the interleaving of the
\* runs and their deaths.
THEOREM TypeCorrect == Spec => []TypeOK
BY InductiveInvariant, PTL DEF IInv

\* Any number of runs, dying anywhere: never two between the lock and the end
\* of main().
THEOREM MutualExclusion == Spec => []OneRunAtATime
<1>1. IInv => OneRunAtATime
  BY DEF IInv, LockInv, OneRunAtATime
<1> QED
  BY <1>1, InductiveInvariant, PTL

\* A phase always writes into a folder that is there.
THEOREM FolderThere == Spec => []PhaseHasFolder
BY InductiveInvariant, PTL DEF IInv

\* Whatever a report may pick up that is not its run's own was left behind by a
\* run that died, kept its files, had no PDF or could not remove them.
THEOREM OnlyLeftOvers == Spec => []NoOrphanEvidence
<1>1. IInv => NoOrphanEvidence
  <2> SUFFICES ASSUME IInv, NEW d \in Raw, NEW q \in evidence[d],
                      pc[q] \notin Inside
               PROVE  LeftFilesBehind(q)
    BY DEF NoOrphanEvidence
  <2>1. q \in Runs
    BY DEF IInv, TypeOK
  <2>2. pc[q] \in {"done", "dead"}
    BY <2>1 DEF IInv, ReachedInv, Since, Inside, Raw, Domain
  <2> QED
    BY <2>1, <2>2 DEF IInv, SweepInv, LeftFilesBehind
<1> QED
  BY <1>1, InductiveInvariant, PTL

\* A run that has collected anything is on record in target_info.json until it
\* ends.
THEOREM TraceFirst == Spec => []TraceBeforeEvidence
<1>1. IInv => TraceBeforeEvidence
  <2> SUFFICES ASSUME IInv, NEW r \in Runs, pc[r] \in Inside, r \in Collected
               PROVE  targetInfo = r
    BY DEF TraceBeforeEvidence
  <2>1. PICK d \in Raw : r \in evidence[d]
    BY DEF Collected
  <2>2. pc[r] # "locked"
    BY <2>1 DEF IInv, ReachedInv, Since, Inside, Raw, Domain
  <2> QED
    BY <2>2 DEF IInv, TraceInv
<1> QED
  BY <1>1, InductiveInvariant, PTL

-----------------------------------------------------------------------------
(* What a step may do to a run's own evidence. *)

LEMMA StepKeepsOwnEvidence == IInv /\ [Next]_vars => KeepsOwnEvidence
<1> SUFFICES ASSUME IInv, [Next]_vars, NEW r \in Runs, NEW d \in Raw,
                    pc[r] \in Inside, r \in evidence[d], r \notin evidence'[d]
             PROVE  pdf = r /\ r \in embedded /\ manifest = r /\ ~keepRaw[r]
  BY DEF KeepsOwnEvidence
<1> USE DEF IInv
<1>1. lock = r
  BY DEF LockInv
\* Only four actions take anything away.
<1>2. PICK q \in Runs : \/ WriteEvidence(q)
                         \/ FinishServiceEnum(q)
                         \/ SkipDomainPhases(q)
                         \/ RemoveRaw(q)
  <2>1. evidence' # evidence
    OBVIOUS
  <2> QED
    BY <2>1 DEF Next, Advance, AllEnded, vars, shared, local, RejectTarget, BuildDir, DirsBuilt,
      AcquireRunLock, Refuse, WriteTargetInfo, StartPhase, FinishDomainPhases,
      GenerateReport, WriteManifest, Finish, Die
<1>3. pc[q] \in Inside
  BY <1>2 DEF WriteEvidence, FinishServiceEnum, SkipDomainPhases, RemoveRaw, Inside, Raw, Domain
<1>4. q = r
  BY <1>1, <1>3 DEF LockInv
<1>5. CASE WriteEvidence(r)
  BY <1>5 DEF WriteEvidence, TypeOK
<1>6. CASE FinishServiceEnum(r)
  <2>1. d = "service-enum" /\ ~enumerated[r]
    BY <1>6 DEF FinishServiceEnum, RemoveFolders, TypeOK
  <2> QED
    BY <1>6, <2>1 DEF FinishServiceEnum, ReachedInv
<1>7. CASE SkipDomainPhases(r)
  <2>1. d \in Domain
    BY <1>7 DEF SkipDomainPhases, RemoveFolders, TypeOK
  <2> QED
    BY <1>7, <2>1 DEF SkipDomainPhases, ReachedInv, Since, Inside, Raw, Domain
<1>8. CASE RemoveRaw(r)
  BY <1>8 DEF RemoveRaw, PdfOnly, ReportInv
<1> QED
  BY <1>2, <1>4, <1>5, <1>6, <1>7, <1>8

\* A live run loses evidence of its own only to its own cleanup, with its PDF
\* and its manifest written and RECONBOX_KEEP_RAW unset.
THEOREM OwnEvidenceSafe == Spec => OwnEvidenceKept
<1>1. IInv /\ [Next]_vars => [KeepsOwnEvidence]_vars
  BY StepKeepsOwnEvidence
<1> QED
  BY <1>1, InductiveInvariant, PTL DEF Spec, OwnEvidenceKept

-----------------------------------------------------------------------------
(* The directory implements the evidence store. *)

LEMMA StoreInit == Init => Store!Init
BY DEF Init, Store!Init, Collected

LEMMA StoreStep == IInv /\ [Next]_vars => [Store!Next]_(Store!vars)
<1> SUFFICES ASSUME IInv, [Next]_vars PROVE [Store!Next]_(Store!vars)
  OBVIOUS
<1> USE DEF Store!Next, Store!vars, IInv
<1>0. Collected \in SUBSET Runs
  BY DEF Collected, TypeOK
<1>1. ASSUME UNCHANGED <<lock, evidence, pdf>> PROVE UNCHANGED Store!vars
  BY <1>1 DEF Collected
<1>2. ASSUME NEW r \in Runs, AcquireRunLock(r) PROVE Store!Open(r)
  BY <1>2 DEF AcquireRunLock, Store!Open, Collected
<1>3. ASSUME NEW r \in Runs, WriteEvidence(r) PROVE Store!Collect(r)
  <2>1. lock = r
    BY <1>3 DEF WriteEvidence, LockInv, Inside
  <2>2. PICK kept \in SUBSET (evidence[pc[r]] \ {r}) :
           evidence' = [evidence EXCEPT ![pc[r]] = kept \cup {r}]
    BY <1>3 DEF WriteEvidence
  <2>3. \A d \in Raw : evidence'[d] \ {r} \subseteq evidence[d]
    BY <2>2 DEF TypeOK
  <2>4. r \in Collected'
    BY <1>3, <2>2 DEF Collected, WriteEvidence, TypeOK
  <2>5. Collected' \ {r} \in SUBSET (Collected \ {r})
    BY <2>3 DEF Collected
  <2>6. Collected' = (Collected' \ {r}) \cup {r}
    BY <2>4
  <2> QED
    BY <1>3, <2>1, <2>5, <2>6 DEF WriteEvidence, Store!Collect
<1>4. ASSUME NEW r \in Runs, GenerateReport(r) PROVE [Store!Publish(r)]_(Store!vars)
  <2>1. lock = r
    BY <1>4 DEF GenerateReport, LockInv, Inside
  <2> QED
    BY <1>4, <2>1 DEF GenerateReport, Store!Publish, Collected
<1>5. ASSUME NEW r \in Runs, pc[r] \in Inside, UNCHANGED <<lock, pdf>>,
             \A d \in Raw : evidence'[d] \subseteq evidence[d]
      PROVE  Store!Discard(r)
  <2>1. lock = r
    BY <1>5 DEF LockInv
  <2>2. Collected' \in SUBSET Collected
    BY <1>5 DEF Collected
  <2>3. r \in Collected \ Collected' => pdf = r
    BY <1>5, StepKeepsOwnEvidence DEF Collected, KeepsOwnEvidence
  <2> QED
    BY <1>5, <2>1, <2>2, <2>3 DEF Store!Discard
<1>6. ASSUME NEW r \in Runs,
             FinishServiceEnum(r) \/ SkipDomainPhases(r) \/ RemoveRaw(r)
      PROVE  Store!Discard(r)
  <2>1. pc[r] \in Inside /\ UNCHANGED <<lock, pdf>>
    BY <1>6 DEF FinishServiceEnum, SkipDomainPhases, RemoveRaw, Inside, Raw
  <2>2. \A d \in Raw : evidence'[d] \subseteq evidence[d]
    BY <1>6, RemovalOnlyRemoves DEF FinishServiceEnum, SkipDomainPhases, RemoveRaw
  <2> QED
    BY <1>5, <2>1, <2>2
<1>7. ASSUME NEW r \in Runs, Finish(r) \/ Die(r) PROVE [Store!Close(r)]_(Store!vars)
  BY <1>7 DEF Finish, Die, Unlock, Store!Close, Collected
<1>8. CASE UNCHANGED vars
  BY <1>1, <1>8 DEF vars, shared
<1>9. ASSUME NEW r \in Runs, Advance(r) PROVE [Store!Next]_(Store!vars)
  BY <1>1, <1>2, <1>4, <1>6, <1>7, <1>9 DEF Advance, shared, RejectTarget, BuildDir, DirsBuilt, Refuse,
     WriteTargetInfo, StartPhase, FinishDomainPhases, WriteManifest
<1> QED
  BY <1>3, <1>7, <1>8, <1>9 DEF Next, AllEnded

\* Seen through the lock, the union of the raw folders and report.pdf, the runs
\* behave as the store of module EvidenceStore promises.
THEOREM StoreImplemented == Spec => ImplementsStore
<1>1. IInv /\ [Next]_vars => [Store!Next]_(Store!vars)
  BY StoreStep
<1> QED
  BY <1>1, StoreInit, InductiveInvariant, PTL DEF Spec, ImplementsStore, Store!Spec

=============================================================================
