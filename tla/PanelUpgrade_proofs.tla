------------------------ MODULE PanelUpgrade_proofs ------------------------
(***************************************************************************)
(* The safety of upgrading a v4 panel for every set of versions, whichever *)
(* of them work, and every number of health checks.                        *)
(***************************************************************************)
EXTENDS PanelUpgrade, TLAPS

\* "none", "torn", "down" and "v4" name no version.
LEMMA NotAVersion ==
  /\ "none" \notin Versions /\ "torn" \notin Versions /\ "down" \notin Versions
  /\ "v4" \notin Versions
  /\ \A t \in Tags : t \in Versions
  /\ \A b \in Builds : b \in Versions
  /\ \A s \in Sound : s \in Versions
  BY VersionsAssumption DEF Versions

\* A run starts its health checks from zero.
LEMMA ZeroTries == 0 \in 0..MaxTries /\ 0 # MaxTries
  BY MaxTriesAssumption

\* An installed panel satisfies the invariant.
LEMMA InitIInv == Init => IInv
  BY NotAVersion, ZeroTries
  DEF Init, IInv, TypeOK, FlagsOK, Labels, Files, Untouched, BackedUp, Replaced,
      Stopped, Proven, PreviousBinaryKept, RolledBackIsPrevious, UpdatedIsHealthy

\* The flags stay Boolean.
LEMMA StepFlags == FlagsOK /\ [Next]_vars => FlagsOK'
  BY Zenon
  DEF FlagsOK, vars, run, proc, state, hist, Goto, Return, RestoreFailed, Next,
      Handler, Handle, Download, StopPanel, BackupBinary, RemoveBinary, CopyNew,
      Chmod, GithubBackup, GithubStop, Build, GithubRestart, StartPanel,
      CheckHealth, RollbackStop, RollbackStart, Cleanup, RecordVersion,
      RestoreRemove, RestoreCopy, Crash, Die, Respawn

\* No step and no crash breaks the invariant.
LEMMA StepIInv == IInv /\ [Next]_vars => IInv'
<1> SUFFICES ASSUME IInv, [Next]_vars PROVE IInv'
  OBVIOUS
<1>0. FlagsOK'
  BY StepFlags DEF IInv, TypeOK
<1> USE <1>0, NotAVersion
    DEF IInv, TypeOK, Labels, Files, Untouched, BackedUp, Replaced, Stopped,
        Proven, PreviousBinaryKept, RolledBackIsPrevious, UpdatedIsHealthy,
        run, proc, state, hist, Goto, Return
<1>1. CASE Handle            BY <1>1, ZeroTries DEF Handle, ChosenFlow
<1>2. CASE Download          BY <1>2 DEF Download
<1>3. CASE StopPanel         BY <1>3 DEF StopPanel, StopOK, StopFailed
<1>4. CASE BackupBinary      BY <1>4 DEF BackupBinary, CopyOK, CopyFailed
<1>5. CASE RemoveBinary      BY <1>5 DEF RemoveBinary
<1>6. CASE CopyNew           BY <1>6 DEF CopyNew
<1>7. CASE Chmod             BY <1>7 DEF Chmod
<1>8. CASE GithubBackup      BY <1>8 DEF GithubBackup, CopyOK, CopyFailed
<1>9. CASE GithubStop        BY <1>9 DEF GithubStop, StopOK, StopFailed
<1>10. CASE Build            BY <1>10 DEF Build
<1>11. CASE GithubRestart    BY <1>11 DEF GithubRestart, StartOK, StartFailed, Started
<1>12. CASE StartPanel       BY <1>12 DEF StartPanel, StartOK, StartFailed, Started
<1>13. CASE CheckHealth
  <2>1. tries' \in 0..MaxTries
    BY <1>13, MaxTriesAssumption DEF CheckHealth
  <2>2. QED
    BY <1>13, <2>1 DEF CheckHealth
<1>14. CASE RollbackStop     BY <1>14 DEF RollbackStop, StopOK, StopFailed
<1>15. CASE RollbackStart    BY <1>15 DEF RollbackStart, StartOK, StartFailed, Started
<1>16. CASE Cleanup          BY <1>16 DEF Cleanup
<1>17. CASE RecordVersion    BY <1>17 DEF RecordVersion
<1>18. CASE RestoreRemove    BY <1>18 DEF RestoreRemove, RestoreFailed
<1>19. CASE RestoreCopy      BY <1>19 DEF RestoreCopy, RestoreFailed
<1>20. CASE Crash            BY <1>20 DEF Crash
<1>21. CASE Die              BY <1>21 DEF Die
<1>22. CASE Respawn          BY <1>22 DEF Respawn
<1>23. CASE UNCHANGED vars   BY <1>23 DEF vars
<1>24. QED
  BY <1>1, <1>2, <1>3, <1>4, <1>5, <1>6, <1>7, <1>8, <1>9, <1>10, <1>11,
     <1>12, <1>13, <1>14, <1>15, <1>16, <1>17, <1>18, <1>19, <1>20, <1>21, <1>22,
     <1>23
  DEF Next, Handler

\* The inductive invariant holds in every reachable state.
LEMMA Invariance == Spec => []IInv
  BY InitIInv, StepIInv, PTL DEF Spec

\* Every state of every run has the declared types.
THEOREM TypeCorrect == Spec => []TypeOK
<1>1. IInv => TypeOK
  BY DEF IInv
<1>2. QED
  BY <1>1, Invariance, PTL

\* The panel binary an upgrade found is not lost before the new one answered.
THEOREM BinarySafety == Spec => []PreviousBinaryKept
<1>1. IInv => PreviousBinaryKept
  BY DEF IInv
<1>2. QED
  BY <1>1, Invariance, PTL

\* A rollback is reported only with the previous binary in place.
THEOREM RollbackSafety == Spec => []RolledBackIsPrevious
<1>1. IInv => RolledBackIsPrevious
  BY DEF IInv
<1>2. QED
  BY <1>1, Invariance, PTL

\* A success is reported only for a binary that has answered.
THEOREM SuccessSafety == Spec => []UpdatedIsHealthy
<1>1. IInv => UpdatedIsHealthy
  BY DEF IInv
<1>2. QED
  BY <1>1, Invariance, PTL

\* Only a release that is installed and has just answered is recorded.
THEOREM RecordSafety == Spec => RecordsOnlyHealthy
<1>1. IInv /\ [Next]_vars =>
        [recorded' # recorded /\ recorded' \in Versions
           => recorded' = bin /\ svc \in {bin, "down"} /\ bin \in Sound]_vars
  <2> SUFFICES ASSUME IInv, Next, recorded' # recorded, recorded' \in Versions
               PROVE  recorded' = bin /\ svc \in {bin, "down"} /\ bin \in Sound
    OBVIOUS
  <2>1. CASE Handle
    BY <2>1, NotAVersion DEF Handle
  <2>2. CASE RecordVersion
    BY <2>2 DEF RecordVersion, IInv, Proven
  <2>3. CASE UNCHANGED recorded
    BY <2>3
  <2>4. QED
    BY <2>1, <2>2, <2>3
    DEF Next, Handler, state, Download, StopPanel, BackupBinary, RemoveBinary,
        CopyNew, Chmod, GithubBackup, GithubStop, Build, GithubRestart,
        StartPanel, CheckHealth, RollbackStop, RollbackStart, Cleanup,
        RestoreRemove, RestoreCopy, Crash, Die, Respawn
<1>2. QED
  BY <1>1, Invariance, PTL DEF Spec, RecordsOnlyHealthy

\* An installed panel is an initial state of the replacement contract.
LEMMA InitRefines == Init => R!Init
  BY NotAVersion DEF Init, R!Init, Phase

\* Every step is a step of the contract or leaves its variables alone.
LEMMA StepRefines == IInv /\ [Next]_vars => [R!Next]_(R!vars)
<1> SUFFICES ASSUME IInv, [Next]_vars PROVE [R!Next]_(R!vars)
  OBVIOUS
<1> USE NotAVersion
    DEF IInv, TypeOK, Labels, Files, Untouched, BackedUp, Replaced, Proven,
        Phase, run, hist, Goto, Return, R!vars, R!Next, R!Begin, R!Copy,
        R!CanReplace, R!Replace, R!End, R!Forget
<1>1. CASE Handle                    BY <1>1 DEF Handle
<1>2. CASE Download                  BY <1>2 DEF Download
<1>3. CASE StopPanel                 BY <1>3 DEF StopPanel
<1>4. CASE BackupBinary
  BY <1>4 DEF BackupBinary, CopyOK, CopyFailed
<1>5. CASE RemoveBinary              BY <1>5 DEF RemoveBinary
<1>6. CASE CopyNew                   BY <1>6 DEF CopyNew
<1>7. CASE Chmod                     BY <1>7 DEF Chmod
<1>8. CASE GithubBackup
  BY <1>8 DEF GithubBackup, CopyOK, CopyFailed
<1>9. CASE GithubStop                BY <1>9 DEF GithubStop
<1>10. CASE Build                    BY <1>10 DEF Build
<1>11. CASE GithubRestart            BY <1>11 DEF GithubRestart
<1>12. CASE StartPanel               BY <1>12 DEF StartPanel
<1>13. CASE CheckHealth              BY <1>13 DEF CheckHealth
<1>14. CASE RollbackStop             BY <1>14 DEF RollbackStop
<1>15. CASE RollbackStart            BY <1>15 DEF RollbackStart
<1>16. CASE Cleanup                  BY <1>16 DEF Cleanup
<1>17. CASE RecordVersion            BY <1>17 DEF RecordVersion
<1>18. CASE RestoreRemove            BY <1>18 DEF RestoreRemove, RestoreFailed
<1>19. CASE RestoreCopy              BY <1>19 DEF RestoreCopy, RestoreFailed
<1>20. CASE Crash                    BY <1>20 DEF Crash
<1>21. CASE Die                      BY <1>21 DEF Die
<1>22. CASE Respawn                  BY <1>22 DEF Respawn
<1>23. CASE UNCHANGED vars           BY <1>23 DEF vars
<1>24. QED
  BY <1>1, <1>2, <1>3, <1>4, <1>5, <1>6, <1>7, <1>8, <1>9, <1>10, <1>11,
     <1>12, <1>13, <1>14, <1>15, <1>16, <1>17, <1>18, <1>19, <1>20,
     <1>21, <1>22, <1>23
  DEF Next, Handler

\* The panel upgrade implements the replacement contract.
THEOREM Refinement == Spec => ReplacesWithWayBack
  BY InitRefines, StepRefines, Invariance, PTL
  DEF Spec, ReplacesWithWayBack, R!Spec

-----------------------------------------------------------------------------
(* A run ends.                                                             *)

\* The length of a run's remainder is a natural number.
LEMMA RankIsNatural == \A l \in Labels : Rank(l) \in 0..12
  BY DEF Labels, Rank

\* The edges of the handler's control flow, the loop apart.
Edge ==
  \/ pc = "download" /\ pc' \in {"idle", "stop"}
  \/ pc = "stop" /\ pc' \in {"idle", "backup"}
  \/ pc = "backup" /\ pc' \in {"idle", "remove"}
  \/ pc = "remove" /\ pc' \in {"idle", "copy"}
  \/ pc = "copy" /\ pc' \in {"chmod", "restore"}
  \/ pc = "chmod" /\ pc' \in {"idle", "start"}
  \/ pc = "gbackup" /\ pc' \in {"idle", "gstop"}
  \/ pc = "gstop" /\ pc' \in {"idle", "build"}
  \/ pc = "build" /\ pc' \in {"start", "grestart", "restore"}
  \/ pc = "start" /\ pc' \in {"idle", "health"}
  \/ pc = "rbstop" /\ pc' = "restore"
  \/ pc = "restore" /\ pc' \in {"restoreCopy", "grestart", "idle"}
  \/ pc = "restoreCopy" /\ pc' \in {"rbstart", "grestart", "idle"}
  \/ pc = "cleanup" /\ pc' \in {"idle", "record"}
  \/ pc \in {"grestart", "rbstart", "record"} /\ pc' = "idle"

\* Every edge leads down.
LEMMA EdgeLeadsDown ==
  Edge => Rank(pc) \in 0..12 /\ Rank(pc)' \in 0..12 /\ Rank(pc)' < Rank(pc)
  BY DEF Edge, Rank

\* Every step but a health check follows an edge and counts no try.
LEMMA HandlerFollowsEdges ==
  Handler => CheckHealth \/ (Edge /\ tries' = tries)
<1> SUFFICES ASSUME Handler
             PROVE  CheckHealth \/ (Edge /\ tries' = tries)
  OBVIOUS
<1> USE DEF Edge, Goto, Return, run, hist
<1>1. CASE Download            BY <1>1, Zenon DEF Download
<1>2. CASE StopPanel           BY <1>2, Zenon DEF StopPanel
<1>3. CASE BackupBinary        BY <1>3, Zenon DEF BackupBinary
<1>4. CASE RemoveBinary        BY <1>4, Zenon DEF RemoveBinary
<1>5. CASE CopyNew             BY <1>5, Zenon DEF CopyNew
<1>6. CASE Chmod               BY <1>6, Zenon DEF Chmod
<1>7. CASE GithubBackup        BY <1>7, Zenon DEF GithubBackup
<1>8. CASE GithubStop          BY <1>8, Zenon DEF GithubStop
<1>9. CASE Build               BY <1>9, Zenon DEF Build
<1>10. CASE GithubRestart      BY <1>10, Zenon DEF GithubRestart
<1>11. CASE StartPanel         BY <1>11, Zenon DEF StartPanel
<1>12. CASE RollbackStop       BY <1>12, Zenon DEF RollbackStop
<1>13. CASE RollbackStart      BY <1>13, Zenon DEF RollbackStart
<1>14. CASE Cleanup            BY <1>14, Zenon DEF Cleanup
<1>15. CASE RecordVersion      BY <1>15, Zenon DEF RecordVersion
<1>16. CASE RestoreRemove      BY <1>16, Zenon DEF RestoreRemove, RestoreFailed
<1>17. CASE RestoreCopy        BY <1>17, Zenon DEF RestoreCopy, RestoreFailed
<1>18. QED
  BY <1>1, <1>2, <1>3, <1>4, <1>5, <1>6, <1>7, <1>8, <1>9, <1>10, <1>11,
     <1>12, <1>13, <1>14, <1>15, <1>16, <1>17 DEF Handler

\* The handler's own steps strictly shorten what is left of the run.
LEMMA HandlerAdvances == IInv /\ Handler => StepsLeft' < StepsLeft
<1> SUFFICES ASSUME IInv, Handler PROVE StepsLeft' < StepsLeft
  OBVIOUS
<1>1. tries \in 0..MaxTries
  BY DEF IInv, TypeOK
<1>2. CASE CheckHealth
  <2>1. \/ tries' = tries + 1 /\ Rank(pc) = 5 /\ Rank(pc)' \in {4, 5}
        \/ tries' = tries /\ Rank(pc) = 5 /\ Rank(pc)' \in 0..4
    BY <1>2 DEF CheckHealth, Rank, Goto
  <2>2. tries' \in 0..MaxTries
    BY <1>2, MaxTriesAssumption DEF CheckHealth, Goto, IInv, TypeOK
  <2>3. QED
    BY <1>1, <2>1, <2>2, MaxTriesAssumption DEF StepsLeft
<1>3. CASE Edge /\ tries' = tries
  BY <1>1, <1>3, EdgeLeadsDown, MaxTriesAssumption DEF StepsLeft
<1>4. QED
  BY <1>2, <1>3, HandlerFollowsEdges

\* Nothing else that can happen during a run lengthens it.
LEMMA NothingSetsBack ==
  IInv /\ pc # "idle" /\ [Next]_vars => StepsLeft' \in 0..StepsLeft
<1> SUFFICES ASSUME IInv, pc # "idle", [Next]_vars
             PROVE  StepsLeft' \in 0..StepsLeft
  OBVIOUS
<1>1. StepsLeft \in Nat /\ StepsLeft' \in Nat
  <2>1. IInv'
    BY StepIInv
  <2>2. Rank(pc) \in 0..12 /\ Rank(pc)' \in 0..12
    <3>1. pc \in Labels /\ pc' \in Labels
      BY <2>1 DEF IInv, TypeOK
    <3>2. QED
      BY <3>1, RankIsNatural
  <2>3. tries \in 0..MaxTries /\ tries' \in 0..MaxTries
    BY <2>1 DEF IInv, TypeOK
  <2>4. QED
    BY <2>2, <2>3, MaxTriesAssumption DEF StepsLeft
<1>2. CASE Handler
  BY <1>1, <1>2, HandlerAdvances
<1>3. CASE Crash
  <2>1. Rank(pc)' = 0 /\ tries' = tries
    BY <1>3 DEF Crash, Rank, run, hist
  <2>2. Rank(pc) \in 0..12 /\ tries \in 0..MaxTries
    BY RankIsNatural DEF IInv, TypeOK
  <2>3. QED
    BY <1>1, <2>1, <2>2, MaxTriesAssumption DEF StepsLeft
<1>4. CASE Die \/ Respawn \/ UNCHANGED vars
  <2>1. pc' = pc /\ tries' = tries
    BY <1>4 DEF Die, Respawn, vars, run, hist
  <2>2. StepsLeft' = StepsLeft
    BY <2>1 DEF StepsLeft
  <2>3. QED
    BY <1>1, <2>2
<1>5. QED
  BY <1>2, <1>3, <1>4 DEF Next, Handle

\* Every upgrade of the panel ends after at most 12 + MaxTries of its own
\* steps, whatever fails and whatever happens around it.
THEOREM BoundedRuns == Spec => RunsAreBounded
<1>1. IInv /\ [Next]_vars
        => [pc # "idle" => /\ StepsLeft' \in 0..StepsLeft
                           /\ Handler => StepsLeft' < StepsLeft]_vars
  BY HandlerAdvances, NothingSetsBack
<1>2. QED
  BY <1>1, Invariance, PTL DEF Spec, RunsAreBounded

-----------------------------------------------------------------------------
(* What the contract is good for.                                          *)

\* A command that keeps to the contract, whatever order of copying, replacing
\* and ending it chooses, leaves a way back to what it found, until a version
\* that answers is installed.
THEOREM ContractKeepsAWayBack == ReplacesWithWayBack => []R!WayBack
<1>1. R!Init => R!WayBack
  BY NotAVersion DEF R!Init, R!WayBack
<1>2. R!WayBack /\ [R!Next]_(R!vars) => (R!WayBack)'
  BY DEF R!WayBack, R!Next, R!Begin, R!Copy, R!Replace, R!CanReplace, R!End,
         R!Forget, R!vars
<1>3. QED
  BY <1>1, <1>2, PTL DEF ReplacesWithWayBack, R!Spec

=============================================================================
