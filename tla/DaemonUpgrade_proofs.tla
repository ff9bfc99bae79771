------------------------ MODULE DaemonUpgrade_proofs -----------------------
(***************************************************************************)
(* The safety of replacing the daemon binary for every set of releases and *)
(* builds, any number of upgrades and a crash between any two steps.       *)
(***************************************************************************)
EXTENDS DaemonUpgrade, TLAPS

\* "none", "torn" and "down" name no version.
LEMMA NotAVersion ==
  /\ "none" \notin Versions /\ "torn" \notin Versions /\ "down" \notin Versions
  /\ \A t \in Tags : t \in Versions
  /\ \A b \in Builds : b \in Versions
  BY VersionsAssumption DEF Versions

\* An installed daemon satisfies the invariant.
LEMMA InitIInv == Init => IInv
  BY NotAVersion
  DEF Init, IInv, TypeOK, FlagsOK, Labels, Untouched, ReleaseBackedUp, GithubBackedUp,
      OldBinaryRecoverable, NeverInstallsTornBackup,
      MissingOnlyAfterFailedRevert, GithubSuccessRuns,
      SuccessIsTargetOrReverted

\* The flags stay Boolean.
LEMMA StepFlags == FlagsOK /\ [Next]_vars => FlagsOK'
  BY Zenon
  DEF FlagsOK, vars, run, proc, state, Goto, Return, Fail, CopyOK, RevertOK,
      RevertFailed, Next, Handler, Handle, SetupCDNReplacements, FindRelease,
      StopDaemon, BackupBinary, ApplyRelease, RevertAfterApply, StartDaemon,
      RevertAfterStart, RestartOld, RecordVersion, GithubBackup, GithubStop,
      SetupDaemonFromGithub, GithubRevertBuild, GithubRestartBuild,
      GithubStart, GithubRevertStart, GithubRestartStart, Crash, Die, Respawn

\* No step of either flow and no crash breaks the invariant.
LEMMA StepIInv == IInv /\ [Next]_vars => IInv'
<1> SUFFICES ASSUME IInv, [Next]_vars PROVE IInv'
  OBVIOUS
<1>0. FlagsOK'
  BY StepFlags DEF IInv, TypeOK
<1> USE <1>0, NotAVersion
    DEF IInv, TypeOK, Labels, Untouched, ReleaseBackedUp, GithubBackedUp,
        OldBinaryRecoverable, NeverInstallsTornBackup,
        MissingOnlyAfterFailedRevert, GithubSuccessRuns,
        SuccessIsTargetOrReverted, run, proc, state, Goto, Return, Fail
<1>1. CASE Handle                BY <1>1 DEF Handle
<1>2. CASE SetupCDNReplacements  BY <1>2 DEF SetupCDNReplacements
<1>3. CASE FindRelease           BY <1>3 DEF FindRelease
<1>4. CASE StopDaemon            BY <1>4 DEF StopDaemon, StopOK, StopFailed
<1>5. CASE BackupBinary          BY <1>5 DEF BackupBinary, CopyOK, CopyFailed
<1>6. CASE ApplyRelease          BY <1>6 DEF ApplyRelease, ApplyOK, ApplyFailed
<1>7. CASE RevertAfterApply
  BY <1>7 DEF RevertAfterApply, RevertOK, RevertFailed, ApplyOK, ApplyFailed
<1>8. CASE StartDaemon
  BY <1>8 DEF StartDaemon, StartOK, StartFailed, Started, CanRun
<1>9. CASE RevertAfterStart
  BY <1>9 DEF RevertAfterStart, RevertOK, RevertFailed, ApplyOK, ApplyFailed
<1>10. CASE RestartOld
  BY <1>10 DEF RestartOld, StartOK, StartFailed, Started, CanRun
<1>11. CASE RecordVersion        BY <1>11 DEF RecordVersion
<1>12. CASE GithubBackup         BY <1>12 DEF GithubBackup, CopyOK, CopyFailed
<1>13. CASE GithubStop           BY <1>13 DEF GithubStop, StopOK, StopFailed
<1>14. CASE SetupDaemonFromGithub BY <1>14 DEF SetupDaemonFromGithub
<1>15. CASE GithubRevertBuild
  BY <1>15 DEF GithubRevertBuild, RevertOK, RevertFailed, ApplyOK, ApplyFailed
<1>16. CASE GithubRestartBuild
  BY <1>16 DEF GithubRestartBuild, StartOK, StartFailed, Started, CanRun
<1>17. CASE GithubStart
  BY <1>17 DEF GithubStart, StartOK, StartFailed, Started, CanRun
<1>18. CASE GithubRevertStart
  BY <1>18 DEF GithubRevertStart, RevertOK, RevertFailed, ApplyOK, ApplyFailed
<1>19. CASE GithubRestartStart
  BY <1>19 DEF GithubRestartStart, StartOK, StartFailed, Started, CanRun
<1>20. CASE Crash                BY <1>20 DEF Crash
<1>21. CASE Die                  BY <1>21 DEF Die
<1>22. CASE Respawn              BY <1>22 DEF Respawn, CanRun
<1>23. CASE UNCHANGED vars       BY <1>23 DEF vars
<1>24. QED
  BY <1>1, <1>2, <1>3, <1>4, <1>5, <1>6, <1>7, <1>8, <1>9, <1>10, <1>11,
     <1>12, <1>13, <1>14, <1>15, <1>16, <1>17, <1>18, <1>19, <1>20, <1>21, <1>22,
     <1>23
  DEF Next, Handler

\* The inductive invariant holds in every reachable state.
LEMMA Invariance == Spec => []IInv
  BY InitIInv, StepIInv, PTL DEF Spec

\* Every state of every run has the declared types.
THEOREM TypeCorrect == Spec => []TypeOK
<1>1. IInv => TypeOK
  BY DEF IInv
<1>2. QED
  BY <1>1, Invariance, PTL

\* The daemon binary an upgrade found is never lost while it works or when it
\* is killed.
THEOREM BinarySafety == Spec => []OldBinaryRecoverable
<1>1. IInv => OldBinaryRecoverable
  BY DEF IInv
<1>2. QED
  BY <1>1, Invariance, PTL

\* No revert installs a partial copy, not even one that an earlier run left.
THEOREM BackupSafety == Spec => []NeverInstallsTornBackup
<1>1. IInv => NeverInstallsTornBackup
  BY DEF IInv
<1>2. QED
  BY <1>1, Invariance, PTL

\* An upgrade returns without a binary only after a failed revert.
THEOREM ReturnSafety == Spec => []MissingOnlyAfterFailedRevert
<1>1. IInv => MissingOnlyAfterFailedRevert
  BY DEF IInv
<1>2. QED
  BY <1>1, Invariance, PTL

\* After "Updated successfully from GitHub" the new build is installed and
\* nothing older runs.
THEOREM GithubSafety == Spec => []GithubSuccessRuns
<1>1. IInv => GithubSuccessRuns
  BY DEF IInv
<1>2. QED
  BY <1>1, Invariance, PTL

\* Success without an error is the new version or a revert, and nothing older
\* than these two runs, however many failed upgrades came before.
THEOREM SuccessSafety == Spec => []SuccessIsTargetOrReverted
<1>1. IInv => SuccessIsTargetOrReverted
  BY DEF IInv
<1>2. QED
  BY <1>1, Invariance, PTL

\* An installed daemon is an initial state of the replacement contract.
LEMMA InitRefines == Init => R!Init
  BY NotAVersion DEF Init, R!Init, Phase

\* Every step is a step of the contract or leaves its variables alone.
LEMMA StepRefines == IInv /\ [Next]_vars => [R!HastyNext]_(R!vars)
<1> SUFFICES ASSUME IInv, [Next]_vars PROVE [R!HastyNext]_(R!vars)
  OBVIOUS
<1> USE NotAVersion
    DEF IInv, TypeOK, Labels, Untouched, ReleaseBackedUp, GithubBackedUp,
        NeverInstallsTornBackup, Phase, run, Goto, Return, Fail, R!vars,
        R!HastyNext, R!Next, R!Begin, R!Copy, R!CanReplace, R!Replace, R!End,
        R!Forget, R!EndAndForget
<1>1. CASE Handle                    BY <1>1 DEF Handle
<1>2. CASE SetupCDNReplacements      BY <1>2 DEF SetupCDNReplacements
<1>3. CASE FindRelease               BY <1>3 DEF FindRelease
<1>4. CASE StopDaemon                BY <1>4 DEF StopDaemon
<1>5. CASE BackupBinary
  BY <1>5 DEF BackupBinary, CopyOK, CopyFailed
<1>6. CASE ApplyRelease
  BY <1>6 DEF ApplyRelease, ApplyOK, ApplyFailed
<1>7. CASE RevertAfterApply
  BY <1>7 DEF RevertAfterApply, RevertOK, RevertFailed, ApplyOK, ApplyFailed
<1>8. CASE StartDaemon               BY <1>8 DEF StartDaemon
<1>9. CASE RevertAfterStart
  BY <1>9 DEF RevertAfterStart, RevertOK, RevertFailed, ApplyOK, ApplyFailed
<1>10. CASE RestartOld               BY <1>10 DEF RestartOld
<1>11. CASE RecordVersion            BY <1>11 DEF RecordVersion
<1>12. CASE GithubBackup
  BY <1>12 DEF GithubBackup, CopyOK, CopyFailed
<1>13. CASE GithubStop               BY <1>13 DEF GithubStop
<1>14. CASE SetupDaemonFromGithub    BY <1>14 DEF SetupDaemonFromGithub
<1>15. CASE GithubRevertBuild
  BY <1>15 DEF GithubRevertBuild, RevertOK, RevertFailed, ApplyOK, ApplyFailed
<1>16. CASE GithubRestartBuild       BY <1>16 DEF GithubRestartBuild
<1>17. CASE GithubStart              BY <1>17 DEF GithubStart
<1>18. CASE GithubRevertStart
  BY <1>18 DEF GithubRevertStart, RevertOK, RevertFailed, ApplyOK, ApplyFailed
<1>19. CASE GithubRestartStart       BY <1>19 DEF GithubRestartStart
<1>20. CASE Crash                    BY <1>20 DEF Crash
<1>21. CASE Die                      BY <1>21 DEF Die
<1>22. CASE Respawn                  BY <1>22 DEF Respawn
<1>23. CASE UNCHANGED vars           BY <1>23 DEF vars
<1>24. QED
  BY <1>1, <1>2, <1>3, <1>4, <1>5, <1>6, <1>7, <1>8, <1>9, <1>10, <1>11,
     <1>12, <1>13, <1>14, <1>15, <1>16, <1>17, <1>18, <1>19, <1>20,
     <1>21, <1>22, <1>23
  DEF Next, Handler

\* The daemon upgrade implements the contract without the lasting copy.
THEOREM Refinement == Spec => ReplacesAfterCopy
  BY InitRefines, StepRefines, Invariance, PTL
  DEF Spec, ReplacesAfterCopy, R!HastySpec

\* The contract keeps a way back: while a command works, what it found is
\* installed or copied, whatever order of copying and replacing it chooses.
THEOREM ContractKeepsAWayBack == ReplacesAfterCopy => []R!WayBackWhileBusy
<1>1. R!Init => R!WayBackWhileBusy
  BY DEF R!Init, R!WayBackWhileBusy
<1>2. R!WayBackWhileBusy /\ [R!HastyNext]_(R!vars) => (R!WayBackWhileBusy)'
  BY DEF R!WayBackWhileBusy, R!HastyNext, R!Next, R!Begin, R!Copy, R!Replace,
         R!CanReplace, R!End, R!Forget, R!EndAndForget, R!vars
<1>3. QED
  BY <1>1, <1>2, PTL DEF ReplacesAfterCopy, R!HastySpec

=============================================================================
