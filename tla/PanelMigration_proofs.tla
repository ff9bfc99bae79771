----------------------- MODULE PanelMigration_proofs -----------------------
(***************************************************************************)
(* No migration to v4, however it fails, is killed or is repeated, loses   *)
(* the v3 installation.                                                    *)
(***************************************************************************)
EXTENDS PanelMigration, TLAPS

\* A run starts its health checks from zero.
LEMMA ZeroTries == 0 \in 0..MaxTries
  BY MaxTriesAssumption

\* An installed v3 panel satisfies the invariant.
LEMMA InitIInv == Init => IInv
  BY ZeroTries
  DEF Init, IInv, TypeOK, FlagsOK, Labels, Trees, TreeUntouched, TreeCopied,
      NotStarted, V3TreeKept, FailureLeavesV3, MigratedIsServed

\* The flags stay Boolean.
LEMMA StepFlags == FlagsOK /\ [Next]_vars => FlagsOK'
  BY Zenon
  DEF FlagsOK, vars, run, dirs, site, panel, Goto, Return, RollBack, Next, Handler,
      Handle, Load, Backup, BackupWebServerConfig, BuildInstallConfig, InstallV4,
      MigrateStorage, StartV4, UpdateWebServerConfigForV4, RestartWebServer,
      CheckHealthV4, MoveV3, SaveState, RemoveTempBackup, RollbackStop,
      RollbackRemove, RollbackMove, RollbackWeb, RollbackRestart, Crash, Die, Respawn

\* A move that succeeded, or stopped anywhere, keeps what was moved.
LEMMA MoveKeeps ==
  ASSUME NEW src \in Trees, NEW dst \in Trees,
         NEW m \in Moved(src) \cup HalfMoved(src, dst)
  PROVE  /\ m[1] \in Trees /\ m[2] \in Trees
         /\ src \in {m[1], m[2]}
  BY DEF Moved, HalfMoved, Trees

\* No step and no crash breaks the invariant.
LEMMA StepIInv == IInv /\ [Next]_vars => IInv'
<1> SUFFICES ASSUME IInv, [Next]_vars PROVE IInv'
  OBVIOUS
<1>0. FlagsOK'
  BY StepFlags DEF IInv, TypeOK
<1> USE <1>0
    DEF IInv, TypeOK, Labels, Trees, TreeUntouched, TreeCopied, V3TreeKept,
        FailureLeavesV3, MigratedIsServed, NotStarted, dirs, site, panel, run, Goto, Return,
        RollBack, HasWeb
<1>1. CASE Handle
  <2>1. ~left' => svc' = "down" /\ unit' = "off"
    BY <1>1 DEF Handle
  <2>2. kept' \in SUBSET Trees /\ "v3" \in {found'} \cup kept' \cup final'
    BY <1>1 DEF Handle
  <2>3. QED
    BY <1>1, <2>1, <2>2, ZeroTries DEF Handle
<1>2. CASE Load                   BY <1>2 DEF Load
<1>3. CASE Backup                 BY <1>3 DEF Backup
<1>4. CASE BackupWebServerConfig  BY <1>4 DEF BackupWebServerConfig
<1>5. CASE BuildInstallConfig     BY <1>5 DEF BuildInstallConfig
<1>6. CASE InstallV4              BY <1>6 DEF InstallV4, Outdated
<1>7. CASE MigrateStorage         BY <1>7 DEF MigrateStorage
<1>8. CASE StartV4
  <2>1. svc' \in {svc, v4, "down"} /\ (svc = "down" => svc' \in {v4, "down"})
    BY <1>8 DEF StartV4, Started
  <2>2. UNCHANGED <<dirs, site, v4, recorded, result, tries, rbErr, found, left>>
    BY <1>8 DEF StartV4
  <2>3. \/ pc' \in {"webUpdate", "health"} /\ UNCHANGED verdict
        \/ pc' = "rbRemove" /\ verdict' = "error"
    BY <1>8 DEF StartV4
  <2>4. pc = "start" /\ unit' \in {"on", unit} /\ (pc' = "health" => web = "absent")
    BY <1>8 DEF StartV4
  <2>5. svc' \in {"down", "sound", "broken", "old"}
    BY <2>1, <2>4, <1>8
  <2>6. QED
    BY <2>1, <2>2, <2>3, <2>4, <2>5
<1>9. CASE UpdateWebServerConfigForV4 BY <1>9 DEF UpdateWebServerConfigForV4
<1>10. CASE RestartWebServer
  BY <1>10 DEF RestartWebServer, RestartOK, RestartFailed
<1>11. CASE CheckHealthV4
  <2>1. tries' \in 0..MaxTries
    BY <1>11, MaxTriesAssumption DEF CheckHealthV4, Answers
  <2>2. QED
    BY <1>11, <2>1 DEF CheckHealthV4, Answers
<1>12. CASE MoveV3
  <2>1. CASE UNCHANGED <<tree, final>>
    BY <1>12, <2>1 DEF MoveV3
  <2>2. ASSUME NEW m \in Moved(tree) \cup HalfMoved(tree, "none"),
               tree' = m[1], final' = final \cup {m[2]}
        PROVE  IInv'
    <3>1. m[1] \in Trees /\ m[2] \in Trees /\ tree \in {m[1], m[2]}
      BY <2>2, MoveKeeps
    <3>2. tree' \in Trees /\ final' \in SUBSET Trees
      BY <2>2, <3>1
    <3>3. "v3" \in {tree'} \cup kept' \cup final'
      BY <1>12, <2>2, <3>1 DEF MoveV3
    <3>4. QED
      BY <1>12, <3>2, <3>3 DEF MoveV3
  <2>3. QED
    BY <1>12, <2>1, <2>2 DEF MoveV3
<1>13. CASE SaveState             BY <1>13 DEF SaveState
<1>14. CASE RemoveTempBackup      BY <1>14 DEF RemoveTempBackup
<1>15. CASE RollbackStop          BY <1>15 DEF RollbackStop
<1>16. CASE RollbackRemove        BY <1>16 DEF RollbackRemove
<1>17. CASE RollbackMove          BY <1>17 DEF RollbackMove, Moved, HalfMoved
<1>18. CASE RollbackWeb           BY <1>18 DEF RollbackWeb
<1>19. CASE RollbackRestart
  BY <1>19 DEF RollbackRestart, RestartOK, RestartFailed
<1>20. CASE Crash
  <2>1. CASE pc = "rbMove" /\ UNCHANGED final
    BY <1>20, <2>1 DEF Crash, HalfMoved
  <2>2. CASE pc # "rbMove" /\ UNCHANGED final
    BY <1>20, <2>2 DEF Crash, HalfMoved
  <2>3. ASSUME NEW m \in HalfMoved(tree, "none"), pc = "move", UNCHANGED <<tmp, web>>,
               tree' = m[1], final' = final \cup {m[2]}
        PROVE  IInv'
    <3>1. m[1] \in Trees /\ m[2] \in Trees /\ tree \in {m[1], m[2]}
      BY <2>3, MoveKeeps
    <3>2. tree' \in Trees /\ final' \in SUBSET Trees
      BY <2>3, <3>1
    <3>3. "v3" \in {tree'} \cup kept' \cup final'
      BY <1>20, <2>3, <3>1 DEF Crash
    <3>4. pc' = "idle" /\ result' = "crashed"
      BY <1>20 DEF Crash
    <3>5. UNCHANGED <<run, kept, live, webBak, webBacked, panel, recorded, tmp, web>>
      BY <1>20, <2>3 DEF Crash
    <3>6. QED
      BY <3>2, <3>3, <3>4, <3>5
  <2>4. QED
    BY <1>20, <2>1, <2>2, <2>3 DEF Crash
<1>21. CASE Die                   BY <1>21 DEF Die
<1>22. CASE Respawn               BY <1>22 DEF Respawn
<1>23. CASE UNCHANGED vars        BY <1>23 DEF vars
<1>24. QED
  BY <1>1, <1>2, <1>3, <1>4, <1>5, <1>6, <1>7, <1>8, <1>9, <1>10, <1>11,
     <1>12, <1>13, <1>14, <1>15, <1>16, <1>17, <1>18, <1>19, <1>20, <1>21, <1>22,
     <1>23
  DEF Next, Handler

\* The inductive invariant holds in every reachable state.
LEMMA Invariance == Spec => []IInv
  BY InitIInv, StepIInv, PTL DEF Spec

\* Every state of every run has the declared types.
THEOREM TypeCorrect == Spec => []TypeOK
<1>1. IInv => TypeOK
  BY DEF IInv
<1>2. QED
  BY <1>1, Invariance, PTL

\* The v3 installation is never lost.
THEOREM V3Safety == Spec => []V3TreeKept
<1>1. IInv => V3TreeKept
  BY DEF IInv
<1>2. QED
  BY <1>1, Invariance, PTL

\* A failed migration whose rollback reported no error leaves the v3
\* installation where it was.
THEOREM FailureSafety == Spec => []FailureLeavesV3
<1>1. IInv => FailureLeavesV3
  BY DEF IInv
<1>2. QED
  BY <1>1, Invariance, PTL

\* A migration reported as completed has installed a panel that can answer,
\* behind a web server configured for it, unless an earlier migration left its
\* own panel running.
THEOREM VerdictSafety == Spec => []MigratedIsServed
<1>1. IInv => MigratedIsServed
  BY DEF IInv
<1>2. QED
  BY <1>1, Invariance, PTL

\* The install state is turned to v4 only then, and with the same exception.
THEOREM RecordSafety == Spec => RecordsOnlyHealthy
<1>1. IInv /\ [Next]_vars => [recorded' # recorded => (v4 = "sound" \/ left) /\ V3TreeKept]_vars
  <2> SUFFICES ASSUME IInv, Next, recorded' # recorded
               PROVE  (v4 = "sound" \/ left) /\ V3TreeKept
    OBVIOUS
  <2>1. CASE SaveState
    BY <2>1 DEF SaveState, IInv
  <2>2. CASE UNCHANGED recorded
    BY <2>2
  <2>3. QED
    BY <2>1, <2>2
    DEF Next, Handler, Handle, Load, Backup, BackupWebServerConfig,
        BuildInstallConfig, InstallV4, MigrateStorage, StartV4,
        UpdateWebServerConfigForV4, RestartWebServer, CheckHealthV4, MoveV3,
        RemoveTempBackup, RollbackStop, RollbackRemove, RollbackMove,
        RollbackWeb, RollbackRestart, Crash, Die, Respawn
<1>2. QED
  BY <1>1, Invariance, PTL DEF Spec, RecordsOnlyHealthy

-----------------------------------------------------------------------------
(* A run ends.                                                             *)

\* The length of a run's remainder is a natural number.
LEMMA RankIsNatural == \A l \in Labels : Rank(l) \in 0..15
  BY DEF Labels, Rank

\* The edges of the handler's control flow, the loop apart.
Edge ==
  \/ pc = "load" /\ pc' \in {"idle", "backup"}
  \/ pc = "backup" /\ pc' \in {"idle", "webBackup"}
  \/ pc = "webBackup" /\ pc' = "config"
  \/ pc = "config" /\ pc' \in {"idle", "install"}
  \/ pc = "install" /\ pc' \in {"storage", "rbRemove"}
  \/ pc = "storage" /\ pc' = "start"
  \/ pc = "start" /\ pc' \in {"webUpdate", "health", "rbRemove"}
  \/ pc = "webUpdate" /\ pc' \in {"webRestart", "rbStop"}
  \/ pc = "webRestart" /\ pc' = "health"
  \/ pc = "move" /\ pc' = "save"
  \/ pc = "save" /\ pc' = "clean"
  \/ pc = "rbStop" /\ pc' = "rbRemove"
  \/ pc = "rbRemove" /\ pc' = "rbMove"
  \/ pc = "rbMove" /\ pc' \in {"idle", "rbWeb"}
  \/ pc = "rbWeb" /\ pc' \in {"idle", "rbRestart"}
  \/ pc \in {"clean", "rbRestart"} /\ pc' = "idle"

\* Every edge leads down.
LEMMA EdgeLeadsDown ==
  Edge => Rank(pc) \in 0..15 /\ Rank(pc)' \in 0..15 /\ Rank(pc)' < Rank(pc)
  BY DEF Edge, Rank

\* Every step but a health check follows an edge and counts no try.
LEMMA HandlerFollowsEdges ==
  Handler => CheckHealthV4 \/ (Edge /\ tries' = tries)
<1> SUFFICES ASSUME Handler
             PROVE  CheckHealthV4 \/ (Edge /\ tries' = tries)
  OBVIOUS
<1> USE DEF Edge, Goto, Return, RollBack, run
<1>1. CASE Load                BY <1>1, Zenon DEF Load
<1>2. CASE Backup              BY <1>2, Zenon DEF Backup
<1>3. CASE BackupWebServerConfig
  BY <1>3, Zenon DEF BackupWebServerConfig
<1>4. CASE BuildInstallConfig  BY <1>4, Zenon DEF BuildInstallConfig
<1>5. CASE InstallV4           BY <1>5, Zenon DEF InstallV4
<1>6. CASE MigrateStorage      BY <1>6, Zenon DEF MigrateStorage
<1>7. CASE StartV4             BY <1>7, Zenon DEF StartV4
<1>8. CASE UpdateWebServerConfigForV4
  BY <1>8, Zenon DEF UpdateWebServerConfigForV4
<1>9. CASE RestartWebServer    BY <1>9, Zenon DEF RestartWebServer
<1>10. CASE MoveV3             BY <1>10, Zenon DEF MoveV3
<1>11. CASE SaveState          BY <1>11, Zenon DEF SaveState
<1>12. CASE RemoveTempBackup   BY <1>12, Zenon DEF RemoveTempBackup
<1>13. CASE RollbackStop       BY <1>13, Zenon DEF RollbackStop
<1>14. CASE RollbackRemove     BY <1>14, Zenon DEF RollbackRemove
<1>15. CASE RollbackMove       BY <1>15, Zenon DEF RollbackMove
<1>16. CASE RollbackWeb        BY <1>16, Zenon DEF RollbackWeb
<1>17. CASE RollbackRestart    BY <1>17, Zenon DEF RollbackRestart
<1>18. QED
  BY <1>1, <1>2, <1>3, <1>4, <1>5, <1>6, <1>7, <1>8, <1>9, <1>10, <1>11,
     <1>12, <1>13, <1>14, <1>15, <1>16, <1>17 DEF Handler

\* The handler's own steps strictly shorten what is left of the run.
LEMMA HandlerAdvances == IInv /\ Handler => StepsLeft' < StepsLeft
<1> SUFFICES ASSUME IInv, Handler PROVE StepsLeft' < StepsLeft
  OBVIOUS
<1>1. tries \in 0..MaxTries
  BY DEF IInv, TypeOK
<1>2. CASE CheckHealthV4
  <2>1. \/ tries' = tries + 1 /\ Rank(pc) = 6 /\ Rank(pc)' \in {6}
        \/ tries' = tries /\ Rank(pc) = 6 /\ Rank(pc)' \in 0..5
    BY <1>2 DEF CheckHealthV4, Rank, Goto, RollBack, run
  <2>2. tries' \in 0..MaxTries
    BY <1>2, MaxTriesAssumption DEF CheckHealthV4, Goto, RollBack, run, IInv, TypeOK
  <2>3. QED
    BY <1>1, <2>1, <2>2, MaxTriesAssumption DEF StepsLeft
<1>3. CASE Edge /\ tries' = tries
  BY <1>1, <1>3, EdgeLeadsDown, MaxTriesAssumption DEF StepsLeft
<1>4. QED
  BY <1>2, <1>3, HandlerFollowsEdges

\* Nothing else that can happen during a run lengthens it.
LEMMA NothingSetsBack ==
  IInv /\ pc # "idle" /\ [Next]_vars => StepsLeft' \in 0..StepsLeft
<1> SUFFICES ASSUME IInv, pc # "idle", [Next]_vars
             PROVE  StepsLeft' \in 0..StepsLeft
  OBVIOUS
<1>1. StepsLeft \in Nat /\ StepsLeft' \in Nat
  <2>1. IInv'
    BY StepIInv
  <2>2. Rank(pc) \in 0..15 /\ Rank(pc)' \in 0..15
    <3>1. pc \in Labels /\ pc' \in Labels
      BY <2>1 DEF IInv, TypeOK
    <3>2. QED
      BY <3>1, RankIsNatural
  <2>3. tries \in 0..MaxTries /\ tries' \in 0..MaxTries
    BY <2>1 DEF IInv, TypeOK
  <2>4. QED
    BY <2>2, <2>3, MaxTriesAssumption DEF StepsLeft
<1>2. CASE Handler
  BY <1>1, <1>2, HandlerAdvances
<1>3. CASE Crash
  <2>1. Rank(pc)' = 0 /\ tries' = tries
    BY <1>3 DEF Crash, Rank, run
  <2>2. Rank(pc) \in 0..15 /\ tries \in 0..MaxTries
    BY RankIsNatural DEF IInv, TypeOK
  <2>3. QED
    BY <1>1, <2>1, <2>2, MaxTriesAssumption DEF StepsLeft
<1>4. CASE Die \/ Respawn \/ UNCHANGED vars
  <2>1. pc' = pc /\ tries' = tries
    BY <1>4 DEF Die, Respawn, vars, run
  <2>2. StepsLeft' = StepsLeft
    BY <2>1 DEF StepsLeft
  <2>3. QED
    BY <1>1, <2>2
<1>5. QED
  BY <1>2, <1>3, <1>4 DEF Next, Handle

\* Every migration ends after at most 15 + MaxTries of its own steps,
\* whatever fails and whatever happens around it.
THEOREM BoundedRuns == Spec => RunsAreBounded
<1>1. IInv /\ [Next]_vars
        => [pc # "idle" => /\ StepsLeft' \in 0..StepsLeft
                           /\ Handler => StepsLeft' < StepsLeft]_vars
  BY HandlerAdvances, NothingSetsBack
<1>2. QED
  BY <1>1, Invariance, PTL DEF Spec, RunsAreBounded

-----------------------------------------------------------------------------
(* What is removed.                                                        *)

\* The v3 tree is never removed on the strength of an old copy.
THEOREM RemovalSafety == Spec => RemovedOnlyWithFreshCopy
<1>1. IInv /\ [Next]_vars
        => [tree = "v3" /\ tree' # "v3" => tmp' = "v3"]_vars
  <2> SUFFICES ASSUME IInv, Next, tree = "v3", tree' # "v3"
               PROVE  tmp' = "v3"
    OBVIOUS
  <2>1. CASE MoveV3
    BY <2>1 DEF MoveV3, Moved, HalfMoved, IInv, TreeUntouched, TreeCopied
  <2>2. CASE RollbackRemove
    BY <2>2 DEF RollbackRemove, IInv, TreeUntouched, TreeCopied
  <2>3. CASE RollbackMove
    BY <2>3 DEF RollbackMove, Moved, HalfMoved, IInv, TreeUntouched, TreeCopied
  <2>4. CASE Crash
    BY <2>4 DEF Crash, HalfMoved, IInv, TreeUntouched, TreeCopied
  <2>5. CASE UNCHANGED tree
    BY <2>5
  <2>6. QED
    BY <2>1, <2>2, <2>3, <2>4, <2>5
    DEF Next, Handler, dirs, Handle, Load, Backup, BackupWebServerConfig,
        BuildInstallConfig, InstallV4, MigrateStorage, StartV4,
        UpdateWebServerConfigForV4, RestartWebServer, CheckHealthV4, SaveState,
        RemoveTempBackup, RollbackStop, RollbackWeb, RollbackRestart, Die, Respawn
<1>2. QED
  BY <1>1, Invariance, PTL DEF Spec, RemovedOnlyWithFreshCopy

=============================================================================
