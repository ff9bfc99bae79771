------------------------ MODULE DaemonSwitch_proofs ------------------------
(***************************************************************************)
(* The safety of the switch to gRPC for every number of polls, with or     *)
(* without an api_host in the legacy config.                               *)
(***************************************************************************)
EXTENDS DaemonSwitch, TLAPS

\* A run starts its polls from zero.
LEMMA ZeroAttempts == 0 \in 0..MaxAttempts
  BY MaxAttemptsAssumption

\* A registered legacy daemon satisfies the invariant.
LEMMA InitIInv == Init => IInv
  BY ZeroAttempts
  DEF Init, IInv, TypeOK, Labels, Results, Contents, LegacyConfigRecoverable,
      SwitchedIsComplete, RolledBackRestoresConfig, RecordedModeIsTrue

\* No step of the handler, of the daemon, of systemd or of the panel, and no
\* crash, breaks the invariant.
LEMMA StepIInv == IInv /\ [Next]_vars => IInv'
<1> SUFFICES ASSUME IInv, [Next]_vars PROVE IInv'
  OBVIOUS
<1> USE DEF IInv, TypeOK, Labels, Results, Contents, LegacyConfigRecoverable,
        SwitchedIsComplete, RolledBackRestoresConfig, RecordedModeIsTrue,
        ctl, files, proc, Goto, Return, Fail, RollBack
<1>1. CASE HandleSwitchToGRPC  BY <1>1, ZeroAttempts DEF HandleSwitchToGRPC
<1>2. CASE LoadConfig          BY <1>2 DEF LoadConfig
<1>3. CASE Preflight           BY <1>3 DEF Preflight
<1>4. CASE Backup              BY <1>4 DEF Backup
<1>5. CASE Mutate              BY <1>5 DEF Mutate
<1>6. CASE SaveTruncate        BY <1>6 DEF SaveTruncate
<1>7. CASE SaveWrite           BY <1>7 DEF SaveWrite
<1>8. CASE Stop                BY <1>8 DEF Stop, StopOK, StopFailed
<1>9. CASE Start               BY <1>9 DEF Start, StartOK, StartFailed
<1>10. CASE GraceCheck         BY <1>10 DEF GraceCheck
<1>11. CASE VerifyLegacyRevoked
  <2>1. attempts' \in 0..MaxAttempts
    BY <1>11, MaxAttemptsAssumption DEF VerifyLegacyRevoked
  <2>2. QED
    BY <1>11, <2>1 DEF VerifyLegacyRevoked
<1>12. CASE VerificationTimeout BY <1>12 DEF VerificationTimeout
<1>13. CASE PersistState       BY <1>13 DEF PersistState
<1>14. CASE RollbackStop       BY <1>14 DEF RollbackStop, StopOK, StopFailed
<1>15. CASE RestoreTruncate    BY <1>15 DEF RestoreTruncate
<1>16. CASE RestoreWrite       BY <1>16 DEF RestoreWrite
<1>17. CASE RollbackStart      BY <1>17 DEF RollbackStart, StartOK, StartFailed
<1>18. CASE Crash              BY <1>18 DEF Crash
<1>19. CASE Register           BY <1>19 DEF Register
<1>20. CASE Die                BY <1>20 DEF Die
<1>21. CASE Respawn            BY <1>21 DEF Respawn
<1>22. CASE UNCHANGED vars     BY <1>22 DEF vars
<1>23. QED
  BY <1>1, <1>2, <1>3, <1>4, <1>5, <1>6, <1>7, <1>8, <1>9, <1>10, <1>11,
     <1>12, <1>13, <1>14, <1>15, <1>16, <1>17, <1>18, <1>19, <1>20, <1>21,
     <1>22
  DEF Next, Handler

\* The inductive invariant holds in every reachable state.
LEMMA Invariance == Spec => []IInv
  BY InitIInv, StepIInv, PTL DEF Spec

\* Every state of every run has the declared types.
THEOREM TypeCorrect == Spec => []TypeOK
<1>1. IInv => TypeOK
  BY DEF IInv
<1>2. QED
  BY <1>1, Invariance, PTL

\* The legacy registration data is never lost, whatever fails or crashes.
THEOREM ConfigSafety == Spec => []LegacyConfigRecoverable
<1>1. IInv => LegacyConfigRecoverable
  BY DEF IInv
<1>2. QED
  BY <1>1, Invariance, PTL

\* The operator is told of a success only when the panel dropped the legacy
\* credentials and no legacy process is left.
THEOREM SuccessSafety == Spec => []SwitchedIsComplete
<1>1. IInv => SwitchedIsComplete
  BY DEF IInv
<1>2. QED
  BY <1>1, Invariance, PTL

\* The operator is told of a rollback only when the legacy config is back.
THEOREM RollbackSafety == Spec => []RolledBackRestoresConfig
<1>1. IInv => RolledBackRestoresConfig
  BY DEF IInv
<1>2. QED
  BY <1>1, Invariance, PTL

\* The recorded mode agrees with the disk and the panel.
THEOREM RecordSafety == Spec => []RecordedModeIsTrue
<1>1. IInv => RecordedModeIsTrue
  BY DEF IInv
<1>2. QED
  BY <1>1, Invariance, PTL

-----------------------------------------------------------------------------
(* A run ends.                                                             *)

\* The length of a run's remainder is a natural number.
LEMMA RankIsNatural == \A l \in Labels : Rank(l) \in 0..14
  BY DEF Labels, Rank

\* The edges of the handler's control flow, the polling loop apart.
Edge ==
  \/ pc = "load" /\ pc' \in {"idle", "preflight"}
  \/ pc = "preflight" /\ pc' \in {"idle", "backup"}
  \/ pc = "backup" /\ pc' \in {"idle", "mutate"}
  \/ pc = "mutate" /\ pc' \in {"rbstop", "save"}
  \/ pc = "save" /\ pc' \in {"rbstop", "saving"}
  \/ pc = "saving" /\ pc' \in {"rbstop", "stop"}
  \/ pc = "stop" /\ pc' \in {"rbstop", "start"}
  \/ pc = "start" /\ pc' \in {"rbstop", "grace"}
  \/ pc = "grace" /\ pc' \in {"rbstop", "verify"}
  \/ pc = "verify" /\ pc' = "rbstop"
  \/ pc = "rbstop" /\ pc' = "rbrestore"
  \/ pc = "rbrestore" /\ pc' \in {"idle", "rbrestoring"}
  \/ pc = "rbrestoring" /\ pc' \in {"idle", "rbstart"}
  \/ pc \in {"persist", "rbstart"} /\ pc' = "idle"

\* Every edge leads down.
LEMMA EdgeLeadsDown ==
  Edge => Rank(pc) \in 0..14 /\ Rank(pc)' \in 0..14 /\ Rank(pc)' < Rank(pc)
  BY DEF Edge, Rank

\* Every step but a poll follows an edge and makes no attempt.
LEMMA HandlerFollowsEdges ==
  Handler => VerifyLegacyRevoked \/ (Edge /\ attempts' = attempts)
<1> SUFFICES ASSUME Handler
             PROVE  VerifyLegacyRevoked \/ (Edge /\ attempts' = attempts)
  OBVIOUS
<1> USE DEF Edge, Goto, Return, Fail, RollBack
<1>1. CASE LoadConfig         BY <1>1, Zenon DEF LoadConfig
<1>2. CASE Preflight          BY <1>2, Zenon DEF Preflight
<1>3. CASE Backup             BY <1>3, Zenon DEF Backup
<1>4. CASE Mutate             BY <1>4, Zenon DEF Mutate
<1>5. CASE SaveTruncate       BY <1>5, Zenon DEF SaveTruncate
<1>6. CASE SaveWrite          BY <1>6, Zenon DEF SaveWrite
<1>7. CASE Stop               BY <1>7, Zenon DEF Stop
<1>8. CASE Start              BY <1>8, Zenon DEF Start
<1>9. CASE GraceCheck         BY <1>9, Zenon DEF GraceCheck
<1>10. CASE VerificationTimeout BY <1>10, Zenon DEF VerificationTimeout
<1>11. CASE PersistState      BY <1>11, Zenon DEF PersistState
<1>12. CASE RollbackStop      BY <1>12, Zenon DEF RollbackStop
<1>13. CASE RestoreTruncate   BY <1>13, Zenon DEF RestoreTruncate
<1>14. CASE RestoreWrite      BY <1>14, Zenon DEF RestoreWrite
<1>15. CASE RollbackStart     BY <1>15, Zenon DEF RollbackStart
<1>16. QED
  BY <1>1, <1>2, <1>3, <1>4, <1>5, <1>6, <1>7, <1>8, <1>9, <1>10, <1>11, <1>12,
     <1>13, <1>14, <1>15 DEF Handler

\* The handler's own steps strictly shorten what is left of the run.
LEMMA HandlerAdvances == IInv /\ Handler => StepsLeft' < StepsLeft
<1> SUFFICES ASSUME IInv, Handler PROVE StepsLeft' < StepsLeft
  OBVIOUS
<1>1. attempts \in 0..MaxAttempts
  BY DEF IInv, TypeOK
<1>2. CASE VerifyLegacyRevoked
  <2>1. attempts' = attempts + 1 /\ attempts < MaxAttempts
    BY <1>2 DEF VerifyLegacyRevoked
  <2>2. Rank(pc) = 5 /\ Rank(pc)' \in {1, 5}
    BY <1>2 DEF VerifyLegacyRevoked, Rank
  <2>3. QED
    BY <1>1, <2>1, <2>2, MaxAttemptsAssumption DEF StepsLeft
<1>3. CASE Edge /\ attempts' = attempts
  BY <1>1, <1>3, EdgeLeadsDown, MaxAttemptsAssumption DEF StepsLeft
<1>4. QED
  BY <1>2, <1>3, HandlerFollowsEdges

\* Nothing else that can happen during a run lengthens it.
LEMMA NothingSetsBack ==
  IInv /\ pc # "idle" /\ [Next]_vars => StepsLeft' \in 0..StepsLeft
<1> SUFFICES ASSUME IInv, pc # "idle", [Next]_vars
             PROVE  StepsLeft' \in 0..StepsLeft
  OBVIOUS
<1>1. StepsLeft \in Nat /\ StepsLeft' \in Nat
  <2>1. IInv'
    BY StepIInv
  <2>2. Rank(pc) \in 0..14 /\ Rank(pc)' \in 0..14
    <3>1. pc \in Labels /\ pc' \in Labels
      BY <2>1 DEF IInv, TypeOK
    <3>2. QED
      BY <3>1, RankIsNatural
  <2>3. attempts \in 0..MaxAttempts /\ attempts' \in 0..MaxAttempts
    BY <2>1 DEF IInv, TypeOK
  <2>4. QED
    BY <2>2, <2>3, MaxAttemptsAssumption DEF StepsLeft
<1>2. CASE Handler
  BY <1>1, <1>2, HandlerAdvances
<1>3. CASE Crash
  <2>1. Rank(pc)' = 0 /\ attempts' = attempts
    BY <1>3 DEF Crash, Rank
  <2>2. Rank(pc) \in 0..14 /\ attempts \in 0..MaxAttempts
    BY RankIsNatural DEF IInv, TypeOK
  <2>3. QED
    BY <1>1, <2>1, <2>2, MaxAttemptsAssumption DEF StepsLeft
<1>4. CASE Register \/ Die \/ Respawn \/ UNCHANGED vars
  <2>1. pc' = pc /\ attempts' = attempts
    BY <1>4 DEF Register, Die, Respawn, vars, ctl
  <2>2. StepsLeft' = StepsLeft
    BY <2>1 DEF StepsLeft
  <2>3. QED
    BY <1>1, <2>2
<1>5. QED
  BY <1>2, <1>3, <1>4 DEF Next, HandleSwitchToGRPC

\* Every run of the switch ends after at most 14 + MaxAttempts of its own
\* steps, whatever fails and whatever happens around it.
THEOREM BoundedRuns == Spec => RunsAreBounded
<1>1. IInv /\ [Next]_vars
        => [pc # "idle" => /\ StepsLeft' \in 0..StepsLeft
                           /\ Handler => StepsLeft' < StepsLeft]_vars
  BY HandlerAdvances, NothingSetsBack
<1>2. QED
  BY <1>1, Invariance, PTL DEF Spec, RunsAreBounded

=============================================================================
