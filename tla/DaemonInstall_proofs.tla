------------------------ MODULE DaemonInstall_proofs ------------------------
(***************************************************************************)
(* The safety of installing the daemon for every set of tokens and any     *)
(* number of commands, with a failure or a kill at every step.             *)
(***************************************************************************)
EXTENDS DaemonInstall, TLAPS

\* Numbers of commands, contents of files, and what is neither.
LEMMA Numbers ==
  /\ 0 \in 0 .. MaxRuns /\ 0 \in Contents /\ Torn \in Contents
  /\ Torn \notin Runs /\ 0 \notin Runs /\ Torn # 0
  /\ \A r \in Runs : r \in Contents /\ r \in 0 .. MaxRuns
  BY RunsAssumption DEF Torn, Contents, Runs

\* The number of a command is never a torn content.
LEMMA Wholes == 0 # Torn /\ \A r \in 0 .. MaxRuns : r # Torn
BY RunsAssumption DEF Torn

\* The next command has a number.
LEMMA NextRun ==
  ASSUME NEW r \in 0 .. MaxRuns, r < MaxRuns
  PROVE  r + 1 \in Runs
  BY RunsAssumption DEF Runs

\* The two halves of each rewrite.
LEMMA Halves ==
  /\ Half["ca"] = "write ca" /\ Half["crt"] = "write crt"
  /\ Half["config"] = "write config" /\ Half["steam path"] = "write steam path"
  /\ Half["cdn"] = "write cdn"
  BY DEF Half, Rewrites

LEMMA Afters ==
  /\ After["ca"] = "crt" /\ After["crt"] = "config"
  /\ After["config"] = "cdn" /\ After["steam path"] = "cdn"
  /\ After["cdn"] = "save"
  BY DEF After, Rewrites

LEMMA FilesAt ==
  /\ FileAt["ca"] = "ca" /\ FileAt["crt"] = "crt"
  /\ FileAt["config"] = "config" /\ FileAt["steam path"] = "config"
  /\ FileAt["cdn"] = "config"
  BY DEF FileAt, Rewrites

\* One file is written, the others stay.
LEMMA FileStep ==
  ASSUME file \in [Files -> Contents], NEW f \in Files, NEW v \in Contents,
         file' = [file EXCEPT ![f] = v]
  PROVE  /\ file' \in [Files -> Contents]
         /\ file'["ca"] = IF f = "ca" THEN v ELSE file["ca"]
         /\ file'["crt"] = IF f = "crt" THEN v ELSE file["crt"]
         /\ file'["config"] = IF f = "config" THEN v ELSE file["config"]
  BY DEF Files

\* The labels of the model, one by one.
LEMMA AllLabels ==
  Labels = {"idle", "done", "failed", "removed", "cdn", "write cdn", "save",
            "stop daemon", "remove files", "remove certs", "ca", "crt",
            "config", "steam path", "write ca", "write crt", "write config",
            "write steam path", "resolve", "steam", "extract", "binary",
            "copy binary", "key", "write key", "csr", "write csr", "post",
            "enroll", "start"}
  BY Halves DEF Labels, Ended, Tolerant, Rewrites

\* A resolved address is one where the panel that was asked for answers and
\* can be verified.
LEMMA ResolvedIsPanel ==
  ASSUME NEW n \in Nets, NEW h \in Resolved(n)
  PROVE  /\ h \in Hosts
         /\ n.answer[h] = n.answer[Given]
         /\ n.answer[h] = "plain" \/ h \in n.covers
<1>1. Given \in Hosts
  BY DEF Hosts
<1>2. n.answer \in [Hosts -> {"none", "plain", "panel", "other"}] /\ n.answer[Given] # "other"
  BY DEF Nets
<1>3. n.answer[Given] \in {"none", "plain", "panel"}
  BY <1>1, <1>2
<1>4. CASE n.answer[Given] = "none"
  BY <1>4 DEF Resolved
<1>5. CASE n.answer[Given] = "plain"
  BY <1>1, <1>5 DEF Resolved
<1>6. CASE n.answer[Given] = "panel" /\ Given \in n.covers
  BY <1>1, <1>6 DEF Resolved
<1>7. CASE n.answer[Given] = "panel" /\ Given \notin n.covers
  <2>1. h \in Rewritten(n)
    BY <1>7 DEF Resolved
  <2>2. PICK i \in 1 .. Len(LocalHosts) : h = LocalHosts[i] /\ Accepted(n, i)
    BY <2>1 DEF Rewritten
  <2>3. QED
    BY <2>2 DEF Accepted, Candidate, Hosts
<1>8. QED
  BY <1>3, <1>4, <1>5, <1>6, <1>7

\* The history flags stay Boolean.
LEMMA StepFlags == FlagsOK /\ [Next]_vars => FlagsOK'
<1> SUFFICES ASSUME FlagsOK, [Next]_vars PROVE FlagsOK'
  OBVIOUS
<1> USE DEF FlagsOK
<1>1. ASSUME NEW f, NEW t, Install(f, t) PROVE FlagsOK'
  <2>1. panelAt' \in [same : BOOLEAN, verifies : BOOLEAN] /\ faulted' \in BOOLEAN
    BY <1>1 DEF Install, Unknown
  <2>2. at' \in [up : BOOLEAN, partial : BOOLEAN, spent : BOOLEAN, stale : BOOLEAN]
    BY <1>1 DEF Install
  <2>3. QED
    BY <2>1, <2>2
<1>2. CASE HandleUninstall
  <2>1. Unknown \in [same : BOOLEAN, verifies : BOOLEAN]
    BY DEF Unknown
  <2>2. NoFacts \in [up : BOOLEAN, partial : BOOLEAN, spent : BOOLEAN, stale : BOOLEAN]
    BY DEF NoFacts
  <2>3. QED
    BY <1>2, <2>1, <2>2, Zenon DEF HandleUninstall
<1>3. CASE ResolveConnectAddress
  <2>1. at' = at /\ faulted' = faulted
    BY <1>3 DEF ResolveConnectAddress, input
  <2>2. panelAt' \in [same : BOOLEAN, verifies : BOOLEAN]
    <3>1. PICK n \in Nets :
            \/ \E h \in Resolved(n) :
                 panelAt' = [same |-> n.answer[h] = n.answer[Given],
                             verifies |-> n.answer[h] = "plain" \/ h \in n.covers]
            \/ panelAt' = panelAt
      BY <1>3, Zenon DEF ResolveConnectAddress
    <3>2. ASSUME NEW h
          PROVE  [same |-> n.answer[h] = n.answer[Given],
                  verifies |-> n.answer[h] = "plain" \/ h \in n.covers]
                   \in [same : BOOLEAN, verifies : BOOLEAN]
      OBVIOUS
    <3>3. QED
      BY <3>1, <3>2
  <2>3. QED
    BY <2>1, <2>2
<1>4. CASE PostCreate \/ CDNFails \/ EnrollDaemon \/ SaveDaemonInstallState \/ Fail
  BY <1>4, Zenon
  DEF PostCreate, CDNFails, EnrollDaemon, SaveDaemonInstallState, Fail, input, target
<1>5. CASE \/ InstallSteamCMD \/ ExtractSteamCMD \/ InstallDaemonBinaries \/ CopyBinary
           \/ GenerateKey \/ WriteKey \/ GenerateRequest \/ WriteRequest
           \/ Truncate \/ (\E l \in Rewrites : Write(l)) \/ NothingToRewrite
           \/ StartDaemon \/ StopAndUninstallDaemon \/ RemoveFiles
           \/ RemoveCertificate \/ EndUninstall \/ Crash \/ DaemonExits
  BY <1>5, Zenon
  DEF InstallSteamCMD, ExtractSteamCMD, InstallDaemonBinaries, CopyBinary,
      GenerateKey, WriteKey, GenerateRequest, WriteRequest, Truncate, Write,
      NothingToRewrite, StartDaemon, StopAndUninstallDaemon, RemoveFiles,
      RemoveCertificate, EndUninstall, Crash, DaemonExits, input, target
<1>6. CASE UNCHANGED vars
  BY <1>6 DEF vars
<1>7. QED
  BY <1>1, <1>2, <1>3, <1>4, <1>5, <1>6 DEF Next

\* A machine without a daemon satisfies the invariant.
LEMMA InitIInv == Init => IInv
<1> SUFFICES ASSUME Init PROVE IInv
  OBVIOUS
<1>1. Unknown \in [same : BOOLEAN, verifies : BOOLEAN]
  BY DEF Unknown
<1>2. NoFacts \in [up : BOOLEAN, partial : BOOLEAN, spent : BOOLEAN, stale : BOOLEAN]
  BY DEF NoFacts
<1>3. FlagsOK
  BY <1>1, <1>2, Zenon DEF Init, FlagsOK
<1>4. TypeOK
  BY <1>3, Numbers, AllLabels DEF Init, TypeOK, NoNode
<1>5. FlowInv /\ LocalInv /\ KeyInv /\ PanelInv /\ DoneIsConsistent /\ FailsOnlyIfKnown
  BY DEF Init, FlowInv, LocalInv, KeyInv, PanelInv, DoneIsConsistent, FailsOnlyIfKnown,
         Ended, BeforeBinary, LegacySteps, GrpcSteps, LastSteps, AfterBinary,
         Registered, Unregistered
<1>6. QED
  BY <1>4, <1>5 DEF IInv

\* No step of a command and no fault breaks the invariant.
LEMMA StepIInv == IInv /\ [Next]_vars => IInv'
<1> SUFFICES ASSUME IInv, [Next]_vars PROVE IInv'
  OBVIOUS
<1>0. FlagsOK'
  BY StepFlags DEF IInv, TypeOK
<1> USE <1>0, Numbers, AllLabels
    DEF IInv, TypeOK, FlowInv, LocalInv, KeyInv, PanelInv, DoneIsConsistent, FailsOnlyIfKnown, NoNode, Ended, BeforeBinary, LegacySteps,
        GrpcSteps, LastSteps, AfterBinary, Registered, Unregistered,
        certs, remote, target, input
<1>1. ASSUME NEW f \in {"legacy", "grpc"}, NEW t \in Tokens, Install(f, t) PROVE IInv'
  BY <1>1, NextRun, ZenonT(60) DEF Install
<1>2. ASSUME NEW l \in Rewrites, Write(l) PROVE IInv'
  <2>a. FileAt[l] \in Files /\ run \in Runs
    BY <1>2, FilesAt, Halves DEF Files, Rewrites, Write
  <2>b. /\ file' \in [Files -> Contents]
        /\ file'["ca"] = IF FileAt[l] = "ca" THEN run ELSE file["ca"]
        /\ file'["crt"] = IF FileAt[l] = "crt" THEN run ELSE file["crt"]
        /\ file'["config"] = IF FileAt[l] = "config" THEN run ELSE file["config"]
    BY <1>2, <2>a, FileStep DEF Write
  <2>c. /\ pc = Half[l] /\ pc' = After[l]
        /\ UNCHANGED <<input, target, steam, binary, certs, remote, saved, daemon, faulted>>
    BY <1>2 DEF Write
  <2> USE <2>a, <2>b, <2>c, Halves, Afters, FilesAt
  <2>1. CASE l = "ca"          BY <2>1, ZenonT(60)
  <2>2. CASE l = "crt"         BY <2>2, ZenonT(60)
  <2>3. CASE l = "config"      BY <2>3, ZenonT(60)
  <2>4. CASE l = "steam path"  BY <2>4, ZenonT(60)
  <2>5. CASE l = "cdn"         BY <2>5, ZenonT(60)
  <2>6. QED
    BY <2>1, <2>2, <2>3, <2>4, <2>5 DEF Rewrites
<1>3. CASE ResolveConnectAddress
  <2>1. PICK n \in Nets :
          \/ \E h \in Resolved(n) :
               /\ addr' = h
               /\ panelAt' = [same |-> n.answer[h] = n.answer[Given],
                              verifies |-> n.answer[h] = "plain" \/ h \in n.covers]
               /\ pc' = "steam"
          \/ pc' = "failed" /\ UNCHANGED <<addr, panelAt>>
    BY <1>3, Zenon DEF ResolveConnectAddress
  <2>2. CASE pc' = "failed" /\ UNCHANGED <<addr, panelAt>>
    BY <1>3, <2>2, ZenonT(60) DEF ResolveConnectAddress
  <2>3. ASSUME NEW h \in Resolved(n), addr' = h, pc' = "steam",
               panelAt' = [same |-> n.answer[h] = n.answer[Given],
                           verifies |-> n.answer[h] = "plain" \/ h \in n.covers]
        PROVE  IInv'
    <3>1. addr' \in Hosts /\ panelAt'.same /\ panelAt'.verifies
      BY <2>3, ResolvedIsPanel
    <3>2. QED
      BY <1>3, <2>3, <3>1, ZenonT(60) DEF ResolveConnectAddress
  <2>4. QED
    BY <2>1, <2>2, <2>3
<1>4. CASE InstallSteamCMD
  BY <1>4, ZenonT(60) DEF InstallSteamCMD
<1>5. CASE ExtractSteamCMD
  BY <1>5, ZenonT(60) DEF ExtractSteamCMD
<1>6. CASE InstallDaemonBinaries
  BY <1>6, ZenonT(60) DEF InstallDaemonBinaries, BinaryInstalled
<1>7. CASE CopyBinary
  BY <1>7, ZenonT(60) DEF CopyBinary, BinaryInstalled
<1>8. CASE GenerateKey
  BY <1>8, ZenonT(60) DEF GenerateKey
<1>9. CASE WriteKey
  BY <1>9, ZenonT(60) DEF WriteKey
<1>10. CASE GenerateRequest
  BY <1>10, ZenonT(60) DEF GenerateRequest
<1>11. CASE WriteRequest
  BY <1>11, ZenonT(60) DEF WriteRequest
<1>12. CASE PostCreate
  BY <1>12, ZenonT(60) DEF PostCreate, Register
<1>13. CASE Truncate
  <2>a. FileAt[pc] \in Files
    BY <1>13, FilesAt DEF Files, Rewrites, Truncate
  <2>b. /\ file' \in [Files -> Contents]
        /\ file'["ca"] = IF FileAt[pc] = "ca" THEN Torn ELSE file["ca"]
        /\ file'["crt"] = IF FileAt[pc] = "crt" THEN Torn ELSE file["crt"]
        /\ file'["config"] = IF FileAt[pc] = "config" THEN Torn ELSE file["config"]
    BY <1>13, <2>a, FileStep DEF Truncate
  <2>c. /\ pc \in Rewrites /\ pc' = Half[pc]
        /\ UNCHANGED <<input, target, steam, binary, certs, remote, saved, daemon, faulted>>
    BY <1>13 DEF Truncate
  <2> USE <2>a, <2>b, <2>c, Halves, FilesAt
  <2>1. CASE pc = "ca"          BY <2>1, ZenonT(60)
  <2>2. CASE pc = "crt"         BY <2>2, ZenonT(60)
  <2>3. CASE pc = "config"      BY <2>3, ZenonT(60)
  <2>4. CASE pc = "steam path"  BY <2>4, ZenonT(60)
  <2>5. CASE pc = "cdn"         BY <2>5, ZenonT(60)
  <2>6. QED
    BY <2>1, <2>2, <2>3, <2>4, <2>5, <2>c DEF Rewrites
<1>14. CASE NothingToRewrite
  BY <1>14, Afters, ZenonT(60) DEF NothingToRewrite
<1>15. CASE CDNFails
  BY <1>15, ZenonT(60) DEF CDNFails
<1>16. CASE EnrollDaemon
  <2> USE <1>16 DEF EnrollDaemon, Register
  <2>1. used' \subseteq Tokens /\ node' \in [Runs -> Contents] /\ file' \in [Files -> Contents]
    <3>1. used' \subseteq Tokens /\ node' \in [Runs -> Contents]
      OBVIOUS
    <3>2. \/ file' = file
          \/ file' = [file EXCEPT !["config"] = run]
          \/ file' = [file EXCEPT !["config"] = Torn]
      OBVIOUS
    <3>3. "config" \in Files /\ run \in Contents
      BY DEF Files
    <3>4. QED
      BY <3>1, <3>2, <3>3, FileStep
  <2>2. CASE pc' = "failed"
    BY <2>1, <2>2, ZenonT(60)
  <2>3. CASE pc' = "steam path"
    BY <2>1, <2>3, ZenonT(60) DEF Files
  <2>4. QED
    BY <2>2, <2>3
<1>17. CASE SaveDaemonInstallState
  BY <1>17, ZenonT(60) DEF SaveDaemonInstallState
<1>18. CASE StartDaemon
  BY <1>18, ZenonT(60) DEF StartDaemon
<1>19. CASE HandleUninstall
  BY <1>19, NextRun, ZenonT(60) DEF HandleUninstall
<1>20. CASE StopAndUninstallDaemon
  BY <1>20, ZenonT(60) DEF StopAndUninstallDaemon, DaemonEnds
<1>21. CASE RemoveFiles
  <2>1. file' \in [Files -> Contents] /\ binary' \in {"none", binary}
    <3>1. PICK c \in {0, file["config"]} : file' = [file EXCEPT !["config"] = c]
      BY <1>21 DEF RemoveFiles
    <3>2. "config" \in Files /\ c \in Contents
      BY DEF Files
    <3>3. file' \in [Files -> Contents]
      BY <3>1, <3>2, FileStep
    <3>4. QED
      BY <1>21, <3>3 DEF RemoveFiles
  <2>2. QED
    BY <1>21, <2>1, ZenonT(60) DEF RemoveFiles
<1>22. CASE RemoveCertificate
  BY <1>22, ZenonT(60) DEF RemoveCertificate
<1>23. CASE EndUninstall
  BY <1>23, ZenonT(60) DEF EndUninstall
<1>24. CASE Fail
  BY <1>24, ZenonT(60) DEF Fail, Tolerant
<1>25. CASE Crash
  BY <1>25, ZenonT(60) DEF Crash
<1>26. CASE DaemonExits
  BY <1>26, ZenonT(60) DEF DaemonExits, DaemonEnds
<1>27. CASE UNCHANGED vars
  <2> USE <1>27 DEF vars
  <2>1. TypeOK' /\ FlowInv' /\ LocalInv'              BY ZenonT(60)
  <2>2. KeyInv' /\ PanelInv'                          BY ZenonT(60)
  <2>3. DoneIsConsistent' /\ FailsOnlyIfKnown'        BY ZenonT(60)
  <2>4. QED
    BY <2>1, <2>2, <2>3
<1>28. QED
  BY <1>1, <1>2, <1>3, <1>4, <1>5, <1>6, <1>7, <1>8, <1>9, <1>10, <1>11, <1>12, <1>13, <1>14, <1>15, <1>16, <1>17, <1>18, <1>19, <1>20, <1>21, <1>22, <1>23, <1>24, <1>25, <1>26, <1>27 DEF Next

\* The inductive invariant holds in every reachable state.
LEMMA Invariance == Spec => []IInv
  BY InitIInv, StepIInv, PTL DEF Spec

\* Every state of every command has the declared types.
THEOREM TypeCorrect == Spec => []TypeOK
<1>1. IInv => TypeOK
  BY DEF IInv
<1>2. QED
  BY <1>1, Invariance, PTL

\* An installation that ends well has left one registration in all its files,
\* at the panel and in the daemon, whatever earlier commands left half done.
THEOREM DoneSafety == Spec => []DoneIsConsistent
<1>1. IInv => DoneIsConsistent
  BY DEF IInv
<1>2. QED
  BY <1>1, Invariance, PTL

\* Without a fault of its own an installation fails only for a spent token, an
\* unverifiable panel, a binary in use or a torn key or certificate request.
THEOREM FailureSafety == Spec => []FailsOnlyIfKnown
<1>1. IInv => FailsOnlyIfKnown
  BY DEF IInv
<1>2. QED
  BY <1>1, Invariance, PTL

\* The setup key goes only to the panel that the connect URL named, at an
\* address where its certificate can be verified.
THEOREM EnrollmentSafety == Spec => EnrolledWithVerifiedPanel
<1>1. IInv /\ [Next]_vars
        => [node' # node /\ flow = "grpc" => panelAt.same /\ panelAt.verifies]_vars
  <2> SUFFICES ASSUME IInv, Next, node' # node, flow = "grpc"
               PROVE  panelAt.same /\ panelAt.verifies
    BY DEF vars
  <2>1. PostCreate \/ EnrollDaemon
    BY DEF Next, Install, ResolveConnectAddress, InstallSteamCMD, ExtractSteamCMD,
        InstallDaemonBinaries, CopyBinary, GenerateKey, WriteKey, GenerateRequest,
        WriteRequest, Truncate, Write, NothingToRewrite, CDNFails,
        SaveDaemonInstallState, StartDaemon, HandleUninstall,
        StopAndUninstallDaemon, RemoveFiles, RemoveCertificate, EndUninstall,
        Fail, Crash, DaemonExits, remote
  <2>2. pc = "enroll"
    BY <2>1 DEF PostCreate, EnrollDaemon, IInv, FlowInv, LegacySteps
  <2>3. QED
    BY <2>2 DEF IInv, PanelInv, AfterBinary
<1>2. QED
  BY <1>1, Invariance, PTL DEF Spec, EnrolledWithVerifiedPanel

\* One step that damages neither key nor request keeps them a pair.
LEMMA StepPairInv ==
  TypeOK /\ FlowInv /\ PairInv /\ Next /\ ~DamagesCertificates => PairInv'
<1> SUFFICES ASSUME TypeOK, FlowInv, PairInv, Next, ~DamagesCertificates
             PROVE  PairInv'
  OBVIOUS
<1> USE DEF PairInv, certs, input
<1>0. /\ run \in 0 .. MaxRuns /\ key \in Contents /\ csr \in Contents /\ pc \in Labels
      /\ 0 # Torn /\ \A r \in 0 .. MaxRuns : r # Torn
  <2>1. run \in 0 .. MaxRuns /\ key \in Contents /\ csr \in Contents /\ pc \in Labels
    BY DEF TypeOK
  <2>2. 0 # Torn /\ \A r \in 0 .. MaxRuns : r # Torn
    BY Wholes
  <2>3. QED
    BY <2>1, <2>2
<1>1. ASSUME UNCHANGED <<key, csr, at>>,
             pc \notin {"write key", "write csr", "remove certs"},
             pc' \notin {"write key", "write csr"}
      PROVE  PairInv'
  BY <1>1
<1>2. CASE \E f \in {"legacy", "grpc"}, t \in Tokens : Install(f, t)
  <2>1. /\ UNCHANGED <<key, csr>> /\ at'.stale = (csr \notin {0, key})
        /\ pc \in Ended /\ pc' \in {"resolve", "steam"}
    <3>1. PICK f \in {"legacy", "grpc"}, t \in Tokens : Install(f, t)
      BY <1>2
    <3>2. UNCHANGED <<key, csr>> /\ pc \in Ended /\ at'.stale = (csr \notin {0, key})
      BY <3>1 DEF Install
    <3>3. pc' \in {"resolve", "steam"}
      BY <3>1 DEF Install
    <3>4. QED
      BY <3>2, <3>3
  <2>2. QED
    BY <2>1 DEF Ended
<1>3. CASE HandleUninstall
  BY <1>3 DEF HandleUninstall, NoFacts, Ended
<1>4. CASE GenerateKey \/ WriteKey
  BY <1>0, <1>4 DEF GenerateKey, WriteKey
<1>5. CASE GenerateRequest \/ WriteRequest
  BY <1>0, <1>5 DEF GenerateRequest, WriteRequest
<1>6. CASE RemoveCertificate
  BY <1>0, <1>6 DEF RemoveCertificate
<1>7. CASE EndUninstall
  BY <1>7 DEF EndUninstall, DamagesCertificates
<1>8. CASE Fail \/ Crash
  <2>1. /\ UNCHANGED <<key, csr, at>> /\ pc' \in {"failed", "idle"}
        /\ pc \notin {"write key", "write csr"}
    BY <1>8 DEF Fail, Crash, DamagesCertificates
  <2>2. pc = "remove certs" => key # 0 \/ csr = 0
    BY <2>1 DEF DamagesCertificates
  <2>3. QED
    BY <2>1, <2>2
<1>9. CASE \/ ResolveConnectAddress \/ InstallSteamCMD \/ ExtractSteamCMD
           \/ InstallDaemonBinaries \/ CopyBinary \/ PostCreate \/ EnrollDaemon
           \/ CDNFails \/ SaveDaemonInstallState \/ StartDaemon
           \/ StopAndUninstallDaemon \/ RemoveFiles \/ DaemonExits
  <2>1. UNCHANGED <<key, csr, at>>
    BY <1>9, Zenon DEF ResolveConnectAddress, InstallSteamCMD, ExtractSteamCMD,
        InstallDaemonBinaries, CopyBinary, PostCreate, EnrollDaemon, CDNFails,
        SaveDaemonInstallState, StartDaemon, StopAndUninstallDaemon, RemoveFiles,
        DaemonExits
  <2>2. /\ pc \notin {"write key", "write csr", "remove certs"}
        /\ pc' \notin {"write key", "write csr"}
    BY <1>9 DEF ResolveConnectAddress, InstallSteamCMD, ExtractSteamCMD,
        InstallDaemonBinaries, CopyBinary, PostCreate, EnrollDaemon, CDNFails,
        SaveDaemonInstallState, StartDaemon, StopAndUninstallDaemon, RemoveFiles,
        DaemonExits, Ended, BinaryInstalled
  <2>3. QED
    BY <1>1, <2>1, <2>2
<1>10. CASE Truncate \/ (\E l \in Rewrites : Write(l)) \/ NothingToRewrite
  <2>1. UNCHANGED <<key, csr, at>>
    BY <1>10 DEF Truncate, Write, NothingToRewrite
  <2>2. /\ pc \notin {"write key", "write csr", "remove certs"}
        /\ pc' \notin {"write key", "write csr"}
    BY <1>10, Halves, Afters DEF Truncate, Write, NothingToRewrite, Rewrites
  <2>3. QED
    BY <1>1, <2>1, <2>2
<1>11. QED
  BY <1>2, <1>3, <1>4, <1>5, <1>6, <1>7, <1>8, <1>9, <1>10 DEF Next

\* Only the steps that damage a key or its request make their reuse unsound.
THEOREM ReuseSafety == Spec /\ [][~DamagesCertificates]_vars => []ReuseIsSound
<1>1. Init => PairInv
  BY Numbers DEF Init, NoFacts, PairInv, Torn
<1>2. IInv /\ PairInv /\ [Next]_vars /\ [~DamagesCertificates]_vars => PairInv'
  <2> SUFFICES ASSUME IInv, PairInv, [Next]_vars, [~DamagesCertificates]_vars
               PROVE  PairInv'
    OBVIOUS
  <2>1. CASE UNCHANGED vars
    BY <2>1 DEF vars, PairInv
  <2>2. CASE Next /\ ~DamagesCertificates
    BY <2>2, StepPairInv DEF IInv
  <2>3. QED
    BY <2>1, <2>2
<1>3. IInv /\ PairInv => ReuseIsSound
  BY DEF IInv, FailsOnlyIfKnown, KeyInv, Registered, LastSteps, PairInv, ReuseIsSound
<1>4. QED
  BY <1>1, <1>2, <1>3, Invariance, PTL DEF Spec

=============================================================================
