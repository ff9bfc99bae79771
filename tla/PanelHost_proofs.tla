-------------------------- MODULE PanelHost_proofs --------------------------
(***************************************************************************)
(* The safety of a host with a panel for any number of commands and every  *)
(* set of databases, with a failure or a kill at every step.  The parts of *)
(* the invariant are proved one after the other, each over the parts of a  *)
(* command.                                                                *)
(***************************************************************************)
EXTENDS PanelHost, TLAPS

\* Numbers of commands are secrets, and none is the given one.
LEMMA Numbers ==
  /\ 0 \in Secrets /\ Given \in Secrets /\ Given # 0
  /\ \A r \in 0 .. MaxRuns : r \in Secrets /\ r # Given
  /\ \A r \in 0 .. MaxRuns : r < MaxRuns => r + 1 \in 0 .. MaxRuns /\ r + 1 # 0
BY RunsAssumption DEF Secrets, Given

\* What a process starts with.
LEMMA Blank ==
  /\ NoMemory.pw = 0 /\ NoMemory.host = "local" /\ NoCommand.db = "none"
  /\ ~NoCommand.existing /\ ~NoCommand.daemon /\ Down.st = "absent"
BY DEF NoMemory, NoCommand, Down, EmptyConfig

\* The order of the steps that set up a database.
LEMMA DatabaseLabels ==
  ASSUME SetUpDatabase
  PROVE  /\ cmd' = cmd /\ run' = run
         /\ \/ /\ pc = "database" /\ pc' = "postinstall"
               /\ cmd.db = "postgres" /\ ~cmd.existing
            \/ /\ pc = "database" /\ pc' = "mysql"
               /\ cmd.db = "mysql" /\ ~cmd.existing
            \/ pc = "database" /\ pc' = "checkpoint"
            \/ pc = "postinstall" /\ pc' \in {"connect", "failed"}
            \/ pc = "connect" /\ pc' \in {"checkpoint", "failed"}
            \/ pc = "mysql" /\ pc' \in {"purge", "checkpoint"}
            \/ pc = "purge" /\ pc' = "install mariadb"
            \/ pc = "install mariadb" /\ pc' = "mariadb"
            \/ pc = "mariadb" /\ pc' \in {"checkpoint", "failed"}
<1>1. CASE \/ ConnectExisting \/ InstallSqlite \/ InstallPostgreSQL
           \/ PostInstallationSteps \/ CheckPostgreSQLConnection
  BY <1>1 DEF ConnectExisting, InstallSqlite, InstallPostgreSQL,
      PostInstallationSteps, CheckPostgreSQLConnection
<1>2. CASE InstallMySQL \/ InstallMariaDB \/ PurgeMySQL
  BY <1>2 DEF InstallMySQL, InstallMariaDB, PurgeMySQL
<1>3. CASE ConfigureMySQL \/ ConfigureMySQLFails
  BY <1>3 DEF ConfigureMySQL, ConfigureMySQLFails
<1>4. QED
  BY <1>1, <1>2, <1>3 DEF SetUpDatabase

\* Adding or removing the setup key keeps the rest of config.env.
LEMMA Resetup ==
  ASSUME config \in Configs, NEW v \in BOOLEAN, Rewrite([config EXCEPT !.setup = v])
  PROVE  /\ config'.st = "torn"
         /\ buf'.st = config.st /\ buf'.key = config.key
         /\ buf'.store = config.store /\ buf'.pw = config.pw
BY DEF Configs, Rewrite, EmptyConfig

\* A data directory that is there is recorded as having existed before.
LEMMA InstallMySQLFacts ==
  ASSUME mem \in Memory, InstallMySQL
  PROVE  /\ UNCHANGED <<at, cmd, userPw, saved>>
         /\ mem'.host = mem.host /\ mem'.pw = mem.pw
         /\ mem.host = "local" /\ dataDir # "none" => mem'.existed
         /\ pc = "database" /\ pc' = "mysql" /\ cmd.db = "mysql"
BY DEF InstallMySQL, Memory, files, history

LEMMA InstallMariaDBFacts ==
  ASSUME mem \in Memory, InstallMariaDB
  PROVE  /\ UNCHANGED <<at, cmd, userPw, saved>>
         /\ mem'.host = mem.host /\ mem'.pw = mem.pw
         /\ mem.host = "local" /\ dataDir # "none" /\ mem.existed => mem'.existed
         /\ pc = "install mariadb" /\ pc' = "mariadb"
BY DEF InstallMariaDB, Memory, files, history

\* Which command is at which statement.
LEMMA StepCommandInv ==
  TypeOK /\ CommandInv /\ Next => CommandInv'
<1> SUFFICES ASSUME TypeOK, CommandInv, Next PROVE CommandInv'
  OBVIOUS
<1> USE DEF files, dbs, history, CommandInv, TypeOK, ValuesOK, Commands, Memory, States,
    Configs, Servers, Stores, FlagsOK, Ended, MySQLSteps, DaemonSteps, Writing,
    Configured, Reached, Served, Managing, Installing
<1>1. CASE Begins
  BY <1>1, RequestedAssumption, Numbers, ZenonT(60) DEF Begins, HandleV4,
      RestorePreviousState, Reuses, Databases, HandleUninstall, Begin,
      NoCommand, NoMemory, HandleLetsEncrypt, HandleChangePassword, NoFacts
<1>2. CASE Prepare
  BY <1>2 DEF Prepare, Check, InstallSystemDependencies, PreconfigureDatabase,
      Checkpoint, SavedState
<1>3. CASE SetUpDatabase
  <2>1. cmd' = cmd /\ run' = run
    BY <1>3, DatabaseLabels
  <2>2. QED
    BY <1>3, <2>1, DatabaseLabels
<1>4. CASE SetUpPanel
  BY <1>4, ZenonT(60) DEF SetUpPanel, SaveCheckpoint, Checkpoint, SavedState,
      ResolveRelease, Configure, ConfigureWith, PreservedKey, Rewrite,
      EmptyConfig, WriteConfig, Down, CreateSystemdUnit, DownloadBinaries
<1>5. CASE SetUpDaemon
  BY <1>5 DEF SetUpDaemon, SeedSetupKey, Rewrite, EmptyConfig, StartToEnroll,
      Start, Boot, Down, EnrollDaemon, StopAfterEnrollment, RemoveSetupKey,
      WriteKeyFails
<1>6. CASE Serve
  BY <1>6 DEF Serve, SaveInstallationDetails, Checkpoint, SavedState,
      StartPanel, Start, Boot, Down, EmptyConfig, WaitForHealth,
      UpdateAdminPassword, Finish
<1>7. CASE Uninstall
  BY <1>7 DEF Uninstall, StopAndUninstall, Down, EmptyConfig, UninstallGameAP,
      RemoveData, RemoveDatabase
<1>8. CASE Manage
  BY <1>8 DEF Manage, WriteEnv, Restart, Boot, Down, EmptyConfig, ChangePassword
<1>9. CASE Fail \/ Crash
  BY <1>9 DEF Fail, Forget, NoCommand, NoMemory, NoFacts, Down, EmptyConfig,
      Failing, Crash
<1>10. QED
  BY <1>1, <1>2, <1>3, <1>4, <1>5, <1>6, <1>7, <1>8, <1>9 DEF Next

\* config.env keeps its key through every rewrite.
LEMMA StepKeyInv ==
  TypeOK /\ CommandInv /\ KeyInv /\ Next => KeyInv'
<1> SUFFICES ASSUME TypeOK, CommandInv, KeyInv, Next PROVE KeyInv'
  OBVIOUS
<1> USE Numbers DEF files, dbs, history, CommandInv, KeyInv, TypeOK, ValuesOK, Commands,
    Memory, States, Configs, Servers, Stores, FlagsOK, Reads
<1>0. ASSUME UNCHANGED <<config, buf, enc, keyLost>> PROVE KeyInv'
  BY <1>0
<1>1. CASE Begins
  <2>1. UNCHANGED <<config, buf, enc, keyLost>>
    BY <1>1, Zenon
    DEF Begins, HandleV4, HandleUninstall, HandleLetsEncrypt,
        HandleChangePassword, Begin
  <2>2. QED
    BY <1>0, <2>1
<1>2. CASE Prepare
  BY <1>2 DEF Prepare, Check, InstallSystemDependencies, PreconfigureDatabase,
      Checkpoint, SavedState
<1>3. CASE SetUpDatabase
  <2>1. CASE \/ ConnectExisting \/ InstallSqlite \/ InstallPostgreSQL
             \/ PostInstallationSteps \/ CheckPostgreSQLConnection
             \/ InstallMySQL \/ ConfigureMySQL \/ ConfigureMySQLFails
             \/ InstallMariaDB
    BY <2>1, ZenonT(60) DEF ConnectExisting, InstallSqlite, InstallPostgreSQL,
        PostInstallationSteps, CheckPostgreSQLConnection, InstallMySQL,
        PackageInstalled, PackageFailed, MakeDataDirectory, ConfigureMySQL, SetUser,
        ConfigureMySQLFails, InstallMariaDB
  <2>2. CASE PurgeMySQL
    <3>1. UNCHANGED <<config, buf, keyLost>>
      BY <2>2 DEF PurgeMySQL
    <3>2. enc' = enc \/ enc' = [enc EXCEPT !["mysql"] = 0]
      BY <2>2 DEF PurgeMySQL, RemoveDataDirectory
    <3>3. \A s \in Stores : enc'[s] \in {0, enc[s]}
      BY <3>2
    <3>4. QED
      BY <3>1, <3>3
  <2>3. QED
    BY <1>3, <2>1, <2>2 DEF SetUpDatabase
<1>4. CASE SetUpPanel
  <2>1. CASE Configure
    <3>1. /\ config'.st = "torn" /\ buf'.st = "whole" /\ enc' = enc
          /\ buf'.key = IF PreservedKey = 0 THEN run ELSE PreservedKey
      BY <2>1 DEF Configure, ConfigureWith, Rewrite, EmptyConfig
    <3>2. ~keyLost' => ~keyLost /\ (PreservedKey # 0 \/ \A s \in Stores : enc[s] = 0)
      BY <2>1, Zenon DEF Configure, ConfigureWith
    <3>3. run # 0
      BY <2>1 DEF Configure, ConfigureWith, Ended
    <3>4. PreservedKey # 0 => config.st = "whole" /\ PreservedKey = config.key
      BY DEF PreservedKey
    <3>5. QED
      BY <3>1, <3>2, <3>3, <3>4
  <2>2. CASE WriteConfig
    BY <2>2 DEF WriteConfig, Down, EmptyConfig
  <2>3. CASE \/ SaveCheckpoint \/ ResolveRelease \/ CreateSystemdUnit
             \/ DownloadBinaries
    BY <2>3 DEF SaveCheckpoint, Checkpoint, SavedState, ResolveRelease,
        CreateSystemdUnit, DownloadBinaries
  <2>4. QED
    BY <1>4, <2>1, <2>2, <2>3 DEF SetUpPanel
<1>5. CASE SetUpDaemon
  <2>1. CASE SeedSetupKey
    <3>1. PICK v \in BOOLEAN : \/ Rewrite([config EXCEPT !.setup = v])
                              \/ UNCHANGED <<config, buf>>
      BY <2>1 DEF SeedSetupKey
    <3>2. UNCHANGED <<enc, keyLost>>
      BY <2>1 DEF SeedSetupKey
    <3>3. CASE Rewrite([config EXCEPT !.setup = v])
      BY <3>2, <3>3, Resetup
    <3>4. QED
      BY <1>0, <3>1, <3>2, <3>3
  <2>2. CASE RemoveSetupKey
    <3>1. PICK v \in BOOLEAN : \/ Rewrite([config EXCEPT !.setup = v])
                              \/ UNCHANGED <<config, buf>>
      BY <2>2 DEF RemoveSetupKey
    <3>2. UNCHANGED <<enc, keyLost>>
      BY <2>2 DEF RemoveSetupKey
    <3>3. CASE Rewrite([config EXCEPT !.setup = v])
      BY <3>2, <3>3, Resetup
    <3>4. QED
      BY <1>0, <3>1, <3>2, <3>3
  <2>3. CASE StartToEnroll
    BY <2>3, ZenonT(60) DEF StartToEnroll, Start, Boot, Down, EmptyConfig
  <2>4. CASE EnrollDaemon \/ StopAfterEnrollment \/ WriteKeyFails
    BY <2>4 DEF EnrollDaemon, StopAfterEnrollment, Down, EmptyConfig,
        WriteKeyFails
  <2>5. QED
    BY <1>5, <2>1, <2>2, <2>3, <2>4 DEF SetUpDaemon
<1>6. CASE Serve
  <2>1. CASE StartPanel
    BY <2>1 DEF StartPanel, Start, Boot, Down, EmptyConfig
  <2>2. CASE \/ SaveInstallationDetails \/ WaitForHealth \/ UpdateAdminPassword
             \/ Finish
    BY <2>2 DEF SaveInstallationDetails, Checkpoint, SavedState, WaitForHealth,
        UpdateAdminPassword, Finish
  <2>3. QED
    BY <1>6, <2>1, <2>2 DEF Serve
<1>7. CASE Uninstall
  <2>1. CASE RemoveData
    <3>1. buf' = buf /\ keyLost' = keyLost /\ config' \in {config, Down}
      BY <2>1 DEF RemoveData
    <3>2. enc' = enc \/ enc' = [enc EXCEPT !["sqlite"] = 0]
      BY <2>1 DEF RemoveData
    <3>3. \A s \in Stores : enc'[s] \in {0, enc[s]}
      BY <3>2
    <3>4. Down.st = "absent"
      BY DEF Down, EmptyConfig
    <3>5. QED
      BY <3>1, <3>3, <3>4
  <2>2. CASE StopAndUninstall \/ UninstallGameAP \/ RemoveDatabase
    BY <2>2 DEF StopAndUninstall, Down, EmptyConfig, UninstallGameAP,
        RemoveDatabase
  <2>3. QED
    BY <1>7, <2>1, <2>2 DEF Uninstall
<1>8. CASE Manage
  <2>1. CASE (\E on \in BOOLEAN : WriteEnv(on))
    BY <2>1 DEF WriteEnv
  <2>2. CASE Restart
    BY <2>2 DEF Restart, Boot, Down, EmptyConfig
  <2>3. CASE ChangePassword
    BY <2>3 DEF ChangePassword
  <2>4. QED
    BY <1>8, <2>1, <2>2, <2>3 DEF Manage
<1>9. CASE Fail \/ Crash
  <2>1. CASE Fail
    BY <2>1 DEF Fail, Forget, NoCommand, NoMemory, NoFacts, Down, EmptyConfig,
        Failing
  <2>2. CASE Crash
    BY <2>2 DEF Crash, Forget, NoCommand, NoMemory, NoFacts, Down, EmptyConfig
  <2>3. QED
    BY <1>9, <2>1, <2>2
<1>10. QED
  BY <1>1, <1>2, <1>3, <1>4, <1>5, <1>6, <1>7, <1>8, <1>9 DEF Next

\* The passwords in config.env.
LEMMA StepFileInv ==
  TypeOK /\ SecretInv /\ FileInv /\ Next => FileInv'
<1> SUFFICES ASSUME TypeOK, SecretInv, FileInv, Next PROVE FileInv'
  OBVIOUS
<1> USE Numbers DEF files, dbs, history, SecretInv, FileInv, TypeOK, ValuesOK, Commands,
    Memory, States, Configs, Servers, Stores, FlagsOK, Store
<1>0. ASSUME UNCHANGED <<config, buf>> PROVE FileInv'
  BY <1>0
<1>1. CASE Begins
  <2>1. UNCHANGED <<config, buf>>
    BY <1>1, Zenon DEF Begins, HandleV4, HandleUninstall, HandleLetsEncrypt,
        HandleChangePassword, Begin
  <2>2. QED
    BY <1>0, <2>1
<1>2. CASE Prepare
  BY <1>2 DEF Prepare, Check, InstallSystemDependencies, PreconfigureDatabase,
      Checkpoint, SavedState
<1>3. CASE SetUpDatabase
  BY <1>3, ZenonT(60) DEF SetUpDatabase, ConnectExisting, InstallSqlite, InstallPostgreSQL,
      PostInstallationSteps, CheckPostgreSQLConnection, InstallMySQL,
      PackageInstalled, PackageFailed, MakeDataDirectory, ConfigureMySQL, SetUser,
      ConfigureMySQLFails, PurgeMySQL, Purge, RemoveDataDirectory,
      InstallMariaDB
<1>4. CASE SetUpPanel
  <2>1. CASE Configure
    <3>1. /\ config'.st = "torn" /\ buf'.store = Store /\ buf'.pw = mem.pw
      BY <2>1 DEF Configure, ConfigureWith, Rewrite, EmptyConfig
    <3>2. QED
      BY <3>1
  <2>2. CASE WriteConfig
    BY <2>2 DEF WriteConfig, Down, EmptyConfig
  <2>3. CASE \/ SaveCheckpoint \/ ResolveRelease \/ CreateSystemdUnit
             \/ DownloadBinaries
    BY <2>3 DEF SaveCheckpoint, Checkpoint, SavedState, ResolveRelease,
        CreateSystemdUnit, DownloadBinaries
  <2>4. QED
    BY <1>4, <2>1, <2>2, <2>3 DEF SetUpPanel
<1>5. CASE SetUpDaemon
  <2>1. CASE SeedSetupKey
    <3>1. PICK v \in BOOLEAN : \/ Rewrite([config EXCEPT !.setup = v])
                              \/ UNCHANGED <<config, buf>>
      BY <2>1 DEF SeedSetupKey
    <3>2. UNCHANGED enc
      BY <2>1 DEF SeedSetupKey
    <3>3. CASE Rewrite([config EXCEPT !.setup = v])
      BY <3>2, <3>3, Resetup
    <3>4. QED
      BY <1>0, <3>1, <3>2, <3>3
  <2>2. CASE RemoveSetupKey
    <3>1. PICK v \in BOOLEAN : \/ Rewrite([config EXCEPT !.setup = v])
                              \/ UNCHANGED <<config, buf>>
      BY <2>2 DEF RemoveSetupKey
    <3>2. UNCHANGED enc
      BY <2>2 DEF RemoveSetupKey
    <3>3. CASE Rewrite([config EXCEPT !.setup = v])
      BY <3>2, <3>3, Resetup
    <3>4. QED
      BY <1>0, <3>1, <3>2, <3>3
  <2>3. CASE \/ StartToEnroll \/ EnrollDaemon \/ StopAfterEnrollment
             \/ WriteKeyFails
    BY <2>3 DEF StartToEnroll, Start, Boot, Down, EmptyConfig, EnrollDaemon,
        StopAfterEnrollment, WriteKeyFails
  <2>4. QED
    BY <1>5, <2>1, <2>2, <2>3 DEF SetUpDaemon
<1>6. CASE Serve
  BY <1>6 DEF Serve, SaveInstallationDetails, Checkpoint, SavedState,
      StartPanel, Start, Boot, Down, EmptyConfig, WaitForHealth,
      UpdateAdminPassword, Finish
<1>7. CASE Uninstall
  <2>1. CASE RemoveData
    <3>1. buf' = buf /\ config' \in {config, Down}
      BY <2>1 DEF RemoveData
    <3>2. QED
      BY <3>1 DEF Down, EmptyConfig
  <2>2. CASE StopAndUninstall \/ UninstallGameAP \/ RemoveDatabase
    BY <2>2 DEF StopAndUninstall, Down, EmptyConfig, UninstallGameAP,
        RemoveDatabase
  <2>3. QED
    BY <1>7, <2>1, <2>2 DEF Uninstall
<1>8. CASE Manage
  BY <1>8, ZenonT(60) DEF Manage, WriteEnv, Restart, Boot, Down, EmptyConfig, ChangePassword
<1>9. CASE Fail \/ Crash
  <2>1. CASE Fail
    BY <2>1 DEF Fail, Forget, NoCommand, NoMemory, NoFacts, Down, EmptyConfig,
        Failing
  <2>2. CASE Crash
    BY <2>2 DEF Crash, Forget, NoCommand, NoMemory, NoFacts, Down, EmptyConfig
  <2>3. QED
    BY <1>9, <2>1, <2>2
<1>10. QED
  BY <1>1, <1>2, <1>3, <1>4, <1>5, <1>6, <1>7, <1>8, <1>9 DEF Next

\* Generated passwords and given ones are not mixed up.
LEMMA StepSecretInv ==
  TypeOK /\ CommandInv /\ SecretInv /\ Next => SecretInv'
<1> SUFFICES ASSUME TypeOK, CommandInv, SecretInv, Next PROVE SecretInv'
  OBVIOUS
<1> USE Numbers DEF files, dbs, history, CommandInv, SecretInv, TypeOK,
    ValuesOK, Commands, Memory, States, Configs, Servers, Stores, FlagsOK, Ended,
    MySQLSteps, DaemonSteps, Writing, Configured, Reached, Served, Managing,
    Installing
<1>1. CASE Begins
  <2>1. CASE (\E d \in Requested, ex, wd \in BOOLEAN : HandleV4(d, ex, wd))
    <3>1. PICK d \in Requested, ex, wd \in BOOLEAN : HandleV4(d, ex, wd)
      BY <2>1
    <3>2. saved' = saved /\ pc' = "check" /\ cmd'.existing = ex
      BY <3>1 DEF HandleV4
    <3>3. /\ mem'.pw = IF Reuses(d, ex) THEN saved.pw ELSE IF ex THEN Given ELSE 0
          /\ mem'.host = IF Reuses(d, ex) THEN saved.host
                        ELSE IF ex THEN "remote" ELSE "local"
      BY <3>1 DEF HandleV4, RestorePreviousState
    <3>4. Reuses(d, ex) => ~ex
      BY DEF Reuses
    <3>5. QED
      BY <3>2, <3>3, <3>4, ZenonT(60)
  <2>2. CASE \/ (\E data \in BOOLEAN : HandleUninstall(data)) \/ HandleLetsEncrypt
             \/ HandleChangePassword
    <3>1. saved' = saved /\ mem' = NoMemory /\ cmd'.existing = FALSE
          /\ pc' \in {"stop panel", "acme", "change password"}
      BY <2>2, ZenonT(60) DEF HandleUninstall, HandleLetsEncrypt, HandleChangePassword, Begin, NoCommand
    <3>2. QED
      BY <3>1, Blank
  <2>3. QED
    BY <1>1, <2>1, <2>2 DEF Begins
<1>2. CASE Prepare
  <2>1. CASE PreconfigureDatabase
    <3>1. cmd' = cmd /\ pc = "credentials" /\ pc' = "database"
      BY <2>1 DEF PreconfigureDatabase
    <3>2. CASE cmd.db # "none" /\ ~cmd.existing
      <4>1. mem' = [mem EXCEPT !.pw = IF @ = 0 THEN run ELSE @]
        BY <2>1, <3>2 DEF PreconfigureDatabase
      <4>2. saved' \in {saved, SavedState(mem')}
        BY <2>1, <3>2 DEF PreconfigureDatabase, Checkpoint
      <4>3. mem'.host = mem.host /\ (mem'.pw = Given <=> mem.pw = Given) /\ mem'.pw # 0
        BY <2>1, <4>1 DEF PreconfigureDatabase, CommandInv
      <4>4. SavedState(mem').host = mem'.host /\ SavedState(mem').pw = mem'.pw
        BY DEF SavedState
      <4>5. QED
        BY <3>1, <3>2, <4>2, <4>3, <4>4
    <3>3. CASE cmd.db = "none" \/ cmd.existing
      BY <2>1, <3>1, <3>3 DEF PreconfigureDatabase
    <3>4. QED
      BY <3>2, <3>3
  <2>2. CASE Check \/ InstallSystemDependencies
    BY <2>2, ZenonT(60) DEF Check, InstallSystemDependencies
  <2>3. QED
    BY <1>2, <2>1, <2>2 DEF Prepare
<1>3. CASE SetUpDatabase
  <2>1. CASE \/ ConnectExisting \/ InstallSqlite \/ InstallPostgreSQL
             \/ PostInstallationSteps \/ CheckPostgreSQLConnection
    BY <2>1, ZenonT(60) DEF ConnectExisting, InstallSqlite, InstallPostgreSQL,
        PostInstallationSteps, CheckPostgreSQLConnection
  <2>2. CASE InstallMySQL
    <3>1. saved' = saved /\ mem'.host = mem.host /\ mem'.pw = mem.pw
      BY <2>2, ZenonT(60) DEF InstallMySQL
    <3>2. QED
      BY <1>3, <3>1, DatabaseLabels, ZenonT(60)
  <2>3. CASE InstallMariaDB
    <3>1. saved' = saved /\ mem'.host = mem.host /\ mem'.pw = mem.pw
      BY <2>3, ZenonT(60) DEF InstallMariaDB
    <3>2. QED
      BY <1>3, <3>1, DatabaseLabels, ZenonT(60)
  <2>4. CASE ConfigureMySQL \/ ConfigureMySQLFails \/ PurgeMySQL
    BY <2>4, ZenonT(60) DEF ConfigureMySQL, SetUser, ConfigureMySQLFails, PurgeMySQL, Purge,
        RemoveDataDirectory
  <2>5. QED
    BY <1>3, <2>1, <2>2, <2>3, <2>4 DEF SetUpDatabase
<1>4. CASE SetUpPanel
  <2>1. CASE SaveCheckpoint
    <3>1. UNCHANGED <<mem, cmd>> /\ saved' \in {saved, SavedState(mem)}
      BY <2>1 DEF SaveCheckpoint, Checkpoint
    <3>2. pc' \in {"release", "enroll", "save"} /\ pc \in {"checkpoint", "installed"}
      BY <2>1 DEF SaveCheckpoint
    <3>3. SavedState(mem).host = mem.host /\ SavedState(mem).pw = mem.pw
      BY DEF SavedState
    <3>4. QED
      BY <3>1, <3>2, <3>3, ZenonT(60)
  <2>2. CASE \/ ResolveRelease \/ Configure \/ WriteConfig \/ CreateSystemdUnit
             \/ DownloadBinaries
    BY <2>2, ZenonT(60) DEF ResolveRelease, Configure, ConfigureWith, PreservedKey, Rewrite,
        EmptyConfig, WriteConfig, Down, CreateSystemdUnit, DownloadBinaries
  <2>3. QED
    BY <1>4, <2>1, <2>2 DEF SetUpPanel
<1>5. CASE SetUpDaemon
  BY <1>5, ZenonT(60) DEF SetUpDaemon, SeedSetupKey, Rewrite, EmptyConfig, StartToEnroll,
      Start, Boot, Down, EnrollDaemon, StopAfterEnrollment, RemoveSetupKey,
      WriteKeyFails
<1>6. CASE Serve
  <2>1. CASE SaveInstallationDetails \/ Finish
    <3>1. UNCHANGED <<mem, cmd>> /\ saved' \in {saved, SavedState(mem)}
      BY <2>1 DEF SaveInstallationDetails, Finish, Checkpoint
    <3>2. \/ pc = "save" /\ pc' \in {"start", "done"}
          \/ pc = "finish" /\ pc' = "done"
      BY <2>1 DEF SaveInstallationDetails, Finish
    <3>3. SavedState(mem).host = mem.host /\ SavedState(mem).pw = mem.pw
      BY DEF SavedState
    <3>4. QED
      BY <3>1, <3>2, <3>3, ZenonT(60)
  <2>2. CASE StartPanel \/ WaitForHealth \/ UpdateAdminPassword
    BY <2>2, ZenonT(60) DEF StartPanel, Start, Boot, Down, EmptyConfig, WaitForHealth,
        UpdateAdminPassword
  <2>3. QED
    BY <1>6, <2>1, <2>2 DEF Serve
<1>7. CASE Uninstall
  BY <1>7, ZenonT(60) DEF Uninstall, StopAndUninstall, Down, EmptyConfig, UninstallGameAP,
      RemoveData, RemoveDatabase
<1>8. CASE Manage
  BY <1>8, ZenonT(60) DEF Manage, WriteEnv, Restart, Boot, Down, EmptyConfig, ChangePassword
<1>9. CASE Fail \/ Crash
  <2>1. CASE Fail
    BY <2>1 DEF Fail, Forget, NoCommand, NoMemory, NoFacts, Down, EmptyConfig,
        Failing
  <2>2. CASE Crash
    BY <2>2 DEF Crash, Forget, NoCommand, NoMemory, NoFacts, Down, EmptyConfig
  <2>3. QED
    BY <1>9, <2>1, <2>2
<1>10. QED
  BY <1>1, <1>2, <1>3, <1>4, <1>5, <1>6, <1>7, <1>8, <1>9 DEF Next

\* A server has its data directory.
LEMMA StepDirectoryInv ==
  TypeOK /\ DirectoryInv /\ Next => DirectoryInv'
<1> SUFFICES ASSUME TypeOK, DirectoryInv, Next PROVE DirectoryInv'
  OBVIOUS
<1> USE Numbers DEF files, dbs, history, DirectoryInv, TypeOK, ValuesOK, Commands, Memory,
    States, Configs, Servers, Stores, FlagsOK
<1>1. CASE Begins
  BY <1>1, RequestedAssumption, ZenonT(60) DEF Begins, HandleV4, RestorePreviousState,
      Reuses, Databases, HandleUninstall, Begin, NoCommand, NoMemory,
      HandleLetsEncrypt, HandleChangePassword, NoFacts
<1>2. CASE Prepare
  BY <1>2 DEF Prepare, Check, InstallSystemDependencies, PreconfigureDatabase,
      Checkpoint, SavedState
<1>3. CASE SetUpDatabase
  BY <1>3, ZenonT(60) DEF SetUpDatabase, ConnectExisting, InstallSqlite, InstallPostgreSQL,
      PostInstallationSteps, CheckPostgreSQLConnection, InstallMySQL,
      PackageInstalled, PackageFailed, MakeDataDirectory, ConfigureMySQL, SetUser,
      ConfigureMySQLFails, PurgeMySQL, Purge, RemoveDataDirectory,
      InstallMariaDB
<1>4. CASE SetUpPanel
  BY <1>4 DEF SetUpPanel, SaveCheckpoint, Checkpoint, SavedState,
      ResolveRelease, Configure, ConfigureWith, PreservedKey, Rewrite,
      EmptyConfig, WriteConfig, Down, CreateSystemdUnit, DownloadBinaries
<1>5. CASE SetUpDaemon
  BY <1>5 DEF SetUpDaemon, SeedSetupKey, Rewrite, EmptyConfig, StartToEnroll,
      Start, Boot, Down, EnrollDaemon, StopAfterEnrollment, RemoveSetupKey,
      WriteKeyFails
<1>6. CASE Serve
  BY <1>6 DEF Serve, SaveInstallationDetails, Checkpoint, SavedState,
      StartPanel, Start, Boot, Down, EmptyConfig, WaitForHealth,
      UpdateAdminPassword, Finish
<1>7. CASE Uninstall
  BY <1>7 DEF Uninstall, StopAndUninstall, Down, EmptyConfig, UninstallGameAP,
      RemoveData, RemoveDatabase
<1>8. CASE Manage
  BY <1>8 DEF Manage, WriteEnv, Restart, Boot, Down, EmptyConfig, ChangePassword
<1>9. CASE Fail \/ Crash
  BY <1>9 DEF Fail, Forget, NoCommand, NoMemory, NoFacts, Down, EmptyConfig,
      Failing, Crash
<1>10. QED
  BY <1>1, <1>2, <1>3, <1>4, <1>5, <1>6, <1>7, <1>8, <1>9 DEF Next

\* A known password stays.
LEMMA StepKnownInv ==
  TypeOK /\ CommandInv /\ DirectoryInv /\ SecretInv /\ FileInv /\ KnownInv /\ Next => KnownInv'
<1> SUFFICES ASSUME TypeOK, CommandInv, DirectoryInv, SecretInv, FileInv, KnownInv, Next PROVE KnownInv'
  OBVIOUS
<1> USE Numbers DEF files, dbs, history, CommandInv, DirectoryInv, SecretInv,
    FileInv, KnownInv, TypeOK, ValuesOK, Commands, Memory, States, Configs, Servers,
    Stores, FlagsOK, Ended, MySQLSteps
<1>1. CASE Begins
  <2>1. CASE (\E d \in Requested, ex, wd \in BOOLEAN : HandleV4(d, ex, wd))
    <3>1. PICK d \in Requested, ex, wd \in BOOLEAN : HandleV4(d, ex, wd)
      BY <2>1
    <3>2. at'.known => /\ saved.db = d /\ ~ex /\ d \in Servers
                       /\ config.st = "whole" /\ config.store = d
                       /\ saved.pw = config.pw /\ config.pw = userPw[d] /\ userPw[d] # 0
      BY <3>1 DEF HandleV4
    <3>3. /\ userPw' = userPw /\ pc' = "check" /\ cmd'.db = d
          /\ ~ex => ~cmd'.existing
      BY <3>1 DEF HandleV4
    <3>4. Reuses(d, ex) => mem'.pw = saved.pw /\ mem'.host = saved.host
      BY <3>1 DEF HandleV4, RestorePreviousState
    <3>5. at'.known => Reuses(d, ex) /\ saved.host = "local"
      BY <3>2 DEF Reuses
    <3>6. ASSUME at'.known
          PROVE  /\ cmd'.db \in Servers /\ ~cmd'.existing /\ mem'.host = "local"
                 /\ mem'.pw # 0 /\ userPw'[cmd'.db] = mem'.pw
      <4>1. ~ex /\ d \in Servers /\ saved.pw = userPw[d] /\ userPw[d] # 0
        BY <3>2, <3>6, Zenon
      <4>2. mem'.pw = saved.pw /\ mem'.host = "local"
        BY <3>4, <3>5, <3>6, Zenon
      <4>3. ~cmd'.existing
        BY <3>3, <4>1, Zenon
      <4>4. QED
        BY <3>3, <4>1, <4>2, <4>3
    <3>7. QED
      BY <3>3, <3>6
  <2>2. CASE \/ (\E data \in BOOLEAN : HandleUninstall(data)) \/ HandleLetsEncrypt
             \/ HandleChangePassword
    <3>1. at' = NoFacts
      BY <2>2, Zenon DEF HandleUninstall, HandleLetsEncrypt, HandleChangePassword, Begin
    <3>2. QED
      BY <3>1 DEF NoFacts
  <2>3. QED
    BY <1>1, <2>1, <2>2 DEF Begins
<1>2. CASE Prepare
  <2>1. CASE PreconfigureDatabase
    <3>1. UNCHANGED <<at, cmd, userPw>> /\ pc' = "database" /\ pc = "credentials"
      BY <2>1 DEF PreconfigureDatabase
    <3>2. mem'.host = mem.host /\ (mem.pw # 0 => mem'.pw = mem.pw)
      BY <2>1 DEF PreconfigureDatabase
    <3>3. QED
      BY <3>1, <3>2
  <2>2. CASE Check \/ InstallSystemDependencies
    BY <2>2 DEF Check, InstallSystemDependencies
  <2>3. QED
    BY <1>2, <2>1, <2>2 DEF Prepare
<1>3. CASE SetUpDatabase
  <2>1. CASE ConnectExisting
    BY <2>1 DEF ConnectExisting
  <2>2. CASE InstallSqlite
    BY <2>2 DEF InstallSqlite
  <2>3. CASE InstallPostgreSQL
    BY <2>3 DEF InstallPostgreSQL
  <2>4. CASE PostInstallationSteps
    <3>1. UNCHANGED <<at, cmd>> /\ mem'.host = mem.host /\ mem'.pw = mem.pw
      BY <2>4 DEF PostInstallationSteps
    <3>2. userPw["postgres"] # 0 => userPw' = userPw
      BY <2>4 DEF PostInstallationSteps
    <3>3. cmd.db = "postgres" /\ pc = "postinstall" /\ pc' \in {"connect", "failed"}
      BY <2>4 DEF PostInstallationSteps
    <3>4. at.known => userPw' = userPw
      BY <3>2, <3>3
    <3>5. QED
      BY <3>1, <3>3, <3>4, ZenonT(60)
  <2>5. CASE CheckPostgreSQLConnection
    BY <2>5 DEF CheckPostgreSQLConnection
  <2>6. CASE InstallMySQL
    <3>1. at.known => userPw["mysql"] # 0 /\ mem.host = "local"
      BY <2>6, InstallMySQLFacts
    <3>2. QED
      BY <2>6, <3>1, InstallMySQLFacts, ZenonT(60)
  <2>7. CASE ConfigureMySQL
    BY <2>7 DEF ConfigureMySQL, SetUser
  <2>8. CASE ConfigureMySQLFails
    BY <2>8, ZenonT(60) DEF ConfigureMySQLFails, SetUser
  <2>9. CASE PurgeMySQL
    BY <2>9 DEF PurgeMySQL, Purge, RemoveDataDirectory
  <2>10. CASE InstallMariaDB
    <3>1. at.known => userPw["mysql"] # 0 /\ mem.host = "local"
      BY <2>10, InstallMariaDBFacts
    <3>2. QED
      BY <2>10, <3>1, InstallMariaDBFacts
  <2>11. QED
    BY <1>3, <2>1, <2>2, <2>3, <2>4, <2>5, <2>6, <2>7, <2>8, <2>9, <2>10
    DEF SetUpDatabase
<1>4. CASE SetUpPanel
  BY <1>4 DEF SetUpPanel, SaveCheckpoint, Checkpoint, SavedState,
      ResolveRelease, Configure, ConfigureWith, PreservedKey, Rewrite,
      EmptyConfig, WriteConfig, Down, CreateSystemdUnit, DownloadBinaries
<1>5. CASE SetUpDaemon
  BY <1>5, ZenonT(60) DEF SetUpDaemon, SeedSetupKey, Rewrite, EmptyConfig, StartToEnroll,
      Start, Boot, Down, EnrollDaemon, StopAfterEnrollment, RemoveSetupKey,
      WriteKeyFails
<1>6. CASE Serve
  <2>1. CASE SaveInstallationDetails
    BY <2>1 DEF SaveInstallationDetails, Checkpoint, SavedState
  <2>2. CASE StartPanel
    BY <2>2 DEF StartPanel, Start, Boot, Down, EmptyConfig
  <2>3. CASE WaitForHealth
    BY <2>3 DEF WaitForHealth
  <2>4. CASE UpdateAdminPassword
    BY <2>4 DEF UpdateAdminPassword
  <2>5. CASE Finish
    BY <2>5 DEF Finish, Checkpoint, SavedState
  <2>6. QED
    BY <1>6, <2>1, <2>2, <2>3, <2>4, <2>5 DEF Serve
<1>7. CASE Uninstall
  BY <1>7, ZenonT(60) DEF Uninstall, StopAndUninstall, Down, EmptyConfig, UninstallGameAP,
      RemoveData, RemoveDatabase
<1>8. CASE Manage
  BY <1>8, ZenonT(60) DEF Manage, WriteEnv, Restart, Boot, Down, EmptyConfig, ChangePassword
<1>9. CASE Fail \/ Crash
  BY <1>9 DEF Fail, Forget, NoCommand, NoMemory, NoFacts, Down, EmptyConfig,
      Failing, Crash
<1>10. QED
  BY <1>1, <1>2, <1>3, <1>4, <1>5, <1>6, <1>7, <1>8, <1>9 DEF Next

\* What the fallback to MariaDB finds.
LEMMA StepFallbackInv ==
  TypeOK /\ FallbackInv /\ Next => FallbackInv'
<1> SUFFICES ASSUME TypeOK, FallbackInv, Next PROVE FallbackInv'
  OBVIOUS
<1> USE Numbers DEF files, dbs, history, FallbackInv, TypeOK, ValuesOK, Commands, Memory,
    States, Configs, Servers, Stores, FlagsOK
<1>1. CASE Begins
  BY <1>1, RequestedAssumption DEF Begins, HandleV4, RestorePreviousState,
      Reuses, Databases, HandleUninstall, Begin, NoCommand, NoMemory,
      HandleLetsEncrypt, HandleChangePassword, NoFacts
<1>2. CASE Prepare
  BY <1>2 DEF Prepare, Check, InstallSystemDependencies, PreconfigureDatabase,
      Checkpoint, SavedState
<1>3. CASE SetUpDatabase
  BY <1>3, ZenonT(60) DEF SetUpDatabase, ConnectExisting, InstallSqlite, InstallPostgreSQL,
      PostInstallationSteps, CheckPostgreSQLConnection, InstallMySQL,
      PackageInstalled, PackageFailed, MakeDataDirectory, ConfigureMySQL, SetUser,
      ConfigureMySQLFails, PurgeMySQL, Purge, RemoveDataDirectory,
      InstallMariaDB
<1>4. CASE SetUpPanel
  BY <1>4 DEF SetUpPanel, SaveCheckpoint, Checkpoint, SavedState,
      ResolveRelease, Configure, ConfigureWith, PreservedKey, Rewrite,
      EmptyConfig, WriteConfig, Down, CreateSystemdUnit, DownloadBinaries
<1>5. CASE SetUpDaemon
  BY <1>5 DEF SetUpDaemon, SeedSetupKey, Rewrite, EmptyConfig, StartToEnroll,
      Start, Boot, Down, EnrollDaemon, StopAfterEnrollment, RemoveSetupKey,
      WriteKeyFails
<1>6. CASE Serve
  BY <1>6 DEF Serve, SaveInstallationDetails, Checkpoint, SavedState,
      StartPanel, Start, Boot, Down, EmptyConfig, WaitForHealth,
      UpdateAdminPassword, Finish
<1>7. CASE Uninstall
  BY <1>7 DEF Uninstall, StopAndUninstall, Down, EmptyConfig, UninstallGameAP,
      RemoveData, RemoveDatabase
<1>8. CASE Manage
  BY <1>8 DEF Manage, WriteEnv, Restart, Boot, Down, EmptyConfig, ChangePassword
<1>9. CASE Fail \/ Crash
  BY <1>9 DEF Fail, Forget, NoCommand, NoMemory, NoFacts, Down, EmptyConfig,
      Failing, Crash
<1>10. QED
  BY <1>1, <1>2, <1>3, <1>4, <1>5, <1>6, <1>7, <1>8, <1>9 DEF Next

\* The database of the run can be reached.
LEMMA StepReachInv ==
  TypeOK /\ SecretInv /\ CommandInv /\ ReachInv /\ Next => ReachInv'
<1> SUFFICES ASSUME TypeOK, SecretInv, CommandInv, ReachInv, Next PROVE ReachInv'
  OBVIOUS
<1> USE Numbers DEF files, dbs, history, SecretInv, CommandInv, ReachInv,
    TypeOK, ValuesOK, Commands, Memory, States, Configs, Servers, Stores, FlagsOK, Ended,
    MySQLSteps, DaemonSteps, Writing, Configured, Reached, Served, Managing,
    Installing, Store, Reachable
<1>1. CASE Begins
  BY <1>1, RequestedAssumption DEF Begins, HandleV4, RestorePreviousState,
      Reuses, Databases, HandleUninstall, Begin, NoCommand, NoMemory,
      HandleLetsEncrypt, HandleChangePassword, NoFacts
<1>2. CASE Prepare
  BY <1>2 DEF Prepare, Check, InstallSystemDependencies, PreconfigureDatabase,
      Checkpoint, SavedState
<1>3. CASE SetUpDatabase
  <2>1. CASE ConnectExisting
    BY <2>1 DEF ConnectExisting
  <2>2. CASE InstallSqlite
    BY <2>2 DEF InstallSqlite
  <2>3. CASE InstallPostgreSQL
    BY <2>3 DEF InstallPostgreSQL
  <2>4. CASE PostInstallationSteps
    BY <2>4, ZenonT(60) DEF PostInstallationSteps
  <2>5. CASE CheckPostgreSQLConnection
    BY <2>5 DEF CheckPostgreSQLConnection
  <2>6. CASE InstallMySQL
    BY <2>6 DEF InstallMySQL, PackageInstalled, PackageFailed
  <2>7. CASE ConfigureMySQL
    BY <2>7 DEF ConfigureMySQL, SetUser
  <2>8. CASE ConfigureMySQLFails
    BY <2>8 DEF ConfigureMySQLFails, SetUser
  <2>9. CASE PurgeMySQL
    BY <2>9 DEF PurgeMySQL, Purge, RemoveDataDirectory
  <2>10. CASE InstallMariaDB
    BY <2>10 DEF InstallMariaDB, PackageInstalled
  <2>11. QED
    BY <1>3, <2>1, <2>2, <2>3, <2>4, <2>5, <2>6, <2>7, <2>8, <2>9, <2>10
    DEF SetUpDatabase
<1>4. CASE SetUpPanel
  <2>1. CASE SaveCheckpoint
    BY <2>1, ZenonT(60) DEF SaveCheckpoint, Checkpoint, SavedState
  <2>2. CASE Configure \/ WriteConfig
    BY <2>2, ZenonT(60) DEF Configure, ConfigureWith, PreservedKey, Rewrite, EmptyConfig,
        WriteConfig, Down
  <2>3. CASE ResolveRelease \/ CreateSystemdUnit \/ DownloadBinaries
    BY <2>3, ZenonT(60) DEF ResolveRelease, CreateSystemdUnit, DownloadBinaries
  <2>4. QED
    BY <1>4, <2>1, <2>2, <2>3 DEF SetUpPanel
<1>5. CASE SetUpDaemon
  BY <1>5, ZenonT(60) DEF SetUpDaemon, SeedSetupKey, Rewrite, EmptyConfig, StartToEnroll,
      Start, Boot, Down, EnrollDaemon, StopAfterEnrollment, RemoveSetupKey,
      WriteKeyFails
<1>6. CASE Serve
  <2>1. CASE SaveInstallationDetails
    BY <2>1 DEF SaveInstallationDetails, Checkpoint, SavedState
  <2>2. CASE StartPanel
    BY <2>2 DEF StartPanel, Start, Boot, Down, EmptyConfig
  <2>3. CASE WaitForHealth
    BY <2>3 DEF WaitForHealth
  <2>4. CASE UpdateAdminPassword
    BY <2>4 DEF UpdateAdminPassword
  <2>5. CASE Finish
    BY <2>5 DEF Finish, Checkpoint, SavedState
  <2>6. QED
    BY <1>6, <2>1, <2>2, <2>3, <2>4, <2>5 DEF Serve
<1>7. CASE Uninstall
  BY <1>7 DEF Uninstall, StopAndUninstall, Down, EmptyConfig, UninstallGameAP,
      RemoveData, RemoveDatabase
<1>8. CASE Manage
  BY <1>8 DEF Manage, WriteEnv, Restart, Boot, Down, EmptyConfig, ChangePassword
<1>9. CASE Fail \/ Crash
  BY <1>9 DEF Fail, Forget, NoCommand, NoMemory, NoFacts, Down, EmptyConfig,
      Failing, Crash
<1>10. QED
  BY <1>1, <1>2, <1>3, <1>4, <1>5, <1>6, <1>7, <1>8, <1>9 DEF Next

\* config.env is the one of this run.
LEMMA StepConfigInv ==
  TypeOK /\ ConfigInv /\ Next => ConfigInv'
<1> SUFFICES ASSUME TypeOK, ConfigInv, Next PROVE ConfigInv'
  OBVIOUS
<1> USE Numbers DEF files, dbs, history, ConfigInv, TypeOK, ValuesOK, Commands, Memory,
    States, Configs, Servers, Stores, FlagsOK, Configured, Writing, Ended, Store
<1>1. CASE Begins
  BY <1>1, RequestedAssumption DEF Begins, HandleV4, RestorePreviousState,
      Reuses, Databases, HandleUninstall, Begin, NoCommand, NoMemory,
      HandleLetsEncrypt, HandleChangePassword, NoFacts
<1>2. CASE Prepare
  BY <1>2 DEF Prepare, Check, InstallSystemDependencies, PreconfigureDatabase,
      Checkpoint, SavedState
<1>3. CASE SetUpDatabase
  BY <1>3 DEF SetUpDatabase, ConnectExisting, InstallSqlite, InstallPostgreSQL,
      PostInstallationSteps, CheckPostgreSQLConnection, InstallMySQL,
      PackageInstalled, PackageFailed, MakeDataDirectory, ConfigureMySQL, SetUser,
      ConfigureMySQLFails, PurgeMySQL, Purge, RemoveDataDirectory,
      InstallMariaDB
<1>4. CASE SetUpPanel
  <2>1. CASE SaveCheckpoint
    <3>1. UNCHANGED <<mem, cmd, config, buf>>
      BY <2>1 DEF SaveCheckpoint
    <3>2. faulted => faulted'
      BY <2>1, Zenon DEF SaveCheckpoint, Checkpoint
    <3>3. \/ pc = "checkpoint" /\ pc' = "release"
          \/ pc = "installed" /\ pc' \in {"enroll", "save"}
      BY <2>1 DEF SaveCheckpoint
    <3>4. QED
      BY <3>1, <3>2, <3>3
  <2>2. CASE ResolveRelease
    BY <2>2 DEF ResolveRelease
  <2>3. CASE Configure
    BY <2>3 DEF Configure, ConfigureWith, PreservedKey, Rewrite, EmptyConfig
  <2>4. CASE WriteConfig
    BY <2>4 DEF WriteConfig, Down, EmptyConfig
  <2>5. CASE CreateSystemdUnit
    BY <2>5 DEF CreateSystemdUnit
  <2>6. CASE DownloadBinaries
    BY <2>6 DEF DownloadBinaries
  <2>7. QED
    BY <1>4, <2>1, <2>2, <2>3, <2>4, <2>5, <2>6 DEF SetUpPanel
<1>5. CASE SetUpDaemon
  <2>1. CASE SeedSetupKey
    <3>1. mem' = mem /\ cmd' = cmd /\ pc = "enroll"
      BY <2>1 DEF SeedSetupKey
    <3>2. CASE pc' = "write key" /\ faulted' = faulted
      <4>1. PICK v \in BOOLEAN : Rewrite([config EXCEPT !.setup = v])
        BY <2>1, <3>2 DEF SeedSetupKey
      <4>2. QED
        BY <3>1, <3>2, <4>1, Resetup, ZenonT(60)
    <3>3. CASE pc' = "save" /\ faulted' /\ config' = config
      BY <3>1, <3>3
    <3>4. QED
      BY <2>1, <3>2, <3>3, Zenon DEF SeedSetupKey
  <2>2. CASE StartToEnroll
    BY <2>2 DEF StartToEnroll, Start, Boot, Down, EmptyConfig
  <2>3. CASE EnrollDaemon
    BY <2>3 DEF EnrollDaemon
  <2>4. CASE StopAfterEnrollment
    BY <2>4 DEF StopAfterEnrollment, Down, EmptyConfig
  <2>5. CASE RemoveSetupKey
    <3>1. mem' = mem /\ cmd' = cmd /\ pc = "withdraw"
      BY <2>5 DEF RemoveSetupKey
    <3>2. CASE pc' = "write without key" /\ faulted' = faulted
      <4>1. PICK v \in BOOLEAN : Rewrite([config EXCEPT !.setup = v])
        BY <2>5, <3>2 DEF RemoveSetupKey
      <4>2. QED
        BY <3>1, <3>2, <4>1, Resetup, ZenonT(60)
    <3>3. CASE pc' = "save" /\ faulted' /\ config' = config
      BY <3>1, <3>3
    <3>4. QED
      BY <2>5, <3>2, <3>3, Zenon DEF RemoveSetupKey
  <2>6. CASE WriteKeyFails
    BY <2>6 DEF WriteKeyFails
  <2>7. QED
    BY <1>5, <2>1, <2>2, <2>3, <2>4, <2>5, <2>6 DEF SetUpDaemon
<1>6. CASE Serve
  BY <1>6, ZenonT(60) DEF Serve, SaveInstallationDetails, Checkpoint, SavedState,
      StartPanel, Start, Boot, Down, EmptyConfig, WaitForHealth,
      UpdateAdminPassword, Finish
<1>7. CASE Uninstall
  BY <1>7 DEF Uninstall, StopAndUninstall, Down, EmptyConfig, UninstallGameAP,
      RemoveData, RemoveDatabase
<1>8. CASE Manage
  BY <1>8 DEF Manage, WriteEnv, Restart, Boot, Down, EmptyConfig, ChangePassword
<1>9. CASE Fail \/ Crash
  BY <1>9 DEF Fail, Forget, NoCommand, NoMemory, NoFacts, Down, EmptyConfig,
      Failing, Crash
<1>10. QED
  BY <1>1, <1>2, <1>3, <1>4, <1>5, <1>6, <1>7, <1>8, <1>9 DEF Next

\* The setup key is withdrawn.
LEMMA StepSetupInv ==
  TypeOK /\ SetupInv /\ Next => SetupInv'
<1> SUFFICES ASSUME TypeOK, SetupInv, Next PROVE SetupInv'
  OBVIOUS
<1> USE Numbers DEF files, dbs, history, SetupInv, TypeOK, ValuesOK, Commands, Memory,
    States, Configs, Servers, Stores, FlagsOK, Configured, DaemonSteps, Ended
<1>1. CASE Begins
  <2>1. CASE (\E d \in Requested, ex, wd \in BOOLEAN : HandleV4(d, ex, wd))
    <3>1. PICK d \in Requested, ex, wd \in BOOLEAN : HandleV4(d, ex, wd)
      BY <2>1
    <3>2. panel' = panel /\ pc' = "check" /\ (at'.up <=> Up)
      BY <3>1 DEF HandleV4
    <3>3. QED
      BY <3>2
  <2>2. CASE (\E data \in BOOLEAN : HandleUninstall(data))
    BY <2>2 DEF HandleUninstall, Begin, NoCommand, NoMemory, NoFacts
  <2>3. CASE HandleLetsEncrypt
    BY <2>3 DEF HandleLetsEncrypt, Begin, NoCommand, NoMemory, NoFacts
  <2>4. CASE HandleChangePassword
    BY <2>4 DEF HandleChangePassword, Begin, NoCommand, NoMemory, NoFacts
  <2>5. QED
    BY <1>1, <2>1, <2>2, <2>3, <2>4 DEF Begins
<1>2. CASE Prepare
  BY <1>2 DEF Prepare, Check, InstallSystemDependencies, PreconfigureDatabase,
      Checkpoint, SavedState
<1>3. CASE SetUpDatabase
  BY <1>3 DEF SetUpDatabase, ConnectExisting, InstallSqlite, InstallPostgreSQL,
      PostInstallationSteps, CheckPostgreSQLConnection, InstallMySQL,
      PackageInstalled, PackageFailed, MakeDataDirectory, ConfigureMySQL, SetUser,
      ConfigureMySQLFails, PurgeMySQL, Purge, RemoveDataDirectory,
      InstallMariaDB
<1>4. CASE SetUpPanel
  <2>1. CASE SaveCheckpoint
    <3>1. UNCHANGED <<mem, cmd, config, buf>>
      BY <2>1 DEF SaveCheckpoint
    <3>2. faulted => faulted'
      BY <2>1, Zenon DEF SaveCheckpoint, Checkpoint
    <3>3. \/ pc = "checkpoint" /\ pc' = "release"
          \/ pc = "installed" /\ pc' \in {"enroll", "save"}
      BY <2>1 DEF SaveCheckpoint
    <3>4. QED
      BY <3>1, <3>2, <3>3
  <2>2. CASE ResolveRelease
    BY <2>2 DEF ResolveRelease
  <2>3. CASE Configure
    BY <2>3 DEF Configure, ConfigureWith, PreservedKey, Rewrite, EmptyConfig
  <2>4. CASE WriteConfig
    BY <2>4 DEF WriteConfig, Down, EmptyConfig
  <2>5. CASE CreateSystemdUnit
    BY <2>5 DEF CreateSystemdUnit
  <2>6. CASE DownloadBinaries
    BY <2>6 DEF DownloadBinaries
  <2>7. QED
    BY <1>4, <2>1, <2>2, <2>3, <2>4, <2>5, <2>6 DEF SetUpPanel
<1>5. CASE SetUpDaemon
  BY <1>5 DEF SetUpDaemon, SeedSetupKey, Rewrite, EmptyConfig, StartToEnroll,
      Start, Boot, Down, EnrollDaemon, StopAfterEnrollment, RemoveSetupKey,
      WriteKeyFails
<1>6. CASE Serve
  BY <1>6 DEF Serve, SaveInstallationDetails, Checkpoint, SavedState,
      StartPanel, Start, Boot, Down, EmptyConfig, WaitForHealth,
      UpdateAdminPassword, Finish
<1>7. CASE Uninstall
  BY <1>7 DEF Uninstall, StopAndUninstall, Down, EmptyConfig, UninstallGameAP,
      RemoveData, RemoveDatabase
<1>8. CASE Manage
  BY <1>8 DEF Manage, WriteEnv, Restart, Boot, Down, EmptyConfig, ChangePassword
<1>9. CASE Fail \/ Crash
  BY <1>9 DEF Fail, Forget, NoCommand, NoMemory, NoFacts, Down, EmptyConfig,
      Failing, Crash
<1>10. QED
  BY <1>1, <1>2, <1>3, <1>4, <1>5, <1>6, <1>7, <1>8, <1>9 DEF Next

\* Whether the panel serves before it is started.
LEMMA StepPanelInv ==
  TypeOK /\ CommandInv /\ PanelInv /\ Next => PanelInv'
<1> SUFFICES ASSUME TypeOK, CommandInv, PanelInv, Next PROVE PanelInv'
  OBVIOUS
<1> USE Numbers DEF files, dbs, history, CommandInv, PanelInv, TypeOK, ValuesOK, Commands,
    Memory, States, Configs, Servers, Stores, FlagsOK, Ended, MySQLSteps,
    DaemonSteps, Writing, Configured, Reached, Served, Managing, Installing, Up
<1>1. CASE Begins
  <2>1. CASE (\E d \in Requested, ex, wd \in BOOLEAN : HandleV4(d, ex, wd))
    <3>1. PICK d \in Requested, ex, wd \in BOOLEAN : HandleV4(d, ex, wd)
      BY <2>1
    <3>2. panel' = panel /\ pc' = "check" /\ (at'.up <=> Up)
      BY <3>1 DEF HandleV4
    <3>3. QED
      BY <3>2
  <2>2. CASE (\E data \in BOOLEAN : HandleUninstall(data))
    BY <2>2 DEF HandleUninstall, Begin, NoCommand, NoMemory, NoFacts
  <2>3. CASE HandleLetsEncrypt
    BY <2>3 DEF HandleLetsEncrypt, Begin, NoCommand, NoMemory, NoFacts
  <2>4. CASE HandleChangePassword
    BY <2>4 DEF HandleChangePassword, Begin, NoCommand, NoMemory, NoFacts
  <2>5. QED
    BY <1>1, <2>1, <2>2, <2>3, <2>4 DEF Begins
<1>2. CASE Prepare
  BY <1>2, ZenonT(60) DEF Prepare, Check, InstallSystemDependencies, PreconfigureDatabase,
      Checkpoint, SavedState
<1>3. CASE SetUpDatabase
  BY <1>3, ZenonT(60) DEF SetUpDatabase, ConnectExisting, InstallSqlite, InstallPostgreSQL,
      PostInstallationSteps, CheckPostgreSQLConnection, InstallMySQL,
      PackageInstalled, PackageFailed, MakeDataDirectory, ConfigureMySQL, SetUser,
      ConfigureMySQLFails, PurgeMySQL, Purge, RemoveDataDirectory,
      InstallMariaDB
<1>4. CASE SetUpPanel
  BY <1>4, ZenonT(60) DEF SetUpPanel, SaveCheckpoint, Checkpoint, SavedState,
      ResolveRelease, Configure, ConfigureWith, PreservedKey, Rewrite,
      EmptyConfig, WriteConfig, Down, CreateSystemdUnit, DownloadBinaries
<1>5. CASE SetUpDaemon
  <2>1. CASE SeedSetupKey
    BY <2>1 DEF SeedSetupKey, Rewrite, EmptyConfig
  <2>2. CASE StartToEnroll
    BY <2>2 DEF StartToEnroll, Start, Boot, Down, EmptyConfig
  <2>3. CASE EnrollDaemon
    BY <2>3 DEF EnrollDaemon
  <2>4. CASE StopAfterEnrollment
    BY <2>4 DEF StopAfterEnrollment, Down, EmptyConfig
  <2>5. CASE RemoveSetupKey
    BY <2>5 DEF RemoveSetupKey, Rewrite, EmptyConfig
  <2>6. CASE WriteKeyFails
    BY <2>6 DEF WriteKeyFails
  <2>7. QED
    BY <1>5, <2>1, <2>2, <2>3, <2>4, <2>5, <2>6 DEF SetUpDaemon
<1>6. CASE Serve
  BY <1>6, ZenonT(60) DEF Serve, SaveInstallationDetails, Checkpoint, SavedState,
      StartPanel, Start, Boot, Down, EmptyConfig, WaitForHealth,
      UpdateAdminPassword, Finish
<1>7. CASE Uninstall
  BY <1>7 DEF Uninstall, StopAndUninstall, Down, EmptyConfig, UninstallGameAP,
      RemoveData, RemoveDatabase
<1>8. CASE Manage
  BY <1>8 DEF Manage, WriteEnv, Restart, Boot, Down, EmptyConfig, ChangePassword
<1>9. CASE Fail \/ Crash
  BY <1>9 DEF Fail, Forget, NoCommand, NoMemory, NoFacts, Down, EmptyConfig,
      Failing, Crash
<1>10. QED
  BY <1>1, <1>2, <1>3, <1>4, <1>5, <1>6, <1>7, <1>8, <1>9 DEF Next

\* The panel that was started serves config.env.
LEMMA StepHealthInv ==
  TypeOK /\ CommandInv /\ ReachInv /\ ConfigInv /\ PanelInv /\ HealthInv /\ Next => HealthInv'
<1> SUFFICES ASSUME TypeOK, CommandInv, ReachInv, ConfigInv, PanelInv, HealthInv, Next PROVE HealthInv'
  OBVIOUS
<1> USE Numbers DEF files, dbs, history, CommandInv, ReachInv, ConfigInv,
    PanelInv, HealthInv, TypeOK, ValuesOK, Commands, Memory, States, Configs, Servers,
    Stores, FlagsOK, Ended, MySQLSteps, DaemonSteps, Writing, Configured,
    Reached, Served, Managing, Installing, Up, Store, Reachable
<1>1. CASE Begins
  BY <1>1, RequestedAssumption, ZenonT(60) DEF Begins, HandleV4, RestorePreviousState,
      Reuses, Databases, HandleUninstall, Begin, NoCommand, NoMemory,
      HandleLetsEncrypt, HandleChangePassword, NoFacts
<1>2. CASE Prepare
  BY <1>2 DEF Prepare, Check, InstallSystemDependencies, PreconfigureDatabase,
      Checkpoint, SavedState
<1>3. CASE SetUpDatabase
  BY <1>3 DEF SetUpDatabase, ConnectExisting, InstallSqlite, InstallPostgreSQL,
      PostInstallationSteps, CheckPostgreSQLConnection, InstallMySQL,
      PackageInstalled, PackageFailed, MakeDataDirectory, ConfigureMySQL, SetUser,
      ConfigureMySQLFails, PurgeMySQL, Purge, RemoveDataDirectory,
      InstallMariaDB
<1>4. CASE SetUpPanel
  BY <1>4 DEF SetUpPanel, SaveCheckpoint, Checkpoint, SavedState,
      ResolveRelease, Configure, ConfigureWith, PreservedKey, Rewrite,
      EmptyConfig, WriteConfig, Down, CreateSystemdUnit, DownloadBinaries
<1>5. CASE SetUpDaemon
  BY <1>5 DEF SetUpDaemon, SeedSetupKey, Rewrite, EmptyConfig, StartToEnroll,
      Start, Boot, Down, EnrollDaemon, StopAfterEnrollment, RemoveSetupKey,
      WriteKeyFails
<1>6. CASE Serve
  <2>1. CASE SaveInstallationDetails
    BY <2>1 DEF SaveInstallationDetails, Checkpoint, SavedState
  <2>2. CASE StartPanel
    BY <2>2 DEF StartPanel, Start, Boot, Down, EmptyConfig
  <2>3. CASE WaitForHealth
    BY <2>3 DEF WaitForHealth
  <2>4. CASE UpdateAdminPassword
    BY <2>4 DEF UpdateAdminPassword
  <2>5. CASE Finish
    BY <2>5 DEF Finish, Checkpoint, SavedState
  <2>6. QED
    BY <1>6, <2>1, <2>2, <2>3, <2>4, <2>5 DEF Serve
<1>7. CASE Uninstall
  BY <1>7 DEF Uninstall, StopAndUninstall, Down, EmptyConfig, UninstallGameAP,
      RemoveData, RemoveDatabase
<1>8. CASE Manage
  BY <1>8 DEF Manage, WriteEnv, Restart, Boot, Down, EmptyConfig, ChangePassword
<1>9. CASE Fail \/ Crash
  BY <1>9 DEF Fail, Forget, NoCommand, NoMemory, NoFacts, Down, EmptyConfig,
      Failing, Crash
<1>10. QED
  BY <1>1, <1>2, <1>3, <1>4, <1>5, <1>6, <1>7, <1>8, <1>9 DEF Next

\* The administrator can log in.
LEMMA StepFinishInv ==
  TypeOK /\ CommandInv /\ ConfigInv /\ FinishInv /\ Next => FinishInv'
<1> SUFFICES ASSUME TypeOK, CommandInv, ConfigInv, FinishInv, Next PROVE FinishInv'
  OBVIOUS
<1> USE Numbers DEF files, dbs, history, CommandInv, ConfigInv, FinishInv,
    TypeOK, ValuesOK, Commands, Memory, States, Configs, Servers, Stores, FlagsOK,
    Configured, Ended, Store, HasAdmin, Reachable
<1>1. CASE Begins
  BY <1>1, RequestedAssumption DEF Begins, HandleV4, RestorePreviousState,
      Reuses, Databases, HandleUninstall, Begin, NoCommand, NoMemory,
      HandleLetsEncrypt, HandleChangePassword, NoFacts
<1>2. CASE Prepare
  BY <1>2 DEF Prepare, Check, InstallSystemDependencies, PreconfigureDatabase,
      Checkpoint, SavedState
<1>3. CASE SetUpDatabase
  BY <1>3 DEF SetUpDatabase, ConnectExisting, InstallSqlite, InstallPostgreSQL,
      PostInstallationSteps, CheckPostgreSQLConnection, InstallMySQL,
      PackageInstalled, PackageFailed, MakeDataDirectory, ConfigureMySQL, SetUser,
      ConfigureMySQLFails, PurgeMySQL, Purge, RemoveDataDirectory,
      InstallMariaDB
<1>4. CASE SetUpPanel
  BY <1>4 DEF SetUpPanel, SaveCheckpoint, Checkpoint, SavedState,
      ResolveRelease, Configure, ConfigureWith, PreservedKey, Rewrite,
      EmptyConfig, WriteConfig, Down, CreateSystemdUnit, DownloadBinaries
<1>5. CASE SetUpDaemon
  BY <1>5 DEF SetUpDaemon, SeedSetupKey, Rewrite, EmptyConfig, StartToEnroll,
      Start, Boot, Down, EnrollDaemon, StopAfterEnrollment, RemoveSetupKey,
      WriteKeyFails
<1>6. CASE Serve
  BY <1>6 DEF Serve, SaveInstallationDetails, Checkpoint, SavedState,
      StartPanel, Start, Boot, Down, EmptyConfig, WaitForHealth,
      UpdateAdminPassword, Finish
<1>7. CASE Uninstall
  BY <1>7 DEF Uninstall, StopAndUninstall, Down, EmptyConfig, UninstallGameAP,
      RemoveData, RemoveDatabase
<1>8. CASE Manage
  BY <1>8 DEF Manage, WriteEnv, Restart, Boot, Down, EmptyConfig, ChangePassword
<1>9. CASE Fail \/ Crash
  BY <1>9 DEF Fail, Forget, NoCommand, NoMemory, NoFacts, Down, EmptyConfig,
      Failing, Crash
<1>10. QED
  BY <1>1, <1>2, <1>3, <1>4, <1>5, <1>6, <1>7, <1>8, <1>9 DEF Next

\* What DONE reports works.
LEMMA StepDoneIsUsable ==
  TypeOK /\ CommandInv /\ FinishInv /\ DoneIsUsable /\ Next => DoneIsUsable'
<1> SUFFICES ASSUME TypeOK, CommandInv, FinishInv, DoneIsUsable, Next PROVE DoneIsUsable'
  OBVIOUS
<1> USE Numbers DEF files, dbs, history, CommandInv, FinishInv, DoneIsUsable,
    TypeOK, ValuesOK, Commands, Memory, States, Configs, Servers, Stores, FlagsOK, Ended,
    Served, Store, HasAdmin, Reachable
<1>1. CASE Begins
  BY <1>1, RequestedAssumption DEF Begins, HandleV4, RestorePreviousState,
      Reuses, Databases, HandleUninstall, Begin, NoCommand, NoMemory,
      HandleLetsEncrypt, HandleChangePassword, NoFacts
<1>2. CASE Prepare
  BY <1>2 DEF Prepare, Check, InstallSystemDependencies, PreconfigureDatabase,
      Checkpoint, SavedState
<1>3. CASE SetUpDatabase
  BY <1>3 DEF SetUpDatabase, ConnectExisting, InstallSqlite, InstallPostgreSQL,
      PostInstallationSteps, CheckPostgreSQLConnection, InstallMySQL,
      PackageInstalled, PackageFailed, MakeDataDirectory, ConfigureMySQL, SetUser,
      ConfigureMySQLFails, PurgeMySQL, Purge, RemoveDataDirectory,
      InstallMariaDB
<1>4. CASE SetUpPanel
  BY <1>4 DEF SetUpPanel, SaveCheckpoint, Checkpoint, SavedState,
      ResolveRelease, Configure, ConfigureWith, PreservedKey, Rewrite,
      EmptyConfig, WriteConfig, Down, CreateSystemdUnit, DownloadBinaries
<1>5. CASE SetUpDaemon
  BY <1>5 DEF SetUpDaemon, SeedSetupKey, Rewrite, EmptyConfig, StartToEnroll,
      Start, Boot, Down, EnrollDaemon, StopAfterEnrollment, RemoveSetupKey,
      WriteKeyFails
<1>6. CASE Serve
  BY <1>6 DEF Serve, SaveInstallationDetails, Checkpoint, SavedState,
      StartPanel, Start, Boot, Down, EmptyConfig, WaitForHealth,
      UpdateAdminPassword, Finish
<1>7. CASE Uninstall
  BY <1>7 DEF Uninstall, StopAndUninstall, Down, EmptyConfig, UninstallGameAP,
      RemoveData, RemoveDatabase
<1>8. CASE Manage
  BY <1>8 DEF Manage, WriteEnv, Restart, Boot, Down, EmptyConfig, ChangePassword
<1>9. CASE Fail \/ Crash
  BY <1>9 DEF Fail, Forget, NoCommand, NoMemory, NoFacts, Down, EmptyConfig,
      Failing, Crash
<1>10. QED
  BY <1>1, <1>2, <1>3, <1>4, <1>5, <1>6, <1>7, <1>8, <1>9 DEF Next

\* Success is in force.
LEMMA StepSuccessIsInForce ==
  TypeOK /\ HealthInv /\ SetupInv /\ SuccessIsInForce /\ Next => SuccessIsInForce'
<1> SUFFICES ASSUME TypeOK, HealthInv, SetupInv, SuccessIsInForce, Next PROVE SuccessIsInForce'
  OBVIOUS
<1> USE Numbers DEF files, dbs, history, HealthInv, SetupInv, SuccessIsInForce,
    TypeOK, ValuesOK, Commands, Memory, States, Configs, Servers, Stores, FlagsOK, Ended,
    Configured, DaemonSteps, Up, Store
<1>1. CASE Begins
  BY <1>1, RequestedAssumption DEF Begins, HandleV4, RestorePreviousState,
      Reuses, Databases, HandleUninstall, Begin, NoCommand, NoMemory,
      HandleLetsEncrypt, HandleChangePassword, NoFacts
<1>2. CASE Prepare
  BY <1>2 DEF Prepare, Check, InstallSystemDependencies, PreconfigureDatabase,
      Checkpoint, SavedState
<1>3. CASE SetUpDatabase
  BY <1>3 DEF SetUpDatabase, ConnectExisting, InstallSqlite, InstallPostgreSQL,
      PostInstallationSteps, CheckPostgreSQLConnection, InstallMySQL,
      PackageInstalled, PackageFailed, MakeDataDirectory, ConfigureMySQL, SetUser,
      ConfigureMySQLFails, PurgeMySQL, Purge, RemoveDataDirectory,
      InstallMariaDB
<1>4. CASE SetUpPanel
  BY <1>4 DEF SetUpPanel, SaveCheckpoint, Checkpoint, SavedState,
      ResolveRelease, Configure, ConfigureWith, PreservedKey, Rewrite,
      EmptyConfig, WriteConfig, Down, CreateSystemdUnit, DownloadBinaries
<1>5. CASE SetUpDaemon
  BY <1>5 DEF SetUpDaemon, SeedSetupKey, Rewrite, EmptyConfig, StartToEnroll,
      Start, Boot, Down, EnrollDaemon, StopAfterEnrollment, RemoveSetupKey,
      WriteKeyFails
<1>6. CASE Serve
  BY <1>6, ZenonT(60) DEF Serve, SaveInstallationDetails, Checkpoint, SavedState,
      StartPanel, Start, Boot, Down, EmptyConfig, WaitForHealth,
      UpdateAdminPassword, Finish
<1>7. CASE Uninstall
  BY <1>7 DEF Uninstall, StopAndUninstall, Down, EmptyConfig, UninstallGameAP,
      RemoveData, RemoveDatabase
<1>8. CASE Manage
  <2>1. CASE (\E on \in BOOLEAN : WriteEnv(on))
    BY <2>1 DEF WriteEnv
  <2>2. CASE Restart
    BY <2>2 DEF Restart, Boot, Down, EmptyConfig
  <2>3. CASE ChangePassword
    BY <2>3 DEF ChangePassword
  <2>4. QED
    BY <1>8, <2>1, <2>2, <2>3 DEF Manage
<1>9. CASE Fail \/ Crash
  BY <1>9 DEF Fail, Forget, NoCommand, NoMemory, NoFacts, Down, EmptyConfig,
      Failing, Crash
<1>10. QED
  BY <1>1, <1>2, <1>3, <1>4, <1>5, <1>6, <1>7, <1>8, <1>9 DEF Next

\* Why a run fails.
LEMMA StepFailsOnlyIfKnown ==
  TypeOK /\ CommandInv /\ FallbackInv /\ ReachInv /\ ConfigInv /\ PanelInv /\ HealthInv /\ FailsOnlyIfKnown /\ Next => FailsOnlyIfKnown'
<1> SUFFICES ASSUME TypeOK, CommandInv, FallbackInv, ReachInv, ConfigInv, PanelInv, HealthInv, FailsOnlyIfKnown, Next PROVE FailsOnlyIfKnown'
  OBVIOUS
<1> USE Numbers DEF files, dbs, history, CommandInv, FallbackInv, ReachInv,
    ConfigInv, PanelInv, HealthInv, FailsOnlyIfKnown, TypeOK, ValuesOK, Commands, Memory,
    States, Configs, Servers, Stores, FlagsOK, Ended, MySQLSteps, DaemonSteps,
    Writing, Configured, Reached, Served, Managing, Installing, Up, Store,
    HasAdmin, Reachable, Failing
<1>1. CASE Begins
  BY <1>1, RequestedAssumption DEF Begins, HandleV4, RestorePreviousState,
      Reuses, Databases, HandleUninstall, Begin, NoCommand, NoMemory,
      HandleLetsEncrypt, HandleChangePassword, NoFacts
<1>2. CASE Prepare
  BY <1>2 DEF Prepare, Check, InstallSystemDependencies, PreconfigureDatabase,
      Checkpoint, SavedState
<1>3. CASE SetUpDatabase
  <2>1. CASE PostInstallationSteps
    BY <2>1 DEF PostInstallationSteps
  <2>2. CASE CheckPostgreSQLConnection
    BY <2>2 DEF CheckPostgreSQLConnection
  <2>3. CASE ConfigureMySQLFails
    <3>1. pc' = "failed" /\ faulted' = FALSE => pc = "mariadb" /\ Refused
      BY <2>3 DEF ConfigureMySQLFails
    <3>2. UNCHANGED <<cmd, mem, server, rootPw>>
      BY <2>3 DEF ConfigureMySQLFails
    <3>3. Refused => mem.host = "remote" \/ ~RootKnown \/ userPw["mysql"] # 0
                     \/ pc # "mariadb"
      BY DEF Refused
    <3>4. pc' = "failed" /\ faulted' = FALSE => userPw' = userPw
      BY <2>3 DEF ConfigureMySQLFails
    <3>5. faulted' \in BOOLEAN
      BY <2>3 DEF ConfigureMySQLFails
    <3>6. RootKnown' = RootKnown
      BY <3>2 DEF RootKnown
    <3>7. QED
      BY <3>1, <3>2, <3>3, <3>4, <3>5, <3>6
  <2>4. CASE pc' # "failed"
    BY <2>4
  <2>5. QED
    BY <1>3, <2>1, <2>2, <2>3, <2>4
    DEF SetUpDatabase, ConnectExisting, InstallSqlite, InstallPostgreSQL, InstallMySQL,
        ConfigureMySQL, PurgeMySQL, InstallMariaDB
<1>4. CASE SetUpPanel
  BY <1>4 DEF SetUpPanel, SaveCheckpoint, Checkpoint, SavedState,
      ResolveRelease, Configure, ConfigureWith, PreservedKey, Rewrite,
      EmptyConfig, WriteConfig, Down, CreateSystemdUnit, DownloadBinaries
<1>5. CASE SetUpDaemon
  BY <1>5 DEF SetUpDaemon, SeedSetupKey, Rewrite, EmptyConfig, StartToEnroll,
      Start, Boot, Down, EnrollDaemon, StopAfterEnrollment, RemoveSetupKey,
      WriteKeyFails
<1>6. CASE Serve
  <2>1. CASE SaveInstallationDetails
    BY <2>1 DEF SaveInstallationDetails, Checkpoint, SavedState
  <2>2. CASE StartPanel
    BY <2>2 DEF StartPanel, Start, Boot, Down, EmptyConfig
  <2>3. CASE WaitForHealth
    BY <2>3 DEF WaitForHealth
  <2>4. CASE UpdateAdminPassword
    BY <2>4 DEF UpdateAdminPassword
  <2>5. CASE Finish
    BY <2>5 DEF Finish, Checkpoint, SavedState
  <2>6. QED
    BY <1>6, <2>1, <2>2, <2>3, <2>4, <2>5 DEF Serve
<1>7. CASE Uninstall
  BY <1>7 DEF Uninstall, StopAndUninstall, Down, EmptyConfig, UninstallGameAP,
      RemoveData, RemoveDatabase
<1>8. CASE Manage
  BY <1>8, ZenonT(60) DEF Manage, WriteEnv, Restart, Boot, Down, EmptyConfig, ChangePassword
<1>9. CASE Fail \/ Crash
  BY <1>9 DEF Fail, Forget, NoCommand, NoMemory, NoFacts, Down, EmptyConfig,
      Failing, Crash
<1>10. QED
  BY <1>1, <1>2, <1>3, <1>4, <1>5, <1>6, <1>7, <1>8, <1>9 DEF Next

\* Every step leads to a label.
LEMMA StepLabels ==
  TypeOK /\ Next => pc' \in Labels
<1> SUFFICES ASSUME TypeOK, Next PROVE pc' \in Labels
  OBVIOUS
<1> USE DEF files, dbs, history, TypeOK, Labels, Failing, Ended
<1>1. CASE Begins
  BY <1>1, RequestedAssumption, Numbers DEF Begins, HandleV4,
      RestorePreviousState, Reuses, Databases, HandleUninstall, Begin,
      NoCommand, NoMemory, HandleLetsEncrypt, HandleChangePassword, NoFacts
<1>2. CASE Prepare
  BY <1>2 DEF Prepare, Check, InstallSystemDependencies, PreconfigureDatabase,
      Checkpoint, SavedState
<1>3. CASE SetUpDatabase
  BY <1>3 DEF SetUpDatabase, ConnectExisting, InstallSqlite, InstallPostgreSQL,
      PostInstallationSteps, CheckPostgreSQLConnection, InstallMySQL,
      PackageInstalled, PackageFailed, MakeDataDirectory, ConfigureMySQL, SetUser,
      ConfigureMySQLFails, PurgeMySQL, Purge, RemoveDataDirectory,
      InstallMariaDB
<1>4. CASE SetUpPanel
  BY <1>4 DEF SetUpPanel, SaveCheckpoint, Checkpoint, SavedState,
      ResolveRelease, Configure, ConfigureWith, PreservedKey, Rewrite,
      EmptyConfig, WriteConfig, Down, CreateSystemdUnit, DownloadBinaries
<1>5. CASE SetUpDaemon
  BY <1>5 DEF SetUpDaemon, SeedSetupKey, Rewrite, EmptyConfig, StartToEnroll,
      Start, Boot, Down, EnrollDaemon, StopAfterEnrollment, RemoveSetupKey,
      WriteKeyFails
<1>6. CASE Serve
  BY <1>6 DEF Serve, SaveInstallationDetails, Checkpoint, SavedState,
      StartPanel, Start, Boot, Down, EmptyConfig, WaitForHealth,
      UpdateAdminPassword, Finish
<1>7. CASE Uninstall
  BY <1>7 DEF Uninstall, StopAndUninstall, Down, EmptyConfig, UninstallGameAP,
      RemoveData, RemoveDatabase
<1>8. CASE Manage
  BY <1>8 DEF Manage, WriteEnv, Restart, Boot, Down, EmptyConfig, ChangePassword
<1>9. CASE Fail \/ Crash
  BY <1>9 DEF Fail, Forget, NoCommand, NoMemory, NoFacts, Down, EmptyConfig,
      Failing, Crash
<1>10. QED
  BY <1>1, <1>2, <1>3, <1>4, <1>5, <1>6, <1>7, <1>8, <1>9 DEF Next

\* What each part of a command leaves alone.
LEMMA Frames ==
  /\ Begins => UNCHANGED <<saved, config, buf, unit, server, dataDir, rootPw, userPw,
       enc, adm, panel, keyLost>>
  /\ Prepare => UNCHANGED <<run, cmd, config, buf, unit, server, dataDir, rootPw,
       userPw, enc, adm, panel, keyLost, at>>
  /\ SetUpDatabase => UNCHANGED <<run, cmd, saved, config, buf, unit, panel,
       keyLost, at>>
  /\ SetUpPanel => UNCHANGED <<run, cmd, mem, server, dataDir, rootPw, userPw, enc, adm,
       panel, at>>
  /\ SetUpDaemon => UNCHANGED <<run, cmd, mem, saved, unit, server, dataDir, rootPw,
       userPw, keyLost>>
  /\ Serve => UNCHANGED <<run, cmd, config, buf, unit, server, dataDir, rootPw, userPw,
       keyLost, at>>
  /\ Uninstall => UNCHANGED <<run, cmd, mem, saved, buf, dataDir, rootPw, userPw,
       keyLost, at>>
  /\ Manage => UNCHANGED <<run, cmd, mem, saved, buf, unit, server, dataDir, rootPw,
       userPw, keyLost, at, faulted>>
  /\ Fail \/ Crash => UNCHANGED <<run, saved, config, unit, server, dataDir, rootPw,
       userPw, enc, adm, panel, keyLost>>
<1>1. Begins => UNCHANGED <<saved, config, buf, unit, server, dataDir, rootPw, userPw,
    enc, adm, panel, keyLost>>
  BY Zenon DEF Begins, HandleV4, HandleUninstall, HandleLetsEncrypt,
      HandleChangePassword, Begin, files, dbs, history
<1>2. Prepare => UNCHANGED <<run, cmd, config, buf, unit, server, dataDir, rootPw,
    userPw, enc, adm, panel, keyLost, at>>
  BY Zenon DEF Prepare, Check, InstallSystemDependencies, PreconfigureDatabase,
      files, dbs, history
<1>3. SetUpDatabase => UNCHANGED <<run, cmd, saved, config, buf, unit, panel,
    keyLost, at>>
  BY Zenon DEF SetUpDatabase, ConnectExisting, InstallSqlite, InstallPostgreSQL,
      PostInstallationSteps, CheckPostgreSQLConnection, InstallMySQL,
      ConfigureMySQL, ConfigureMySQLFails, PurgeMySQL, InstallMariaDB, files,
      dbs, history
<1>4. SetUpPanel => UNCHANGED <<run, cmd, mem, server, dataDir, rootPw, userPw, enc,
    adm, panel, at>>
  BY Zenon DEF SetUpPanel, SaveCheckpoint, ResolveRelease, Configure,
      WriteConfig, CreateSystemdUnit, DownloadBinaries, ConfigureWith, files,
      dbs, history
<1>5. SetUpDaemon => UNCHANGED <<run, cmd, mem, saved, unit, server, dataDir, rootPw,
    userPw, keyLost>>
  BY Zenon DEF SetUpDaemon, SeedSetupKey, StartToEnroll, EnrollDaemon,
      StopAfterEnrollment, RemoveSetupKey, WriteKeyFails, files, dbs, history
<1>6. Serve => UNCHANGED <<run, cmd, config, buf, unit, server, dataDir, rootPw, userPw,
    keyLost, at>>
  BY Zenon DEF Serve, SaveInstallationDetails, StartPanel, WaitForHealth,
      UpdateAdminPassword, Finish, files, dbs, history
<1>7. Uninstall => UNCHANGED <<run, cmd, mem, saved, buf, dataDir, rootPw, userPw,
    keyLost, at>>
  BY Zenon DEF Uninstall, StopAndUninstall, UninstallGameAP, RemoveData,
      RemoveDatabase, files, dbs, history
<1>8. Manage => UNCHANGED <<run, cmd, mem, saved, buf, unit, server, dataDir, rootPw,
    userPw, keyLost, at, faulted>>
  BY Zenon DEF Manage, WriteEnv, Restart, ChangePassword, files, dbs, history
<1>9. Fail \/ Crash => UNCHANGED <<run, saved, config, unit, server, dataDir, rootPw,
    userPw, enc, adm, panel, keyLost>>
  BY Zenon DEF Fail, Crash, files, dbs, history
<1>10. QED
  BY <1>1, <1>2, <1>3, <1>4, <1>5, <1>6, <1>7, <1>8, <1>9

\* The values stay in their sets, one variable after the other.
LEMMA StepValues == TypeOK /\ CommandInv /\ Next => ValuesOK'
<1> SUFFICES ASSUME TypeOK, CommandInv, Next PROVE ValuesOK'
  OBVIOUS
<1>0. ValuesOK
  BY DEF TypeOK
<1>1. run' \in 0 .. MaxRuns /\ cmd' \in Commands
  <2>1. run \in 0 .. MaxRuns /\ cmd \in Commands
    BY <1>0 DEF ValuesOK
  <2>2. ASSUME NEW d \in Requested, NEW ex \in BOOLEAN, NEW wd \in BOOLEAN, HandleV4(d, ex, wd)
        PROVE  run' \in 0 .. MaxRuns /\ cmd' \in Commands
    BY <2>1, <2>2, RequestedAssumption, Numbers DEF HandleV4, Commands
  <2>3. ASSUME NEW data \in BOOLEAN, NEW label, Begin(data, label)
        PROVE  run' \in 0 .. MaxRuns /\ cmd' \in Commands
    BY <2>1, <2>3, Numbers DEF Begin, NoCommand, Commands, Databases
  <2>4. CASE Fail \/ Crash
    <3>1. run' = run /\ cmd' = NoCommand
      BY <2>4, Zenon DEF Fail, Crash, Forget
    <3>2. QED
      BY <2>1, <3>1 DEF NoCommand, Commands, Databases
  <2>5. CASE \/ Prepare \/ SetUpDatabase \/ SetUpPanel \/ SetUpDaemon \/ Serve
             \/ Uninstall \/ Manage
    BY <2>5, <2>1, Frames
  <2>6. CASE Begins
    BY <2>2, <2>3, <2>6 DEF Begins, HandleUninstall, HandleLetsEncrypt, HandleChangePassword
  <2>7. QED
    BY <2>4, <2>5, <2>6, Zenon
    DEF Next, Prepare, SetUpDatabase, SetUpPanel, SetUpDaemon, Serve, Uninstall,
        Manage
<1>2. mem' \in Memory
  <2>1. mem \in Memory /\ run \in 0 .. MaxRuns
    BY <1>0 DEF ValuesOK
  <2>2. ASSUME NEW d \in Requested, NEW ex \in BOOLEAN, NEW wd \in BOOLEAN, HandleV4(d, ex, wd)
        PROVE  mem' \in Memory
    BY <1>0, <2>2, Numbers DEF ValuesOK, HandleV4, RestorePreviousState, States, Memory
  <2>3. ASSUME NEW data \in BOOLEAN, NEW label, Begin(data, label)
        PROVE  mem' \in Memory
    BY <2>3, Numbers DEF Begin, NoMemory, Memory
  <2>4. CASE Fail \/ Crash
    <3>1. mem' = NoMemory
      BY <2>4, Zenon DEF Fail, Crash, Forget
    <3>2. QED
      BY <3>1, Numbers DEF NoMemory, Memory
  <2>5. CASE PreconfigureDatabase
    BY <2>1, <2>5, Numbers DEF PreconfigureDatabase, Memory
  <2>6. CASE InstallSqlite \/ PostInstallationSteps
    BY <2>1, <2>6 DEF InstallSqlite, PostInstallationSteps, Memory
  <2>7. CASE InstallMySQL \/ InstallMariaDB
    BY <2>1, <2>7 DEF InstallMySQL, InstallMariaDB, Memory
  <2>8. CASE UpdateAdminPassword
    BY <2>1, <2>8, Numbers DEF UpdateAdminPassword, Memory
  <2>9. CASE \/ Check \/ InstallSystemDependencies \/ ConnectExisting
             \/ InstallPostgreSQL \/ CheckPostgreSQLConnection \/ ConfigureMySQL
             \/ ConfigureMySQLFails \/ PurgeMySQL \/ SaveInstallationDetails
             \/ StartPanel \/ WaitForHealth \/ Finish
    BY <2>9, <2>1, Zenon
    DEF Check, InstallSystemDependencies, ConnectExisting, InstallPostgreSQL,
        CheckPostgreSQLConnection, ConfigureMySQL, ConfigureMySQLFails,
        PurgeMySQL, SaveInstallationDetails, StartPanel, WaitForHealth, Finish,
        files, dbs, history
  <2>10. CASE \/ SetUpPanel \/ SetUpDaemon \/ Uninstall \/ Manage
    BY <2>10, <2>1, Frames
  <2>11. CASE Begins
    BY <2>2, <2>3, <2>11 DEF Begins, HandleUninstall, HandleLetsEncrypt, HandleChangePassword
  <2>12. QED
    BY <2>4, <2>5, <2>6, <2>7, <2>8, <2>9, <2>10, <2>11, Zenon
    DEF Next, Prepare, SetUpDatabase, SetUpPanel, SetUpDaemon, Serve, Uninstall,
        Manage
<1>3. saved' \in States
  <2>1. saved \in States /\ mem \in Memory
    BY <1>0 DEF ValuesOK
  <2>2. \A m \in Memory : SavedState(m) \in States
    BY <1>0 DEF ValuesOK, Commands, SavedState, States, Memory
  <2>3. CASE PreconfigureDatabase \/ SaveCheckpoint \/ SaveInstallationDetails \/ Finish
    BY <1>2, <2>1, <2>2, <2>3, Zenon
    DEF PreconfigureDatabase, SaveCheckpoint, SaveInstallationDetails, Finish, Checkpoint
  <2>4. CASE \/ Check \/ InstallSystemDependencies \/ ResolveRelease \/ Configure
             \/ WriteConfig \/ CreateSystemdUnit \/ DownloadBinaries
             \/ StartPanel \/ WaitForHealth \/ UpdateAdminPassword
    BY <2>4, <2>1, Zenon
    DEF Check, InstallSystemDependencies, ResolveRelease, Configure,
        WriteConfig, CreateSystemdUnit, DownloadBinaries, StartPanel,
        WaitForHealth, UpdateAdminPassword, ConfigureWith, files, dbs, history
  <2>5. CASE \/ Begins \/ SetUpDatabase \/ SetUpDaemon \/ Uninstall \/ Manage
              \/ Fail \/ Crash
    BY <2>5, <2>1, Frames
  <2>6. QED
    BY <2>3, <2>4, <2>5, Zenon
    DEF Next, Begins, Prepare, SetUpDatabase, SetUpPanel, SetUpDaemon, Serve,
        Uninstall, Manage
<1>4. config' \in Configs /\ buf' \in Configs
  <2>1. config \in Configs /\ buf \in Configs /\ Down \in Configs
    BY <1>0, Numbers DEF ValuesOK, Down, EmptyConfig, Configs
  <2>2. CASE Configure
    <3>1. PreservedKey \in Secrets /\ Store \in Stores \cup {"none"}
      BY <1>0, Numbers
      DEF ValuesOK, Configs, PreservedKey, Store, Commands, Databases, Stores, Servers
    <3>2. /\ config' = EmptyConfig("torn")
          /\ buf' = [st |-> "whole", key |-> IF PreservedKey = 0 THEN run ELSE PreservedKey,
                     store |-> Store, pw |-> mem.pw, setup |-> FALSE, acme |-> FALSE]
      BY <2>2 DEF Configure, ConfigureWith, Rewrite
    <3>3. mem.pw \in Secrets /\ run \in Secrets
      BY <1>0, Numbers DEF ValuesOK, Memory
    <3>4. QED
      BY <3>1, <3>2, <3>3, Numbers DEF EmptyConfig, Configs
  <2>3. CASE WriteConfig \/ Fail \/ Crash
    BY <2>1, <2>3, Zenon DEF WriteConfig, Fail, Crash, Forget
  <2>4. ASSUME NEW v \in BOOLEAN, Rewrite([config EXCEPT !.setup = v])
        PROVE  config' \in Configs /\ buf' \in Configs
    BY <2>1, <2>4, Numbers DEF Rewrite, EmptyConfig, Configs
  <2>5. CASE SeedSetupKey \/ RemoveSetupKey
    BY <2>1, <2>4, <2>5, Zenon DEF SeedSetupKey, RemoveSetupKey
  <2>6. CASE RemoveData
    BY <2>1, <2>6 DEF RemoveData
  <2>7. ASSUME NEW on \in BOOLEAN, WriteEnv(on) PROVE config' \in Configs /\ buf' \in Configs
    BY <2>1, <2>7 DEF WriteEnv, Configs
  <2>8. CASE \/ SaveCheckpoint \/ ResolveRelease \/ CreateSystemdUnit
             \/ DownloadBinaries \/ StartToEnroll \/ EnrollDaemon
             \/ StopAfterEnrollment \/ WriteKeyFails \/ StopAndUninstall
             \/ UninstallGameAP \/ RemoveDatabase \/ Restart \/ ChangePassword
    BY <2>8, <2>1, Zenon
    DEF SaveCheckpoint, ResolveRelease, CreateSystemdUnit, DownloadBinaries,
        StartToEnroll, EnrollDaemon, StopAfterEnrollment, WriteKeyFails,
        StopAndUninstall, UninstallGameAP, RemoveDatabase, Restart,
        ChangePassword, files, dbs, history
  <2>9. CASE \/ Begins \/ Prepare \/ SetUpDatabase \/ Serve
    BY <2>9, <2>1, Frames
  <2>10. QED
    BY <2>2, <2>3, <2>4, <2>5, <2>6, <2>7, <2>8, <2>9, Zenon
    DEF Next, Begins, Prepare, SetUpDatabase, SetUpPanel, SetUpDaemon, Serve,
        Uninstall, Manage
<1>5. panel' \in Configs
  <2>1. panel \in Configs /\ config \in Configs /\ Down \in Configs
    BY <1>0, Numbers DEF ValuesOK, Down, EmptyConfig, Configs
  <2>2. CASE StartToEnroll \/ StartPanel \/ Restart
    BY <2>1, <2>2, Zenon DEF StartToEnroll, StartPanel, Restart, Start, Boot
  <2>3. CASE StopAfterEnrollment \/ StopAndUninstall
    BY <2>1, <2>3, Zenon DEF StopAfterEnrollment, StopAndUninstall
  <2>4. CASE \/ SeedSetupKey \/ EnrollDaemon \/ RemoveSetupKey \/ WriteKeyFails
             \/ SaveInstallationDetails \/ WaitForHealth \/ UpdateAdminPassword
             \/ Finish \/ UninstallGameAP \/ RemoveData \/ RemoveDatabase
             \/ (\E on \in BOOLEAN : WriteEnv(on)) \/ ChangePassword
    BY <2>4, <2>1, Zenon
    DEF SeedSetupKey, EnrollDaemon, RemoveSetupKey, WriteKeyFails,
        SaveInstallationDetails, WaitForHealth, UpdateAdminPassword, Finish,
        UninstallGameAP, RemoveData, RemoveDatabase, WriteEnv, ChangePassword,
        files, dbs, history
  <2>5. CASE \/ Begins \/ Prepare \/ SetUpDatabase \/ SetUpPanel
              \/ Fail \/ Crash
    BY <2>5, <2>1, Frames
  <2>6. QED
    BY <2>2, <2>3, <2>4, <2>5, Zenon
    DEF Next, Begins, Prepare, SetUpDatabase, SetUpPanel, SetUpDaemon, Serve,
        Uninstall, Manage
<1>6. server' \in [Servers -> Owners] /\ dataDir' \in Owners
  <2>1. server \in [Servers -> Owners] /\ dataDir \in Owners
    BY <1>0 DEF ValuesOK
  <2>2. CASE InstallPostgreSQL \/ RemoveDatabase
    BY <2>1, <2>2 DEF InstallPostgreSQL, RemoveDatabase, Servers, Owners
  <2>3. CASE InstallMySQL \/ InstallMariaDB
    BY <2>1, <2>3
    DEF InstallMySQL, InstallMariaDB, PackageInstalled, PackageFailed, MakeDataDirectory,
        Servers, Owners
  <2>4. CASE PurgeMySQL
    BY <2>1, <2>4 DEF PurgeMySQL, Purge, RemoveDataDirectory, Servers, Owners
  <2>5. CASE \/ ConnectExisting \/ InstallSqlite \/ PostInstallationSteps
             \/ CheckPostgreSQLConnection \/ ConfigureMySQL
             \/ ConfigureMySQLFails \/ StopAndUninstall \/ UninstallGameAP
             \/ RemoveData
    BY <2>5, <2>1, Zenon
    DEF ConnectExisting, InstallSqlite, PostInstallationSteps,
        CheckPostgreSQLConnection, ConfigureMySQL, ConfigureMySQLFails,
        StopAndUninstall, UninstallGameAP, RemoveData, files, dbs, history
  <2>6. CASE \/ Begins \/ Prepare \/ SetUpPanel \/ SetUpDaemon \/ Serve
              \/ Manage \/ Fail \/ Crash
    BY <2>6, <2>1, Frames
  <2>7. QED
    BY <2>2, <2>3, <2>4, <2>5, <2>6, Zenon
    DEF Next, Begins, Prepare, SetUpDatabase, SetUpPanel, SetUpDaemon, Serve,
        Uninstall, Manage
<1>7. userPw' \in [Stores -> Secrets]
  <2>1. userPw \in [Stores -> Secrets] /\ mem.pw \in Secrets
    BY <1>0 DEF ValuesOK, Memory
  <2>2. CASE \/ PostInstallationSteps \/ ConfigureMySQL \/ ConfigureMySQLFails
             \/ PurgeMySQL
    <3>1. \/ userPw' = userPw
          \/ userPw' = [userPw EXCEPT !["postgres"] = mem.pw]
          \/ userPw' = [userPw EXCEPT !["mysql"] = mem.pw]
          \/ userPw' = [userPw EXCEPT !["mysql"] = 0]
      BY <2>2, Zenon
      DEF PostInstallationSteps, ConfigureMySQL, ConfigureMySQLFails, SetUser, PurgeMySQL,
          RemoveDataDirectory
    <3>2. QED
      BY <2>1, <3>1, Numbers
  <2>3. CASE \/ ConnectExisting \/ InstallSqlite \/ InstallPostgreSQL
             \/ CheckPostgreSQLConnection \/ InstallMySQL \/ InstallMariaDB
    BY <2>3, <2>1, Zenon
    DEF ConnectExisting, InstallSqlite, InstallPostgreSQL,
        CheckPostgreSQLConnection, InstallMySQL, InstallMariaDB, files, dbs,
        history
  <2>4. CASE \/ Begins \/ Prepare \/ SetUpPanel \/ SetUpDaemon \/ Serve
              \/ Uninstall \/ Manage \/ Fail \/ Crash
    BY <2>4, <2>1, Frames
  <2>5. QED
    BY <2>2, <2>3, <2>4, Zenon
    DEF Next, Begins, Prepare, SetUpDatabase, SetUpPanel, SetUpDaemon, Serve,
        Uninstall, Manage
<1>8. enc' \in [Stores -> Secrets] /\ adm' \in [Stores -> Secrets]
  <2>1. enc \in [Stores -> Secrets] /\ adm \in [Stores -> Secrets] /\ config.key \in Secrets
    BY <1>0 DEF ValuesOK, Configs
  <2>2. ASSUME Boot(config)
        PROVE  enc' \in [Stores -> Secrets] /\ adm' \in [Stores -> Secrets]
    BY <2>1, <2>2, Numbers DEF Boot
  <2>3. CASE StartToEnroll \/ StartPanel \/ Restart
    BY <2>1, <2>2, <2>3, Zenon DEF StartToEnroll, StartPanel, Restart, Start
  <2>4. CASE PurgeMySQL \/ RemoveData
    <3>1. \A f \in [Stores -> Secrets], s \in Stores : [f EXCEPT ![s] = 0] \in [Stores -> Secrets]
      BY Numbers
    <3>2. "mysql" \in Stores /\ "sqlite" \in Stores
      BY DEF Stores, Servers
    <3>3. /\ enc' \in {enc, [enc EXCEPT !["mysql"] = 0], [enc EXCEPT !["sqlite"] = 0]}
          /\ adm' \in {adm, [adm EXCEPT !["mysql"] = 0], [adm EXCEPT !["sqlite"] = 0]}
      BY <2>4 DEF PurgeMySQL, RemoveData, RemoveDataDirectory
    <3>4. QED
      BY <2>1, <3>1, <3>2, <3>3
  <2>5. CASE UpdateAdminPassword \/ ChangePassword
    <3>1. mem'.admin \in Secrets
      BY <1>2 DEF Memory
    <3>2. enc' = enc /\ (adm' = adm \/ \E p \in Secrets : adm' = [adm EXCEPT ![config.store] = p])
      BY <2>5, <3>1, Numbers DEF UpdateAdminPassword, ChangePassword
    <3>3. QED
      BY <2>1, <3>2
  <2>6. CASE \/ ConnectExisting \/ InstallSqlite \/ InstallPostgreSQL
             \/ PostInstallationSteps \/ CheckPostgreSQLConnection
             \/ InstallMySQL \/ ConfigureMySQL \/ ConfigureMySQLFails
             \/ InstallMariaDB \/ SeedSetupKey \/ EnrollDaemon
             \/ StopAfterEnrollment \/ RemoveSetupKey \/ WriteKeyFails
             \/ SaveInstallationDetails \/ WaitForHealth \/ Finish
             \/ StopAndUninstall \/ UninstallGameAP \/ RemoveDatabase
             \/ (\E on \in BOOLEAN : WriteEnv(on))
    BY <2>6, <2>1, Zenon
    DEF ConnectExisting, InstallSqlite, InstallPostgreSQL,
        PostInstallationSteps, CheckPostgreSQLConnection, InstallMySQL,
        ConfigureMySQL, ConfigureMySQLFails, InstallMariaDB, SeedSetupKey,
        EnrollDaemon, StopAfterEnrollment, RemoveSetupKey, WriteKeyFails,
        SaveInstallationDetails, WaitForHealth, Finish, StopAndUninstall,
        UninstallGameAP, RemoveDatabase, WriteEnv, files, dbs, history
  <2>7. CASE \/ Begins \/ Prepare \/ SetUpPanel \/ Fail \/ Crash
    BY <2>7, <2>1, Frames
  <2>8. QED
    BY <2>3, <2>4, <2>5, <2>6, <2>7, Zenon
    DEF Next, Begins, Prepare, SetUpDatabase, SetUpPanel, SetUpDaemon, Serve,
        Uninstall, Manage
<1>9. rootPw' \in Secrets
  <2>1. rootPw \in Secrets /\ mem.pw \in Secrets
    BY <1>0 DEF ValuesOK, Memory
  <2>2. CASE InstallMySQL \/ InstallMariaDB
    BY <2>1, <2>2, Numbers
    DEF InstallMySQL, InstallMariaDB, PackageInstalled, PackageFailed, MakeDataDirectory
  <2>3. CASE PurgeMySQL
    BY <2>1, <2>3, Numbers DEF PurgeMySQL, RemoveDataDirectory
  <2>4. CASE \/ ConnectExisting \/ InstallSqlite \/ InstallPostgreSQL
             \/ PostInstallationSteps \/ CheckPostgreSQLConnection
             \/ ConfigureMySQL \/ ConfigureMySQLFails
    BY <2>4, <2>1, Zenon
    DEF ConnectExisting, InstallSqlite, InstallPostgreSQL, PostInstallationSteps,
        CheckPostgreSQLConnection, ConfigureMySQL, ConfigureMySQLFails, dbs
  <2>5. CASE \/ Begins \/ Prepare \/ SetUpPanel \/ SetUpDaemon \/ Serve
              \/ Uninstall \/ Manage \/ Fail \/ Crash
    BY <2>5, <2>1, Frames
  <2>6. QED
    BY <2>2, <2>3, <2>4, <2>5 DEF Next, SetUpDatabase
<1>10. QED
  BY <1>1, <1>2, <1>3, <1>4, <1>5, <1>6, <1>7, <1>8, <1>9 DEF ValuesOK

\* The flags stay Boolean.
LEMMA StepFlags == TypeOK /\ Next => FlagsOK'
<1> SUFFICES ASSUME TypeOK, Next PROVE FlagsOK'
  OBVIOUS
<1>0. /\ unit \in BOOLEAN /\ faulted \in BOOLEAN /\ keyLost \in BOOLEAN
      /\ at \in [up : BOOLEAN, known : BOOLEAN]
  BY DEF TypeOK, FlagsOK
<1>1. unit' \in BOOLEAN
  <2>1. CASE SetUpPanel \/ Uninstall
    BY <1>0, <2>1, Zenon
    DEF SetUpPanel, SaveCheckpoint, ResolveRelease, Configure, ConfigureWith,
        WriteConfig, CreateSystemdUnit, DownloadBinaries, Uninstall,
        StopAndUninstall, UninstallGameAP, RemoveData, RemoveDatabase, files
  <2>2. QED
    BY <1>0, <2>1, Frames DEF Next
<1>2. keyLost' \in BOOLEAN
  <2>1. CASE SetUpPanel
    BY <1>0, <2>1, Zenon
    DEF SetUpPanel, SaveCheckpoint, ResolveRelease, Configure, ConfigureWith,
        WriteConfig, CreateSystemdUnit, DownloadBinaries, history
  <2>2. QED
    BY <1>0, <2>1, Frames DEF Next
<1>3. at' \in [up : BOOLEAN, known : BOOLEAN]
  <2>1. Up \in BOOLEAN
    BY DEF Up
  <2>2. ASSUME NEW d, NEW ex, NEW wd, HandleV4(d, ex, wd)
        PROVE  at' \in [up : BOOLEAN, known : BOOLEAN]
    BY <2>1, <2>2 DEF HandleV4
  <2>3. ASSUME NEW data, NEW label, Begin(data, label)
        PROVE  at' \in [up : BOOLEAN, known : BOOLEAN]
    BY <2>3 DEF Begin, NoFacts
  <2>4. CASE Begins
    BY <2>2, <2>3, <2>4, Zenon
    DEF Begins, HandleUninstall, HandleLetsEncrypt, HandleChangePassword
  <2>5. CASE Fail \/ Crash
    <3>1. NoFacts \in [up : BOOLEAN, known : BOOLEAN]
      BY DEF NoFacts
    <3>2. QED
      BY <2>5, <3>1, Zenon DEF Fail, Crash, Forget
  <2>6. CASE StopAfterEnrollment
    BY <1>0, <2>6 DEF StopAfterEnrollment
  <2>7. CASE \/ SeedSetupKey \/ StartToEnroll \/ EnrollDaemon \/ RemoveSetupKey
             \/ WriteKeyFails
    BY <1>0, <2>7, Zenon
    DEF SeedSetupKey, StartToEnroll, EnrollDaemon, RemoveSetupKey, WriteKeyFails, history
  <2>8. QED
    BY <1>0, <2>4, <2>5, <2>6, <2>7, Frames DEF Next, SetUpDaemon
<1>4. faulted' \in BOOLEAN
  <2>1. CASE Begins \/ Prepare \/ SetUpDatabase
    BY <1>0, <2>1, Zenon
    DEF Begins, HandleV4, HandleUninstall, HandleLetsEncrypt, HandleChangePassword, Begin,
        Prepare, Check, InstallSystemDependencies, PreconfigureDatabase, Checkpoint,
        SetUpDatabase, ConnectExisting, InstallSqlite, InstallPostgreSQL,
        PostInstallationSteps, CheckPostgreSQLConnection, InstallMySQL, ConfigureMySQL,
        ConfigureMySQLFails, PurgeMySQL, InstallMariaDB, history
  <2>2. CASE SetUpPanel \/ SetUpDaemon \/ Serve
    BY <1>0, <2>2, Zenon
    DEF SetUpPanel, SaveCheckpoint, ResolveRelease, Configure, ConfigureWith,
        WriteConfig, CreateSystemdUnit, DownloadBinaries, Checkpoint,
        SetUpDaemon, SeedSetupKey, StartToEnroll, EnrollDaemon, StopAfterEnrollment,
        RemoveSetupKey, WriteKeyFails, Serve, SaveInstallationDetails, StartPanel,
        WaitForHealth, UpdateAdminPassword, Finish, history
  <2>3. CASE Uninstall \/ Manage \/ Fail \/ Crash
    BY <1>0, <2>3, Frames, Zenon
    DEF Uninstall, StopAndUninstall, UninstallGameAP, RemoveData, RemoveDatabase, Fail, Crash
  <2>4. QED
    BY <2>1, <2>2, <2>3, Zenon DEF Next
<1>5. QED
  BY <1>1, <1>2, <1>3, <1>4 DEF FlagsOK

-----------------------------------------------------------------------------
(* The invariant, and what it gives.                                       *)

LEMMA InitIInv == Init => IInv
<1> SUFFICES ASSUME Init PROVE IInv
  OBVIOUS
<1> USE Numbers DEF Init
<1>1. ValuesOK
  <2>1. run \in 0 .. MaxRuns
    BY RunsAssumption
  <2>2. cmd \in Commands /\ mem \in Memory /\ saved \in States
    BY DEF NoCommand, NoMemory, NoState, Commands, Memory, States, Databases
  <2>3. config \in Configs /\ buf \in Configs /\ panel \in Configs
    BY DEF Down, EmptyConfig, Configs
  <2>4. server \in [Servers -> Owners] /\ dataDir \in Owners
    BY DEF Servers, Owners
  <2>5. /\ userPw \in [Stores -> Secrets] /\ enc \in [Stores -> Secrets]
        /\ adm \in [Stores -> Secrets]
    OBVIOUS
  <2>6. QED
    BY <2>1, <2>2, <2>3, <2>4, <2>5 DEF ValuesOK
<1>2. pc \in Labels
  BY DEF Labels, Ended
<1>3. FlagsOK
  <2>1. NoFacts \in [up : BOOLEAN, known : BOOLEAN]
    BY DEF NoFacts
  <2>2. QED
    BY <2>1, Zenon DEF FlagsOK
<1>4. KeyInv /\ FileInv
  BY Blank DEF KeyInv, Reads, FileInv
<1>5. DirectoryInv
  BY DEF DirectoryInv, Servers, Stores
<1>6. SecretInv
  BY Blank DEF SecretInv, NoState, Installing, MySQLSteps, Reached, Writing, Configured
<1>7. /\ CommandInv /\ KnownInv /\ FallbackInv /\ ReachInv /\ ConfigInv /\ SetupInv
      /\ PanelInv /\ HealthInv /\ FinishInv
  BY DEF CommandInv, KnownInv, FallbackInv, ReachInv, ConfigInv, SetupInv, PanelInv,
      HealthInv, FinishInv, Ended, MySQLSteps, DaemonSteps, Served, Managing, Reached,
      Writing, Configured, Installing
<1>8. DoneIsUsable /\ SuccessIsInForce /\ FailsOnlyIfKnown
  BY DEF DoneIsUsable, SuccessIsInForce, FailsOnlyIfKnown
<1>9. QED
  BY <1>1, <1>2, <1>3, <1>4, <1>5, <1>6, <1>7, <1>8 DEF IInv, TypeOK

LEMMA StepIInv == IInv /\ [Next]_vars => IInv'
<1> SUFFICES ASSUME IInv, [Next]_vars PROVE IInv'
  OBVIOUS
<1>1. CASE Next
  <2>1. TypeOK'
    BY <1>1, StepLabels, StepValues, StepFlags DEF IInv, TypeOK
  <2>2. CommandInv' /\ KeyInv' /\ DirectoryInv' /\ SecretInv' /\ FileInv'
    BY <1>1, StepCommandInv, StepKeyInv, StepDirectoryInv, StepSecretInv, StepFileInv DEF IInv
  <2>3. KnownInv' /\ FallbackInv' /\ ReachInv' /\ ConfigInv' /\ SetupInv'
    BY <1>1, StepKnownInv, StepFallbackInv, StepReachInv, StepConfigInv, StepSetupInv DEF IInv
  <2>4. PanelInv' /\ HealthInv' /\ FinishInv'
    BY <1>1, StepPanelInv, StepHealthInv, StepFinishInv DEF IInv
  <2>5. DoneIsUsable' /\ SuccessIsInForce' /\ FailsOnlyIfKnown'
    BY <1>1, StepDoneIsUsable, StepSuccessIsInForce, StepFailsOnlyIfKnown DEF IInv
  <2>6. QED
    BY <2>1, <2>2, <2>3, <2>4, <2>5 DEF IInv
<1>2. CASE UNCHANGED vars
  <2> USE <1>2 DEF vars, IInv, Store, Reachable, Up, HasAdmin
  <2>1. TypeOK'
    BY DEF TypeOK, ValuesOK, FlagsOK
  <2>2. CommandInv' /\ KeyInv' /\ DirectoryInv' /\ SecretInv' /\ FileInv'
    BY DEF CommandInv, KeyInv, Reads, DirectoryInv, SecretInv, FileInv
  <2>3. KnownInv' /\ FallbackInv' /\ ReachInv' /\ ConfigInv' /\ SetupInv'
    <3>1. KnownInv' /\ FallbackInv' /\ ReachInv'
      BY DEF KnownInv, FallbackInv, ReachInv
    <3>2. ConfigInv' /\ SetupInv'
      BY DEF ConfigInv, SetupInv
    <3>3. QED
      BY <3>1, <3>2
  <2>4. PanelInv' /\ HealthInv' /\ FinishInv'
    BY DEF PanelInv, HealthInv, FinishInv
  <2>5. DoneIsUsable' /\ SuccessIsInForce' /\ FailsOnlyIfKnown'
    BY DEF DoneIsUsable, SavedState, SuccessIsInForce, FailsOnlyIfKnown, RootKnown
  <2>6. QED
    BY <2>1, <2>2, <2>3, <2>4, <2>5
<1>3. QED
  BY <1>1, <1>2

LEMMA Invariance == Spec => []IInv
BY InitIInv, StepIInv, PTL DEF Spec

\* Types, whatever the commands and wherever they end.
THEOREM TypeCorrect == Spec => []TypeOK
<1>1. IInv => TypeOK
  BY DEF IInv
<1>2. QED
  BY Invariance, <1>1, PTL

\* One ENCRYPTION_KEY reads all stored data, for any number of commands.
THEOREM KeySafety == Spec => []KeyKept
<1>1. IInv => KeyKept
  BY DEF IInv, KeyInv, Reads, KeyKept
<1>2. QED
  BY Invariance, <1>1, PTL

\* DONE means a usable panel, for any number of commands.
THEOREM DoneSafety == Spec => []DoneIsUsable
<1>1. IInv => DoneIsUsable
  BY DEF IInv
<1>2. QED
  BY Invariance, <1>1, PTL

\* Success means that the panel serves what is on disk.
THEOREM SuccessSafety == Spec => []SuccessIsInForce
<1>1. IInv => SuccessIsInForce
  BY DEF IInv
<1>2. QED
  BY Invariance, <1>1, PTL

\* The failures that need no fault are the known ones.
THEOREM FailureSafety == Spec => []FailsOnlyIfKnown
<1>1. IInv => FailsOnlyIfKnown
  BY DEF IInv
<1>2. QED
  BY Invariance, <1>1, PTL

\* A repeated installation keeps a password that state file, config.env and
\* server agree on.
THEOREM PasswordSafety == Spec => KnownPasswordKept
<1>1. IInv /\ [Next]_vars =>
        [at.known /\ pc \notin Ended => userPw'[cmd.db] \in {0, userPw[cmd.db]}]_vars
  <2> SUFFICES ASSUME IInv, Next, at.known, pc \notin Ended
               PROVE  userPw'[cmd.db] \in {0, userPw[cmd.db]}
    BY DEF vars
  <2>0. /\ userPw \in [Stores -> Secrets] /\ cmd.db \in Servers /\ mem.host = "local"
        /\ mem.pw # 0 /\ userPw[cmd.db] = mem.pw /\ (pc \in MySQLSteps => mem.existed)
    BY DEF IInv, TypeOK, ValuesOK, KnownInv
  <2>1. CASE PostInstallationSteps
    BY <2>0, <2>1 DEF PostInstallationSteps, Servers, Stores
  <2>2. CASE ConfigureMySQL \/ ConfigureMySQLFails
    BY <2>0, <2>2 DEF ConfigureMySQL, ConfigureMySQLFails, SetUser, Servers, Stores
  <2>3. CASE PurgeMySQL
    BY <2>0, <2>3 DEF PurgeMySQL, MySQLSteps
  <2>4. CASE \/ ConnectExisting \/ InstallSqlite \/ InstallPostgreSQL
             \/ CheckPostgreSQLConnection \/ InstallMySQL \/ InstallMariaDB
    BY <2>4 DEF ConnectExisting, InstallSqlite, InstallPostgreSQL,
        CheckPostgreSQLConnection, InstallMySQL, InstallMariaDB, dbs
  <2>5. QED
    BY <2>1, <2>2, <2>3, <2>4, Frames DEF Next, SetUpDatabase
<1>2. QED
  BY Invariance, <1>1, PTL DEF Spec, KnownPasswordKept

\* The data directory of another application survives the fallback.
THEOREM ForeignSafety == Spec => ForeignDataKept
<1>1. IInv /\ [Next]_vars =>
        [dataDir = "foreign" /\ dataDir' # "foreign" => mem.host = "remote"]_vars
  <2> SUFFICES ASSUME IInv, Next, dataDir = "foreign", dataDir' # "foreign"
               PROVE  mem.host = "remote"
    BY DEF vars
  <2>1. mem.host \in {"local", "remote"}
    BY DEF IInv, TypeOK, ValuesOK, Memory
  <2>2. CASE PurgeMySQL
    BY <2>1, <2>2 DEF PurgeMySQL, IInv, FallbackInv
  <2>3. CASE InstallMySQL \/ InstallMariaDB
    BY <2>3 DEF InstallMySQL, InstallMariaDB, PackageInstalled, PackageFailed,
        MakeDataDirectory
  <2>4. CASE \/ ConnectExisting \/ InstallSqlite \/ InstallPostgreSQL
             \/ PostInstallationSteps \/ CheckPostgreSQLConnection
             \/ ConfigureMySQL \/ ConfigureMySQLFails
    BY <2>4 DEF ConnectExisting, InstallSqlite, InstallPostgreSQL, PostInstallationSteps,
        CheckPostgreSQLConnection, ConfigureMySQL, ConfigureMySQLFails, dbs
  <2>5. QED
    BY <2>2, <2>3, <2>4, Frames DEF Next, SetUpDatabase
<1>2. QED
  BY Invariance, <1>1, PTL DEF Spec, ForeignDataKept

\* One step that destroys no config.env keeps the key at hand.
LEMMA StepAtHandInv ==
  TypeOK /\ KeyInv /\ AtHandInv /\ Next /\ ~DestroysConfig => AtHandInv'
<1> SUFFICES ASSUME TypeOK, KeyInv, AtHandInv, Next, ~DestroysConfig PROVE AtHandInv'
  OBVIOUS
<1> USE DEF files, dbs, history, AtHandInv, Writing, Configured
<1>0. /\ enc \in [Stores -> Secrets] /\ pc \in Labels
      /\ config.st = "whole" => config.key # 0
  BY DEF TypeOK, ValuesOK, KeyInv
<1>1. ASSUME NEW v \in BOOLEAN, Rewrite([config EXCEPT !.setup = v])
      PROVE  buf'.st = config.st
  BY <1>1, Resetup DEF TypeOK, ValuesOK
<1>2. ASSUME NEW v \in BOOLEAN PROVE [config EXCEPT !.acme = v].st = config.st
  BY DEF TypeOK, ValuesOK, Configs
<1>3. ASSUME UNCHANGED <<config, enc, keyLost>>,
             pc \notin Writing, pc' \notin Writing,
             pc' \in Configured => pc \in Configured \/ config.st = "whole"
      PROVE  AtHandInv'
  BY <1>3
<1>4. CASE Begins
  <2>1. /\ UNCHANGED <<config, enc, keyLost>>
        /\ pc \in Ended /\ pc' \in {"check", "acme", "change password", "stop panel", "rerun"}
    BY <1>4, Zenon DEF Begins, HandleV4, HandleUninstall, HandleLetsEncrypt,
        HandleChangePassword, Begin
  <2>2. QED
    BY <1>3, <2>1 DEF Ended
<1>5. CASE Prepare
  BY <1>3, <1>5 DEF Prepare, Check, InstallSystemDependencies, PreconfigureDatabase
<1>6. CASE SetUpDatabase
  <2>1. config' = config /\ keyLost' = keyLost /\ \A s \in Stores : enc'[s] \in {0, enc[s]}
    <3>1. CASE PurgeMySQL
      <4>1. UNCHANGED <<config, keyLost>>
        BY <3>1 DEF PurgeMySQL
      <4>2. enc' = enc \/ enc' = [enc EXCEPT !["mysql"] = 0]
        BY <3>1 DEF PurgeMySQL, RemoveDataDirectory
      <4>3. QED
        BY <1>0, <4>1, <4>2
    <3>2. CASE \/ ConnectExisting \/ InstallSqlite \/ InstallPostgreSQL
               \/ PostInstallationSteps \/ CheckPostgreSQLConnection
               \/ InstallMySQL \/ ConfigureMySQL \/ ConfigureMySQLFails
               \/ InstallMariaDB
      BY <3>2, ZenonT(60) DEF ConnectExisting, InstallSqlite, InstallPostgreSQL,
          PostInstallationSteps, CheckPostgreSQLConnection, InstallMySQL,
          PackageInstalled, PackageFailed, MakeDataDirectory, ConfigureMySQL, SetUser,
          ConfigureMySQLFails, InstallMariaDB
    <3>3. QED
      BY <1>6, <3>1, <3>2 DEF SetUpDatabase
  <2>2. pc \notin Writing \cup Configured /\ pc' \notin Writing \cup Configured
    BY <1>6, DatabaseLabels
  <2>3. QED
    BY <2>1, <2>2
<1>7. CASE SetUpPanel
  <2>1. CASE Configure
    <3>1. buf'.st = "whole" /\ pc' \in Writing
      BY <2>1 DEF Configure, ConfigureWith, Rewrite
    <3>2. pc = "configure" /\ (PreservedKey = 0 => config.st # "whole")
      BY <1>0, <2>1 DEF Configure, ConfigureWith, PreservedKey
    <3>3. keyLost' = (keyLost \/ (PreservedKey = 0 /\ \E s \in Stores : enc[s] # 0))
      BY <2>1 DEF Configure, ConfigureWith
    <3>4. QED
      BY <3>1, <3>2, <3>3
  <2>2. CASE WriteConfig
    BY <2>2 DEF WriteConfig
  <2>3. CASE SaveCheckpoint \/ ResolveRelease
    <3>1. UNCHANGED <<config, enc, keyLost>>
      BY <2>3 DEF SaveCheckpoint, ResolveRelease
    <3>2. \/ pc \in {"checkpoint", "release"} /\ pc' \in {"release", "configure"}
          \/ pc = "installed" /\ pc' \in {"enroll", "save"}
      BY <2>3 DEF SaveCheckpoint, ResolveRelease
    <3>3. QED
      BY <1>3, <3>1, <3>2
  <2>4. CASE CreateSystemdUnit \/ DownloadBinaries
    <3>1. UNCHANGED <<config, enc, keyLost>>
      BY <2>4 DEF CreateSystemdUnit, DownloadBinaries
    <3>2. pc \in {"unit", "binaries"} /\ pc' \in {"binaries", "installed", "failed"}
      BY <2>4 DEF CreateSystemdUnit, DownloadBinaries
    <3>3. QED
      BY <1>3, <3>1, <3>2
  <2>5. QED
    BY <1>7, <2>1, <2>2, <2>3, <2>4 DEF SetUpPanel
<1>8. CASE SetUpDaemon
  <2>1. CASE SeedSetupKey
    <3>1. UNCHANGED <<enc, keyLost>> /\ pc = "enroll"
      BY <2>1 DEF SeedSetupKey
    <3>2. \/ pc' = "save" /\ config' = config
          \/ pc' = "write key" /\ \E v \in BOOLEAN : Rewrite([config EXCEPT !.setup = v])
      BY <2>1 DEF SeedSetupKey
    <3>3. QED
      BY <1>1, <3>1, <3>2
  <2>2. CASE RemoveSetupKey
    <3>1. UNCHANGED <<enc, keyLost>> /\ pc = "withdraw"
      BY <2>2 DEF RemoveSetupKey
    <3>2. \/ pc' = "save" /\ config' = config
          \/ /\ pc' = "write without key"
             /\ \E v \in BOOLEAN : Rewrite([config EXCEPT !.setup = v])
      BY <2>2 DEF RemoveSetupKey
    <3>3. QED
      BY <1>1, <3>1, <3>2
  <2>3. CASE StartToEnroll
    BY <2>3 DEF StartToEnroll
  <2>4. CASE EnrollDaemon \/ StopAfterEnrollment
    <3>1. UNCHANGED <<config, enc, keyLost>>
      BY <2>4 DEF EnrollDaemon, StopAfterEnrollment
    <3>2. pc \in {"enroll daemon", "stop"} /\ pc' \in {"stop", "withdraw"}
      BY <2>4 DEF EnrollDaemon, StopAfterEnrollment
    <3>3. QED
      BY <1>3, <3>1, <3>2
  <2>5. CASE WriteKeyFails
    BY <2>5 DEF WriteKeyFails, DestroysConfig
  <2>6. QED
    BY <1>8, <2>1, <2>2, <2>3, <2>4, <2>5 DEF SetUpDaemon
<1>9. CASE Serve
  <2>1. config' = config /\ keyLost' = keyLost
    BY <1>9 DEF Serve, SaveInstallationDetails, Checkpoint, StartPanel,
        WaitForHealth, UpdateAdminPassword, Finish
  <2>2. pc \in Configured /\ pc' \notin Writing
    BY <1>9 DEF Serve, SaveInstallationDetails, StartPanel, WaitForHealth,
        UpdateAdminPassword, Finish
  <2>3. QED
    BY <2>1, <2>2
<1>10. CASE Uninstall
  <2>1. CASE RemoveData
    <3>1. /\ keyLost' = keyLost /\ config' \in {config, Down}
          /\ pc = "remove data" /\ pc' = "remove database"
      BY <2>1 DEF RemoveData
    <3>2. enc' = enc \/ enc' = [enc EXCEPT !["sqlite"] = 0]
      BY <2>1 DEF RemoveData
    <3>3. \A s \in Stores : enc'[s] \in {0, enc[s]}
      BY <1>0, <3>2
    <3>4. config'.st # config.st => \A s \in Stores : enc'[s] = 0
      BY <3>1, Blank DEF DestroysConfig
    <3>5. QED
      BY <3>1, <3>3, <3>4
  <2>2. CASE StopAndUninstall \/ UninstallGameAP \/ RemoveDatabase
    BY <1>3, <2>2 DEF StopAndUninstall, UninstallGameAP, RemoveDatabase
  <2>3. QED
    BY <1>10, <2>1, <2>2 DEF Uninstall
<1>11. CASE Manage
  <2>1. CASE \E on \in BOOLEAN : WriteEnv(on)
    <3>1. /\ UNCHANGED <<enc, keyLost>> /\ config'.st = config.st
          /\ pc = "acme" /\ pc' \in {"failed", "restart"}
      BY <1>2, <2>1 DEF WriteEnv
    <3>2. QED
      BY <3>1
  <2>2. CASE Restart
    BY <2>2 DEF Restart, Boot
  <2>3. CASE ChangePassword
    BY <1>3, <2>3 DEF ChangePassword
  <2>4. QED
    BY <1>11, <2>1, <2>2, <2>3 DEF Manage
<1>12. CASE Fail \/ Crash
  <2>1. pc \notin Writing
    BY <1>12 DEF DestroysConfig
  <2>2. UNCHANGED <<config, enc, keyLost>> /\ pc' \in {"failed", "idle"}
    BY <1>12 DEF Fail, Crash
  <2>3. QED
    BY <1>3, <2>1, <2>2
<1>13. QED
  BY <1>4, <1>5, <1>6, <1>7, <1>8, <1>9, <1>10, <1>11, <1>12 DEF Next

\* The steps that destroy config.env are the only ones that lose a key.
THEOREM KeyNeverLost == Spec /\ [][~DestroysConfig]_vars => []KeyAtHand
<1>1. Init => AtHandInv
  BY DEF Init, AtHandInv, Writing, Configured
<1>2. IInv /\ AtHandInv /\ [Next]_vars /\ [~DestroysConfig]_vars => AtHandInv'
  <2> SUFFICES ASSUME IInv, AtHandInv, [Next]_vars, [~DestroysConfig]_vars
               PROVE  AtHandInv'
    OBVIOUS
  <2>1. CASE UNCHANGED vars
    BY <2>1 DEF vars, files, dbs, history, AtHandInv
  <2>2. CASE Next /\ ~DestroysConfig
    BY <2>2, StepAtHandInv DEF IInv
  <2>3. QED
    BY <2>1, <2>2
<1>3. IInv /\ AtHandInv => KeyAtHand
  BY DEF IInv, KeyInv, Reads, AtHandInv, KeyAtHand
<1>4. QED
  BY Invariance, <1>1, <1>2, <1>3, PTL DEF Spec

=============================================================================
