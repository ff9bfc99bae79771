---------------------------- MODULE PanelInstall ----------------------------
(***************************************************************************)
(* gameapctl panel install (v4): HandleV4 of                               *)
(* internal/actions/panel/install/panel_install_v4.go with the database    *)
(* servers it installs, config.env, the install state it reuses, and the   *)
(* panel it starts.  A run may fail or be killed at any step and be        *)
(* repeated with other arguments; PanelHost adds the other commands that   *)
(* touch the same files.                                                   *)
(*                                                                         *)
(* A generated secret is the number of the run that generated it (a run    *)
(* generates each kind of secret at most once); 0 is the empty string.     *)
(* System scope, systemd and Linux are assumed.                            *)
(***************************************************************************)
EXTENDS Naturals

CONSTANTS MaxRuns,      \* bound: commands in one behaviour
          Requested,    \* the values --database takes
          External,     \* bound: the databases that may be an existing server's
          Enrolling     \* bound: the databases --with-daemon is combined with

ASSUME RunsAssumption == MaxRuns \in Nat \ {0}

Databases == {"mysql", "postgres", "sqlite", "none"}

ASSUME RequestedAssumption ==
    Requested \cup External \cup Enrolling \subseteq Databases

Servers == {"mysql", "postgres"}             \* servers gameapctl can install
Stores == Servers \cup {"sqlite", "remote"}  \* where a panel's data can be

Secrets == 0 .. MaxRuns + 1
Given == MaxRuns + 1   \* a secret that gameapctl did not generate
Owners == {"none", "foreign", "ours"}

VARIABLES
    pc,       \* the statement HandleV4 is at
    run,      \* number of the current command
    cmd,      \* flags: database, ExistingDatabase, with-daemon, with-data
    mem,      \* panelInstallStateV4: DBCreds.Password and Host, AdminPassword,
              \* DatabaseWasInstalled, DatabaseDirExistedBefore; RootPassword
              \* is generated, saved and restored together with Password, so
              \* one number stands for both
    saved,    \* panel_install_state.json
    config,   \* config.env
    buf,      \* what a rewrite of config.env is about to write
    server,   \* the database packages on the machine and who installed them
    dataDir,  \* /var/lib/mysql: absent, another application's, or gameapctl's
    rootPw,   \* the password of MySQL's root, 0: none is asked for
    userPw,   \* password of the database user, per store
    enc,      \* ENCRYPTION_KEY the stored data was encrypted with, 0: no data
    adm,      \* password of the panel's user "admin", 0: no tables
    panel,    \* the config the serving panel has loaded
    unit,     \* the gameap systemd unit exists
    faulted,  \* history: in this command something failed by itself
    keyLost,  \* history: a new ENCRYPTION_KEY had to be made although encrypted
              \* data existed: config.env was gone or torn
    at        \* what an installation met when it began: whether a panel was
              \* up (and is since), and whether the state file and config.env
              \* both knew the database password

files == <<saved, config, buf, unit>>
dbs == <<server, dataDir, rootPw, userPw, enc, adm>>
history == <<faulted, keyLost, at>>
vars == <<pc, run, cmd, mem, saved, config, buf, server, dataDir, rootPw,
          userPw, enc, adm, panel, unit, faulted, keyLost, at>>

Commands == [db : Databases, existing : BOOLEAN, daemon : BOOLEAN,
             data : BOOLEAN]
Memory == [pw : Secrets, host : {"local", "remote"}, admin : Secrets,
           installed : BOOLEAN, existed : BOOLEAN]
States == [db : Databases, pw : Secrets, host : {"local", "remote"},
           admin : Secrets, installed : BOOLEAN]
NoState == [db |-> "none", pw |-> 0, host |-> "local", admin |-> 0,
            installed |-> FALSE]
Configs == [st : {"absent", "torn", "whole"}, key : Secrets,
            store : Stores \cup {"none"}, pw : Secrets, setup : BOOLEAN,
            acme : BOOLEAN]
EmptyConfig(st) == [st |-> st, key |-> 0, store |-> "none", pw |-> 0,
                    setup |-> FALSE, acme |-> FALSE]
Down == EmptyConfig("absent")
Up == panel.st # "absent"

NoCommand == [db |-> "none", existing |-> FALSE, daemon |-> FALSE, data |-> FALSE]
NoMemory == [pw |-> 0, host |-> "local", admin |-> 0, installed |-> FALSE,
             existed |-> FALSE]
NoFacts == [up |-> FALSE, known |-> FALSE]

Ended == {"idle", "done", "failed", "rerun", "uninstalled", "applied", "changed"}

-----------------------------------------------------------------------------
(* What a panel and a database server do with a configuration.             *)

\* The database user of store s can log in with password p.
Reachable(s, p) == s = "sqlite" \/ (s \in Stores /\ userPw[s] # 0 /\ userPw[s] = p)

\* A starting panel migrates its database: the first start creates the tables
\* and encrypts with the key it was given.  Without a database it can use it
\* does not come up.
Boot(c) ==
    IF c.st = "whole" /\ Reachable(c.store, c.pw)
    THEN /\ panel' = c
         /\ enc' = [enc EXCEPT ![c.store] = IF @ = 0 THEN c.key ELSE @]
         /\ adm' = [adm EXCEPT ![c.store] = IF @ = 0 THEN Given ELSE @]
    ELSE /\ panel' = Down
         /\ UNCHANGED <<enc, adm>>

\* systemctl start of a unit that is already active does nothing.
Start == IF Up THEN UNCHANGED <<panel, enc, adm>> ELSE Boot(config)

\* The store that the credentials of this run point to.
Store == IF cmd.db \in Servers /\ mem.host = "remote" THEN "remote" ELSE cmd.db

-----------------------------------------------------------------------------
(* The arguments and the previous installation.                            *)

\* savePanelInstallationDetailsV4
SavedState(m) == [db |-> cmd.db, pw |-> m.pw, host |-> m.host,
                  admin |-> m.admin, installed |-> m.installed]

\* saveStateCheckpointV4: an error of the save is only logged.
Checkpoint(m) == \/ saved' = SavedState(m) /\ UNCHANGED faulted
                 \/ saved' = saved /\ faulted' = TRUE

\* Fault: the password in the state file is not reused.
NeverReuses(d, ex) == FALSE

\* restorePreviousStateV4: the admin password and DatabaseWasInstalled are
\* taken over always, the credentials only for the same kind of database.
Reuses(d, ex) == saved.db = d /\ ~ex /\ saved.pw # 0

RestorePreviousState(d, ex) ==
    [pw |-> IF Reuses(d, ex) THEN saved.pw
            ELSE IF ex THEN Given ELSE 0,
     host |-> IF Reuses(d, ex) THEN saved.host
              ELSE IF ex THEN "remote" ELSE "local",
     admin |-> saved.admin,
     installed |-> saved.installed,
     existed |-> FALSE]

\* A command starts: Handle, loadPanelInstallStateV4 and the questions.
HandleV4(d, ex, wd) ==
    /\ pc \in Ended
    /\ run < MaxRuns
    /\ ex => d \in Servers \cap External
    /\ wd => d \in Enrolling
    /\ run' = run + 1
    /\ cmd' = [db |-> d, existing |-> ex, daemon |-> wd, data |-> FALSE]
    /\ mem' = RestorePreviousState(d, ex)
    /\ faulted' = FALSE
    /\ at' = [up |-> Up,
              known |-> /\ saved.db = d /\ ~ex /\ d \in Servers
                        /\ config.st = "whole" /\ config.store = d
                        /\ saved.pw = config.pw /\ config.pw = userPw[d]
                        /\ userPw[d] # 0]
    /\ pc' = "check"
    /\ UNCHANGED <<files, dbs, panel, keyLost>>

\* Host, port, SELinux and the package manager.
Check ==
    /\ pc = "check"
    /\ pc' = "packages"
    /\ UNCHANGED <<run, cmd, mem, files, dbs, panel, history>>

\* installSystemDependenciesV4: freshly installed CA certificates end the run
\* with the request to repeat it.
InstallSystemDependencies ==
    /\ pc = "packages"
    /\ pc' \in {"credentials", "rerun"}
    /\ UNCHANGED <<run, cmd, mem, files, dbs, panel, history>>

\* preconfigureDatabase, and the checkpoint that makes the generated password
\* known before any server is touched.
PreconfigureDatabase ==
    /\ pc = "credentials"
    /\ pc' = "database"
    /\ IF cmd.db # "none" /\ ~cmd.existing
       THEN /\ mem' = [mem EXCEPT !.pw = IF @ = 0 THEN run ELSE @]
            /\ Checkpoint(mem')
       ELSE UNCHANGED <<mem, saved, faulted>>
    /\ UNCHANGED <<run, cmd, config, buf, unit, dbs, panel, keyLost, at>>

-----------------------------------------------------------------------------
(* The database.                                                           *)

\* connectExistingPostgreSQL, connectExistingMySQL; nothing to do for "none".
ConnectExisting ==
    /\ pc = "database"
    /\ cmd.existing \/ cmd.db = "none"
    /\ cmd.existing => Reachable(Store, mem.pw)
    /\ pc' = "checkpoint"
    /\ UNCHANGED <<run, cmd, mem, files, dbs, panel, history>>

\* installSqliteV4: an existing file is kept.
InstallSqlite ==
    /\ pc = "database"
    /\ cmd.db = "sqlite"
    /\ mem' = [mem EXCEPT !.installed = TRUE]
    /\ pc' = "checkpoint"
    /\ UNCHANGED <<run, cmd, files, dbs, panel, history>>

\* extended.Install of the server's package: the package itself.
InstallPostgreSQL ==
    /\ pc = "database"
    /\ cmd.db = "postgres" /\ ~cmd.existing
    /\ server' = [server EXCEPT !["postgres"] = IF @ = "none" THEN "ours" ELSE @]
    /\ pc' = "postinstall"
    /\ UNCHANGED <<run, cmd, mem, files, dataDir, rootPw, userPw, enc, adm, panel,
                   history>>

\* postInstallationSteps: CREATE USER fails when the user exists, and with it
\* the whole installation.
PostInstallationSteps ==
    /\ pc = "postinstall"
    /\ IF userPw["postgres"] = 0
       THEN /\ userPw' = [userPw EXCEPT !["postgres"] = mem.pw]
            /\ mem' = [mem EXCEPT !.installed = TRUE]
            /\ pc' = "connect"
       ELSE /\ pc' = "failed"
            /\ UNCHANGED <<userPw, mem>>
    /\ UNCHANGED <<run, cmd, files, server, dataDir, rootPw, enc, adm, panel,
                   history>>

\* checkPostgreSQLConnectionV4
CheckPostgreSQLConnection ==
    /\ pc = "connect"
    /\ pc' = IF Reachable(Store, mem.pw) THEN "checkpoint" ELSE "failed"
    /\ UNCHANGED <<run, cmd, mem, files, dbs, panel, history>>

\* The package makes the data directory when there is none, with the root
\* password of this run or, on other systems, with a root that needs none.
MakeDataDirectory ==
    IF dataDir = "none"
    THEN dataDir' = "ours" /\ rootPw' \in {0, mem.pw}
    ELSE UNCHANGED <<dataDir, rootPw>>

\* pm.Install of a MySQL or MariaDB server: done, or failed with or without a
\* data directory left behind.
PackageInstalled ==
    /\ server' = [server EXCEPT !["mysql"] = "ours"]
    /\ MakeDataDirectory
PackageFailed ==
    /\ MakeDataDirectory \/ UNCHANGED <<dataDir, rootPw>>
    /\ UNCHANGED server

\* installMySQLV4 up to the start of the server: on Linux an error of the
\* package manager is dropped.
InstallMySQL ==
    /\ pc = "database"
    /\ cmd.db = "mysql" /\ ~cmd.existing
    /\ IF mem.host = "remote"
       THEN UNCHANGED <<mem, server, dataDir, rootPw, faulted>>
       ELSE IF server["mysql"] = "none"
       THEN /\ mem' = [mem EXCEPT !.existed = (dataDir # "none"),
                                  !.installed = TRUE]
            /\ \/ PackageInstalled /\ UNCHANGED faulted
               \/ PackageFailed /\ faulted' = TRUE
       ELSE /\ mem' = [mem EXCEPT !.existed = TRUE]
            /\ UNCHANGED <<server, dataDir, rootPw, faulted>>
    /\ pc' = "mysql"
    /\ UNCHANGED <<run, cmd, files, userPw, enc, adm, panel, keyLost, at>>

\* configureMysql: the user is created, or its password changed.
SetUser == userPw' = [userPw EXCEPT !["mysql"] = mem.pw]

\* mysqlMakeAdminConnection: root without a password or with this run's.
RootKnown == rootPw \in {0, mem.pw} \ {Given}

\* What fails however often it is repeated: no server, a root password nobody
\* knows any more, or a server whose version mysqlChangeUserPassword has no
\* statement for when the user is already there.
Refused == server["mysql"] = "none" \/ ~RootKnown \/ userPw["mysql"] # 0

\* Starting the server, configureMysql and checkMySQLConnectionV4, with MySQL
\* and, after the fallback, with MariaDB.
ConfigureMySQL ==
    /\ pc \in {"mysql", "mariadb"}
    /\ server["mysql"] # "none" /\ RootKnown
    /\ SetUser
    /\ Store = "remote" => Reachable("remote", mem.pw)
    /\ pc' = "checkpoint"
    /\ UNCHANGED <<run, cmd, mem, files, server, dataDir, rootPw, enc, adm,
                   panel, history>>

\* The server refuses, or one of these steps fails by itself, before or after
\* the password was changed.
ConfigureMySQLFails ==
    /\ pc \in {"mysql", "mariadb"}
    /\ \/ Refused /\ UNCHANGED <<userPw, faulted>>
       \/ /\ server["mysql"] # "none"
          /\ UNCHANGED userPw \/ (RootKnown /\ SetUser)
          /\ faulted' = TRUE
    /\ pc' = IF pc = "mysql" THEN "purge" ELSE "failed"
    /\ UNCHANGED <<run, cmd, mem, files, server, dataDir, rootPw, enc, adm, panel,
                   keyLost, at>>

\* The server's package is purged.  What was there before the run may be a
\* MariaDB, which the purge of MySQL leaves alone.
Purge ==
    \/ server' = [server EXCEPT !["mysql"] = "none"]
    \/ mem.existed /\ server' = server

RemoveDataDirectory ==
    /\ dataDir' = "none" /\ rootPw' = 0
    /\ userPw' = [userPw EXCEPT !["mysql"] = 0]
    /\ enc' = [enc EXCEPT !["mysql"] = 0]
    /\ adm' = [adm EXCEPT !["mysql"] = 0]

\* Fault: the data directory is removed without asking who made it.
PurgeEverything ==
    /\ pc = "purge"
    /\ Purge
    /\ RemoveDataDirectory
    /\ pc' = "install mariadb"
    /\ UNCHANGED <<run, cmd, mem, files, panel, history>>

\* installMySQLOrMariaDBV4: MySQL is purged, and its data directory removed
\* when it did not exist before.
PurgeMySQL ==
    /\ pc = "purge"
    /\ Purge
    /\ IF ~mem.existed
       THEN RemoveDataDirectory
       ELSE UNCHANGED <<dataDir, rootPw, userPw, enc, adm>>
    /\ pc' = "install mariadb"
    /\ UNCHANGED <<run, cmd, mem, files, panel, history>>

\* installMariaDBV4 up to the start of the server.
InstallMariaDB ==
    /\ pc = "install mariadb"
    /\ IF mem.host = "remote" \/ server["mysql"] # "none"
       THEN UNCHANGED <<mem, server, dataDir, rootPw>>
       ELSE /\ mem' = [mem EXCEPT !.existed = (dataDir # "none"),
                                  !.installed = TRUE]
            /\ PackageInstalled
    /\ pc' = "mariadb"
    /\ UNCHANGED <<run, cmd, files, userPw, enc, adm, panel, history>>

SaveCheckpoint ==
    /\ pc \in {"checkpoint", "installed"}
    /\ Checkpoint(mem)
    /\ pc' = IF pc = "checkpoint" THEN "release"
             ELSE IF cmd.daemon THEN "enroll" ELSE "save"
    /\ UNCHANGED <<run, cmd, mem, config, buf, unit, dbs, panel, keyLost, at>>

-----------------------------------------------------------------------------
(* panel.Configure and the binary.                                         *)

\* ResolveRelease, or with --github the build of the panel.
ResolveRelease ==
    /\ pc = "release"
    /\ pc' = "configure"
    /\ UNCHANGED <<run, cmd, mem, files, dbs, panel, history>>

\* A rewrite of config.env starts: os.WriteFile truncates the file.
Rewrite(new) ==
    /\ buf' = new
    /\ config' = EmptyConfig("torn")

\* preserveExistingSecrets: the key of the config.env that is there.
PreservedKey == IF config.st = "whole" THEN config.key ELSE 0

\* Configure and createConfigEnv: every other setting comes from the flags.
ConfigureWith(key) ==
    /\ pc = "configure"
    /\ Rewrite([st |-> "whole", key |-> IF key = 0 THEN run ELSE key,
                store |-> Store, pw |-> mem.pw, setup |-> FALSE, acme |-> FALSE])
    /\ keyLost' = (keyLost \/ (PreservedKey = 0 /\ \E s \in Stores : enc[s] # 0))
    /\ pc' = "write config"
    /\ UNCHANGED <<run, cmd, mem, saved, unit, dbs, panel, faulted, at>>

\* Fault: the secrets of the previous config.env are not read back.
ConfigureForgets == ConfigureWith(0)

Configure == ConfigureWith(PreservedKey)

WriteConfig ==
    /\ pc \in {"write config", "write key", "write without key"}
    /\ config' = buf
    /\ buf' = Down
    /\ pc' = CASE pc = "write config" -> "unit"
               [] pc = "write key" -> "start to enroll"
               [] pc = "write without key" -> "save"
    /\ UNCHANGED <<run, cmd, mem, saved, unit, dbs, panel, history>>

\* install of install_linux.go: createSystemdUnit.
CreateSystemdUnit ==
    /\ pc = "unit"
    /\ unit' = TRUE
    /\ pc' = "binaries"
    /\ UNCHANGED <<run, cmd, mem, saved, config, buf, dbs, panel, history>>

\* downloadBinaries: utils.Move from the temporary directory is a rename or, from
\* another file system, a copy into the file, refused while a panel runs from it.
DownloadBinaries ==
    /\ pc = "binaries"
    /\ \/ pc' = "installed"
       \/ at.up /\ pc' = "failed"
    /\ UNCHANGED <<run, cmd, mem, files, dbs, panel, history>>

-----------------------------------------------------------------------------
(* daemonInstallV4: a one-time setup key is put into config.env for the    *)
(* time of the enrollment.  Its errors are only printed.                   *)

\* appendConfigEnvVar, or it fails before the file is touched.
SeedSetupKey ==
    /\ pc = "enroll"
    /\ \/ /\ Rewrite([config EXCEPT !.setup = TRUE])
          /\ pc' = "write key"
          /\ UNCHANGED faulted
       \/ /\ pc' = "save"
          /\ faulted' = TRUE
          /\ UNCHANGED <<config, buf>>
    /\ UNCHANGED <<run, cmd, mem, saved, unit, dbs, panel, keyLost, at>>

\* panel.Start; when it fails the panel is not stopped but the key withdrawn.
StartToEnroll ==
    /\ pc = "start to enroll"
    /\ \/ /\ unit
          /\ Start
          /\ pc' = "enroll daemon"
          /\ UNCHANGED faulted
       \/ /\ pc' = "withdraw"
          /\ faulted' = TRUE
          /\ UNCHANGED <<panel, enc, adm>>
    /\ UNCHANGED <<run, cmd, mem, files, server, dataDir, rootPw, userPw,
                   keyLost, at>>

\* The health check, the gRPC port and daemoninstall.Install: it can only work
\* with a panel that has read the key.
EnrollDaemon ==
    /\ pc = "enroll daemon"
    /\ faulted' \in {faulted, TRUE}
    /\ pc' = "stop"
    /\ UNCHANGED <<run, cmd, mem, files, dbs, panel, keyLost, at>>

\* The deferred panel.Stop: an error is only logged.
StopAfterEnrollment ==
    /\ pc = "stop"
    /\ \/ panel' = Down /\ at' = [at EXCEPT !.up = FALSE] /\ UNCHANGED faulted
       \/ UNCHANGED <<panel, at>> /\ faulted' = TRUE
    /\ pc' = "withdraw"
    /\ UNCHANGED <<run, cmd, mem, files, dbs, keyLost>>

\* removeConfigEnvVar; a config.env that cannot be read keeps the key.
RemoveSetupKey ==
    /\ pc = "withdraw"
    /\ \/ /\ Rewrite([config EXCEPT !.setup = FALSE])
          /\ pc' = "write without key"
          /\ UNCHANGED faulted
       \/ /\ pc' = "save"
          /\ faulted' = TRUE
          /\ UNCHANGED <<config, buf>>
    /\ UNCHANGED <<run, cmd, mem, saved, unit, dbs, panel, keyLost, at>>

\* A write of these two helpers fails in the middle: the handler goes on.
WriteKeyFails ==
    /\ pc \in {"write key", "write without key"}
    /\ faulted' = TRUE
    /\ pc' = "save"
    /\ UNCHANGED <<run, cmd, mem, files, dbs, panel, keyLost, at>>

-----------------------------------------------------------------------------
(* The panel is started and the password of its administrator set.         *)

\* savePanelInstallationDetailsV4; without a database this is the end.
SaveInstallationDetails ==
    /\ pc = "save"
    /\ Checkpoint(mem)
    /\ pc' = IF cmd.db = "none" THEN "done" ELSE "start"
    /\ UNCHANGED <<run, cmd, mem, config, buf, unit, dbs, panel, keyLost, at>>

\* Fault: the panel that enrolled the daemon is taken to be still running.
StartPanelOnce ==
    /\ pc = "start"
    /\ unit
    /\ IF cmd.daemon THEN UNCHANGED <<panel, enc, adm>> ELSE Start
    /\ pc' = "health"
    /\ UNCHANGED <<run, cmd, mem, files, server, dataDir, rootPw, userPw,
                   history>>

\* panel.Start
StartPanel ==
    /\ pc = "start"
    /\ unit
    /\ Start
    /\ pc' = "health"
    /\ UNCHANGED <<run, cmd, mem, files, server, dataDir, rootPw, userPw,
                   history>>

\* waitForPanelHealthCheck polls the address of this command's flags, and a
\* panel that runs since before may listen on another.
WaitForHealth ==
    /\ pc = "health"
    /\ \/ Up /\ pc' = "password"
       \/ (~Up \/ at.up) /\ pc' = "failed"
    /\ UNCHANGED <<run, cmd, mem, files, dbs, panel, history>>

\* changepassword.ChangePassword: the user "admin" of the database that
\* config.env names.
HasAdmin == /\ config.st = "whole"
            /\ Reachable(config.store, config.pw)
            /\ adm[config.store] # 0

UpdateAdminPassword ==
    /\ pc = "password"
    /\ mem' = [mem EXCEPT !.admin = IF @ = 0 THEN run ELSE @]
    /\ IF HasAdmin
       THEN /\ adm' = [adm EXCEPT ![config.store] = mem'.admin]
            /\ pc' = "finish"
       ELSE /\ pc' = "failed"
            /\ UNCHANGED adm
    /\ UNCHANGED <<run, cmd, files, server, dataDir, rootPw, userPw, enc, panel,
                   history>>

\* Fault: the last checkpoint is left out.
FinishUnsaved ==
    /\ pc = "finish"
    /\ pc' = "done"
    /\ UNCHANGED <<run, cmd, mem, files, dbs, panel, history>>

\* The last checkpoint, daemon.Start (an error is only printed) and DONE.
Finish ==
    /\ pc = "finish"
    /\ Checkpoint(mem)
    /\ pc' = "done"
    /\ UNCHANGED <<run, cmd, mem, config, buf, unit, dbs, panel, keyLost, at>>

=============================================================================
