------------------------------ MODULE PanelHost ------------------------------
(***************************************************************************)
(* The life of a host with a v4 panel: gameapctl panel install             *)
(* (PanelInstall), panel uninstall, panel letsencrypt setup and disable,   *)
(* and panel change-password follow each other in any order on the files,  *)
(* databases and the service that the earlier commands left.  Every step   *)
(* may fail, and the process may be killed between any two steps.          *)
(***************************************************************************)
EXTENDS PanelInstall

\* A machine without GameAP; a MySQL server, or what one left behind, may
\* belong to another application, and the operator has a database server
\* elsewhere.
Init ==
    /\ pc = "idle" /\ run = 0
    /\ cmd = NoCommand /\ mem = NoMemory
    /\ saved = NoState
    /\ config = Down /\ buf = Down
    /\ server \in {[s \in Servers |-> IF s = "mysql" THEN o ELSE "none"] :
                      o \in {"none", "foreign"}}
    /\ dataDir \in {"none", "foreign"}
    /\ server["mysql"] # "none" => dataDir # "none"
    /\ rootPw \in IF dataDir = "none" THEN {0} ELSE {0, Given}
    /\ userPw = [s \in Stores |-> IF s = "remote" THEN Given ELSE 0]
    /\ enc = [s \in Stores |-> 0]
    /\ adm = [s \in Stores |-> 0]
    /\ panel = Down /\ unit = FALSE
    /\ faulted = FALSE /\ keyLost = FALSE
    /\ at = NoFacts

-----------------------------------------------------------------------------
(* gameapctl panel uninstall                                               *)

\* The start of a command that is no installation.
Begin(data, label) ==
    /\ pc \in Ended
    /\ run < MaxRuns
    /\ run' = run + 1
    /\ cmd' = [NoCommand EXCEPT !.data = data]
    /\ mem' = NoMemory
    /\ faulted' = FALSE
    /\ at' = NoFacts
    /\ pc' = label
    /\ UNCHANGED <<files, dbs, panel, keyLost>>

HandleUninstall(data) == Begin(data, "stop panel")

\* stopAndUninstallGameAP: without a unit there is nothing to stop; an error
\* of panel.Stop is only logged.
StopAndUninstall ==
    /\ pc = "stop panel"
    /\ \/ /\ panel' = IF unit THEN Down ELSE panel
          /\ UNCHANGED faulted
       \/ /\ unit /\ panel' = panel
          /\ faulted' = TRUE
    /\ pc' = "remove unit"
    /\ UNCHANGED <<run, cmd, mem, files, dbs, keyLost, at>>

\* uninstallGameAP, and what --with-daemon and --with-services remove.
UninstallGameAP ==
    /\ pc = "remove unit"
    /\ \/ unit' = FALSE /\ UNCHANGED faulted
       \/ unit' = unit /\ faulted' = TRUE
    /\ pc' = IF cmd.data THEN "remove data" ELSE "uninstalled"
    /\ UNCHANGED <<run, cmd, mem, saved, config, buf, dbs, panel, keyLost, at>>

\* removeData: config.env, and with the data directory the SQLite database.
\* Each of the two removals may fail and is then only logged.
RemoveData ==
    /\ pc = "remove data"
    /\ config' \in {config, Down}
    /\ \/ /\ enc' = [enc EXCEPT !["sqlite"] = 0]
          /\ adm' = [adm EXCEPT !["sqlite"] = 0]
       \/ UNCHANGED <<enc, adm>>
    /\ faulted' = (faulted \/ config'.st # "absent" \/ enc'["sqlite"] # 0)
    /\ pc' = "remove database"
    /\ UNCHANGED <<run, cmd, mem, saved, buf, unit, server, dataDir, rootPw, userPw,
                   panel, keyLost, at>>

\* removePlatformDatabase: only a state that names "mysql" removes a server
\* (the name it compares PostgreSQL with is never recorded); the package is
\* removed, its data directory stays.
RemoveDatabase ==
    /\ pc = "remove database"
    /\ \/ /\ saved.installed /\ saved.db = "mysql"
          /\ server' = [server EXCEPT !["mysql"] = "none"]
       \/ server' = server
    /\ faulted' = (faulted \/ (saved.installed /\ saved.db = "mysql"
                                /\ server'["mysql"] # "none"))
    /\ pc' = "uninstalled"
    /\ UNCHANGED <<run, cmd, mem, files, dataDir, rootPw, userPw, enc, adm, panel,
                   keyLost, at>>

-----------------------------------------------------------------------------
(* gameapctl panel letsencrypt setup | disable                             *)

HandleLetsEncrypt == Begin(FALSE, "acme")

\* readEnv, writeEnv: a temporary file renamed over config.env.
WriteEnv(on) ==
    /\ pc = "acme"
    /\ IF config.st = "absent"
       THEN pc' = "failed" /\ UNCHANGED config
       ELSE pc' = "restart" /\ config' = [config EXCEPT !.acme = on]
    /\ UNCHANGED <<run, cmd, mem, saved, buf, unit, dbs, panel, history>>

\* Fault: the panel is started instead of restarted.
RestartIsStart ==
    /\ pc = "restart"
    /\ IF unit
       THEN pc' = "applied" /\ Start
       ELSE pc' = "failed" /\ UNCHANGED <<panel, enc, adm>>
    /\ UNCHANGED <<run, cmd, mem, files, server, dataDir, rootPw, userPw,
                   history>>

\* panel.Restart
Restart ==
    /\ pc = "restart"
    /\ IF unit
       THEN pc' = "applied" /\ Boot(config)
       ELSE pc' = "failed" /\ UNCHANGED <<panel, enc, adm>>
    /\ UNCHANGED <<run, cmd, mem, files, server, dataDir, rootPw, userPw,
                   history>>

-----------------------------------------------------------------------------
(* gameapctl panel change-password admin                                   *)

HandleChangePassword == Begin(FALSE, "change password")

ChangePassword ==
    /\ pc = "change password"
    /\ IF HasAdmin
       THEN pc' = "changed" /\ adm' = [adm EXCEPT ![config.store] = Given]
       ELSE pc' = "failed" /\ UNCHANGED adm
    /\ UNCHANGED <<run, cmd, mem, files, server, dataDir, rootPw, userPw, enc, panel,
                   history>>

-----------------------------------------------------------------------------
(* Faults.                                                                 *)

\* The steps whose error the handlers return.
Failing == {"check", "packages", "database", "postinstall", "connect", "purge",
            "install mariadb", "release", "configure", "write config", "unit",
            "binaries", "start", "health", "password", "acme", "restart",
            "change password"}

\* The process ends, and with it what it had in memory.
Forget == cmd' = NoCommand /\ mem' = NoMemory /\ buf' = Down /\ at' = NoFacts

\* A call fails.
Fail ==
    /\ pc \in Failing
    /\ pc' = "failed"
    /\ faulted' = TRUE
    /\ Forget
    /\ UNCHANGED <<run, saved, config, unit, dbs, panel, keyLost>>

\* The process is killed.
Crash ==
    /\ pc \notin Ended
    /\ pc' = "idle"
    /\ faulted' = FALSE
    /\ Forget
    /\ UNCHANGED <<run, saved, config, unit, dbs, panel, keyLost>>

Begins ==
    \/ \E d \in Requested, ex, wd \in BOOLEAN : HandleV4(d, ex, wd)
    \/ \E data \in BOOLEAN : HandleUninstall(data)
    \/ HandleLetsEncrypt \/ HandleChangePassword

Prepare == Check \/ InstallSystemDependencies \/ PreconfigureDatabase

SetUpDatabase ==
    \/ ConnectExisting \/ InstallSqlite \/ InstallPostgreSQL
    \/ PostInstallationSteps \/ CheckPostgreSQLConnection
    \/ InstallMySQL \/ ConfigureMySQL \/ ConfigureMySQLFails
    \/ PurgeMySQL \/ InstallMariaDB

SetUpPanel ==
    \/ SaveCheckpoint \/ ResolveRelease \/ Configure \/ WriteConfig
    \/ CreateSystemdUnit \/ DownloadBinaries

SetUpDaemon ==
    \/ SeedSetupKey \/ StartToEnroll \/ EnrollDaemon
    \/ StopAfterEnrollment \/ RemoveSetupKey \/ WriteKeyFails

Serve ==
    \/ SaveInstallationDetails \/ StartPanel \/ WaitForHealth
    \/ UpdateAdminPassword \/ Finish

Uninstall == StopAndUninstall \/ UninstallGameAP \/ RemoveData \/ RemoveDatabase

Manage == (\E on \in BOOLEAN : WriteEnv(on)) \/ Restart \/ ChangePassword

Next ==
    \/ Begins \/ Prepare \/ SetUpDatabase \/ SetUpPanel \/ SetUpDaemon \/ Serve
    \/ Uninstall \/ Manage \/ Fail \/ Crash

Spec == Init /\ [][Next]_vars

-----------------------------------------------------------------------------
(* Properties.                                                             *)

Labels == Ended \cup Failing \cup
          {"credentials", "mysql", "mariadb", "checkpoint", "installed",
           "enroll", "write key", "start to enroll", "enroll daemon", "stop",
           "withdraw", "write without key", "save", "finish",
           "stop panel", "remove unit", "remove data", "remove database"}

FlagsOK == /\ unit \in BOOLEAN /\ faulted \in BOOLEAN /\ keyLost \in BOOLEAN
           /\ at \in [up : BOOLEAN, known : BOOLEAN]

ValuesOK ==
    /\ run \in 0 .. MaxRuns
    /\ cmd \in Commands /\ mem \in Memory /\ saved \in States
    /\ config \in Configs /\ buf \in Configs /\ panel \in Configs
    /\ server \in [Servers -> Owners]
    /\ dataDir \in Owners /\ rootPw \in Secrets
    /\ userPw \in [Stores -> Secrets]
    /\ enc \in [Stores -> Secrets]
    /\ adm \in [Stores -> Secrets]

\* Every variable holds a value of its kind.
TypeOK == pc \in Labels /\ ValuesOK /\ FlagsOK

\* preserveExistingSecrets: whatever sequence of installations, database
\* changes, failures and certificate commands led here, one ENCRYPTION_KEY
\* reads the data of every database this host has used, unless config.env was
\* destroyed (by a kill inside its rewrite, or by uninstall --with-data) while
\* a database kept its data.
KeyKept ==
    config.st = "whole" /\ ~keyLost =>
        \A s \in Stores : enc[s] \in {0, config.key}

\* What HandleV4 prints and saves at DONE works: config.env leads to the
\* database, the administrator's password is the printed one, and without a
\* failed save the next command finds the same credentials in the state file.
DoneIsUsable ==
    pc = "done" /\ cmd.db # "none" =>
        /\ config.st = "whole" /\ config.store = Store /\ HasAdmin
        /\ adm[Store] = mem.admin
        /\ faulted \/ saved = SavedState(mem)

\* An installation repeated with the database of the state file, while state
\* file, config.env and server agree on the password, never changes that
\* password: if it stops anywhere the installed panel can still log in.
KnownPasswordKept ==
    [][at.known /\ pc \notin Ended => userPw'[cmd.db] \in {0, userPw[cmd.db]}]_vars

\* Success means that the running panel works with the config.env on disk and
\* that no setup key stays in either, except for an installation without
\* daemon over a running panel (panel.Start does not restart it).
SuccessIsInForce ==
    /\ pc = "applied" /\ Up => panel = config
    /\ pc = "done" /\ cmd.db # "none" /\ ~faulted /\ (at.up => cmd.daemon) =>
           panel = config /\ ~config.setup

\* A command in which nothing fails by itself ends with an error only when the
\* PostgreSQL user is already there; when MySQL's root password is known to
\* nobody, its user is already there, or the address of a remote server was
\* taken over from the state file; when an old panel was never stopped (its
\* binary may be busy, it may listen on another address, and a new database
\* gets no tables); or when there is no panel to manage.
FailsOnlyIfKnown ==
    pc = "failed" /\ ~faulted =>
        \/ cmd.db = "postgres" /\ ~cmd.existing /\ userPw["postgres"] # 0
        \/ /\ cmd.db = "mysql" /\ ~cmd.existing
           /\ mem.host = "remote" \/ ~RootKnown \/ userPw["mysql"] # 0
        \/ at.up
        \/ cmd.db = "none" /\ (~unit \/ ~HasAdmin)

\* The fallback from MySQL to MariaDB never removes /var/lib/mysql of another
\* application, unless the address of a remote server was taken over.
ForeignDataKept ==
    [][dataDir = "foreign" /\ dataDir' # "foreign" => mem.host = "remote"]_vars

-----------------------------------------------------------------------------
(* The inductive strengthening.                                            *)

MySQLSteps == {"mysql", "purge", "install mariadb", "mariadb"}
DaemonSteps == {"enroll", "write key", "start to enroll", "enroll daemon",
                "stop", "withdraw", "write without key"}
Writing == {"write config", "write key", "write without key"}
Configured == {"unit", "binaries", "installed", "enroll", "start to enroll",
               "enroll daemon", "stop", "withdraw", "save", "start", "health",
               "password", "finish"}
Reached == Writing \cup Configured \cup {"checkpoint", "release", "configure"}
Served == {"start", "health", "password", "finish"}
Managing == {"stop panel", "remove unit", "remove data", "remove database",
             "acme", "restart", "change password"}
Installing == MySQLSteps \cup (Reached \ {"health", "password", "finish"}) \cup
              {"check", "packages", "credentials", "database", "postinstall",
               "connect"}

\* Which commands can be at which statement.
CommandInv ==
    /\ pc \notin Ended => run # 0
    /\ pc \in {"postinstall", "connect"} => cmd.db = "postgres" /\ ~cmd.existing
    /\ pc \in MySQLSteps => cmd.db = "mysql" /\ ~cmd.existing
    /\ pc \in DaemonSteps => cmd.daemon
    /\ pc \in Served => cmd.db # "none"
    /\ pc \in Managing => cmd.db = "none"

\* config.env and what is about to become config.env hold the one key.
Reads(c) == c.st = "whole" => \A s \in Stores : enc[s] \in {0, c.key}
KeyInv ==
    /\ config.st = "whole" => config.key # 0 /\ buf.st # "whole"
    /\ buf.st = "whole" => buf.key # 0
    /\ ~keyLost => Reads(config) /\ Reads(buf)

\* A MySQL server, and a user of one, has its data directory.
DirectoryInv ==
    server["mysql"] # "none" \/ userPw["mysql"] # 0 => dataDir # "none"

\* gameapctl generates the passwords of the servers it installs, and only of
\* these.
SecretInv ==
    /\ mem.host = "remote" <=> mem.pw = Given
    /\ saved.host = "remote" <=> saved.pw = Given
    /\ pc \in Installing /\ cmd.existing => mem.pw = Given
    /\ pc \in {"database", "postinstall"} \cup MySQLSteps /\ cmd.db # "none" =>
           mem.pw # 0

FileInv ==
    /\ config.st = "whole" /\ config.store \in Servers => config.pw # Given
    /\ buf.st = "whole" /\ buf.store \in Servers => buf.pw # Given

\* A run that knows the password uses it, and takes no server for its own.
KnownInv ==
    at.known /\ pc \notin Ended =>
        /\ cmd.db \in Servers /\ ~cmd.existing /\ mem.host = "local"
        /\ mem.pw # 0 /\ userPw[cmd.db] = mem.pw
        /\ pc \in MySQLSteps => mem.existed

\* A directory that did not exist before is not another application's, and
\* the fallback has a server.
FallbackInv ==
    /\ pc \in {"mysql", "purge"} /\ mem.host = "local" /\ ~mem.existed =>
           dataDir # "foreign"
    /\ pc = "mariadb" /\ mem.host = "local" => server["mysql"] # "none"

\* config.env, once written, leads to the database of this run.
ReachInv ==
    /\ pc \in Reached /\ cmd.db # "none" => Reachable(Store, mem.pw)
    /\ pc = "connect" => userPw["postgres"] # 0

ConfigInv ==
    /\ pc \in Configured =>
        /\ faulted \/ config.st = "whole"
        /\ config.st = "whole" => config.store = Store /\ config.pw = mem.pw
    /\ pc \in Writing =>
        /\ config.st # "whole"
        /\ faulted \/ buf.st = "whole"
        /\ buf.st = "whole" => buf.store = Store /\ buf.pw = mem.pw

\* The setup key is only there while a daemon is enrolled.
SetupInv ==
    ~faulted =>
        /\ pc \in (Configured \ DaemonSteps) \cup {"enroll", "done"} => ~config.setup
        /\ pc \in {"write config", "write without key"} => ~buf.setup

\* Whether the panel serves, before this run has started it for good ...
PanelInv ==
    /\ pc \in Installing /\ ~at.up /\ ~cmd.daemon => ~Up
    /\ pc \in Installing \cup {"health"} /\ at.up /\ ~cmd.daemon => Up
    /\ pc \in {"withdraw", "write without key", "save", "start"} /\ cmd.daemon =>
           faulted \/ ~Up

\* ... and after.
HealthInv ==
    (pc \in {"health", "password", "finish"} \/ (pc = "done" /\ cmd.db # "none")) =>
        \/ faulted \/ (at.up /\ ~cmd.daemon)
        \/ panel = config /\ adm[Store] # 0

FinishInv ==
    pc = "finish" => /\ config.st = "whole" /\ config.store = Store /\ HasAdmin
                     /\ adm[Store] = mem.admin

IInv ==
    /\ TypeOK /\ CommandInv /\ KeyInv /\ DirectoryInv /\ SecretInv /\ FileInv
    /\ KnownInv /\ FallbackInv /\ ReachInv /\ ConfigInv /\ SetupInv /\ PanelInv
    /\ HealthInv /\ FinishInv /\ DoneIsUsable /\ SuccessIsInForce /\ FailsOnlyIfKnown

-----------------------------------------------------------------------------
(* How a key can be lost.                                                  *)

\* The steps that leave no whole config.env: a rewrite (by Configure or for
\* the setup key) that fails or is killed, and an uninstallation that removes
\* the file and leaves a database with data.
DestroysConfig ==
    \/ pc \in Writing /\ (Fail \/ Crash \/ WriteKeyFails)
    \/ /\ pc = "remove data" /\ config'.st = "absent"
       /\ \E s \in Stores : enc'[s] # 0

\* preserveExistingSecrets always finds the key: whenever a database has data,
\* config.env, or what is being written to it, holds the key of all of it, and
\* Configure has never made a second one.
KeyAtHand ==
    /\ ~keyLost
    /\ (\E s \in Stores : enc[s] # 0) =>
           \E c \in {config, buf} :
               c.st = "whole" /\ \A s \in Stores : enc[s] \in {0, c.key}

\* As long as no step destroys config.env, there is one outside its rewrites.
AtHandInv ==
    /\ ~keyLost
    /\ pc \in Writing => buf.st = "whole"
    /\ pc \notin Writing /\ (pc \in Configured \/ \E s \in Stores : enc[s] # 0) =>
           config.st = "whole"

=============================================================================
