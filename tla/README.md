# A TLA+ model of gameapctl

`gameapctl` installs, upgrades and controls a GameAP panel and a GameAP daemon
on one host. It is a command line program: a command is one goroutine that
calls other programs, writes files and returns; only its web UI handles several
clients at once. What makes it hard is mostly what it works on. The files and the
service it replaces are in use; systemd restarts a process at any moment; a call can fail half way; the
operator can kill a command between two steps and run it again on what it left.
A unit test of a handler reaches few of these states. The modules here reach all
of them on small instances, and the theorems cover every instance.

Paths in this file are relative to the root of the repository.

## The parts of the system

| part | state it keeps | operations | what is hard | what makes it correct |
|---|---|---|---|---|
| `daemon upgrade --switch-to-grpc` (`internal/actions/daemon/update/switch_to_grpc.go`, `internal/pkg/daemon/config.go`) | the daemon's config file and its `.bak.<ts>` copies, the service, the panel's view of the node, `GRPCEnabled` | preflight, backup, rewrite, restart, poll the panel, record; or roll back | the config is rewritten in place; the panel revokes the old credentials on its own time; the rollback ignores errors | the registration data is never lost; "switched", "rolled back" and the recorded mode are true |
| `daemon upgrade` (`internal/actions/daemon/update/daemon_update.go`) | the binary, `$TMPDIR/gameap-daemon-backup`, the service, the recorded version and origin | stop, copy, replace by a release or a build, start, revert | the copy is removed by a deferred call; a swap is two renames; a respawned old process looks like a started new one | the old binary is recoverable, a partial copy is never installed |
| `panel upgrade` of v4 (`internal/actions/panel/update/panel_update_v4.go`) | the binary, `<binary>.backup`, the service, the recorded version | stop, copy, replace, start, health checks, roll back or clean up | the binary is removed before the new one is copied; a failed start returns without a rollback | the previous binary is kept until the new one has answered |
| `panel upgrade` of v3 (`internal/actions/panel/update/panel_update_v3_to_v4.go`) | the PHP tree, its copies, the web server's config, the v4 installation | copy, install v4, proxy, health checks, move away, record; or roll back | directories move across file systems; the rollback removes before it restores | a whole v3 tree always exists; what is reported and recorded is justified |
| process control without systemd (`pkg/oscore/process.go`, `pkg/daemon`, `pkg/panel`) | the kernel's process table | find, SIGTERM, wait, SIGKILL, wait, fork, look again | nothing is locked between two gameapctl processes; zombies count as running | no command forks beside the process it replaces |
| service control with systemd (`pkg/systemd`, `pkg/service`) | units and what systemd wants to run | start, stop, restart, install a unit | `Restart=always`, a start of an active unit is a no-op | part of the modules above |
| install states (`internal/pkg/gameapctl`) | `daemon_install_state.json`, `panel_install_state.json` | load, save by temporary file and rename, in place if that fails | two savers share one temporary name | a reader sees one of the saved states |
| web UI server (`internal/actions/ui`) | one websocket per browser, the process-wide log writer, a `done` channel | run a command as a child and stream its output, exit | requests share the log writer, which a goroutine puts back some time after a command; a closed tab breaks the child's pipe | every request ends, no failure is reported as a success, the writer is restored |
| `panel install` of v4 (`internal/actions/panel/install`, `pkg/panel/install.go`) | the database servers and their users, `config.env` with the encryption key, the unit, the binaries, the install state | one long sequence with checkpoints; a fallback from MySQL to MariaDB; the enrollment of a daemon in the middle | run again on what any earlier run left; secrets are kept in three places that are written one after the other | the key, the passwords and other applications' data survive; DONE means usable |
| `panel uninstall`, `panel letsencrypt`, `panel change-password` (`internal/actions/panel/...`) | the same files, databases and service | short sequences | the errors they drop; a config that is changed but not in force | success means in force |
| `daemon install` (`internal/actions/daemon/install`) | the binary, SteamCMD, key, certificates, config, the node at the panel, the install state | resolve the panel's address, register by token or enroll by connect URL, write, start | a lost answer spends the token; keys are reused from earlier runs; the address is replaced by one that was probed | one registration in all places; the setup key goes to the panel that was named |
| self update, send logs (`internal/actions/...`) | the gameapctl binary | one call each | | |
| release lookup (`pkg/releasefinder`, `pkg/releasesource`) | none | choose a release, fall back between sources | fallback order, malformed tags | the newest matching release is chosen |
| package managers (`pkg/package_manager`) | the host's packages | install, remove, search; extended and fallback managers | failures of one of several packages | dependencies and fallbacks are tried in order |

Commands interact through the host only: the files, the process table, systemd
and the panel's HTTP API. The web UI starts commands as child processes of the
same binary or calls them. That is why each module has the files and the service as its
variables, a `Crash` action, and lets runs follow each other on what earlier
runs left.

The hazards of this code, each with its line and the properties that would catch
it, are in `PROJECT.json`.

## Modules

| module | models |
|---|---|
| `DaemonSwitch` | the switch to gRPC with its rollback, daemon, systemd and panel |
| `DaemonUpgrade` | the daemon upgrade from releases and from GitHub |
| `PanelUpgrade` | the upgrade of a v4 panel from releases and from GitHub |
| `PanelMigration` | the migration of a v3 panel to v4 |
| `ServiceProcess` | start, stop and restart without systemd by several gameapctl processes |
| `Replacement` | what the two upgrades promise about the artefact they replace |
| `PanelInstall` | the steps of `panel install` (v4) |
| `PanelHost` | the composition of `PanelInstall` with uninstall, Let's Encrypt and change of password on one host |
| `DaemonInstall` | `daemon install` in both flows and the daemon's uninstallation, with the panel's side |
| `MCDaemonInstall` | its instance for TLC, with the symmetry of the tokens |
| `UiServer` | the web UI's connections, requests and shared logger |
| `*_proofs` | the theorems about the module of that name |

The modules of handlers are built alike. `pc` is the statement the handler
is at and `result` is what its last run returned. One action is one call of the
handler with its outcomes as disjuncts: the guard is where the handler is, a
disjunct for a failure leaves through `Return` or into the revert. `Crash` kills
the process; it differs from an error in that deferred calls do not run and that
the file being written stays partial. In `PanelHost` and `DaemonInstall`, where
nearly every call ends the command when it fails, `Fail` is one action over the
labels of these calls. `Die` and `Respawn` are the service and
`Restart=always`. History variables (`old`, `found`, `fault`, `revertErr`,
`stopFailed`, `rbErr`, `left`, `owner`, `faulted`, `keyLost`, `at`, `panelAt`,
`overlap`, `late`) are read by the properties only. Definitions
whose comment begins with "Fault:" are plausible mistakes in the code; they are
not part of a specification.

Data is reduced to what the properties tell apart. A config file is `legacy`,
`grpc` or `torn`; a binary is a version, `none` or `torn`; a directory is the
whole v3 tree, part of it or nothing. Downloads, builds and YAML edits are steps
that succeed or fail.

**DaemonSwitch.** `LoadConfig` to `PersistState` follow `switchToGRPC` from top
to bottom. `os.WriteFile` is two steps (`SaveTruncate`, `SaveWrite`), and so is
`Restore`, because a kill in between is what the backup is for. `revoked` is the
panel's side: it becomes true some time after a gRPC daemon runs and never
becomes false.

**DaemonUpgrade.** `Return` runs the deferred removal of the backup if it was
registered (`armed`); the removal may fail. `ApplyOK` and `ApplyFailed` stand
for `selfupdate.Apply`, which is outside the repository: two renames, with an
undo that may itself fail. The CDN step before each upgrade may leave the
daemon's config torn, and a daemon with a torn config does not start.

**PanelUpgrade.** `Sound` are the versions that can answer a health check; any
single check may fail even for these. `restoreBackupV4` is called from three
places, and `cont` remembers from which. Without a unit file a stop succeeds
with nothing stopped and a start fails.

**PanelMigration.** `Moved` and `HalfMoved` are the outcomes of `utils.Move`,
which is a rename or a copy followed by a removal. The web server's config
(`web`) is kept apart from the one it has loaded (`live`). Every run has its own
temporary directory; those of earlier runs are collected in `kept`. The v4
service (`svc`) is kept apart from the v4 that is installed: the process of a
killed or failed migration survives it (`old`), `panel.Start` leaves it alone, and
it answers the health check of the next migration whatever that installed.

**ServiceProcess.** Every controller is one gameapctl process. Looking up,
signalling and forking are separate steps, so all interleavings of two commands
are explored. A process that exits is a zombie until it is reaped.

**Replacement.** The contract of an upgrade, on four variables: whether one is
at work, what it found, what is installed, and the copy. Nothing is replaced
before the copy of a whole artefact is complete, the copy does not change after
that, and it is given up only for a version that proved itself. `PanelUpgrade`
implements `Spec`. `DaemonUpgrade` implements only `HastySpec`, in which every
end of a run may also remove the copy: this is the difference between the two
upgrades of this repository. The mapping is `phase <- Phase` (in `PanelUpgrade`
an upgrade is over once the new version has answered), `found <- old`,
`inst <- bin`, `copy <- bak`.

**PanelInstall** and **PanelHost.** One command follows the other on the same
host; each has a number, and a secret it generates is that number, so that the
properties can tell whose key, password or configuration is where. `mem` is
`panelInstallStateV4`, lost with the process; `saved`, `config`, the servers and
what their stores hold stay. `config.env` is rewritten in two steps (`Configure`
or `SeedSetupKey` makes the new content in `buf`, `WriteConfig` ends the write),
between which the file is torn. `panel` is the configuration the running panel
has loaded, which differs from the file until it is restarted; while a panel that
was up when an installation began has not been stopped (`at.up`), its binary may
be busy and it may listen on another address than the one this installation polls.
A host may have a MySQL server or a `/var/lib/mysql` of another application from
the start. `rootPw` is what MySQL's root asks for: nothing, the password of the
run that made the data directory, or another application's. The code tries none
and this run's (`RootKnown`), so whether `ConfigureMySQLFails` is a fault or
`Refused` follows from the state. On servers `mysqlChangeUserPassword` has no
statement for, changing the password of an existing user is refused as well.
Fields of the state that no later step decides on are left out.

**DaemonInstall.** Registrations and private keys are named by the command that
made them. `node` and `used` are the panel: a token can be redeemed once, and a
registration that reached the panel is there even if its answer was lost.
`InstallDaemonBinaries` moves the new binary by a rename or, from another file
system, by a copy; the copy over a binary from which a daemon runs (`busy`) fails
every time, since an installation stops no daemon.
`ResolveConnectAddress` chooses over `Nets`, every assignment of answers and of
a certificate's coverage to the three hosts a command knows of.

**UiServer.** Each connection is one goroutine that reads a request, logs it,
dispatches it and answers. The output of the logger is the sequence of writers a
line passes; `duplicateLogWriter` is two steps, since `log.Writer` and
`log.SetOutput` take the logger's mutex separately, and its goroutine is the
action `Restore`. A line holds the mutex from `BeginLine` to `EndLine` and goes
through the writers one by one, stopping at one that fails. `direct` is a
request inside `conn.WriteMessage`: a second writer of the same connection at
that time is what gorilla/websocket panics about (`Collision`), in either of the
two. A panic of a handler is recovered by net/http, which then logs a line through
the same logger (`panic`, `panic line`), and a second panic in that line ends the
process; so does one in the line that `Handle` logs before it shuts the server
down (`BeginShutdownLine`, with `Main` as the holder of the logger) and one where
the output of a child is copied.

## Runs

| run | shows |
|---|---|
| `daemon_switch` | `LegacyConfigRecoverable`: whenever the config is not the legacy one, a backup holds it. `SwitchedIsComplete`, `RolledBackRestoresConfig`, `RecordedModeIsTrue`: the verdicts and the recorded mode are true through crashes and later runs. `RunsAreBounded`: every step brings the run closer to its end. |
| `daemon_upgrade` | `OldBinaryRecoverable` while a run works and after a kill; `NeverInstallsTornBackup` although partial copies of earlier runs are found by `os.Stat`; `MissingOnlyAfterFailedRevert`; `GithubSuccessRuns`; `SuccessIsTargetOrReverted`: no error means the new version or the one found, on disk and running; `ReplacesAfterCopy`. |
| `panel_upgrade` | `PreviousBinaryKept`, `RolledBackIsPrevious`, `UpdatedIsHealthy`, `RecordsOnlyHealthy`, `ReplacesWithWayBack`, `RunsAreBounded`. |
| `panel_migration` | `V3TreeKept` in every state; `FailureLeavesV3`; `MigratedIsServed` and `RecordsOnlyHealthy`, unless a v4 of an earlier run was there to answer; `RunsAreBounded`. |
| `service_process` | `TargetGone` and `OneServicePerController` for two racing commands; `CommandsAreBounded` and `Terminates`: each of them ends, after a bounded number of its own steps. |
| `panel_host` | `KeyKept`: one encryption key reads every database used so far. `KnownPasswordKept`, `ForeignDataKept`: what a step may never change. `DoneIsUsable`, `SuccessIsInForce`, `FailsOnlyIfKnown`: what success and failure mean, with the exceptions the code makes named in the property. |
| `daemon_install` | `DoneIsConsistent` after any number of half-done runs; `FailsOnlyIfKnown`: a spent token, a panel that cannot be verified, a torn key or a daemon running from its binary; `EnrolledWithVerifiedPanel`. |
| `ui_server` | `NoFalseSuccess`; `CleanWithoutOverlap`: where the log goes without overlapping commands, and that nothing panics if besides no request comes before the redirection of its connection's last one is undone; `Answered` (liveness). |
| `daemon_switch_no_host` | violated: a switch of a config without `api_host` can only be rolled back. |
| `daemon_upgrade_revert` | violated: a revert followed by a successful restart is reported and recorded as an update. |
| `panel_migration_rollback` | violated: "rolled back to v3" is also said when it is not so. |
| `service_process_kill` | violated: a stop does not wait after SIGKILL. |

`daemon_install` and `ui_server` also check their type invariant; those of the
other modules are proved (`TypeCorrect`) as parts of their inductive invariants.
The four last runs each state what a comment or a message of the code says; the
findings in `PROJECT.json` quote it.

### Bounds

* Two tags and two builds: the version found, the one installed now and one from
  a run before that. In `PanelUpgrade` one tag and one build never answer.
* `MaxAttempts = 3` stands for ten polls and `MaxTries = 2` for five health
  checks: a success on the first, on the last and none at all. The theorems hold
  for every number.
* `TermWait`, `KillWait` and `WaitRetries` are 2 for 30, 10 and 5 seconds: a
  wait that ends at once, one that ends in time, one that runs out.
* Two controllers and three process ids: the process found, one forked by each.
* In the modules of upgrades the number of runs is not bounded: the state they
  leave is finite.
* `PanelHost`: `MaxRuns = 3`, an installation, a command that disturbs it (another
  database, an uninstallation, a kill) and one that meets the result.
  `Requested` leaves out `none`, an installation without a database, which shares
  every step but those of a database. `External = {"mysql"}`: the existing server
  is a MySQL one; one of PostgreSQL takes the same steps. `Enrolling = {"mysql"}`:
  `--with-daemon` comes with MySQL only; the steps of an enrollment look at the
  database through `Boot` alone. The theorems include what the three leave out.
* `DaemonInstall`: `MaxRuns = 4` (two registrations, an uninstallation cut short,
  another installation) and three interchangeable tokens.
* `UiServer`: two connections and two requests in all, on one connection or on
  both: a late restore of the first request meets the second in either case. The
  theorems hold for any number of both.

Only `MCDaemonInstall` uses symmetry, and it checks safety only; no run has a
state constraint. `PanelMigration` may stop for good (a recorded migration
leaves nothing to migrate), in `PanelHost` and `DaemonInstall` the commands run
out, and `UiServer` ends with its server; deadlock is not checked in these four.
In the others the next command can always be given.

### Fairness

`ServiceProcess` has weak fairness on every controller's `Step`: controllers are
processes of their own, and every wait in them is counted. There is none on
`Handle` and `Exit`: nobody need give a command, and a process need not die from
a signal.

`UiServer` has weak fairness on every connection's handler, on `PassWriter`,
`Restore` and `Stop`: goroutines are scheduled and a write to a client ends
when it is read or the connection breaks. It has strong fairness on
`CommandEnds`: commands end, and Go's mutexes do not starve a waiter (a command
that logs all the time disables its own end again and again). There is none on
`Receive`, `Disconnect`, `Interrupt` and on what a command does while it runs.

The other modules have no fairness: their handlers are straight sequences,
some with a bounded loop in them, and where there is one `RunsAreBounded` states
the bound as an action property, which needs none (see below). Safety does not depend on fairness.

## Proofs

Each `_proofs` module shows that its `IInv` is inductive (`InitIInv`,
`StepIInv`, one case per action) and derives the theorems from it.

| module | theorems |
|---|---|
| `DaemonSwitch_proofs` | `TypeCorrect`, `ConfigSafety`, `SuccessSafety`, `RollbackSafety`, `RecordSafety`, `BoundedRuns` |
| `DaemonUpgrade_proofs` | `TypeCorrect`, `BinarySafety`, `BackupSafety`, `ReturnSafety`, `GithubSafety`, `SuccessSafety`, `Refinement`, `ContractKeepsAWayBack` |
| `PanelUpgrade_proofs` | `TypeCorrect`, `BinarySafety`, `RollbackSafety`, `SuccessSafety`, `RecordSafety`, `BoundedRuns`, `Refinement`, `ContractKeepsAWayBack` |
| `PanelMigration_proofs` | `TypeCorrect`, `V3Safety`, `FailureSafety`, `VerdictSafety`, `RecordSafety`, `RemovalSafety`, `BoundedRuns` |
| `ServiceProcess_proofs` | `TypeCorrect`, `ProcessSafety`, `OneService`, `ServiceCount`, `BoundedCommands`, `RestartPatience` |
| `PanelHost_proofs` | `TypeCorrect`, `KeySafety`, `DoneSafety`, `SuccessSafety`, `FailureSafety`, `PasswordSafety`, `ForeignSafety`, `KeyNeverLost` |
| `DaemonInstall_proofs` | `TypeCorrect`, `DoneSafety`, `FailureSafety`, `EnrollmentSafety`, `ReuseSafety` |
| `UiServer_proofs` | `TypeCorrect`, `AnswerSafety`, `LogSafety`, `OnceSafety` |

The properties are not inductive: they speak of what a run leaves and say
nothing of the middle of one. `IInv` adds what the code relies on at each
statement.

* *Switch*: after `backup` the copy that this run restores from is the legacy
  config; between `start` and `persist` no legacy process can run, because the
  stop succeeded and a respawn reads the file on disk; a recorded switch leaves
  only runs that return at the idempotence check.
* *Upgrades*: until the first replacing step the binary is the one found
  (`Untouched`); from the copy on the backup is that binary (`BackedUp`); after
  a successful stop nothing can be respawned before the start; in the daemon
  upgrade the removal is registered only once the copy is complete, and a
  partial copy is never the only file left.
* *Migration*: the tree is the one found until the rollback removes it
  (`TreeUntouched`) and by then its copy is complete (`TreeCopied`).
* *Processes*: between the lookup and the fork a controller owns no process.
* *Panel host*: `KeyInv` extends the one key to the content that is about to be
  written; `SecretInv` and `FileInv` say which secrets gameapctl made itself, so
  that a password of the operator's own server is never taken for one of ours;
  `KnownInv` carries what a repeated run knew at its start; `DirectoryInv` and
  `FallbackInv` tie `/var/lib/mysql` to the flag the fallback decides on;
  `ReachInv`, `ConfigInv` and `SetupInv` say what config.env leads to after each
  step; `PanelInv`, `HealthInv` and `FinishInv` say when the running panel has
  loaded it.
* *Daemon install*: `FlowInv` ties a statement to its flow, `LocalInv` and `KeyInv`
  say which files are of this run and that the request belongs to the key,
  `PanelInv` that the token is unspent until the panel has the node and that each
  file written so far is of this registration.
* *UI*: `ChainInv` extends the chain of writers to every one captured or waiting
  to be restored, `LineInv` to the line on its way; `PendingInv` says that a
  running command's restore is still to come, `QuietInv` that without an
  overlap there is at most one redirection, of the original writer, and `CalmInv`
  that without a late one it is of its connection's last request; `RequestInv`
  says that a request is answered once and after its result.

`Refinement` maps every step of an upgrade to a step of `Replacement` or to a
stutter, from the same invariant. `ContractKeepsAWayBack` proves, of the contract
alone and for any contents, what it is for: under the strict contract what was
found is installed or in the copy until a proven version is installed
(`WayBack`); under the hasty one only while an upgrade is at work
(`WayBackWhileBusy`). Each upgrade therefore has it by its refinement.

**Termination.** `Rank` counts the steps a handler still has to go from each
statement on the longest way, `StepsLeft` adds the polls, health checks or ticks
that are left. `BoundedRuns` and `BoundedCommands` show, for every value of the
bounds and every interleaving with systemd, the panel, the kernel and other
commands, that each step of the handler makes this number smaller, that it stays
a natural number, and that nothing else makes it larger. This is the half of
termination that does not need fairness; that a step is always possible is
checked by TLC (no deadlock, and `Terminates` under fairness), since `ENABLED` is
out of the prover's reach.

**Several gameapctl processes.** `ServiceCount` follows from
`OneServicePerController` by an injection from the running services into the
controllers and needs these to be finitely many: racing commands can start a
service each, but never more, and a lone command never a second one.
`RestartPatience` is the counterpart of the finding of `service_process_kill`:
the same wait is right when a restart makes it.

**How a key is lost.** `KeyKept` and `DoneIsConsistent` name exceptions
(`keyLost`, `at.stale`, a torn key). `KeyNeverLost` and `ReuseSafety` show that
these are the whole list. `DestroysConfig` and `DamagesCertificates` are the
steps at fault: a write in place of config.env, of the key or of the request that
fails or is killed, and an uninstallation that removes one of two things that
belong together. The theorems have the form `Spec /\ [][~Step]_vars => []P`:
along every behaviour without such a step the key of all data is always at hand
(`KeyAtHand`), and keys and requests found are a pair (`ReuseIsSound`). Their
invariants `AtHandInv` and `PairInv` hold only on these behaviours, so they are
not part of `IInv`. TLC agrees on instances of both, and finds a
counterexample as soon as any one of these steps is allowed.

**UI.** `OnceInv` says that no sequence of writers, whether in force, captured by a
request or waiting to be restored, holds a request twice, and that a request
whose `SetOutput` is still to come is in none; from it `OnceSafety` follows
without any assumption on overlapping commands.

The assumptions are those on the constants: the bounds are positive, the names
for missing, partial and stopped things are no versions, tags are not builds,
and `NoPid` and `Other` name no process. Sets of versions, processes and
controllers may be infinite, except that `ServiceCount` needs finitely many
controllers.

Only model-checked: `Terminates` and `Answered` (liveness under fairness and
`ENABLED` are out of the prover's reach) and the four violations. Every other property of
a passing run is also a theorem. `ContractKeepsAWayBack`, `RemovalSafety`,
`ServiceCount`, `RestartPatience`, `KeyNeverLost`,
`ReuseSafety` and `OnceSafety` go beyond the runs: they were checked by TLC on
the instances of the configurations when they were stated, and are now proved.

## What the models show about the code

Besides the four findings, these behaviours came out while the properties were
stated. Each is an exception named in a property, or a state it leaves out.

* A kill inside the rewrite of `config.env` makes the next installation generate a
  new `ENCRYPTION_KEY` over data encrypted with the old one, in spite of
  `preserveExistingSecrets` (`keyLost`). `uninstall --with-data` removes the key
  and leaves the data of a database server.
* A remote host taken over from the state file leaves `DatabaseDirExistedBefore`
  unset; if MySQL then cannot be configured the fallback removes
  `/var/lib/mysql`, whoever it belongs to. The same fallback purges a MySQL
  package that was there before.
* A PostgreSQL installation fails when its user already exists, so none can be
  repeated.
* MySQL's root password is known only from the state file, which keeps it for
  one kind of database: after MySQL, SQLite and MySQL again, or over another
  application's server, every attempt to configure MySQL fails, the fallback
  purges the package, and what the data directory asks for stays unknown.
  A server whose version `mysql.go:259` does not list refuses the new password of
  an existing user as often as it is tried.
* `panel.Start` is a no-op on a running panel: an installation without daemon over
  one succeeds with the old configuration still loaded, or fails because the new
  database never gets its tables, because the old panel listens on another port
  than the one polled, or because its binary cannot be overwritten.
* A migration killed after v4 was started leaves its process on. The next one
  reports success, and records v4, on the answer of that process, even if what it
  installed itself cannot run.
* `daemon install` over a running daemon fails every time with "text file busy"
  when `$TMPDIR` is on another file system than `/usr/bin`.
* A repeated installation drops the ACME settings and puts the saved password of
  the administrator back over one set by `change-password`.
* `panel uninstall` compares `postgresql` with a recorded `postgres`, and
  `DatabaseWasInstalled` is carried over from one kind of database to another.
* A key or certificate request that a kill left partial is never replaced, and one
  left by an uninstallation between the two makes the panel certify a key that
  no longer exists. A partly extracted SteamCMD is never completed.
* In the UI two commands that overlap leave a writer of a finished request in the
  logger for good. Its late lines, or those of a request whose goroutine has not
  run yet, and the answers of the next request are written to one connection at
  once, and gorilla/websocket panics: inside a handler net/http recovers; in
  net/http's own line about that panic, in the line Handle logs before it shuts
  down, and in the goroutine that copies a child's output the process ends. A
  second `exit` waits for the end of the process; `Shutdown` does not wait for
  websockets, so a running child is orphaned.

## Not modelled, and the plan

* The contents of configs and templates, the wording of messages, the interactive
  questions; the Windows service manager and Windows paths of the installers;
  user scope. Models assume Linux, systemd (except `ServiceProcess`) and the
  system scope.
* `panel install` of v3: `Handle` sends every installation to v4, and only the
  functions v4 shares with it are modelled.
* Release lookup: a pure choice over strings; a step with two outcomes here. Self
  update: one library call. Sending logs: I/O without state. The CLI declares
  flags.
* Package managers beyond installation, purge and post-installation steps of the
  database servers.
* The file protocol of the install states (temporary file, rename, fallback in
  place) with two savers; a save is one step that succeeds or fails.
* Two upgrades at once over one `$TMPDIR/gameap-daemon-backup`, and two commands
  given by two tabs of the UI, which nothing locks against each other.
* What v3 writes while its tree is copied.
* A client of the UI that stops reading without closing: it holds the logger's
  mutex, and with it every command, until the connection breaks.

Next, in this order: a variant for the loops of `UiServer` and for the commands
of `PanelHost` and `DaemonInstall`, the install state as a register implemented
by rename, two daemon upgrades over one backup, and release lookup against a
reference definition.
