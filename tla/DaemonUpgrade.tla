---------------------------- MODULE DaemonUpgrade ---------------------------
(***************************************************************************)
(* `gameapctl daemon upgrade`: replacing the gameap-daemon binary by a     *)
(* release or by a build from GitHub                                       *)
(* (internal/actions/daemon/update/daemon_update.go).  Both flows stop the *)
(* service, keep a copy of the binary at $TMPDIR/gameap-daemon-backup,     *)
(* replace the binary, start the service and revert when that fails; the   *)
(* copy is removed by a deferred call on every return.  Before either flow *)
(* the CDN step may rewrite the daemon's config file.                      *)
(*                                                                         *)
(* Any external call may fail, the process may be killed between two       *)
(* steps, and upgrades follow each other on what earlier ones left.        *)
(***************************************************************************)
EXTENDS Naturals

CONSTANTS
  Tags,      \* release tags
  Builds     \* binaries built from GitHub sources

Versions == Tags \cup Builds

ASSUME VersionsAssumption ==
  /\ {"none", "torn", "down", "absent"} \cap Versions = {}
  /\ Tags \cap Builds = {}

VARIABLES
  pc, result,   \* where the handler is; what the last run returned
  flow,         \* "release" or "github"
  target,       \* the version this run installs
  old,          \* history: the binary found when this run started
  armed,        \* the deferred removal of the backup is registered
  revertErr,    \* history: a revert of this run failed
  bin, bak,     \* the binary at its path and the backup
  svc,          \* the version that runs, or "down"
  unit, init,   \* systemd wants it running: "on"; the init system
  cfg,          \* the daemon config: "ok", or "torn" by an unfinished write
  recorded,     \* the recorded version; "none" if it has none, "absent" if
                \* there is no install state
  fromGithub    \* the recorded origin

run   == <<flow, target, old>>
proc  == <<svc, unit, init>>
state == <<recorded, fromGithub>>
vars  == <<pc, result, run, armed, revertErr, bin, bak, proc, cfg, state>>

Labels == {"idle", "cdn", "find", "stop", "backup", "apply", "revertApply",
           "start", "revertStart", "restart", "record",
           "gbackup", "gstop", "build", "gRevertBuild", "gRestartBuild",
           "gstart", "gRevertStart", "gRestartStart"}

FlagsOK == armed \in BOOLEAN /\ revertErr \in BOOLEAN /\ fromGithub \in BOOLEAN

TypeOK ==
  /\ FlagsOK
  /\ pc \in Labels
  /\ result \in {"none", "running", "ok", "error", "crashed"}
  /\ flow \in {"release", "github"}
  /\ target \in Versions \cup {"none"}
  /\ old \in Versions \cup {"none", "torn"}
  /\ bin \in Versions \cup {"none", "torn"}
  /\ bak \in Versions \cup {"none", "torn"}
  /\ svc \in Versions \cup {"down"}
  /\ unit \in {"on", "off"}
  /\ init \in {"systemd", "fork"}
  /\ cfg \in {"ok", "torn"}
  /\ recorded \in Versions \cup {"none", "absent"}

\* An installed daemon, from a release or from GitHub.
Init ==
  /\ pc = "idle" /\ result = "none"
  /\ flow = "release" /\ target = "none" /\ old = "none"
  /\ armed = FALSE /\ revertErr = FALSE
  /\ bin \in Versions /\ bak = "none"
  /\ svc \in {bin, "down"} /\ init \in {"systemd", "fork"}
  /\ unit = IF init = "systemd" /\ svc = bin THEN "on" ELSE "off"
  /\ cfg = "ok"
  /\ \/ recorded = "absent" /\ fromGithub = FALSE
     \/ bin \in Tags /\ recorded \in {bin, "none"} /\ fromGithub = FALSE
     \/ bin \in Builds /\ recorded = "none" /\ fromGithub = TRUE

-----------------------------------------------------------------------------
(* What the steps are made of.                                             *)

Goto(l) == pc' = l /\ UNCHANGED <<result, run, armed, bak>>

\* A return runs the deferred removal of the backup, if it is registered;
\* the removal itself may fail.
Return(res) ==
  /\ pc' = "idle" /\ result' = res
  /\ \/ UNCHANGED bak
     \/ armed /\ bak' = "none"
  /\ armed' = FALSE
  /\ UNCHANGED run

Fail == Return("error")

StopOK == svc' = "down" /\ unit' = "off" /\ UNCHANGED init
StopFailed == svc' \in {svc, "down"} /\ unit' \in {unit, "off"} /\ UNCHANGED init

Started == IF init = "systemd" THEN "on" ELSE "off"

CanRun == bin \in Versions /\ cfg = "ok"

\* Starting an active unit is a no-op; a forked start refuses a live process.
StartOK ==
  /\ IF svc = "down" THEN CanRun ELSE init = "systemd"
  /\ svc' = IF svc = "down" THEN bin ELSE svc
  /\ unit' = Started /\ UNCHANGED init

StartFailed ==
  /\ svc' \in {svc} \cup (IF svc = "down" /\ CanRun THEN {bin} ELSE {})
  /\ unit' \in {unit, Started} /\ UNCHANGED init

\* selfupdate.Apply swaps by two renames: it needs an existing target, and a
\* failure leaves the target alone or, when undoing fails too, missing.
ApplyOK(b) == bin # "none" /\ bin' = b
ApplyFailed == bin' \in {bin, "none"}

RevertOK == ApplyOK(bak) /\ UNCHANGED revertErr
RevertFailed == ApplyFailed /\ revertErr' = TRUE

\* utils.Copy into the backup: a failure may leave part of the file, unless
\* there is nothing to read.
CopyOK == bin # "none" /\ bak' = bin /\ armed' = TRUE
CopyFailed == bak' \in {bak} \cup (IF bin = "none" THEN {} ELSE {"torn"})

-----------------------------------------------------------------------------
(* Handle: the flags and the recorded state choose the flow.               *)

Handle ==
  /\ pc = "idle"
  /\ pc' = "cdn" /\ result' = "running"
  /\ \E github, version \in BOOLEAN :
       /\ ~(github /\ version)       \* mutually exclusive: refused at once
       /\ flow' = IF github \/ (~version /\ fromGithub)
                  THEN "github" ELSE "release"
  /\ old' = bin /\ target' = "none"
  /\ revertErr' = FALSE
  /\ UNCHANGED <<armed, bin, bak, proc, cfg, state>>

\* SetupCDNReplacements: nothing to do, or the config is rewritten in place.
\* A failed write is a warning.
SetupCDNReplacements ==
  /\ pc = "cdn"
  /\ Goto(IF flow = "github" THEN "gbackup" ELSE "find")
  /\ cfg' \in {cfg, "torn"}
  /\ UNCHANGED <<revertErr, bin, proc, state>>

(* The release flow.                                                       *)

\* LookPath fails without a binary, except in user scope, where the path is
\* not looked up; then the release is found and downloaded.
FindRelease ==
  /\ pc = "find"
  /\ \/ Fail
     \/ \E userScope \in BOOLEAN, tag \in Tags :
          /\ bin # "none" \/ userScope
          /\ pc' = "stop" /\ target' = tag
          /\ UNCHANGED <<result, flow, old, armed, bak>>
  /\ UNCHANGED <<revertErr, bin, proc, cfg, state>>

\* Fault: the error of the stop is dropped.
StopErrorIgnored ==
  /\ pc = "stop"
  /\ Goto("backup") /\ (StopOK \/ StopFailed)
  /\ UNCHANGED <<revertErr, bin, cfg, state>>

StopDaemon ==
  /\ pc = "stop"
  /\ \/ Goto("backup") /\ StopOK
     \/ Fail /\ StopFailed
  /\ UNCHANGED <<revertErr, bin, cfg, state>>

\* Fault: an error of the copy is only logged.
BackupErrorIgnored ==
  /\ pc = "backup"
  /\ pc' = "apply" /\ armed' = TRUE /\ (CopyOK \/ CopyFailed)
  /\ UNCHANGED <<result, run, revertErr, bin, proc, cfg, state>>

BackupBinary ==
  /\ pc = "backup"
  /\ \/ /\ pc' = "apply" /\ CopyOK
        /\ UNCHANGED <<result, run>>
     \/ /\ pc' = "idle" /\ result' = "error" /\ CopyFailed
        /\ UNCHANGED <<run, armed>>
  /\ UNCHANGED <<revertErr, bin, proc, cfg, state>>

ApplyRelease ==
  /\ pc = "apply"
  /\ \/ Goto("start") /\ ApplyOK(target)
     \/ /\ pc' = "revertApply" /\ ApplyFailed
        /\ UNCHANGED <<result, run, armed, bak>>
  /\ UNCHANGED <<revertErr, proc, cfg, state>>

\* Fault: a failed replacement returns without reverting.
RevertApplySkipped ==
  /\ pc = "revertApply"
  /\ Fail
  /\ UNCHANGED <<revertErr, bin, proc, cfg, state>>

\* "Update failed, reverting...": the service is not started again.
RevertAfterApply ==
  /\ pc = "revertApply"
  /\ Fail
  /\ RevertOK \/ RevertFailed
  /\ UNCHANGED <<proc, cfg, state>>

StartDaemon ==
  /\ pc = "start"
  /\ \/ Goto("record") /\ StartOK
     \/ /\ pc' = "revertStart" /\ StartFailed
        /\ UNCHANGED <<result, run, armed, bak>>
  /\ UNCHANGED <<revertErr, bin, cfg, state>>

RevertAfterStart ==
  /\ pc = "revertStart"
  /\ \/ Goto("restart") /\ RevertOK
     \/ Fail /\ RevertFailed
  /\ UNCHANGED <<proc, cfg, state>>

\* When the old binary starts, the run goes on as if it were the new one.
RestartOld ==
  /\ pc = "restart"
  /\ \/ Goto("record") /\ StartOK
     \/ Return("error") /\ StartFailed
  /\ UNCHANGED <<revertErr, bin, cfg, state>>

\* updateDaemonStateVersion is best effort.
RecordVersion ==
  /\ pc = "record"
  /\ Return("ok")
  /\ \/ UNCHANGED recorded
     \/ recorded # "absent" /\ recorded' = target
  /\ UNCHANGED <<revertErr, bin, proc, cfg, fromGithub>>

(* handleFromGithub.                                                       *)

\* Fault: a backup that is there already is not made again.
GithubBackupReused ==
  /\ pc = "gbackup"
  /\ \/ (bin = "none" \/ bak # "none") /\ Goto("gstop")
     \/ /\ bak = "none" /\ pc' = "gstop" /\ CopyOK
        /\ UNCHANGED <<result, run>>
     \/ /\ bin # "none" /\ CopyFailed
        /\ pc' = "idle" /\ result' = "error"
        /\ UNCHANGED <<run, armed>>
  /\ UNCHANGED <<revertErr, bin, proc, cfg, state>>

\* Without a binary nothing is copied and nothing will be removed.
GithubBackup ==
  /\ pc = "gbackup"
  /\ \/ bin = "none" /\ Goto("gstop")
     \/ /\ pc' = "gstop" /\ CopyOK
        /\ UNCHANGED <<result, run>>
     \/ /\ bin # "none" /\ CopyFailed
        /\ pc' = "idle" /\ result' = "error"
        /\ UNCHANGED <<run, armed>>
  /\ UNCHANGED <<revertErr, bin, proc, cfg, state>>

\* Fault: the error of the stop is dropped.
GithubStopErrorIgnored ==
  /\ pc = "gstop"
  /\ Goto("build") /\ (StopOK \/ StopFailed)
  /\ UNCHANGED <<revertErr, bin, cfg, state>>

GithubStop ==
  /\ pc = "gstop"
  /\ \/ Goto("build") /\ StopOK
     \/ Fail /\ StopFailed
  /\ UNCHANGED <<revertErr, bin, cfg, state>>

\* packagemanager.Load returns at once; a failed `go build -o` leaves the
\* binary or removes it.
SetupDaemonFromGithub ==
  /\ pc = "build"
  /\ \/ Fail /\ UNCHANGED bin
     \/ \E b \in Builds :
          /\ pc' = "gstart" /\ target' = b /\ bin' = b
          /\ UNCHANGED <<result, flow, old, armed, bak>>
     \/ /\ pc' = "gRevertBuild" /\ bin' \in {bin, "none"}
        /\ UNCHANGED <<result, run, armed, bak>>
  /\ UNCHANGED <<revertErr, proc, cfg, state>>

\* The revert and the restart after a failed build are only logged.
GithubRevertBuild ==
  /\ pc = "gRevertBuild"
  /\ Goto("gRestartBuild")
  /\ \/ bak = "none" /\ UNCHANGED <<bin, revertErr>>
     \/ bak # "none" /\ (RevertOK \/ RevertFailed)
  /\ UNCHANGED <<proc, cfg, state>>

GithubRestartBuild ==
  /\ pc = "gRestartBuild"
  /\ Fail
  /\ StartOK \/ StartFailed
  /\ UNCHANGED <<revertErr, bin, cfg, state>>

GithubStart ==
  /\ pc = "gstart"
  /\ \/ Return("ok") /\ StartOK
     \/ /\ pc' = "gRevertStart" /\ StartFailed
        /\ UNCHANGED <<result, run, armed, bak>>
  /\ UNCHANGED <<revertErr, bin, cfg, state>>

\* revertFromBackup: without a backup there is nothing to go back to.
GithubRevertStart ==
  /\ pc = "gRevertStart"
  /\ \/ bak = "none" /\ Return("error") /\ UNCHANGED <<revertErr, bin>>
     \/ bak # "none" /\ Goto("gRestartStart") /\ RevertOK
     \/ bak # "none" /\ Fail /\ RevertFailed
  /\ UNCHANGED <<proc, cfg, state>>

GithubRestartStart ==
  /\ pc = "gRestartStart"
  /\ Return("error")
  /\ StartOK \/ StartFailed
  /\ UNCHANGED <<revertErr, bin, cfg, state>>

Handler ==
  \/ SetupCDNReplacements
  \/ FindRelease \/ StopDaemon \/ BackupBinary \/ ApplyRelease
  \/ RevertAfterApply \/ StartDaemon \/ RevertAfterStart \/ RestartOld
  \/ RecordVersion
  \/ GithubBackup \/ GithubStop \/ SetupDaemonFromGithub \/ GithubRevertBuild
  \/ GithubRestartBuild \/ GithubStart \/ GithubRevertStart
  \/ GithubRestartStart

\* The process is killed: deferred calls do not run, the file that was being
\* written stays partial, a swap may stop between its two renames.
Crash ==
  /\ pc # "idle"
  /\ pc' = "idle" /\ result' = "crashed" /\ armed' = FALSE
  /\ \/ UNCHANGED <<bin, bak, cfg>>
     \/ /\ pc \in {"backup", "gbackup"} /\ bin # "none"
        /\ bak' = "torn" /\ UNCHANGED <<bin, cfg>>
     \/ /\ pc \in {"apply", "revertApply", "revertStart", "build",
                   "gRevertBuild", "gRevertStart"}
        /\ bin' = "none" /\ UNCHANGED <<bak, cfg>>
     \/ pc = "cdn" /\ cfg' = "torn" /\ UNCHANGED <<bin, bak>>
  /\ UNCHANGED <<run, revertErr, proc, state>>

\* The daemon dies; Restart=always starts the binary that is installed then.
Die ==
  /\ svc # "down" /\ svc' = "down"
  /\ UNCHANGED <<pc, result, run, armed, revertErr, bin, bak, unit, init, cfg, state>>

Respawn ==
  /\ unit = "on" /\ svc = "down" /\ CanRun /\ svc' = bin
  /\ UNCHANGED <<pc, result, run, armed, revertErr, bin, bak, unit, init, cfg, state>>

Next == Handle \/ Handler \/ Crash \/ Die \/ Respawn

Spec == Init /\ [][Next]_vars

-----------------------------------------------------------------------------
(* Properties.                                                             *)

\* From the first step that can lose it until the run returns, and after a
\* crash anywhere, the binary found at the start is installed or backed up.
OldBinaryRecoverable ==
  (pc # "idle" \/ result = "crashed") /\ old # "none" => old \in {bin, bak}

\* No revert ever installs a partial copy, not even one that an earlier run
\* left behind in $TMPDIR.
NeverInstallsTornBackup == bin # "torn"

\* A run that found a binary returns without one only if its revert failed.
MissingOnlyAfterFailedRevert ==
  pc = "idle" /\ result \in {"ok", "error"} /\ old # "none" /\ bin = "none"
    => revertErr

\* "Updated successfully from GitHub": the new build is installed and no
\* process left over from the old one, or respawned by systemd, runs.
GithubSuccessRuns ==
  flow = "github" /\ result = "ok" => bin = target /\ svc \in {target, "down"}

\* A run that returns without an error leaves the version it resolved or, after
\* a revert that worked, the one it found, and nothing older than these runs:
\* not even a process that an earlier failed upgrade left on a binary that is
\* gone.  What runs may be the new version while the old one is installed,
\* when a start that was reported as failed went through after all.
SuccessIsTargetOrReverted ==
  result = "ok" => bin \in {target, old} /\ svc \in {target, bin, "down"}

\* Seen from the two files an upgrade is over when it returns or is killed.
Phase == IF pc = "idle" THEN "idle" ELSE "busy"

R == INSTANCE Replacement
       WITH Contents <- Versions \cup {"none"}, Good <- {},
            phase <- Phase, found <- old, inst <- bin, copy <- bak

\* Seen from the two files, an upgrade is a replacement: no step touches the
\* binary before the copy of it is whole and none touches the copy after that
\* but the deferred removal, with which every return ends.
ReplacesAfterCopy == R!HastySpec

\* The inductive strengthening: where the handler is tells which of the
\* binary, the backup and the service still hold what the run found.
Untouched == {"cdn", "find", "stop", "backup", "gbackup", "gstop", "build"}
ReleaseBackedUp == {"apply", "revertApply", "start", "revertStart", "restart",
                    "record"}
GithubBackedUp == {"gstop", "build", "gRevertBuild", "gRestartBuild", "gstart",
                   "gRevertStart", "gRestartStart"}

IInv ==
  /\ TypeOK
  /\ NeverInstallsTornBackup
  /\ old # "torn"
  /\ bak = "torn" => bin # "none"
  /\ pc # "idle" => result = "running"
  /\ pc \in Untouched => bin = old
  /\ armed => pc \in ReleaseBackedUp \cup GithubBackedUp
  /\ pc \in {"find", "stop", "backup"} \cup ReleaseBackedUp => flow = "release"
  /\ pc \in {"stop", "backup"} \cup ReleaseBackedUp => target \in Tags
  /\ pc \in ReleaseBackedUp => bak = old /\ old # "none"
  /\ pc \in GithubBackedUp => bak # "torn" /\ (old # "none" => bak = old)
  /\ pc \in {"start", "revertStart", "restart", "record", "gstart",
             "gRevertStart", "gRestartStart"} => bin # "none"
  /\ pc = "gRestartBuild" /\ old # "none" /\ bin = "none" => revertErr
  /\ pc \in {"build", "gstart", "backup", "apply", "start"}
       => svc = "down" /\ unit = "off"
  /\ pc \in {"gstart", "start", "revertStart"} => bin = target
  /\ pc = "restart" => bin = old
  /\ pc \in {"revertStart", "restart", "record"}
       => bin \in {target, old} /\ svc \in {target, bin, "down"}
  /\ OldBinaryRecoverable
  /\ MissingOnlyAfterFailedRevert
  /\ GithubSuccessRuns
  /\ SuccessIsTargetOrReverted

\* "Updated successfully": the release that was resolved is installed.
UpdatedMeansInstalled == result = "ok" => bin = target

=============================================================================
