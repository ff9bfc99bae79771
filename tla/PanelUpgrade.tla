---------------------------- MODULE PanelUpgrade ----------------------------
(***************************************************************************)
(* `gameapctl panel upgrade` of an installed v4 panel                      *)
(* (internal/actions/panel/update/panel_update.go, panel_update_v4.go):    *)
(* the binary is copied to <binary>.backup, removed and replaced by a      *)
(* release or by a build from GitHub, the service is restarted and asked   *)
(* for its health; when it does not answer the copy is put back.           *)
(*                                                                         *)
(* Any call may fail, the process may be killed between two steps, and     *)
(* upgrades follow each other on what earlier ones left.                   *)
(***************************************************************************)
EXTENDS Naturals

CONSTANTS
  Tags,         \* release tags
  Builds,       \* binaries built from GitHub sources
  Sound,        \* the versions whose panel can answer a health check
  MaxTries      \* healthCheckRetries (5 in the code)

Versions == Tags \cup Builds

ASSUME VersionsAssumption ==
  /\ {"none", "torn", "down", "absent", "v4"} \cap Versions = {}
  /\ Tags \cap Builds = {}
  /\ Sound \subseteq Versions
ASSUME MaxTriesAssumption == MaxTries \in Nat \ {0}

VARIABLES
  pc, result,   \* where the handler is; what the last run returned
  flow,         \* "release" or "github"
  target,       \* the version this run installs
  old,          \* history: the binary found when this run started
  cont,         \* who called restoreBackupV4: "copy", "rollback" or "build"
  tries,        \* failed health checks of this run
  stopFailed,   \* history: the rollback could not stop the panel
  bin, bak,     \* the binary at its path and <binary>.backup
  svc,          \* the version that runs, or "down"
  unit, init,   \* systemd wants it running: "on"; how it is managed
  recorded,     \* PanelInstallState.Version, "none" if empty, "absent"
  fromGithub    \* PanelInstallState.FromGithub

run   == <<flow, target, old>>
proc  == <<svc, unit, init>>
state == <<recorded, fromGithub>>
hist  == <<cont, tries, stopFailed>>
vars  == <<pc, result, run, hist, bin, bak, proc, state>>

Labels == {"idle", "download", "stop", "backup", "remove", "copy", "chmod",
           "start", "health", "rbstop", "restore", "restoreCopy", "rbstart",
           "cleanup", "record", "gbackup", "gstop", "build", "grestart"}

Files == Versions \cup {"none", "torn"}

FlagsOK == stopFailed \in BOOLEAN /\ fromGithub \in BOOLEAN

TypeOK ==
  /\ FlagsOK
  /\ pc \in Labels
  /\ result \in {"none", "running", "ok", "rolledback", "error", "crashed"}
  /\ flow \in {"release", "github"}
  /\ target \in Versions \cup {"none"}
  /\ old \in Files /\ bin \in Files /\ bak \in Files
  /\ cont \in {"copy", "rollback", "build"}
  /\ tries \in 0..MaxTries
  /\ svc \in Versions \cup {"down"}
  /\ unit \in {"on", "off"}
  /\ init \in {"systemd", "nounit", "fork"}
  /\ recorded \in Versions \cup {"none", "v4", "absent"}

\* An installed v4 panel, with or without an install state.
Init ==
  /\ pc = "idle" /\ result = "none"
  /\ flow = "release" /\ target = "none" /\ old = "none"
  /\ cont = "copy" /\ tries = 0 /\ stopFailed = FALSE
  /\ bin \in Sound /\ bak = "none"
  /\ svc \in {bin, "down"} /\ init \in {"systemd", "nounit", "fork"}
  /\ unit = IF init = "systemd" /\ svc = bin THEN "on" ELSE "off"
  /\ \/ recorded = "absent" /\ fromGithub = FALSE
     \/ bin \in Tags /\ recorded \in {bin, "none", "v4"} /\ fromGithub = FALSE
     \/ bin \in Builds /\ recorded \in {"none", "v4"} /\ fromGithub = TRUE

-----------------------------------------------------------------------------
(* What the steps are made of.                                             *)

Goto(l) == pc' = l /\ UNCHANGED <<result, run>>

Return(res) == pc' = "idle" /\ result' = res /\ UNCHANGED run

\* Without a unit file systemd has "nothing to stop" and the call succeeds.
StopOK ==
  svc' = (IF init = "nounit" THEN svc ELSE "down") /\ unit' = "off" /\ UNCHANGED init
StopFailed == svc' \in {svc, "down"} /\ unit' \in {unit, "off"} /\ UNCHANGED init

Started == IF init = "systemd" THEN "on" ELSE unit

\* A start goes through before the process has proved itself: it may be gone
\* at once.  Starting an active unit is a no-op.
StartOK ==
  /\ init # "nounit" /\ (init = "fork" => svc = "down" /\ bin # "none")
  /\ \/ UNCHANGED svc
     \/ svc = "down" /\ bin \in Versions /\ svc' = bin
  /\ unit' = Started /\ UNCHANGED init

\* Without a unit file ErrGameAPNotInstalled; with fork, also a live process.
StartFailed ==
  /\ \/ UNCHANGED svc
     \/ svc = "down" /\ init = "systemd" /\ bin \in Versions /\ svc' = bin
  /\ unit' \in {unit, Started} /\ UNCHANGED init

\* utils.Copy of the binary into the backup; a failure may leave part of it.
CopyOK == bin # "none" /\ bak' = bin
CopyFailed ==
  \/ UNCHANGED bak
  \/ bin # "none" /\ bak' = "torn"

-----------------------------------------------------------------------------
(* Handle and the flags of handleV4.                                       *)

\* Without a version the recorded origin decides as much as the flag does.
ChosenFlow(github, version) ==
  IF github \/ (~version /\ fromGithub) THEN "github" ELSE "release"

\* An empty version is recorded as the detected major version, best effort.
Handle ==
  /\ pc = "idle"
  /\ result' = "running" /\ old' = bin /\ target' = "none"
  /\ \E github, version \in BOOLEAN :
       ~(github /\ version) /\ flow' = ChosenFlow(github, version)
  /\ pc' = IF flow' = "github" THEN "gbackup" ELSE "download"
  /\ tries' = 0 /\ stopFailed' = FALSE /\ cont' = "copy"
  /\ \/ UNCHANGED recorded
     \/ recorded = "none" /\ recorded' = "v4"
  /\ UNCHANGED <<bin, bak, proc, fromGithub>>

Download ==
  /\ pc = "download"
  /\ \/ Return("error")
     \/ \E tag \in Tags :
          /\ pc' = "stop" /\ target' = tag
          /\ UNCHANGED <<result, flow, old>>
  /\ UNCHANGED <<hist, bin, bak, proc, state>>

StopPanel ==
  /\ pc = "stop"
  /\ \/ Goto("backup") /\ StopOK
     \/ Return("error") /\ StopFailed
  /\ UNCHANGED <<hist, bin, bak, state>>

(* backupAndReplace.                                                       *)

\* Fault: an error of the copy is only logged.
BackupErrorIgnored ==
  /\ pc = "backup"
  /\ Goto("remove") /\ (CopyOK \/ CopyFailed)
  /\ UNCHANGED <<hist, bin, proc, state>>

BackupBinary ==
  /\ pc = "backup"
  /\ \/ Goto("remove") /\ CopyOK
     \/ Return("error") /\ CopyFailed
  /\ UNCHANGED <<hist, bin, proc, state>>

RemoveBinary ==
  /\ pc = "remove"
  /\ \/ Goto("copy") /\ bin' = "none"
     \/ Return("error") /\ UNCHANGED bin
  /\ UNCHANGED <<hist, bak, proc, state>>

CopyNew ==
  /\ pc = "copy"
  /\ \/ Goto("chmod") /\ bin' = target /\ UNCHANGED cont
     \/ Goto("restore") /\ bin' \in {"none", "torn"} /\ cont' = "copy"
  /\ UNCHANGED <<tries, stopFailed, bak, proc, state>>

\* A failure returns with the new binary in place and the panel stopped.
Chmod ==
  /\ pc = "chmod"
  /\ Goto("start") \/ Return("error")
  /\ UNCHANGED <<hist, bin, bak, proc, state>>

(* handleV4FromGithub, up to the start.                                    *)

\* Fault: a backup that is there already is not made again.
GithubBackupReused ==
  /\ pc = "gbackup"
  /\ \/ Return("error") /\ CopyFailed
     \/ bak = "none" /\ Goto("gstop") /\ CopyOK
     \/ (bin = "none" \/ bak # "none") /\ Goto("gstop") /\ UNCHANGED bak
  /\ UNCHANGED <<hist, bin, proc, state>>

\* packagemanager.Load may fail; without a binary nothing is copied.
GithubBackup ==
  /\ pc = "gbackup"
  /\ \/ Return("error") /\ CopyFailed
     \/ Goto("gstop") /\ CopyOK
     \/ bin = "none" /\ Goto("gstop") /\ UNCHANGED bak
  /\ UNCHANGED <<hist, bin, proc, state>>

GithubStop ==
  /\ pc = "gstop"
  /\ \/ Goto("build") /\ StopOK
     \/ Return("error") /\ StopFailed
  /\ UNCHANGED <<hist, bin, bak, state>>

\* SetupGameAPFromGithubV4: a failed `go build -o` leaves the binary or
\* removes it, and the backup is restored if there is one.
Build ==
  /\ pc = "build"
  /\ \/ \E b \in Builds :
          /\ pc' = "start" /\ target' = b /\ bin' = b
          /\ UNCHANGED <<result, flow, old, cont>>
     \/ /\ Goto(IF bak = "none" THEN "grestart" ELSE "restore")
        /\ bin' \in {bin, "none"} /\ cont' = "build"
  /\ UNCHANGED <<tries, stopFailed, bak, proc, state>>

GithubRestart ==
  /\ pc = "grestart"
  /\ Return("error")
  /\ StartOK \/ StartFailed
  /\ UNCHANGED <<hist, bin, bak, state>>

(* Both flows again: start, health, rollback or clean-up.                  *)

StartPanel ==
  /\ pc = "start"
  /\ \/ Goto("health") /\ StartOK
     \/ Return("error") /\ StartFailed
  /\ UNCHANGED <<hist, bin, bak, state>>

\* Fault: running out of tries is taken for success.
HealthTimeoutAccepted ==
  /\ pc = "health"
  /\ \/ svc \in Sound /\ Goto("cleanup") /\ UNCHANGED tries
     \/ /\ tries' = tries + 1
        /\ Goto(IF tries' = MaxTries THEN "cleanup" ELSE "health")
  /\ UNCHANGED <<cont, stopFailed, bin, bak, proc, state>>

\* One try of checkHealth.  Only a running sound version can answer; any try
\* may fail (a slow start, another address in config.env).
CheckHealth ==
  /\ pc = "health"
  /\ \/ svc \in Sound /\ Goto("cleanup") /\ UNCHANGED tries
     \/ /\ tries' = tries + 1
        /\ Goto(IF tries' = MaxTries THEN "rbstop" ELSE "health")
  /\ UNCHANGED <<cont, stopFailed, bin, bak, proc, state>>

\* Fault: the rollback forgets to stop the panel.
RollbackWithoutStop ==
  /\ pc = "rbstop"
  /\ Goto("restore") /\ cont' = "rollback"
  /\ UNCHANGED <<tries, stopFailed, bin, bak, proc, state>>

\* The error of this stop is only logged.
RollbackStop ==
  /\ pc = "rbstop"
  /\ Goto("restore") /\ cont' = "rollback"
  /\ \/ StopOK /\ UNCHANGED stopFailed
     \/ StopFailed /\ stopFailed' = TRUE
  /\ UNCHANGED <<tries, bin, bak, state>>

\* Fault: the restored panel has to answer too, with the tries given back.
RollbackChecksAgain ==
  /\ pc = "rbstart"
  /\ \/ Goto("health") /\ StartOK /\ tries' = 0
     \/ Return("error") /\ StartFailed /\ UNCHANGED tries
  /\ UNCHANGED <<cont, stopFailed, bin, bak, state>>

RollbackStart ==
  /\ pc = "rbstart"
  /\ \/ Return("rolledback") /\ StartOK
     \/ Return("error") /\ StartFailed
  /\ UNCHANGED <<hist, bin, bak, state>>

\* The backup is removed, or a warning says it was not.
Cleanup ==
  /\ pc = "cleanup"
  /\ bak' \in {"none", bak}
  /\ IF flow = "release" THEN Goto("record") ELSE Return("ok")
  /\ UNCHANGED <<hist, bin, proc, state>>

\* updatePanelStateVersion is best effort.
RecordVersion ==
  /\ pc = "record"
  /\ Return("ok")
  /\ \/ UNCHANGED recorded
     \/ recorded # "absent" /\ recorded' = target
  /\ UNCHANGED <<hist, bin, bak, proc, fromGithub>>

(* restoreBackupV4.  After a failed copy its error is logged and the first *)
(* one returned; after a failed build the panel is started either way.     *)

RestoreFailed ==
  \/ cont = "build" /\ Goto("grestart")
  \/ cont # "build" /\ Return("error")

RestoreRemove ==
  /\ pc = "restore"
  /\ \/ bak # "none" /\ Goto("restoreCopy") /\ bin' = "none"
     \/ RestoreFailed /\ UNCHANGED bin
  /\ UNCHANGED <<hist, bak, proc, state>>

\* The copy, then chmod: its failure comes after the file is complete.
RestoreCopy ==
  /\ pc = "restoreCopy"
  /\ \/ bin' = bak /\ cont = "rollback" /\ Goto("rbstart")
     \/ bin' = bak /\ cont # "rollback" /\ RestoreFailed
     \/ RestoreFailed /\ bin' \in {bak, "none", "torn"}
  /\ UNCHANGED <<hist, bak, proc, state>>

Handler ==
  \/ Download \/ StopPanel \/ BackupBinary \/ RemoveBinary \/ CopyNew \/ Chmod
  \/ GithubBackup \/ GithubStop \/ Build \/ GithubRestart
  \/ StartPanel \/ CheckHealth \/ RollbackStop \/ RollbackStart
  \/ Cleanup \/ RecordVersion \/ RestoreRemove \/ RestoreCopy

\* The process is killed; a file that was being written stays partial.
Crash ==
  /\ pc # "idle"
  /\ pc' = "idle" /\ result' = "crashed"
  /\ \/ UNCHANGED <<bin, bak>>
     \/ pc \in {"backup", "gbackup"} /\ bin # "none" /\ bak' = "torn" /\ UNCHANGED bin
     \/ pc \in {"copy", "restoreCopy"} /\ bin' = "torn" /\ UNCHANGED bak
     \/ pc = "build" /\ bin' = "none" /\ UNCHANGED bak
  /\ UNCHANGED <<run, hist, proc, state>>

\* The panel dies; Restart=always starts the binary that is installed then.
Die ==
  /\ svc # "down" /\ svc' = "down"
  /\ UNCHANGED <<pc, result, run, hist, bin, bak, unit, init, state>>

Respawn ==
  /\ unit = "on" /\ svc = "down" /\ bin \in Versions /\ svc' = bin
  /\ UNCHANGED <<pc, result, run, hist, bin, bak, unit, init, state>>

Next == Handle \/ Handler \/ Crash \/ Die \/ Respawn

Spec == Init /\ [][Next]_vars

-----------------------------------------------------------------------------
(* Properties.                                                             *)

\* The new version is installed, nothing else runs, and it is one that answers.
Proven == bin = target /\ svc \in {target, "down"} /\ target \in Sound

\* Through any failure, failed rollback or crash of an upgrade the binary it
\* found is installed or in the backup, until the new one has answered.
PreviousBinaryKept ==
  result # "none" /\ old \in Versions => old \in {bin, bak} \/ Proven

\* "update failed, rolled back to previous version": the binary the upgrade
\* found is back and, unless the panel could not be stopped, nothing else runs.
RolledBackIsPrevious ==
  result = "rolledback" /\ old \in Versions
    => bin = old /\ (stopFailed \/ svc \in {old, "down"})

\* "GameAP has been successfully updated": the new version is installed,
\* nothing else runs, and it is one that answers a health check.
UpdatedIsHealthy ==
  result = "ok" => Proven

\* A tag enters the install state only while that very release is installed,
\* no other runs, and it is one that answers.
RecordsOnlyHealthy ==
  [][recorded' # recorded /\ recorded' \in Versions
       => recorded' = bin /\ svc \in {bin, "down"} /\ bin \in Sound]_vars

\* How far a run is from its end: every step of the handler but a failed
\* health check moves down this list.
Rank(l) ==
  CASE l = "download" -> 12
    [] l = "stop" -> 11
    [] l = "backup" -> 10
    [] l \in {"remove", "gbackup"} -> 9
    [] l \in {"copy", "gstop"} -> 8
    [] l \in {"chmod", "build"} -> 7
    [] l = "start" -> 6
    [] l = "health" -> 5
    [] l = "rbstop" -> 4
    [] l = "restore" -> 3
    [] l \in {"restoreCopy", "cleanup"} -> 2
    [] l \in {"rbstart", "grestart", "record"} -> 1
    [] l = "idle" -> 0

StepsLeft == Rank(pc) + (MaxTries - tries)

\* An upgrade cannot hang in its own logic: each of its steps, through the
\* health checks and through restoreBackupV4 with its three callers, brings it
\* closer to its end, and nothing else that happens sets it back.  So it takes
\* at most 12 + MaxTries steps.
RunsAreBounded ==
  [][pc # "idle" => /\ StepsLeft' \in 0..StepsLeft
                    /\ Handler => StepsLeft' < StepsLeft]_vars

\* Seen from the two files an upgrade is over once the new version answered,
\* or when it returns or is killed.
Phase == IF pc \in {"idle", "cleanup", "record"} THEN "idle" ELSE "busy"

R == INSTANCE Replacement
       WITH Contents <- Files, Good <- Sound,
            phase <- Phase, found <- old, inst <- bin, copy <- bak

\* Seen from the two files, an upgrade is a replacement with a way back: no
\* step touches the binary before the copy of it is whole, none touches the
\* copy after that, and it is removed only for a version that answered.
ReplacesWithWayBack == R!Spec

\* The inductive strengthening: what each step may rely on.
Untouched == {"download", "stop", "backup", "remove", "gbackup", "gstop", "build"}
BackedUp == {"remove", "copy", "chmod", "start", "health", "rbstop", "restore",
             "restoreCopy", "rbstart", "cleanup", "gstop", "build", "grestart"}
Replaced == {"chmod", "start", "health", "rbstop", "cleanup", "record"}
Stopped == {"backup", "remove", "copy", "chmod", "start", "build"}

IInv ==
  /\ TypeOK
  /\ pc # "idle" => result = "running"
  /\ pc \in Untouched => bin = old
  /\ pc \in BackedUp /\ old \in Versions => bak = old
  /\ pc \in {"stop", "backup", "remove", "copy"} => target \in Versions
  /\ pc \in Replaced => bin = target /\ target \in Versions
  /\ pc \in Stopped => unit = "off" /\ (init = "nounit" \/ svc = "down")
  /\ pc \in {"health", "rbstop"} => init # "nounit" /\ svc \in {target, "down"}
  /\ pc \in Untouched \cup {"copy", "chmod", "start", "health"} => tries # MaxTries
  /\ pc \in {"cleanup", "record"} => Proven
  /\ pc \in {"restore", "restoreCopy"} /\ cont = "rollback"
       => stopFailed \/ (svc = "down" /\ unit = "off")
  /\ pc = "rbstart" => bin = bak /\ (stopFailed \/ (svc = "down" /\ unit = "off"))
  /\ PreviousBinaryKept
  /\ RolledBackIsPrevious
  /\ UpdatedIsHealthy

=============================================================================
