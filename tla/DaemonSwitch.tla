---------------------------- MODULE DaemonSwitch ----------------------------
(***************************************************************************)
(* `gameapctl daemon upgrade --switch-to-grpc`: the migration of a         *)
(* registered daemon from the legacy HTTP protocol to gRPC                 *)
(* (internal/actions/daemon/update/switch_to_grpc.go), with the config     *)
(* file it rewrites (internal/pkg/daemon/config.go), the service it stops  *)
(* and starts (stopDaemon, startDaemon) and the panel it polls.            *)
(*                                                                         *)
(* The handler is sequential; it runs against a daemon that may die, a     *)
(* systemd that respawns it (Restart=always) with whatever config is on    *)
(* disk, and a panel that revokes the legacy credentials when the gRPC     *)
(* daemon registers.  Every external call may fail, the handler may be     *)
(* killed between any two steps, and it may be run again.                  *)
(***************************************************************************)
EXTENDS Naturals

CONSTANTS
  MaxAttempts,    \* verificationPollMaxAttempts (10 in the code)
  HasAPIHost      \* does the legacy config carry $.api_host?

ASSUME MaxAttemptsAssumption == MaxAttempts \in Nat \ {0}
ASSUME HasAPIHostAssumption == HasAPIHost \in BOOLEAN

VARIABLES
  pc,         \* where the handler is; "idle" when none runs
  result,     \* what the last run told the operator
  attempts,   \* verification polls made by this run
  fault,      \* history: an external step failed or was late in this run
  cfg,        \* the config file at cfgPath
  bak,        \* the backup this run restores from
  baks,       \* what the .bak.<ts> files hold; nothing ever deletes them
  daemon,     \* "down", or the protocol of the config it was started with
  unit,       \* systemd wants the service running
  init,       \* the init system that was detected
  revoked,    \* the panel rejects the legacy token endpoint with 409
  recorded    \* DaemonInstallState.GRPCEnabled

ctl   == <<pc, result, attempts, fault>>
files == <<cfg, bak, baks>>
proc  == <<daemon, unit, init>>
vars  == <<ctl, files, proc, revoked, recorded>>

Contents == {"legacy", "grpc", "torn"}   \* "torn": truncated, not yet written

Labels == {"idle", "load", "preflight", "backup", "mutate", "save", "saving",
           "stop", "start", "grace", "verify", "persist",
           "rbstop", "rbrestore", "rbrestoring", "rbstart"}

Results == {"none", "running", "already", "error", "switched", "rolledback",
            "critical", "crashed"}

TypeOK ==
  /\ pc \in Labels
  /\ result \in Results
  /\ attempts \in 0..MaxAttempts
  /\ fault \in BOOLEAN
  /\ cfg \in Contents
  /\ bak \in Contents \cup {"none"}
  /\ baks \in SUBSET Contents
  /\ daemon \in {"down", "legacy", "grpc"}
  /\ unit \in BOOLEAN
  /\ init \in {"systemd", "fork"}
  /\ revoked \in BOOLEAN
  /\ recorded \in BOOLEAN

\* A registered daemon in legacy mode, running or not.
Init ==
  /\ pc = "idle" /\ result = "none" /\ attempts = 0 /\ fault = FALSE
  /\ cfg = "legacy" /\ bak = "none" /\ baks = {}
  /\ init \in {"systemd", "fork"}
  /\ daemon \in {"down", "legacy"}
  /\ unit = (init = "systemd" /\ daemon = "legacy")
  /\ revoked = FALSE
  /\ recorded = FALSE

-----------------------------------------------------------------------------
(* Control: a step goes on, returns, or enters the rollback closure.       *)

Goto(l) == pc' = l /\ UNCHANGED <<result, attempts, fault>>

Return(res) ==
  /\ pc' = "idle" /\ result' = res
  /\ UNCHANGED <<attempts, fault>>

Fail(res) ==
  /\ pc' = "idle" /\ result' = res /\ fault' = TRUE
  /\ UNCHANGED attempts

RollBack ==
  /\ pc' = "rbstop" /\ fault' = TRUE
  /\ UNCHANGED <<result, attempts>>

(* The service: the outcomes of stopDaemon and startDaemon.                *)

StopOK == daemon' = "down" /\ unit' = FALSE /\ UNCHANGED init

StopFailed ==
  /\ daemon' \in {daemon, "down"}
  /\ unit' \in {unit, FALSE}
  /\ UNCHANGED init

\* Starting an active unit is a no-op: the process keeps the config it has.
\* A forked start refuses to run beside a live process.
StartOK ==
  /\ init = "fork" => daemon = "down"
  /\ daemon = "down" => cfg # "torn"
  /\ daemon' = IF daemon = "down" THEN cfg ELSE daemon
  /\ unit' = (init = "systemd")
  /\ UNCHANGED init

\* The start is refused, or it goes through and the process is not seen.
StartFailed ==
  /\ UNCHANGED init
  /\ \/ UNCHANGED <<daemon, unit>>
     \/ /\ daemon' \in {daemon} \cup (IF daemon = "down" THEN {cfg} \ {"torn"} ELSE {})
        /\ unit' = (init = "systemd")

-----------------------------------------------------------------------------
(* The handler.                                                            *)

HandleSwitchToGRPC ==
  /\ pc = "idle"
  /\ pc' = "load" /\ result' = "running" /\ attempts' = 0 /\ fault' = FALSE
  /\ bak' = "none"
  /\ UNCHANGED <<cfg, baks, proc, revoked, recorded>>

\* LoadConfig, the idempotence check, the address and the registration
\* fields.  A truncated file does not parse or lacks every field.
LoadConfig ==
  /\ pc = "load"
  /\ \/ cfg = "grpc" /\ Return("already")
     \/ cfg = "torn" /\ Fail("error")
     \/ cfg = "legacy" /\ Fail("error")
     \/ \E explicit \in BOOLEAN :
          /\ cfg = "legacy"
          /\ IF HasAPIHost \/ explicit THEN Goto("preflight") ELSE Return("error")
  /\ UNCHANGED <<files, proc, revoked, recorded>>

\* tcpDial, tlsProbe and lookPath; nothing has been touched yet.
Preflight ==
  /\ pc = "preflight"
  /\ Goto("backup") \/ Fail("error")
  /\ UNCHANGED <<files, proc, revoked, recorded>>

\* Fault: the backup is opened but its content is not copied.
BackupWithoutCopy ==
  /\ pc = "backup"
  /\ Goto("mutate") /\ bak' = cfg
  /\ UNCHANGED <<cfg, baks, proc, revoked, recorded>>

\* The copy is made under a fresh name (O_EXCL); a failed copy is removed.
Backup ==
  /\ pc = "backup"
  /\ \/ Goto("mutate") /\ bak' = cfg /\ baks' = baks \cup {cfg}
     \/ Fail("error") /\ UNCHANGED <<bak, baks>>
  /\ UNCHANGED <<cfg, proc, revoked, recorded>>

\* EnsureGRPCEnabled and DeleteKey edit the parsed file in memory.
Mutate ==
  /\ pc = "mutate"
  /\ Goto("save") \/ RollBack
  /\ UNCHANGED <<files, proc, revoked, recorded>>

\* os.WriteFile opens with O_TRUNC and then writes.
SaveTruncate ==
  /\ pc = "save"
  /\ \/ Goto("saving") /\ cfg' = "torn"
     \/ RollBack /\ UNCHANGED cfg
  /\ UNCHANGED <<bak, baks, proc, revoked, recorded>>

SaveWrite ==
  /\ pc = "saving"
  /\ \/ Goto("stop") /\ cfg' = "grpc"
     \/ RollBack /\ UNCHANGED cfg
  /\ UNCHANGED <<bak, baks, proc, revoked, recorded>>

Stop ==
  /\ pc = "stop"
  /\ \/ Goto("start") /\ StopOK
     \/ RollBack /\ StopFailed
  /\ UNCHANGED <<files, revoked, recorded>>

Start ==
  /\ pc = "start"
  /\ \/ Goto("grace") /\ StartOK
     \/ RollBack /\ StartFailed
  /\ UNCHANGED <<files, revoked, recorded>>

\* Fault: the panel is not asked at all.
GraceCheckSkipsVerification ==
  /\ pc = "grace"
  /\ daemon # "down" /\ Goto("persist")
  /\ UNCHANGED <<files, proc, revoked, recorded>>

\* After postStartGracePeriod the process must still be there.
GraceCheck ==
  /\ pc = "grace"
  /\ \/ daemon # "down" /\ Goto("verify")
     \/ RollBack
  /\ UNCHANGED <<files, proc, revoked, recorded>>

\* Fault: an attempt that gets no answer is not counted.
VerifyUncounted ==
  /\ pc = "verify" /\ attempts < MaxAttempts
  /\ \/ revoked /\ pc' = "persist" /\ attempts' = attempts + 1 /\ UNCHANGED fault
     \/ pc' = pc /\ fault' = TRUE /\ UNCHANGED attempts
  /\ UNCHANGED <<result, files, proc, revoked, recorded>>

\* One attempt of the polling loop.  Without an api_host the endpoint has no
\* host and the request fails whatever the panel would answer.
VerifyLegacyRevoked ==
  /\ pc = "verify" /\ attempts < MaxAttempts
  /\ attempts' = attempts + 1
  /\ \/ HasAPIHost /\ revoked /\ pc' = "persist" /\ UNCHANGED fault
     \/ HasAPIHost /\ pc' = pc /\ fault' = TRUE
     \/ ~HasAPIHost /\ pc' = pc /\ fault' = (fault \/ ~revoked)
  /\ UNCHANGED <<result, files, proc, revoked, recorded>>

\* Fault: running out of attempts is taken for success.
TimeoutTakenForSuccess ==
  /\ pc = "verify" /\ attempts = MaxAttempts
  /\ pc' = "persist"
  /\ UNCHANGED <<result, attempts, fault, files, proc, revoked, recorded>>

VerificationTimeout ==
  /\ pc = "verify" /\ attempts = MaxAttempts
  /\ pc' = "rbstop"
  /\ UNCHANGED <<result, attempts, fault, files, proc, revoked, recorded>>

\* Recording GRPCEnabled is best effort.
PersistState ==
  /\ pc = "persist"
  /\ Return("switched")
  /\ recorded' \in {recorded, TRUE}
  /\ UNCHANGED <<files, proc, revoked>>

\* The rollback closure: the error of the stop is dropped.
RollbackStop ==
  /\ pc = "rbstop"
  /\ Goto("rbrestore")
  /\ StopOK \/ StopFailed
  /\ UNCHANGED <<files, revoked, recorded>>

RestoreTruncate ==
  /\ pc = "rbrestore"
  /\ \/ Goto("rbrestoring") /\ cfg' = "torn"
     \/ Fail("critical") /\ UNCHANGED cfg
  /\ UNCHANGED <<bak, baks, proc, revoked, recorded>>

\* Fault: an error of the restore is dropped like that of the stop.
RestoreErrorDropped ==
  /\ pc = "rbrestoring"
  /\ Goto("rbstart") /\ cfg' \in {bak, cfg}
  /\ UNCHANGED <<bak, baks, proc, revoked, recorded>>

RestoreWrite ==
  /\ pc = "rbrestoring"
  /\ \/ Goto("rbstart") /\ cfg' = bak
     \/ Fail("critical") /\ UNCHANGED cfg
  /\ UNCHANGED <<bak, baks, proc, revoked, recorded>>

RollbackStart ==
  /\ pc = "rbstart"
  /\ \/ Return("rolledback") /\ StartOK
     \/ Fail("critical") /\ StartFailed
  /\ UNCHANGED <<files, revoked, recorded>>

Handler ==
  \/ LoadConfig \/ Preflight \/ Backup \/ Mutate \/ SaveTruncate \/ SaveWrite
  \/ Stop \/ Start \/ GraceCheck \/ VerifyLegacyRevoked \/ VerificationTimeout
  \/ PersistState
  \/ RollbackStop \/ RestoreTruncate \/ RestoreWrite \/ RollbackStart

-----------------------------------------------------------------------------
(* The environment.                                                        *)

\* gameapctl is killed: nothing is undone.
Crash ==
  /\ pc # "idle"
  /\ pc' = "idle" /\ result' = "crashed"
  /\ UNCHANGED <<attempts, fault, files, proc, revoked, recorded>>

\* The panel accepts the gRPC daemon and closes the legacy API for the node.
Register ==
  /\ daemon = "grpc" /\ ~revoked
  /\ revoked' = TRUE
  /\ UNCHANGED <<ctl, files, proc, recorded>>

Die ==
  /\ daemon # "down"
  /\ daemon' = "down" /\ fault' = TRUE
  /\ UNCHANGED <<pc, result, attempts, files, unit, init, revoked, recorded>>

\* Restart=always: systemd starts the process again with the file on disk.
Respawn ==
  /\ unit /\ daemon = "down" /\ cfg # "torn"
  /\ daemon' = cfg
  /\ UNCHANGED <<ctl, files, unit, init, revoked, recorded>>

Next == HandleSwitchToGRPC \/ Handler \/ Crash \/ Register \/ Die \/ Respawn

Spec == Init /\ [][Next]_vars

-----------------------------------------------------------------------------
(* Properties.                                                             *)

\* The registration data survives: whenever the config file is not the legacy
\* one (rewritten, truncated by Save or Restore, left so by a crash), some
\* .bak file holds it.
LegacyConfigRecoverable == cfg # "legacy" => "legacy" \in baks

\* "Daemon successfully switched to gRPC mode" is only said when the panel
\* has closed the legacy API, the gRPC config is on disk, and no process
\* started with the legacy config is left running.
SwitchedIsComplete ==
  result = "switched" => revoked /\ cfg = "grpc" /\ daemon # "legacy"

\* "daemon rolled back to legacy mode" is only said when the file on disk is
\* the legacy config again, through every failing order of the rollback.
RolledBackRestoresConfig == result = "rolledback" => cfg = "legacy"

\* DaemonInstallState.GRPCEnabled, whatever runs, crashes and rollbacks come
\* before and after, is only TRUE of a daemon configured for gRPC on a panel
\* that dropped its legacy credentials.
RecordedModeIsTrue == recorded => cfg = "grpc" /\ revoked

\* How far a run is from its end: every step of the handler but a poll moves
\* down this list.
Rank(l) ==
  CASE l = "load"      -> 14
    [] l = "preflight" -> 13
    [] l = "backup"    -> 12
    [] l = "mutate"    -> 11
    [] l = "save"      -> 10
    [] l = "saving"    -> 9
    [] l = "stop"      -> 8
    [] l = "start"     -> 7
    [] l = "grace"     -> 6
    [] l = "verify"    -> 5
    [] l = "rbstop"    -> 4
    [] l = "rbrestore" -> 3
    [] l = "rbrestoring" -> 2
    [] l \in {"rbstart", "persist"} -> 1
    [] l = "idle"      -> 0

StepsLeft == Rank(pc) + (MaxAttempts - attempts)

\* A run cannot hang in its own logic: each of the handler's steps, on the way
\* forward, in the polling loop and in the rollback, brings it closer to its
\* end, and neither the daemon, systemd, the panel nor a kill sets it back.
\* So a run takes at most 14 + MaxAttempts steps.
RunsAreBounded ==
  [][pc # "idle" => /\ StepsLeft' \in 0..StepsLeft
                    /\ Handler => StepsLeft' < StepsLeft]_vars

\* The inductive strengthening of the four invariants above: where the
\* handler is tells what is on disk, what runs and what the panel has done.
IInv ==
  /\ TypeOK
  /\ LegacyConfigRecoverable
  /\ pc # "idle" => result = "running"
  /\ pc \in {"preflight", "backup"} => cfg = "legacy"
  /\ pc \notin {"idle", "load", "preflight", "backup"}
       => bak = "legacy" /\ "legacy" \in baks
  /\ pc \in {"stop", "start", "grace", "verify", "persist"} => cfg = "grpc"
  /\ pc = "rbstart" => cfg = "legacy"
  /\ pc = "start" => daemon = "down" /\ ~unit
  /\ pc \in {"grace", "verify", "persist"} => daemon # "legacy"
  /\ pc = "persist" => revoked
  /\ SwitchedIsComplete
  /\ RolledBackRestoresConfig
  /\ RecordedModeIsTrue
  /\ recorded => pc \in {"idle", "load"}

\* A rollback has an external cause: a failed call, a process that died or a
\* panel that had not revoked the credentials when it was polled.
RollbackHasACause == result = "rolledback" => fault

=============================================================================
