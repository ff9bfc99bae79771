--------------------------- MODULE PanelMigration ---------------------------
(***************************************************************************)
(* `gameapctl panel upgrade` of a v3 panel: the migration to v4            *)
(* (internal/actions/panel/update/panel_update_v3_to_v4.go).  The PHP tree *)
(* of v3 is copied to a temporary directory, v4 is installed beside it and *)
(* started, the web server is turned into a proxy for v4, and once v4      *)
(* answers the tree is moved to /var/backups.  A failure on the way        *)
(* replaces the tree by its copy and puts the web server config back.      *)
(*                                                                         *)
(* A directory holds the whole tree ("v3"), part of it ("torn") or nothing *)
(* ("none").  Any call may fail and the process may be killed; a directory *)
(* moved across file systems is copied and then removed.                   *)
(***************************************************************************)
EXTENDS Naturals

CONSTANT MaxTries       \* healthCheckRetries (5 in the code)

ASSUME MaxTriesAssumption == MaxTries \in Nat \ {0}

VARIABLES
  pc, result,    \* where the handler is; what the last run returned
  verdict,       \* what the run returns once the rollback is over
  tries,         \* failed health checks of this run
  rbErr,         \* history: the rollback of this run reported an error
  found,         \* history: the tree this run found
  left,          \* history: an earlier run left v4 running, or wanted by systemd
  tree,          \* the tree at v3Path
  tmp,           \* its copy in this run's temporary directory
  kept,          \* what temporary directories of earlier runs hold
  final,         \* what /var/backups/gameap-v3-* hold
  web, live,     \* the web server's config file, and the one it has loaded
  webBak,        \* the file <config>.v3.backup
  webBacked,     \* webServerBackup # "": this run made that file
  v4,            \* the v4 installation: "none", or whether it can answer
  svc, unit,     \* the v4 process: "down", or the installation it was started
                 \* from, "old" for one replaced since; systemd wants it: "on"
  recorded       \* the major version in PanelInstallState

dirs  == <<tree, tmp, kept, final>>
site  == <<web, live, webBak, webBacked>>
panel == <<v4, svc, unit>>
run   == <<verdict, tries, rbErr, found, left>>
vars  == <<pc, result, run, dirs, site, panel, recorded>>

Labels == {"idle", "load", "backup", "webBackup", "config", "install", "storage",
           "start", "webUpdate", "webRestart", "health", "move", "save",
           "clean", "rbStop", "rbRemove", "rbMove", "rbWeb", "rbRestart"}

Trees == {"v3", "torn", "none"}

FlagsOK == rbErr \in BOOLEAN /\ webBacked \in BOOLEAN /\ left \in BOOLEAN

TypeOK ==
  /\ FlagsOK
  /\ pc \in Labels
  /\ result \in {"none", "running", "ok", "error", "rolledback", "crashed"}
  /\ verdict \in {"error", "rolledback"}
  /\ tries \in 0..MaxTries
  /\ found \in Trees /\ tree \in Trees /\ tmp \in Trees
  /\ kept \in SUBSET Trees /\ final \in SUBSET Trees
  /\ web \in {"absent", "v3", "v4", "torn"}
  /\ live \in {"absent", "v3", "v4", "down"}
  /\ webBak \in {"none", "v3", "v4", "torn"}
  /\ v4 \in {"none", "sound", "broken"}
  /\ svc \in {"down", "sound", "broken", "old"} /\ unit \in {"on", "off"}
  /\ recorded \in {"v3", "v4"}

\* An installed v3 panel; the install state names a web server or none.
Init ==
  /\ pc = "idle" /\ result = "none" /\ verdict = "error"
  /\ tries = 0 /\ rbErr = FALSE /\ found = "none" /\ left = FALSE
  /\ tree = "v3" /\ tmp = "none" /\ kept = {} /\ final = {}
  /\ web \in {"absent", "v3"} /\ live = web
  /\ webBak = "none" /\ webBacked = FALSE
  /\ v4 = "none" /\ svc = "down" /\ unit = "off" /\ recorded = "v3"

-----------------------------------------------------------------------------
(* What the steps are made of.                                             *)

HasWeb == web # "absent"

Goto(l) == pc' = l /\ UNCHANGED <<result, run>>

\* A run that ends early leaves its temporary directory behind.
Return(res) == pc' = "idle" /\ result' = res /\ UNCHANGED run

RollBack(l, res) == pc' = l /\ verdict' = res /\ UNCHANGED <<result, tries, rbErr, found, left>>

\* utils.Move(src, dst) between two trees, as <<src', dst'>>.
Moved(src) == {<<"none", src>>}

\* It fails before anything was copied, in the middle of the copy, or when
\* the source could not be removed after it.
HalfMoved(src, dst) ==
  {<<src, dst>>, <<src, "torn">>, <<src, src>>, <<"torn", src>>}

\* A web server loads its file when it restarts; a broken file stops it.
RestartOK == live' = IF web = "torn" THEN "down" ELSE web
RestartFailed == live' \in {live, "down"}

\* A request to the health endpoint may succeed: it goes to the address every
\* migration configures, and whatever v4 process runs there answers.
Answers == svc \in {"sound", "old"}

\* The process, if any, once another installation is put in place of its own.
Outdated == IF svc = "sound" THEN "old" ELSE svc

\* The process once the service is started: nothing happens to one that runs,
\* and a new one may be gone at once.
Started == IF svc = "down" THEN {v4, "down"} ELSE {svc}

-----------------------------------------------------------------------------
(* handleV3toV4.                                                           *)

\* detectMajorVersion believes the install state.
Handle ==
  /\ pc = "idle" /\ recorded = "v3"
  /\ pc' = "load" /\ result' = "running" /\ verdict' = "error"
  /\ tries' = 0 /\ rbErr' = FALSE /\ found' = tree
  /\ left' = (svc # "down" \/ unit = "on")
  /\ kept' = (kept \cup {tmp}) \ {"none"} /\ tmp' = "none" /\ webBacked' = FALSE
  /\ UNCHANGED <<tree, final, web, live, webBak, panel, recorded>>

\* The install state, the .env file (a torn tree may lack it) and its parse.
Load ==
  /\ pc = "load"
  /\ \/ Return("error")
     \/ tree # "none" /\ Goto("backup")
  /\ UNCHANGED <<dirs, site, panel, recorded>>

\* Fault: an error of the copy is only logged.
BackupErrorIgnored ==
  /\ pc = "backup"
  /\ Goto("webBackup") /\ tmp' \in {tree, "torn"}
  /\ UNCHANGED <<tree, kept, final, site, panel, recorded>>

Backup ==
  /\ pc = "backup"
  /\ \/ Goto("webBackup") /\ tmp' = tree
     \/ Return("error") /\ tmp' \in {"none", "torn"}
  /\ UNCHANGED <<tree, kept, final, site, panel, recorded>>

\* An error is a warning: webServerBackup stays empty.
BackupWebServerConfig ==
  /\ pc = "webBackup"
  /\ Goto("config")
  /\ \/ UNCHANGED <<webBak, webBacked>>
     \/ HasWeb /\ webBak' = web /\ webBacked' = TRUE
     \/ HasWeb /\ webBak' = "torn" /\ UNCHANGED webBacked
  /\ UNCHANGED <<dirs, web, live, panel, recorded>>

\* buildInstallConfig and handleSQLiteMigration: v3 is still untouched and an
\* error returns at once.
BuildInstallConfig ==
  /\ pc = "config"
  /\ Goto("install") \/ Return("error")
  /\ UNCHANGED <<dirs, site, panel, recorded>>

\* panel.Install writes the config and moves the binary into place; a v4 that
\* an earlier run left behind is not stopped for it.
InstallV4 ==
  /\ pc = "install"
  /\ \/ Goto("storage") /\ v4' \in {"sound", "broken"} /\ svc' = Outdated
     \/ RollBack("rbRemove", "error") /\ UNCHANGED <<v4, svc>>
     \/ RollBack("rbRemove", "error") /\ v4' = "broken" /\ svc' = Outdated
  /\ UNCHANGED <<dirs, site, unit, recorded>>

\* storage/app is copied; an error is a warning.
MigrateStorage ==
  /\ pc = "storage"
  /\ Goto("start")
  /\ UNCHANGED <<dirs, site, panel, recorded>>

\* panel.Start: systemd leaves an active unit as it is.
StartV4 ==
  /\ pc = "start"
  /\ \/ Goto(IF HasWeb THEN "webUpdate" ELSE "health") /\ svc' \in Started
     \/ RollBack("rbRemove", "error") /\ svc' \in {svc} \cup Started
  /\ unit' \in {"on", unit}
  /\ UNCHANGED <<dirs, site, v4, recorded>>

UpdateWebServerConfigForV4 ==
  /\ pc = "webUpdate"
  /\ \/ Goto("webRestart") /\ web' = "v4"
     \/ RollBack("rbStop", "error") /\ web' \in {web, "torn"}
  /\ UNCHANGED <<dirs, live, webBak, webBacked, panel, recorded>>

\* An error is a warning.
RestartWebServer ==
  /\ pc = "webRestart"
  /\ Goto("health")
  /\ RestartOK \/ RestartFailed
  /\ UNCHANGED <<dirs, web, webBak, webBacked, panel, recorded>>

\* Fault: running out of tries is taken for success.
HealthTimeoutAccepted ==
  /\ pc = "health"
  /\ \/ Answers /\ Goto("move")
     \/ tries < MaxTries /\ tries' = tries + 1 /\ UNCHANGED <<pc, result, verdict, rbErr, found, left>>
     \/ tries = MaxTries /\ Goto("move")
  /\ UNCHANGED <<dirs, site, panel, recorded>>

\* One try of checkHealthV4, or the end of them.
CheckHealthV4 ==
  /\ pc = "health"
  /\ \/ Answers /\ tries < MaxTries /\ Goto("move")
     \/ tries < MaxTries /\ tries' = tries + 1 /\ UNCHANGED <<pc, result, verdict, rbErr, found, left>>
     \/ tries = MaxTries /\ RollBack("rbStop", "rolledback")
  /\ UNCHANGED <<dirs, site, panel, recorded>>

\* The v3 tree goes to /var/backups; every error is a warning.
MoveV3 ==
  /\ pc = "move"
  /\ Goto("save")
  /\ \/ UNCHANGED <<tree, final>>
     \/ \E m \in Moved(tree) \cup HalfMoved(tree, "none") :
          tree' = m[1] /\ final' = final \cup {m[2]}
  /\ UNCHANGED <<tmp, kept, site, panel, recorded>>

\* saveV3toV4State; an error is a warning.
SaveState ==
  /\ pc = "save"
  /\ Goto("clean") /\ recorded' \in {recorded, "v4"}
  /\ UNCHANGED <<dirs, site, panel>>

RemoveTempBackup ==
  /\ pc = "clean"
  /\ Return("ok") /\ tmp' \in {"none", "torn", tmp}
  /\ UNCHANGED <<tree, kept, final, site, panel, recorded>>

(* rollbackV3toV4, after panel.Stop where v4 was started.                  *)

RollbackStop ==
  /\ pc = "rbStop"
  /\ Goto("rbRemove") /\ svc' \in {svc, "down"} /\ unit' \in {unit, "off"}
  /\ UNCHANGED <<dirs, site, v4, recorded>>

\* os.RemoveAll(v3Path): an error is a warning.
RollbackRemove ==
  /\ pc = "rbRemove"
  /\ Goto("rbMove") /\ tree' \in {"none", "torn", tree}
  /\ UNCHANGED <<tmp, kept, final, site, panel, recorded>>

\* Fault: an error of the move is dropped.
RollbackMoveErrorDropped ==
  /\ pc = "rbMove"
  /\ Goto("rbWeb")
  /\ \E m \in Moved(tmp) \cup HalfMoved(tmp, tree) : tmp' = m[1] /\ tree' = m[2]
  /\ UNCHANGED <<kept, final, site, panel, recorded>>

\* Fault: a move that failed is tried again until it works.
RollbackMoveRetried ==
  /\ pc = "rbMove"
  /\ \/ /\ Return(verdict)
        /\ \E m \in Moved(tmp) : tmp' = m[1] /\ tree' = m[2]
     \/ /\ Goto(pc)
        /\ \E m \in HalfMoved(tmp, tree) : tmp' = m[1] /\ tree' = m[2]
  /\ UNCHANGED <<kept, final, site, panel, recorded>>

\* An error is printed, and the run returns its verdict all the same.
RollbackMove ==
  /\ pc = "rbMove"
  /\ \/ /\ \/ webBacked /\ HasWeb /\ Goto("rbWeb")
           \/ ~(webBacked /\ HasWeb) /\ Return(verdict)
        /\ \E m \in Moved(tmp) : tmp' = m[1] /\ tree' = m[2]
     \/ /\ pc' = "idle" /\ result' = verdict /\ rbErr' = TRUE
        /\ UNCHANGED <<verdict, tries, found, left>>
        /\ \E m \in HalfMoved(tmp, tree) : tmp' = m[1] /\ tree' = m[2]
  /\ UNCHANGED <<kept, final, site, panel, recorded>>

\* restoreWebServerFromBackup: errors are logged.
RollbackWeb ==
  /\ pc = "rbWeb"
  /\ \/ Goto("rbRestart") /\ web' = webBak
     \/ Return(verdict) /\ web' \in {web, "torn"}
  /\ UNCHANGED <<dirs, live, webBak, webBacked, panel, recorded>>

RollbackRestart ==
  /\ pc = "rbRestart"
  /\ Return(verdict)
  /\ RestartOK \/ RestartFailed
  /\ UNCHANGED <<dirs, web, webBak, webBacked, panel, recorded>>

Handler ==
  \/ Load \/ Backup \/ BackupWebServerConfig \/ BuildInstallConfig \/ InstallV4
  \/ MigrateStorage \/ StartV4 \/ UpdateWebServerConfigForV4
  \/ RestartWebServer \/ CheckHealthV4 \/ MoveV3 \/ SaveState
  \/ RemoveTempBackup
  \/ RollbackStop \/ RollbackRemove \/ RollbackMove \/ RollbackWeb
  \/ RollbackRestart

\* The process is killed; what it was writing or moving stays half done.
Crash ==
  /\ pc # "idle"
  /\ pc' = "idle" /\ result' = "crashed"
  /\ \/ UNCHANGED <<tree, tmp, final, web>>
     \/ pc = "backup" /\ tmp' = "torn" /\ UNCHANGED <<tree, final, web>>
     \/ pc \in {"webUpdate", "rbWeb"} /\ web' = "torn" /\ UNCHANGED <<tree, tmp, final>>
     \/ pc = "rbRemove" /\ tree' = "torn" /\ UNCHANGED <<tmp, final, web>>
     \/ /\ pc = "rbMove"
        /\ \E m \in HalfMoved(tmp, tree) : tmp' = m[1] /\ tree' = m[2]
        /\ UNCHANGED <<final, web>>
     \/ /\ pc = "move"
        /\ \E m \in HalfMoved(tree, "none") : tree' = m[1] /\ final' = final \cup {m[2]}
        /\ UNCHANGED <<tmp, web>>
  /\ UNCHANGED <<run, kept, live, webBak, webBacked, panel, recorded>>

\* The v4 panel dies; Restart=always starts what is installed by then.
Die ==
  /\ svc # "down" /\ svc' = "down"
  /\ UNCHANGED <<pc, result, run, dirs, site, v4, unit, recorded>>

Respawn ==
  /\ unit = "on" /\ svc = "down" /\ v4 # "none" /\ svc' = v4
  /\ UNCHANGED <<pc, result, run, dirs, site, v4, unit, recorded>>

Next == Handle \/ Handler \/ Crash \/ Die \/ Respawn

Spec == Init /\ [][Next]_vars

-----------------------------------------------------------------------------
(* Properties.                                                             *)

\* Whatever fails, and wherever migrations are killed and run again, the
\* whole v3 installation exists in some directory.
V3TreeKept == "v3" \in {tree, tmp} \cup kept \cup final

\* A failed migration that found the whole v3 tree and whose rollback reported
\* no error leaves the whole tree at its path.
FailureLeavesV3 ==
  result \in {"error", "rolledback"} /\ found = "v3" /\ ~rbErr => tree = "v3"

\* "Migration completed successfully!": the v4 that was installed is one that
\* answers, and the web server's config passes requests on to it.  The exception
\* is a run that found the v4 of an earlier one running, or about to be started
\* again: neither panel.Install nor panel.Start ends that process, and its
\* answer is taken for that of the new installation, which may never answer.
MigratedIsServed ==
  result = "ok" => (v4 = "sound" \/ left) /\ web \in {"absent", "v4"}

\* The install state turns to v4 only when v4 is one that answers, with the same
\* exception, and while the v3 tree is still there to go back to.
RecordsOnlyHealthy ==
  [][recorded' # recorded => (v4 = "sound" \/ left) /\ V3TreeKept]_vars

\* How far a run is from its end: every step of the handler but a failed
\* health check moves down this list.
Rank(l) ==
  CASE l = "load" -> 15
    [] l = "backup" -> 14
    [] l = "webBackup" -> 13
    [] l = "config" -> 12
    [] l = "install" -> 11
    [] l = "storage" -> 10
    [] l = "start" -> 9
    [] l = "webUpdate" -> 8
    [] l = "webRestart" -> 7
    [] l = "health" -> 6
    [] l = "rbStop" -> 5
    [] l = "rbRemove" -> 4
    [] l \in {"rbMove", "move"} -> 3
    [] l \in {"rbWeb", "save"} -> 2
    [] l \in {"rbRestart", "clean"} -> 1
    [] l = "idle" -> 0

StepsLeft == Rank(pc) + (MaxTries - tries)

\* A migration cannot hang in its own logic: each of its steps, through the
\* health checks and through the rollback from wherever it is entered, brings
\* it closer to its end, and nothing else that happens sets it back.  So it
\* takes at most 15 + MaxTries steps.
RunsAreBounded ==
  [][pc # "idle" => /\ StepsLeft' \in 0..StepsLeft
                    /\ Handler => StepsLeft' < StepsLeft]_vars

\* The v3 tree is removed, moved away or broken only while this run's own copy
\* of it is whole.  What an earlier run left in a temporary directory does not
\* count: v3 has served since that copy was made.
RemovedOnlyWithFreshCopy ==
  [][tree = "v3" /\ tree' # "v3" => tmp' = "v3"]_vars

\* The inductive strengthening: the tree is untouched until the rollback
\* removes it, and by then the copy is complete; where no earlier v4 was left,
\* the process that answers was started from this run's installation.
TreeUntouched == {"load", "backup", "webBackup", "config", "install", "storage",
                  "start", "webUpdate", "webRestart", "health", "move",
                  "rbStop", "rbRemove"}
NotStarted == {"load", "backup", "webBackup", "config", "install", "storage", "start"}
TreeCopied == (TreeUntouched \ {"load", "backup"}) \cup {"rbMove"}

IInv ==
  /\ TypeOK
  /\ pc # "idle" => result = "running" /\ "v3" \in {found} \cup kept \cup final
  /\ pc \in TreeUntouched => tree = found
  /\ pc \in TreeCopied => tmp = found
  /\ pc = "rbMove" => tree \in {found, "none", "torn"}
  /\ pc \in {"save", "clean"} => "v3" \in {tree} \cup kept \cup final
  /\ pc \in {"rbWeb", "rbRestart"} => tree = found
  /\ pc \in {"webRestart", "health", "move", "save", "clean"} => web \in {"absent", "v4"}
  /\ pc \in {"storage", "start"} => v4 # "none"
  /\ ~left /\ pc \in NotStarted => svc = "down" /\ unit = "off"
  /\ ~left /\ pc \in {"webUpdate", "webRestart", "health"} => svc \in {"down", v4}
  /\ pc \in {"move", "save", "clean"} => v4 = "sound" \/ left
  /\ pc = "rbWeb" => webBacked
  /\ webBacked => webBak # "none"
  /\ V3TreeKept
  /\ FailureLeavesV3
  /\ MigratedIsServed

\* "health check failed, rolled back to v3": the tree is back and the web
\* server's config is that of v3.
RolledBackIsV3 ==
  result = "rolledback" /\ found = "v3" => tree = "v3" /\ web \in {"absent", "v3"}

=============================================================================
