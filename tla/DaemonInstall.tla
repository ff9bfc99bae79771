---------------------------- MODULE DaemonInstall ----------------------------
(***************************************************************************)
(* gameapctl daemon install (internal/actions/daemon/install): the binary  *)
(* is put in place, the node is registered with the panel, over HTTP with  *)
(* a token (--host, --token) or over gRPC by the daemon itself (--connect),*)
(* the certificates and the configuration are written and the daemon is    *)
(* started.  A command may fail or be killed at every step and is repeated *)
(* on what the earlier ones left, with a new or with the same token; panel *)
(* uninstall --with-daemon --with-data removes the files again.            *)
(*                                                                         *)
(* A registration, and a private key, is named by the number of the        *)
(* command that made it; 0 is an absent file.  System scope, systemd and   *)
(* Linux on x86 are assumed.                                               *)
(***************************************************************************)
EXTENDS Naturals, Sequences

CONSTANTS MaxRuns,  \* bound: commands in one behaviour
          Tokens    \* the one-time tokens and setup keys operators have

ASSUME RunsAssumption == MaxRuns \in Nat \ {0}

Torn == MaxRuns + 1
Runs == 1 .. MaxRuns
Contents == 0 .. Torn
Files == {"ca", "crt", "config"}   \* ca.crt, server.crt, gameap-daemon.yaml

Given == "public"                        \* the host in the connect URL
LocalHosts == <<"lan", "loopback">>      \* addresses of this machine, best first
Hosts == {Given} \cup {LocalHosts[i] : i \in 1 .. Len(LocalHosts)}

VARIABLES
    pc,      \* the statement Install is at
    run,     \* number of the current command
    flow,    \* "legacy" (--host, --token), "grpc" (--connect), "uninstall"
    token,   \* the token or setup key of this command
    addr,    \* host of the connect URL the daemon enrolls with
    steam,   \* SteamCMD: absent, partly extracted, complete
    binary,  \* /usr/bin/gameap-daemon; "busy": a daemon was started from this file
    key,     \* server.key
    csr,     \* server.csr: the key it was made for
    file,    \* ca.crt, server.crt and the configuration: their registration
    used,    \* panel: tokens that were redeemed
    node,    \* panel: the key certified for each registration, Torn: none
    saved,   \* daemon_install_state.json: the registration it was saved for
    daemon,  \* the registration the running daemon works with, 0: down
    faulted, \* history: in this command something failed by itself
    panelAt, \* history: whether the panel asked for is at addr, and whether the
             \* daemon can verify it there
    at       \* history: when the command began, the daemon was up, SteamCMD
             \* was partly extracted, the token was already redeemed, there was
             \* a certificate request for another key

certs == <<key, csr>>
remote == <<used, node>>
target == <<addr, panelAt>>
input == <<run, flow, token, at>>
vars == <<pc, run, flow, token, addr, steam, binary, key, csr, file, used,
          node, saved, daemon, faulted, panelAt, at>>

Ended == {"idle", "done", "failed", "removed"}
NoNode == Torn

\* What answers at the hosts a command knows of: the panel with its
\* certificate, which covers some hosts, another server, one without TLS.
Nets == [answer : {a \in [Hosts -> {"none", "plain", "panel", "other"}] :
                      a[Given] # "other"},
         covers : SUBSET Hosts]
Unknown == [same |-> FALSE, verifies |-> FALSE]
NoFacts == [up |-> FALSE, partial |-> FALSE, spent |-> FALSE,
            stale |-> FALSE]

Init ==
    /\ pc = "idle" /\ run = 0 /\ flow = "legacy" /\ token \in Tokens
    /\ addr = "none" /\ panelAt = Unknown /\ at = NoFacts
    /\ steam = "none" /\ binary = "none" /\ key = 0 /\ csr = 0
    /\ file = [f \in Files |-> 0]
    /\ used = {} /\ node = [r \in Runs |-> NoNode]
    /\ saved = 0 /\ daemon = 0 /\ faulted = FALSE

-----------------------------------------------------------------------------
(* The arguments.                                                          *)

\* Handle, and the checks at the start of Install.
Install(f, t) ==
    /\ pc \in Ended
    /\ run < MaxRuns
    /\ run' = run + 1
    /\ flow' = f /\ token' = t
    /\ addr' = "none" /\ panelAt' = Unknown
    /\ at' = [up |-> daemon # 0, partial |-> steam = "partial",
              spent |-> t \in used, stale |-> csr \notin {0, key}]
    /\ faulted' = FALSE
    /\ pc' = IF f = "grpc" THEN "resolve" ELSE "steam"
    /\ UNCHANGED <<steam, binary, certs, file, remote, saved, daemon>>

\* candidateHostsFromCert: what the panel's certificate names on this machine.
Candidate(n, i) == LocalHosts[i] \in n.covers

\* Fault: any server that answers at a candidate is taken for the panel.
AcceptedAny(n, i) == Candidate(n, i) /\ n.answer[LocalHosts[i]] # "none"

\* rewriteToCoveredCandidate: the same certificate must answer there.
Accepted(n, i) == Candidate(n, i) /\ n.answer[LocalHosts[i]] = n.answer[Given]

\* The first candidate that is accepted.
Rewritten(n) == {LocalHosts[i] : i \in {i \in 1 .. Len(LocalHosts) :
                    Accepted(n, i) /\ \A j \in 1 .. i - 1 : ~Accepted(n, j)}}

\* resolveConnectAddress: the host to enroll with, if there is one.  A local
\* panel found instead of one that does not answer is only suggested.
Resolved(n) ==
    CASE n.answer[Given] = "none" -> {}
      [] n.answer[Given] = "plain" -> {Given}
      [] n.answer[Given] = "panel" -> IF Given \in n.covers THEN {Given} ELSE Rewritten(n)

\* Fault: without an acceptable host the empty address is used.
ResolveEmpty ==
    /\ pc = "resolve"
    /\ addr' = ""
    /\ pc' = "steam"
    /\ UNCHANGED <<input, panelAt, steam, binary, certs, file, remote, saved, daemon, faulted>>

ResolveConnectAddress ==
    /\ pc = "resolve"
    /\ \E n \in Nets :
        \/ \E h \in Resolved(n) :
            /\ addr' = h
            /\ panelAt' = [same |-> n.answer[h] = n.answer[Given],
                           verifies |-> n.answer[h] = "plain" \/ h \in n.covers]
            /\ pc' = "steam"
        \/ /\ Resolved(n) = {}
           /\ pc' = "failed"
           /\ UNCHANGED <<addr, panelAt>>
    /\ UNCHANGED <<input, steam, binary, certs, file, remote, saved, daemon, faulted>>

-----------------------------------------------------------------------------
(* The files of the daemon.                                                *)

\* installSteamCMD: steamcmd.sh is there, or the archive is extracted.
InstallSteamCMD ==
    /\ pc = "steam"
    /\ IF steam = "none"
       THEN steam' = "partial" /\ pc' = "extract"
       ELSE steam' = steam /\ pc' = "binary"
    /\ UNCHANGED <<input, target, binary, certs, file, remote, saved, daemon, faulted>>

ExtractSteamCMD ==
    /\ pc = "extract"
    /\ steam' = "ok"
    /\ pc' = "binary"
    /\ UNCHANGED <<input, target, binary, certs, file, remote, saved, daemon, faulted>>

BinaryInstalled == pc' = IF flow = "grpc" THEN "enroll" ELSE "key"

\* installDaemonBinaries, installDaemonFromGithub: utils.Move renames, or copies
\* when the download is on another file system.  A daemon that runs is not
\* stopped for it, and Linux opens no running program for writing.
InstallDaemonBinaries ==
    /\ pc = "binary"
    /\ \/ binary' = "ok" /\ BinaryInstalled
       \/ binary # "busy" /\ binary' = "torn" /\ pc' = "copy binary"
       \/ binary = "busy" /\ pc' = "failed" /\ UNCHANGED binary
    /\ UNCHANGED <<input, target, steam, certs, file, remote, saved, daemon, faulted>>

\* Fault: the downloaded binary is not moved to its place.
BinaryNotMoved ==
    /\ pc = "copy binary"
    /\ BinaryInstalled
    /\ UNCHANGED <<input, target, steam, binary, certs, file, remote, saved, daemon, faulted>>

CopyBinary ==
    /\ pc = "copy binary"
    /\ binary' = "ok" /\ BinaryInstalled
    /\ UNCHANGED <<input, target, steam, certs, file, remote, saved, daemon, faulted>>

-----------------------------------------------------------------------------
(* legacyConfigureFlow                                                     *)

\* Fault: a new key is generated although one exists.
AlwaysNewKey ==
    /\ pc = "key"
    /\ key' = Torn /\ pc' = "write key"
    /\ UNCHANGED <<input, target, steam, binary, csr, file, remote, saved, daemon, faulted>>

\* generateCertificates: an existing key is read back; one that is no key ends
\* the command.
GenerateKey ==
    /\ pc = "key"
    /\ \/ key = 0 /\ key' = Torn /\ pc' = "write key"
       \/ key = Torn /\ key' = key /\ pc' = "failed"
       \/ key \in Runs /\ key' = key /\ pc' = "csr"
    /\ UNCHANGED <<input, target, steam, binary, csr, file, remote, saved, daemon, faulted>>

WriteKey ==
    /\ pc = "write key"
    /\ key' = run
    /\ pc' = "csr"
    /\ UNCHANGED <<input, target, steam, binary, csr, file, remote, saved, daemon, faulted>>

\* An existing certificate request is kept without a look inside.
GenerateRequest ==
    /\ pc = "csr"
    /\ IF csr = 0 THEN csr' = Torn /\ pc' = "write csr"
                  ELSE csr' = csr /\ pc' = "post"
    /\ UNCHANGED <<input, target, steam, binary, key, file, remote, saved, daemon, faulted>>

WriteRequest ==
    /\ pc = "write csr"
    /\ csr' = key
    /\ pc' = "post"
    /\ UNCHANGED <<input, target, steam, binary, key, file, remote, saved, daemon, faulted>>

\* The panel redeems the token, creates a node and signs its request.
Register(k) ==
    /\ used' = used \cup {token}
    /\ node' = [node EXCEPT ![run] = k]

\* configureDaemon: POST /gdaemon/create.  The request or its answer may be
\* lost; the answer carries node id, API key and both certificates.
PostCreate ==
    /\ pc = "post"
    /\ \/ /\ token \in used \/ csr = Torn
          /\ pc' = "failed"
          /\ UNCHANGED <<remote, faulted>>
       \/ /\ token \notin used /\ csr # Torn
          /\ Register(csr)
          /\ \/ pc' = "ca" /\ UNCHANGED faulted
             \/ pc' = "failed" /\ faulted' = TRUE
    /\ UNCHANGED <<input, target, steam, binary, certs, file, saved, daemon>>

-----------------------------------------------------------------------------
(* Files that are written in place: ca.crt, server.crt, the configuration, *)
(* and later changes of the configuration.                                 *)

Rewrites == {"ca", "crt", "config", "steam path", "cdn"}
FileAt == [l \in Rewrites |-> IF l \in {"ca", "crt"} THEN l ELSE "config"]
Half == [l \in Rewrites |->
           CASE l = "ca" -> "write ca" [] l = "crt" -> "write crt"
             [] l = "config" -> "write config" [] l = "steam path" -> "write steam path"
             [] l = "cdn" -> "write cdn"]
After == [l \in Rewrites |->
            CASE l = "ca" -> "crt" [] l = "crt" -> "config"
              [] l \in {"config", "steam path"} -> "cdn" [] l = "cdn" -> "save"]

\* os.WriteFile truncates.
Truncate ==
    /\ pc \in Rewrites
    /\ file' = [file EXCEPT ![FileAt[pc]] = Torn]
    /\ pc' = Half[pc]
    /\ UNCHANGED <<input, target, steam, binary, certs, remote, saved, daemon, faulted>>

Write(l) ==
    /\ pc = Half[l]
    /\ file' = [file EXCEPT ![FileAt[l]] = run]
    /\ pc' = After[l]
    /\ UNCHANGED <<input, target, steam, binary, certs, remote, saved, daemon, faulted>>

\* steamcmd_path is already set; the CDN answers and nothing is replaced.
NothingToRewrite ==
    /\ pc \in {"steam path", "cdn"}
    /\ pc' = After[pc]
    /\ UNCHANGED <<input, target, steam, binary, certs, file, remote, saved, daemon, faulted>>

\* An error inside SetupCDNReplacements is only logged.
CDNFails ==
    /\ pc \in {"cdn", "write cdn"}
    /\ faulted' = TRUE
    /\ pc' = "save"
    /\ UNCHANGED <<input, target, steam, binary, certs, file, remote, saved, daemon>>

-----------------------------------------------------------------------------
(* enrollFlow: the installed daemon enrolls itself within 60 seconds.      *)

\* enrollDaemon: the child redeems the setup key and writes the configuration;
\* killed at its time limit it may have done the first without the second.
EnrollDaemon ==
    /\ pc = "enroll"
    /\ \/ /\ token \in used \/ binary # "ok"
          /\ pc' = "failed"
          /\ UNCHANGED <<remote, file, faulted>>
       \/ /\ token \notin used /\ binary = "ok"
          /\ Register(0)
          /\ \/ /\ file' = [file EXCEPT !["config"] = run]
                /\ pc' = "steam path"
                /\ UNCHANGED faulted
             \/ /\ \/ UNCHANGED file
                   \/ file' = [file EXCEPT !["config"] = Torn]
                /\ pc' = "failed"
                /\ faulted' = TRUE
    /\ UNCHANGED <<input, target, steam, binary, certs, saved, daemon>>

-----------------------------------------------------------------------------
(* The end of Install.                                                     *)

\* SaveDaemonInstallState: an error is only logged.
SaveDaemonInstallState ==
    /\ pc = "save"
    /\ \/ saved' = run /\ UNCHANGED faulted
       \/ saved' = saved /\ faulted' = TRUE
    /\ pc' = "start"
    /\ UNCHANGED <<input, target, steam, binary, certs, file, remote, daemon>>

\* daemon.Start writes a missing unit; it leaves a running daemon alone, and a
\* daemon that cannot read its configuration does not stay up.
StartDaemon ==
    /\ pc = "start"
    /\ IF daemon = 0 /\ binary = "ok" /\ file["config"] \in Runs
       THEN daemon' = file["config"] /\ binary' = "busy"
       ELSE UNCHANGED <<daemon, binary>>
    /\ pc' = "done"
    /\ UNCHANGED <<input, target, steam, certs, file, remote, saved, faulted>>

-----------------------------------------------------------------------------
(* panel uninstall --with-daemon --with-data                               *)

DaemonEnds ==
    /\ daemon' = 0
    /\ binary' = IF binary = "busy" THEN "ok" ELSE binary

HandleUninstall ==
    /\ pc \in Ended
    /\ run < MaxRuns
    /\ run' = run + 1
    /\ flow' = "uninstall"
    /\ addr' = "none" /\ panelAt' = Unknown
    /\ at' = NoFacts
    /\ faulted' = FALSE
    /\ pc' = "stop daemon"
    /\ UNCHANGED <<token, steam, binary, certs, file, remote, saved, daemon>>

\* stopAndUninstallDaemon: an error of daemon.Stop is only logged; without a
\* binary nothing is removed.
StopAndUninstallDaemon ==
    /\ pc = "stop daemon"
    /\ DaemonEnds \/ UNCHANGED <<daemon, binary>>
    /\ pc' = IF binary = "none" THEN "removed" ELSE "remove files"
    /\ UNCHANGED <<input, target, steam, certs, file, remote, saved, faulted>>

\* uninstallDaemon: binary and configuration; each may fail and is only logged.
RemoveFiles ==
    /\ pc = "remove files"
    /\ binary' \in {"none", binary}
    /\ \E c \in {0, file["config"]} : file' = [file EXCEPT !["config"] = c]
    /\ pc' = "remove certs"
    /\ UNCHANGED <<input, target, steam, certs, remote, saved, daemon, faulted>>

\* os.RemoveAll of the certificates takes one file after the other, in the
\* order of the directory.
RemoveCertificate ==
    /\ pc = "remove certs"
    /\ \/ key # 0 /\ key' = 0 /\ UNCHANGED <<csr, file>>
       \/ csr # 0 /\ csr' = 0 /\ UNCHANGED <<key, file>>
       \/ \E f \in {"ca", "crt"} :
              file[f] # 0 /\ file' = [file EXCEPT ![f] = 0] /\ UNCHANGED certs
    /\ UNCHANGED <<pc, input, target, steam, binary, remote, saved, daemon, faulted>>

\* All are gone, or one cannot be removed, which is logged.
EndUninstall ==
    /\ pc = "remove certs"
    /\ pc' = "removed"
    /\ UNCHANGED <<input, target, steam, binary, certs, file, remote, saved, daemon, faulted>>

-----------------------------------------------------------------------------
(* Faults.                                                                 *)

\* The steps whose error is not returned.
Tolerant == {"cdn", "write cdn", "save", "stop daemon", "remove files", "remove certs"}

\* A call fails and the command with it.
Fail ==
    /\ pc \notin Ended \cup Tolerant
    /\ pc' = "failed"
    /\ faulted' = TRUE
    /\ UNCHANGED <<input, target, steam, binary, certs, file, remote, saved, daemon>>

\* The process is killed.
Crash ==
    /\ pc \notin Ended
    /\ pc' = "idle"
    /\ UNCHANGED <<input, target, steam, binary, certs, file, remote, saved, daemon, faulted>>

\* Between two commands the daemon exits, or the operator stops it.
DaemonExits ==
    /\ daemon # 0 /\ pc \in Ended
    /\ DaemonEnds
    /\ pc' = "idle"
    /\ UNCHANGED <<input, target, steam, certs, file, remote, saved, faulted>>

Next ==
    \/ \E f \in {"legacy", "grpc"}, t \in Tokens : Install(f, t)
    \/ ResolveConnectAddress \/ InstallSteamCMD \/ ExtractSteamCMD
    \/ InstallDaemonBinaries \/ CopyBinary
    \/ GenerateKey \/ WriteKey \/ GenerateRequest \/ WriteRequest \/ PostCreate
    \/ Truncate \/ (\E l \in Rewrites : Write(l))
    \/ NothingToRewrite \/ CDNFails \/ EnrollDaemon
    \/ SaveDaemonInstallState \/ StartDaemon
    \/ HandleUninstall \/ StopAndUninstallDaemon \/ RemoveFiles
    \/ RemoveCertificate \/ EndUninstall
    \/ Fail \/ Crash \/ DaemonExits

Spec == Init /\ [][Next]_vars

-----------------------------------------------------------------------------
(* Properties.                                                             *)

Labels == Ended \cup Tolerant \cup Rewrites \cup {Half[l] : l \in Rewrites} \cup
          {"resolve", "steam", "extract", "binary", "copy binary", "key",
           "write key", "csr", "write csr", "post", "enroll", "start"}

FlagsOK == /\ faulted \in BOOLEAN
           /\ panelAt \in [same : BOOLEAN, verifies : BOOLEAN]
           /\ at \in [up : BOOLEAN, partial : BOOLEAN, spent : BOOLEAN,
                    stale : BOOLEAN]

\* Every variable holds a value of its kind.
TypeOK ==
    /\ pc \in Labels
    /\ run \in 0 .. MaxRuns
    /\ flow \in {"legacy", "grpc", "uninstall"} /\ token \in Tokens
    /\ addr \in Hosts \cup {"none"}
    /\ steam \in {"none", "partial", "ok"}
    /\ binary \in {"none", "torn", "ok", "busy"}
    /\ key \in Contents /\ csr \in Contents
    /\ file \in [Files -> Contents]
    /\ used \subseteq Tokens /\ node \in [Runs -> Contents]
    /\ saved \in 0 .. MaxRuns /\ daemon \in 0 .. MaxRuns
    /\ FlagsOK

\* A command that ends well leaves one registration everywhere, whatever
\* earlier commands left half done: the configuration and the certificates
\* are its own, the panel certified the private key on the disk, the state
\* file describes it, and the daemon runs with it unless one was already
\* running.  SteamCMD is complete unless a killed command had begun it.  The
\* exception: an uninstallation that stopped between the private key and the
\* certificate request makes the panel certify a key that no longer exists.
DoneIsConsistent ==
    pc = "done" /\ ~faulted =>
        /\ file["config"] = run /\ node[run] # NoNode /\ saved = run
        /\ flow = "legacy" =>
               /\ file["ca"] = run /\ file["crt"] = run /\ key \in Runs
               /\ key = node[run] \/ at.stale
        /\ at.up \/ daemon = run
        /\ at.partial \/ steam = "ok"

\* A command in which nothing fails by itself ends with an error only when its
\* token was redeemed before, when the panel cannot be reached or verified,
\* when a daemon runs from the binary, which a download on another file system
\* then cannot replace, or when a killed command left a torn key or certificate
\* request: these two are never replaced, so that every later --token
\* installation fails.
FailsOnlyIfKnown ==
    pc = "failed" /\ ~faulted =>
        \/ at.spent
        \/ flow = "grpc" /\ addr = "none"
        \/ binary = "busy"
        \/ flow = "legacy" /\ Torn \in {key, csr}

\* The setup key is only handed to the panel that the connect URL named, at an
\* address where the daemon will be able to verify that panel's certificate.
EnrolledWithVerifiedPanel ==
    [][node' # node /\ flow = "grpc" => panelAt.same /\ panelAt.verifies]_vars

-----------------------------------------------------------------------------
(* The inductive strengthening: where the command is tells which of its    *)
(* files are its own and what it still has of what it found.               *)

BeforeBinary == {"steam", "extract", "binary", "copy binary"}
LegacySteps == {"key", "write key", "csr", "write csr", "post", "ca", "write ca",
                "crt", "write crt", "config", "write config"}
GrpcSteps == {"resolve", "enroll", "steam path", "write steam path"}
LastSteps == {"cdn", "write cdn", "save", "start", "done"}
AfterBinary == LegacySteps \cup LastSteps
               \cup {"enroll", "steam path", "write steam path"}
Registered == {"ca", "write ca", "crt", "write crt", "config", "write config",
               "steam path", "write steam path"} \cup LastSteps
Unregistered == {"resolve", "enroll", "key", "write key", "csr", "write csr", "post"}
                \cup BeforeBinary

\* Each step belongs to its flow.
FlowInv ==
    /\ pc \notin Ended \/ pc = "done" => run \in Runs
    /\ pc \in LegacySteps => flow = "legacy"
    /\ pc \in GrpcSteps => flow = "grpc"
    /\ pc \in BeforeBinary \cup LastSteps => flow \in {"legacy", "grpc"}
    /\ pc = "resolve" => addr = "none"

\* What is installed locally.
LocalInv ==
    /\ pc \in AfterBinary \ {"done"} => binary = "ok"
    /\ binary = "busy" => daemon # 0
    /\ pc \in {"resolve", "steam"} => at.partial \/ steam # "partial"
    /\ pc \in {"binary", "copy binary"} \cup AfterBinary => at.partial \/ steam = "ok"
    /\ pc \in Unregistered \cup Registered /\ pc # "done" => at.up \/ daemon = 0

\* The private key and its certificate request.
KeyInv ==
    /\ flow = "legacy" /\ pc \in BeforeBinary \cup {"key", "csr"}
           => at.stale \/ csr \in {0, key}
    /\ pc = "write key" => at.stale \/ csr = 0
    /\ pc \in LegacySteps \ {"key", "write key"} => key \in Runs
    /\ pc \in {"post"} => at.stale \/ csr = key
    /\ flow = "legacy" /\ pc \in Registered
           => /\ key \in Runs /\ node[run] = csr /\ csr # Torn
              /\ at.stale \/ csr = key
    /\ flow = "grpc" /\ pc \in Registered => node[run] = 0

\* The registration.
PanelInv ==
    /\ pc \in Unregistered => (token \in used => at.spent)
    /\ flow = "grpc" /\ pc \in BeforeBinary \cup AfterBinary
           => panelAt.same /\ panelAt.verifies
    /\ flow = "legacy" /\ pc \in {"crt", "write crt", "config", "write config"} \cup LastSteps
           => file["ca"] = run
    /\ flow = "legacy" /\ pc \in {"config", "write config"} \cup LastSteps
           => file["crt"] = run
    /\ pc \in {"steam path", "cdn", "save", "start", "done"} /\ ~faulted
           => file["config"] = run
    /\ pc \in {"start", "done"} /\ ~faulted => saved = run

IInv == TypeOK /\ FlowInv /\ LocalInv /\ KeyInv /\ PanelInv
        /\ DoneIsConsistent /\ FailsOnlyIfKnown

-----------------------------------------------------------------------------
(* How a key comes to stand in the way.                                    *)

\* The steps that leave a part of a private key or of its certificate request
\* behind, or a request without its key: a write of one of them that fails or
\* is killed, and an uninstallation that ends between the two.
DamagesCertificates ==
    \/ pc \in {"write key", "write csr"} /\ (Fail \/ Crash)
    \/ pc = "remove certs" /\ pc' # pc /\ key = 0 /\ csr # 0

\* generateCertificates reuses what it finds, and that is right: a success by
\* token leaves the key the panel has certified, and no file that an earlier
\* command left makes an installation fail in which no call fails.  (A daemon
\* that runs from the binary can.)
ReuseIsSound ==
    /\ pc = "done" /\ flow = "legacy" /\ ~faulted => node[run] = key
    /\ pc = "failed" /\ ~faulted
           => at.spent \/ binary = "busy" \/ (flow = "grpc" /\ addr = "none")

\* As long as no step damages them, a request is made for the key that is
\* there, and both are whole outside the steps that write and remove them.
PairInv ==
    /\ ~at.stale
    /\ pc # "write key" => key # Torn
    /\ pc = "write key" => csr = 0
    /\ pc # "write csr" => csr # Torn
    /\ pc # "write csr" => csr \in {0, key} \/ (pc = "remove certs" /\ key = 0)

=============================================================================
