--------------------------- MODULE ServiceProcess ---------------------------
(***************************************************************************)
(* Starting, stopping and restarting the daemon or the panel on a host     *)
(* without systemd, where gameapctl itself finds, signals and forks the    *)
(* process: pkg/oscore/process.go, the process branches of pkg/daemon and  *)
(* pkg/panel, and the CLI handlers around them.                            *)
(*                                                                         *)
(* Several gameapctl processes may run at once; nothing but the process    *)
(* table is shared between them and nothing is locked.  A process that     *)
(* exited stays a zombie, which still counts as running for IsRunning and  *)
(* for the lookup by name, until its parent reaps it.                      *)
(***************************************************************************)
EXTENDS Naturals, FiniteSets

CONSTANTS
  Controllers,   \* the gameapctl processes
  Pids,          \* the process ids the kernel hands out
  NoPid,         \* a nil *process.Process
  Other,         \* whoever started the process that was there at first
  TermWait,      \* defaultTerminateWaitTimeout, in ticks of one second (30)
  KillWait,      \* defaultKillWaitTimeout (10)
  WaitRetries    \* defaultWaitRetries (5)

ASSUME BoundsAssumption ==
  /\ TermWait \in Nat \ {0} /\ KillWait \in Nat \ {0} /\ WaitRetries \in Nat \ {0}
ASSUME NamesAssumption == NoPid \notin Pids /\ Other \notin Controllers

VARIABLES
  pc, op,        \* where each controller is, and in which command
  target,        \* the process it found
  waited,        \* ticks it waited after the last signal, or between lookups
  state,         \* each process: "running", "zombie" or "gone"
  owner          \* history: who forked it

ctl   == <<pc, op, target, waited>>
table == <<state, owner>>
vars  == <<ctl, table>>

Labels == {"idle", "find", "terminate", "termWait", "kill", "status",
           "killCheck", "killWait", "forkFind", "fork", "checkGone", "checkUp"}

TypeOK ==
  /\ pc \in [Controllers -> Labels]
  /\ op \in [Controllers -> {"none", "start", "stop", "restart"}]
  /\ target \in [Controllers -> Pids \cup {NoPid}]
  /\ waited \in [Controllers -> Nat]
  /\ \A c \in Controllers :
       /\ pc[c] = "termWait" => waited[c] <= TermWait
       /\ pc[c] = "killWait" => waited[c] <= KillWait
       /\ pc[c] = "checkUp" => waited[c] < WaitRetries
  /\ state \in [Pids -> {"running", "zombie", "gone"}]
  /\ owner \in [Pids -> Controllers \cup {Other}]

\* The service runs, or does not.
Init ==
  /\ pc = [c \in Controllers |-> "idle"]
  /\ op = [c \in Controllers |-> "none"]
  /\ target = [c \in Controllers |-> NoPid]
  /\ waited = [c \in Controllers |-> 0]
  /\ \E up \in SUBSET Pids :
       /\ \A p, q \in up : p = q
       /\ state = [p \in Pids |-> IF p \in up THEN "running" ELSE "gone"]
  /\ owner = [p \in Pids |-> Other]

-----------------------------------------------------------------------------
(* What the steps are made of.                                             *)

Live == {p \in Pids : state[p] # "gone"}

IsRunning(c) == target[c] \in Live

Goto(c, l) == pc' = [pc EXCEPT ![c] = l] /\ UNCHANGED <<op, target, waited>>

\* The next wait starts from zero.
Wait(c, l) ==
  /\ pc' = [pc EXCEPT ![c] = l] /\ waited' = [waited EXCEPT ![c] = 0]
  /\ UNCHANGED <<op, target>>

Tick(c) == waited' = [waited EXCEPT ![c] = @ + 1] /\ UNCHANGED <<pc, op, target>>

\* The command is over, with a success or an error, and what it knew is gone.
Return(c) ==
  /\ pc' = [pc EXCEPT ![c] = "idle"] /\ op' = [op EXCEPT ![c] = "none"]
  /\ target' = [target EXCEPT ![c] = NoPid] /\ waited' = [waited EXCEPT ![c] = 0]

\* The process found is gone: stop looks for another one, restart forks.
Terminated(c) == Goto(c, IF op[c] = "stop" THEN "checkGone" ELSE "forkFind")

\* stopDaemonProcess and stopProcess wrap the whole call in a context that
\* lives as long as the wait for SIGTERM, so that it has expired once SIGKILL
\* is sent; a restart has no such context.
KillTicks(c) == IF op[c] = "stop" THEN 0 ELSE KillWait

-----------------------------------------------------------------------------
(* The commands.                                                           *)

Handle(c, o) ==
  /\ pc[c] = "idle"
  /\ pc' = [pc EXCEPT ![c] = IF o = "start" THEN "forkFind" ELSE "find"]
  /\ op' = [op EXCEPT ![c] = o]
  /\ UNCHANGED <<target, waited, table>>

\* FindProcess at the head of stop and restart.
FindProcess(c) ==
  /\ pc[c] = "find"
  /\ \/ Return(c)
     \/ Live = {} /\ Terminated(c)
     \/ \E p \in Live :
          /\ target' = [target EXCEPT ![c] = p]
          /\ pc' = [pc EXCEPT ![c] = "terminate"]
          /\ UNCHANGED <<op, waited>>
  /\ UNCHANGED table

(* TerminateAndKillProcess.                                                *)

\* Signalling a process that is gone by now is an error.
Terminate(c) ==
  /\ pc[c] = "terminate"
  /\ Return(c) \/ (IsRunning(c) /\ Wait(c, "termWait"))
  /\ UNCHANGED table

\* Fault: when the time is over the process is taken for terminated.
TermTimeoutAccepted(c) ==
  /\ pc[c] = "termWait"
  /\ \/ ~IsRunning(c) /\ Terminated(c)
     \/ IsRunning(c) /\ waited[c] < TermWait /\ Tick(c)
     \/ IsRunning(c) /\ waited[c] = TermWait /\ Terminated(c)
  /\ UNCHANGED table

\* Fault: the deadline is tested after one more tick.
TermOffByOne(c) ==
  /\ pc[c] = "termWait"
  /\ \/ ~IsRunning(c) /\ Terminated(c)
     \/ IsRunning(c) /\ waited[c] <= TermWait /\ Tick(c)
     \/ IsRunning(c) /\ waited[c] > TermWait /\ Goto(c, "kill")
  /\ UNCHANGED table

\* Fault: the ticks are not counted.
TermUncounted(c) ==
  /\ pc[c] = "termWait"
  /\ \/ ~IsRunning(c) /\ Terminated(c)
     \/ IsRunning(c) /\ waited' = [waited EXCEPT ![c] = 1 - @]
        /\ UNCHANGED <<pc, op, target>>
  /\ UNCHANGED table

WaitTerminated(c) ==
  /\ pc[c] = "termWait"
  /\ \/ ~IsRunning(c) /\ Terminated(c)
     \/ IsRunning(c) /\ waited[c] < TermWait /\ Tick(c)
     \/ IsRunning(c) /\ waited[c] = TermWait /\ Goto(c, "kill")
  /\ UNCHANGED table

Kill(c) ==
  /\ pc[c] = "kill"
  /\ Return(c) \/ (IsRunning(c) /\ Goto(c, "status"))
  /\ UNCHANGED table

\* A zombie is an error, and so is a process that was reaped meanwhile: its
\* status cannot be read.
CheckStatus(c) ==
  /\ pc[c] = "status"
  /\ \/ Return(c)
     \/ IsRunning(c) /\ state[target[c]] = "running" /\ Goto(c, "killCheck")
  /\ UNCHANGED table

CheckKilled(c) ==
  /\ pc[c] = "killCheck"
  /\ \/ Return(c)
     \/ ~IsRunning(c) /\ Terminated(c)
     \/ IsRunning(c) /\ Wait(c, "killWait")
  /\ UNCHANGED table

WaitKilled(c) ==
  /\ pc[c] = "killWait"
  /\ \/ ~IsRunning(c) /\ Terminated(c)
     \/ IsRunning(c) /\ waited[c] < KillTicks(c) /\ Tick(c)
     \/ IsRunning(c) /\ waited[c] >= KillTicks(c) /\ Return(c)
  /\ UNCHANGED table

(* startDaemonFork and startFork.                                          *)

\* Fault: the lookup is dropped.
ForkWithoutFind(c) ==
  /\ pc[c] = "forkFind"
  /\ Return(c) \/ Goto(c, "fork")
  /\ UNCHANGED table

\* Any process of that name is an error.
ForkFind(c) ==
  /\ pc[c] = "forkFind"
  /\ Return(c) \/ (Live = {} /\ Goto(c, "fork"))
  /\ UNCHANGED table

\* A process id in a controller's hands is not given out again: IsRunning
\* compares creation times.
Fork(c) ==
  /\ pc[c] = "fork"
  /\ \/ Return(c) /\ UNCHANGED table
     \/ \E p \in Pids \ (Live \cup {target[d] : d \in Controllers}) :
          /\ Wait(c, "checkUp")
          /\ state' = [state EXCEPT ![p] = "running"]
          /\ owner' = [owner EXCEPT ![p] = c]

(* The checks of the CLI handlers.                                         *)

\* stop: a last lookup, with success if no process of that name is left.
CheckGone(c) ==
  /\ pc[c] = "checkGone"
  /\ Return(c)
  /\ UNCHANGED table

\* start and restart: WaitForProcessByName, with success if there is one.
CheckUp(c) ==
  /\ pc[c] = "checkUp"
  /\ \/ Return(c)
     \/ Live = {} /\ waited[c] + 1 < WaitRetries /\ Tick(c)
  /\ UNCHANGED table

Step(c) ==
  \/ FindProcess(c) \/ Terminate(c) \/ WaitTerminated(c) \/ Kill(c)
  \/ CheckStatus(c) \/ CheckKilled(c) \/ WaitKilled(c)
  \/ ForkFind(c) \/ Fork(c) \/ CheckGone(c) \/ CheckUp(c)

\* A process exits, for a signal or by itself, and its parent reaps it.
Exit(p) ==
  /\ \/ state[p] = "running" /\ state' = [state EXCEPT ![p] = "zombie"] /\ UNCHANGED owner
     \/ /\ state[p] = "zombie"
        /\ state' = [state EXCEPT ![p] = "gone"] /\ owner' = [owner EXCEPT ![p] = Other]
  /\ UNCHANGED ctl

Next ==
  \/ \E c \in Controllers : (\E o \in {"start", "stop", "restart"} : Handle(c, o)) \/ Step(c)
  \/ \E p \in Pids : Exit(p)

Spec == Init /\ [][Next]_vars

\* Each gameapctl is a process of its own and every call it makes returns; a
\* service need never exit, whatever it is sent.
FairSpec == Spec /\ \A c \in Controllers : WF_vars(Step(c))

-----------------------------------------------------------------------------
(* Properties.                                                             *)

\* A command that goes on after TerminateAndKillProcess returned nil has seen
\* the process it found disappear, reaped and not only dead: a restart never
\* forks beside the process it replaces.
TargetGone ==
  \A c \in Controllers :
    pc[c] \in {"forkFind", "fork", "checkGone", "checkUp"} => ~IsRunning(c)

\* However many commands race, none of them has two services running, and none
\* starts one beside the service that was there before: the only way to a
\* second one is another gameapctl between the lookup and the fork.
OneServicePerController ==
  \A p, q \in Live : owner[p] \in {owner[q], Other} => p = q

\* So there are never more services than commands that race for it; a lone
\* command never makes a second one.
NoMoreServicesThanCommands == Cardinality(Live) <= Cardinality(Controllers)

\* How far a command is from its end: the steps to go, and the ticks it may
\* still spend in the waits ahead.
Rank(l) ==
  CASE l = "find" -> 10
    [] l = "terminate" -> 9
    [] l = "termWait" -> 8
    [] l = "kill" -> 7
    [] l = "status" -> 6
    [] l = "killCheck" -> 5
    [] l = "killWait" -> 4
    [] l = "forkFind" -> 3
    [] l = "fork" -> 2
    [] l \in {"checkGone", "checkUp"} -> 1
    [] l = "idle" -> 0

TicksAhead(l) ==
  CASE l \in {"find", "terminate", "termWait"} -> TermWait + KillWait + WaitRetries
    [] l \in {"kill", "status", "killCheck", "killWait"} -> KillWait + WaitRetries
    [] l \in {"forkFind", "fork", "checkUp"} -> WaitRetries
    [] l \in {"checkGone", "idle"} -> 0

Waiting == {"termWait", "killWait", "checkUp"}

StepsLeft(c) ==
  Rank(pc[c]) + TicksAhead(pc[c]) - (IF pc[c] \in Waiting THEN waited[c] ELSE 0)

\* No command can hang in its own logic: each of its steps, the ticks of its
\* three waits included, brings it closer to its end, and nothing that other
\* commands or the processes do sets it back.  So it takes at most 10 steps
\* and the ticks of its waits.
CommandsAreBounded ==
  [][\A c \in Controllers :
       pc[c] # "idle" => /\ StepsLeft(c)' \in 0..StepsLeft(c)
                         /\ Step(c) => StepsLeft(c)' < StepsLeft(c)]_vars

\* A restart that gives up on a killed process gave it all of the time the
\* error message speaks of.
RestartWaitsForKill ==
  [][\A c \in Controllers :
       op[c] = "restart" /\ pc[c] = "killWait" /\ pc'[c] = "idle"
         => waited[c] = KillWait]_vars

\* Every command returns, whether or not the service ever exits.
Terminates == \A c \in Controllers : pc[c] # "idle" ~> pc[c] = "idle"

\* "failed to kill ... still running after 10s timeout", after "Wait for
\* process to die after SIGKILL": the process was given that time.
KillIsWaitedFor ==
  [][\A c \in Controllers :
       pc[c] = "killWait" /\ pc'[c] = "idle" => waited[c] = KillWait]_vars

\* The inductive strengthening: what was forked before the lookup is gone.
IInv ==
  /\ TypeOK
  /\ TargetGone
  /\ OneServicePerController
  /\ \A c \in Controllers : pc[c] = "idle" => target[c] = NoPid
  /\ \A c \in Controllers : pc[c] = "fork" => \A p \in Live : owner[p] \notin {c, Other}

=============================================================================
