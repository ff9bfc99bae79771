------------------------ MODULE ServiceProcess_proofs ------------------------
(***************************************************************************)
(* Whatever number of commands race, a restart does not fork beside the    *)
(* process it replaces, and no command has two services running.           *)
(***************************************************************************)
EXTENDS ServiceProcess, FiniteSetTheorems, TLAPS

\* A host with no command running satisfies the invariant.
LEMMA InitIInv == Init => IInv
  BY BoundsAssumption, NamesAssumption
  DEF Init, IInv, TypeOK, Labels, Live, IsRunning, TargetGone, OneServicePerController

\* Every wait is bounded by its timeout, and every variable keeps its type.
LEMMA StepType == TypeOK /\ [Next]_vars => TypeOK'
<1> SUFFICES ASSUME TypeOK, [Next]_vars PROVE TypeOK'
  OBVIOUS
<1> USE BoundsAssumption, NamesAssumption DEF TypeOK, Labels, ctl, table
<1>1. ASSUME NEW c \in Controllers, NEW o \in {"start", "stop", "restart"}, Handle(c, o)
      PROVE  TypeOK'
  BY <1>1 DEF Handle
<1>2. ASSUME NEW c \in Controllers, Step(c) PROVE TypeOK'
  <2> USE DEF Goto, Return, Terminated
  <2>1. CASE FindProcess(c)     BY <2>1 DEF FindProcess, Live
  <2>2. CASE Terminate(c)       BY <2>2 DEF Terminate, Wait
  <2>3. CASE WaitTerminated(c)  BY <2>3 DEF WaitTerminated, Tick
  <2>4. CASE Kill(c)            BY <2>4 DEF Kill
  <2>5. CASE CheckStatus(c)     BY <2>5 DEF CheckStatus
  <2>6. CASE CheckKilled(c)     BY <2>6 DEF CheckKilled, Wait
  <2>7. CASE WaitKilled(c)      BY <2>7 DEF WaitKilled, KillTicks, Tick
  <2>8. CASE ForkFind(c)        BY <2>8 DEF ForkFind
  <2>9. CASE Fork(c)            BY <2>9 DEF Fork, Wait
  <2>10. CASE CheckGone(c)      BY <2>10 DEF CheckGone
  <2>11. CASE CheckUp(c)        BY <2>11 DEF CheckUp, Tick
  <2>12. QED
    BY <1>2, <2>1, <2>2, <2>3, <2>4, <2>5, <2>6, <2>7, <2>8, <2>9, <2>10, <2>11 DEF Step
<1>3. ASSUME NEW p \in Pids, Exit(p) PROVE TypeOK'
  BY <1>3 DEF Exit
<1>4. CASE UNCHANGED vars
  BY <1>4 DEF vars
<1>5. QED
  BY <1>1, <1>2, <1>3, <1>4 DEF Next

\* No step breaks the invariant.
LEMMA StepIInv == IInv /\ [Next]_vars => IInv'
<1> SUFFICES ASSUME IInv, [Next]_vars PROVE IInv'
  OBVIOUS
<1>0. TypeOK'
  BY StepType DEF IInv
<1> USE <1>0 DEF IInv, TargetGone, OneServicePerController, Live, IsRunning, ctl, table
<1>1. ASSUME NEW c \in Controllers, NEW o \in {"start", "stop", "restart"}, Handle(c, o)
      PROVE  IInv'
  BY <1>1, NamesAssumption DEF Handle, TypeOK
<1>2. ASSUME NEW c \in Controllers, Step(c) PROVE IInv'
  <2> USE NamesAssumption DEF Goto, Return, Terminated, TypeOK
  <2>1. CASE FindProcess(c)     BY <2>1 DEF FindProcess
  <2>2. CASE Terminate(c)       BY <2>2 DEF Terminate, Wait
  <2>3. CASE WaitTerminated(c)  BY <2>3 DEF WaitTerminated, Tick
  <2>4. CASE Kill(c)            BY <2>4 DEF Kill
  <2>5. CASE CheckStatus(c)     BY <2>5 DEF CheckStatus
  <2>6. CASE CheckKilled(c)     BY <2>6 DEF CheckKilled, Wait
  <2>7. CASE WaitKilled(c)      BY <2>7 DEF WaitKilled, Tick
  <2>8. CASE ForkFind(c)        BY <2>8 DEF ForkFind
  <2>9. CASE Fork(c)            BY <2>9 DEF Fork, Wait
  <2>10. CASE CheckGone(c)      BY <2>10 DEF CheckGone
  <2>11. CASE CheckUp(c)        BY <2>11 DEF CheckUp, Tick
  <2>12. QED
    BY <1>2, <2>1, <2>2, <2>3, <2>4, <2>5, <2>6, <2>7, <2>8, <2>9, <2>10, <2>11 DEF Step
<1>3. ASSUME NEW p \in Pids, Exit(p) PROVE IInv'
  BY <1>3, NamesAssumption DEF Exit, TypeOK
<1>4. CASE UNCHANGED vars
  BY <1>4 DEF vars, TypeOK
<1>5. QED
  BY <1>1, <1>2, <1>3, <1>4 DEF Next

\* The inductive invariant holds in every reachable state.
LEMMA Invariance == Spec => []IInv
  BY InitIInv, StepIInv, PTL DEF Spec

\* Every state has the declared types, the bounds of the waits among them.
THEOREM TypeCorrect == Spec => []TypeOK
<1>1. IInv => TypeOK
  BY DEF IInv
<1>2. QED
  BY <1>1, Invariance, PTL

\* The process a stop or a restart found is gone when the command goes on, for
\* any number of commands.
THEOREM ProcessSafety == Spec => []TargetGone
<1>1. IInv => TargetGone
  BY DEF IInv
<1>2. QED
  BY <1>1, Invariance, PTL

\* No command has two services running and none has one beside the service it
\* did not find, for any number of commands.
THEOREM OneService == Spec => []OneServicePerController
<1>1. IInv => OneServicePerController
  BY DEF IInv
<1>2. QED
  BY <1>1, Invariance, PTL

\* With finitely many commands, there are never more services than commands:
\* each service but a lone first one is charged to the command that forked it.
THEOREM ServiceCount ==
  ASSUME IsFiniteSet(Controllers), Controllers # {}
  PROVE  Spec => [](IsFiniteSet(Live) /\ NoMoreServicesThanCommands)
<1>1. ASSUME IInv
      PROVE  IsFiniteSet(Live) /\ NoMoreServicesThanCommands
  <2> DEFINE anyone == CHOOSE c \in Controllers : TRUE
             charged == [p \in Live |-> IF owner[p] \in Controllers
                                        THEN owner[p] ELSE anyone]
  <2>1. charged \in [Live -> Controllers]
    OBVIOUS
  <2>2. \A p, q \in Live : charged[p] = charged[q] => p = q
    <3> SUFFICES ASSUME NEW p \in Live, NEW q \in Live, charged[p] = charged[q]
                 PROVE  p = q
      OBVIOUS
    <3>1. owner[p] \in Controllers \cup {Other} /\ owner[q] \in Controllers \cup {Other}
      BY <1>1 DEF IInv, TypeOK, Live
    <3>2. CASE owner[p] = Other \/ owner[q] = Other
      BY <1>1, <3>2 DEF IInv, OneServicePerController
    <3>3. CASE owner[p] \in Controllers /\ owner[q] \in Controllers
      BY <1>1, <3>3 DEF IInv, OneServicePerController
    <3>4. QED
      BY <3>1, <3>2, <3>3
  <2>3. charged \in Injection(Live, Controllers)
    BY <2>1, <2>2 DEF Injection, IsInjective
  <2>4. QED
    BY <2>3, FS_Injection DEF NoMoreServicesThanCommands
<1>2. QED
  BY <1>1, Invariance, PTL

-----------------------------------------------------------------------------
(* A command ends.                                                         *)

\* Wherever a command is and however long it has waited there, the length of
\* its remainder is a natural number.
LEMMA RemainderIsNatural ==
  ASSUME NEW l \in Labels, NEW w \in Nat,
         l = "termWait" => w <= TermWait,
         l = "killWait" => w <= KillWait,
         l = "checkUp" => w < WaitRetries
  PROVE  Rank(l) + TicksAhead(l) - (IF l \in Waiting THEN w ELSE 0) \in Nat
  BY BoundsAssumption DEF Rank, TicksAhead, Waiting, Labels

\* The edges of a command's control flow: what it waits for starts from zero,
\* and a wait is left at any time.
Edge(c) ==
  /\ pc'[c] \in Waiting => waited'[c] = 0
  /\ \/ pc[c] = "find" /\ pc'[c] \in {"idle", "checkGone", "forkFind", "terminate"}
     \/ pc[c] = "terminate" /\ pc'[c] \in {"idle", "termWait"}
     \/ pc[c] = "termWait" /\ pc'[c] \in {"checkGone", "forkFind", "kill"}
     \/ pc[c] = "kill" /\ pc'[c] \in {"idle", "status"}
     \/ pc[c] = "status" /\ pc'[c] \in {"idle", "killCheck"}
     \/ pc[c] = "killCheck" /\ pc'[c] \in {"idle", "checkGone", "forkFind", "killWait"}
     \/ pc[c] = "killWait" /\ pc'[c] \in {"idle", "checkGone", "forkFind"}
     \/ pc[c] = "forkFind" /\ pc'[c] \in {"idle", "fork"}
     \/ pc[c] = "fork" /\ pc'[c] \in {"idle", "checkUp"}
     \/ pc[c] \in {"checkGone", "checkUp"} /\ pc'[c] = "idle"

\* A tick of one of the three waits.
Ticks(c) == pc[c] \in Waiting /\ pc'[c] = pc[c] /\ waited'[c] = waited[c] + 1

\* Every step of a command follows an edge or is a tick.
LEMMA StepFollowsEdges ==
  ASSUME TypeOK, NEW c \in Controllers, Step(c)
  PROVE  Edge(c) \/ Ticks(c)
<1> USE DEF TypeOK, Edge, Ticks, Waiting, Goto, Wait, Tick, Return, Terminated
<1>1. CASE FindProcess(c)     BY <1>1 DEF FindProcess
<1>2. CASE Terminate(c)       BY <1>2 DEF Terminate
<1>3. CASE WaitTerminated(c)  BY <1>3 DEF WaitTerminated
<1>4. CASE Kill(c)            BY <1>4 DEF Kill
<1>5. CASE CheckStatus(c)     BY <1>5 DEF CheckStatus
<1>6. CASE CheckKilled(c)     BY <1>6 DEF CheckKilled
<1>7. CASE WaitKilled(c)      BY <1>7 DEF WaitKilled
<1>8. CASE ForkFind(c)        BY <1>8 DEF ForkFind
<1>9. CASE Fork(c)            BY <1>9 DEF Fork
<1>10. CASE CheckGone(c)      BY <1>10 DEF CheckGone
<1>11. CASE CheckUp(c)        BY <1>11 DEF CheckUp
<1>12. QED
  BY <1>1, <1>2, <1>3, <1>4, <1>5, <1>6, <1>7, <1>8, <1>9, <1>10, <1>11 DEF Step

\* A command's own steps strictly shorten what is left of it.
LEMMA StepAdvances ==
  ASSUME TypeOK, TypeOK', NEW c \in Controllers, Step(c)
  PROVE  StepsLeft(c)' < StepsLeft(c)
<1>1. waited[c] \in Nat /\ waited'[c] \in Nat
  BY DEF TypeOK
<1>2. CASE Ticks(c)
  <2>1. Rank(pc[c])' = Rank(pc[c]) /\ TicksAhead(pc[c])' = TicksAhead(pc[c])
    BY <1>2 DEF Ticks, Rank, TicksAhead
  <2>2. Rank(pc[c]) \in Nat /\ TicksAhead(pc[c]) \in Nat
    BY <1>2, BoundsAssumption DEF Ticks, Waiting, Rank, TicksAhead
  <2>3. QED
    BY <1>1, <1>2, <2>1, <2>2 DEF Ticks, StepsLeft, Waiting
<1>3. CASE Edge(c)
  <2>1. /\ pc[c] = "termWait" => waited[c] <= TermWait
        /\ pc[c] = "killWait" => waited[c] <= KillWait
        /\ pc[c] = "checkUp" => waited[c] < WaitRetries
    BY DEF TypeOK
  <2> USE <1>1, <2>1, BoundsAssumption DEF StepsLeft, Rank, TicksAhead, Waiting
  <2>2. CASE pc[c] = "find"      BY <1>3, <2>2 DEF Edge
  <2>3. CASE pc[c] = "terminate" BY <1>3, <2>3 DEF Edge
  <2>4. CASE pc[c] = "termWait"  BY <1>3, <2>4 DEF Edge
  <2>5. CASE pc[c] = "kill"      BY <1>3, <2>5 DEF Edge
  <2>6. CASE pc[c] = "status"    BY <1>3, <2>6 DEF Edge
  <2>7. CASE pc[c] = "killCheck" BY <1>3, <2>7 DEF Edge
  <2>8. CASE pc[c] = "killWait"  BY <1>3, <2>8 DEF Edge
  <2>9. CASE pc[c] = "forkFind"  BY <1>3, <2>9 DEF Edge
  <2>10. CASE pc[c] = "fork"     BY <1>3, <2>10 DEF Edge
  <2>11. CASE pc[c] \in {"checkGone", "checkUp"} BY <1>3, <2>11 DEF Edge
  <2>12. QED
    BY <1>3, <2>2, <2>3, <2>4, <2>5, <2>6, <2>7, <2>8, <2>9, <2>10, <2>11 DEF Edge
<1>4. QED
  BY <1>2, <1>3, StepFollowsEdges

\* Another command's step leaves this one where it was.
LEMMA OthersLeaveAlone ==
  ASSUME TypeOK, NEW c \in Controllers, NEW d \in Controllers, c # d, Step(d)
  PROVE  pc'[c] = pc[c] /\ waited'[c] = waited[c]
<1> USE DEF TypeOK, ctl, Goto, Wait, Tick, Return, Terminated
<1>1. CASE FindProcess(d)     BY <1>1 DEF FindProcess
<1>2. CASE Terminate(d)       BY <1>2 DEF Terminate
<1>3. CASE WaitTerminated(d)  BY <1>3 DEF WaitTerminated
<1>4. CASE Kill(d)            BY <1>4 DEF Kill
<1>5. CASE CheckStatus(d)     BY <1>5 DEF CheckStatus
<1>6. CASE CheckKilled(d)     BY <1>6 DEF CheckKilled
<1>7. CASE WaitKilled(d)      BY <1>7 DEF WaitKilled
<1>8. CASE ForkFind(d)        BY <1>8 DEF ForkFind
<1>9. CASE Fork(d)            BY <1>9 DEF Fork
<1>10. CASE CheckGone(d)      BY <1>10 DEF CheckGone
<1>11. CASE CheckUp(d)        BY <1>11 DEF CheckUp
<1>12. QED
  BY <1>1, <1>2, <1>3, <1>4, <1>5, <1>6, <1>7, <1>8, <1>9, <1>10, <1>11 DEF Step

\* Nothing that happens during a command lengthens it.
LEMMA NothingSetsBack ==
  ASSUME TypeOK, TypeOK', [Next]_vars, NEW c \in Controllers, pc[c] # "idle"
  PROVE  StepsLeft(c)' \in 0..StepsLeft(c)
<1>1. StepsLeft(c) \in Nat /\ StepsLeft(c)' \in Nat
  BY RemainderIsNatural DEF StepsLeft, TypeOK
<1>2. CASE Step(c)
  BY <1>1, <1>2, StepAdvances
<1>3. CASE pc'[c] = pc[c] /\ waited'[c] = waited[c]
  <2>1. StepsLeft(c)' = StepsLeft(c)
    BY <1>3 DEF StepsLeft
  <2>2. QED
    BY <1>1, <2>1
<1>4. ASSUME NEW d \in Controllers, NEW o \in {"start", "stop", "restart"}, Handle(d, o)
      PROVE  pc'[c] = pc[c] /\ waited'[c] = waited[c]
  BY <1>4 DEF Handle, TypeOK
<1>5. ASSUME NEW p \in Pids, Exit(p)
      PROVE  pc'[c] = pc[c] /\ waited'[c] = waited[c]
  BY <1>5 DEF Exit, ctl
<1>6. CASE UNCHANGED vars
  BY <1>3, <1>6 DEF vars, ctl
<1>7. QED
  BY <1>2, <1>3, <1>4, <1>5, <1>6, OthersLeaveAlone DEF Next

\* Every command, among any number of them, ends after a bounded number of its
\* own steps, whether or not the service ever exits.
THEOREM BoundedCommands == Spec => CommandsAreBounded
<1>1. IInv /\ IInv' /\ [Next]_vars
        => [\A c \in Controllers :
              pc[c] # "idle" => /\ StepsLeft(c)' \in 0..StepsLeft(c)
                                /\ Step(c) => StepsLeft(c)' < StepsLeft(c)]_vars
  BY StepAdvances, NothingSetsBack DEF IInv
<1>2. QED
  BY <1>1, Invariance, PTL DEF Spec, CommandsAreBounded

\* A restart waits as long as it says before it gives up on a killed process.
THEOREM RestartPatience == Spec => RestartWaitsForKill
<1>1. IInv /\ [Next]_vars
        => [\A c \in Controllers :
              op[c] = "restart" /\ pc[c] = "killWait" /\ pc'[c] = "idle"
                => waited[c] = KillWait]_vars
  <2> SUFFICES ASSUME IInv, Next, NEW c \in Controllers, op[c] = "restart",
                      pc[c] = "killWait", pc'[c] = "idle"
               PROVE  waited[c] = KillWait
    OBVIOUS
  <2>1. waited[c] \in Nat /\ waited[c] <= KillWait
    BY DEF IInv, TypeOK
  <2>2. CASE WaitKilled(c)
    BY <2>1, <2>2, BoundsAssumption
    DEF WaitKilled, KillTicks, Tick, Terminated, Goto, IInv, TypeOK
  <2>3. CASE Step(c)
    BY <2>2, <2>3
    DEF Step, FindProcess, Terminate, WaitTerminated, Kill, CheckStatus,
        CheckKilled, ForkFind, Fork, CheckGone, CheckUp
  <2>4. ASSUME NEW d \in Controllers, d # c, Step(d)
        PROVE  FALSE
    BY <2>4, OthersLeaveAlone DEF IInv
  <2>5. ASSUME NEW d \in Controllers, NEW o \in {"start", "stop", "restart"}, Handle(d, o)
        PROVE  FALSE
    BY <2>5 DEF Handle, IInv, TypeOK
  <2>6. ASSUME NEW p \in Pids, Exit(p)
        PROVE  FALSE
    BY <2>6 DEF Exit, ctl
  <2>7. QED
    BY <2>3, <2>4, <2>5, <2>6 DEF Next
<1>2. QED
  BY <1>1, Invariance, PTL DEF Spec, RestartWaitsForKill

=============================================================================
