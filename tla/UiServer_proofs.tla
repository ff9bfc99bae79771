--------------------------- MODULE UiServer_proofs ---------------------------
(***************************************************************************)
(* The safety of the web UI server for every number of connections and     *)
(* requests.                                                               *)
(***************************************************************************)
EXTENDS UiServer, SequenceTheorems, TLAPS

\* A writer of a request is not the original one, and names its connection.
LEMMA RequestFacts ==
  /\ \A w \in Requests : w # Original /\ w[1] \in Conns /\ w \in Writers
  /\ Original \in Writers
  /\ \A c \in Conns, n \in 1 .. MaxRequests : <<c, n>> \in Requests
<1>1. \A w \in Requests : w # Original
  BY DEF Requests, Original
<1>2. \A w \in Requests : w[1] \in Conns /\ w \in Writers
  BY DEF Requests, Writers
<1>3. QED
  BY <1>1, <1>2 DEF Requests, Writers

\* Each holder of the logger has a name of its own.
LEMMA HolderFacts ==
  /\ \A c : <<c>> # None /\ <<c>>[1] = c
  /\ \A c, d : <<c>> = <<d>> => c = d
  /\ \A c \in Conns : <<c>> # <<Main>>
<1>1. \A c, d : <<c>> = <<d>> => c = d
  OBVIOUS
<1>2. \A c : <<c>> # None /\ <<c>>[1] = c
  BY DEF None
<1>3. QED
  BY <1>1, <1>2, MainAssumption

\* The original alone is a chain, and so is a request before a chain.
LEMMA OriginalChain == <<Original>> \in Seq(Writers) /\ Chain(<<Original>>)
  BY RequestFacts DEF Chain

LEMMA LongerChain ==
  ASSUME NEW s \in Seq(Writers), Chain(s), NEW w \in Requests
  PROVE  <<w>> \o s \in Seq(Writers) /\ Chain(<<w>> \o s)
<1>1. <<w>> \o s \in Seq(Writers) /\ Len(<<w>> \o s) = Len(s) + 1 /\ Len(s) \in Nat \ {0}
  BY RequestFacts DEF Chain
<1>2. \A i \in 1 .. Len(s) + 1 : (<<w>> \o s)[i] = IF i = 1 THEN w ELSE s[i - 1]
  BY <1>1
<1>3. QED
  BY <1>1, <1>2, RequestFacts DEF Chain

\* A request that has a number names a writer.
LEMMA CurrentRequest ==
  ASSUME ControlOK, NEW c \in Conns, number[c] # 0
  PROVE  Current(c) \in Requests /\ Current(c)[1] = c
<1>1. number[c] \in 0 .. MaxRequests
  BY DEF ControlOK
<1>2. number[c] \in 1 .. MaxRequests
  BY <1>1, MaxRequestsAssumption
<1>3. QED
  BY <1>2, RequestFacts DEF Current

\* The server starts in a state of the invariant.
LEMMA InitIInv == Init => IInv
<1> SUFFICES ASSUME Init PROVE IInv
  OBVIOUS
<1>1. FlagsOK
  BY DEF Init, FlagsOK
<1>2. ControlOK /\ HeldOK
  BY HolderFacts, MaxRequestsAssumption DEF Init, ControlOK, HeldOK, Labels, InLineLabels
<1>3. WritersOK /\ ChainInv
  BY OriginalChain DEF Init, WritersOK, ChainInv
<1>4. NoFalseSuccess /\ RequestInv /\ PendingInv
  BY DEF Init, NoFalseSuccess, RequestInv, PendingInv, Untold
<1>5. LineInv /\ QuietInv /\ CalmInv
  BY DEF Init, LineInv, QuietInv, CalmInv
<1>6. QED
  BY <1>1, <1>2, <1>3, <1>4, <1>5 DEF IInv, TypeOK

-----------------------------------------------------------------------------
(* The steps.                                                              *)

\* A step of a connection that neither logs nor redirects.
FrameStep(c) ==
    \/ Dispatch(c) \/ Refuse(c) \/ Answer(c) \/ StartChild(c) \/ RunLogged(c)
    \/ EndOutput(c) \/ CommandEnds(c) \/ Return(c) \/ FailureLogged(c)
    \/ EndMessage(c) \/ ReadFails(c) \/ LeaveLogged(c) \/ PanicLogged(c)
    \/ Close(c) \/ Exit(c) \/ TakeDone(c) \/ Receive(c) \/ Disconnect(c)

\* A panic of the websocket library, in a handler or where a child's output is
\* copied.
PanicStep == \/ \E k \in Conns : Panics(k)
             \/ Crashes

\* A message starts, or a line passes a writer, and nobody panics.
MessageStarts(c) == pc[c] \in {"run", "query", "error", "end"} /\ ~direct[c]
                    /\ direct' = [direct EXCEPT ![c] = TRUE]
                    /\ UNCHANGED <<pc, tickets, number, link, result, told, captured,
                                   logs, logger, line, server, history>>
LinePasses == /\ line # <<>> /\ line' \in {<<>>, Tail(line)}
              /\ UNCHANGED <<pc, perConn, logs, logger, server, history>>

\* The line of a logger that is held comes from a connection or from Handle, and
\* every writer in it but the original from a connection.
LEMMA LineFacts ==
  ASSUME IInv, line # <<>>
  PROVE  /\ logger[1] \in Conns \cup {Main} /\ logger = <<logger[1]>>
         /\ Head(line) \in Writers
         /\ Head(line) # Original => Head(line) \in Requests /\ Head(line)[1] \in Conns
         /\ \E j \in 1 .. Len(output) : Head(line) = output[j]
<1>1. logger # None
  BY DEF IInv, LineInv
<1>2. logger[1] \in Conns \cup {Main} /\ logger = <<logger[1]>>
  BY <1>1, HolderFacts DEF IInv, TypeOK, ControlOK
<1>3. line \in Seq(Writers) /\ Len(line) \in Nat \ {0} /\ Head(line) = line[1]
  BY DEF IInv, TypeOK, WritersOK
<1>4. Head(line) \in Writers
  BY <1>3
<1>5. \E j \in 1 .. Len(output) : line[1] = output[j]
  BY <1>3 DEF IInv, LineInv
<1>6. QED
  BY <1>2, <1>3, <1>4, <1>5, RequestFacts DEF Writers

\* Without an overlap or a late redirection the writers of the output are the
\* original and that of its connection's last request: a line meets no other.
LEMMA NoCollision ==
  ASSUME IInv, ~overlap, ~late, line # <<>>
  PROVE  ~Foreign(Head(line))
<1> DEFINE w == Head(line)
<1> SUFFICES ASSUME w # Original, w # Current(w[1]) PROVE FALSE
  BY DEF Foreign
<1>1. w \in Requests
  BY LineFacts
<1>2. PICK j \in 1 .. Len(output) : w = output[j]
  BY LineFacts
<1>3. PICK v \in Requests : /\ restores = {[id |-> v, old |-> <<Original>>]}
                            /\ output = <<v, Original>>
  <2>1. ~(output = <<Original>>)
    BY <1>1, <1>2, RequestFacts
  <2>2. QED
    BY <2>1 DEF IInv, QuietInv
<1>4. w = v
  BY <1>1, <1>2, <1>3, RequestFacts
<1>5. v = Current(v[1])
  <2> DEFINE r == [id |-> v, old |-> <<Original>>]
  <2>1. r \in restores /\ r.id = v
    BY <1>3
  <2> HIDE DEF r
  <2>2. QED
    BY <2>1 DEF IInv, CalmInv
<1>6. QED
  BY <1>4, <1>5

\* A collision is a panic, and needs an overlap or a late redirection.
LEMMA CollisionPanics ==
  ASSUME IInv, line # <<>>, Foreign(Head(line)), NEW d \in Conns, Collision(d)
  PROVE  PanicStep /\ (overlap \/ late)
<1>1. PICK g \in {logger[1], d} : IF Recovered(g) THEN Panics(g) ELSE Crashes
  BY Zenon DEF Collision
<1>2. g \in Conns \cup {Main}
  BY LineFacts
<1>3. PanicStep
  BY <1>1, <1>2 DEF Recovered, PanicStep
<1>4. overlap \/ late
  BY NoCollision
<1>5. QED
  BY <1>3, <1>4

\* Every step is one of these.
LEMMA Steps ==
  ASSUME IInv, Next
  PROVE  \/ \E c \in Conns : \/ FrameStep(c) \/ BeginLine(c) \/ MessageStarts(c)
                             \/ ReadLogWriter(c) \/ SetOutput(c)
         \/ LinePasses \/ Restore \/ Interrupt \/ BeginShutdownLine \/ Shutdown
         \/ PanicStep /\ (overlap \/ late)
<1>1. ASSUME NEW c \in Conns, BeginMessage(c)
      PROVE  MessageStarts(c) \/ (PanicStep /\ (overlap \/ late))
  <2>1. \/ MessageStarts(c)
        \/ InLine(c) /\ Foreign(Head(line)) /\ Collision(c)
    BY <1>1, Zenon DEF BeginMessage, MessageStarts
  <2>2. QED
    BY <2>1, CollisionPanics DEF InLine
<1>2. ASSUME PassWriter
      PROVE  LinePasses \/ (PanicStep /\ (overlap \/ late))
  <2>1. line # <<>> /\ (LinePasses \/ (Foreign(Head(line)) /\ Collision(Head(line)[1])))
    BY <1>2 DEF PassWriter, LinePasses
  <2>2. Foreign(Head(line)) => Head(line)[1] \in Conns
    BY <2>1, LineFacts DEF Foreign
  <2>3. QED
    BY <2>1, <2>2, CollisionPanics
<1>3. QED
  BY <1>1, <1>2 DEF Next, Handle, Works, FrameStep, Stop

\* What the other steps leave alone.
LEMMA Frames ==
  ASSUME NEW c \in Conns, FrameStep(c)
  PROVE  /\ UNCHANGED <<captured, output, restores, line, overlap>>
         /\ logger' = logger \/ (logger = <<c>> /\ line = <<>> /\ logger' = None)
         /\ server' = server \/ (server = "up" /\ server' = "stopping")
         /\ late' = late \/ Receive(c)
  BY DEF FrameStep,
      Dispatch, Refuse, Answer, StartChild, RunLogged, EndOutput,
      CommandEnds, Return, FailureLogged, EndMessage, ReadFails,
      LeaveLogged, PanicLogged, Close, Exit, TakeDone, Receive, Disconnect,
      EndLine, Goto, perConn, logs, history

LEMMA PanicFrames ==
  ASSUME PanicStep
  PROVE  /\ UNCHANGED <<tickets, number, result, told, captured, output, restores,
                        overlap, late>>
         /\ line' = <<>> \/ UNCHANGED <<line, logger>>
         /\ server' \in {server, "crashed"}
  BY DEF PanicStep, Panics, Crashes, perConn, logs, history

\* Where a connection can be after such a step.
LEMMA LabelFrames ==
  ASSUME ControlOK, NEW c \in Conns, FrameStep(c), NEW d \in Conns
  PROVE  /\ pc'[d] \in {"start", "run", "run line"}
              => pc[d] \in {"start", "run", "run line"} /\ number'[d] = number[d]
         /\ pc'[d] \in {"set output", "panic", "panic line"} => pc'[d] = pc[d]
<1> USE DEF ControlOK, Goto, perConn, logs
<1>1. CASE Dispatch(c)          BY <1>1 DEF Dispatch, EndLine
<1>2. CASE Refuse(c)            BY <1>2 DEF Refuse
<1>3. CASE Answer(c)            BY <1>3 DEF Answer
<1>4. CASE StartChild(c)        BY <1>4 DEF StartChild
<1>5. CASE RunLogged(c)         BY <1>5 DEF RunLogged, EndLine
<1>6. CASE EndOutput(c)         BY <1>6 DEF EndOutput
<1>7. CASE CommandEnds(c)       BY <1>7 DEF CommandEnds
<1>8. CASE Return(c)            BY <1>8 DEF Return
<1>9. CASE FailureLogged(c)     BY <1>9 DEF FailureLogged, EndLine
<1>10. CASE EndMessage(c)       BY <1>10 DEF EndMessage
<1>11. CASE ReadFails(c)        BY <1>11 DEF ReadFails
<1>12. CASE LeaveLogged(c)      BY <1>12 DEF LeaveLogged, EndLine
<1>13. CASE Close(c)            BY <1>13 DEF Close
<1>14. CASE Exit(c)             BY <1>14 DEF Exit
<1>15. CASE TakeDone(c)         BY <1>15 DEF TakeDone
<1>16. CASE Receive(c)          BY <1>16 DEF Receive
<1>17. CASE Disconnect(c)       BY <1>17 DEF Disconnect
<1>18. CASE PanicLogged(c)      BY <1>18 DEF PanicLogged, EndLine
<1>19. QED
  BY <1>1, <1>2, <1>3, <1>4, <1>5, <1>6, <1>7, <1>8, <1>9, <1>10, <1>11,
     <1>12, <1>13, <1>14, <1>15, <1>16, <1>17, <1>18, Zenon DEF FrameStep

LEMMA PanicLabels ==
  ASSUME ControlOK, PanicStep, NEW d \in Conns
  PROVE  pc'[d] \in {pc[d], "panic"}
  BY DEF ControlOK, PanicStep, Panics, Crashes, Goto

-----------------------------------------------------------------------------
(* The invariant, part by part.                                            *)

\* The flags stay Boolean.
LEMMA StepFlags == IInv /\ Next => FlagsOK'
<1> SUFFICES ASSUME IInv, Next PROVE FlagsOK'
  OBVIOUS
<1>1. direct \in [Conns -> BOOLEAN] /\ overlap \in BOOLEAN /\ late \in BOOLEAN
  BY DEF IInv, TypeOK, FlagsOK
<1>2. \/ direct' = direct
      \/ \E c \in Conns : direct' = [direct EXCEPT ![c] = TRUE]
      \/ \E c \in Conns : direct' = [direct EXCEPT ![c] = FALSE]
  <2>1. ASSUME NEW c \in Conns, FrameStep(c)
        PROVE  direct' = direct \/ direct' = [direct EXCEPT ![c] = FALSE]
    BY <2>1 DEF FrameStep,
        Dispatch, Refuse, Answer, StartChild, RunLogged, EndOutput,
        CommandEnds, Return, FailureLogged, EndMessage, ReadFails,
        LeaveLogged, PanicLogged, Close, Exit, TakeDone, Receive, Disconnect,
        EndLine, Goto, perConn, logs
  <2>2. QED
    BY <2>1, Steps DEF BeginLine, MessageStarts, ReadLogWriter, SetOutput, LinePasses,
       Restore, Interrupt, BeginShutdownLine, Shutdown, PanicStep, Panics, Crashes,
       perConn, logs
<1>3. direct' \in [Conns -> BOOLEAN]
  BY <1>1, <1>2
<1>4. overlap' = overlap \/ \E c \in Conns : ReadLogWriter(c) \/ SetOutput(c)
  BY Steps, Frames, PanicFrames
  DEF BeginLine, MessageStarts, LinePasses, Restore, Interrupt, BeginShutdownLine,
      Shutdown, history
<1>5. late' = late \/ \E c \in Conns : Receive(c)
  BY Steps, Frames, PanicFrames
  DEF BeginLine, MessageStarts, ReadLogWriter, SetOutput, LinePasses, Restore, Interrupt,
      BeginShutdownLine, Shutdown, history
<1>6. overlap' \in BOOLEAN
  BY <1>1, <1>4, Zenon DEF ReadLogWriter, SetOutput
<1>7. late' \in BOOLEAN
  BY <1>1, <1>5, Zenon DEF Receive
<1>8. QED
  BY <1>3, <1>6, <1>7 DEF FlagsOK

\* A new request gets the next number.
LEMMA NextTicket ==
  ASSUME ControlOK, NEW c \in Conns
  PROVE  Receive(c) => tickets' \in 0 .. MaxRequests /\ tickets' # 0
<1>1. tickets \in 0 .. MaxRequests
  BY DEF ControlOK
<1>2. Receive(c) => tickets < MaxRequests /\ tickets' = tickets + 1
  BY DEF Receive
<1>3. QED
  BY <1>1, <1>2, MaxRequestsAssumption

\* Where a handler waits for its line.
LEMMA LineLabels ==
  ASSUME NEW c \in Conns, BeginLine(c)
  PROVE  \E l \in {"recv", "run", "failure", "leave", "panic"}, m \in InLineLabels :
            /\ pc[c] = l /\ pc' = [pc EXCEPT ![c] = m]
            /\ l = "leave" <=> m = "leave line"
            /\ l = "panic" <=> m = "panic line"
            /\ l = "recv" <=> m = "recv line"
            /\ l = "run" <=> m = "run line"
<1>1. DOMAIN Logging = {"recv", "run", "failure", "leave", "panic"}
  BY DEF Logging
<1>2. /\ Logging["recv"] = "recv line" /\ Logging["run"] = "run line"
      /\ Logging["failure"] = "failure line" /\ Logging["leave"] = "leave line"
      /\ Logging["panic"] = "panic line"
  BY DEF Logging
<1>3. pc[c] \in DOMAIN Logging /\ pc' = [pc EXCEPT ![c] = Logging[pc[c]]]
  BY DEF BeginLine, Goto
<1>4. CASE pc[c] = "recv"       BY <1>2, <1>3, <1>4 DEF InLineLabels
<1>5. CASE pc[c] = "run"        BY <1>2, <1>3, <1>5 DEF InLineLabels
<1>6. CASE pc[c] = "failure"    BY <1>2, <1>3, <1>6 DEF InLineLabels
<1>7. CASE pc[c] = "leave"      BY <1>2, <1>3, <1>7 DEF InLineLabels
<1>8. CASE pc[c] = "panic"      BY <1>2, <1>3, <1>8 DEF InLineLabels
<1>9. QED
  BY <1>1, <1>3, <1>4, <1>5, <1>6, <1>7, <1>8

\* A step of a connection keeps the types of the control state.
LEMMA FrameControl ==
  ASSUME ControlOK, NEW c \in Conns, FrameStep(c)
  PROVE  ControlOK'
<1> USE DEF ControlOK, Labels, Goto, perConn, logs
<1>0. Receive(c) => tickets' \in 0 .. MaxRequests
  BY NextTicket
<1>1. CASE Dispatch(c)
  <2>1. PICK next \in {"duplicate", "query", "refused", "exit"} : EndLine(c, next)
    BY <1>1, Zenon DEF Dispatch
  <2>2. QED
    BY <1>1, <2>1 DEF Dispatch, EndLine
<1>2. CASE Refuse(c)            BY <1>2 DEF Refuse
<1>3. CASE Answer(c)            BY <1>3 DEF Answer
<1>4. CASE StartChild(c)        BY <1>4 DEF StartChild
<1>5. CASE RunLogged(c)         BY <1>5 DEF RunLogged, EndLine
<1>6. CASE EndOutput(c)
  <2>0. UNCHANGED <<tickets, number, link, told, logger, server>> /\ pc[c] \in {"run"}
    BY <1>6 DEF EndOutput, logs
  <2>1. CASE link[c] = "open"
    <3>1. pc' = pc /\ result' = result
      BY <1>6, <2>1 DEF EndOutput, Goto
    <3>2. QED
      BY <2>0, <2>1, <3>1
  <2>2. CASE link[c] # "open"
    <3>1. pc' = [pc EXCEPT ![c] = "return"] /\ result' = [result EXCEPT ![c] = "failed"]
      BY <1>6, <2>2 DEF EndOutput, Goto
    <3>2. QED
      BY <2>0, <2>2, <3>1
  <2>3. QED
    BY <1>6, <2>0, <2>1, <2>2
<1>7. CASE CommandEnds(c)       BY <1>7 DEF CommandEnds
<1>8. CASE Return(c)            BY <1>8 DEF Return
<1>9. CASE FailureLogged(c)     BY <1>9 DEF FailureLogged, EndLine
<1>10. CASE EndMessage(c)
  <2>0. UNCHANGED <<tickets, number, link, result, logger, server>> /\ pc[c] \in {"error", "end"}
    BY <1>10 DEF EndMessage, logs
  <2>1. CASE link[c] = "gone"
    <3>1. pc' = [pc EXCEPT ![c] = "leave"] /\ told' = told
      BY <1>10, <2>1 DEF EndMessage, Goto
    <3>2. QED
      BY <2>0, <2>1, <3>1
  <2>2. CASE link[c] # "gone" /\ pc[c] = "error"
    <3>1. pc' = [pc EXCEPT ![c] = "end"] /\ told' = [told EXCEPT ![c] = "error"]
      BY <1>10, <2>2 DEF EndMessage, Goto
    <3>2. QED
      BY <2>0, <2>2, <3>1
  <2>3. CASE link[c] # "gone" /\ pc[c] = "end"
    <3>1. /\ pc' = [pc EXCEPT ![c] = "read"]
          /\ told' = [told EXCEPT ![c] = IF told[c] = "error" THEN "failure" ELSE "success"]
      BY <1>10, <2>3 DEF EndMessage, Goto
    <3>2. QED
      BY <2>0, <2>3, <3>1
  <2>4. QED
    BY <1>10, <2>0, <2>1, <2>2, <2>3
<1>11. CASE ReadFails(c)        BY <1>11 DEF ReadFails
<1>12. CASE LeaveLogged(c)      BY <1>12 DEF LeaveLogged, EndLine
<1>13. CASE Close(c)            BY <1>13 DEF Close
<1>14. CASE Exit(c)             BY <1>14 DEF Exit
<1>15. CASE TakeDone(c)         BY <1>15 DEF TakeDone
<1>16. CASE Receive(c)          BY <1>0, <1>16 DEF Receive
<1>17. CASE Disconnect(c)       BY <1>17 DEF Disconnect
<1>18. CASE PanicLogged(c)      BY <1>18 DEF PanicLogged, EndLine
<1>19. QED
  BY <1>1, <1>2, <1>3, <1>4, <1>5, <1>6, <1>7, <1>8, <1>9, <1>10, <1>11,
     <1>12, <1>13, <1>14, <1>15, <1>16, <1>17, <1>18, Zenon DEF FrameStep

\* The handlers are where they can be.
LEMMA StepControl == IInv /\ Next => ControlOK'
<1> SUFFICES ASSUME IInv, Next PROVE ControlOK'
  OBVIOUS
<1>0. ControlOK
  BY DEF IInv, TypeOK
<1>1. ASSUME NEW c \in Conns, BeginLine(c) PROVE ControlOK'
  <2>1. UNCHANGED <<tickets, number, link, result, told, server>> /\ logger' = <<c>>
    BY <1>1 DEF BeginLine, perConn
  <2>2. PICK m \in InLineLabels : pc' = [pc EXCEPT ![c] = m]
    BY <1>1, LineLabels
  <2>3. QED
    BY <1>0, <2>1, <2>2 DEF ControlOK, Labels, InLineLabels
<1>2. ASSUME NEW c \in Conns, MessageStarts(c) \/ ReadLogWriter(c) \/ SetOutput(c)
      PROVE  ControlOK'
  BY <1>0, <1>2
  DEF ControlOK, Labels, Goto, perConn, MessageStarts, ReadLogWriter, SetOutput
<1>3. CASE LinePasses \/ Restore \/ Interrupt \/ BeginShutdownLine \/ Shutdown
  BY <1>0, <1>3
  DEF ControlOK, perConn, LinePasses, Restore, Interrupt, BeginShutdownLine, Shutdown
<1>4. ASSUME NEW k \in Conns, Panics(k) PROVE ControlOK'
  BY <1>0, <1>4 DEF ControlOK, Labels, Goto, Panics
<1>5. CASE Crashes
  BY <1>0, <1>5 DEF ControlOK, perConn, Crashes
<1>6. QED
  BY <1>0, <1>1, <1>2, <1>3, <1>4, <1>5, FrameControl, Steps DEF PanicStep

\* Who moves from one label to another outside lines leaves the logger alone.
LEMMA FrameHeld ==
  ASSUME ControlOK, HeldOK, NEW c \in Conns, FrameStep(c)
  PROVE  \A d \in Conns : pc'[d] \in InLineLabels <=> logger' = <<d>>
<1> TAKE d \in Conns
<1> USE HolderFacts DEF ControlOK, HeldOK, InLineLabels, Goto, perConn, logs
<1>1. CASE Dispatch(c)
  <2>1. PICK next \in {"duplicate", "query", "refused", "exit"} : EndLine(c, next)
    BY <1>1, Zenon DEF Dispatch
  <2>2. QED
    BY <1>1, <2>1 DEF Dispatch, EndLine
<1>2. CASE Refuse(c)            BY <1>2 DEF Refuse
<1>3. CASE Answer(c)            BY <1>3 DEF Answer
<1>4. CASE StartChild(c)        BY <1>4 DEF StartChild
<1>5. CASE RunLogged(c)         BY <1>5 DEF RunLogged, EndLine
<1>6. CASE EndOutput(c)
  <2>0. UNCHANGED <<tickets, number, link, told, logger, server>> /\ pc[c] \in {"run"}
    BY <1>6 DEF EndOutput, logs
  <2>1. CASE link[c] = "open"
    <3>1. pc' = pc /\ result' = result
      BY <1>6, <2>1 DEF EndOutput, Goto
    <3>2. QED
      BY <2>0, <2>1, <3>1
  <2>2. CASE link[c] # "open"
    <3>1. pc' = [pc EXCEPT ![c] = "return"] /\ result' = [result EXCEPT ![c] = "failed"]
      BY <1>6, <2>2 DEF EndOutput, Goto
    <3>2. QED
      BY <2>0, <2>2, <3>1
  <2>3. QED
    BY <1>6, <2>0, <2>1, <2>2
<1>7. CASE CommandEnds(c)       BY <1>7 DEF CommandEnds
<1>8. CASE Return(c)            BY <1>8 DEF Return
<1>9. CASE FailureLogged(c)     BY <1>9 DEF FailureLogged, EndLine
<1>10. CASE EndMessage(c)
  <2>0. UNCHANGED <<tickets, number, link, result, logger, server>> /\ pc[c] \in {"error", "end"}
    BY <1>10 DEF EndMessage, logs
  <2>1. CASE link[c] = "gone"
    <3>1. pc' = [pc EXCEPT ![c] = "leave"] /\ told' = told
      BY <1>10, <2>1 DEF EndMessage, Goto
    <3>2. QED
      BY <2>0, <2>1, <3>1
  <2>2. CASE link[c] # "gone" /\ pc[c] = "error"
    <3>1. pc' = [pc EXCEPT ![c] = "end"] /\ told' = [told EXCEPT ![c] = "error"]
      BY <1>10, <2>2 DEF EndMessage, Goto
    <3>2. QED
      BY <2>0, <2>2, <3>1
  <2>3. CASE link[c] # "gone" /\ pc[c] = "end"
    <3>1. /\ pc' = [pc EXCEPT ![c] = "read"]
          /\ told' = [told EXCEPT ![c] = IF told[c] = "error" THEN "failure" ELSE "success"]
      BY <1>10, <2>3 DEF EndMessage, Goto
    <3>2. QED
      BY <2>0, <2>3, <3>1
  <2>4. QED
    BY <1>10, <2>0, <2>1, <2>2, <2>3
<1>11. CASE ReadFails(c)        BY <1>11 DEF ReadFails
<1>12. CASE LeaveLogged(c)      BY <1>12 DEF LeaveLogged, EndLine
<1>13. CASE Close(c)            BY <1>13 DEF Close
<1>14. CASE Exit(c)             BY <1>14 DEF Exit
<1>15. CASE TakeDone(c)         BY <1>15 DEF TakeDone
<1>16. CASE Receive(c)          BY <1>16 DEF Receive
<1>17. CASE Disconnect(c)       BY <1>17 DEF Disconnect
<1>18. CASE PanicLogged(c)      BY <1>18 DEF PanicLogged, EndLine
<1>19. QED
  BY <1>1, <1>2, <1>3, <1>4, <1>5, <1>6, <1>7, <1>8, <1>9, <1>10, <1>11,
     <1>12, <1>13, <1>14, <1>15, <1>16, <1>17, <1>18, Zenon DEF FrameStep

\* Handle holds the logger for its last line only.
LEMMA StepMain ==
  ASSUME IInv, Next
  PROVE  /\ server' = "logging" => logger' = <<Main>>
         /\ logger' = <<Main>> => server' \in {"logging", "crashed"}
<1>0. /\ server = "logging" => logger = <<Main>>
      /\ logger = <<Main>> => server \in {"logging", "crashed"}
  BY DEF IInv, TypeOK, HeldOK
<1> USE HolderFacts
<1>1. ASSUME NEW c \in Conns, FrameStep(c)
      PROVE  /\ server' = "logging" => logger' = <<Main>>
             /\ logger' = <<Main>> => server' \in {"logging", "crashed"}
  BY <1>0, <1>1, Frames
<1>2. ASSUME NEW c \in Conns, BeginLine(c)
      PROVE  /\ server' = "logging" => logger' = <<Main>>
             /\ logger' = <<Main>> => server' \in {"logging", "crashed"}
  BY <1>0, <1>2 DEF BeginLine
<1>3. ASSUME NEW c \in Conns, MessageStarts(c) \/ ReadLogWriter(c) \/ SetOutput(c)
      PROVE  UNCHANGED <<server, logger>>
  BY <1>3 DEF MessageStarts, ReadLogWriter, SetOutput
<1>4. CASE LinePasses \/ Restore
  BY <1>0, <1>4 DEF LinePasses, Restore
<1>5. CASE Interrupt \/ BeginShutdownLine \/ Shutdown
  BY <1>0, <1>5 DEF Interrupt, BeginShutdownLine, Shutdown
<1>6. CASE PanicStep
  BY <1>0, <1>6 DEF PanicStep, Panics, Crashes
<1>7. QED
  BY <1>0, <1>1, <1>2, <1>3, <1>4, <1>5, <1>6, Steps

\* The logger is held by the handler that is inside a line, and by no other.
LEMMA StepHeld == IInv /\ Next => HeldOK'
<1> SUFFICES ASSUME IInv, Next
             PROVE  \A d \in Conns : pc'[d] \in InLineLabels <=> logger' = <<d>>
  BY StepMain DEF HeldOK
<1>0. ControlOK /\ HeldOK
  BY DEF IInv, TypeOK
<1>1. ASSUME NEW c \in Conns, BeginLine(c), NEW d \in Conns
      PROVE  pc'[d] \in InLineLabels <=> logger' = <<d>>
  <2>1. logger = None /\ logger' = <<c>>
    BY <1>1 DEF BeginLine
  <2>2. pc[d] \notin InLineLabels
    BY <1>0, <2>1, HolderFacts DEF HeldOK
  <2>3. PICK m \in InLineLabels : pc' = [pc EXCEPT ![c] = m]
    BY <1>1, LineLabels
  <2>4. QED
    BY <1>0, <2>1, <2>2, <2>3, HolderFacts DEF ControlOK
<1>2. ASSUME NEW c \in Conns, MessageStarts(c) \/ ReadLogWriter(c) \/ SetOutput(c),
             NEW d \in Conns
      PROVE  pc'[d] \in InLineLabels <=> logger' = <<d>>
  BY <1>0, <1>2
  DEF ControlOK, HeldOK, InLineLabels, Goto, MessageStarts, ReadLogWriter, SetOutput
<1>3. ASSUME LinePasses \/ Restore \/ Interrupt \/ Crashes, NEW d \in Conns
      PROVE  pc'[d] \in InLineLabels <=> logger' = <<d>>
  BY <1>0, <1>3 DEF HeldOK, LinePasses, Restore, Interrupt, Crashes
<1>4. ASSUME BeginShutdownLine \/ Shutdown, NEW d \in Conns
      PROVE  pc'[d] \in InLineLabels <=> logger' = <<d>>
  BY <1>0, <1>4, HolderFacts DEF HeldOK, BeginShutdownLine, Shutdown
<1>5. ASSUME NEW k \in Conns, Panics(k), NEW d \in Conns
      PROVE  pc'[d] \in InLineLabels <=> logger' = <<d>>
  <2>1. CASE d = k
    BY <1>0, <1>5, <2>1, HolderFacts DEF ControlOK, HeldOK, InLineLabels, Goto, Panics
  <2>2. CASE d # k
    <3>1. pc'[d] = pc[d]
      BY <1>0, <1>5, <2>2 DEF ControlOK, Goto, Panics
    <3>2. IF logger = <<k>> THEN logger' = None ELSE logger' = logger
      BY <1>5 DEF Panics
    <3>3. QED
      BY <1>0, <2>2, <3>1, <3>2, HolderFacts DEF HeldOK
  <2>3. QED
    BY <2>1, <2>2
<1>6. QED
  BY <1>0, <1>1, <1>2, <1>3, <1>4, <1>5, FrameHeld, Steps DEF PanicStep

\* A step of a connection answers only a request that has its result.
LEMMA FrameRequest ==
  ASSUME ControlOK, RequestInv, NoFalseSuccess, NEW c \in Conns, FrameStep(c)
  PROVE  RequestInv' /\ NoFalseSuccess'
<1> USE DEF ControlOK, RequestInv, NoFalseSuccess, Untold, Goto, perConn, logs
<1>0. Receive(c) => tickets' # 0
  BY NextTicket
<1>1. CASE Dispatch(c)
  <2>1. PICK next \in {"duplicate", "query", "refused", "exit"} : EndLine(c, next)
    BY <1>1, Zenon DEF Dispatch
  <2>2. QED
    BY <1>1, <2>1 DEF Dispatch, EndLine
<1>2. CASE Refuse(c)            BY <1>2 DEF Refuse
<1>3. CASE Answer(c)            BY <1>3 DEF Answer
<1>4. CASE StartChild(c)        BY <1>4 DEF StartChild
<1>5. CASE RunLogged(c)         BY <1>5 DEF RunLogged, EndLine
<1>6. CASE EndOutput(c)
  <2>0. UNCHANGED <<tickets, number, link, told, logger, server>> /\ pc[c] \in {"run"}
    BY <1>6 DEF EndOutput, logs
  <2>1. CASE link[c] = "open"
    <3>1. pc' = pc /\ result' = result
      BY <1>6, <2>1 DEF EndOutput, Goto
    <3>2. QED
      BY <2>0, <2>1, <3>1
  <2>2. CASE link[c] # "open"
    <3>1. pc' = [pc EXCEPT ![c] = "return"] /\ result' = [result EXCEPT ![c] = "failed"]
      BY <1>6, <2>2 DEF EndOutput, Goto
    <3>2. QED
      BY <2>0, <2>2, <3>1
  <2>3. QED
    BY <1>6, <2>0, <2>1, <2>2
<1>7. CASE CommandEnds(c)       BY <1>7 DEF CommandEnds
<1>8. CASE Return(c)            BY <1>8 DEF Return
<1>9. CASE FailureLogged(c)     BY <1>9 DEF FailureLogged, EndLine
<1>10. CASE EndMessage(c)
  <2>0. UNCHANGED <<tickets, number, link, result, logger, server>> /\ pc[c] \in {"error", "end"}
    BY <1>10 DEF EndMessage, logs
  <2>1. CASE link[c] = "gone"
    <3>1. pc' = [pc EXCEPT ![c] = "leave"] /\ told' = told
      BY <1>10, <2>1 DEF EndMessage, Goto
    <3>2. QED
      BY <2>0, <2>1, <3>1
  <2>2. CASE link[c] # "gone" /\ pc[c] = "error"
    <3>1. pc' = [pc EXCEPT ![c] = "end"] /\ told' = [told EXCEPT ![c] = "error"]
      BY <1>10, <2>2 DEF EndMessage, Goto
    <3>2. QED
      BY <2>0, <2>2, <3>1
  <2>3. CASE link[c] # "gone" /\ pc[c] = "end"
    <3>1. /\ pc' = [pc EXCEPT ![c] = "read"]
          /\ told' = [told EXCEPT ![c] = IF told[c] = "error" THEN "failure" ELSE "success"]
      BY <1>10, <2>3 DEF EndMessage, Goto
    <3>2. QED
      BY <2>0, <2>3, <3>1
  <2>4. QED
    BY <1>10, <2>0, <2>1, <2>2, <2>3
<1>11. CASE ReadFails(c)        BY <1>11 DEF ReadFails
<1>12. CASE LeaveLogged(c)      BY <1>12 DEF LeaveLogged, EndLine
<1>13. CASE Close(c)            BY <1>13 DEF Close
<1>14. CASE Exit(c)             BY <1>14 DEF Exit
<1>15. CASE TakeDone(c)         BY <1>15 DEF TakeDone
<1>16. CASE Receive(c)          BY <1>0, <1>16 DEF Receive
<1>17. CASE Disconnect(c)       BY <1>17 DEF Disconnect
<1>18. CASE PanicLogged(c)      BY <1>18 DEF PanicLogged, EndLine
<1>19. QED
  BY <1>1, <1>2, <1>3, <1>4, <1>5, <1>6, <1>7, <1>8, <1>9, <1>10, <1>11,
     <1>12, <1>13, <1>14, <1>15, <1>16, <1>17, <1>18, Zenon DEF FrameStep

\* A request is answered once it has its result, and truthfully.
LEMMA StepRequest == IInv /\ Next => RequestInv' /\ NoFalseSuccess'
<1> SUFFICES ASSUME IInv, Next PROVE RequestInv' /\ NoFalseSuccess'
  OBVIOUS
<1>0. ControlOK /\ RequestInv /\ NoFalseSuccess
  BY DEF IInv, TypeOK
<1>1. ASSUME NEW c \in Conns, BeginLine(c) PROVE RequestInv' /\ NoFalseSuccess'
  <2>1. UNCHANGED <<number, result, told>>
    BY <1>1 DEF BeginLine, perConn
  <2>2. PICK l \in {"recv", "run", "failure", "leave", "panic"}, m \in InLineLabels :
           /\ pc[c] = l /\ pc' = [pc EXCEPT ![c] = m]
           /\ l = "leave" <=> m = "leave line"
           /\ l = "panic" <=> m = "panic line"
    BY <1>1, LineLabels
  <2>3. QED
    BY <1>0, <2>1, <2>2 DEF ControlOK, RequestInv, NoFalseSuccess, Untold, InLineLabels
<1>2. ASSUME NEW c \in Conns, MessageStarts(c) \/ ReadLogWriter(c) \/ SetOutput(c)
      PROVE  RequestInv' /\ NoFalseSuccess'
  BY <1>0, <1>2
  DEF ControlOK, RequestInv, NoFalseSuccess, Untold, Goto, perConn, MessageStarts,
      ReadLogWriter, SetOutput
<1>3. CASE LinePasses \/ Restore \/ Interrupt \/ BeginShutdownLine \/ Shutdown
  BY <1>0, <1>3
  DEF RequestInv, NoFalseSuccess, perConn, LinePasses, Restore, Interrupt,
      BeginShutdownLine, Shutdown
<1>4. CASE PanicStep
  BY <1>0, <1>4, PanicFrames, PanicLabels DEF RequestInv, NoFalseSuccess, Untold
<1>5. QED
  BY <1>0, <1>1, <1>2, <1>3, <1>4, FrameRequest, Steps

\* The outputs are chains of writers.
LEMMA StepWriters == IInv /\ Next => WritersOK' /\ ChainInv'
<1> SUFFICES ASSUME IInv, Next PROVE WritersOK' /\ ChainInv'
  OBVIOUS
<1>0. ControlOK /\ WritersOK /\ ChainInv /\ RequestInv
  BY DEF IInv, TypeOK
<1>1. ASSUME UNCHANGED <<captured, output, restores>>,
             line' \in {line, <<>>, output} \/ (line # <<>> /\ line' = Tail(line))
      PROVE  WritersOK' /\ ChainInv'
  <2>1. line' \in Seq(Writers)
    <3>1. CASE line' = <<>>
      BY <3>1
    <3>2. CASE line # <<>> /\ line' = Tail(line)
      BY <1>0, <3>2 DEF WritersOK
    <3>3. CASE line' = line \/ line' = output
      BY <1>0, <3>3 DEF WritersOK
    <3>4. QED
      BY <1>1, <3>1, <3>2, <3>3
  <2>2. QED
    BY <1>0, <1>1, <2>1 DEF WritersOK, ChainInv
<1>2. ASSUME NEW c \in Conns, ReadLogWriter(c) PROVE WritersOK' /\ ChainInv'
  BY <1>0, <1>2 DEF ReadLogWriter, WritersOK, ChainInv, logs
<1>3. ASSUME NEW c \in Conns, SetOutput(c) PROVE WritersOK' /\ ChainInv'
  <2>1. Current(c) \in Requests
    BY <1>0, <1>3, CurrentRequest DEF SetOutput, RequestInv, Untold
  <2>2. captured[c] \in Seq(Writers) /\ Chain(captured[c])
    BY <1>0 DEF WritersOK, ChainInv
  <2>3. output' \in Seq(Writers) /\ Chain(output')
    BY <1>3, <2>1, <2>2, LongerChain DEF SetOutput
  <2>4. restores' = restores \cup {[id |-> Current(c), old |-> captured[c]]}
        /\ UNCHANGED <<captured, line>>
    BY <1>3 DEF SetOutput, perConn
  <2>5. QED
    BY <1>0, <2>1, <2>2, <2>3, <2>4 DEF WritersOK, ChainInv
<1>4. CASE Restore
  <2>1. PICK r \in restores : output' = r.old /\ restores' = restores \ {r}
    BY <1>4 DEF Restore
  <2>2. UNCHANGED <<captured, line>>
    BY <1>4 DEF Restore, perConn
  <2>3. QED
    BY <1>0, <2>1, <2>2 DEF WritersOK, ChainInv
<1>5. QED
  BY <1>1, <1>2, <1>3, <1>4, Steps, Frames, PanicFrames
  DEF BeginLine, MessageStarts, LinePasses, Interrupt, BeginShutdownLine, Shutdown,
      perConn, logs

\* A line passes only writers of the output it started with.
LEMMA StepLine == IInv /\ Next => LineInv'
<1> SUFFICES ASSUME IInv, Next PROVE LineInv'
  OBVIOUS
<1>0. LineInv /\ WritersOK
  BY DEF IInv, TypeOK
<1>1. ASSUME line' = <<>> PROVE LineInv'
  BY <1>1 DEF LineInv
<1>2. ASSUME UNCHANGED <<line, logger, output>> PROVE LineInv'
  BY <1>0, <1>2 DEF LineInv
<1>3. ASSUME NEW c \in Conns, BeginLine(c) PROVE LineInv'
  BY <1>3, HolderFacts DEF LineInv, BeginLine, logs
<1>4. CASE LinePasses
  <2>1. UNCHANGED <<logger, output>> /\ line # <<>> /\ line' \in {<<>>, Tail(line)}
    BY <1>4 DEF LinePasses, logs
  <2>2. CASE line' = Tail(line)
    <3>1. line \in Seq(Writers) /\ Len(line) \in Nat \ {0}
      BY <1>0, <2>1 DEF WritersOK
    <3>2. Len(line') = Len(line) - 1 /\ \A i \in 1 .. Len(line') : line'[i] = line[i + 1]
      BY <2>2, <3>1
    <3>3. QED
      BY <1>0, <2>1, <3>1, <3>2 DEF LineInv
  <2>3. QED
    BY <1>1, <2>1, <2>2
<1>5. ASSUME logger = None, line' = line PROVE LineInv'
  BY <1>0, <1>1, <1>5 DEF LineInv
<1>6. ASSUME NEW c \in Conns, FrameStep(c) PROVE LineInv'
  BY <1>1, <1>2, <1>6, Frames
<1>7. CASE PanicStep
  BY <1>1, <1>2, <1>7, PanicFrames
<1>8. ASSUME NEW c \in Conns, ReadLogWriter(c) \/ SetOutput(c)
      PROVE  logger = None /\ line' = line
  BY <1>8 DEF ReadLogWriter, SetOutput
<1>9. ASSUME NEW c \in Conns, MessageStarts(c) PROVE LineInv'
  BY <1>2, <1>9 DEF MessageStarts, logs
<1>10. CASE Restore
  BY <1>5, <1>10 DEF Restore
<1>11. CASE Interrupt
  BY <1>2, <1>11 DEF Interrupt, logs
<1>12. CASE BeginShutdownLine
  BY <1>12, HolderFacts DEF LineInv, BeginShutdownLine, logs
<1>13. CASE Shutdown
  BY <1>1, <1>13 DEF Shutdown
<1>14. QED
  BY <1>3, <1>4, <1>5, <1>6, <1>7, <1>8, <1>9, <1>10, <1>11, <1>12, <1>13, Steps

\* What a running command has redirected is not restored before it returns.
LEMMA StepPending == IInv /\ Next => PendingInv'
<1> SUFFICES ASSUME IInv, Next, NEW d \in Conns,
                    pc'[d] \in {"start", "run", "run line"}
             PROVE  <<d, number'[d]>> \in {r.id : r \in restores'}
  BY DEF PendingInv, Pending, Current
<1>0. ControlOK /\ WritersOK
  BY DEF IInv, TypeOK
<1>1. ASSUME pc[d] \in {"start", "run", "run line"}, number'[d] = number[d],
             restores \subseteq restores'
      PROVE  <<d, number'[d]>> \in {r.id : r \in restores'}
  BY <1>1 DEF IInv, PendingInv, Pending, Current
<1>2. ASSUME NEW c \in Conns, FrameStep(c)
      PROVE  <<d, number'[d]>> \in {r.id : r \in restores'}
  BY <1>0, <1>1, <1>2, Frames, LabelFrames
<1>3. ASSUME NEW c \in Conns, BeginLine(c)
      PROVE  <<d, number'[d]>> \in {r.id : r \in restores'}
  <2>1. UNCHANGED <<number, restores>>
    BY <1>3 DEF BeginLine, perConn, logs
  <2>2. pc[d] \in {"start", "run", "run line"}
    <3>1. PICK l \in {"recv", "run", "failure", "leave", "panic"}, m \in InLineLabels :
             /\ pc[c] = l /\ pc' = [pc EXCEPT ![c] = m]
             /\ l = "run" <=> m = "run line"
      BY <1>3, LineLabels
    <3>2. QED
      BY <1>0, <3>1 DEF ControlOK, InLineLabels
  <2>3. QED
    BY <1>1, <2>1, <2>2
<1>4. ASSUME NEW c \in Conns, MessageStarts(c)
      PROVE  <<d, number'[d]>> \in {r.id : r \in restores'}
  BY <1>1, <1>4 DEF MessageStarts, logs
<1>5. ASSUME NEW c \in Conns, ReadLogWriter(c)
      PROVE  <<d, number'[d]>> \in {r.id : r \in restores'}
  BY <1>0, <1>1, <1>5 DEF ReadLogWriter, ControlOK, Goto, logs
<1>6. ASSUME NEW c \in Conns, SetOutput(c)
      PROVE  <<d, number'[d]>> \in {r.id : r \in restores'}
  <2>1. /\ number' = number /\ pc' = [pc EXCEPT ![c] = "start"]
        /\ restores' = restores \cup {[id |-> Current(c), old |-> captured[c]]}
    BY <1>6 DEF SetOutput, Goto, perConn
  <2>2. CASE d = c
    <3> DEFINE q == [id |-> Current(c), old |-> captured[c]]
    <3>1. q \in restores' /\ q.id = Current(c)
      BY <2>1
    <3>2. Current(c) = <<d, number'[d]>>
      BY <2>1, <2>2 DEF Current
    <3> HIDE DEF q
    <3>3. QED
      BY <3>1, <3>2
  <2>3. CASE d # c
    <3>1. pc[d] \in {"start", "run", "run line"}
      BY <1>0, <2>1, <2>3 DEF ControlOK
    <3>2. QED
      BY <1>1, <2>1, <3>1
  <2>4. QED
    BY <2>2, <2>3
<1>7. CASE Restore
  <2>1. PICK r \in restores : Ended(r.id) /\ restores' = restores \ {r}
    BY <1>7 DEF Restore
  <2>2. UNCHANGED <<pc, number>>
    BY <1>7 DEF Restore, perConn
  <2>3. PICK q \in restores : q.id = Current(d)
    BY <2>2 DEF IInv, PendingInv, Pending
  <2>4. Current(d)[1] = d
    BY DEF Current
  <2>5. q # r
    <3>1. SUFFICES ASSUME pc[d] \in {"start", "run", "run line"}
                   PROVE  ~Ended(Current(d))
      BY <2>1, <2>2, <2>3
    <3>2. QED
      BY <2>4, <3>1 DEF Ended
  <2>6. QED
    BY <2>1, <2>2, <2>3, <2>5 DEF Current
<1>8. CASE LinePasses \/ Interrupt \/ BeginShutdownLine \/ Shutdown
  BY <1>1, <1>8
  DEF LinePasses, Interrupt, BeginShutdownLine, Shutdown, perConn, logs
<1>9. CASE PanicStep
  BY <1>0, <1>1, <1>9, PanicFrames, PanicLabels
<1>10. QED
  BY <1>2, <1>3, <1>4, <1>5, <1>6, <1>7, <1>8, <1>9, Steps

\* Two one-element tuples make a pair.
LEMMA Pair == ASSUME NEW W, NEW a \in W, NEW b \in W PROVE <<a>> \o <<b>> = <<a, b>>
<1> DEFINE s == <<a>> \o <<b>>
           t == <<a, b>>
<1>1. <<a>> \in Seq(W) /\ <<b>> \in Seq(W) /\ t \in Seq(W)
  OBVIOUS
<1>2. s \in Seq(W) /\ Len(s) = 2 /\ s[1] = a /\ s[2] = b
  BY <1>1
<1>3. Len(t) = 2 /\ t[1] = a /\ t[2] = b
  OBVIOUS
<1> HIDE DEF s, t
<1>4. s = t
  BY <1>1, <1>2, <1>3, SeqEqual
<1>5. QED
  BY <1>4 DEF s, t

\* Without an overlap at most one redirection is in place.
LEMMA StepQuiet == IInv /\ Next => QuietInv'
<1> SUFFICES ASSUME IInv, Next, ~overlap' PROVE QuietInv'
  BY DEF QuietInv
<1>0. ControlOK /\ WritersOK /\ QuietInv /\ RequestInv
  BY DEF IInv, TypeOK
<1> DEFINE Settled == \/ restores = {} /\ output = <<Original>>
                      \/ \E w \in Requests : /\ restores = {[id |-> w, old |-> <<Original>>]}
                                             /\ output = <<w, Original>>
<1>1. ASSUME UNCHANGED <<captured, output, restores, overlap>>,
             \A d \in Conns : pc'[d] = "set output" => pc[d] = "set output"
      PROVE  QuietInv'
  BY <1>0, <1>1 DEF QuietInv
<1>2. ASSUME overlap' = overlap PROVE Settled
  BY <1>0, <1>2 DEF QuietInv
<1>3. ASSUME NEW c \in Conns, FrameStep(c) PROVE QuietInv'
  BY <1>0, <1>1, <1>3, Frames, LabelFrames
<1>4. ASSUME NEW c \in Conns, BeginLine(c) PROVE QuietInv'
  <2>1. UNCHANGED <<captured, output, restores, overlap>>
    BY <1>4 DEF BeginLine, perConn, logs, history
  <2>2. \A d \in Conns : pc'[d] = "set output" => pc[d] = "set output"
    <3>1. PICK m \in InLineLabels : pc' = [pc EXCEPT ![c] = m]
      BY <1>4, LineLabels
    <3>2. QED
      BY <1>0, <3>1 DEF ControlOK, InLineLabels
  <2>3. QED
    BY <1>1, <2>1, <2>2
<1>5. ASSUME NEW c \in Conns, MessageStarts(c) PROVE QuietInv'
  BY <1>1, <1>5 DEF MessageStarts, logs, history
<1>6. ASSUME NEW c \in Conns, ReadLogWriter(c) PROVE QuietInv'
  <2>1. ~overlap /\ output = <<Original>> /\ restores = {}
    BY <1>6 DEF ReadLogWriter
  <2>2. /\ captured' = [captured EXCEPT ![c] = output]
        /\ pc' = [pc EXCEPT ![c] = "set output"]
        /\ UNCHANGED <<output, restores>>
    BY <1>6 DEF ReadLogWriter, Goto, logs
  <2>3. QED
    BY <1>0, <2>1, <2>2 DEF QuietInv, ControlOK, WritersOK
<1>7. ASSUME NEW c \in Conns, SetOutput(c) PROVE QuietInv'
  <2>1. ~overlap /\ output = captured[c] /\ restores = {}
    BY <1>7 DEF SetOutput
  <2>2. /\ output' = <<Current(c)>> \o captured[c]
        /\ restores' = restores \cup {[id |-> Current(c), old |-> captured[c]]}
        /\ pc' = [pc EXCEPT ![c] = "start"] /\ pc[c] = "set output"
        /\ UNCHANGED captured
    BY <1>7 DEF SetOutput, Goto, perConn
  <2>3. captured[c] = <<Original>>
    BY <1>0, <2>1, <2>2 DEF QuietInv
  <2>4. Current(c) \in Requests
    BY <1>0, <2>2, CurrentRequest DEF RequestInv, Untold
  <2>5. output' = <<Current(c), Original>>
    <3>1. Current(c) \in Writers /\ Original \in Writers
      BY <2>4, RequestFacts
    <3>2. \A a, b \in Writers : <<a>> \o <<b>> = <<a, b>>
      BY Pair
    <3>3. <<Current(c)>> \o <<Original>> = <<Current(c), Original>>
      BY <3>1, <3>2, Zenon
    <3>4. QED
      BY <2>2, <2>3, <3>3, Zenon
  <2>6. restores' = {[id |-> Current(c), old |-> <<Original>>]}
    BY <2>1, <2>2, <2>3
  <2>7. \A d \in Conns : pc'[d] = "set output" => captured'[d] = <<Original>>
    BY <1>0, <2>1, <2>2 DEF QuietInv, ControlOK
  <2>8. QED
    BY <2>2, <2>3, <2>4, <2>5, <2>6, <2>7 DEF QuietInv
<1>8. CASE Restore
  <2>1. PICK r \in restores : output' = r.old /\ restores' = restores \ {r}
    BY <1>8 DEF Restore
  <2>2. UNCHANGED <<pc, captured, overlap>>
    BY <1>8 DEF Restore, perConn, history
  <2>3. PICK w \in Requests : restores = {[id |-> w, old |-> <<Original>>]}
    BY <1>2, <2>1, <2>2
  <2>4. output' = <<Original>> /\ restores' = {}
    BY <2>1, <2>3
  <2>5. QED
    BY <1>0, <2>2, <2>4 DEF QuietInv
<1>9. CASE LinePasses
  BY <1>1, <1>9 DEF LinePasses, perConn, logs, history
<1>10. CASE Interrupt \/ BeginShutdownLine \/ Shutdown
  BY <1>1, <1>10 DEF Interrupt, BeginShutdownLine, Shutdown, perConn, logs, history
<1>11. CASE PanicStep
  BY <1>0, <1>1, <1>11, PanicFrames, PanicLabels
<1>12. QED
  BY <1>3, <1>4, <1>5, <1>6, <1>7, <1>8, <1>9, <1>10, <1>11, Steps

\* Then, without a late redirection either, nobody panics.
LEMMA StepCalm == IInv /\ Next => CalmInv'
<1> SUFFICES ASSUME IInv, Next, ~overlap', ~late' PROVE CalmInv'
  BY DEF CalmInv
<1>0. ControlOK /\ FlagsOK
  BY DEF IInv, TypeOK
<1>1. ~overlap /\ ~late
  <2>1. overlap => overlap'
    BY Steps, Frames, PanicFrames
    DEF BeginLine, MessageStarts, ReadLogWriter, SetOutput, LinePasses, Restore,
        Interrupt, BeginShutdownLine, Shutdown, history
  <2>2. late => late'
    BY Steps, Frames, PanicFrames
    DEF BeginLine, MessageStarts, ReadLogWriter, SetOutput, LinePasses, Restore,
        Interrupt, BeginShutdownLine, Shutdown, Receive, history
  <2>3. QED
    BY <2>1, <2>2
<1>2. /\ \A r \in restores : r.id = Current(r.id[1])
      /\ server # "crashed"
      /\ \A d \in Conns : pc[d] \notin {"panic", "panic line"}
  BY <1>1 DEF IInv, CalmInv
<1>3. ASSUME \A r \in restores' : r \in restores, number' = number,
             server' # "crashed",
             \A d \in Conns : pc'[d] \notin {"panic", "panic line"}
      PROVE  CalmInv'
  BY <1>2, <1>3 DEF CalmInv, Current
<1>4. ASSUME NEW c \in Conns, FrameStep(c) PROVE CalmInv'
  <2>1. restores' = restores /\ server' # "crashed"
    BY <1>2, <1>4, Frames
  <2>2. \A d \in Conns : pc'[d] \notin {"panic", "panic line"}
    BY <1>0, <1>2, <1>4, LabelFrames
  <2>3. CASE Receive(c)
    <3>1. \A r \in restores : r.id[1] # c
      BY <2>3 DEF Receive
    <3>2. number' = [number EXCEPT ![c] = tickets']
      BY <2>3 DEF Receive
    <3>3. ASSUME NEW r \in restores' PROVE r.id = Current(r.id[1])'
      <4>1. r \in restores /\ r.id[1] # c /\ r.id = <<r.id[1], number[r.id[1]]>>
        BY <1>2, <2>1, <3>1 DEF Current
      <4>2. r.id[1] \in Conns
        BY <2>1 DEF IInv, TypeOK, WritersOK, Requests
      <4>3. number'[r.id[1]] = number[r.id[1]]
        BY <1>0, <3>2, <4>1, <4>2 DEF ControlOK
      <4>4. QED
        BY <4>1, <4>3 DEF Current
    <3>4. QED
      BY <2>1, <2>2, <3>3 DEF CalmInv, Current
  <2>4. CASE ~Receive(c)
    <3>1. number' = number
      BY <1>4, <2>4
      DEF FrameStep,
          Dispatch, Refuse, Answer, StartChild, RunLogged, EndOutput,
          CommandEnds, Return, FailureLogged, EndMessage, ReadFails,
          LeaveLogged, PanicLogged, Close, Exit, TakeDone, Disconnect,
          EndLine, perConn
    <3>2. QED
      BY <1>3, <2>1, <2>2, <3>1
  <2>5. QED
    BY <2>3, <2>4
<1>5. ASSUME NEW c \in Conns, BeginLine(c) PROVE CalmInv'
  <2>1. UNCHANGED <<restores, number, server>>
    BY <1>5 DEF BeginLine, perConn, logs
  <2>2. PICK l \in {"recv", "run", "failure", "leave", "panic"}, m \in InLineLabels :
           /\ pc[c] = l /\ pc' = [pc EXCEPT ![c] = m]
           /\ l = "panic" <=> m = "panic line"
    BY <1>5, LineLabels
  <2>3. \A d \in Conns : pc'[d] \notin {"panic", "panic line"}
    BY <1>0, <1>2, <2>2 DEF ControlOK, InLineLabels
  <2>4. QED
    BY <1>2, <1>3, <2>1, <2>3
<1>6. ASSUME NEW c \in Conns, MessageStarts(c) PROVE CalmInv'
  BY <1>2, <1>3, <1>6 DEF MessageStarts, logs
<1>7. ASSUME NEW c \in Conns, ReadLogWriter(c) PROVE CalmInv'
  <2>1. UNCHANGED <<restores, number, server>> /\ pc' = [pc EXCEPT ![c] = "set output"]
    BY <1>7 DEF ReadLogWriter, Goto, logs
  <2>2. \A d \in Conns : pc'[d] \notin {"panic", "panic line"}
    BY <1>0, <1>2, <2>1 DEF ControlOK
  <2>3. QED
    BY <1>2, <1>3, <2>1, <2>2
<1>8. ASSUME NEW c \in Conns, SetOutput(c) PROVE CalmInv'
  <2>1. /\ UNCHANGED <<number, server>> /\ pc' = [pc EXCEPT ![c] = "start"]
        /\ restores' = restores \cup {[id |-> Current(c), old |-> captured[c]]}
    BY <1>8 DEF SetOutput, Goto, perConn
  <2>2. \A d \in Conns : pc'[d] \notin {"panic", "panic line"}
    BY <1>0, <1>2, <2>1 DEF ControlOK
  <2>3. Current(c)[1] = c
    BY DEF Current
  <2>4. ASSUME NEW r \in restores' PROVE r.id = Current(r.id[1])
    <3>1. CASE r \in restores
      BY <1>2, <3>1
    <3>2. CASE r = [id |-> Current(c), old |-> captured[c]]
      <4>1. r.id = Current(c)
        BY <3>2
      <4>2. QED
        BY <2>3, <4>1
    <3>3. QED
      BY <2>1, <2>4, <3>1, <3>2
  <2>5. QED
    BY <1>2, <2>1, <2>2, <2>4 DEF CalmInv, Current
<1>9. CASE Restore
  BY <1>2, <1>3, <1>9 DEF Restore, perConn
<1>10. CASE LinePasses
  BY <1>2, <1>3, <1>10 DEF LinePasses, perConn, logs
<1>11. CASE Interrupt \/ BeginShutdownLine \/ Shutdown
  BY <1>2, <1>3, <1>11 DEF Interrupt, BeginShutdownLine, Shutdown, perConn, logs
<1>12. QED
  BY <1>1, <1>4, <1>5, <1>6, <1>7, <1>8, <1>9, <1>10, <1>11, Steps

-----------------------------------------------------------------------------
(* The invariant, and what it gives.                                       *)

LEMMA StepIInv == IInv /\ [Next]_vars => IInv'
<1>1. CASE Next
  BY <1>1, StepFlags, StepControl, StepHeld, StepRequest, StepWriters, StepLine,
     StepPending, StepQuiet, StepCalm DEF IInv, TypeOK
<1>2. CASE UNCHANGED vars
  <2> SUFFICES ASSUME IInv PROVE IInv'
    OBVIOUS
  <2> USE <1>2 DEF vars, IInv, TypeOK
  <2>1. FlagsOK' /\ ControlOK'
    BY DEF FlagsOK, ControlOK
  <2>2. HeldOK' /\ WritersOK'
    BY DEF HeldOK, WritersOK
  <2>3. NoFalseSuccess' /\ RequestInv'
    BY DEF NoFalseSuccess, RequestInv
  <2>4. ChainInv' /\ LineInv'
    BY DEF ChainInv, LineInv
  <2>5. PendingInv' /\ QuietInv'
    BY DEF PendingInv, Pending, Current, QuietInv
  <2>6. CalmInv'
    BY DEF CalmInv, Current
  <2>7. QED
    BY <2>1, <2>2, <2>3, <2>4, <2>5, <2>6
<1>3. QED
  BY <1>1, <1>2

LEMMA Invariance == Spec => []IInv
BY InitIInv, StepIInv, PTL DEF Spec

\* The types, and the logger's mutex is held by exactly the goroutine that is
\* inside a line, whatever panics.
THEOREM TypeCorrect == Spec => []TypeOK
<1>1. IInv => TypeOK
  BY DEF IInv
<1>2. QED
  BY Invariance, <1>1, PTL

\* No client is told of a success that was none, for any number of tabs.
THEOREM AnswerSafety == Spec => []NoFalseSuccess
<1>1. IInv => NoFalseSuccess
  BY DEF IInv
<1>2. QED
  BY Invariance, <1>1, PTL

\* The original writer is never lost, one redirection at a time is undone
\* cleanly, and if each is undone before its connection's next request nobody
\* panics: no handler, not Handle, and not net/http.
THEOREM LogSafety == Spec => []CleanWithoutOverlap
<1>1. IInv => CleanWithoutOverlap
  <2> SUFFICES ASSUME IInv PROVE CleanWithoutOverlap
    OBVIOUS
  <2>1. Chain(output)
    BY DEF IInv, ChainInv
  <2>2. ASSUME ~overlap
        PROVE  Len(output) = 1 \/ (Len(output) = 2 /\ output[1] \in Pending)
    <3>1. CASE output = <<Original>>
      BY <3>1
    <3>2. ASSUME NEW w \in Requests, restores = {[id |-> w, old |-> <<Original>>]},
                 output = <<w, Original>>
          PROVE  Len(output) = 2 /\ output[1] \in Pending
      <4>1. Len(output) = 2 /\ output[1] = w
        BY <3>2
      <4>2. w \in Pending
        BY <3>2 DEF Pending
      <4>3. QED
        BY <4>1, <4>2
    <3>3. QED
      BY <2>2, <3>1, <3>2 DEF IInv, QuietInv
  <2>3. ASSUME ~overlap, ~late
        PROVE  /\ server # "crashed"
               /\ \A c \in Conns : pc[c] \notin {"panic", "panic line"}
    BY <2>3 DEF IInv, CalmInv
  <2>4. QED
    BY <2>1, <2>2, <2>3 DEF CleanWithoutOverlap
<1>2. QED
  BY Invariance, <1>1, PTL

-----------------------------------------------------------------------------
(* Each request once.                                                      *)

\* Where a connection that has not redirected the logger was before the step.
LEMMA NotYetSetFrames ==
  ASSUME ControlOK, NEW c \in Conns, FrameStep(c), NEW d \in Conns
  PROVE  /\ \/ number'[d] = number[d] /\ tickets' = tickets
            \/ number'[d] \in {number[d], tickets'} /\ tickets' = tickets + 1
         /\ pc'[d] \in NotYetSet =>
              \/ pc[d] \in NotYetSet /\ number'[d] = number[d]
              \/ number'[d] = tickets + 1 /\ tickets' = tickets + 1
<1> USE DEF ControlOK, Goto, perConn, logs, NotYetSet
<1>1. CASE Dispatch(c)          BY <1>1 DEF Dispatch, EndLine
<1>2. CASE Refuse(c)            BY <1>2 DEF Refuse
<1>3. CASE Answer(c)            BY <1>3 DEF Answer
<1>4. CASE StartChild(c)        BY <1>4 DEF StartChild
<1>5. CASE RunLogged(c)         BY <1>5 DEF RunLogged, EndLine
<1>6. CASE EndOutput(c)         BY <1>6 DEF EndOutput
<1>7. CASE CommandEnds(c)       BY <1>7 DEF CommandEnds
<1>8. CASE Return(c)            BY <1>8 DEF Return
<1>9. CASE FailureLogged(c)     BY <1>9 DEF FailureLogged, EndLine
<1>10. CASE EndMessage(c)       BY <1>10 DEF EndMessage
<1>11. CASE ReadFails(c)        BY <1>11 DEF ReadFails
<1>12. CASE LeaveLogged(c)      BY <1>12 DEF LeaveLogged, EndLine
<1>13. CASE Close(c)            BY <1>13 DEF Close
<1>14. CASE Exit(c)             BY <1>14 DEF Exit
<1>15. CASE TakeDone(c)         BY <1>15 DEF TakeDone
<1>16. CASE Receive(c)          BY <1>16 DEF Receive
<1>17. CASE Disconnect(c)       BY <1>17 DEF Disconnect
<1>18. CASE PanicLogged(c)      BY <1>18 DEF PanicLogged, EndLine
<1>19. QED
  BY <1>1, <1>2, <1>3, <1>4, <1>5, <1>6, <1>7, <1>8, <1>9, <1>10, <1>11,
     <1>12, <1>13, <1>14, <1>15, <1>16, <1>17, <1>18, Zenon DEF FrameStep

\* A new writer before distinct ones.
LEMMA DistinctLonger ==
  ASSUME NEW s \in Seq(Writers), Distinct(s), NEW w \in Writers,
         \A i \in 1 .. Len(s) : s[i] # w
  PROVE  Distinct(<<w>> \o s)
<1>1. <<w>> \o s \in Seq(Writers) /\ Len(<<w>> \o s) = Len(s) + 1 /\ Len(s) \in Nat
  OBVIOUS
<1>2. \A i \in 1 .. Len(s) + 1 : (<<w>> \o s)[i] = IF i = 1 THEN w ELSE s[i - 1]
  BY <1>1
<1>3. QED
  BY <1>1, <1>2 DEF Distinct

\* What is left of a line of distinct writers.
LEMMA DistinctTail ==
  ASSUME NEW s \in Seq(Writers), s # <<>>, Distinct(s)
  PROVE  Distinct(Tail(s))
<1>1. Len(Tail(s)) = Len(s) - 1 /\ Len(s) \in Nat \ {0}
  OBVIOUS
<1>2. \A i \in 1 .. Len(s) - 1 : Tail(s)[i] = s[i + 1]
  OBVIOUS
<1>3. QED
  BY <1>1, <1>2 DEF Distinct

\* The outputs are sequences of writers.
LEMMA OutputsAreSequences == WritersOK => \A s \in Outputs : s \in Seq(Writers)
  BY DEF WritersOK, Outputs

\* A step that makes no output, and after which every request that has not
\* redirected the logger had not before or is new.
LEMMA NoNewOutput ==
  ASSUME IInv, OnceInv, Outputs' \subseteq Outputs, Distinct(line)',
         tickets' \in Nat, tickets' >= tickets,
         \A d \in Conns :
           /\ number'[d] = number[d] \/ number'[d] = tickets'
           /\ pc'[d] \in NotYetSet =>
                \/ pc[d] \in NotYetSet /\ number'[d] = number[d]
                \/ number'[d] = tickets + 1
  PROVE  OnceInv'
<1>0. ControlOK /\ WritersOK /\ tickets \in Nat
  BY DEF IInv, TypeOK, ControlOK
<1>1. \A s \in Outputs : \A i \in 1 .. Len(s) :
        s[i] # Original => s[i][2] \in Nat /\ s[i][2] <= tickets
  <2> SUFFICES ASSUME NEW s \in Outputs, NEW i \in 1 .. Len(s), s[i] # Original
               PROVE  s[i][2] \in Nat /\ s[i][2] <= tickets
    OBVIOUS
  <2>1. s[i] \in Requests
    BY <1>0, OutputsAreSequences DEF Writers
  <2>2. QED
    BY <2>1 DEF OnceInv, Requests
<1>2. \A s \in Outputs' :
        /\ Distinct(s)
        /\ \A i \in 1 .. Len(s) : s[i] # Original => s[i][2] <= tickets'
  BY <1>0, <1>1 DEF OnceInv
<1>3. ASSUME NEW d \in Conns PROVE number'[d] <= tickets'
  <2>1. number[d] \in 0 .. MaxRequests
    BY <1>0, <1>3 DEF ControlOK
  <2>2. number[d] <= tickets
    BY <1>3 DEF OnceInv
  <2>3. number'[d] = number[d] \/ number'[d] = tickets'
    BY <1>3
  <2>4. number[d] \in Nat /\ tickets \in Nat /\ tickets' \in Nat /\ tickets' >= tickets
    BY <1>0, <2>1
  <2>5. QED
    BY <2>2, <2>3, <2>4
<1>4. ASSUME NEW d \in Conns, pc'[d] \in NotYetSet, NEW s \in Outputs',
             NEW i \in 1 .. Len(s)
      PROVE  s[i] # <<d, number'[d]>>
  <2>1. CASE pc[d] \in NotYetSet /\ number'[d] = number[d]
    BY <1>4, <2>1 DEF OnceInv, Current
  <2>2. CASE number'[d] = tickets + 1
    <3>1. s[i] = <<d, tickets + 1>> => s[i] # Original /\ s[i][2] = tickets + 1
      BY DEF Original
    <3>2. QED
      BY <1>0, <1>1, <1>4, <2>2, <3>1
  <2>3. QED
    BY <1>4, <2>1, <2>2
<1>5. QED
  BY <1>2, <1>3, <1>4 DEF OnceInv, Current

\* No step puts a request into an output twice.
LEMMA StepOnce == IInv /\ IInv' /\ OnceInv /\ Next => OnceInv'
<1> SUFFICES ASSUME IInv, IInv', OnceInv, Next PROVE OnceInv'
  OBVIOUS
<1>0. ControlOK /\ WritersOK /\ RequestInv /\ tickets \in Nat /\ tickets' \in Nat
  BY DEF IInv, TypeOK, ControlOK
<1>1. ASSUME NEW c \in Conns, FrameStep(c) PROVE OnceInv'
  <2>1. Outputs' = Outputs /\ line' = line
    BY <1>1, Frames DEF Outputs
  <2>2. QED
    BY <1>0, <1>1, <2>1, NotYetSetFrames, NoNewOutput DEF OnceInv, Distinct
<1>2. ASSUME UNCHANGED <<captured, output, restores, tickets, number>>, Distinct(line)',
             \A d \in Conns : pc'[d] \in NotYetSet => pc[d] \in NotYetSet
      PROVE  OnceInv'
  <2>1. Outputs' = Outputs
    BY <1>2 DEF Outputs
  <2>2. QED
    BY <1>0, <1>2, <2>1, NoNewOutput
<1>3. ASSUME NEW c \in Conns, BeginLine(c) PROVE OnceInv'
  <2>1. Distinct(line)'
    BY <1>3 DEF BeginLine, OnceInv, Outputs, Distinct
  <2>2. \A d \in Conns : pc'[d] \in NotYetSet => pc[d] \in NotYetSet
    <3>1. PICK l \in {"recv", "run", "failure", "leave", "panic"}, m \in InLineLabels :
             /\ pc[c] = l /\ pc' = [pc EXCEPT ![c] = m]
             /\ l = "recv" <=> m = "recv line"
      BY <1>3, LineLabels
    <3>2. QED
      BY <1>0, <3>1 DEF ControlOK, InLineLabels, NotYetSet
  <2>3. QED
    BY <1>2, <1>3, <2>1, <2>2 DEF BeginLine, perConn, logs
<1>4. ASSUME NEW c \in Conns, MessageStarts(c) PROVE OnceInv'
  BY <1>2, <1>4 DEF MessageStarts, logs, OnceInv, Distinct
<1>5. CASE LinePasses
  <2>1. Distinct(<<>>)
    BY DEF Distinct
  <2>2. Distinct(line)'
    <3>1. line \in Seq(Writers) /\ line # <<>> /\ Distinct(line)
      BY <1>0, <1>5 DEF WritersOK, LinePasses, OnceInv
    <3>2. line' = <<>> \/ line' = Tail(line)
      BY <1>5 DEF LinePasses
    <3>3. QED
      BY <2>1, <3>1, <3>2, DistinctTail DEF Distinct
  <2>3. QED
    BY <1>2, <1>5, <2>2 DEF LinePasses, perConn, logs
<1>6. CASE Interrupt \/ BeginShutdownLine \/ Shutdown
  <2>1. line' = line \/ line' = output
    BY <1>6 DEF Interrupt, BeginShutdownLine, Shutdown
  <2>2. Distinct(line)'
    BY <2>1 DEF OnceInv, Outputs, Distinct
  <2>3. QED
    BY <1>2, <1>6, <2>2 DEF Interrupt, BeginShutdownLine, Shutdown, perConn, logs
<1>7. CASE PanicStep
  <2>1. Distinct(line)'
    BY <1>7, PanicFrames DEF OnceInv, Distinct
  <2>2. \A d \in Conns : pc'[d] \in NotYetSet => pc[d] \in NotYetSet
    BY <1>0, <1>7, PanicLabels DEF NotYetSet
  <2>3. QED
    BY <1>2, <1>7, <2>1, <2>2, PanicFrames
<1>8. CASE Restore
  <2>1. PICK r \in restores : output' = r.old /\ restores' = restores \ {r}
    BY <1>8 DEF Restore
  <2>2. UNCHANGED <<pc, tickets, number, captured, line>>
    BY <1>8 DEF Restore, perConn
  <2>3. Outputs' \subseteq Outputs
    BY <2>1, <2>2 DEF Outputs
  <2>4. QED
    BY <1>0, <2>2, <2>3, NoNewOutput DEF OnceInv, Distinct
<1>9. ASSUME NEW c \in Conns, ReadLogWriter(c) PROVE OnceInv'
  <2>1. Outputs' \subseteq Outputs
    BY <1>0, <1>9 DEF ReadLogWriter, Outputs, WritersOK, logs
  <2>2. /\ UNCHANGED <<tickets, number, line>>
        /\ \A d \in Conns : pc'[d] \in NotYetSet => pc[d] \in NotYetSet
    BY <1>0, <1>9 DEF ReadLogWriter, Goto, NotYetSet, ControlOK
  <2>3. Distinct(line)'
    BY <2>2 DEF OnceInv, Distinct
  <2>4. \A d \in Conns :
          pc'[d] \in NotYetSet => pc[d] \in NotYetSet /\ number'[d] = number[d]
    BY <2>2
  <2>5. QED
    BY <1>0, <2>1, <2>2, <2>3, <2>4, NoNewOutput
<1>10. ASSUME NEW c \in Conns, SetOutput(c) PROVE OnceInv'
  <2>1. pc[c] = "set output" /\ Current(c) \in Requests
    BY <1>0, <1>10, CurrentRequest DEF SetOutput, RequestInv, Untold
  <2>2. captured[c] \in Outputs /\ captured[c] \in Seq(Writers)
    BY <1>0 DEF Outputs, WritersOK
  <2>3. output' = <<Current(c)>> \o captured[c]
    BY <1>10 DEF SetOutput
  <2>4. UNCHANGED <<tickets, number, captured, line>>
    BY <1>10 DEF SetOutput, perConn
  <2>5. restores' = restores \cup {[id |-> Current(c), old |-> captured[c]]}
    BY <1>10 DEF SetOutput
  <2>6. Outputs' \subseteq Outputs \cup {output'}
    BY <2>2, <2>4, <2>5 DEF Outputs
  <2>7. Distinct(output')
    BY <2>1, <2>2, <2>3, DistinctLonger, RequestFacts DEF OnceInv, NotYetSet
  <2>8. \A i \in 1 .. Len(output') :
          output'[i] = Current(c) \/ \E j \in 1 .. Len(captured[c]) : output'[i] = captured[c][j]
    BY <2>2, <2>3
  <2>9. number[c] <= tickets /\ Current(c)[2] = number[c]
    BY DEF OnceInv, Current
  <2>10. \A i \in 1 .. Len(output') : output'[i] # Original => output'[i][2] <= tickets
    BY <2>2, <2>8, <2>9 DEF OnceInv
  <2>11. ASSUME NEW d \in Conns, pc'[d] \in NotYetSet
         PROVE  d # c /\ pc[d] \in NotYetSet /\ <<d, number[d]>> # Current(c)
    BY <1>0, <1>10, <2>11 DEF SetOutput, Goto, NotYetSet, ControlOK, Current
  <2>12. ASSUME NEW d \in Conns, pc'[d] \in NotYetSet, NEW s \in Outputs',
                NEW i \in 1 .. Len(s)
         PROVE  s[i] # <<d, number'[d]>>
    BY <2>2, <2>4, <2>6, <2>8, <2>11, <2>12 DEF OnceInv, Current
  <2>13. Distinct(line)'
    BY <2>4 DEF OnceInv, Distinct
  <2>14. \A s \in Outputs' :
           /\ Distinct(s)
           /\ \A i \in 1 .. Len(s) : s[i] # Original => s[i][2] <= tickets'
    BY <2>4, <2>6, <2>7, <2>10 DEF OnceInv
  <2>15. QED
    BY <2>4, <2>12, <2>13, <2>14 DEF OnceInv, Current
<1>11. QED
  BY <1>1, <1>3, <1>4, <1>5, <1>6, <1>7, <1>8, <1>9, <1>10, Steps

\* For any number of tabs that redirect the logger over each other, a line
\* reaches each request once.
THEOREM OnceSafety == Spec => []EachRequestOnce
<1>1. Init => OnceInv
  BY DEF Init, OnceInv, Outputs, Distinct, NotYetSet
<1>2. IInv /\ IInv' /\ OnceInv /\ [Next]_vars => OnceInv'
  <2>1. CASE Next
    BY <2>1, StepOnce
  <2>2. CASE UNCHANGED vars
    BY <2>2 DEF vars, OnceInv, Outputs, Distinct, Current
  <2>3. QED
    BY <2>1, <2>2
<1>3. OnceInv => EachRequestOnce
  BY DEF OnceInv, Outputs, EachRequestOnce
<1>4. QED
  BY <1>1, <1>2, <1>3, Invariance, PTL DEF Spec

=============================================================================
