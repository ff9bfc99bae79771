------------------------------- MODULE UiServer -------------------------------
(***************************************************************************)
(* gameapctl ui (internal/actions/ui): a local web server with one         *)
(* websocket per browser tab.  Each connection handles its requests one    *)
(* after the other, but all share the process-wide logger, whose output    *)
(* every long command redirects to its own client for the time it runs.    *)
(* Clients may leave at any time; commands are child processes that write  *)
(* to the websocket.                                                       *)
(*                                                                         *)
(* A writer is named by its request <<connection, number>>; the output of  *)
(* the logger is the sequence of writers a line passes through             *)
(* (io.MultiWriter stops at the first that fails).                         *)
(***************************************************************************)
EXTENDS Naturals, Sequences

CONSTANTS Conns,        \* the connections
          Main,         \* the goroutine of Handle
          MaxRequests   \* bound: requests of all connections

ASSUME MaxRequestsAssumption == MaxRequests \in Nat \ {0}
ASSUME MainAssumption == Main \notin Conns

Requests == Conns \X (1 .. MaxRequests)
Original == <<>>        \* the writer the process started with
None == <<>>            \* nobody

VARIABLES
    pc,        \* per connection: where serveWs, wsRequest and cmdHandle are
    tickets,   \* number of requests so far
    number,    \* per connection: number of its current request
    link,      \* per connection: the client is "open" or "gone"
    direct,    \* per connection: its request is inside conn.WriteMessage
    result,    \* per connection: how its last command ended
    told,      \* per connection: what the client was told of its last request
    captured,  \* per connection: oldLogWriter
    output,    \* the logger's output: a sequence of writers
    restores,  \* requests with a goroutine that waits to restore the output
    logger,    \* who holds the logger's mutex: a connection, Main, or None
    line,      \* the writers its line still has to pass
    server,    \* "up", "stopping", "logging", "down"; "crashed" by a panic
    overlap,   \* history: a command redirected a logger that was not the
               \* original's, or was about to be changed
    late       \* history: a connection got its next request before the
               \* redirection of its last one was taken back

perConn == <<tickets, number, link, direct, result, told, captured>>
logs == <<output, restores>>
history == <<overlap, late>>
vars == <<pc, tickets, number, link, direct, result, told, captured, output, restores,
          logger, line, server, overlap, late>>

Current(c) == <<c, number[c]>>
Alive == server \in {"up", "stopping", "logging"}

Init ==
    /\ pc = [c \in Conns |-> "read"]
    /\ tickets = 0 /\ number = [c \in Conns |-> 0]
    /\ link = [c \in Conns |-> "open"]
    /\ direct = [c \in Conns |-> FALSE]
    /\ result = [c \in Conns |-> "none"]
    /\ told = [c \in Conns |-> "none"]
    /\ captured = [c \in Conns |-> <<Original>>]
    /\ output = <<Original>>
    /\ restores = {}
    /\ logger = None /\ line = <<>>
    /\ server = "up" /\ overlap = FALSE /\ late = FALSE

Goto(c, label) == pc' = [pc EXCEPT ![c] = label]

-----------------------------------------------------------------------------
(* The logger.  Its mutex is held until the line has passed every writer,  *)
(* and whoever reads or sets the output waits for it.                      *)

\* A line starts; the handler waits for it.  In "run" it comes from a command
\* that works in this process, or announces its child.
Logging == [recv |-> "recv line", run |-> "run line",
            failure |-> "failure line", leave |-> "leave line",
            panic |-> "panic line"]

BeginLine(c) ==
    /\ Alive
    /\ pc[c] \in DOMAIN Logging /\ ~direct[c]
    /\ logger = None
    /\ logger' = <<c>>
    /\ line' = output
    /\ Goto(c, Logging[pc[c]])
    /\ UNCHANGED <<perConn, logs, server, history>>

\* Fault: the logger stays locked.
EndLineLocked(c, next) ==
    /\ Alive
    /\ logger = <<c>> /\ line = <<>>
    /\ Goto(c, next)
    /\ UNCHANGED <<perConn, logs, logger, line, server, history>>

\* The line is out; the handler goes on.
EndLine(c, next) ==
    /\ Alive
    /\ logger = <<c>> /\ line = <<>>
    /\ logger' = None
    /\ Goto(c, next)
    /\ UNCHANGED <<perConn, logs, line, server, history>>

\* Two writers with different mutexes are on connection d: the line of g and
\* d's own message.  The websocket library panics in either of them.  net/http
\* recovers a panic of a handler, whose deferred calls have released the logger,
\* ended the context and closed the connection, and logs it (the server has no
\* ErrorLog of its own).  A panic in this last line, in Handle itself, or where
\* a child's output is copied ends the process.
Panics(k) ==
    /\ Goto(k, "panic")
    /\ link' = [link EXCEPT ![k] = "gone"]
    /\ direct' = [direct EXCEPT ![k] = FALSE]
    /\ IF logger = <<k>> THEN logger' = None /\ line' = <<>>
                         ELSE UNCHANGED <<logger, line>>
    /\ UNCHANGED <<tickets, number, result, told, captured, logs, server, history>>

Crashes == /\ server' = "crashed"
           /\ UNCHANGED <<pc, perConn, logs, logger, line, history>>

Recovered(g) == g # Main /\ pc[g] \notin {"run", "panic line"}

Collision(d) == \E g \in {logger[1], d} : IF Recovered(g) THEN Panics(g) ELSE Crashes

\* The next writer gets the line.  responseWriter.mu makes it wait for the
\* request's own message; a client that is gone ends the line.
Foreign(w) == w # Original /\ w # Current(w[1])

PassWriter ==
    /\ Alive
    /\ line # <<>>
    /\ LET w == Head(line) IN
        /\ w # Original /\ direct[w[1]] => Foreign(w)
        /\ \/ /\ line' = IF w # Original /\ link[w[1]] = "gone" THEN <<>> ELSE Tail(line)
              /\ UNCHANGED <<pc, perConn, logs, logger, server, history>>
           \/ Foreign(w) /\ direct[w[1]] /\ Collision(w[1])

-----------------------------------------------------------------------------
(* Requests.                                                               *)

\* serveWs reads a message, wsRequest makes its response writer.
Receive(c) ==
    /\ Alive
    /\ pc[c] = "read" /\ link[c] = "open" /\ tickets < MaxRequests
    /\ tickets' = tickets + 1
    /\ number' = [number EXCEPT ![c] = tickets']
    /\ result' = [result EXCEPT ![c] = "none"]
    /\ told' = [told EXCEPT ![c] = "none"]
    /\ \E next \in {"recv", "leave"} : Goto(c, next)    \* "leave": not JSON
    /\ late' = (late \/ \E r \in restores : r.id[1] = c)
    /\ UNCHANGED <<link, direct, captured, logs, logger, line, server, overlap>>

\* cmdHandle: all commands but the queries redirect the logger first; an
\* unknown one fails.
Dispatch(c) ==
    /\ pc[c] = "recv line"
    /\ \E next \in {"duplicate", "query", "refused", "exit"} : EndLine(c, next)

\* An unknown command, one without its arguments, a failed query.
Refuse(c) ==
    /\ Alive
    /\ pc[c] \in {"refused", "start", "query"} /\ ~direct[c]
    /\ result' = [result EXCEPT ![c] = "failed"]
    /\ Goto(c, "return")
    /\ UNCHANGED <<tickets, number, link, direct, told, captured, logs, logger, line, server, history>>

\* detectIPs, nodeInfo, serviceStatus: the answer is written, errors of the
\* write are ignored.
Answer(c) ==
    /\ Alive
    /\ pc[c] = "query" /\ direct[c]
    /\ direct' = [direct EXCEPT ![c] = FALSE]
    /\ result' = [result EXCEPT ![c] = "ok"]
    /\ Goto(c, "return")
    /\ UNCHANGED <<tickets, number, link, told, captured, logs, logger, line, server, history>>

\* duplicateLogWriter reads the logger's output ...
ReadLogWriter(c) ==
    /\ Alive
    /\ pc[c] = "duplicate" /\ logger = None
    /\ captured' = [captured EXCEPT ![c] = output]
    /\ overlap' = (overlap \/ output # <<Original>> \/ restores # {})
    /\ Goto(c, "set output")
    /\ UNCHANGED <<tickets, number, link, direct, result, told, logs, logger, line, server,
                   late>>

\* Fault: the goroutine puts back what it has just set.
SetOutputForGood(c) ==
    /\ Alive
    /\ pc[c] = "set output" /\ logger = None
    /\ output' = <<Current(c)>> \o captured[c]
    /\ restores' = restores \cup {[id |-> Current(c), old |-> output']}
    /\ overlap' = (overlap \/ output # captured[c] \/ restores # {})
    /\ Goto(c, "start")
    /\ UNCHANGED <<perConn, logger, line, server, late>>

\* ... and sets it to the client and the old one, with a goroutine that puts
\* the old one back when the request's context ends.
SetOutput(c) ==
    /\ Alive
    /\ pc[c] = "set output" /\ logger = None
    /\ output' = <<Current(c)>> \o captured[c]
    /\ restores' = restores \cup {[id |-> Current(c), old |-> captured[c]]}
    /\ overlap' = (overlap \/ output # captured[c] \/ restores # {})
    /\ Goto(c, "start")
    /\ UNCHANGED <<perConn, logger, line, server, late>>

\* The request's context is cancelled, by cmdHandle's deferred cancel.
Ended(r) == ~(r = Current(r[1]) /\ pc[r[1]] \in {"start", "run", "run line", "return"})

Restore ==
    /\ Alive
    /\ logger = None
    /\ \E r \in restores :
        /\ Ended(r.id)
        /\ output' = r.old
        /\ restores' = restores \ {r}
    /\ UNCHANGED <<pc, perConn, logger, line, server, history>>

\* gameapInstall, daemonUpgrade and the others run gameapctl as a child,
\* without the request's context; serviceCommand works in this process.
StartChild(c) ==
    /\ Alive
    /\ pc[c] = "start"
    /\ Goto(c, "run")
    /\ UNCHANGED <<perConn, logs, logger, line, server, history>>

RunLogged(c) == pc[c] = "run line" /\ EndLine(c, "run")

\* responseWriter.Write or WriteMessage enters conn.WriteMessage; it waits
\* while the logger is inside the same responseWriter.
InLine(c) == line # <<>> /\ Head(line) # Original /\ Head(line)[1] = c

BeginMessage(c) ==
    /\ Alive
    /\ pc[c] \in {"run", "query", "error", "end"} /\ ~direct[c]
    /\ InLine(c) => Foreign(Head(line))
    /\ \/ /\ direct' = [direct EXCEPT ![c] = TRUE]
          /\ UNCHANGED <<pc, tickets, number, link, result, told, captured, logs, logger,
                         line, server, history>>
       \/ InLine(c) /\ Collision(c)

\* A line of the child's output is sent.  When the client is gone the copying
\* ends, the child's pipe breaks and the command counts as failed.
EndOutput(c) ==
    /\ Alive
    /\ pc[c] = "run" /\ direct[c]
    /\ direct' = [direct EXCEPT ![c] = FALSE]
    /\ IF link[c] = "open"
       THEN UNCHANGED <<pc, result>>
       ELSE Goto(c, "return") /\ result' = [result EXCEPT ![c] = "failed"]
    /\ UNCHANGED <<tickets, number, link, told, captured, logs, logger, line, server, history>>

CommandEnds(c) ==
    /\ Alive
    /\ pc[c] = "run" /\ ~direct[c]
    /\ \E r \in {"ok", "failed"} : result' = [result EXCEPT ![c] = r]
    /\ Goto(c, "return")
    /\ UNCHANGED <<tickets, number, link, direct, told, captured, logs, logger, line, server, history>>

\* Fault: an error of the command is logged but not sent.
FailureNotSent(c) == pc[c] = "failure line" /\ EndLine(c, "end")

\* Fault: it waits for its goroutine, which waits for the cancel.
ReturnAfterRestore(c) ==
    /\ Alive
    /\ pc[c] = "return" /\ Current(c) \notin {r.id : r \in restores}
    /\ Goto(c, IF result[c] = "ok" THEN "end" ELSE "failure")
    /\ UNCHANGED <<perConn, logs, logger, line, server, history>>

\* cmdHandle returns and its deferred cancel ends the context; an error is
\* logged and sent before the end.
Return(c) ==
    /\ Alive
    /\ pc[c] = "return"
    /\ Goto(c, IF result[c] = "ok" THEN "end" ELSE "failure")
    /\ UNCHANGED <<perConn, logs, logger, line, server, history>>

FailureLogged(c) == pc[c] = "failure line" /\ EndLine(c, "error")

\* An error or end message is sent; a write that fails ends serveWs.
EndMessage(c) ==
    /\ Alive
    /\ pc[c] \in {"error", "end"} /\ direct[c]
    /\ direct' = [direct EXCEPT ![c] = FALSE]
    /\ IF link[c] = "gone" THEN Goto(c, "leave") /\ UNCHANGED told
       ELSE IF pc[c] = "error"
       THEN Goto(c, "end") /\ told' = [told EXCEPT ![c] = "error"]
       ELSE /\ Goto(c, "read")
            /\ told' = [told EXCEPT ![c] = IF @ = "error" THEN "failure" ELSE "success"]
    /\ UNCHANGED <<tickets, number, link, result, captured, logs, logger, line, server, history>>

\* The tab is closed.
Disconnect(c) ==
    /\ Alive
    /\ link[c] = "open"
    /\ link' = [link EXCEPT ![c] = "gone"]
    /\ UNCHANGED <<pc, tickets, number, direct, result, told, captured, logs, logger, line, server, history>>

\* ReadMessage fails; the error is logged, and the connection closed.
ReadFails(c) ==
    /\ Alive
    /\ pc[c] = "read" /\ link[c] = "gone"
    /\ Goto(c, "leave")
    /\ UNCHANGED <<perConn, logs, logger, line, server, history>>

LeaveLogged(c) == pc[c] = "leave line" /\ EndLine(c, "close")
PanicLogged(c) == pc[c] = "panic line" /\ EndLine(c, "closed")

Close(c) ==
    /\ Alive
    /\ pc[c] = "close"
    /\ link' = [link EXCEPT ![c] = "gone"]
    /\ Goto(c, "closed")
    /\ UNCHANGED <<tickets, number, direct, result, told, captured, logs, logger, line, server, history>>

-----------------------------------------------------------------------------
(* The end of the server.                                                  *)

\* The request "exit": the connection is closed, then the handler waits until
\* Handle takes the message from the unbuffered channel.
Exit(c) ==
    /\ Alive
    /\ pc[c] = "exit"
    /\ link' = [link EXCEPT ![c] = "gone"]
    /\ Goto(c, "done")
    /\ UNCHANGED <<tickets, number, direct, result, told, captured, logs, logger, line, server, history>>

\* Handle's select; it takes only one message.  The handler returns, and its
\* deferred second ws.Close fails, which is logged.
TakeDone(c) ==
    /\ server = "up"
    /\ pc[c] = "done"
    /\ server' = "stopping"
    /\ Goto(c, "leave")
    /\ UNCHANGED <<perConn, logs, logger, line, history>>

\* ... or the interrupt of the process.
Interrupt ==
    /\ server = "up"
    /\ server' = "stopping"
    /\ UNCHANGED <<pc, perConn, logs, logger, line, history>>

\* Handle logs the shutdown like everybody else.
BeginShutdownLine ==
    /\ server = "stopping"
    /\ logger = None
    /\ logger' = <<Main>>
    /\ line' = output
    /\ server' = "logging"
    /\ UNCHANGED <<pc, perConn, logs, history>>

\* srv.Shutdown does not wait for websockets; the process ends.
Shutdown ==
    /\ server = "logging"
    /\ line = <<>>
    /\ logger' = None
    /\ server' = "down"
    /\ UNCHANGED <<pc, perConn, logs, line, history>>

Stop == BeginShutdownLine \/ Shutdown

Handle(c) ==
    \/ (pc[c] # "run" /\ BeginLine(c)) \/ Dispatch(c) \/ Refuse(c) \/ Answer(c)
    \/ ReadLogWriter(c) \/ SetOutput(c) \/ StartChild(c) \/ RunLogged(c)
    \/ Return(c) \/ FailureLogged(c)
    \/ (pc[c] # "run" /\ BeginMessage(c)) \/ EndOutput(c) \/ EndMessage(c)
    \/ ReadFails(c) \/ LeaveLogged(c) \/ PanicLogged(c) \/ Close(c) \/ Exit(c) \/ TakeDone(c)

\* What a running command does as long as it likes.
Works(c) == pc[c] = "run" /\ (BeginLine(c) \/ BeginMessage(c))

Next ==
    \/ \E c \in Conns : \/ Handle(c) \/ Works(c) \/ CommandEnds(c)
                        \/ Receive(c) \/ Disconnect(c)
    \/ PassWriter \/ Restore \/ Interrupt \/ Stop

\* Goroutines are scheduled, Go's mutexes do not starve a waiter, commands
\* end, and a write to a client ends when it is read or the connection breaks;
\* clients owe nothing else.
Fairness ==
    /\ \A c \in Conns : WF_vars(Handle(c)) /\ SF_vars(CommandEnds(c))
    /\ WF_vars(PassWriter) /\ WF_vars(Restore) /\ WF_vars(Stop)

Spec == Init /\ [][Next]_vars /\ Fairness

-----------------------------------------------------------------------------
(* Properties.                                                             *)

Labels == {"read", "recv", "recv line", "duplicate", "set output", "start",
           "query", "refused", "run", "run line", "return", "failure",
           "failure line", "error", "end", "leave", "leave line", "close",
           "exit", "done", "panic", "panic line", "closed"}
Writers == Requests \cup {Original}

FlagsOK == direct \in [Conns -> BOOLEAN] /\ overlap \in BOOLEAN /\ late \in BOOLEAN

InLineLabels == {"recv line", "run line", "failure line", "leave line",
                 "panic line"}

ControlOK ==
    /\ pc \in [Conns -> Labels]
    /\ tickets \in 0 .. MaxRequests
    /\ number \in [Conns -> 0 .. MaxRequests]
    /\ link \in [Conns -> {"open", "gone"}]
    /\ result \in [Conns -> {"none", "ok", "failed"}]
    /\ told \in [Conns -> {"none", "error", "failure", "success"}]
    /\ logger \in {<<g>> : g \in Conns \cup {Main}} \cup {None}
    /\ server \in {"up", "stopping", "logging", "down", "crashed"}

HeldOK ==
    /\ \A c \in Conns : pc[c] \in InLineLabels <=> logger = <<c>>
    /\ server = "logging" => logger = <<Main>>
    /\ logger = <<Main>> => server \in {"logging", "crashed"}

WritersOK ==
    /\ captured \in [Conns -> Seq(Writers)]
    /\ output \in Seq(Writers)
    /\ restores \subseteq [id : Requests, old : Seq(Writers)]
    /\ line \in Seq(Writers)

\* Every variable has its type, and the logger is held exactly by the goroutine
\* that is inside a line.
TypeOK == FlagsOK /\ ControlOK /\ HeldOK /\ WritersOK

\* A client is told "end" without an error only for a command that succeeded
\* (websockets.go:102-131).
NoFalseSuccess == \A c \in Conns : told[c] = "success" => result[c] = "ok"

\* Whatever happens the original writer gets the lines once, last.  As long as
\* no command redirects the logger while another's redirection is still in
\* place, the logger writes at most to the one client whose request is running
\* or whose restoring goroutine is about to run; and if besides no connection
\* is given its next request before that goroutine has run, nothing panics, in
\* the handlers, in Handle and in net/http (websocket_handlers.go:91-100).
Pending == {r.id : r \in restores}
Chain(s) == /\ s # <<>> /\ s[Len(s)] = Original
            /\ \A i \in 1 .. Len(s) - 1 : s[i] # Original
CleanWithoutOverlap ==
    /\ Chain(output)
    /\ ~overlap => Len(output) = 1 \/ (Len(output) = 2 /\ output[1] \in Pending)
    /\ ~overlap /\ ~late =>
        server # "crashed" /\ \A c \in Conns : pc[c] \notin {"panic", "panic line"}

\* However many tabs redirect the logger over each other, and in whatever order
\* their goroutines put back what each of them found, a line of the log passes
\* each request's writer once: nobody reads a line twice for one request.
Distinct(s) == \A i, j \in 1 .. Len(s) : s[i] = s[j] => i = j
EachRequestOnce == Distinct(output) /\ Distinct(line)

\* Every request is answered, or its connection closed, or the server is gone;
\* and a server that a client has asked to end, or that was interrupted before
\* the answer, is gone (handler.go:76-87).
Answered ==
    \A c \in Conns : (pc[c] = "recv") ~>
        (~Alive \/ (server = "up" /\ pc[c] \in {"read", "closed"}))

-----------------------------------------------------------------------------
(* The inductive strengthening.                                            *)

Untold == {"recv", "recv line", "duplicate", "set output", "start", "query",
           "refused", "run", "run line", "return", "failure", "failure line",
           "error"}

\* A request has a number, and is not answered before it has a result.
RequestInv ==
    \A c \in Conns :
        /\ pc[c] \in Untold \cup {"end"} => number[c] # 0
        /\ pc[c] \in Untold => told[c] = "none"
        /\ pc[c] = "end" => told[c] = "error" \/ (told[c] = "none" /\ result[c] = "ok")

\* Every output there was, is or will be ends with the original writer.
ChainInv ==
    /\ Chain(output)
    /\ \A c \in Conns : Chain(captured[c])
    /\ \A r \in restores : Chain(r.old)

\* A line has only writers of the output to pass.
LineInv ==
    /\ line # <<>> => logger # None
    /\ \A i \in 1 .. Len(line) : \E j \in 1 .. Len(output) : line[i] = output[j]

\* The goroutine of a running command has not restored the output.
PendingInv ==
    \A c \in Conns : pc[c] \in {"start", "run", "run line"} => Current(c) \in Pending

\* Without an overlap there is at most one redirection, of the original.
QuietInv ==
    ~overlap =>
        /\ \A c \in Conns : pc[c] = "set output" => captured[c] = <<Original>>
        /\ \/ restores = {} /\ output = <<Original>>
           \/ \E w \in Requests : /\ restores = {[id |-> w, old |-> <<Original>>]}
                                  /\ output = <<w, Original>>

\* Then the redirection in place is of its connection's last request, and
\* nobody writes past another's mutex.
CalmInv ==
    ~overlap /\ ~late =>
        /\ \A r \in restores : r.id = Current(r.id[1])
        /\ server # "crashed"
        /\ \A c \in Conns : pc[c] \notin {"panic", "panic line"}

IInv == /\ TypeOK /\ NoFalseSuccess /\ RequestInv
        /\ ChainInv /\ LineInv /\ PendingInv /\ QuietInv /\ CalmInv

\* What the logger writes to, wrote to for some request, or may be set back to.
Outputs == {output} \cup {captured[c] : c \in Conns} \cup {r.old : r \in restores}

\* A request that has not redirected the logger is in none of them.
NotYetSet == {"recv", "recv line", "duplicate", "set output"}

OnceInv ==
    /\ Distinct(line)
    /\ \A s \in Outputs :
        /\ Distinct(s)
        /\ \A i \in 1 .. Len(s) : s[i] # Original => s[i][2] <= tickets
    /\ \A c \in Conns :
        /\ number[c] <= tickets
        /\ pc[c] \in NotYetSet =>
            \A s \in Outputs : \A i \in 1 .. Len(s) : s[i] # Current(c)

=============================================================================
