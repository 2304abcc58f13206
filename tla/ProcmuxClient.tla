--------------------------- MODULE ProcmuxClient ---------------------------
(***************************************************************************)
(* The client library (rs/src/client.rs): tasks that send commands one at  *)
(* a time and wait for results, a demultiplexer that routes the lines of   *)
(* the server to one response channel and to one queue for each registered *)
(* process, and the end of the connection.                                 *)
(*                                                                         *)
(* The server is the environment.  It is any server that answers each      *)
(* command once, in order, may send output between the answers, and may    *)
(* go away at any moment, or stop reading what the client writes; Session  *)
(* puts the Rust server in its place.                                      *)
(*                                                                         *)
(* A definition named Bug... is the definition after it with a plausible   *)
(* mistake; no specification uses it.                                      *)
(***************************************************************************)
EXTENDS Integers, Sequences, FiniteSets

CONSTANTS
  Names, NoName,     \* process names
  Callers, NoCaller, \* the tasks that use the connection
  Queues, NoQueue,   \* the channels register_process can create, each used once
  MaxCommands,       \* bound: commands the server can answer
  MaxSent            \* bound: after so many lines the server only answers

ASSUME ClientAssumption ==
  /\ NoName \notin Names /\ NoCaller \notin Callers /\ NoQueue \notin Queues
  /\ MaxCommands \in Nat /\ MaxSent \in Nat

VARIABLES
  \* the connection
  lines,     \* the commands the client wrote and the server has not answered
  wire,      \* everything the server has sent
  read,      \* how many lines of it the demultiplexer has read
  up,        \* the server's end is open
  \* ProcmuxConnection
  open,      \* the application has not closed it
  closed,    \* the flag behind is_alive
  demux,     \* the demultiplexer: "reading", "ending", "ended" or "aborted"
  process_queues,  \* the sender registered for each name
  queue,     \* each queue: the name it was made for, what was sent to it
  cmd_lock,  \* who holds it
  cmd_response,    \* results nobody has taken
  caller,    \* where each caller is, what it asked and what it got
  last_line, \* what was written last: "whole", or "torn" if its end is missing
  \* history
  written,   \* commands written whole; a command is known by its number
  given_up,  \* those whose caller stopped waiting
  undone     \* results received by a caller whose own command was spoilt

link     == <<lines, wire, read, up>>
ends     == <<open, closed, demux>>
routes   == <<process_queues, queue>>
commands == <<cmd_lock, cmd_response, caller, last_line, written, given_up, undone>>
vars     == <<link, ends, routes, commands>>

(***************************************************************************)
(* Lines from the server.  Output stands for StdoutMsg, StderrMsg and      *)
(* ExitMsg, which are routed alike; no is its position on the connection   *)
(* and, for a result, the command it answers, which is not on the wire.    *)
(***************************************************************************)
Result(k)    == [kind |-> "result", name |-> NoName, no |-> k]
Output(n, i) == [kind |-> "output", name |-> n, no |-> i]
Garbage(i)   == [kind |-> "garbage", name |-> NoName, no |-> i]

\* ProcessMsg::ConnectionLost
Lost == [kind |-> "lost", name |-> NoName, no |-> 0]

-----------------------------------------------------------------------------
(* The demultiplexer *)

\* try_lock instead of lock: what arrives while the table is in use is lost.
BugDeliver(m) ==
  \/ UNCHANGED queue
  \/ /\ process_queues[m.name] # NoQueue
     /\ queue' = [queue EXCEPT ![process_queues[m.name]].got = Append(@, m)]

\* To the queue registered for the name; without one it is dropped.
Deliver(m) ==
  \/ process_queues[m.name] = NoQueue /\ UNCHANGED queue
  \/ /\ process_queues[m.name] # NoQueue
     /\ queue' = [queue EXCEPT ![process_queues[m.name]].got = Append(@, m)]

Route(m) ==
  /\ demux = "reading"
  /\ \/ m.kind = "result" /\ cmd_response' = Append(cmd_response, m.no) /\ UNCHANGED queue
     \/ m.kind = "output" /\ Deliver(m) /\ UNCHANGED cmd_response
     \/ m.kind = "garbage" /\ UNCHANGED <<queue, cmd_response>>
  /\ UNCHANGED <<ends, process_queues, cmd_lock, caller, last_line, written, given_up, undone>>

ReadLine ==
  /\ read < Len(wire) /\ read' = read + 1
  /\ Route(wire[read + 1])
  /\ UNCHANGED <<lines, wire, up>>

\* End of file, or an error: the connection is no longer alive.
LoseConnection ==
  /\ demux = "reading"
  /\ demux' = "ending" /\ closed' = TRUE
  /\ UNCHANGED <<open, routes, commands>>

Eof == ~up /\ read = Len(wire) /\ LoseConnection /\ UNCHANGED link

Registered(q) == \E n \in Names : process_queues[n] = q

\* A clone of the senders is kept somewhere.
BugSenders(still) == process_queues

\* Once the demultiplexer is over and the connection dropped, nothing holds
\* the senders, and receivers end after what they were sent.
Senders(still) == IF still THEN process_queues ELSE [n \in Names |-> NoQueue]

\* Tells those that have been sent something already.
BugNotifyLoss ==
  /\ demux = "ending"
  /\ demux' = "ended"
  /\ queue' = [q \in Queues |->
       IF Registered(q) /\ queue[q].got # << >> THEN [queue[q] EXCEPT !.got = Append(@, Lost)]
                                                ELSE queue[q]]
  /\ process_queues' = Senders(open)
  /\ UNCHANGED <<open, closed, commands>>

NotifyLoss ==
  /\ demux = "ending"
  /\ demux' = "ended"
  /\ queue' = [q \in Queues |->
       IF Registered(q) THEN [queue[q] EXCEPT !.got = Append(@, Lost)] ELSE queue[q]]
  /\ process_queues' = Senders(open)
  /\ UNCHANGED <<open, closed, commands>>

-----------------------------------------------------------------------------
(* send_command *)

Caller(state, k, re) == [at |-> state, asked |-> k, got |-> re]

Sends(t, state, k) == caller' = [caller EXCEPT ![t] = Caller(state, k, 0)]

SendCommand(t) ==
  /\ open /\ caller[t].at = "idle"
  /\ written + Cardinality({s \in Callers : caller[s].at \in {"locking", "writing"}}) < MaxCommands
  /\ Sends(t, "locking", 0)
  /\ UNCHANGED <<ends, routes, cmd_lock, cmd_response, last_line, written, given_up, undone>>

\* The lock is held from before the command is written until it returns.
TakeLock(t) ==
  /\ caller[t].at = "locking" /\ cmd_lock = NoCaller
  /\ cmd_lock' = t /\ Sends(t, "writing", 0)
  /\ UNCHANGED <<ends, routes, cmd_response, last_line, written, given_up, undone>>

\* The guard is dropped as soon as the line is written.
BugWriteCommand(t) ==
  /\ caller[t].at = "writing" /\ last_line = "whole"
  /\ written' = written + 1
  /\ cmd_lock' = NoCaller /\ Sends(t, "waiting", written')
  /\ UNCHANGED <<ends, routes, cmd_response, last_line, given_up, undone>>

\* The writer is free and the socket has taken the line: until then the
\* caller waits, and no timer runs.
WriteCommand(t) ==
  /\ caller[t].at = "writing" /\ last_line = "whole"
  /\ written' = written + 1
  /\ Sends(t, "waiting", written')
  /\ UNCHANGED <<ends, routes, cmd_lock, cmd_response, last_line, given_up, undone>>

\* The command continues a torn line: what the server reads is no command.
WriteSpoilt(t) ==
  /\ caller[t].at = "writing" /\ last_line = "torn"
  /\ last_line' = "whole" /\ Sends(t, "waiting", 0)
  /\ UNCHANGED <<ends, routes, cmd_lock, cmd_response, written, given_up, undone>>

\* Gives up before the line is written; the lock, if it is held, is released.
Leave(t) ==
  /\ Sends(t, "idle", 0)
  /\ cmd_lock' = IF cmd_lock = t THEN NoCaller ELSE cmd_lock
  /\ UNCHANGED <<ends, routes, cmd_response, written, given_up, undone>>

\* The write fails, and send_command with it.
WriteFails(t) == caller[t].at = "writing" /\ Leave(t) /\ UNCHANGED last_line

\* Whether the caller's own command is one that the server answers.
Answerable(t) == caller[t].asked # 0

\* The result is whatever comes next.
ReceiveResult(t) ==
  /\ caller[t].at = "waiting" /\ cmd_response # << >>
  /\ cmd_response' = Tail(cmd_response)
  /\ caller' = [caller EXCEPT ![t] = Caller("idle", caller[t].asked, Head(cmd_response))]
  /\ cmd_lock' = NoCaller
  /\ undone' = IF Answerable(t) THEN undone ELSE undone + 1
  /\ UNCHANGED <<ends, routes, last_line, written, given_up>>

\* Stops waiting, the lock is released; the answer may still come.
GiveUp(t) ==
  /\ caller[t].at = "waiting"
  /\ Sends(t, "idle", caller[t].asked)
  /\ cmd_lock' = NoCaller
  /\ given_up' = IF Answerable(t) THEN given_up + 1 ELSE given_up
  /\ UNCHANGED <<ends, routes, cmd_response, last_line, written, undone>>

\* The guard is forgotten when the timer fires.
BugTimeOut(t) ==
  /\ caller[t].at = "waiting" /\ cmd_response = << >>
  /\ Sends(t, "idle", caller[t].asked)
  /\ given_up' = IF Answerable(t) THEN given_up + 1 ELSE given_up
  /\ UNCHANGED <<ends, routes, cmd_lock, cmd_response, last_line, written, undone>>

\* 30 s have passed; timeout() looks for a result once more before it fails.
TimeOut(t) == cmd_response = << >> /\ GiveUp(t)

\* The future is dropped at one of its awaits; in the middle of a write that
\* tears the line.
Cancel(t) ==
  \/ GiveUp(t)
  \/ caller[t].at = "locking" /\ Leave(t) /\ UNCHANGED last_line
  \/ caller[t].at = "writing" /\ Leave(t) /\ last_line' \in {last_line, "torn"}

-----------------------------------------------------------------------------
(* The other methods *)

\* A sender registered before under this name is dropped.  late: nobody is
\* left to send to the queue, not even that the connection is lost.
RegisterProcess(n, q) ==
  /\ open /\ queue[q].name = NoName
  /\ process_queues' = [process_queues EXCEPT ![n] = q]
  /\ queue' = [queue EXCEPT ![q] = [name |-> n, late |-> (demux = "ended"), got |-> << >>]]
  /\ UNCHANGED <<ends, commands>>

UnregisterProcess(n) ==
  /\ open /\ process_queues[n] # NoQueue
  /\ process_queues' = [process_queues EXCEPT ![n] = NoQueue]
  /\ UNCHANGED <<queue, ends, commands>>

\* send_stdin, answered by nobody: it ends a torn line, or its future is
\* dropped and tears one.
SendStdin ==
  /\ open /\ last_line' \in {"whole", "torn"}
  /\ UNCHANGED <<ends, routes, cmd_lock, cmd_response, caller, written, given_up, undone>>

\* close consumes the connection, so no command can be under way.
Close ==
  /\ open /\ \A t \in Callers : caller[t].at = "idle"
  /\ open' = FALSE /\ closed' = TRUE
  /\ process_queues' = Senders(demux # "ended")
  /\ UNCHANGED <<demux, queue, commands>>

\* abort takes effect when the demultiplexer next waits.
Abort ==
  /\ ~open /\ demux \in {"reading", "ending"}
  /\ demux' = "aborted" /\ process_queues' = Senders(FALSE)
  /\ UNCHANGED <<open, closed, queue, commands>>

-----------------------------------------------------------------------------
(* The server, and the connection seen from the client *)

Command(t) ==
  \/ SendCommand(t) /\ UNCHANGED link
  \/ TakeLock(t) /\ UNCHANGED link
  \/ up /\ WriteCommand(t) /\ lines' = Append(lines, written') /\ UNCHANGED <<wire, read, up>>
  \/ up /\ WriteSpoilt(t) /\ UNCHANGED link
  \/ ~up /\ WriteFails(t) /\ UNCHANGED link
  \/ ReceiveResult(t) /\ UNCHANGED link
  \/ TimeOut(t) /\ UNCHANGED link
  \/ Cancel(t) /\ UNCHANGED link

ServerSends(m) ==
  /\ up
  /\ wire' = Append(wire, m)
  /\ UNCHANGED <<read, up, ends, routes, commands>>

ServerAnswers ==
  /\ lines # << >>
  /\ lines' = Tail(lines) /\ ServerSends(Result(Head(lines)))

ServerOutputs ==
  /\ Len(wire) < MaxSent
  /\ \/ \E n \in Names : ServerSends(Output(n, Len(wire) + 1))
     \/ ServerSends(Garbage(Len(wire) + 1))
  /\ UNCHANGED lines

ServerGone ==
  /\ up /\ up' = FALSE
  /\ UNCHANGED <<lines, wire, read, ends, routes, commands>>

\* A client that is over; before that the application can always close it.
Rests == ~open /\ demux \in {"ended", "aborted"} /\ UNCHANGED vars

Init ==
  /\ lines = << >> /\ wire = << >> /\ read = 0 /\ up = TRUE
  /\ open = TRUE /\ closed = FALSE /\ demux = "reading"
  /\ process_queues = [n \in Names |-> NoQueue]
  /\ queue = [q \in Queues |-> [name |-> NoName, late |-> FALSE, got |-> << >>]]
  /\ cmd_lock = NoCaller /\ cmd_response = << >>
  /\ caller = [t \in Callers |-> Caller("idle", 0, 0)]
  /\ last_line = "whole" /\ written = 0 /\ given_up = 0 /\ undone = 0

Demux == ReadLine \/ Eof \/ ((NotifyLoss \/ Abort) /\ UNCHANGED link)

Application ==
  \/ \E t \in Callers : Command(t)
  \/ \E n \in Names : \E q \in Queues : RegisterProcess(n, q) /\ UNCHANGED link
  \/ \E n \in Names : UnregisterProcess(n) /\ UNCHANGED link
  \/ SendStdin /\ UNCHANGED link
  \/ Close /\ UNCHANGED link

Server == ServerAnswers \/ ServerOutputs \/ ServerGone

Next == Demux \/ Application \/ Server \/ Rests

Spec == Init /\ [][Next]_vars
=============================================================================
