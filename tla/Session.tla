------------------------------ MODULE Session ------------------------------
(***************************************************************************)
(* The Rust server and the Rust client library together: a program makes   *)
(* its calls one after the other on one connection, as the programs of     *)
(* examples/rust and rs/tests do, and whatever it writes is what the       *)
(* server reads.  The server is ProcmuxServer, the library ProcmuxClient;  *)
(* this module adds the socket between them and the program.               *)
(***************************************************************************)
EXTENDS ProcmuxServerProperties

CONSTANTS
  MyConn,           \* the program's connection
  Queues, NoQueue,  \* the queues it can register
  Programs,         \* the programs of this instance
  MaxTimeouts       \* bound: 1 if a command may time out while it is served

\* A program is a sequence of calls; what it does with results is not modelled.
Call(op, n) == [op |-> op, name |-> n]

ServerCalls == Requests \ {"garbage", "garbage_split", "nonutf8"}

\* Calls about the server, and calls about a process.
NamelessCalls == {"list", "status", "unknown"}
Calls ==
  [op : NamelessCalls, name : {NoName}]
    \union [op : (ServerCalls \ NamelessCalls) \union {"register", "unregister", "recv"},
            name : Names]

ASSUME SessionAssumption ==
  /\ MyConn \in Conns /\ NoQueue \notin Queues /\ IsFiniteSet(Pids)
  /\ Asked \subseteq ServerCalls
  /\ \A calls \in Programs : calls \in Seq(Calls) /\ Len(calls) <= MaxLines
  /\ MaxTimeouts \in {0, 1}

VARIABLES
  \* the program
  program, pc,   \* pc = 0: not connected; beyond its end: main has returned
  received,      \* messages it has taken from its queue
  asked,         \* what it has written to the connection
  \* the socket: what the writer task has written; see ProcmuxClient for read
  wire, read,
  \* the client library
  open, closed, demux, process_queues, queue,
  cmd_lock, cmd_response, caller, written, given_up

app == <<program, pc, received, asked>>
lib == <<open, closed, demux, process_queues, queue, cmd_lock, cmd_response, caller,
         written, given_up>>
session_vars == <<vars, app, wire, read, lib>>

Main == "main"   \* the only task that uses the connection

-----------------------------------------------------------------------------
(* What the library sees of the server *)

\* The connection is there until the server's process ends.
Up == Alive

Answered == Cardinality({i \in DOMAIN wire : wire[i].kind = "result"})

\* A message of the server as the library tells it from others.
Seen(i) == IF wire[i].kind = "result"
             THEN [kind |-> "result", name |-> NoName, no |-> wire[i].re]
             ELSE [kind |-> "output", name |-> wire[i].name, no |-> i]

Client == INSTANCE ProcmuxClient WITH
  Callers <- {Main}, NoCaller <- "nobody",
  MaxCommands <- MaxLines,
  MaxSent <- MaxLines + Cardinality(Pids) * (MaxOut + MaxErr + 1),
  lines <- [i \in 1 .. written - Answered |-> Answered + i],
  wire  <- [i \in DOMAIN wire |-> Seen(i)],
  up    <- Up,
  \* The program drops no future, and so never tears a line.
  last_line <- "whole", undone <- 0

-----------------------------------------------------------------------------
(* The program *)

Connected == pc > 0
Returned  == pc > Len(program)
At(ops)   == pc \in DOMAIN program /\ program[pc].op \in ops
Name      == program[pc].name

Return    == pc' = Len(program) + 1      \* main returns, with an error or not
Advance   == pc' = pc + 1

ServerStands == UNCHANGED vars
LibStands    == UNCHANGED lib
SocketStands == UNCHANGED <<wire, read>>

Writes == ClientSends(MyConn) /\ asked' = Append(asked, program[pc])

\* Without a server connect() fails.
Connect ==
  /\ pc = 0
  /\ \/ ClientConnects(MyConn) /\ Advance
     \/ ~Alive /\ Return /\ ServerStands
  /\ UNCHANGED <<program, received, asked>> /\ LibStands /\ SocketStands

Register ==
  /\ At({"register"})
  /\ \E q \in Queues : Client!RegisterProcess(Name, q)
  /\ Advance /\ received' = 0
  /\ UNCHANGED <<program, asked>> /\ ServerStands /\ SocketStands

Unregister ==
  /\ At({"unregister"})
  /\ Client!UnregisterProcess(Name)
  /\ Advance
  /\ UNCHANGED <<program, received, asked>> /\ ServerStands /\ SocketStands

\* send_command and what follows it in the program.
BeginCommand ==
  /\ At(ServerCalls \ {"stdin"}) /\ Client!SendCommand(Main)
  /\ UNCHANGED app /\ ServerStands /\ SocketStands

LockTaken ==
  /\ Client!TakeLock(Main)
  /\ UNCHANGED app /\ ServerStands /\ SocketStands

WriteLine ==
  /\ Up /\ Client!WriteCommand(Main) /\ Writes
  /\ UNCHANGED <<program, pc, received>> /\ SocketStands

GetResult ==
  /\ Client!ReceiveResult(Main) /\ Advance
  /\ UNCHANGED <<program, received, asked>> /\ ServerStands /\ SocketStands

\* Anything else send_command returns is passed on by ? and ends main.
CommandFails ==
  /\ \/ ~Up /\ Client!WriteFails(Main)
     \/ Client!TimeOut(Main) /\ (Up => given_up < MaxTimeouts)
  /\ Return
  /\ UNCHANGED <<program, received, asked>> /\ ServerStands /\ SocketStands

SendStdin ==
  /\ At({"stdin"})
  /\ \/ Up /\ Writes /\ Advance
     \/ ~Up /\ Return /\ ServerStands /\ UNCHANGED asked
  /\ UNCHANGED <<program, received>> /\ LibStands /\ SocketStands

MyQueue == process_queues[Name]

\* rx.recv() under a timeout of 5 s, on the queue registered last.
Receive ==
  /\ At({"recv"}) /\ MyQueue # NoQueue
  /\ \/ Len(queue[MyQueue].got) > received /\ received' = received + 1 /\ Advance
     \/ Len(queue[MyQueue].got) = received /\ Return /\ UNCHANGED received
  /\ UNCHANGED <<program, asked>> /\ ServerStands /\ LibStands /\ SocketStands

\* At its end, or when main returns early, the program drops the connection.
CloseConnection ==
  /\ Returned /\ Client!Close
  /\ \/ ClientCloses(MyConn)
     \/ conn[MyConn].state = "new" /\ ServerStands
  /\ UNCHANGED app /\ SocketStands

Program ==
  \/ Connect \/ Register \/ Unregister \/ BeginCommand \/ LockTaken \/ WriteLine
  \/ GetResult \/ CommandFails \/ SendStdin \/ Receive \/ CloseConnection

-----------------------------------------------------------------------------
(* The socket, and the library's demultiplexer at its end *)

\* The writer task writes the next message; if the program is gone it fails.
WriterWrites ==
  /\ Alive /\ client_tx = MyConn /\ writer /\ conn[MyConn].state = "open"
  /\ Len(wire) < Len(channel)
  /\ wire' = Append(wire, channel[Len(wire) + 1])
  /\ UNCHANGED read /\ UNCHANGED app /\ ServerStands /\ LibStands

ReadLine ==
  /\ Connected /\ read < Len(wire) /\ read' = read + 1
  /\ Client!Route(Seen(read + 1))
  /\ UNCHANGED wire /\ UNCHANGED app /\ ServerStands

Ending ==
  /\ Connected
  /\ \/ ~Up /\ read = Len(wire) /\ Client!LoseConnection
     \/ Client!NotifyLoss
     \/ Client!Abort
  /\ UNCHANGED app /\ ServerStands /\ SocketStands

Library == ReadLine \/ Ending

-----------------------------------------------------------------------------
(* The server; the line it takes is the oldest it has not taken. *)

Line == asked[Len(asked) - conn[MyConn].unread + 1]

TakesIts(line) ==
  \/ line.op \in SpawnRequests /\ CmdSpawn(line.op, line.name)
  \/ line.op = "kill" /\ CmdKill(line.name)
  \/ line.op = "interrupt" /\ CmdInterrupt(line.name)
  \/ line.op = "subscribe" /\ CmdSubscribe(line.name)
  \/ line.op = "unsubscribe" /\ CmdUnsubscribe(line.name)
  \/ line.op = "stdin" /\ HandleStdin(line.name)
  \/ line.op = "list" /\ CmdList
  \/ line.op = "status" /\ CmdStatus
  \/ line.op = "unknown" /\ CmdUnknown

ServerSteps ==
  /\ \/ Accept \/ Disconnect \/ HandleRelay \/ WaitEnds \/ TakeShutdown \/ Shutdown
     \/ Tasks
     \/ conn[MyConn].unread > 0 /\ TakesIts(Line)
     \/ \E p \in Pids : ChildWrites(p) \/ ChildWritesErr(p) \/ ChildReads(p)
                          \/ ChildClosesStdout(p) \/ ChildExits(p) \/ KilledDies(p)
     \/ Signal
  /\ UNCHANGED app /\ LibStands /\ SocketStands

\* All is over, or the server waits for a child to read its stdin; anywhere
\* else one of the two must have a next step.
SessionRests ==
  /\ \/ Returned /\ ~open
     \/ at = "stdin"
  /\ UNCHANGED session_vars

SessionInit ==
  /\ Init
  /\ program \in Programs /\ pc = 0 /\ received = 0 /\ asked = << >>
  /\ wire = << >> /\ read = 0
  /\ open = TRUE /\ closed = FALSE /\ demux = "reading"
  /\ process_queues = [n \in Names |-> NoQueue]
  /\ queue = [q \in Queues |-> [name |-> NoName, late |-> FALSE, got |-> << >>]]
  /\ cmd_lock = "nobody" /\ cmd_response = << >>
  /\ caller = [t \in {Main} |-> [at |-> "idle", asked |-> 0, got |-> 0]]
  /\ written = 0 /\ given_up = 0

SessionNext == Program \/ WriterWrites \/ Library \/ ServerSteps \/ SessionRests

SessionSpec == SessionInit /\ [][SessionNext]_session_vars

-----------------------------------------------------------------------------
(* Properties *)

(***************************************************************************)
(* The composition implements ProcmuxClient: the Rust server is a server   *)
(* as the client library needs it, so what is true of ProcmuxClient is     *)
(* true of a program that uses the library with this server.               *)
(***************************************************************************)
IsClientSystem == Client!Init /\ [][Client!Next]_(Client!vars)

\* n is registered before its first spawn and stays registered.
EarlyRegistered(n) ==
  \E i \in 1 .. pc - 1 :
    /\ program[i] = Call("register", n)
    /\ \A j \in DOMAIN program :
         /\ j < i => ~(program[j].name = n /\ program[j].op \in SpawnRequests)
         /\ j # i => ~(program[j].name = n /\ program[j].op \in {"register", "unregister"})

\* The relayed lines of one pipe of p that have got to the program's queue.
Delivered(n, p, pipe) ==
  LET got == queue[process_queues[n]].got
      lines_of == [i \in DOMAIN got |-> wire[got[i].no]]
  IN Positions(lines_of, p, pipe)

From(s, i) == SubSeq(s, i, Len(s))

(***************************************************************************)
(* End to end: while the server manages a child whose name was registered  *)
(* before it was spawned, each line taken from a pipe of it is in exactly  *)
(* one place, and the places are in order: the program's queue, the        *)
(* socket, the channel to the writer task, the buffer, the relay queue.    *)
(***************************************************************************)
NothingMissing ==
  \A n \in Names : EarlyRegistered(n) /\ open /\ demux = "reading" /\ Up /\ Managed(n) =>
    \A pipe \in Pipes :
      LET p == procs[n].pid
          taken == IF pipe = "stdout" THEN task[p].out ELSE task[p].err
      IN Delivered(n, p, pipe)
           \o Positions(From(wire, read + 1), p, pipe)
           \o Positions(From(channel, Len(wire) + 1), p, pipe)
           \o Positions(Pending(p), p, pipe)  =  [i \in 1 .. taken |-> i]

(***************************************************************************)
(* Fairness: that of the server, of the writer task, of the library and of *)
(* the program.  What the program writes is taken: the server's reader     *)
(* task never waits, and until the connection is accepted the socket has   *)
(* room for it.  The timer of a command is only needed once the server is  *)
(* gone.                                                                   *)
(***************************************************************************)
SessionFairness ==
  /\ Fairness
  /\ WF_session_vars(WriterWrites) /\ WF_session_vars(Library)
  /\ WF_session_vars(Program /\ ~(Up /\ CommandFails))

FairSession == SessionSpec /\ SessionFairness

(***************************************************************************)
(* A program ends, without the help of a timer as long as the server is    *)
(* there: each command is answered, and if a command kills the server the  *)
(* program hears of that.  The one exception is a server that waits for    *)
(* ever for a child to read its stdin.                                     *)
(***************************************************************************)
ProgramEnds == <>(Returned \/ Stuck)
=============================================================================
