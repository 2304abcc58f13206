--------------------------- MODULE SessionProofs ---------------------------
(***************************************************************************)
(* The composition of the Rust server, the client library and a program,   *)
(* for every program and every number of names, children and lines.        *)
(***************************************************************************)
EXTENDS Session, ProcmuxServerStreamProofs, FiniteSetTheorems

USE DEF Managed, Running

-----------------------------------------------------------------------------
(* The server in the session behaves as the server alone *)

\* What a program writes to its connection.
Lines == {c \in Calls : c.op \in ServerCalls}

\* A command under way is the program's next call, and the lines the server
\* has not taken are the last the program wrote.
ProgramInv ==
  /\ program \in Seq(Calls) /\ pc \in Nat
  /\ DOMAIN caller = {Main}
  /\ caller[Main].at # "idle" => At(ServerCalls \ {"stdin"})
  /\ asked \in Seq(Lines)
  /\ conn[MyConn].unread <= Len(asked)

\* The server takes the line l.
ServesLine(l) ==
  /\ conn[MyConn].unread > 0 /\ client_tx # NoConn /\ conn[client_tx].unread > 0
  /\ conn' = [conn EXCEPT ![client_tx].unread = @ - 1]
  /\ served' = IF l.op = "stdin" THEN served ELSE served + 1
  /\ UNCHANGED <<client_tx, backlog>>

\* A call that names a process names one there is.
LEMMA LineNames ==
  ASSUME NEW l \in Lines
  PROVE  /\ l.op \in ServerCalls
         /\ l.op \notin NamelessCalls => l.name \in Names
<1>1. \/ l \in [op : NamelessCalls, name : {NoName}]
      \/ l \in [op : (ServerCalls \ NamelessCalls) \union {"register", "unregister", "recv"},
                name : Names]
  BY DEF Lines, Calls
<1>2. QED
  BY <1>1 DEF Lines

\* The line the server takes is one the program wrote.
LEMMA NextLine ==
  ASSUME TypeInv, ProgramInv, conn[MyConn].unread > 0
  PROVE  /\ Line \in Lines
         /\ Len(asked) \in Nat /\ conn[MyConn].unread \in Nat
         /\ Len(asked) - conn[MyConn].unread + 1 \in 1 .. Len(asked)
<1>1. conn[MyConn].unread \in Nat /\ Len(asked) \in Nat
  BY SessionAssumption, LenProperties DEF TypeInv, TypeOK, ClientsOK, ProgramInv
<1>2. Len(asked) - conn[MyConn].unread + 1 \in 1 .. Len(asked)
  BY <1>1 DEF ProgramInv
<1>3. Line \in Lines
  BY <1>2, ElementOfSeq DEF Line, ProgramInv
<1>4. QED
  BY <1>1, <1>2, <1>3

\* It takes the line as one of its commands.
LEMMA TakesLine ==
  ASSUME TypeInv, ProgramInv, conn[MyConn].unread > 0, TakesIts(Line)
  PROVE  HandleClientLine /\ ServesLine(Line)
<1> DEFINE l == Line
<1>1. l \in Lines
  BY NextLine
<1>2. l.op \notin NamelessCalls => l.name \in Names
  BY <1>1, LineNames
<1> HIDE DEF l
<1>3. TakesIts(l)
  BY DEF l
<1>4. CASE l.op \in SpawnRequests /\ CmdSpawn(l.op, l.name)
  BY <1>2, <1>4 DEF HandleClientLine, ServesLine, CmdSpawn, TakeCommand, TakeLine, SpawnRequests,
     NamelessCalls, l
<1>5. CASE l.op = "kill" /\ CmdKill(l.name)
  BY <1>2, <1>5 DEF HandleClientLine, ServesLine, CmdKill, TakeCommand, TakeLine, NamelessCalls, l
<1>6. CASE l.op = "interrupt" /\ CmdInterrupt(l.name)
  BY <1>2, <1>6 DEF HandleClientLine, ServesLine, CmdInterrupt, TakeCommand, TakeLine, NamelessCalls, l
<1>7. CASE l.op = "subscribe" /\ CmdSubscribe(l.name)
  BY <1>2, <1>7 DEF HandleClientLine, ServesLine, CmdSubscribe, TakeCommand, TakeLine, NamelessCalls, l
<1>8. CASE l.op = "unsubscribe" /\ CmdUnsubscribe(l.name)
  BY <1>2, <1>8 DEF HandleClientLine, ServesLine, CmdUnsubscribe, TakeCommand, TakeLine, NamelessCalls, l
<1>9. CASE l.op = "stdin" /\ HandleStdin(l.name)
  BY <1>2, <1>9 DEF HandleClientLine, ServesLine, HandleStdin, TakeLine, NamelessCalls, l
<1>10. CASE l.op = "list" /\ CmdList
  BY <1>10 DEF HandleClientLine, ServesLine, CmdList, TakeCommand, TakeLine, l
<1>11. CASE l.op = "status" /\ CmdStatus
  BY <1>11 DEF HandleClientLine, ServesLine, CmdStatus, TakeCommand, TakeLine, l
<1>12. CASE l.op = "unknown" /\ CmdUnknown
  BY <1>12 DEF HandleClientLine, ServesLine, CmdUnknown, TakeCommand, TakeLine, l
<1>13. QED
  BY <1>3, <1>4, <1>5, <1>6, <1>7, <1>8, <1>9, <1>10, <1>11, <1>12 DEF TakesIts

\* What a step of the server, a child or the operator does to connections.
LEMMA ServerMoves ==
  ASSUME TypeInv, ProgramInv, ServerSteps
  PROVE  /\ Next
         /\ \/ Accept \/ Disconnect
            \/ ServesLine(Line)
            \/ UNCHANGED <<client_tx, served, conn, backlog>>
<1> DEFINE Still == UNCHANGED <<client_tx, served, conn, backlog>>
           Child(p) == \/ ChildWrites(p) \/ ChildWritesErr(p) \/ ChildReads(p)
                       \/ ChildClosesStdout(p) \/ ChildExits(p) \/ KilledDies(p)
<1>1. CASE Accept \/ Disconnect
  BY <1>1 DEF Next, Server
<1>2. CASE HandleRelay
  BY <1>2 DEF Next, Server, HandleRelay, HandleStdout, HandleStderr, HandleExit, session, clients
<1>3. CASE WaitEnds
  BY <1>3 DEF Next, Server, WaitEnds, ExitReaped, ExitTimeout, FinishExit, KillReaped, KillTimeout,
     StdinWritten, StdinFails, session, clients
<1>4. CASE TakeShutdown \/ Shutdown
  BY <1>4 DEF Next, Server, TakeShutdown, Shutdown, ShutdownDone, ShutdownNext, session, clients
<1>5. CASE Tasks
  <2>1. Still
    BY <1>5 DEF Tasks, WriterFails, RelayStdout, RelayEof, RelayStderr, AbortedTaskEnds,
       OrphanReaped, session, clients
  <2>2. QED
    BY <1>5, <2>1 DEF Next
<1>6. CASE conn[MyConn].unread > 0 /\ TakesIts(Line)
  BY <1>6, TakesLine DEF Next, Server
<1>7. ASSUME NEW p \in Pids, Child(p) PROVE Next /\ Still
  <2>1. Environment
    BY <1>7 DEF Environment
  <2>2. Still
    BY <1>7 DEF ChildWrites, ChildWritesErr, ChildReads, ChildClosesStdout, ChildExits, KilledDies,
       Unchanged, session, clients
  <2>3. QED
    BY <2>1, <2>2 DEF Next
<1>8. CASE Signal
  BY <1>8 DEF Next, Environment, Signal, session, clients
<1>9. QED
  BY <1>1, <1>2, <1>3, <1>4, <1>5, <1>6, <1>7, <1>8 DEF ServerSteps

\* A step of the program, the library or the writer task is a step of a client
\* or none of the server's, and leaves no line out.
ClientMoves ==
  \/ UNCHANGED <<vars, asked>>
  \/ UNCHANGED asked /\ pc = 0 /\ ClientConnects(MyConn)
  \/ /\ ClientSends(MyConn) /\ pc \in DOMAIN program /\ program[pc].op \in ServerCalls
     /\ asked' = Append(asked, program[pc])
  \/ UNCHANGED asked /\ Returned /\ ClientCloses(MyConn)

LEMMA OtherMoves ==
  ASSUME ProgramInv, Program \/ WriterWrites \/ Library \/ SessionRests
  PROVE  ClientMoves /\ UNCHANGED program
<1> USE DEF ClientMoves, ServerStands, session_vars, app
<1>1. CASE Connect \/ Register \/ Unregister \/ BeginCommand \/ LockTaken \/ GetResult \/ CommandFails
           \/ Receive
  BY <1>1 DEF Connect, Register, Unregister, BeginCommand, LockTaken, GetResult, CommandFails, Receive
<1>2. CASE WriteLine
  <2>1. caller[Main].at # "idle"
    BY <1>2 DEF WriteLine, Client!WriteCommand
  <2>2. QED
    BY <1>2, <2>1 DEF WriteLine, Writes, ProgramInv, At
<1>3. CASE SendStdin
  BY <1>3 DEF SendStdin, Writes, At, ServerCalls, Requests
<1>4. CASE CloseConnection
  BY <1>4 DEF CloseConnection
<1>5. CASE WriterWrites \/ Library \/ SessionRests
  BY <1>5 DEF WriterWrites, Library, ReadLine, Ending, SessionRests
<1>6. QED
  BY <1>1, <1>2, <1>3, <1>4, <1>5 DEF Program

\* The program's counter moves only between two commands, and a command
\* begins only where the program has one.
CallerMoves ==
  /\ DOMAIN caller' = {Main}
  /\ \/ UNCHANGED <<pc, caller>>
     \/ UNCHANGED pc /\ caller'[Main].at # "idle" /\ At(ServerCalls \ {"stdin"})
     \/ pc' \in {pc + 1, Len(program) + 1} /\ caller'[Main].at = "idle"

LEMMA CallerStep ==
  ASSUME ProgramInv, SessionNext
  PROVE  CallerMoves
<1>1. DOMAIN caller = {Main}
  BY DEF ProgramInv
<1>2. caller[Main].at = "idle" \/ (pc \in DOMAIN program /\ program[pc].op \in ServerCalls \ {"stdin"})
  BY DEF ProgramInv, At
<1>3. CASE Connect
  <2>1. pc = 0 /\ UNCHANGED caller
    BY <1>3 DEF Connect, LibStands, lib
  <2>2. caller[Main].at = "idle"
    BY <1>2, <2>1, LenProperties DEF ProgramInv
  <2>3. QED
    BY <1>1, <1>3, <2>1, <2>2 DEF Connect, CallerMoves, Advance, Return
<1>4. CASE Register \/ Unregister
  <2>1. UNCHANGED caller /\ pc' = pc + 1 /\ program[pc].op \in {"register", "unregister"}
    BY <1>4 DEF Register, Unregister, Advance, At, Client!RegisterProcess, Client!UnregisterProcess,
       Client!commands
  <2>2. caller[Main].at = "idle"
    BY <1>2, <2>1 DEF ServerCalls, Requests, SpawnRequests
  <2>3. QED
    BY <1>1, <2>1, <2>2 DEF CallerMoves
<1>5. CASE BeginCommand
  BY <1>1, <1>5 DEF BeginCommand, CallerMoves, app, Client!SendCommand, Client!Sends, Client!Caller
<1>6. CASE WriteLine
  <2>1. UNCHANGED pc /\ At(ServerCalls \ {"stdin"})
    BY <1>6 DEF WriteLine, ProgramInv, Client!WriteCommand
  <2>2. caller'[Main].at = "waiting" /\ DOMAIN caller' = {Main}
    BY <1>1, <1>6 DEF WriteLine, Client!WriteCommand, Client!Sends, Client!Caller
  <2>3. QED
    BY <2>1, <2>2 DEF CallerMoves
<1>7. CASE GetResult
  BY <1>1, <1>7 DEF GetResult, CallerMoves, Advance, Client!ReceiveResult, Client!Caller
<1>8. CASE CommandFails
  BY <1>1, <1>8 DEF CommandFails, CallerMoves, Return, Client!WriteFails, Client!Leave, Client!TimeOut,
     Client!GiveUp, Client!Sends, Client!Caller
<1>9. CASE SendStdin \/ Receive
  <2>1. /\ UNCHANGED caller /\ pc' \in {pc + 1, Len(program) + 1}
        /\ program[pc].op \in {"stdin", "recv"}
    BY <1>9 DEF SendStdin, Receive, Advance, Return, At, LibStands, lib
  <2>2. caller[Main].at = "idle"
    BY <1>2, <2>1 DEF ServerCalls, Requests, SpawnRequests
  <2>3. QED
    BY <1>1, <2>1, <2>2 DEF CallerMoves
<1>10. CASE CloseConnection \/ WriterWrites \/ Library \/ ServerSteps \/ SessionRests
  BY <1>1, <1>10 DEF CallerMoves, CloseConnection, WriterWrites, Library, ReadLine, Ending,
     ServerSteps, SessionRests, session_vars, app, LibStands, lib, Client!Close, Client!commands,
     Client!Route, Client!LoseConnection, Client!NotifyLoss, Client!Abort
<1>11. CASE LockTaken
  <2>1. UNCHANGED pc /\ At(ServerCalls \ {"stdin"})
    BY <1>11 DEF LockTaken, ProgramInv, Client!TakeLock, app
  <2>2. caller'[Main].at = "writing" /\ DOMAIN caller' = {Main}
    BY <1>1, <1>11 DEF LockTaken, Client!TakeLock, Client!Sends, Client!Caller
  <2>3. QED
    BY <2>1, <2>2 DEF CallerMoves
<1>12. QED
  BY <1>3, <1>4, <1>5, <1>6, <1>7, <1>8, <1>9, <1>10, <1>11 DEF SessionNext, Program

LEMMA ProgramStep ==
  ASSUME TypeInv, TypeInv', ProgramInv, SessionNext
  PROVE  ProgramInv'
<1>1. program' = program
  BY OtherMoves DEF SessionNext, ServerSteps, app
<1>2. program' \in Seq(Calls) /\ pc' \in Nat /\ Len(program) \in Nat
  BY <1>1, CallerStep, LenProperties DEF ProgramInv, CallerMoves
<1>3. DOMAIN caller' = {Main} /\ (caller'[Main].at # "idle" => At(ServerCalls \ {"stdin"})')
  BY <1>1, CallerStep DEF ProgramInv, CallerMoves, At
<1>4. conn \in [Conns -> [state : {"new", "open", "closed"}, unread : Nat, sent : Nat]] /\ Len(asked) \in Nat
  BY LenProperties DEF TypeInv, TypeOK, ClientsOK, ProgramInv
<1>5. CASE UNCHANGED asked /\ conn'[MyConn].unread <= conn[MyConn].unread
  <2>1. conn'[MyConn].unread \in Nat
    BY SessionAssumption DEF TypeInv, TypeOK, ClientsOK
  <2>2. QED
    BY <1>2, <1>3, <1>4, <1>5, <2>1, SessionAssumption DEF ProgramInv
<1>6. CASE ServerSteps
  <2>1. conn'[MyConn].unread <= conn[MyConn].unread
    <3>1. conn[MyConn].unread \in Nat
      BY <1>4, SessionAssumption
    <3>2. CASE Accept \/ UNCHANGED conn
      BY <3>1, <3>2 DEF Accept
    <3>3. CASE Disconnect
      BY <1>4, <3>1, <3>3, SessionAssumption DEF Disconnect
    <3>4. CASE ServesLine(Line)
      BY <1>4, <3>1, <3>4, SessionAssumption DEF ServesLine
    <3>5. QED
      BY <1>6, <3>2, <3>3, <3>4, ServerMoves
  <2>2. QED
    BY <1>5, <1>6, <2>1 DEF ServerSteps, app
<1>7. CASE \/ UNCHANGED <<vars, asked>>
           \/ UNCHANGED asked /\ ClientConnects(MyConn)
           \/ UNCHANGED asked /\ ClientCloses(MyConn)
  <2>1. conn'[MyConn].unread = conn[MyConn].unread /\ UNCHANGED asked
    BY <1>4, <1>7, SessionAssumption DEF ClientConnects, ClientCloses, vars, clients
  <2>2. QED
    BY <1>4, <1>5, <2>1, SessionAssumption
<1>8. CASE /\ ClientSends(MyConn) /\ pc \in DOMAIN program /\ program[pc].op \in ServerCalls
           /\ asked' = Append(asked, program[pc])
  <2>1. program[pc] \in Lines
    BY <1>8, ElementOfSeq, LenProperties DEF ProgramInv, Lines
  <2>2. asked' \in Seq(Lines) /\ Len(asked') = Len(asked) + 1
    BY <1>8, <2>1, AppendProperties DEF ProgramInv
  <2>3. conn'[MyConn].unread = conn[MyConn].unread + 1
    BY <1>4, <1>8, SessionAssumption DEF ClientSends
  <2>4. QED
    BY <1>2, <1>3, <1>4, <2>2, <2>3, SessionAssumption DEF ProgramInv
<1>9. CASE ClientMoves
  BY <1>7, <1>8, <1>9 DEF ClientMoves
<1>10. ServerSteps \/ ClientMoves
  BY OtherMoves DEF SessionNext
<1>11. QED
  BY <1>6, <1>9, <1>10

\* A step of the session is a step of the server among its tasks, children and
\* clients, or none of theirs.
LEMMA ServerStep ==
  ASSUME TypeInv, ProgramInv, SessionNext
  PROVE  [Next]_vars
<1>1. CASE ServerSteps
  BY <1>1, ServerMoves
<1>2. CASE ClientMoves
  BY <1>2, SessionAssumption DEF ClientMoves, Next, Environment
<1>3. QED
  BY <1>1, <1>2, OtherMoves DEF SessionNext

LEMMA SessionInits ==
  ASSUME SessionInit
  PROVE  Init /\ ProgramInv
<1>1. Init /\ pc = 0 /\ asked = << >> /\ DOMAIN caller = {Main} /\ caller[Main].at = "idle"
  BY DEF SessionInit
<1>2. program \in Seq(Calls) /\ conn[MyConn].unread = 0
  BY <1>1, SessionAssumption DEF SessionInit, Init
<1>3. asked \in Seq(Lines) /\ Len(asked) = 0
  BY <1>1, EmptySeq
<1>4. QED
  BY <1>1, <1>2, <1>3 DEF ProgramInv

\* The server in the composition is the server alone, with a client among
\* others: what is true of ProcmuxServer!Spec is true of it.
THEOREM ServerInSession == SessionSpec => Spec
<1>1. SessionInit => Init /\ TypeInv /\ ProgramInv
  BY SessionInits, InitTypeInv
<1>2. TypeInv /\ ProgramInv /\ [SessionNext]_session_vars => [Next]_vars /\ TypeInv' /\ ProgramInv'
  <2> SUFFICES ASSUME TypeInv, ProgramInv, [SessionNext]_session_vars
               PROVE  [Next]_vars /\ TypeInv' /\ ProgramInv'
    OBVIOUS
  <2>1. CASE SessionNext
    BY <2>1, ServerStep, TypeInvStep, ProgramStep
  <2>2. CASE UNCHANGED session_vars
    <3>1. UNCHANGED <<vars, program, pc, caller, asked>>
      BY <2>2 DEF session_vars, app, lib
    <3>2. [Next]_vars /\ TypeInv'
      BY <3>1, TypeInvStep
    <3>3. /\ conn' = conn /\ program' = program /\ pc' = pc /\ caller' = caller /\ asked' = asked
      BY <3>1 DEF vars, clients
    <3>4. ProgramInv'
      BY <3>3 DEF ProgramInv, At
    <3>5. QED
      BY <3>2, <3>4
  <2>3. QED
    BY <2>1, <2>2
<1>3. QED
  BY <1>1, <1>2, PTL DEF SessionSpec, Spec

-----------------------------------------------------------------------------
(* How much there is to send *)

\* No relay task sends more than its child wrote, and one Exit.
Bounded ==
  \A p \in Pids :
    /\ child[p].out <= MaxOut /\ child[p].err <= MaxErr
    /\ task[p].err <= child[p].err
    /\ \/ task[p].out <= child[p].out
       \/ task[p].stdout = "done" /\ task[p].out <= child[p].out + 1

\* The counts of p stay.
SameCounts(p) ==
  /\ child'[p].out = child[p].out /\ child'[p].err = child[p].err
  /\ task'[p].out = task[p].out /\ task'[p].err = task[p].err
  /\ \/ task[p].stdout = "done" => task'[p].stdout = "done"
     \/ child[p].state = "unborn"

LEMMA BoundedStep ==
  ASSUME TypeInv, Bounded, Next
  PROVE  Bounded'
<1>0. /\ child \in [Pids -> ChildRec] /\ task \in [Pids -> TaskRec]
      /\ \A p \in Pids : /\ child[p].out \in Nat /\ child[p].err \in Nat
                         /\ task[p].out \in Nat /\ task[p].err \in Nat
      /\ MaxOut \in Nat /\ MaxErr \in Nat
  BY ServerAssumption DEF TypeInv, TypeOK, OsOK, ChildRec, TaskRec
<1>1. ASSUME \A p \in Pids : SameCounts(p) PROVE Bounded'
  <2>1. \A p \in Pids : child[p].state = "unborn" => task[p].stdout # "done"
    BY DEF TypeInv, Born
  <2>2. QED
    BY <1>1, <2>1 DEF Bounded, SameCounts
<1>2. CASE UNCHANGED os
  BY <1>1, <1>2 DEF os, SameCounts
<1>3. ASSUME NEW n \in Names, NEW r \in SpawnRequests, CmdSpawn(r, n) PROVE Bounded'
  <2>1. CASE UNCHANGED os
    BY <1>2, <2>1
  <2>2. ASSUME NEW p \in Pids, child[p].state = "unborn",
               child' = [child EXCEPT ![p].state = "running", ![p].name = n, ![p].open = TRUE],
               task' = [task EXCEPT ![p].stdout = "reading", ![p].stderr = "reading"]
        PROVE  Bounded'
    BY <1>0, <1>1, <2>2 DEF SameCounts, ChildRec, TaskRec
  <2>3. QED
    BY <1>3, <2>1, <2>2 DEF CmdSpawn
<1>4. CASE WaitEnds
  <2>1. CASE ExitTimeout \/ StdinFails
    BY <1>2, <2>1 DEF ExitTimeout, FinishExit, StdinFails, os
  <2>2. CASE ExitReaped \/ KillTimeout \/ StdinWritten
    <3> DEFINE q == procs[target].pid
    <3>1. UNCHANGED task /\ \/ child' = [child EXCEPT ![q].state = "reaped"]
                            \/ child' = [child EXCEPT ![q].killed = TRUE]
                            \/ child' = [child EXCEPT ![q].stdin = @ + 1]
      BY <2>2 DEF ExitReaped, FinishExit, KillTimeout, StdinWritten
    <3> HIDE DEF q
    <3>2. \A p \in Pids : child'[p].out = child[p].out /\ child'[p].err = child[p].err
      BY <1>0, <3>1 DEF ChildRec
    <3>3. QED
      BY <1>1, <3>1, <3>2 DEF SameCounts
  <2>3. CASE KillReaped
    BY <1>0, <1>1, <2>3 DEF KillReaped, SameCounts, ChildRec, TaskRec, Aborted, Abort
  <2>4. QED
    BY <1>4, <2>1, <2>2, <2>3 DEF WaitEnds
<1>5. CASE HandleClientLine
  BY <1>2, <1>3, <1>5 DEF HandleClientLine, CmdKill, CmdInterrupt, CmdSubscribe, CmdUnsubscribe,
     CmdList, CmdStatus, CmdUnknown, HandleStdin, InvalidLine
<1>6. ASSUME NEW p \in Pids, RelayStdout(p) PROVE Bounded'
  BY <1>0, <1>6 DEF RelayStdout, Bounded, TaskRec
<1>7. ASSUME NEW p \in Pids, RelayEof(p) PROVE Bounded'
  <2>1. /\ UNCHANGED child /\ \A q \in Pids \ {p} : task'[q] = task[q]
        /\ task'[p].out = task[p].out + 1 /\ task'[p].stdout = "done" /\ task'[p].err = task[p].err
        /\ task[p].out = child[p].out
    BY <1>0, <1>7 DEF RelayEof, TaskRec
  <2>2. QED
    BY <1>0, <2>1 DEF Bounded
<1>8. ASSUME NEW p \in Pids, RelayStderr(p) PROVE Bounded'
  BY <1>0, <1>8 DEF RelayStderr, Bounded, TaskRec
<1>9. ASSUME NEW p \in Pids, AbortedTaskEnds(p) \/ OrphanReaped(p) PROVE Bounded'
  <2>1. CASE AbortedTaskEnds(p)
    <3>1. /\ UNCHANGED child
          /\ \/ task' = [task EXCEPT ![p].stdout = "done"] \/ task' = [task EXCEPT ![p].stderr = "done"]
      BY <2>1 DEF AbortedTaskEnds
    <3>2. \A q \in Pids : /\ task'[q].out = task[q].out /\ task'[q].err = task[q].err
                          /\ task[q].stdout = "done" => task'[q].stdout = "done"
      <4>1. CASE task' = [task EXCEPT ![p].stdout = "done"]
        BY <1>0, <4>1 DEF TaskRec
      <4>2. CASE task' = [task EXCEPT ![p].stderr = "done"]
        BY <1>0, <4>2 DEF TaskRec
      <4>3. QED
        BY <3>1, <4>1, <4>2
    <3>3. QED
      BY <1>1, <3>1, <3>2 DEF SameCounts
  <2>2. CASE OrphanReaped(p)
    BY <1>0, <1>1, <2>2 DEF OrphanReaped, SameCounts, ChildRec
  <2>3. QED
    BY <1>9, <2>1, <2>2
<1>10. ASSUME NEW p \in Pids, ChildWrites(p) \/ ChildWritesErr(p) PROVE Bounded'
  BY <1>0, <1>10 DEF ChildWrites, ChildWritesErr, Unchanged, Bounded, ChildRec
<1>11. ASSUME NEW p \in Pids, ChildReads(p) \/ ChildClosesStdout(p) \/ ChildExits(p) \/ KilledDies(p)
       PROVE  Bounded'
  BY <1>0, <1>1, <1>11 DEF ChildReads, ChildClosesStdout, ChildExits, KilledDies, Unchanged,
     SameCounts, ChildRec
<1>12. CASE Server
  BY <1>2, <1>4, <1>5, <1>12 DEF Server, Accept, Disconnect, HandleRelay, HandleStdout, HandleStderr,
     HandleExit, TakeShutdown, Shutdown, ShutdownDone, ShutdownNext
<1>13. CASE Tasks
  BY <1>2, <1>6, <1>7, <1>8, <1>9, <1>13 DEF Tasks, WriterFails
<1>14. CASE Environment
  BY <1>2, <1>10, <1>11, <1>14 DEF Environment, ClientConnects, ClientSends, ClientCloses, Signal
<1>15. CASE Rests
  BY <1>2, <1>15 DEF Rests, vars
<1>16. QED
  BY <1>12, <1>13, <1>14, <1>15 DEF Next

LEMMA InitBounded == Init => Bounded
  BY ServerAssumption DEF Init, Bounded

-----------------------------------------------------------------------------
(* Counting *)

\* Which of the first k lines of s are commands.
CommandsIn(s, k) == {i \in 1 .. k : s[i].op # "stdin"}

LEMMA CommandsCount ==
  ASSUME NEW s, NEW k \in Nat
  PROVE  /\ IsFiniteSet(CommandsIn(s, k)) /\ Cardinality(CommandsIn(s, k)) \in 0 .. k
         /\ Cardinality(CommandsIn(s, k + 1)) =
              IF s[k + 1].op = "stdin" THEN Cardinality(CommandsIn(s, k))
                                       ELSE Cardinality(CommandsIn(s, k)) + 1
<1>1. IsFiniteSet(1 .. k) /\ Cardinality(1 .. k) = k
  BY FS_Interval
<1>2. CommandsIn(s, k) \in SUBSET (1 .. k) /\ k + 1 \notin CommandsIn(s, k)
  BY DEF CommandsIn
<1>3. /\ IsFiniteSet(CommandsIn(s, k)) /\ Cardinality(CommandsIn(s, k)) <= k
      /\ Cardinality(CommandsIn(s, k)) \in Nat
  BY <1>1, <1>2, FS_Subset, FS_CardinalityType
<1>4. CommandsIn(s, k + 1) = IF s[k + 1].op = "stdin" THEN CommandsIn(s, k)
                                                      ELSE CommandsIn(s, k) \union {k + 1}
  BY DEF CommandsIn
<1>5. QED
  BY <1>2, <1>3, <1>4, FS_AddElement

LEMMA CommandsGrow ==
  ASSUME NEW s, NEW k \in Nat, NEW j \in 0 .. k
  PROVE  Cardinality(CommandsIn(s, j)) <= Cardinality(CommandsIn(s, k))
<1>1. IsFiniteSet(CommandsIn(s, k))
  BY CommandsCount
<1>2. CommandsIn(s, j) \in SUBSET CommandsIn(s, k)
  BY DEF CommandsIn
<1>3. QED
  BY <1>1, <1>2, FS_Subset

\* Lines that are added later do not matter.
LEMMA CommandsSame ==
  ASSUME NEW s \in Seq(Lines), NEW l \in Lines, NEW k \in 0 .. Len(s)
  PROVE  CommandsIn(Append(s, l), k) = CommandsIn(s, k)
<1>1. \A i \in 1 .. k : Append(s, l)[i] = s[i]
  BY AppendProperties, LenProperties
<1>2. QED
  BY <1>1 DEF CommandsIn

\* Which messages of s are results.
ResultsIn(s) == {i \in DOMAIN s : s[i].kind = "result"}

LEMMA ResultsCount ==
  ASSUME NEW s \in Seq(Message), NEW m \in Message
  PROVE  /\ IsFiniteSet(ResultsIn(s)) /\ Cardinality(ResultsIn(s)) \in Nat
         /\ Cardinality(ResultsIn(Append(s, m))) =
              IF m.kind = "result" THEN Cardinality(ResultsIn(s)) + 1 ELSE Cardinality(ResultsIn(s))
<1>1. /\ Len(s) \in Nat /\ DOMAIN s = 1 .. Len(s) /\ DOMAIN Append(s, m) = 1 .. Len(s) + 1
      /\ Append(s, m)[Len(s) + 1] = m /\ \A i \in 1 .. Len(s) : Append(s, m)[i] = s[i]
  BY AppendProperties, LenProperties
<1>2. IsFiniteSet(1 .. Len(s)) /\ ResultsIn(s) \in SUBSET (1 .. Len(s)) /\ Len(s) + 1 \notin ResultsIn(s)
  <2>1. ResultsIn(s) \subseteq 1 .. Len(s) /\ Len(s) + 1 \notin 1 .. Len(s)
    BY <1>1 DEF ResultsIn
  <2>2. IsFiniteSet(1 .. Len(s))
    BY <1>1, FS_Interval
  <2>3. QED
    BY <2>1, <2>2
<1>3. IsFiniteSet(ResultsIn(s)) /\ Cardinality(ResultsIn(s)) \in Nat
  BY <1>2, FS_Subset, FS_CardinalityType
<1>4. ResultsIn(Append(s, m)) = IF m.kind = "result" THEN ResultsIn(s) \union {Len(s) + 1}
                                                     ELSE ResultsIn(s)
  BY <1>1 DEF ResultsIn
<1>5. QED
  BY <1>2, <1>3, <1>4, FS_AddElement

-----------------------------------------------------------------------------
(* The connection *)

\* Before the program connects, until the server accepts, while it serves the
\* connection, and when it has found that the program is gone.
Fore      == conn[MyConn].state = "new" /\ backlog = << >> /\ client_tx = NoConn
Queued    == conn[MyConn].state # "new" /\ backlog = <<MyConn>> /\ client_tx = NoConn
IsServed  == conn[MyConn].state # "new" /\ backlog = << >> /\ client_tx = MyConn
Left      == conn[MyConn].state = "closed" /\ backlog = << >> /\ client_tx = NoConn

\* How many lines of the connection the server has taken.
Taken == Len(asked) - conn[MyConn].unread

\* The program and the server count the same commands, and the socket holds the
\* first messages of the channel: results in turn, each of a command written.
ConnInv ==
  /\ Fore \/ Queued \/ IsServed \/ Left
  /\ Fore \/ Queued => wire = << >> /\ Taken = 0
  /\ IsServed => Extends(channel, wire) /\ served = Cardinality(CommandsIn(asked, Taken))
  /\ Len(asked) <= MaxLines
  /\ conn[MyConn].state # "closed" => conn[MyConn].sent = Len(asked)
  /\ wire \in Seq(Message) /\ read \in 0 .. Len(wire)
  /\ written = Cardinality(CommandsIn(asked, Len(asked)))
  /\ InTurn(wire, Answered) /\ Answered <= written

LinkInv == TurnInv /\ StreamInv /\ Bounded /\ ProgramInv /\ ConnInv

LEMMA LinkTypes ==
  ASSUME LinkInv
  PROVE  /\ TypeInv
         /\ conn \in [Conns -> [state : {"new", "open", "closed"}, unread : Nat, sent : Nat]]
         /\ MyConn \in Conns /\ MyConn # NoConn /\ Len(asked) \in Nat /\ Taken \in 0 .. Len(asked)
         /\ channel \in Seq(Message) /\ wire \in Seq(Message) /\ asked \in Seq(Lines)
         /\ Len(wire) \in Nat /\ Len(channel) \in Nat /\ served \in Nat /\ written \in Nat
         /\ Answered \in Nat /\ MaxLines \in Nat
<1>1. TypeInv /\ MyConn \in Conns /\ MyConn # NoConn
  BY SessionAssumption, ServerAssumption DEF LinkInv, TurnInv
<1>2. /\ conn \in [Conns -> [state : {"new", "open", "closed"}, unread : Nat, sent : Nat]]
      /\ served \in Nat /\ channel \in Seq(Message)
  BY <1>1 DEF TypeInv, TypeOK, ClientsOK, ControlOK, MessagesOK
<1>3. asked \in Seq(Lines) /\ wire \in Seq(Message) /\ Answered \in Nat
  BY DEF LinkInv, ProgramInv, ConnInv, InTurn
<1>4. Len(asked) \in Nat /\ Len(wire) \in Nat /\ Len(channel) \in Nat
  BY <1>2, <1>3, LenProperties
<1>5. Taken \in 0 .. Len(asked)
  BY <1>1, <1>2, <1>4 DEF Taken, LinkInv, ProgramInv
<1>6. written \in Nat
  BY <1>4, CommandsCount DEF LinkInv, ConnInv
<1>7. QED
  BY <1>1, <1>2, <1>3, <1>4, <1>5, <1>6, ServerAssumption

LEMMA ExtendsTrans ==
  ASSUME NEW s, NEW t, NEW u, Len(s) \in Nat, Len(t) \in Nat, Len(u) \in Nat,
         Extends(u, t), Extends(t, s)
  PROVE  Extends(u, s)
BY DEF Extends

\* What is sent on a connection stays sent.
LEMMA ChannelGrows ==
  ASSUME OrderInv, Next, UNCHANGED client_tx, client_tx # NoConn
  PROVE  Extends(channel', channel)
<1>1. channel \in Seq(Message) /\ \A n \in Names : procs[n].buffer \in Seq(Message)
  BY OrderTypes DEF OrderInv
<1>2. ASSUME NEW s \in Seq(Message), channel' = channel \o s PROVE Extends(channel', channel)
  BY <1>1, <1>2, ConcatProperties, LenProperties DEF Extends
<1>3. ASSUME NEW m \in Message, channel' = Append(channel, m) PROVE Extends(channel', channel)
  BY <1>1, <1>3, AppendProperties, LenProperties DEF Extends
<1>4. CASE UNCHANGED channel
  BY <1>1, <1>4, LenProperties DEF Extends
<1>5. ~Accept /\ ~Disconnect
  BY DEF Accept, Disconnect
<1>6. CASE Quiet
  BY <1>3, <1>4, <1>5, <1>6 DEF Quiet, Message
<1>7. CASE Replays
  <2>1. PICK n \in Names, r \in Result :
          channel' = IF writer THEN channel \o Append(procs[n].buffer, r) ELSE channel
    BY <1>7 DEF Replays
  <2>2. Append(procs[n].buffer, r) \in Seq(Message)
    BY <1>1, AppendProperties DEF Message
  <2>3. QED
    BY <1>2, <1>4, <2>1, <2>2
<1>8. CASE Handles
  BY <1>3, <1>4, <1>8 DEF Handles, Message
<1>9. CASE Relays
  BY <1>4, <1>9 DEF Relays
<1>10. QED
  BY <1>6, <1>7, <1>8, <1>9, ShapeStep DEF OrderInv

\* A step of the server, a child or the operator.
LEMMA ServerKeepsConn ==
  ASSUME LinkInv, TypeInv', ServerSteps
  PROVE  ConnInv'
<1>0. UNCHANGED <<asked, wire, read, written>>
  BY DEF ServerSteps, app, LibStands, SocketStands, lib
<1>1. /\ Next
      /\ Accept \/ Disconnect \/ ServesLine(Line) \/ UNCHANGED <<client_tx, served, conn, backlog>>
  BY ServerMoves DEF LinkInv, TurnInv
<1>2. Fore \/ Queued \/ IsServed \/ Left
  BY DEF LinkInv, ConnInv
<1>3. ASSUME Fore' \/ Queued' \/ IsServed' \/ Left',
             Fore' \/ Queued' => wire = << >> /\ Taken' = 0,
             IsServed' => Extends(channel', wire) /\ served' = Cardinality(CommandsIn(asked, Taken')),
             conn'[MyConn].state # "closed" => conn'[MyConn].sent = Len(asked)
      PROVE  ConnInv'
  <2>1. Answered' = Answered
    BY <1>0 DEF Answered
  <2>2. QED
    BY <1>0, <1>3, <2>1 DEF ConnInv, LinkInv
<1>4. UNCHANGED client_tx /\ IsServed => Extends(channel', wire)
  <2> SUFFICES ASSUME UNCHANGED client_tx, IsServed PROVE Extends(channel', wire)
    OBVIOUS
  <2>1. Extends(channel', channel) /\ Extends(channel, wire)
    BY <1>1, LinkTypes, ChannelGrows DEF LinkInv, StreamInv, ConnInv, IsServed
  <2>2. Len(channel') \in Nat
    BY LenProperties DEF TypeInv, TypeOK, MessagesOK
  <2>3. QED
    BY <2>1, <2>2, LinkTypes, ExtendsTrans
<1>5. CASE Accept
  <2>1. Queued
    BY <1>2, <1>5, LinkTypes DEF Accept, Fore, Queued, IsServed, Left
  <2>2. IsServed' /\ UNCHANGED conn /\ served' = 0
    BY <1>5, <2>1 DEF Accept, Queued, IsServed
  <2>3. wire = << >> /\ Taken' = 0 /\ ~(Fore' \/ Queued')
    BY <1>0, <2>1, <2>2, LinkTypes DEF LinkInv, ConnInv, Taken, Fore, Queued, IsServed
  <2>4. Extends(channel', wire)
    <3>1. Len(channel') \in Nat /\ Len(wire) = 0
      BY <2>3, LenProperties DEF TypeInv, TypeOK, MessagesOK
    <3>2. QED
      BY <3>1 DEF Extends
  <2>5. Cardinality(CommandsIn(asked, 0)) = 0
    BY CommandsCount
  <2>6. QED
    BY <1>0, <1>3, <2>2, <2>3, <2>4, <2>5 DEF LinkInv, ConnInv
<1>6. CASE Disconnect
  <2>1. IsServed
    BY <1>2, <1>6, LinkTypes DEF Disconnect, Fore, Queued, IsServed, Left
  <2>2. Left' /\ ~Fore' /\ ~Queued' /\ ~IsServed' /\ conn'[MyConn].state = "closed"
    BY <1>6, <2>1, LinkTypes DEF Disconnect, Left, Fore, Queued, IsServed
  <2>3. QED
    BY <1>3, <2>2
<1>7. CASE ServesLine(Line)
  <2>1. IsServed
    BY <1>2, <1>7, LinkTypes DEF ServesLine, Fore, Queued, IsServed, Left
  <2>2. /\ conn'[MyConn].unread = conn[MyConn].unread - 1 /\ conn'[MyConn].state = conn[MyConn].state
        /\ conn'[MyConn].sent = conn[MyConn].sent /\ conn[MyConn].unread > 0
        /\ conn[MyConn].unread \in Nat
    BY <1>7, <2>1, LinkTypes DEF ServesLine, IsServed
  <2>3. IsServed' /\ ~Fore' /\ ~Queued'
    BY <1>7, <2>1, <2>2, LinkTypes DEF ServesLine, IsServed, Fore, Queued
  <2>4. Taken' = Taken + 1 /\ Line = asked[Taken + 1]
    BY <1>0, <2>2, LinkTypes DEF Taken, Line
  <2>5. served' = Cardinality(CommandsIn(asked, Taken + 1))
    BY <1>7, <2>1, <2>4, LinkTypes, CommandsCount DEF ServesLine, LinkInv, ConnInv
  <2>6. Extends(channel', wire)
    BY <1>4, <1>7, <2>1 DEF ServesLine
  <2>7. QED
    BY <1>3, <2>2, <2>3, <2>4, <2>5, <2>6 DEF LinkInv, ConnInv
<1>8. CASE UNCHANGED <<client_tx, served, conn, backlog>>
  <2>1. Fore' = Fore /\ Queued' = Queued /\ IsServed' = IsServed /\ Left' = Left /\ Taken' = Taken
    BY <1>0, <1>8 DEF Fore, Queued, IsServed, Left, Taken
  <2>2. QED
    BY <1>2, <1>3, <1>4, <1>8, <2>1 DEF LinkInv, ConnInv
<1>9. QED
  BY <1>1, <1>5, <1>6, <1>7, <1>8

\* The program counts what it writes, and the server's end of the connection
\* has only been served once it is accepted.
WrittenMoves ==
  \/ UNCHANGED <<vars, asked, written>>
  \/ UNCHANGED <<asked, written>> /\ ClientConnects(MyConn)
  \/ \E l \in Lines : /\ ClientSends(MyConn) /\ asked' = Append(asked, l)
                      /\ written' = IF l.op = "stdin" THEN written ELSE written + 1
  \/ UNCHANGED <<asked, written>> /\ ClientCloses(MyConn)

LEMMA ProgramWrites ==
  ASSUME ProgramInv, Program \/ WriterWrites \/ Library \/ SessionRests
  PROVE  WrittenMoves
<1> USE DEF WrittenMoves, ServerStands, LibStands, lib, session_vars, app
<1>1. CASE Connect \/ Register \/ Unregister \/ BeginCommand \/ LockTaken \/ GetResult \/ CommandFails
           \/ Receive
  BY <1>1 DEF Connect, Register, Unregister, BeginCommand, LockTaken, GetResult, CommandFails, Receive,
     Client!RegisterProcess, Client!UnregisterProcess, Client!SendCommand, Client!TakeLock, Client!ReceiveResult,
     Client!WriteFails, Client!Leave, Client!TimeOut, Client!GiveUp, Client!commands
<1>2. CASE WriteLine
  <2>1. written' = written + 1 /\ At(ServerCalls \ {"stdin"})
    BY <1>2 DEF WriteLine, ProgramInv, Client!WriteCommand
  <2>2. program[pc] \in Lines
    BY <2>1, ElementOfSeq, LenProperties DEF ProgramInv, Lines, At
  <2>3. QED
    BY <1>2, <2>1, <2>2 DEF WriteLine, Writes, At
<1>3. CASE SendStdin
  <2>1. UNCHANGED written /\ At({"stdin"})
    BY <1>3 DEF SendStdin
  <2>2. program[pc] \in Lines
    BY <2>1, ElementOfSeq, LenProperties DEF ProgramInv, Lines, At, ServerCalls, Requests
  <2>3. QED
    BY <1>3, <2>1, <2>2 DEF SendStdin, Writes, At
<1>4. CASE CloseConnection
  BY <1>4 DEF CloseConnection, Client!Close, Client!commands
<1>5. CASE WriterWrites \/ Library \/ SessionRests
  BY <1>5 DEF WriterWrites, Library, ReadLine, Ending, SessionRests, Client!Route,
     Client!LoseConnection, Client!NotifyLoss, Client!Abort, Client!commands
<1>6. QED
  BY <1>1, <1>2, <1>3, <1>4, <1>5 DEF Program

\* A step of the program, as far as it is on the connection.
LEMMA ProgramKeepsConn ==
  ASSUME LinkInv, WrittenMoves, UNCHANGED <<wire, read>>
  PROVE  ConnInv'
<1>1. /\ Fore \/ Queued \/ IsServed \/ Left
      /\ Fore \/ Queued => wire = << >> /\ Taken = 0
      /\ IsServed => Extends(channel, wire) /\ served = Cardinality(CommandsIn(asked, Taken))
      /\ Len(asked) <= MaxLines
      /\ conn[MyConn].state # "closed" => conn[MyConn].sent = Len(asked)
      /\ written = Cardinality(CommandsIn(asked, Len(asked)))
  BY DEF LinkInv, ConnInv
<1>0. Len(asked') \in Nat
  BY LinkTypes, AppendProperties DEF WrittenMoves
<1>2. UNCHANGED Answered
  BY DEF Answered
<1>3. ASSUME Fore' \/ Queued' \/ IsServed' \/ Left',
             Fore' \/ Queued' => wire = << >> /\ Taken' = 0,
             IsServed' => Extends(channel, wire) /\ served = Cardinality(CommandsIn(asked', Taken')),
             Len(asked') <= MaxLines,
             conn'[MyConn].state # "closed" => conn'[MyConn].sent = Len(asked'),
             written' = Cardinality(CommandsIn(asked', Len(asked'))), written <= written',
             UNCHANGED <<channel, served>>
      PROVE  ConnInv'
  <2>1. wire' = wire /\ read' = read /\ channel' = channel /\ served' = served
    BY <1>3
  <2>2. InTurn(wire, Answered) /\ Answered <= written'
    <3>1. written' \in Nat
      <4>1. \A t, k : k \in Nat => Cardinality(CommandsIn(t, k)) \in Nat
        BY CommandsCount
      <4>2. Len(asked') \in Nat
        BY <1>0
      <4>3. QED
        BY <1>3, <4>1, <4>2
    <3>2. InTurn(wire, Answered) /\ Answered <= written
      BY DEF LinkInv, ConnInv
    <3>3. QED
      BY <1>3, <3>1, <3>2, LinkTypes
  <2>3. wire \in Seq(Message) /\ read \in 0 .. Len(wire)
    BY DEF LinkInv, ConnInv
  <2>4. QED
    BY <1>2, <1>3, <2>1, <2>2, <2>3 DEF ConnInv
<1>4. CASE UNCHANGED <<vars, asked, written>>
  <2>1. UNCHANGED <<conn, backlog, client_tx, channel, served>>
    BY <1>4 DEF vars, session, clients
  <2>2. Fore' = Fore /\ Queued' = Queued /\ IsServed' = IsServed /\ Left' = Left /\ Taken' = Taken
    BY <1>4, <2>1 DEF Fore, Queued, IsServed, Left, Taken
  <2>3. QED
    BY <1>1, <1>3, <1>4, <2>1, <2>2, LinkTypes
<1>5. CASE UNCHANGED <<asked, written>> /\ ClientConnects(MyConn)
  <2>1. /\ conn[MyConn].state = "new" /\ UNCHANGED <<channel, served, client_tx>>
        /\ conn'[MyConn].state = "open" /\ conn'[MyConn].unread = conn[MyConn].unread
        /\ conn'[MyConn].sent = conn[MyConn].sent /\ backlog' = Append(backlog, MyConn)
    BY <1>5, LinkTypes DEF ClientConnects, session
  <2>2. Fore
    BY <1>1, <2>1 DEF Fore, Queued, IsServed, Left
  <2>3. Queued' /\ ~IsServed' /\ Taken' = Taken
    BY <1>5, <2>1, <2>2, LinkTypes DEF Fore, Queued, IsServed, Taken
  <2>4. QED
    BY <1>1, <1>3, <1>5, <2>1, <2>2, <2>3, LinkTypes
<1>6. CASE UNCHANGED <<asked, written>> /\ ClientCloses(MyConn)
  <2>1. /\ conn[MyConn].state = "open" /\ UNCHANGED <<channel, served, client_tx, backlog>>
        /\ conn'[MyConn].state = "closed" /\ conn'[MyConn].unread = conn[MyConn].unread
    BY <1>6, LinkTypes DEF ClientCloses, session
  <2>2. /\ ~Fore /\ ~Left /\ ~Fore' /\ (Queued => Queued') /\ (IsServed => IsServed')
        /\ (Queued' => Queued) /\ (IsServed' => IsServed) /\ Taken' = Taken
    BY <1>6, <2>1 DEF Fore, Queued, IsServed, Left, Taken
  <2>3. QED
    BY <1>1, <1>3, <1>6, <2>1, <2>2, LinkTypes
<1>7. ASSUME NEW l \in Lines, ClientSends(MyConn), asked' = Append(asked, l),
             written' = IF l.op = "stdin" THEN written ELSE written + 1
      PROVE  ConnInv'
  <2>1. /\ conn[MyConn].state = "open" /\ UNCHANGED <<channel, served, client_tx, backlog>>
        /\ conn'[MyConn].state = "open" /\ conn'[MyConn].unread = conn[MyConn].unread + 1
        /\ conn'[MyConn].sent = conn[MyConn].sent + 1 /\ conn[MyConn].sent < MaxLines
        /\ conn[MyConn].unread \in Nat
    BY <1>7, LinkTypes DEF ClientSends, session
  <2>2. Len(asked') = Len(asked) + 1 /\ asked'[Len(asked) + 1] = l
    BY <1>7, LinkTypes, AppendProperties
  <2>3. Taken' = Taken
    <3>1. Len(asked) \in Nat /\ conn[MyConn].unread \in Nat
      BY <2>1, LinkTypes
    <3>2. QED
      BY <2>1, <2>2, <3>1 DEF Taken
  <2>4. /\ ~Fore /\ ~Left /\ ~Fore' /\ (Queued => Queued') /\ (IsServed => IsServed')
        /\ (Queued' => Queued) /\ (IsServed' => IsServed)
    BY <2>1 DEF Fore, Queued, IsServed, Left
  <2>5. CommandsIn(asked', Taken') = CommandsIn(asked, Taken)
    BY <1>7, <2>3, LinkTypes, CommandsSame
  <2>6. CommandsIn(asked', Len(asked)) = CommandsIn(asked, Len(asked))
    BY <1>7, LinkTypes, CommandsSame
  <2>7. written' = Cardinality(CommandsIn(asked', Len(asked'))) /\ written <= written'
    <3>1. \A s : Cardinality(CommandsIn(s, Len(asked) + 1)) =
                   IF s[Len(asked) + 1].op = "stdin" THEN Cardinality(CommandsIn(s, Len(asked)))
                                                     ELSE Cardinality(CommandsIn(s, Len(asked))) + 1
      BY LinkTypes, CommandsCount
    <3>2. Cardinality(CommandsIn(asked', Len(asked) + 1)) = IF l.op = "stdin" THEN written ELSE written + 1
      BY <1>1, <2>2, <2>6, <3>1
    <3>3. QED
      BY <1>7, <2>2, <3>2, LinkTypes
  <2>8. QED
    BY <1>1, <1>3, <2>1, <2>2, <2>3, <2>4, <2>5, <2>7, LinkTypes
<1>8. QED
  BY <1>4, <1>5, <1>6, <1>7 DEF WrittenMoves

\* What comes next on the socket: the first message of the channel that is not
\* on it, and if it is a result, that of the first command without one.
Upcoming == channel[Len(wire) + 1]

LEMMA NextOnWire ==
  ASSUME LinkInv, WriterWrites
  PROVE  /\ IsServed /\ Upcoming \in Message /\ wire' = Append(wire, Upcoming)
         /\ Len(wire) + 1 \in 1 .. Len(channel)
         /\ Upcoming.kind = "result" => Upcoming.re = Answered + 1 /\ Answered < written
<1>1. /\ client_tx = MyConn /\ writer /\ at # "panicked" /\ Len(wire) < Len(channel)
      /\ wire' = Append(wire, Upcoming)
  BY DEF WriterWrites, Alive, Upcoming
<1>2. IsServed
  BY <1>1, LinkTypes DEF LinkInv, ConnInv, Fore, Queued, IsServed, Left
<1>3. Len(wire) + 1 \in 1 .. Len(channel) /\ Upcoming \in Message
  BY <1>1, LinkTypes, ElementOfSeq DEF Upcoming
<1>4. /\ InTurn(channel, Due) /\ InTurn(wire, Answered) /\ Extends(channel, wire)
  BY <1>1, <1>2 DEF LinkInv, TurnInv, ConnInv
<1>5. ASSUME Upcoming.kind = "result" PROVE Upcoming.re = Answered + 1 /\ Answered < written
  <2> DEFINE R == {i \in DOMAIN channel : channel[i].kind = "result"}
             W == {i \in DOMAIN wire : wire[i].kind = "result"}
             k == Len(wire) + 1
             a == Answered
  <2>1. /\ {channel[i].re : i \in R} = 1 .. Due /\ \A i, j \in R : i < j => channel[i].re < channel[j].re
        /\ {wire[i].re : i \in W} = 1 .. a /\ Due \in Nat
    BY <1>4 DEF InTurn
  <2>2. /\ DOMAIN channel = 1 .. Len(channel) /\ DOMAIN wire = 1 .. Len(wire)
        /\ \A i \in 1 .. Len(wire) : wire[i] = channel[i]
    BY <1>4, LinkTypes, LenProperties DEF Extends
  <2>3. k \in R /\ channel[k].re \in 1 .. Due
    BY <1>3, <1>5, <2>1, <2>2 DEF Upcoming
  <2>4. \A i \in R : i < k <=> i \in W
    BY <2>2, LinkTypes
  <2>5. \A i \in W : i \in R /\ i < k /\ wire[i].re = channel[i].re
    BY <2>2, <1>3, LinkTypes
  <2>6. a < channel[k].re
    <3>1. CASE a = 0
      BY <2>3, <3>1
    <3>2. CASE a # 0
      <4>1. a \in {wire[i].re : i \in W}
        BY <2>1, <3>2, LinkTypes
      <4>2. PICK i \in W : wire[i].re = a
        BY <4>1
      <4>3. QED
        BY <2>1, <2>3, <2>5, <4>2
    <3>3. QED
      BY <3>1, <3>2
  <2>7. ~(a + 1 < channel[k].re)
    <3> SUFFICES ASSUME a + 1 < channel[k].re PROVE FALSE
      OBVIOUS
    <3>1. a + 1 \in 1 .. Due
      <4>1. a \in Nat
        BY LinkTypes
      <4>2. QED
        BY <2>1, <2>3, <4>1
    <3>2. a + 1 \in {channel[i].re : i \in R}
      BY <2>1, <3>1
    <3>3. PICK i \in R : channel[i].re = a + 1
      BY <3>2
    <3>4. i \in Nat /\ k \in Nat
      BY <2>2, <2>3
    <3>5. CASE i < k
      <4>1. i \in W /\ wire[i].re = a + 1
        BY <2>2, <2>4, <3>3, <3>5
      <4>2. a + 1 \in 1 .. a
        BY <2>1, <4>1
      <4>3. QED
        BY <4>2, LinkTypes
    <3>6. CASE i = k
      BY <2>3, <3>3, <3>6, LinkTypes
    <3>7. CASE i > k
      <4>1. channel[k].re < channel[i].re
        BY <2>1, <2>3, <3>7
      <4>2. QED
        BY <2>3, <3>3, <4>1, LinkTypes
    <3>8. QED
      BY <3>4, <3>5, <3>6, <3>7
  <2>8. channel[k].re = a + 1
    BY <2>3, <2>6, <2>7, LinkTypes
  <2>9. Due <= served
    BY LinkTypes DEF Due
  <2>10. served <= written
    BY <1>2, LinkTypes, CommandsGrow DEF LinkInv, ConnInv
  <2>11. QED
    BY <2>1, <2>3, <2>8, <2>9, <2>10, LinkTypes DEF Upcoming
<1>6. QED
  BY <1>1, <1>2, <1>3, <1>5

\* The writer task.
LEMMA WriterKeepsConn ==
  ASSUME LinkInv, WriterWrites
  PROVE  ConnInv'
<1>1. /\ IsServed /\ Upcoming \in Message /\ wire' = Append(wire, Upcoming)
      /\ Len(wire) + 1 \in 1 .. Len(channel)
      /\ Upcoming.kind = "result" => Upcoming.re = Answered + 1 /\ Answered < written
  BY NextOnWire
<1>2. /\ wire' \in Seq(Message) /\ Len(wire') = Len(wire) + 1 /\ wire'[Len(wire) + 1] = Upcoming
      /\ \A i \in 1 .. Len(wire) : wire'[i] = wire[i]
  BY <1>1, LinkTypes, AppendProperties
<1>3. /\ conn' = conn /\ backlog' = backlog /\ client_tx' = client_tx /\ channel' = channel
      /\ served' = served /\ asked' = asked /\ read' = read /\ written' = written
  BY DEF WriterWrites, ServerStands, LibStands, lib, app, vars, session, clients
<1>4. Fore' = Fore /\ Queued' = Queued /\ IsServed' = IsServed /\ Left' = Left /\ Taken' = Taken
  BY <1>3 DEF Fore, Queued, IsServed, Left, Taken
<1>5. Extends(channel, wire')
  <2>1. Extends(channel, wire)
    BY <1>1 DEF LinkInv, ConnInv
  <2>2. \A i \in 1 .. Len(wire') : i \in 1 .. Len(wire) \/ i = Len(wire) + 1
    BY <1>2, LinkTypes
  <2>3. QED
    BY <1>1, <1>2, <2>1, <2>2, LinkTypes DEF Extends, Upcoming
<1>6. ~Fore /\ ~Queued
  BY <1>1, LinkTypes DEF Fore, Queued, IsServed
<1>7. InTurn(wire, Answered) /\ Answered <= written /\ read \in 0 .. Len(wire)
  BY DEF LinkInv, ConnInv
<1>8. Answered' = IF Upcoming.kind = "result" THEN Answered + 1 ELSE Answered
  <2>1. Answered = Cardinality(ResultsIn(wire)) /\ Answered' = Cardinality(ResultsIn(wire'))
    BY DEF Answered, ResultsIn
  <2>2. QED
    BY <1>1, <2>1, LinkTypes, ResultsCount
<1>9. InTurn(wire', Answered')
  <2>1. CASE Upcoming \in Result
    <3>1. Upcoming.kind = "result" /\ Upcoming.re = Answered + 1
      BY <1>1, <2>1 DEF Result
    <3>2. << >> \in Seq(Output) /\ Append(<< >>, Upcoming) = <<Upcoming>>
      BY EmptySeq
    <3>3. wire \o <<Upcoming>> = wire'
      BY <1>1, LinkTypes, AppendIsConcat
    <3>4. \A d : InTurn(wire, d) /\ Upcoming.re = d + 1 => InTurn(wire \o Append(<< >>, Upcoming), d + 1)
      BY <2>1, <3>2, LinkTypes, TurnNext
    <3>5. QED
      BY <1>7, <1>8, <3>1, <3>2, <3>3, <3>4
  <2>2. CASE Upcoming \in Output
    <3>1. Upcoming.kind # "result"
      BY <2>2 DEF Output
    <3>2. QED
      BY <1>1, <1>7, <1>8, <2>2, <3>1, LinkTypes, TurnStays
  <2>3. QED
    BY <1>1, <2>1, <2>2 DEF Message
<1>10. Answered' <= written' /\ read' \in 0 .. Len(wire')
  BY <1>1, <1>2, <1>3, <1>7, <1>8, LinkTypes
<1>11. QED
  BY <1>1, <1>2, <1>3, <1>4, <1>5, <1>6, <1>9, <1>10 DEF LinkInv, ConnInv

\* The library reads a line.
LEMMA LibraryKeepsConn ==
  ASSUME LinkInv, Library
  PROVE  ConnInv'
<1>1. UNCHANGED <<vars, asked, wire, written>> /\ (read' = read \/ (read < Len(wire) /\ read' = read + 1))
  BY DEF Library, ReadLine, Ending, ServerStands, SocketStands, app, Client!Route, Client!LoseConnection,
     Client!NotifyLoss, Client!Abort, Client!commands
<1>2. /\ conn' = conn /\ backlog' = backlog /\ client_tx' = client_tx /\ channel' = channel
      /\ served' = served /\ asked' = asked /\ wire' = wire /\ written' = written
  BY <1>1 DEF vars, session, clients
<1>3. Fore' = Fore /\ Queued' = Queued /\ IsServed' = IsServed /\ Left' = Left /\ Taken' = Taken
      /\ Answered' = Answered
  BY <1>2 DEF Fore, Queued, IsServed, Left, Taken, Answered
<1>4. read' \in 0 .. Len(wire)
  BY <1>1, LinkTypes DEF LinkInv, ConnInv
<1>5. QED
  BY <1>2, <1>3, <1>4 DEF LinkInv, ConnInv

LEMMA InitLinkInv == SessionInit => LinkInv
<1> SUFFICES ASSUME SessionInit PROVE LinkInv
  OBVIOUS
<1>1. Init /\ ProgramInv
  BY SessionInits
<1>2. TurnInv
  <2>1. TypeInv /\ ReapedIsExited /\ ShutdownInv
    BY <1>1, InitTypeInv DEF Init, ReapedIsExited, ShutdownInv, Absent, Managed, Running
  <2>2. ~writer
    BY <1>1 DEF Init
  <2>3. QED
    BY <1>1, <2>1, <2>2 DEF TurnInv, Init
<1>3. Fore /\ ~Queued /\ ~IsServed
  BY <1>1, SessionAssumption DEF Init, Fore, Queued, IsServed
<1>4. asked = << >> /\ Len(asked) = 0 /\ wire = << >> /\ Len(wire) = 0 /\ read = 0 /\ written = 0
  BY EmptySeq DEF SessionInit
<1>5. Taken = 0 /\ conn[MyConn].sent = 0
  BY <1>1, <1>4, SessionAssumption DEF Init, Taken
<1>6. Cardinality(CommandsIn(asked, 0)) = 0
  BY CommandsCount
<1>7. {i \in DOMAIN wire : wire[i].kind = "result"} = {} /\ Answered = 0
  BY <1>4, FS_EmptySet DEF Answered
<1>8. InTurn(wire, Answered)
  BY <1>7 DEF InTurn
<1>9. wire \in Seq(Message)
  BY <1>4, EmptySeq
<1>10. ConnInv
  BY <1>3, <1>4, <1>5, <1>6, <1>7, <1>8, <1>9, ServerAssumption DEF ConnInv
<1>11. QED
  BY <1>1, <1>2, <1>10, InitStreamInv, InitBounded DEF LinkInv

LEMMA LinkStep == LinkInv /\ [SessionNext]_session_vars => LinkInv'
<1> SUFFICES ASSUME LinkInv, [SessionNext]_session_vars PROVE LinkInv'
  OBVIOUS
<1>1. TypeInv /\ ProgramInv /\ Bounded /\ TurnInv /\ StreamInv
  BY DEF LinkInv, TurnInv
<1>2. [Next]_vars
  BY <1>1, ServerStep DEF session_vars
<1>3. TurnInv' /\ StreamInv' /\ TypeInv'
  BY <1>1, <1>2, TurnStep, StreamInvStep DEF TurnInv
<1>4. Bounded'
  <2>1. CASE UNCHANGED vars
    <3>1. child' = child /\ task' = task
      BY <2>1 DEF vars, os
    <3>2. QED
      BY <1>1, <3>1 DEF Bounded
  <2>2. QED
    BY <1>1, <1>2, <2>1, BoundedStep
<1>5. CASE UNCHANGED session_vars
  <2>1. /\ conn' = conn /\ backlog' = backlog /\ client_tx' = client_tx /\ channel' = channel
        /\ served' = served /\ asked' = asked /\ wire' = wire /\ written' = written /\ read' = read
        /\ program' = program /\ pc' = pc /\ caller' = caller
    BY <1>5 DEF session_vars, vars, session, clients, app, lib
  <2>2. ProgramInv'
    BY <1>1, <2>1 DEF ProgramInv, At
  <2>3. Fore' = Fore /\ Queued' = Queued /\ IsServed' = IsServed /\ Left' = Left /\ Taken' = Taken
        /\ Answered' = Answered
    BY <2>1 DEF Fore, Queued, IsServed, Left, Taken, Answered
  <2>4. ConnInv'
    BY <2>1, <2>3 DEF LinkInv, ConnInv
  <2>5. QED
    BY <1>3, <1>4, <2>2, <2>4 DEF LinkInv
<1>6. CASE SessionNext
  <2>1. ProgramInv'
    BY <1>1, <1>3, <1>6, ProgramStep
  <2>2. ConnInv'
    <3>1. CASE ServerSteps
      BY <1>3, <3>1, ServerKeepsConn
    <3>2. CASE WriterWrites
      BY <3>2, WriterKeepsConn
    <3>3. CASE Library
      BY <3>3, LibraryKeepsConn
    <3>4. CASE Program \/ SessionRests
      <4>1. UNCHANGED <<wire, read>>
        BY <3>4 DEF Program, Connect, Register, Unregister, BeginCommand, LockTaken, WriteLine, GetResult,
           CommandFails, SendStdin, Receive, CloseConnection, SocketStands, SessionRests, session_vars
      <4>2. QED
        BY <1>1, <3>4, <4>1, ProgramWrites, ProgramKeepsConn
    <3>5. QED
      BY <1>6, <3>1, <3>2, <3>3, <3>4 DEF SessionNext
  <2>3. QED
    BY <1>3, <1>4, <2>1, <2>2 DEF LinkInv
<1>7. QED
  BY <1>5, <1>6

-----------------------------------------------------------------------------
(* The library sees a server as it needs it *)

\* A child's output, with its Exit.
MaxOutput == MaxOut + MaxErr + 1

\* As long as there is output to write, there is less on the socket than the
\* results of all commands and the output of all children.
LEMMA RoomForOutput ==
  ASSUME LinkInv, WriterWrites, Upcoming.kind # "result"
  PROVE  Len(wire) < MaxLines + Cardinality(Pids) * MaxOutput
<1> DEFINE N == Len(wire) + 1
           O == {i \in 1 .. N : channel[i].kind # "result"}
           R == ResultsIn(wire)
           T == Pids \X (1 .. MaxOutput)
           f == [i \in O |-> <<channel[i].from, IF channel[i].pipe = "stdout"
                                                  THEN channel[i].seq
                                                  ELSE MaxOut + 1 + channel[i].seq>>]
<1>0. /\ TypeInv /\ channel \in Seq(Message) /\ Len(channel) \in Nat /\ DOMAIN channel = 1 .. Len(channel)
      /\ MaxOut \in Nat /\ MaxErr \in Nat /\ Len(wire) \in Nat /\ DOMAIN wire = 1 .. Len(wire)
      /\ IsFiniteSet(Pids)
  BY LinkTypes, LenProperties, ServerAssumption, SessionAssumption
<1>1. N \in 1 .. Len(channel) /\ channel[N].kind # "result" /\ IsServed
  BY NextOnWire DEF Upcoming
<1>2. \A i \in 1 .. Len(wire) : wire[i] = channel[i]
  BY <1>1 DEF LinkInv, ConnInv, Extends
<1>3. 1 .. N = O \union R /\ O \intersect R = {}
  BY <1>0, <1>1, <1>2 DEF ResultsIn
<1>4. ASSUME NEW i \in O
      PROVE  /\ channel[i].from \in Pids /\ channel[i].pipe \in {"stdout", "stderr"}
             /\ channel[i].seq \in Nat /\ 1 <= channel[i].seq
             /\ channel[i].seq <= IF channel[i].pipe = "stdout" THEN MaxOut + 1 ELSE MaxErr
  <2>1. i \in 1 .. Len(channel) /\ channel[i] \in Message /\ channel[i].kind # "result"
    BY <1>0, <1>1, ElementOfSeq
  <2>2. channel[i] \in Output
    BY <2>1 DEF Message, Result
  <2>3. /\ channel[i].from \in Pids /\ channel[i].pipe \in {"stdout", "stderr"} /\ channel[i].seq \in Nat
    BY <2>2 DEF Output, Pipes
  <2>4. 1 <= channel[i].seq /\ channel[i].seq <= Read(channel[i].from, channel[i].pipe)
    BY <1>0, <2>1 DEF LinkInv, StreamInv, OrderInv, Placed, Fits
  <2>5. \A p \in Pids : /\ task[p].out \in Nat /\ task[p].err \in Nat
                        /\ child[p].out \in Nat /\ child[p].err \in Nat
                        /\ task[p].out <= MaxOut + 1 /\ task[p].err <= MaxErr
    <3>1. \A p \in Pids : /\ task[p].out \in Nat /\ task[p].err \in Nat
                          /\ child[p].out \in Nat /\ child[p].err \in Nat
      BY <1>0 DEF TypeInv, TypeOK, OsOK, ChildRec, TaskRec
    <3>2. \A p \in Pids : /\ child[p].out <= MaxOut /\ child[p].err <= MaxErr
                          /\ task[p].err <= child[p].err
                          /\ task[p].out <= child[p].out \/ task[p].out <= child[p].out + 1
      BY DEF LinkInv, Bounded
    <3> SUFFICES ASSUME NEW p \in Pids PROVE task[p].out <= MaxOut + 1 /\ task[p].err <= MaxErr
      BY <3>1
    <3> DEFINE a == child[p].out
               b == child[p].err
               c == task[p].out
               d == task[p].err
    <3>3. a \in Nat /\ b \in Nat /\ c \in Nat /\ d \in Nat
      BY <3>1
    <3>4. a <= MaxOut /\ b <= MaxErr /\ d <= b /\ (c <= a \/ c <= a + 1)
      BY <3>2
    <3> HIDE DEF a, b, c, d
    <3>5. c <= MaxOut + 1 /\ d <= MaxErr
      BY <1>0, <3>3, <3>4
    <3>6. QED
      BY <3>5 DEF c, d
  <2>6. QED
    BY <1>0, <2>3, <2>4, <2>5 DEF Read
<1>5. f \in [O -> T]
  <2>1. ASSUME NEW i \in O PROVE f[i] \in T
    <3>1. CASE channel[i].pipe = "stdout"
      BY <1>0, <1>4, <3>1 DEF MaxOutput
    <3>2. CASE channel[i].pipe # "stdout"
      BY <1>0, <1>4, <3>2 DEF MaxOutput
    <3>3. QED
      BY <3>1, <3>2
  <2>2. QED
    BY <2>1
<1>6. ASSUME NEW i \in O, NEW j \in O, f[i] = f[j] PROVE i = j
  <2>1. channel[i].from = channel[j].from /\ channel[i].pipe = channel[j].pipe /\ channel[i].seq = channel[j].seq
    <3> DEFINE x(k) == IF channel[k].pipe = "stdout" THEN channel[k].seq ELSE MaxOut + 1 + channel[k].seq
    <3>1. f[i] = <<channel[i].from, x(i)>> /\ f[j] = <<channel[j].from, x(j)>>
      OBVIOUS
    <3> HIDE DEF f
    <3>2. channel[i].from = channel[j].from /\ x(i) = x(j)
      <4> HIDE DEF x
      <4>1. \A a, b, c, d : <<a, b>> = <<c, d>> => a = c /\ b = d
        OBVIOUS
      <4>2. <<channel[i].from, x(i)>> = <<channel[j].from, x(j)>>
        BY <1>6, <3>1
      <4>3. QED
        BY <4>1, <4>2
    <3> DEFINE s == channel[i].seq
               t == channel[j].seq
    <3>3. /\ channel[i].pipe \in {"stdout", "stderr"} /\ s \in Nat /\ 1 <= s
          /\ channel[i].pipe = "stdout" => s <= MaxOut + 1
          /\ channel[j].pipe \in {"stdout", "stderr"} /\ t \in Nat /\ 1 <= t
          /\ channel[j].pipe = "stdout" => t <= MaxOut + 1
      BY <1>4, Zenon
    <3>4. /\ x(i) = IF channel[i].pipe = "stdout" THEN s ELSE MaxOut + 1 + s
          /\ x(j) = IF channel[j].pipe = "stdout" THEN t ELSE MaxOut + 1 + t
      OBVIOUS
    <3> HIDE DEF s, t, x, O
    <3>5. CASE channel[i].pipe = "stdout" /\ channel[j].pipe = "stdout"
      BY <3>2, <3>4, <3>5 DEF s, t
    <3>6. CASE channel[i].pipe # "stdout" /\ channel[j].pipe # "stdout"
      <4>0. x(i) = MaxOut + 1 + s /\ x(j) = MaxOut + 1 + t
        BY <3>4, <3>6
      <4>1. MaxOut + 1 + s = MaxOut + 1 + t
        BY <3>2, <4>0
      <4>2. s = t
        BY <1>0, <3>3, <4>1
      <4>3. QED
        BY <3>2, <3>3, <3>6, <4>2 DEF s, t
    <3>7. ~(channel[i].pipe = "stdout" /\ channel[j].pipe # "stdout")
      <4> SUFFICES ASSUME channel[i].pipe = "stdout", channel[j].pipe # "stdout" PROVE FALSE
        OBVIOUS
      <4>1. s = MaxOut + 1 + t /\ s <= MaxOut + 1
        BY <3>2, <3>3, <3>4
      <4>2. QED
        BY <1>0, <3>3, <4>1
    <3>8. ~(channel[i].pipe # "stdout" /\ channel[j].pipe = "stdout")
      <4> SUFFICES ASSUME channel[i].pipe # "stdout", channel[j].pipe = "stdout" PROVE FALSE
        OBVIOUS
      <4>1. t = MaxOut + 1 + s /\ t <= MaxOut + 1
        BY <3>2, <3>3, <3>4
      <4>2. QED
        BY <1>0, <3>3, <4>1
    <3>9. QED
      BY <3>5, <3>6, <3>7, <3>8, Zenon
  <2>2. i \in DOMAIN channel /\ j \in DOMAIN channel /\ i \in Nat /\ j \in Nat
        /\ channel[i].kind # "result" /\ channel[j].kind # "result"
    BY <1>0, <1>1
  <2>3. i < j => channel[i].seq < channel[j].seq
    BY <2>1, <2>2 DEF LinkInv, StreamInv, OrderInv, InOrder, Sorted, Before
  <2>4. j < i => channel[j].seq < channel[i].seq
    BY <2>1, <2>2 DEF LinkInv, StreamInv, OrderInv, InOrder, Sorted, Before
  <2>5. channel[i].seq \in Nat
    BY <1>4
  <2>6. QED
    BY <2>1, <2>2, <2>3, <2>4, <2>5
<1>7. f \in Injection(O, T)
  <2> HIDE DEF f, O, T
  <2>1. DOMAIN f = O
    BY <1>5
  <2>2. QED
    BY <1>5, <1>6, <2>1 DEF Injection, IsInjective
<1>8. /\ IsFiniteSet(1 .. MaxOutput) /\ Cardinality(1 .. MaxOutput) = MaxOutput
      /\ Cardinality(Pids) \in Nat
  <2>1. MaxOutput \in Nat
    BY <1>0 DEF MaxOutput
  <2>2. IsFiniteSet(1 .. MaxOutput) /\ Cardinality(1 .. MaxOutput) = MaxOutput
    <3>1. \A k \in Nat : IsFiniteSet(1 .. k) /\ Cardinality(1 .. k) = k
      BY FS_Interval
    <3>2. QED
      BY <2>1, <3>1
  <2>3. Cardinality(Pids) \in Nat
    BY <1>0, FS_CardinalityType
  <2>4. QED
    BY <2>2, <2>3
<1>9. IsFiniteSet(T) /\ Cardinality(T) = Cardinality(Pids) * MaxOutput
  BY <1>0, <1>8, FS_Product
<1> HIDE DEF f, T
<1>10. IsFiniteSet(O) /\ Cardinality(O) <= Cardinality(T)
  BY <1>7, <1>9, FS_Injection
<1>11. IsFiniteSet(R) /\ Cardinality(R) = Answered
  <2>1. R \in SUBSET (1 .. Len(wire)) /\ IsFiniteSet(1 .. Len(wire))
    BY <1>0, FS_Interval DEF ResultsIn
  <2>2. QED
    BY <2>1, FS_Subset DEF Answered, ResultsIn
<1>12. Answered <= MaxLines
  <2>1. written \in 0 .. Len(asked)
    BY LinkTypes, CommandsCount DEF LinkInv, ConnInv
  <2>2. QED
    BY <2>1, LinkTypes DEF LinkInv, ConnInv
<1>13. Cardinality(1 .. N) = Cardinality(O) + Cardinality(R)
  <2> HIDE DEF O, R
  <2>1. Cardinality(O \union R) = Cardinality(O) + Cardinality(R) - Cardinality({})
    BY <1>3, <1>10, <1>11, FS_Union
  <2>2. Cardinality({}) = 0 /\ Cardinality(O) \in Nat /\ Cardinality(R) \in Nat
    BY <1>10, <1>11, FS_EmptySet, FS_CardinalityType
  <2>3. Cardinality(1 .. N) = Cardinality(O \union R)
    BY <1>3, Zenon
  <2>4. QED
    BY <2>1, <2>2, <2>3
<1>14. Cardinality(1 .. N) = N
  BY <1>0, FS_Interval
<1>15. Cardinality(O) \in Nat /\ Cardinality(T) \in Nat
  BY <1>9, <1>10, FS_CardinalityType
<1> HIDE DEF O
<1>16. QED
  BY <1>0, <1>9, <1>10, <1>11, <1>12, <1>13, <1>14, <1>15, LinkTypes

-----------------------------------------------------------------------------
(* What the library sees of a step *)

\* The provers instantiate a set of numbers only under a name.
Numbers == Nat

\* The commands without a result after a of w.
Unanswered(a, w) == [i \in 1 .. w - a |-> a + i]

LEMMA UnansweredSeq ==
  ASSUME NEW a \in Nat, NEW w \in Nat, a <= w
  PROVE  /\ Unanswered(a, w) \in Seq(Numbers) /\ Len(Unanswered(a, w)) = w - a
         /\ \A i \in 1 .. w - a : Unanswered(a, w)[i] = a + i
<1>1. Unanswered(a, w) \in [1 .. w - a -> Numbers] /\ w - a \in Nat
  BY DEF Unanswered, Numbers
<1>2. QED
  BY <1>1 DEF Unanswered

\* A command is written.
LEMMA OneMore ==
  ASSUME NEW a \in Nat, NEW w \in Nat, a <= w
  PROVE  Unanswered(a, w + 1) = Append(Unanswered(a, w), w + 1)
<1> DEFINE s == Unanswered(a, w)
           t == Unanswered(a, w + 1)
           u == Append(s, w + 1)
<1>1. s \in Seq(Numbers) /\ Len(s) = w - a /\ \A i \in 1 .. w - a : s[i] = a + i
  BY UnansweredSeq
<1>2. w + 1 \in Nat /\ a <= w + 1 /\ (w + 1) - a = (w - a) + 1
  OBVIOUS
<1>3. t \in Seq(Numbers) /\ Len(t) = (w - a) + 1 /\ \A i \in 1 .. (w - a) + 1 : t[i] = a + i
  BY <1>2, UnansweredSeq
<1>4. w + 1 \in Numbers
  BY DEF Numbers
<1> HIDE DEF s, t
<1>5. /\ u \in Seq(Numbers) /\ Len(u) = (w - a) + 1 /\ u[(w - a) + 1] = w + 1
      /\ \A i \in 1 .. w - a : u[i] = s[i]
  BY <1>1, <1>4, AppendProperties
<1> HIDE DEF u
<1>6. \A i \in 1 .. Len(t) : t[i] = u[i]
  <2> SUFFICES ASSUME NEW i \in 1 .. (w - a) + 1 PROVE t[i] = u[i]
    BY <1>3
  <2>1. CASE i \in 1 .. w - a
    BY <1>1, <1>3, <1>5, <2>1
  <2>2. CASE i = (w - a) + 1
    BY <1>3, <1>5, <2>2
  <2>3. QED
    BY <2>1, <2>2
<1>7. t = u
  BY <1>3, <1>5, <1>6, SeqEqual
<1>8. QED
  BY <1>7 DEF s, t, u

\* The oldest is answered.
LEMMA OneLess ==
  ASSUME NEW a \in Nat, NEW w \in Nat, a < w
  PROVE  /\ Unanswered(a, w) # << >> /\ Head(Unanswered(a, w)) = a + 1
         /\ Tail(Unanswered(a, w)) = Unanswered(a + 1, w)
<1> DEFINE s == Unanswered(a, w)
           t == Unanswered(a + 1, w)
           u == Tail(s)
<1>1. s \in Seq(Numbers) /\ Len(s) = w - a /\ \A i \in 1 .. w - a : s[i] = a + i
  BY UnansweredSeq
<1>2. a + 1 \in Nat /\ a + 1 <= w /\ w - (a + 1) = (w - a) - 1
  OBVIOUS
<1>3. t \in Seq(Numbers) /\ Len(t) = (w - a) - 1 /\ \A i \in 1 .. (w - a) - 1 : t[i] = (a + 1) + i
  BY <1>2, UnansweredSeq
<1> HIDE DEF s, t
<1>4. s # << >> /\ Head(s) = a + 1
  <2>1. Len(<< >>) = 0 /\ Len(s) # 0
    BY <1>1, EmptySeq
  <2>2. 1 \in 1 .. w - a /\ Head(s) = s[1]
    BY <1>1
  <2>3. QED
    BY <1>1, <2>1, <2>2
<1>5. /\ u \in Seq(Numbers) /\ Len(u) = (w - a) - 1
      /\ \A i \in 1 .. (w - a) - 1 : u[i] = s[i + 1]
  BY <1>1, <1>4, HeadTailProperties
<1> HIDE DEF u
<1>6. \A i \in 1 .. (w - a) - 1 : t[i] = u[i]
  BY <1>1, <1>3, <1>5
<1>7. t = u
  BY <1>3, <1>5, <1>6, SeqEqual
<1>8. QED
  BY <1>4, <1>7 DEF s, t, u

\* The messages on the socket, as the library tells them apart.
SeenWire == [i \in DOMAIN wire |-> Seen(i)]

SeenLine == [kind : {"result", "output"}, name : Names \union {NoName}, no : Nat]

LEMMA SeenSeq ==
  ASSUME wire \in Seq(Message)
  PROVE  /\ SeenWire \in Seq(SeenLine) /\ Len(SeenWire) = Len(wire)
         /\ \A i \in 1 .. Len(wire) : SeenWire[i] = Seen(i)
<1>1. Len(wire) \in Nat /\ DOMAIN wire = 1 .. Len(wire)
  BY LenProperties
<1>2. ASSUME NEW i \in 1 .. Len(wire) PROVE Seen(i) \in SeenLine
  <2>1. wire[i] \in Message
    BY ElementOfSeq
  <2>2. CASE wire[i] \in Result
    BY <2>2 DEF Result, Seen, SeenLine
  <2>3. CASE wire[i] \in Output
    BY <1>1, <2>3 DEF Output, Seen, SeenLine
  <2>4. QED
    BY <2>1, <2>2, <2>3 DEF Message
<1>3. SeenWire \in [1 .. Len(wire) -> SeenLine]
  BY <1>1, <1>2 DEF SeenWire
<1>4. QED
  BY <1>1, <1>3 DEF SeenWire

LEMMA SeenNext ==
  ASSUME LinkInv, WriterWrites
  PROVE  SeenWire' = Append(SeenWire,
           IF Upcoming.kind = "result" THEN Client!Result(Answered + 1)
                                       ELSE Client!Output(Upcoming.name, Len(SeenWire) + 1))
<1> DEFINE s == SeenWire
           t == SeenWire'
           n == Len(wire) + 1
           x == IF Upcoming.kind = "result" THEN Client!Result(Answered + 1)
                                            ELSE Client!Output(Upcoming.name, Len(SeenWire) + 1)
           u == Append(s, x)
<1>1. /\ Upcoming \in Message /\ wire' = Append(wire, Upcoming)
      /\ Upcoming.kind = "result" => Upcoming.re = Answered + 1
  BY NextOnWire
<1>2. /\ wire' \in Seq(Message) /\ Len(wire') = n /\ wire'[n] = Upcoming /\ Len(wire) \in Nat
      /\ \A i \in 1 .. Len(wire) : wire'[i] = wire[i]
  BY <1>1, LinkTypes, AppendProperties
<1>3. s \in Seq(SeenLine) /\ Len(s) = Len(wire) /\ \A i \in 1 .. Len(wire) : s[i] = Seen(i)
  BY LinkTypes, SeenSeq
<1>4. t \in Seq(SeenLine) /\ Len(t) = n /\ \A i \in 1 .. n : t[i] = Seen(i)'
  <2>1. DOMAIN wire' = 1 .. n
    BY <1>2, LenProperties
  <2>2. ASSUME NEW i \in 1 .. n PROVE Seen(i)' \in SeenLine
    <3>1. wire'[i] \in Message
      BY <1>2, ElementOfSeq
    <3>2. CASE wire'[i] \in Result
      BY <3>2 DEF Result, Seen, SeenLine
    <3>3. CASE wire'[i] \in Output
      BY <1>2, <3>3 DEF Output, Seen, SeenLine
    <3>4. QED
      BY <3>1, <3>2, <3>3 DEF Message
  <2>3. t \in [1 .. n -> SeenLine] /\ n \in Nat
    BY <1>2, <2>1, <2>2 DEF SeenWire
  <2>4. QED
    BY <2>1, <2>3 DEF SeenWire
<1>5. t[n] = x
  BY <1>1, <1>2, <1>3, <1>4 DEF Seen, Client!Result, Client!Output
<1>6. x \in SeenLine
  BY <1>2, <1>4, <1>5, ElementOfSeq
<1>7. ASSUME NEW i \in 1 .. Len(wire) PROVE t[i] = s[i]
  <2>1. Seen(i)' = Seen(i)
    BY <1>2 DEF Seen
  <2>2. i \in 1 .. n
    BY <1>2
  <2>3. t[i] = Seen(i)' /\ s[i] = Seen(i)
    BY <1>3, <1>4, <2>2
  <2>4. QED
    BY <2>1, <2>3
<1> HIDE DEF s, t, x
<1>8. u \in Seq(SeenLine) /\ Len(u) = n /\ u[n] = x /\ \A i \in 1 .. Len(wire) : u[i] = s[i]
  BY <1>3, <1>6, AppendProperties
<1> HIDE DEF u
<1>9. \A i \in 1 .. n : t[i] = u[i]
  <2> SUFFICES ASSUME NEW i \in 1 .. n PROVE t[i] = u[i]
    OBVIOUS
  <2>1. i \in 1 .. Len(wire) \/ i = n
    BY <1>2
  <2>2. QED
    BY <1>5, <1>7, <1>8, <2>1
<1>10. t = u
  BY <1>4, <1>8, <1>9, SeqEqual
<1>11. QED
  BY <1>10 DEF s, t, u, x

-----------------------------------------------------------------------------
(* Each step is one of a client with a server, or none of theirs *)

ClientStep == [Client!Next]_(Client!vars)

LEMMA LinkStays ==
  ASSUME UNCHANGED <<wire, read, written>>, Alive' = Alive
  PROVE  UNCHANGED Client!link
BY DEF Client!link, Up, Answered, Seen

LEMMA Unheard ==
  ASSUME UNCHANGED <<wire, read, lib>>, Alive' = Alive
  PROVE  ClientStep
<1>1. UNCHANGED Client!link
  BY LinkStays DEF lib
<1>2. UNCHANGED Client!vars
  BY <1>1 DEF Client!vars, Client!ends, Client!routes, Client!commands, lib
<1>3. QED
  BY <1>2 DEF ClientStep

\* A call that names a process.
LEMMA CallNames ==
  ASSUME ProgramInv, At({"register", "unregister"})
  PROVE  Name \in Names
<1>1. program[pc] \in Calls
  BY ElementOfSeq, LenProperties DEF ProgramInv, At
<1>2. program[pc].op \notin NamelessCalls
  BY DEF At, NamelessCalls
<1>3. QED
  BY <1>1, <1>2 DEF Calls, Name

LEMMA ProgramClient ==
  ASSUME LinkInv, Program
  PROVE  ClientStep
<1>0. /\ ServerStands => Alive' = Alive
      /\ \A c \in Conns : ClientConnects(c) \/ ClientSends(c) \/ ClientCloses(c) => Alive' = Alive
  BY DEF ServerStands, vars, Alive, ClientConnects, ClientSends, ClientCloses
<1>1. MyConn \in Conns
  BY SessionAssumption
<1>2. CASE Connect \/ SendStdin \/ Receive
  <2>1. Alive' = Alive /\ UNCHANGED <<wire, read, lib>>
    BY <1>0, <1>1, <1>2 DEF Connect, SendStdin, Receive, Writes, LibStands, SocketStands
  <2>2. QED
    BY <2>1, Unheard
<1>4. CASE Register
  <2>1. PICK q \in Queues : Client!RegisterProcess(Name, q)
    BY <1>4 DEF Register
  <2>2. UNCHANGED Client!link
    BY <1>0, <1>4, <2>1, LinkStays DEF Register, SocketStands, Client!RegisterProcess, Client!commands
  <2>3. Name \in Names
    BY <1>4, CallNames DEF LinkInv, Register, At
  <2>4. Client!Application
    BY <2>1, <2>2, <2>3 DEF Client!Application
  <2>5. QED
    BY <2>4 DEF ClientStep, Client!Next
<1>5. CASE Unregister
  <2>1. Client!UnregisterProcess(Name)
    BY <1>5 DEF Unregister
  <2>2. UNCHANGED Client!link
    BY <1>0, <1>5, <2>1, LinkStays DEF Unregister, SocketStands, Client!UnregisterProcess, Client!commands
  <2>3. Name \in Names
    BY <1>5, CallNames DEF LinkInv, Unregister, At
  <2>4. Client!Application
    BY <2>1, <2>2, <2>3 DEF Client!Application
  <2>5. QED
    BY <2>4 DEF ClientStep, Client!Next
<1>6. ASSUME Client!Command(Main) PROVE ClientStep
  <2>1. Client!Application
    BY <1>6 DEF Client!Application
  <2>2. QED
    BY <2>1 DEF ClientStep, Client!Next
<1>7. CASE BeginCommand
  <2>1. Client!SendCommand(Main)
    BY <1>7 DEF BeginCommand
  <2>2. UNCHANGED Client!link
    BY <1>0, <1>7, <2>1, LinkStays DEF BeginCommand, SocketStands, Client!SendCommand
  <2>3. QED
    BY <1>6, <2>1, <2>2 DEF Client!Command
<1>8. CASE WriteLine
  <2>1. Up /\ Client!WriteCommand(Main) /\ UNCHANGED <<wire, read>> /\ Alive' = Alive
    BY <1>0, <1>1, <1>8 DEF WriteLine, Writes, SocketStands
  <2>2. written' = written + 1 /\ Answered' = Answered
    BY <2>1 DEF Answered, Client!WriteCommand
  <2>3. Unanswered(Answered, written)' = Append(Unanswered(Answered, written), written')
    <3>1. Answered \in Nat /\ written \in Nat /\ Answered <= written
      BY LinkTypes DEF LinkInv, ConnInv
    <3>2. Unanswered(Answered, written + 1) = Append(Unanswered(Answered, written), written + 1)
      BY <3>1, OneMore
    <3>3. Unanswered(Answered, written)' = Unanswered(Answered, written + 1)
      BY <2>2 DEF Unanswered
    <3>4. QED
      BY <2>2, <3>2, <3>3
  <2>4. UNCHANGED <<SeenWire, read, Up>>
    BY <2>1 DEF SeenWire, Seen, Up
  <2>5. QED
    BY <1>6, <2>1, <2>3, <2>4 DEF Client!Command, SeenWire, Unanswered
<1>9. CASE GetResult
  <2>1. Client!ReceiveResult(Main)
    BY <1>9 DEF GetResult
  <2>2. UNCHANGED Client!link
    BY <1>0, <1>9, <2>1, LinkStays DEF GetResult, SocketStands, Client!ReceiveResult
  <2>3. QED
    BY <1>6, <2>1, <2>2 DEF Client!Command
<1>10. CASE CommandFails
  <2>1. (~Up /\ Client!WriteFails(Main)) \/ Client!TimeOut(Main)
    BY <1>10 DEF CommandFails
  <2>2. UNCHANGED Client!link
    BY <1>0, <1>10, <2>1, LinkStays DEF CommandFails, SocketStands, Client!WriteFails, Client!Leave, Client!TimeOut,
       Client!GiveUp
  <2>3. QED
    BY <1>6, <2>1, <2>2 DEF Client!Command
<1>11. CASE CloseConnection
  <2>1. Client!Close
    BY <1>11 DEF CloseConnection
  <2>2. UNCHANGED Client!link
    BY <1>0, <1>1, <1>11, <2>1, LinkStays DEF CloseConnection, SocketStands, Client!Close, Client!commands
  <2>3. Client!Application
    BY <2>1, <2>2 DEF Client!Application
  <2>4. QED
    BY <2>3 DEF ClientStep, Client!Next
<1>12. CASE LockTaken
  <2>1. Client!TakeLock(Main)
    BY <1>12 DEF LockTaken
  <2>2. UNCHANGED Client!link
    BY <1>0, <1>12, <2>1, LinkStays DEF LockTaken, SocketStands, Client!TakeLock
  <2>3. QED
    BY <1>6, <2>1, <2>2 DEF Client!Command
<1>13. QED
  BY <1>2, <1>4, <1>5, <1>7, <1>8, <1>9, <1>10, <1>11, <1>12 DEF Program

LEMMA WriterClient ==
  ASSUME LinkInv, WriterWrites
  PROVE  ClientStep
<1>1. /\ Upcoming \in Message /\ wire' = Append(wire, Upcoming)
      /\ Upcoming.kind = "result" => Answered < written
  BY NextOnWire
<1>2. /\ Up /\ Up' = Up /\ read' = read /\ UNCHANGED <<Client!ends, Client!routes, Client!commands>>
      /\ written' = written
  BY DEF WriterWrites, Up, Alive, ServerStands, vars, LibStands, lib, Client!ends, Client!routes,
     Client!commands
<1>3. Answered' = IF Upcoming.kind = "result" THEN Answered + 1 ELSE Answered
  <2>1. Answered = Cardinality(ResultsIn(wire)) /\ Answered' = Cardinality(ResultsIn(wire'))
    BY DEF Answered, ResultsIn
  <2>2. QED
    BY <1>1, <2>1, LinkTypes, ResultsCount
<1>4. ASSUME Client!Server PROVE ClientStep
  BY <1>4 DEF ClientStep, Client!Next
<1>5. CASE Upcoming.kind = "result"
  <2>1. SeenWire' = Append(SeenWire, Client!Result(Answered + 1))
    BY <1>5, SeenNext
  <2> DEFINE u == Unanswered(Answered, written)
  <2>2. u # << >> /\ Head(u) = Answered + 1 /\ Tail(u) = Unanswered(Answered + 1, written)
    BY <1>1, <1>5, LinkTypes, OneLess
  <2>3. u' = Unanswered(Answered + 1, written)
    BY <1>2, <1>3, <1>5 DEF Unanswered
  <2>4. Client!ServerSends(Client!Result(Answered + 1))
    BY <1>2, <2>1 DEF Client!ServerSends, SeenWire
  <2>5. Client!ServerAnswers
    BY <2>2, <2>3, <2>4 DEF Client!ServerAnswers, Unanswered
  <2>6. QED
    BY <1>4, <2>5 DEF Client!Server
<1>6. CASE Upcoming.kind # "result"
  <2>1. SeenWire' = Append(SeenWire, Client!Output(Upcoming.name, Len(SeenWire) + 1))
    BY <1>6, SeenNext
  <2>2. Upcoming.name \in Names
    BY <1>1, <1>6 DEF Message, Result, Output
  <2>3. Len(SeenWire) < MaxLines + Cardinality(Pids) * (MaxOut + MaxErr + 1)
    BY <1>6, RoomForOutput, LinkTypes, SeenSeq DEF MaxOutput
  <2>4. Unanswered(Answered, written)' = Unanswered(Answered, written)
    BY <1>2, <1>3, <1>6 DEF Unanswered
  <2>5. Client!ServerSends(Client!Output(Upcoming.name, Len(SeenWire) + 1))
    BY <1>2, <2>1 DEF Client!ServerSends, SeenWire
  <2>6. Client!ServerOutputs
    BY <2>2, <2>3, <2>4, <2>5 DEF Client!ServerOutputs, SeenWire, Unanswered
  <2>7. QED
    BY <1>4, <2>6 DEF Client!Server
<1>7. QED
  BY <1>5, <1>6

LEMMA LibraryClient ==
  ASSUME LinkInv, Library
  PROVE  ClientStep
<1>1. ServerStands /\ UNCHANGED wire /\ Up' = Up /\ Alive' = Alive
  BY DEF Library, ReadLine, Ending, ServerStands, SocketStands, vars, Up, Alive
<1>2. SeenWire' = SeenWire /\ Len(SeenWire) = Len(wire)
  BY <1>1, LinkTypes, SeenSeq DEF SeenWire, Seen
<1>3. ASSUME Client!Demux PROVE ClientStep
  BY <1>3 DEF ClientStep, Client!Next
<1>4. CASE ReadLine
  <2>1. read' = read + 1 /\ read < Len(wire) /\ Client!Route(Seen(read + 1)) /\ written' = written
    BY <1>4 DEF ReadLine, Client!Route
  <2>2. SeenWire[read + 1] = Seen(read + 1)
    <3>1. read + 1 \in 1 .. Len(wire)
      BY <2>1, LinkTypes DEF LinkInv, ConnInv
    <3>2. QED
      BY <3>1, LinkTypes, SeenSeq
  <2>3. Unanswered(Answered, written)' = Unanswered(Answered, written)
    BY <1>1, <2>1 DEF Unanswered, Answered
  <2>4. Client!ReadLine
    BY <1>1, <1>2, <2>1, <2>2, <2>3 DEF Client!ReadLine, SeenWire, Unanswered
  <2>5. QED
    BY <1>3, <2>4 DEF Client!Demux
<1>5. CASE Ending
  <2>1. UNCHANGED <<wire, read, written>>
    BY <1>5 DEF Ending, SocketStands, Client!LoseConnection, Client!NotifyLoss, Client!Abort,
       Client!commands
  <2>2. UNCHANGED Client!link
    BY <1>1, <2>1, LinkStays
  <2>3. CASE ~Up /\ read = Len(wire) /\ Client!LoseConnection
    <3>1. Client!Eof
      BY <1>2, <2>2, <2>3 DEF Client!Eof, SeenWire
    <3>2. QED
      BY <1>3, <3>1 DEF Client!Demux
  <2>4. CASE Client!NotifyLoss \/ Client!Abort
    BY <1>3, <2>2, <2>4 DEF Client!Demux
  <2>5. QED
    BY <1>5, <2>3, <2>4 DEF Ending
<1>6. QED
  BY <1>4, <1>5 DEF Library

\* The server's process does not come back.
LEMMA DeadStaysDead ==
  ASSUME Next, ~Alive
  PROVE  UNCHANGED at
<1>1. at \in {"stopped", "panicked"}
  BY DEF Alive
<1>2. ~Server
  <2>1. ~HandleClientLine
    BY <1>1 DEF HandleClientLine, CmdSpawn, CmdKill, CmdInterrupt, CmdSubscribe, CmdUnsubscribe,
       CmdList, CmdStatus, CmdUnknown, HandleStdin, InvalidLine, TakeCommand, TakeLine
  <2>2. ~HandleRelay /\ ~WaitEnds
    BY <1>1 DEF HandleRelay, HandleStdout, HandleStderr, HandleExit, WaitEnds, ExitReaped, ExitTimeout,
       FinishExit, KillReaped, KillTimeout, StdinWritten, StdinFails
  <2>3. QED
    BY <1>1, <2>1, <2>2 DEF Server, Accept, Disconnect, TakeShutdown, Shutdown, ShutdownDone, ShutdownNext
<1>3. CASE Tasks
  BY <1>3 DEF Tasks, WriterFails, RelayStdout, RelayEof, RelayStderr, AbortedTaskEnds, OrphanReaped
<1>4. CASE Environment
  BY <1>4 DEF Environment, ChildWrites, ChildWritesErr, ChildReads, ChildClosesStdout, ChildExits,
     KilledDies, Unchanged, ClientConnects, ClientSends, ClientCloses, Signal
<1>5. CASE Rests
  BY <1>5 DEF Rests, vars
<1>6. QED
  BY <1>2, <1>3, <1>4, <1>5 DEF Next

LEMMA ServerClient ==
  ASSUME LinkInv, ServerSteps
  PROVE  ClientStep
<1>1. Next
  BY ServerMoves DEF LinkInv, TurnInv
<1>2. UNCHANGED <<wire, read, lib>>
  BY DEF ServerSteps, LibStands, SocketStands
<1>3. CASE Alive' = Alive
  BY <1>2, <1>3, Unheard
<1>4. CASE Alive /\ ~Alive'
  <2>1. UNCHANGED <<SeenWire, read>> /\ Unanswered(Answered, written)' = Unanswered(Answered, written)
    BY <1>2 DEF SeenWire, Seen, Unanswered, Answered, lib
  <2>2. UNCHANGED <<Client!ends, Client!routes, Client!commands>>
    BY <1>2 DEF Client!ends, Client!routes, Client!commands, lib
  <2>3. Client!ServerGone
    BY <1>4, <2>1, <2>2 DEF Client!ServerGone, Up, SeenWire, Unanswered
  <2>4. QED
    BY <2>3 DEF ClientStep, Client!Next, Client!Server
<1>5. Alive' => Alive
  BY <1>1, DeadStaysDead DEF Alive
<1>6. QED
  BY <1>3, <1>4, <1>5 DEF Alive

\* The Rust server is a server as the client library needs it, for every
\* program: the results it sends are those of the commands written, in order
\* and once each, its lines are on the socket before they are read, and a
\* step of it, a child or a signal is at most its end.  What is proved of
\* ProcmuxClient holds of a program that uses the library with this server.
THEOREM ClientSystem == SessionSpec => IsClientSystem
<1>1. SessionInit => Client!Init
  <2> SUFFICES ASSUME SessionInit PROVE Client!Init
    OBVIOUS
  <2>1. /\ wire = << >> /\ written = 0 /\ at = "select" /\ Len(wire) = 0
        /\ DOMAIN wire = {} /\ Answered = 0
    <3>1. wire = << >> /\ written = 0 /\ at = "select" /\ Len(wire) = 0 /\ DOMAIN wire = {}
      BY EmptySeq DEF SessionInit, Init
    <3>2. {i \in DOMAIN wire : wire[i].kind = "result"} = {}
      BY <3>1
    <3>3. QED
      BY <3>1, <3>2, FS_EmptySet DEF Answered
  <2>2. SeenWire = << >> /\ Unanswered(Answered, written) = << >>
    <3>1. SeenWire \in Seq(SeenLine) /\ Len(SeenWire) = 0
      <4>1. wire \in Seq(Message)
        BY <2>1, EmptySeq
      <4>2. QED
        BY <2>1, <4>1, SeenSeq
    <3>2. Unanswered(Answered, written) \in Seq(Numbers) /\ Len(Unanswered(Answered, written)) = 0
      BY <2>1, UnansweredSeq
    <3>3. QED
      BY <3>1, <3>2, EmptySeq
  <2>3. QED
    BY <2>1, <2>2 DEF SessionInit, Client!Init, Client!Caller, Up, Alive, SeenWire, Unanswered
<1>2. LinkInv /\ [SessionNext]_session_vars => [Client!Next]_(Client!vars)
  <2> SUFFICES ASSUME LinkInv, [SessionNext]_session_vars PROVE ClientStep
    BY DEF ClientStep
  <2>1. CASE UNCHANGED session_vars
    <3>1. UNCHANGED <<wire, read, lib>> /\ Alive' = Alive
      BY <2>1 DEF session_vars, vars, Alive
    <3>2. QED
      BY <3>1, Unheard
  <2>2. QED
    BY <2>1, ProgramClient, WriterClient, LibraryClient, ServerClient DEF SessionNext, SessionRests
<1>3. QED
  BY <1>1, <1>2, InitLinkInv, LinkStep, PTL DEF SessionSpec, IsClientSystem

-----------------------------------------------------------------------------
(* Nothing is missing: sequences *)

\* The positions of the first k lines of a pipe.
UpTo(k) == [i \in 1 .. k |-> i]

LEMMA UpToNext ==
  ASSUME NEW k \in Nat
  PROVE  /\ UpTo(0) = << >> /\ UpTo(k) \in Seq(Numbers)
         /\ UpTo(k + 1) = Append(UpTo(k), k + 1)
<1> DEFINE s == UpTo(k)
           t == UpTo(k + 1)
           u == Append(s, k + 1)
<1>1. s \in Seq(Numbers) /\ Len(s) = k /\ \A i \in 1 .. k : s[i] = i
  <2>1. UpTo(k) \in [1 .. k -> Numbers]
    BY DEF UpTo, Numbers
  <2>2. QED
    BY <2>1 DEF UpTo
<1>2. t \in Seq(Numbers) /\ Len(t) = k + 1 /\ \A i \in 1 .. k + 1 : t[i] = i
  <2>1. UpTo(k + 1) \in [1 .. k + 1 -> Numbers]
    BY DEF UpTo, Numbers
  <2>2. QED
    BY <2>1 DEF UpTo
<1>3. UpTo(0) = << >>
  BY DEF UpTo
<1>4. k + 1 \in Numbers
  BY DEF Numbers
<1> HIDE DEF s, t
<1>5. u \in Seq(Numbers) /\ Len(u) = k + 1 /\ u[k + 1] = k + 1 /\ \A i \in 1 .. k : u[i] = s[i]
  BY <1>1, <1>4, AppendProperties
<1> HIDE DEF u
<1>6. \A i \in 1 .. k + 1 : t[i] = u[i]
  <2> SUFFICES ASSUME NEW i \in 1 .. k + 1 PROVE t[i] = u[i]
    OBVIOUS
  <2>1. i \in 1 .. k \/ i = k + 1
    OBVIOUS
  <2>2. QED
    BY <1>1, <1>2, <1>5, <2>1
<1>7. t = u
  BY <1>2, <1>5, <1>6, SeqEqual
<1>8. QED
  BY <1>1, <1>3, <1>7 DEF s, t, u

\* A sequence cut after its first k elements.
Cut(S) ==
  \A s \in Seq(S) : \A k \in 0 .. Len(s) :
    /\ SubSeq(s, 1, k) \in Seq(S) /\ SubSeq(s, k + 1, Len(s)) \in Seq(S)
    /\ SubSeq(s, 1, k) \o SubSeq(s, k + 1, Len(s)) = s

LEMMA Cuts ==
  ASSUME NEW S
  PROVE  Cut(S)
<1> SUFFICES ASSUME NEW s \in Seq(S), NEW k \in 0 .. Len(s)
             PROVE  /\ SubSeq(s, 1, k) \in Seq(S) /\ SubSeq(s, k + 1, Len(s)) \in Seq(S)
                    /\ SubSeq(s, 1, k) \o SubSeq(s, k + 1, Len(s)) = s
  BY DEF Cut
<1>1. Len(s) \in Nat /\ \A i \in 1 .. Len(s) : s[i] \in S
  BY LenProperties, ElementOfSeq
<1>2. SubSeq(s, 1, k) \in Seq(S)
  <2>1. \A i \in 1 .. k : s[i] \in S
    BY <1>1
  <2>2. QED
    BY <1>1, <2>1, SubSeqProperties
<1>3. SubSeq(s, k + 1, Len(s)) \in Seq(S)
  <2>1. \A i \in k + 1 .. Len(s) : s[i] \in S
    BY <1>1
  <2>2. QED
    BY <1>1, <2>1, SubSeqProperties
<1>4. SubSeq(s, 1, k) \o SubSeq(s, k + 1, Len(s)) = SubSeq(s, 1, Len(s))
  <2>1. 1 \in 1 .. Len(s) + 1 /\ k \in 1 - 1 .. Len(s) /\ Len(s) \in k .. Len(s)
    BY <1>1
  <2>2. QED
    BY <2>1, ConcatAdjacentSubSeq
<1>5. QED
  BY <1>2, <1>3, <1>4, SubSeqFull

\* What extends a sequence of messages has its positions and then others.
LEMMA PositionsExtend ==
  ASSUME NEW u \in Seq(Message), NEW s \in Seq(Message), Extends(u, s), NEW p, NEW pipe
  PROVE  /\ From(u, Len(s) + 1) \in Seq(Message)
         /\ Positions(u, p, pipe) = Positions(s, p, pipe) \o Positions(From(u, Len(s) + 1), p, pipe)
<1>1. Len(s) \in Nat /\ Len(u) \in Nat /\ Len(s) \in 0 .. Len(u)
  BY LenProperties DEF Extends
<1>2. /\ SubSeq(u, 1, Len(s)) \in Seq(Message) /\ From(u, Len(s) + 1) \in Seq(Message)
      /\ SubSeq(u, 1, Len(s)) \o From(u, Len(s) + 1) = u
  <2>1. Cut(Message)
    BY Cuts
  <2>2. QED
    BY <1>1, <2>1 DEF Cut, From
<1>3. SubSeq(u, 1, Len(s)) = s
  <2> DEFINE t == SubSeq(u, 1, Len(s))
  <2>1. \A i \in 1 .. Len(s) : u[i] \in Message
    BY <1>1, ElementOfSeq
  <2>2. t \in Seq(Message) /\ Len(t) = Len(s) /\ \A i \in 1 .. Len(s) : t[i] = u[i]
    BY <1>1, <2>1, SubSeqProperties
  <2> HIDE DEF t
  <2>3. \A i \in 1 .. Len(s) : t[i] = s[i]
    BY <2>2 DEF Extends
  <2>4. t = s
    BY <2>2, <2>3, SeqEqual
  <2>5. QED
    BY <2>4 DEF t
<1>4. Positions(s \o From(u, Len(s) + 1), p, pipe)
        = Positions(s, p, pipe) \o Positions(From(u, Len(s) + 1), p, pipe)
  BY <1>2, PositionsConcat
<1>5. QED
  BY <1>2, <1>3, <1>4

-----------------------------------------------------------------------------
(* Nothing is missing: the server *)

\* A child gets its name from the spawn the program wrote.
Births ==
  \/ \A p \in Pids : child'[p].name = child[p].name
  \/ /\ client_tx # NoConn /\ conn[MyConn].unread > 0 /\ Line.op \in SpawnRequests
     /\ \A p \in Pids : child'[p].name \in {child[p].name, Line.name}

LEMMA NamesGiven ==
  ASSUME TypeInv, ProgramInv, ServerSteps
  PROVE  Births
<1> DEFINE Same == \A p \in Pids : child'[p].name = child[p].name
<1>0. child \in [Pids -> ChildRec]
  BY DEF TypeInv, TypeOK, OsOK
<1>2. CASE UNCHANGED child
  BY <1>2 DEF Births
<1>3. CASE Accept \/ Disconnect \/ HandleRelay \/ TakeShutdown \/ Shutdown \/ Signal
  BY <1>2, <1>3 DEF Accept, Disconnect, HandleRelay, HandleStdout, HandleStderr, HandleExit,
     TakeShutdown, Shutdown, ShutdownDone, ShutdownNext, Signal, os
<1>4. CASE WaitEnds
  <2>1. CASE ExitTimeout \/ StdinFails
    BY <1>2, <2>1 DEF ExitTimeout, FinishExit, StdinFails, os
  <2>2. CASE ExitReaped \/ KillTimeout \/ StdinWritten \/ KillReaped
    <3> DEFINE q == procs[target].pid
    <3>1. \/ child' = [child EXCEPT ![q].state = "reaped"]
          \/ child' = [child EXCEPT ![q].killed = TRUE]
          \/ child' = [child EXCEPT ![q].stdin = @ + 1]
      BY <2>2 DEF ExitReaped, FinishExit, KillTimeout, StdinWritten, KillReaped
    <3> HIDE DEF q
    <3>2. Same
      BY <1>0, <3>1 DEF ChildRec
    <3>3. QED
      BY <3>2 DEF Births
  <2>3. QED
    BY <1>4, <2>1, <2>2 DEF WaitEnds
<1>5. CASE Tasks
  <2>1. CASE UNCHANGED child
    BY <1>2, <2>1
  <2>2. ASSUME NEW p \in Pids, child' = [child EXCEPT ![p].state = "reaped"] PROVE Births
    BY <1>0, <2>2 DEF Births, ChildRec
  <2>3. QED
    BY <1>5, <2>1, <2>2 DEF Tasks, WriterFails, RelayStdout, RelayEof, RelayStderr, AbortedTaskEnds,
       OrphanReaped, os
<1>6. ASSUME NEW p \in Pids,
             \/ ChildWrites(p) \/ ChildWritesErr(p) \/ ChildReads(p)
             \/ ChildClosesStdout(p) \/ ChildExits(p) \/ KilledDies(p)
      PROVE  Births
  <2>1. Same
    BY <1>0, <1>6 DEF ChildWrites, ChildWritesErr, ChildReads, ChildClosesStdout, ChildExits,
       KilledDies, ChildRec
  <2>2. QED
    BY <2>1 DEF Births
<1>7. CASE conn[MyConn].unread > 0 /\ TakesIts(Line)
  <2> DEFINE l == Line
  <2>1. ServesLine(l)
    BY <1>7, TakesLine
  <2>2. CASE l.op \in SpawnRequests /\ CmdSpawn(l.op, l.name)
    <3>1. CASE UNCHANGED os
      BY <1>2, <3>1 DEF os
    <3>2. ASSUME NEW p \in Pids,
                 child' = [child EXCEPT ![p].state = "running", ![p].name = l.name, ![p].open = TRUE]
          PROVE  Births
      <4> HIDE DEF l
      <4>1. \A c \in Pids : child'[c].name \in {child[c].name, l.name}
        BY <1>0, <3>2 DEF ChildRec
      <4>2. QED
        BY <1>7, <2>1, <2>2, <4>1 DEF Births, ServesLine, l
    <3>3. QED
      BY <2>2, <3>1, <3>2 DEF CmdSpawn
  <2>3. CASE UNCHANGED child
    BY <1>2, <2>3
  <2>4. QED
    BY <1>7, <2>2, <2>3 DEF TakesIts, CmdKill, CmdInterrupt, CmdSubscribe, CmdUnsubscribe,
     CmdList, CmdStatus, CmdUnknown, HandleStdin, os
<1>8. QED
  BY <1>3, <1>4, <1>5, <1>6, <1>7 DEF ServerSteps

\* What a pipe's queue and the channel have of a child that is managed.
Whole(p, pipe) == Held(p) => SentOf(p, pipe) \o Kept(p, pipe) = UpTo(Read(p, pipe))

\* While the program has its connection open the server has a live writer for
\* it or no child, and of its children it keeps or has sent everything.
Intact ==
  open =>
    /\ conn[MyConn].state # "closed"
    /\ client_tx # NoConn => writer
    /\ client_tx = NoConn => \A n \in Names : ~Managed(n)
    /\ \A p \in Pids, pipe \in Pipes : Whole(p, pipe)

\* The server does not leave a connection that is not closed.
LEMMA NotLeft ==
  ASSUME LinkInv, conn[MyConn].state # "closed"
  PROVE  /\ ~Disconnect /\ ~WriterFails
         /\ client_tx # NoConn => IsServed
<1>1. client_tx # NoConn => IsServed
  BY DEF LinkInv, ConnInv, Fore, Queued, Left
<1>2. ~Disconnect
  <2>1. "nonutf8" \notin Asked
    BY SessionAssumption DEF ServerCalls
  <2>2. QED
    BY <1>1, <2>1 DEF Disconnect, ReaderDone, IsServed
<1>3. ~WriterFails
  <2>1. writer => client_tx # NoConn
    BY LinkTypes DEF TypeInv, TypeOK, ControlOK
  <2>2. QED
    BY <1>1, <2>1 DEF WriterFails, IsServed
<1>4. QED
  BY <1>1, <1>2, <1>3

\* Only closing it makes the connection closed; nothing else the program does
\* concerns what the server has.
LEMMA ProgramLeaves ==
  ASSUME LinkInv, Program \/ WriterWrites \/ Library \/ SessionRests
  PROVE  /\ UNCHANGED <<at, target, procs, relay_rx, session, os>>
         /\ open' => /\ open
                     /\ conn[MyConn].state # "closed" => conn'[MyConn].state # "closed"
<1> USE DEF ServerStands, vars
<1>0. /\ conn \in [Conns -> [state : {"new", "open", "closed"}, unread : Nat, sent : Nat]]
      /\ MyConn \in Conns
  BY LinkTypes
<1>1. ASSUME ClientMoves
      PROVE  UNCHANGED <<at, target, procs, relay_rx, session, os>>
  BY <1>1 DEF ClientMoves, ClientConnects, ClientSends, ClientCloses
<1>2. ClientMoves
  BY OtherMoves DEF LinkInv
<1>3. CASE CloseConnection
  <2>1. ~open'
    BY <1>3 DEF CloseConnection, Client!Close
  <2>2. QED
    BY <1>1, <1>2, <2>1
<1>4. CASE ~CloseConnection
  <2>1. UNCHANGED open
    BY <1>4 DEF Program, Connect, Register, Unregister, BeginCommand, LockTaken, WriteLine, GetResult,
         CommandFails, SendStdin, Receive, WriterWrites, Library, ReadLine, Ending, SessionRests,
         session_vars, LibStands, lib, Client!ends, Client!RegisterProcess, Client!UnregisterProcess,
         Client!SendCommand, Client!TakeLock, Client!WriteCommand, Client!ReceiveResult, Client!WriteFails,
         Client!Leave, Client!TimeOut, Client!GiveUp, Client!Route, Client!LoseConnection, Client!NotifyLoss, Client!Abort
  <2>2. UNCHANGED conn \/ ClientConnects(MyConn) \/ ClientSends(MyConn)
    BY <1>4 DEF Program, Connect, Register, Unregister, BeginCommand, LockTaken, WriteLine, GetResult,
         CommandFails, SendStdin, Receive, WriterWrites, Library, ReadLine, Ending, Writes, SessionRests,
         session_vars, clients
  <2>3. conn[MyConn].state # "closed" => conn'[MyConn].state # "closed"
    <3>1. CASE UNCHANGED conn
      BY <3>1
    <3>2. CASE ClientConnects(MyConn) \/ ClientSends(MyConn)
      BY <1>0, <3>2 DEF ClientConnects, ClientSends
    <3>3. QED
      BY <2>2, <3>1, <3>2
  <2>4. QED
    BY <1>1, <1>2, <2>1, <2>3
<1>5. QED
  BY <1>3, <1>4

\* The writer task stays, but for the ends of a connection.
LEMMA WriterSteady ==
  ASSUME TypeInv, Next, ~Accept, ~Disconnect, ~WriterFails
  PROVE  UNCHANGED writer
<1>1. Quiet => UNCHANGED writer
  BY DEF Quiet
<1>2. QED
  BY <1>1, ShapeStep DEF Replays, Handles, Relays

\* While the program has its connection open, the server accepts it and serves it.
LEMMA StaysServed ==
  ASSUME LinkInv, Intact, open, ServerSteps
  PROVE  /\ conn'[MyConn].state # "closed"
         /\ client_tx' # NoConn => writer'
         /\ client_tx' = NoConn \/ ~Accept => UNCHANGED client_tx
<1>0. /\ TypeInv /\ ProgramInv /\ conn[MyConn].state # "closed" /\ (client_tx # NoConn => writer)
      /\ conn \in [Conns -> [state : {"new", "open", "closed"}, unread : Nat, sent : Nat]]
      /\ MyConn \in Conns
  BY LinkTypes DEF LinkInv, Intact
<1>1. ~Disconnect /\ ~WriterFails
  BY <1>0, NotLeft
<1>2. /\ Next
      /\ Accept \/ ServesLine(Line) \/ UNCHANGED <<client_tx, served, conn, backlog>>
  BY <1>0, <1>1, ServerMoves
<1>3. CASE Accept
  <2>1. UNCHANGED conn /\ writer' = TRUE /\ client_tx = NoConn
    BY <1>3 DEF Accept
  <2>2. QED
    BY <1>0, <1>3, <2>1
<1>4. CASE ~Accept
  <2>1. UNCHANGED <<writer, client_tx>>
    BY <1>0, <1>1, <1>2, <1>4, WriterSteady DEF ServesLine
  <2>2. conn'[MyConn].state = conn[MyConn].state
    <3>1. CASE ServesLine(Line)
      BY <1>0, <3>1 DEF ServesLine
    <3>2. QED
      BY <1>2, <1>4, <3>1
  <2>3. QED
    BY <1>0, <2>1, <2>2
<1>5. QED
  BY <1>3, <1>4

\* Without a connection no child is started.
LEMMA NoneStarted ==
  ASSUME LinkInv, Intact, open, ServerSteps, client_tx' = NoConn, NEW n \in Names
  PROVE  ~Managed(n)'
<1>0. /\ TypeInv /\ ProgramInv /\ Next /\ client_tx = NoConn /\ ~Managed(n)
  BY ServerMoves, StaysServed DEF LinkInv, TurnInv, Intact
<1>1. TableMove /\ procs \in [Names -> Entry]
  BY <1>0, TableStep DEF TypeInv, TypeOK, TableOK
<1>2. CASE SameTable
  BY <1>0, <1>2 DEF SameTable
<1>3. CASE Removed
  BY <1>0, <1>1, <1>3 DEF Removed, Absent
<1>4. CASE Added
  <2>1. PICK k \in Names, p \in Pids :
          /\ child[p].state = "unborn"
          /\ child' = [child EXCEPT ![p].state = "running", ![p].name = k, ![p].open = TRUE]
    BY <1>4 DEF Added
  <2>2. child'[p].name = k /\ child[p].name = NoName
    BY <1>0, <2>1 DEF TypeInv, TypeOK, OsOK, ChildRec, Born
  <2>3. child'[p].name = child[p].name
    BY <1>0, NamesGiven DEF Births
  <2>4. QED
    BY <2>2, <2>3, NoneAssumption
<1>5. QED
  BY <1>1, <1>2, <1>3, <1>4 DEF TableMove

\* What the queue of a pipe does, of what matters here.
LEMMA StreamMoves ==
  ASSUME NEW p, NEW pipe, StreamStep(p, pipe)
  PROVE  \/ /\ Read(p, pipe)' = Read(p, pipe) + 1 /\ Kept(p, pipe)' = Append(Kept(p, pipe), Read(p, pipe) + 1)
            /\ SentOf(p, pipe)' = SentOf(p, pipe) /\ (Held(p)' <=> Held(p))
         \/ /\ \E k \in 1 .. Len(Kept(p, pipe)) :
                 /\ SentOf(p, pipe)' = SentOf(p, pipe) \o SubSeq(Kept(p, pipe), 1, k)
                 /\ Kept(p, pipe)' = SubSeq(Kept(p, pipe), k + 1, Len(Kept(p, pipe)))
            /\ Read(p, pipe)' = Read(p, pipe) /\ (Held(p)' <=> Held(p))
         \/ (~Held(p) \/ ~writer) /\ (Held(p)' <=> Held(p))
         \/ Read(p, pipe) = 0 /\ Read(p, pipe)' = 0
         \/ ~Held(p)'
         \/ /\ Read(p, pipe)' = Read(p, pipe) /\ Kept(p, pipe)' = Kept(p, pipe) /\ (Held(p)' <=> Held(p))
            /\ SentOf(p, pipe)' \in {SentOf(p, pipe), << >>}
BY DEF StreamStep, Stream!Next, Stream!stream, Stream!Take, Stream!Forward, Stream!Lose, Stream!Hold,
   Stream!Release, Stream!Connect, Stream!Disconnect, Stream!Front, Stream!Rest, Read, Kept, SentOf, Held

\* Both parts of what is empty are empty.
EmptyParts(S) == \A u, v \in Seq(S) : u \o v = << >> => u = << >>

LEMMA PartsEmpty ==
  ASSUME NEW S
  PROVE  EmptyParts(S)
<1> SUFFICES ASSUME NEW u \in Seq(S), NEW v \in Seq(S), u \o v = << >> PROVE u = << >>
  BY DEF EmptyParts
<1>1. Len(u) \in Nat /\ Len(v) \in Nat /\ Len(u \o v) = Len(u) + Len(v) /\ Len(u \o v) = 0
  BY LenProperties, ConcatProperties, EmptySeq
<1>2. Len(u) = 0
  BY <1>1
<1>3. QED
  BY <1>2, EmptySeq

LEMMA SentStays ==
  ASSUME LinkInv, LinkInv', Intact, open, ServerSteps, NEW p \in Pids, NEW pipe \in Pipes,
         SentOf(p, pipe)' = << >>
  PROVE  SentOf(p, pipe) = << >>
<1>0. /\ StreamInv /\ OrderInv /\ TypeInv /\ ProgramInv /\ Next
      /\ channel \in Seq(Message) /\ channel' \in Seq(Message)
  <2>1. channel' \in Seq(Message)
    BY DEF LinkInv, TurnInv, TypeInv, TypeOK, MessagesOK
  <2>2. QED
    BY <2>1, LinkTypes, ServerMoves DEF LinkInv, StreamInv
<1>1. CASE client_tx = NoConn
  <2>1. channel = << >>
    BY <1>0, <1>1 DEF TypeInv, TypeOK, MessagesOK
  <2>2. QED
    BY <2>1, PositionsEmpty DEF SentOf
<1>2. CASE client_tx # NoConn
  <2>1. UNCHANGED client_tx
    BY <1>2, StaysServed DEF Accept
  <2>2. Extends(channel', channel)
    BY <1>0, <1>2, <2>1, ChannelGrows
  <2> DEFINE u == channel'
             rest == From(u, Len(channel) + 1)
  <2>3. rest \in Seq(Message) /\ Positions(u, p, pipe) = Positions(channel, p, pipe) \o Positions(rest, p, pipe)
    BY <1>0, <2>2, PositionsExtend
  <2>4. SentOf(p, pipe)' = Positions(u, p, pipe) /\ SentOf(p, pipe) = Positions(channel, p, pipe)
    BY DEF SentOf
  <2> HIDE DEF u, rest
  <2>5. Positions(channel, p, pipe) \in Seq(Nat) /\ Positions(rest, p, pipe) \in Seq(Nat)
    BY <1>0, <2>3, PositionsType
  <2>6. EmptyParts(Nat)
    BY PartsEmpty
  <2>7. QED
    BY <2>3, <2>4, <2>5, <2>6 DEF EmptyParts
<1>3. QED
  BY <1>1, <1>2

\* The sequences of a pipe.
PipeTypes ==
  \A p \in Pids, pipe \in Pipes :
    /\ Read(p, pipe) \in Nat /\ SentOf(p, pipe) \in Seq(Nat) /\ Kept(p, pipe) \in Seq(Nat)

LEMMA PipesTyped == TypeInv => PipeTypes
<1> SUFFICES ASSUME TypeInv, NEW p \in Pids, NEW pipe \in Pipes
             PROVE  /\ Read(p, pipe) \in Nat /\ SentOf(p, pipe) \in Seq(Nat)
                    /\ Kept(p, pipe) \in Seq(Nat)
  BY DEF PipeTypes
<1>1. channel \in Seq(Message) /\ relay_rx \in Seq(Message) /\ \A n \in Names : procs[n].buffer \in Seq(Message)
  BY OrderTypes
<1>2. child[p].name \in Names \union {NoName} /\ Read(p, pipe) \in Nat
  BY DEF TypeInv, TypeOK, OsOK, ChildRec, TaskRec, Read
<1>3. Pending(p) \in Seq(Message)
  <2>1. << >> \in Seq(Message)
    BY EmptySeq
  <2> DEFINE b == IF child[p].name = NoName THEN << >> ELSE procs[child[p].name].buffer
  <2>2. b \in Seq(Message)
    BY <1>1, <1>2, <2>1
  <2>3. Pending(p) = b \o relay_rx
    BY DEF Pending
  <2> HIDE DEF b
  <2>4. QED
    BY <1>1, <2>2, <2>3, ConcatProperties
<1>4. QED
  BY <1>1, <1>2, <1>3, PositionsType DEF SentOf, Kept

LEMMA PipesTypedNext == TypeInv' => PipeTypes'
BY PipesTyped, PTL

\* A queue that stays whole: while its child is held there is a client, and
\* what is sent is not taken back.
LEMMA WholeStep ==
  ASSUME PipeTypes, PipeTypes', NEW p \in Pids, NEW pipe \in Pipes, StreamStep(p, pipe),
         Unread, Unread',
         Held(p) => writer, SentOf(p, pipe)' = << >> => SentOf(p, pipe) = << >>, Whole(p, pipe)
  PROVE  Whole(p, pipe)'
<1> DEFINE s == SentOf(p, pipe)
           k == Kept(p, pipe)
           r == Read(p, pipe)
<1>0. /\ r \in Nat /\ s \in Seq(Nat) /\ k \in Seq(Nat) /\ s' \in Seq(Nat) /\ k' \in Seq(Nat) /\ r' \in Nat
      /\ r = 0 => k = << >> /\ s = << >>
      /\ r' = 0 => k' = << >> /\ s' = << >>
  BY DEF PipeTypes, Unread
<1>1. Whole(p, pipe)' <=> (Held(p)' => s' \o k' = UpTo(r'))
  BY DEF Whole, UpTo
<1>2. Held(p) => s \o k = UpTo(r)
  BY DEF Whole
<1>3. CASE r' = r + 1 /\ k' = Append(k, r + 1) /\ s' = s /\ (Held(p)' <=> Held(p))
  <2> HIDE DEF s, k, r
  <2>1. r + 1 \in Nat /\ UpTo(r + 1) = Append(UpTo(r), r + 1)
    <3>1. \A i \in Nat : UpTo(i + 1) = Append(UpTo(i), i + 1)
      BY UpToNext
    <3>2. r \in Nat
      BY <1>0
    <3>3. r + 1 \in Nat
      BY <3>2
    <3>4. QED
      BY <3>1, <3>2, <3>3
  <2>2. s \o Append(k, r + 1) = Append(s \o k, r + 1)
    BY <1>0, <2>1, AppendTo
  <2>3. QED
    BY <1>1, <1>2, <1>3, <2>1, <2>2
<1>4. ASSUME NEW i \in 1 .. Len(k), s' = s \o SubSeq(k, 1, i), k' = SubSeq(k, i + 1, Len(k)),
             r' = r, Held(p)' <=> Held(p)
      PROVE  Whole(p, pipe)'
  <2> HIDE DEF s, k, r
  <2>1. /\ SubSeq(k, 1, i) \in Seq(Nat) /\ SubSeq(k, i + 1, Len(k)) \in Seq(Nat)
        /\ SubSeq(k, 1, i) \o SubSeq(k, i + 1, Len(k)) = k
    <3>1. Cut(Nat)
      BY Cuts
    <3>2. i \in 0 .. Len(k)
      OBVIOUS
    <3>3. QED
      BY <1>0, <3>1, <3>2 DEF Cut
  <2>2. (s \o SubSeq(k, 1, i)) \o SubSeq(k, i + 1, Len(k)) = s \o (SubSeq(k, 1, i) \o SubSeq(k, i + 1, Len(k)))
    BY <1>0, <2>1, Regroup
  <2>3. QED
    BY <1>1, <1>2, <1>4, <2>1, <2>2
<1>5. CASE (~Held(p) \/ ~writer) /\ (Held(p)' <=> Held(p))
  BY <1>1, <1>5
<1>6. CASE r = 0 /\ r' = 0
  <2>1. s' \o k' = << >> /\ UpTo(0) = << >>
    BY <1>0, <1>6, UpToNext, EmptyWith
  <2>2. QED
    BY <1>1, <1>6, <2>1
<1>7. CASE ~Held(p)'
  BY <1>1, <1>7
<1>8. CASE r' = r /\ k' = k /\ (Held(p)' <=> Held(p)) /\ s' \in {s, << >>}
  <2>1. s' = s
    BY <1>8
  <2> HIDE DEF s, k, r
  <2>2. QED
    BY <1>1, <1>2, <1>8, <2>1
<1> HIDE DEF s, k, r
<1>9. \/ r' = r + 1 /\ k' = Append(k, r + 1) /\ s' = s /\ (Held(p)' <=> Held(p))
      \/ /\ \E i \in 1 .. Len(k) : s' = s \o SubSeq(k, 1, i) /\ k' = SubSeq(k, i + 1, Len(k))
         /\ r' = r /\ (Held(p)' <=> Held(p))
      \/ (~Held(p) \/ ~writer) /\ (Held(p)' <=> Held(p))
      \/ r = 0 /\ r' = 0
      \/ ~Held(p)'
      \/ r' = r /\ k' = k /\ (Held(p)' <=> Held(p)) /\ s' \in {s, << >>}
  BY StreamMoves DEF s, k, r
<1>10. QED
  BY <1>3, <1>4, <1>5, <1>6, <1>7, <1>8, <1>9

LEMMA IntactStep ==
  ASSUME LinkInv, LinkInv', Intact, SessionNext
  PROVE  Intact'
<1> SUFFICES ASSUME open' PROVE Intact'
  BY DEF Intact
<1>0. TypeInv /\ TypeInv' /\ StreamInv /\ StreamInv'
  BY DEF LinkInv, TurnInv
<1>1. CASE ServerSteps
  <2>1. open
    BY <1>1 DEF ServerSteps, LibStands, lib
  <2>2. /\ conn'[MyConn].state # "closed" /\ (client_tx' # NoConn => writer')
        /\ client_tx' = NoConn => \A n \in Names : ~Managed(n)'
    BY <1>1, <2>1, StaysServed, NoneStarted
  <2>3. ASSUME NEW p \in Pids, NEW pipe \in Pipes PROVE Whole(p, pipe)'
    <3>1. StreamStep(p, pipe)
      BY <1>0, <1>1, EveryStep, ServerMoves DEF LinkInv
    <3>2. Held(p) => writer
      BY <1>0, <2>1, NoneAssumption DEF Held, Intact, TypeInv, TypeOK, TableOK
    <3>3. Whole(p, pipe)
      BY <2>1 DEF Intact
    <3>4. Unread /\ Unread' /\ PipeTypes /\ PipeTypes'
      BY <1>0, NothingRead, NothingReadNext, PipesTyped, PipesTypedNext
    <3>5. QED
      BY <1>1, <2>1, <3>1, <3>2, <3>3, <3>4, SentStays, WholeStep
  <2>4. QED
    BY <2>2, <2>3 DEF Intact
<1>2. CASE Program \/ WriterWrites \/ Library \/ SessionRests
  <2>1. /\ UNCHANGED <<at, target, procs, relay_rx, session, os>> /\ open
        /\ conn[MyConn].state # "closed" => conn'[MyConn].state # "closed"
    BY <1>2, ProgramLeaves
  <2>2. /\ procs' = procs /\ relay_rx' = relay_rx /\ client_tx' = client_tx /\ channel' = channel
        /\ writer' = writer /\ child' = child /\ task' = task
    BY <2>1 DEF session, os
  <2>3. \A p \in Pids, pipe \in Pipes : Whole(p, pipe)' <=> Whole(p, pipe)
    BY <2>2 DEF Whole, Held, SentOf, Kept, Pending, Read
  <2>4. QED
    BY <2>1, <2>2, <2>3 DEF Intact
<1>3. QED
  BY <1>1, <1>2 DEF SessionNext

-----------------------------------------------------------------------------
(* Nothing is missing: the program *)

\* The program has written a line that may start n.
Asks(n) == \E k \in 1 .. Len(asked) : asked[k].name = n /\ asked[k].op \in SpawnRequests

\* No child has a name the program did not ask for.
NamesAsked == \A p \in Pids : child[p].name \in Names => Asks(child[p].name)

\* The next call would start n.
MayStart(n) == pc \in DOMAIN program /\ program[pc].name = n /\ program[pc].op \in SpawnRequests

LEMMA AsksStep ==
  ASSUME LinkInv, SessionNext, NEW n
  PROVE  /\ Asks(n) => Asks(n)'
         /\ Asks(n)' => Asks(n) \/ MayStart(n)
<1>0. asked \in Seq(Lines) /\ Len(asked) \in Nat
  BY LinkTypes
<1>1. CASE UNCHANGED asked
  BY <1>1 DEF Asks
<1>2. CASE /\ pc \in DOMAIN program /\ program[pc].op \in ServerCalls
           /\ asked' = Append(asked, program[pc])
  <2>1. program[pc] \in Lines
    BY <1>2, ElementOfSeq, LenProperties DEF LinkInv, ProgramInv, Lines
  <2>2. /\ Len(asked') = Len(asked) + 1 /\ asked'[Len(asked) + 1] = program[pc]
        /\ \A k \in 1 .. Len(asked) : asked'[k] = asked[k]
    BY <1>0, <1>2, <2>1, AppendProperties
  <2>3. Asks(n) => Asks(n)'
    BY <1>0, <2>2 DEF Asks
  <2>4. ASSUME Asks(n)' PROVE Asks(n) \/ MayStart(n)
    <3>1. PICK k \in 1 .. Len(asked') : asked'[k].name = n /\ asked'[k].op \in SpawnRequests
      BY <2>4 DEF Asks
    <3>2. CASE k = Len(asked) + 1
      BY <1>2, <2>2, <3>1, <3>2 DEF MayStart
    <3>3. CASE k # Len(asked) + 1
      <4>1. k \in 1 .. Len(asked)
        BY <1>0, <2>2, <3>1, <3>3
      <4>2. asked[k].name = n /\ asked[k].op \in SpawnRequests
        BY <2>2, <3>1, <4>1
      <4>3. QED
        BY <4>1, <4>2 DEF Asks
    <3>4. QED
      BY <3>2, <3>3
  <2>5. QED
    BY <2>3, <2>4
<1>3. CASE ServerSteps
  BY <1>1, <1>3 DEF ServerSteps, app
<1>4. CASE Program \/ WriterWrites \/ Library \/ SessionRests
  <2>1. ClientMoves
    BY <1>4, OtherMoves DEF LinkInv
  <2>2. QED
    BY <1>1, <1>2, <2>1 DEF ClientMoves
<1>5. QED
  BY <1>3, <1>4 DEF SessionNext

LEMMA NamesAskedStep ==
  ASSUME LinkInv, NamesAsked, SessionNext
  PROVE  NamesAsked'
<1> SUFFICES ASSUME NEW p \in Pids, NEW n \in Names, child'[p].name = n PROVE Asks(n)'
  BY DEF NamesAsked, Asks
<1>0. TypeInv /\ ProgramInv /\ (Asks(n) => Asks(n)')
  BY LinkTypes, AsksStep DEF LinkInv
<1>1. CASE child'[p].name = child[p].name
  BY <1>0, <1>1 DEF NamesAsked
<1>2. CASE ServerSteps /\ child'[p].name # child[p].name
  <2>1. conn[MyConn].unread > 0 /\ Line.op \in SpawnRequests /\ n = Line.name
    BY <1>0, <1>2, NamesGiven DEF Births
  <2>2. Len(asked) - conn[MyConn].unread + 1 \in 1 .. Len(asked)
    BY <1>0, <2>1, NextLine
  <2>3. QED
    BY <1>0, <2>1, <2>2 DEF Asks, Line
<1>3. CASE Program \/ WriterWrites \/ Library \/ SessionRests
  <2>1. child' = child
    BY <1>3, ProgramLeaves DEF os
  <2>2. QED
    BY <1>1, <2>1
<1>4. QED
  BY <1>1, <1>2, <1>3 DEF SessionNext

\* How far the program is.
InProgram == pc <= Len(program) + 1

LEMMA InProgramStep ==
  ASSUME LinkInv, InProgram, SessionNext
  PROVE  /\ InProgram' /\ pc <= pc' /\ program' = program
         /\ \/ UNCHANGED pc
            \/ pc' = Len(program) + 1
            \/ pc = 0 /\ pc' = 1
            \/ pc' = pc + 1 /\ pc \in DOMAIN program /\ (program[pc].op = "register" => Register)
<1>0. /\ program \in Seq(Calls) /\ pc \in Nat /\ Len(program) \in Nat /\ DOMAIN program = 1 .. Len(program)
      /\ caller[Main].at # "idle" => At(ServerCalls \ {"stdin"})
  BY LenProperties DEF LinkInv, ProgramInv
<1>1. program' = program
  BY OtherMoves DEF SessionNext, ServerSteps, app, LinkInv
<1>2. pc' \in {pc, pc + 1, Len(program) + 1}
  BY CallerStep DEF LinkInv, CallerMoves
<1>3. ASSUME pc' = pc + 1
      PROVE  \/ pc = 0
             \/ pc' = Len(program) + 1
             \/ pc \in DOMAIN program /\ (program[pc].op = "register" => Register)
  <2>1. CASE Connect
    BY <2>1 DEF Connect
  <2>2. CASE Register \/ Unregister \/ SendStdin \/ Receive
    BY <2>2 DEF Register, Unregister, SendStdin, Receive, At
  <2>3. CASE GetResult \/ CommandFails
    <3>1. caller[Main].at = "waiting" \/ caller[Main].at = "writing"
      BY <2>3 DEF GetResult, CommandFails, Client!ReceiveResult, Client!WriteFails, Client!Leave, Client!TimeOut, Client!GiveUp
    <3>2. At(ServerCalls \ {"stdin"})
      BY <1>0, <3>1
    <3>3. QED
      BY <3>2 DEF At, ServerCalls, Requests, SpawnRequests
  <2>4. CASE BeginCommand \/ LockTaken \/ WriteLine \/ CloseConnection \/ WriterWrites \/ Library \/ ServerSteps \/ SessionRests
    <3>1. UNCHANGED pc
      BY <2>4 DEF BeginCommand, LockTaken, WriteLine, CloseConnection, WriterWrites, Library, ReadLine, Ending,
         ServerSteps, SessionRests, session_vars, app
    <3>2. QED
      BY <1>0, <1>3, <3>1
  <2>5. QED
    BY <2>1, <2>2, <2>3, <2>4 DEF SessionNext, Program
<1>4. QED
  BY <1>0, <1>1, <1>2, <1>3 DEF InProgram

-----------------------------------------------------------------------------
(* Nothing is missing: the library *)

\* The program can still hear from the server.
Hearing == open /\ demux = "reading"

Reg(n) == process_queues[n] # NoQueue

\* n is registered under its own queue, and what is in a queue was read.
Routes ==
  /\ process_queues \in [Names -> Queues \union {NoQueue}]
  /\ queue \in [Queues -> [name : Names \union {NoName}, late : BOOLEAN, got : Seq(SeenLine)]]
  /\ \A n \in Names : Reg(n) => queue[process_queues[n]].name = n
  /\ \A q \in Queues : \A j \in 1 .. Len(queue[q].got) : queue[q].got[j].no \in 1 .. read

\* What a step does to the library's end.
LEMMA HearsStep ==
  ASSUME LinkInv, SessionNext, Hearing'
  PROVE  /\ Hearing
         /\ \/ UNCHANGED <<process_queues, queue, read>>
            \/ ReadLine \/ Register \/ Unregister
<1>1. CASE Connect \/ BeginCommand \/ LockTaken \/ WriteLine \/ GetResult \/ CommandFails \/ SendStdin \/ Receive
  BY <1>1 DEF Hearing, Connect, BeginCommand, LockTaken, WriteLine, GetResult, CommandFails, SendStdin, Receive,
     LibStands, SocketStands, lib, Client!ends, Client!routes, Client!SendCommand, Client!TakeLock, Client!WriteCommand,
     Client!ReceiveResult, Client!WriteFails, Client!Leave, Client!TimeOut, Client!GiveUp
<1>2. CASE Register \/ Unregister \/ ReadLine
  BY <1>2 DEF Hearing, Register, Unregister, ReadLine, Client!ends, Client!RegisterProcess,
     Client!UnregisterProcess, Client!Route
<1>3. ~CloseConnection /\ ~Ending
  BY DEF Hearing, CloseConnection, Ending, Client!Close, Client!LoseConnection, Client!NotifyLoss,
     Client!Abort
<1>4. CASE WriterWrites \/ ServerSteps \/ SessionRests
  BY <1>4 DEF Hearing, WriterWrites, ServerSteps, SessionRests, session_vars, LibStands, SocketStands, lib
<1>5. QED
  BY <1>1, <1>2, <1>3, <1>4 DEF SessionNext, Program, Library

\* Registering a name puts an unused queue in its place.
LEMMA Registers ==
  ASSUME LinkInv, Routes, Register
  PROVE  /\ Name \in Names /\ program[pc] = Call("register", Name) /\ pc \in DOMAIN program
         /\ \E q \in Queues :
              /\ queue[q].name = NoName /\ process_queues' = [process_queues EXCEPT ![Name] = q]
              /\ \E late \in BOOLEAN : queue' = [queue EXCEPT ![q] = [name |-> Name, late |-> late, got |-> << >>]]
         /\ UNCHANGED <<vars, wire, read, asked>>
<1>1. Name \in Names
  BY CallNames DEF LinkInv, Register, At
<1>2. pc \in DOMAIN program /\ program[pc].op = "register" /\ program[pc] \in Calls
  BY ElementOfSeq, LenProperties DEF Register, At, LinkInv, ProgramInv
<1>3. program[pc] = Call("register", Name)
  BY <1>2 DEF Calls, Call, Name
<1>4. PICK q \in Queues : Client!RegisterProcess(Name, q)
  BY DEF Register
<1>5. (demux = "ended") \in BOOLEAN
  OBVIOUS
<1>6. QED
  BY <1>1, <1>2, <1>3, <1>4, <1>5 DEF Register, ServerStands, SocketStands, Client!RegisterProcess

LEMMA Unregisters ==
  ASSUME LinkInv, Unregister
  PROVE  /\ Name \in Names /\ program[pc] = Call("unregister", Name) /\ pc \in DOMAIN program
         /\ process_queues' = [process_queues EXCEPT ![Name] = NoQueue]
         /\ UNCHANGED <<vars, wire, read, asked, queue>>
<1>1. Name \in Names
  BY CallNames DEF LinkInv, Unregister, At
<1>2. pc \in DOMAIN program /\ program[pc].op = "unregister" /\ program[pc] \in Calls
  BY ElementOfSeq, LenProperties DEF Unregister, At, LinkInv, ProgramInv
<1>3. program[pc] = Call("unregister", Name)
  BY <1>2 DEF Calls, Call, Name
<1>4. QED
  BY <1>1, <1>2, <1>3 DEF Unregister, ServerStands, SocketStands, Client!UnregisterProcess

\* Where the next line of the socket goes: a result changes no queue, output
\* goes to the queue of its name.
Routed ==
  LET w == wire[read + 1]
      q == process_queues[w.name]
  IN \/ w.kind = "result" /\ UNCHANGED queue
     \/ w \in Output /\ ~Reg(w.name) /\ UNCHANGED queue
     \/ /\ w \in Output /\ Reg(w.name) /\ Seen(read + 1).no = read + 1
        /\ queue' = [queue EXCEPT ![q].got = Append(queue[q].got, Seen(read + 1))]

LEMMA LineRead ==
  ASSUME LinkInv, Routes, ReadLine
  PROVE  /\ read + 1 \in 1 .. Len(wire) /\ read' = read + 1 /\ read \in Nat
         /\ wire[read + 1] \in Message /\ Seen(read + 1) \in SeenLine
         /\ UNCHANGED <<vars, asked, wire, process_queues>>
         /\ Routed
<1> DEFINE w == wire[read + 1]
           m == Seen(read + 1)
<1>1. /\ read' = read + 1 /\ Client!Route(m) /\ UNCHANGED wire /\ UNCHANGED app /\ UNCHANGED vars
      /\ read < Len(wire)
  BY DEF ReadLine, ServerStands
<1>2. read \in Nat /\ read + 1 \in 1 .. Len(wire) /\ w \in Message
  <2>1. read \in 0 .. Len(wire) /\ Len(wire) \in Nat /\ wire \in Seq(Message)
    BY LinkTypes DEF LinkInv, ConnInv
  <2>2. read + 1 \in 1 .. Len(wire)
    BY <1>1, <2>1
  <2>3. QED
    BY <2>1, <2>2, ElementOfSeq
<1>3. ASSUME w \in Result PROVE Routed /\ m \in SeenLine /\ UNCHANGED process_queues
  <2>1. m = [kind |-> "result", name |-> NoName, no |-> w.re] /\ w.kind = "result" /\ w.re \in Nat
    BY <1>3 DEF Seen, Result
  <2>2. m \in SeenLine /\ m.kind = "result"
    BY <2>1 DEF SeenLine
  <2> HIDE DEF m
  <2>3. UNCHANGED <<queue, process_queues>>
    BY <1>1, <2>2 DEF Client!Route
  <2>4. QED
    BY <1>1, <1>2, <2>1, <2>2, <2>3 DEF m, Routed
<1>4. ASSUME w \in Output PROVE Routed /\ m \in SeenLine /\ UNCHANGED process_queues
  <2>1. m = [kind |-> "output", name |-> w.name, no |-> read + 1] /\ w.name \in Names
    BY <1>4 DEF Seen, Output
  <2>2. m \in SeenLine /\ m.kind = "output" /\ m.name = w.name /\ m.no = read + 1
    BY <1>2, <2>1 DEF SeenLine
  <2> HIDE DEF m
  <2>3. /\ UNCHANGED process_queues
        /\ \/ ~Reg(w.name) /\ UNCHANGED queue
           \/ Reg(w.name) /\ queue' = [queue EXCEPT ![process_queues[w.name]].got = Append(@, m)]
    BY <1>1, <2>2 DEF Client!Route, Client!Deliver, Reg
  <2>4. QED
    BY <1>1, <1>2, <1>4, <2>2, <2>3 DEF m, Routed
<1>5. w \in Result \/ w \in Output
  BY <1>2 DEF Message
<1>6. Routed /\ m \in SeenLine /\ UNCHANGED process_queues
  BY <1>3, <1>4, <1>5
<1>7. UNCHANGED <<vars, asked, wire, process_queues>>
  BY <1>1, <1>6 DEF app
<1>8. QED
  BY <1>1, <1>2, <1>6, <1>7

LEMMA RoutesStep ==
  ASSUME LinkInv, SessionNext, Hearing', Hearing => Routes
  PROVE  Routes'
<1>0. /\ process_queues \in [Names -> Queues \union {NoQueue}]
      /\ queue \in [Queues -> [name : Names \union {NoName}, late : BOOLEAN, got : Seq(SeenLine)]]
      /\ \A n \in Names : process_queues[n] # NoQueue => queue[process_queues[n]].name = n
      /\ \A q \in Queues : \A j \in 1 .. Len(queue[q].got) : queue[q].got[j].no \in 1 .. read
      /\ NoQueue \notin Queues /\ NoName \notin Names /\ Routes
  BY HearsStep, SessionAssumption, NoneAssumption DEF Routes, Reg
<1>1. CASE UNCHANGED <<process_queues, queue, read>>
  BY <1>0, <1>1 DEF Routes, Reg
<1>2. CASE Register
  <2>1. PICK q \in Queues, late \in BOOLEAN :
          /\ queue[q].name = NoName /\ process_queues' = [process_queues EXCEPT ![Name] = q]
          /\ queue' = [queue EXCEPT ![q] = [name |-> Name, late |-> late, got |-> << >>]]
    BY <1>0, <1>2, Registers
  <2>2. Name \in Names /\ UNCHANGED read /\ << >> \in Seq(SeenLine)
    BY <1>0, <1>2, Registers, EmptySeq
  <2> DEFINE new == [name |-> Name, late |-> late, got |-> << >>]
  <2>3. new \in [name : Names \union {NoName}, late : BOOLEAN, got : Seq(SeenLine)]
    BY <2>2
  <2>4. /\ queue'[q] = new /\ \A r \in Queues : r # q => queue'[r] = queue[r]
        /\ queue' \in [Queues -> [name : Names \union {NoName}, late : BOOLEAN, got : Seq(SeenLine)]]
    <3> HIDE DEF new
    <3>1. queue' = [queue EXCEPT ![q] = new]
      BY <2>1 DEF new
    <3>2. QED
      BY <1>0, <2>3, <3>1
  <2>5. /\ process_queues'[Name] = q /\ \A n \in Names : n # Name => process_queues'[n] = process_queues[n]
        /\ process_queues' \in [Names -> Queues \union {NoQueue}]
    BY <1>0, <2>1, <2>2
  <2>6. ASSUME NEW n \in Names, process_queues'[n] # NoQueue PROVE queue'[process_queues'[n]].name = n
    <3>1. CASE n = Name
      BY <2>4, <2>5, <3>1
    <3>2. CASE n # Name
      <4>1. process_queues[n] \in Queues /\ queue[process_queues[n]].name = n /\ n # NoName
        BY <1>0, <2>5, <2>6, <3>2
      <4>2. process_queues[n] # q
        BY <2>1, <4>1
      <4>3. QED
        BY <2>4, <2>5, <3>2, <4>1, <4>2
    <3>3. QED
      BY <3>1, <3>2
  <2>7. ASSUME NEW r \in Queues, NEW j \in 1 .. Len(queue'[r].got) PROVE queue'[r].got[j].no \in 1 .. read'
    <3>1. CASE r = q
      <4>1. Len(queue'[r].got) = 0
        BY <2>4, <3>1
      <4>2. QED
        BY <4>1
    <3>2. CASE r # q
      BY <1>0, <2>2, <2>4, <3>2
    <3>3. QED
      BY <3>1, <3>2
  <2>8. QED
    BY <2>4, <2>5, <2>6, <2>7 DEF Routes, Reg
<1>3. CASE Unregister
  <2>1. /\ process_queues' = [process_queues EXCEPT ![Name] = NoQueue] /\ UNCHANGED <<queue, read>>
        /\ Name \in Names
    BY <1>3, Unregisters
  <2>2. QED
    BY <1>0, <2>1 DEF Routes, Reg
<1>4. CASE ReadLine
  <2> DEFINE m == Seen(read + 1)
             w == wire[read + 1]
  <2>1. /\ read' = read + 1 /\ read \in Nat /\ m \in SeenLine /\ UNCHANGED process_queues /\ Routed
    BY <1>0, <1>4, LineRead
  <2>2. CASE UNCHANGED queue
    BY <1>0, <2>1, <2>2 DEF Routes, Reg
  <2>3. ASSUME NEW q \in Queues, m.no = read + 1, queue' = [queue EXCEPT ![q].got = Append(queue[q].got, m)]
        PROVE  Routes'
    <3> HIDE DEF m
    <3>1. queue[q].got \in Seq(SeenLine) /\ Len(queue[q].got) \in Nat
      BY <1>0, LenProperties
    <3>2. /\ Append(queue[q].got, m) \in Seq(SeenLine)
          /\ Len(Append(queue[q].got, m)) = Len(queue[q].got) + 1
          /\ Append(queue[q].got, m)[Len(queue[q].got) + 1] = m
          /\ \A j \in 1 .. Len(queue[q].got) : Append(queue[q].got, m)[j] = queue[q].got[j]
      BY <2>1, <3>1, AppendProperties
    <3> DEFINE g == Append(queue[q].got, m)
    <3>3. queue' = [queue EXCEPT ![q] = [queue[q] EXCEPT !.got = g]]
      BY <1>0, <2>3
    <3> HIDE DEF g
    <3>4. /\ queue' \in [Queues -> [name : Names \union {NoName}, late : BOOLEAN, got : Seq(SeenLine)]]
          /\ queue'[q].got = g /\ \A r \in Queues : queue'[r].name = queue[r].name
          /\ \A r \in Queues : r # q => queue'[r] = queue[r]
      BY <1>0, <3>2, <3>3 DEF g
    <3>5. ASSUME NEW r \in Queues, NEW j \in 1 .. Len(queue'[r].got)
          PROVE  queue'[r].got[j].no \in 1 .. read'
      <4>1. CASE r # q
        BY <1>0, <2>1, <3>4, <4>1
      <4>2. CASE r = q /\ j = Len(queue[q].got) + 1
        BY <2>1, <2>3, <3>2, <3>4, <4>2 DEF g
      <4>3. CASE r = q /\ j # Len(queue[q].got) + 1
        <5>1. j \in 1 .. Len(queue[q].got)
          BY <3>1, <3>2, <3>4, <4>3 DEF g
        <5>2. queue'[r].got[j] = queue[q].got[j]
          BY <3>2, <3>4, <4>3, <5>1 DEF g
        <5>3. queue[q].got[j].no \in 1 .. read
          BY <1>0, <5>1
        <5>4. QED
          BY <2>1, <5>2, <5>3
      <4>4. QED
        BY <4>1, <4>2, <4>3
    <3>6. QED
      BY <1>0, <2>1, <3>4, <3>5 DEF Routes, Reg
  <2>4. w \in Output /\ Reg(w.name) => process_queues[w.name] \in Queues
    BY <1>0 DEF Output, Reg
  <2>5. QED
    BY <2>1, <2>2, <2>3, <2>4 DEF Routed
<1>5. QED
  BY <1>1, <1>2, <1>3, <1>4, HearsStep

-----------------------------------------------------------------------------
(* Nothing is missing: the program's queue *)

\* The messages behind what is in a queue.
GotLines(q) == [i \in DOMAIN queue[q].got |-> wire[queue[q].got[i].no]]

\* What is on the socket was sent, and carries its child's name.
LEMMA WireFits ==
  ASSUME LinkInv, IsServed, NEW k \in 1 .. Len(wire)
  PROVE  wire[k] \in Message /\ Fits(wire[k])
<1>1. /\ channel \in Seq(Message) /\ wire \in Seq(Message) /\ Len(wire) \in Nat /\ Len(channel) \in Nat
      /\ Extends(channel, wire) /\ Placed
  BY LinkTypes DEF LinkInv, ConnInv, StreamInv, OrderInv
<1>2. k \in 1 .. Len(channel) /\ channel[k] = wire[k] /\ DOMAIN channel = 1 .. Len(channel)
  BY <1>1, LenProperties DEF Extends
<1>3. QED
  BY <1>1, <1>2, ElementOfSeq DEF Placed

LEMMA GotSeq ==
  ASSUME LinkInv, Routes, NEW q \in Queues
  PROVE  /\ GotLines(q) \in Seq(Message) /\ Len(GotLines(q)) = Len(queue[q].got)
         /\ DOMAIN queue[q].got = 1 .. Len(queue[q].got) /\ Len(queue[q].got) \in Nat
         /\ \A i \in 1 .. Len(queue[q].got) :
              queue[q].got[i].no \in 1 .. Len(wire) /\ GotLines(q)[i] = wire[queue[q].got[i].no]
<1>1. /\ wire \in Seq(Message) /\ Len(wire) \in Nat /\ read \in 0 .. Len(wire)
      /\ queue[q].got \in Seq(SeenLine) /\ \A j \in 1 .. Len(queue[q].got) : queue[q].got[j].no \in 1 .. read
  BY LinkTypes DEF LinkInv, ConnInv, Routes
<1>2. Len(queue[q].got) \in Nat /\ DOMAIN queue[q].got = 1 .. Len(queue[q].got)
  BY <1>1, LenProperties
<1>3. \A i \in 1 .. Len(queue[q].got) : queue[q].got[i].no \in 1 .. Len(wire)
  BY <1>1
<1>4. \A i \in 1 .. Len(queue[q].got) : wire[queue[q].got[i].no] \in Message
  BY <1>1, <1>3, ElementOfSeq
<1>5. GotLines(q) \in [1 .. Len(queue[q].got) -> Message]
  BY <1>2, <1>4 DEF GotLines
<1>6. QED
  BY <1>2, <1>3, <1>5 DEF GotLines

-----------------------------------------------------------------------------
(* Nothing is missing: registered early *)

\* Call i of the program registers n, before each spawn of n and for good.
Early(n, i) ==
  /\ i \in DOMAIN program /\ program[i] = Call("register", n)
  /\ \A j \in DOMAIN program :
       /\ j < i => ~(program[j].name = n /\ program[j].op \in SpawnRequests)
       /\ j # i => ~(program[j].name = n /\ program[j].op \in {"register", "unregister"})

\* The program's queue has what was read of the children of its name.
Hears(n) ==
  \A p \in Pids, pipe \in Pipes : child[p].name = n =>
    Positions(GotLines(process_queues[n]), p, pipe) = Positions(SubSeq(wire, 1, read), p, pipe)

\* It is registered once the call is made, and no child is asked for before.
EarlyInv(n, i) ==
  Early(n, i) =>
    /\ i < pc /\ pc <= Len(program) => Reg(n)
    /\ Asks(n) => i < pc /\ Reg(n)
    /\ Reg(n) => Hears(n)

HeardInv ==
  /\ InProgram
  /\ Hearing => Routes /\ \A n \in Names, i \in DOMAIN program : EarlyInv(n, i)

\* Only that call changes under which queue n is registered.
LEMMA RegStep ==
  ASSUME LinkInv, SessionNext, Hearing', Hearing, Routes, NEW n \in Names, NEW i, Early(n, i)
  PROVE  \/ process_queues'[n] = process_queues[n] /\ ~(Register /\ pc = i)
         \/ Register /\ pc = i /\ Reg(n)'
<1>0. process_queues \in [Names -> Queues \union {NoQueue}] /\ NoQueue \notin Queues
  BY SessionAssumption DEF Routes
<1>1. CASE Register
  <2>1. PICK q \in Queues : process_queues' = [process_queues EXCEPT ![Name] = q]
    BY <1>1, Registers
  <2>2. Name \in Names /\ program[pc] = Call("register", Name) /\ pc \in DOMAIN program
    BY <1>1, Registers
  <2>3. Name = n <=> pc = i
    BY <2>2 DEF Early, Call
  <2>4. CASE pc = i
    BY <1>0, <1>1, <2>1, <2>3, <2>4 DEF Reg
  <2>5. CASE pc # i
    BY <1>0, <1>1, <2>1, <2>2, <2>3, <2>5
  <2>6. QED
    BY <2>4, <2>5
<1>2. CASE Unregister /\ ~Register
  <2>1. /\ Name \in Names /\ program[pc] = Call("unregister", Name) /\ pc \in DOMAIN program
        /\ process_queues' = [process_queues EXCEPT ![Name] = NoQueue]
    BY <1>2, Unregisters
  <2>2. Name # n
    BY <2>1 DEF Early, Call
  <2>3. QED
    BY <1>0, <1>2, <2>1, <2>2
<1>3. CASE UNCHANGED process_queues /\ ~Register
  BY <1>3
<1>4. CASE ReadLine /\ ~Register
  BY <1>4, LineRead
<1>5. QED
  BY <1>1, <1>2, <1>3, <1>4, HearsStep

\* What does not change for n's queue when its messages stay what they were.
LEMMA SameLines ==
  ASSUME LinkInv, Routes, NEW n \in Names, Reg(n), process_queues'[n] = process_queues[n],
         queue'[process_queues[n]] = queue[process_queues[n]],
         wire' \in Seq(Message), Extends(wire', wire)
  PROVE  /\ GotLines(process_queues[n])' = GotLines(process_queues[n])
         /\ SubSeq(wire', 1, read) = SubSeq(wire, 1, read)
<1> DEFINE q == process_queues[n]
<1>1. q \in Queues /\ wire \in Seq(Message) /\ read \in 0 .. Len(wire) /\ Len(wire) \in Nat
  BY LinkTypes DEF Routes, Reg, LinkInv, ConnInv
<1>2. /\ DOMAIN queue[q].got = 1 .. Len(queue[q].got)
      /\ \A i \in 1 .. Len(queue[q].got) : queue[q].got[i].no \in 1 .. Len(wire)
  BY <1>1, GotSeq
<1>3. queue'[q'] = queue[q]
  OBVIOUS
<1>4. GotLines(q)' = [i \in DOMAIN queue'[q'].got |-> wire'[queue'[q'].got[i].no]]
  BY DEF GotLines
<1> HIDE DEF q
<1>5. \A i \in DOMAIN queue[q].got : wire'[queue[q].got[i].no] = wire[queue[q].got[i].no]
  BY <1>2 DEF Extends
<1>6. GotLines(q)' = GotLines(q)
  BY <1>3, <1>4, <1>5 DEF GotLines
<1>7. SubSeq(wire', 1, read) = SubSeq(wire, 1, read)
  <2>1. Len(wire') \in Nat /\ Len(wire) <= Len(wire')
    BY LenProperties DEF Extends
  <2>2. \A i \in 1 .. read : wire'[i] = wire[i]
    BY <1>1 DEF Extends
  <2> DEFINE s == SubSeq(wire, 1, read)
             t == SubSeq(wire', 1, read)
  <2>3. s \in Seq(Message) /\ Len(s) = read /\ \A i \in 1 .. read : s[i] = wire[i]
    <3>1. \A i \in 1 .. read : wire[i] \in Message
      BY <1>1, ElementOfSeq
    <3>2. QED
      BY <1>1, <3>1, SubSeqProperties
  <2>4. t \in Seq(Message) /\ Len(t) = read /\ \A i \in 1 .. read : t[i] = wire'[i]
    <3>1. \A i \in 1 .. read : wire'[i] \in Message
      BY <1>1, <2>1, ElementOfSeq
    <3>2. QED
      BY <1>1, <2>1, <3>1, SubSeqProperties
  <2> HIDE DEF s, t
  <2>5. \A i \in 1 .. read : s[i] = t[i]
    BY <2>2, <2>3, <2>4
  <2>6. s = t
    BY <2>3, <2>4, <2>5, SeqEqual
  <2>7. QED
    BY <2>6 DEF s, t
<1>8. QED
  BY <1>6, <1>7 DEF q

\* The queue n is registered under gets the line that is read.
LEMMA GotNext ==
  ASSUME LinkInv, Routes, ReadLine, NEW n \in Names, Reg(n),
         Seen(read + 1).no = read + 1,
         queue' = [queue EXCEPT ![process_queues[n]].got = Append(queue[process_queues[n]].got, Seen(read + 1))]
  PROVE  GotLines(process_queues[n])' = Append(GotLines(process_queues[n]), wire[read + 1])
<1> DEFINE q == process_queues[n]
           m == Seen(read + 1)
           w == wire[read + 1]
           g == Append(queue[q].got, m)
           L == Len(queue[q].got)
           s == GotLines(q)
           t == GotLines(q)'
           u == Append(s, w)
<1>1. /\ q \in Queues /\ w \in Message /\ m \in SeenLine /\ m.no = read + 1 /\ q' = q /\ wire' = wire
      /\ queue[q].got \in Seq(SeenLine)
      /\ queue \in [Queues -> [name : Names \union {NoName}, late : BOOLEAN, got : Seq(SeenLine)]]
  BY LineRead DEF Routes, Reg
<1>2. /\ s \in Seq(Message) /\ Len(s) = L /\ L \in Nat
      /\ \A i \in 1 .. L : queue[q].got[i].no \in 1 .. Len(wire) /\ s[i] = wire[queue[q].got[i].no]
  BY <1>1, GotSeq
<1>3. /\ g \in Seq(SeenLine) /\ Len(g) = L + 1 /\ g[L + 1] = m
      /\ \A i \in 1 .. L : g[i] = queue[q].got[i]
  <2> HIDE DEF m
  <2>1. QED
    BY <1>1, AppendProperties
<1>4. t = [i \in DOMAIN g |-> wire[g[i].no]]
  <2>1. t = [i \in DOMAIN queue'[q'].got |-> wire'[queue'[q'].got[i].no]]
    BY DEF GotLines
  <2>2. queue'[q'].got = g
    <3> HIDE DEF m
    <3>1. queue' = [queue EXCEPT ![q].got = g]
      BY DEF m
    <3> HIDE DEF q, g
    <3>2. QED
      BY <1>1, <3>1
  <2> HIDE DEF t, g, q
  <2>3. QED
    BY <1>1, <2>1, <2>2
<1> HIDE DEF t, g, q, m, w, s, L
<1>5. DOMAIN g = 1 .. L + 1
  BY <1>3, LenProperties
<1>6. t[L + 1] = w
  <2>1. L + 1 \in 1 .. L + 1
    BY <1>2
  <2>2. t[L + 1] = wire[g[L + 1].no]
    BY <1>4, <1>5, <2>1
  <2>3. QED
    BY <1>1, <1>3, <2>2 DEF w
<1>7. \A i \in 1 .. L : t[i] = s[i] /\ t[i] \in Message
  <2> SUFFICES ASSUME NEW i \in 1 .. L PROVE t[i] = s[i] /\ t[i] \in Message
    OBVIOUS
  <2>1. i \in 1 .. L + 1
    BY <1>2
  <2>2. t[i] = wire[g[i].no]
    BY <1>4, <1>5, <2>1
  <2>3. s[i] \in Message
    BY <1>2, ElementOfSeq
  <2>4. QED
    BY <1>2, <1>3, <2>2, <2>3
<1>8. t \in Seq(Message) /\ Len(t) = L + 1
  <2>1. \A i \in 1 .. L + 1 : t[i] \in Message
    BY <1>1, <1>2, <1>6, <1>7
  <2>2. t \in [1 .. L + 1 -> Message]
    <3>1. t = [i \in 1 .. L + 1 |-> t[i]]
      BY <1>4, <1>5
    <3>2. QED
      BY <2>1, <3>1
  <2>3. L + 1 \in Nat
    BY <1>2
  <2>4. QED
    BY <2>2, <2>3
<1>9. u \in Seq(Message) /\ Len(u) = L + 1 /\ u[L + 1] = w /\ \A i \in 1 .. L : u[i] = s[i]
  BY <1>1, <1>2, AppendProperties
<1> HIDE DEF u
<1>10. \A i \in 1 .. L + 1 : t[i] = u[i]
  <2> SUFFICES ASSUME NEW i \in 1 .. L + 1 PROVE t[i] = u[i]
    OBVIOUS
  <2>1. i \in 1 .. L \/ i = L + 1
    BY <1>2
  <2>2. QED
    BY <1>6, <1>7, <1>9, <2>1
<1>11. t = u
  BY <1>8, <1>9, <1>10, SeqEqual
<1>12. QED
  BY <1>11 DEF t, u, s, w, q

\* Reading a line keeps a queue and what was read together.
LEMMA ReadHears ==
  ASSUME LinkInv, Intact, open, Routes, ReadLine, NEW n \in Names, Reg(n), Hears(n)
  PROVE  Hears(n)'
<1> DEFINE q == process_queues[n]
           w == wire[read + 1]
<1>1. /\ read + 1 \in 1 .. Len(wire) /\ read' = read + 1 /\ read \in Nat /\ w \in Message
      /\ UNCHANGED vars /\ UNCHANGED wire /\ UNCHANGED process_queues /\ Routed
  BY LineRead
<1>2. wire \in Seq(Message) /\ Len(wire) \in Nat /\ q \in Queues /\ UNCHANGED child
  BY <1>1, LinkTypes DEF Routes, Reg, vars, os
<1>3. Fits(w)
  <2>1. wire # << >> /\ conn[MyConn].state # "closed"
    BY <1>1, <1>2, EmptySeq DEF Intact
  <2>2. IsServed
    BY <2>1 DEF LinkInv, ConnInv, Left
  <2>3. QED
    BY <1>1, <2>2, WireFits
<1> SUFFICES ASSUME NEW p \in Pids, NEW pipe \in Pipes, child[p].name = n
             PROVE  Positions(GotLines(q)', p, pipe) = Positions(SubSeq(wire, 1, read + 1), p, pipe)
  BY <1>1, <1>2 DEF Hears
<1>4. Positions(GotLines(q), p, pipe) = Positions(SubSeq(wire, 1, read), p, pipe)
  BY DEF Hears
<1>5. Positions(SubSeq(wire, 1, read + 1), p, pipe)
        = IF ReadFrom(w, p, pipe) THEN Append(Positions(SubSeq(wire, 1, read), p, pipe), w.seq)
                                  ELSE Positions(SubSeq(wire, 1, read), p, pipe)
  <2> DEFINE s == SubSeq(wire, 1, read)
  <2>1. s \in Seq(Message) /\ SubSeq(wire, 1, read + 1) = Append(s, w)
    BY <1>1, <1>2, PrefixNext
  <2> HIDE DEF s, w
  <2>2. Positions(Append(s, w), p, pipe)
          = IF ReadFrom(w, p, pipe) THEN Append(Positions(s, p, pipe), w.seq) ELSE Positions(s, p, pipe)
    BY <1>1, <2>1, PositionsAppend
  <2>3. QED
    BY <2>1, <2>2 DEF s
<1>6. CASE w \in Output /\ w.name = n
  <2>1. GotLines(q)' = Append(GotLines(q), w)
    <3>1. /\ Seen(read + 1).no = read + 1
          /\ queue' = [queue EXCEPT ![q].got = Append(queue[q].got, Seen(read + 1))]
      BY <1>1, <1>6 DEF Routed, Output
    <3>2. QED
      BY <3>1, GotNext
  <2> DEFINE s == GotLines(q)
  <2>2. s \in Seq(Message)
    BY <1>2, GotSeq
  <2> HIDE DEF s, w
  <2>3. Positions(Append(s, w), p, pipe)
          = IF ReadFrom(w, p, pipe) THEN Append(Positions(s, p, pipe), w.seq) ELSE Positions(s, p, pipe)
    BY <1>1, <2>2, PositionsAppend
  <2>4. QED
    BY <1>4, <1>5, <2>1, <2>3 DEF s
<1>7. CASE ~(w \in Output /\ w.name = n)
  <2>1. ~ReadFrom(w, p, pipe)
    BY <1>1, <1>3, <1>7 DEF ReadFrom, Fits, Message, Result
  <2>2. queue'[q] = queue[q]
    <3>1. CASE UNCHANGED queue
      BY <3>1
    <3>2. CASE /\ w \in Output /\ Reg(w.name)
               /\ queue' = [queue EXCEPT ![process_queues[w.name]].got
                              = Append(queue[process_queues[w.name]].got, Seen(read + 1))]
      <4>1. w.name # n /\ w.name \in Names
        BY <1>7, <3>2 DEF Output
      <4>2. queue[process_queues[w.name]].name = w.name /\ queue[q].name = n
        BY <3>2, <4>1 DEF Routes
      <4>3. process_queues[w.name] # q
        BY <4>1, <4>2
      <4> DEFINE r == process_queues[w.name]
                 g == Append(queue[r].got, Seen(read + 1))
      <4>4. queue' = [queue EXCEPT ![r].got = g] /\ r # q
        BY <3>2, <4>3
      <4> HIDE DEF r, g, q
      <4>5. QED
        BY <1>2, <4>4 DEF Routes
    <3>3. QED
      BY <1>1, <3>1, <3>2 DEF Routed
  <2>3. GotLines(q)' = GotLines(q)
    <3>1. Extends(wire', wire) /\ wire' \in Seq(Message)
      BY <1>1, <1>2 DEF Extends
    <3>2. QED
      BY <1>1, <2>2, <3>1, SameLines
  <2>4. QED
    BY <1>4, <1>5, <2>1, <2>3
<1>8. QED
  BY <1>6, <1>7

\* A child that is only now given its name has nothing on the socket.
LEMMA NothingHeard ==
  ASSUME LinkInv, IsServed, Next, NEW p \in Pids, NEW pipe \in Pipes, child'[p].name # child[p].name
  PROVE  /\ \A k \in 1 .. Len(wire) : ~ReadFrom(wire[k], p, pipe)
         /\ Positions(SubSeq(wire, 1, read), p, pipe) = << >>
<1>1. ASSUME NEW k \in 1 .. Len(wire), ReadFrom(wire[k], p, pipe) PROVE FALSE
  <2>1. wire[k] \in Message /\ Fits(wire[k]) /\ TypeInv
    BY LinkTypes, WireFits
  <2>2. FitsNext(wire[k])
    BY <2>1, FitsStays
  <2>3. QED
    BY <1>1, <2>1, <2>2 DEF Fits, FitsNext, ReadFrom
<1>2. Positions(SubSeq(wire, 1, read), p, pipe) = << >>
  <2> DEFINE s == SubSeq(wire, 1, read)
  <2>1. wire \in Seq(Message) /\ read \in 0 .. Len(wire) /\ Len(wire) \in Nat
    BY LinkTypes DEF LinkInv, ConnInv
  <2>2. \A k \in 1 .. read : wire[k] \in Message
    BY <2>1, ElementOfSeq
  <2>3. s \in Seq(Message) /\ Len(s) = read /\ \A k \in 1 .. read : s[k] = wire[k]
    BY <2>1, <2>2, SubSeqProperties
  <2> HIDE DEF s
  <2>4. \A k \in 1 .. Len(s) : ~ReadFrom(s[k], p, pipe)
    BY <1>1, <2>1, <2>3
  <2>5. Positions(s, p, pipe) = << >>
    BY <2>3, <2>4, PositionsNone
  <2>6. QED
    BY <2>5 DEF s
<1>3. QED
  BY <1>1, <1>2

\* The socket only grows.
LEMMA WireGrows ==
  ASSUME LinkInv, SessionNext
  PROVE  wire' \in Seq(Message) /\ Extends(wire', wire)
<1>0. wire \in Seq(Message) /\ Len(wire) \in Nat
  BY LinkTypes
<1>1. CASE WriterWrites
  <2>1. Upcoming \in Message /\ wire' = Append(wire, Upcoming)
    BY <1>1, NextOnWire
  <2>2. QED
    BY <1>0, <2>1, AppendProperties DEF Extends
<1>2. CASE UNCHANGED wire
  BY <1>0, <1>2 DEF Extends
<1>3. CASE Program \/ Library \/ ServerSteps \/ SessionRests
  <2>1. UNCHANGED wire
    BY <1>3 DEF Program, Connect, Register, Unregister, BeginCommand, LockTaken, WriteLine, GetResult,
         CommandFails, SendStdin, Receive, CloseConnection, Library, ReadLine, Ending, ServerSteps,
         SessionRests, session_vars, SocketStands
  <2>2. QED
    BY <1>2, <2>1
<1>4. QED
  BY <1>1, <1>3 DEF SessionNext

\* What a step other than reading a line or that registration does to n's queue.
LEMMA HearsKept ==
  ASSUME LinkInv, Intact, open, Routes, SessionNext, NEW n \in Names, Reg(n), Hears(n),
         process_queues'[n] = process_queues[n],
         queue'[process_queues[n]] = queue[process_queues[n]], UNCHANGED read
  PROVE  Hears(n)'
<1> DEFINE q == process_queues[n]
<1>1. GotLines(q)' = GotLines(q) /\ SubSeq(wire', 1, read') = SubSeq(wire, 1, read)
  BY WireGrows, SameLines
<1>2. q \in Queues
  BY DEF Routes, Reg
<1>3. ASSUME NEW p \in Pids, NEW pipe \in Pipes, child'[p].name = n
      PROVE  Positions(GotLines(q), p, pipe) = Positions(SubSeq(wire, 1, read), p, pipe)
  <2>1. CASE child[p].name = n
    BY <2>1 DEF Hears
  <2>2. CASE child[p].name # n
    <3>1. ServerSteps
      BY <1>3, <2>2, ProgramLeaves DEF SessionNext, os
    <3>2. client_tx # NoConn
      BY <1>3, <2>2, <3>1, LinkTypes, NamesGiven DEF Births, LinkInv
    <3>3. IsServed /\ Next
      <4>1. conn[MyConn].state # "closed" /\ TypeInv /\ ProgramInv
        BY LinkTypes DEF Intact, LinkInv
      <4>2. QED
        BY <3>1, <3>2, <4>1, NotLeft, ServerMoves
    <3>4. /\ \A k \in 1 .. Len(wire) : ~ReadFrom(wire[k], p, pipe)
          /\ Positions(SubSeq(wire, 1, read), p, pipe) = << >>
      BY <1>3, <2>2, <3>3, NothingHeard
    <3>5. Positions(GotLines(q), p, pipe) = << >>
      <4> DEFINE s == GotLines(q)
      <4>1. /\ s \in Seq(Message) /\ Len(s) = Len(queue[q].got)
            /\ \A k \in 1 .. Len(queue[q].got) :
                 queue[q].got[k].no \in 1 .. Len(wire) /\ s[k] = wire[queue[q].got[k].no]
        BY <1>2, GotSeq
      <4> HIDE DEF s
      <4>2. \A k \in 1 .. Len(s) : ~ReadFrom(s[k], p, pipe)
        BY <3>4, <4>1
      <4>3. Positions(s, p, pipe) = << >>
        BY <4>1, <4>2, PositionsNone
      <4>4. QED
        BY <4>3 DEF s
    <3>6. QED
      BY <3>4, <3>5
  <2>3. QED
    BY <2>1, <2>2
<1> DEFINE got == GotLines(q)
           heard == SubSeq(wire, 1, read)
<1>4. got' = got /\ SubSeq(wire', 1, read') = heard
  BY <1>1
<1>5. \A p \in Pids, pipe \in Pipes : child'[p].name = n => Positions(got, p, pipe) = Positions(heard, p, pipe)
  BY <1>3
<1>6. Hears(n)' <=> \A p \in Pids, pipe \in Pipes : child'[p].name = n =>
                      Positions(got', p, pipe) = Positions(SubSeq(wire', 1, read'), p, pipe)
  BY DEF Hears
<1> HIDE DEF got, heard
<1>7. QED
  BY <1>4, <1>5, <1>6

\* One step of one name.
LEMMA EarlyStep ==
  ASSUME LinkInv, Intact, NamesAsked, InProgram, SessionNext, Hearing, Hearing', Routes,
         NEW n \in Names, NEW i \in DOMAIN program, EarlyInv(n, i)
  PROVE  EarlyInv(n, i)'
<1> SUFFICES ASSUME Early(n, i)'
             PROVE  /\ i < pc' /\ pc' <= Len(program') => Reg(n)'
                    /\ Asks(n)' => i < pc' /\ Reg(n)'
                    /\ Reg(n)' => Hears(n)'
  BY DEF EarlyInv
<1>0. /\ program' = program /\ pc <= pc' /\ pc \in Nat /\ pc' \in Nat /\ Len(program) \in Nat
      /\ DOMAIN program = 1 .. Len(program) /\ i \in Nat /\ 1 <= i
  <2>1. pc \in Nat /\ Len(program) \in Nat /\ DOMAIN program = 1 .. Len(program)
    BY LenProperties DEF LinkInv, ProgramInv
  <2>2. QED
    BY <2>1, InProgramStep
<1>1. Early(n, i)
  BY <1>0 DEF Early
<1>2. /\ i < pc /\ pc <= Len(program) => Reg(n)
      /\ Asks(n) => i < pc /\ Reg(n)
      /\ Reg(n) => Hears(n)
  BY <1>1 DEF EarlyInv
<1>3. \/ process_queues'[n] = process_queues[n] /\ ~(Register /\ pc = i)
      \/ Register /\ pc = i /\ Reg(n)'
  BY <1>1, RegStep
<1>4. Reg(n) => Reg(n)'
  BY <1>3 DEF Reg
<1>5. ASSUME i < pc', pc' <= Len(program') PROVE Reg(n)'
  <2>1. CASE i < pc
    BY <1>0, <1>2, <1>4, <1>5, <2>1
  <2>2. CASE i = pc /\ pc' # pc
    <3>1. program[pc].op = "register"
      BY <1>1, <2>2 DEF Early, Call
    <3>2. pc' # Len(program) + 1
      BY <1>0, <1>5
    <3>3. Register
      BY <1>0, <2>2, <3>1, <3>2, InProgramStep
    <3>4. QED
      BY <1>3, <2>2, <3>3
  <2>3. CASE pc < i
    <3>1. pc' = pc + 1 \/ pc' = pc
      BY <1>0, <1>5, InProgramStep
    <3>2. QED
      BY <1>0, <1>5, <2>3, <3>1
  <2>4. QED
    BY <1>0, <1>5, <2>1, <2>2, <2>3
<1>6. ASSUME Asks(n)' PROVE i < pc' /\ Reg(n)'
  <2>1. CASE Asks(n)
    BY <1>0, <1>2, <1>4, <2>1
  <2>2. CASE MayStart(n)
    <3>1. pc \in DOMAIN program /\ program[pc].name = n /\ program[pc].op \in SpawnRequests
      BY <2>2 DEF MayStart
    <3>2. ~(pc < i) /\ pc # i
      <4>1. "register" \notin SpawnRequests
        BY DEF SpawnRequests
      <4>2. QED
        BY <1>1, <3>1, <4>1 DEF Early, Call
    <3>3. i < pc /\ pc <= Len(program)
      BY <1>0, <3>1, <3>2
    <3>4. QED
      BY <1>0, <1>2, <1>4, <3>3
  <2>3. QED
    BY <1>6, <2>1, <2>2, AsksStep
<1>7. ASSUME Reg(n)' PROVE Hears(n)'
  <2>1. CASE Register /\ pc = i
    <3>1. ~Asks(n)
      BY <1>0, <1>2, <2>1
    <3>2. UNCHANGED child
      BY <2>1, Registers DEF vars, os
    <3>3. \A p \in Pids : child'[p].name # n
      BY <3>1, <3>2 DEF NamesAsked
    <3>4. QED
      BY <3>3 DEF Hears
  <2>2. CASE process_queues'[n] = process_queues[n] /\ ~(Register /\ pc = i)
    <3> DEFINE q == process_queues[n]
    <3>1. Reg(n) /\ Hears(n) /\ open
      BY <1>2, <1>7, <2>2 DEF Reg, Hearing
    <3>2. CASE ReadLine
      BY <3>1, <3>2, ReadHears
    <3>3. CASE UNCHANGED read /\ queue'[q] = queue[q]
      BY <2>2, <3>1, <3>3, HearsKept
    <3>4. CASE UNCHANGED <<process_queues, queue, read>>
      BY <3>3, <3>4
    <3>5. CASE Unregister
      BY <3>3, <3>5, Unregisters
    <3>6. CASE Register
      <4>1. PICK r \in Queues, late \in BOOLEAN :
              /\ queue[r].name = NoName
              /\ queue' = [queue EXCEPT ![r] = [name |-> Name, late |-> late, got |-> << >>]]
        BY <3>6, Registers
      <4>2. q \in Queues /\ queue[q].name = n /\ n # NoName
        BY <3>1, NoneAssumption DEF Routes, Reg
      <4>3. q # r
        BY <4>1, <4>2
      <4>4. UNCHANGED read
        BY <3>6, Registers
      <4> DEFINE new == [name |-> Name, late |-> late, got |-> << >>]
      <4>5. queue' = [queue EXCEPT ![r] = new]
        BY <4>1
      <4> HIDE DEF new, q
      <4>6. queue'[q] = queue[q]
        BY <4>2, <4>3, <4>5 DEF Routes
      <4>7. QED
        BY <3>3, <4>4, <4>6 DEF q
    <3>7. QED
      BY <3>2, <3>4, <3>5, <3>6, HearsStep
  <2>3. QED
    BY <1>3, <2>1, <2>2
<1>8. QED
  BY <1>5, <1>6, <1>7

LEMMA HeardStep ==
  ASSUME LinkInv, Intact, NamesAsked, HeardInv, SessionNext
  PROVE  HeardInv'
<1>1. InProgram' /\ program' = program
  BY InProgramStep DEF HeardInv
<1>2. ASSUME Hearing'
      PROVE  Routes' /\ \A n \in Names, i \in DOMAIN program' : EarlyInv(n, i)'
  <2>1. Hearing /\ Routes
    BY <1>2, HearsStep DEF HeardInv
  <2>2. Routes'
    BY <1>2, <2>1, RoutesStep
  <2>3. ASSUME NEW n \in Names, NEW i \in DOMAIN program PROVE EarlyInv(n, i)'
    <3>1. EarlyInv(n, i) /\ InProgram
      BY <2>1 DEF HeardInv
    <3>2. QED
      BY <1>2, <2>1, <3>1, EarlyStep
  <2>4. QED
    BY <1>1, <2>2, <2>3
<1>3. QED
  BY <1>1, <1>2 DEF HeardInv

-----------------------------------------------------------------------------
(* Nothing is missing *)

LEMMA InitNothing == SessionInit => Intact /\ NamesAsked /\ HeardInv
<1> SUFFICES ASSUME SessionInit PROVE Intact /\ NamesAsked /\ HeardInv
  OBVIOUS
<1>1. /\ conn[MyConn].state = "new" /\ client_tx = NoConn /\ \A n \in Names : procs[n] = Absent
      /\ \A p \in Pids : child[p].name = NoName
  BY SessionAssumption DEF SessionInit, Init
<1>2. Intact
  <2>1. \A p \in Pids : ~Held(p)
    BY <1>1, NoneAssumption DEF Held, Absent
  <2>2. QED
    BY <1>1, <2>1 DEF Intact, Whole, Absent
<1>3. NamesAsked
  BY <1>1, NoneAssumption DEF NamesAsked
<1>4. InProgram
  <2>1. program \in Seq(Calls) /\ pc = 0
    BY SessionAssumption DEF SessionInit
  <2>2. QED
    BY <2>1, LenProperties DEF InProgram
<1>5. Routes
  <2>1. << >> \in Seq(SeenLine) /\ Len(<< >>) = 0
    BY EmptySeq
  <2>2. \A q \in Queues : queue[q] = [name |-> NoName, late |-> FALSE, got |-> << >>]
    BY DEF SessionInit
  <2>3. queue \in [Queues -> [name : Names \union {NoName}, late : BOOLEAN, got : Seq(SeenLine)]]
    BY <2>1 DEF SessionInit
  <2>4. \A n \in Names : ~Reg(n)
    BY DEF SessionInit, Reg
  <2>5. process_queues \in [Names -> Queues \union {NoQueue}]
    BY DEF SessionInit
  <2>6. \A q \in Queues : \A j \in 1 .. Len(queue[q].got) : queue[q].got[j].no \in 1 .. read
    BY <2>1, <2>2
  <2>7. QED
    BY <2>3, <2>4, <2>5, <2>6 DEF Routes
<1>6. ASSUME NEW n \in Names, NEW i \in DOMAIN program PROVE EarlyInv(n, i)
  <2>1. ~Reg(n)
    BY DEF SessionInit, Reg
  <2>2. ~Asks(n)
    BY EmptySeq DEF SessionInit, Asks
  <2>3. i \in Nat /\ 1 <= i /\ pc = 0
    BY SessionAssumption, LenProperties DEF SessionInit
  <2>4. QED
    BY <2>1, <2>2, <2>3 DEF EarlyInv
<1>7. QED
  BY <1>2, <1>3, <1>4, <1>5, <1>6 DEF HeardInv

LEMMA NothingStep ==
  ASSUME LinkInv, LinkInv', Intact, NamesAsked, HeardInv, [SessionNext]_session_vars
  PROVE  Intact' /\ NamesAsked' /\ HeardInv'
<1>1. CASE SessionNext
  BY <1>1, IntactStep, NamesAskedStep, HeardStep
<1>2. CASE UNCHANGED session_vars
  <2>1. /\ UNCHANGED <<at, target, procs, relay_rx, client_tx, channel, writer, conn, task, child>>
        /\ UNCHANGED <<program, pc, asked, wire, read, open, demux, process_queues, queue>>
    BY <1>2 DEF session_vars, vars, session, clients, os, app, lib
  <2>2. Intact'
    BY <2>1 DEF Intact, Whole, Held, SentOf, Kept, Pending, Read
  <2>3. \A n : (Asks(n)' <=> Asks(n)) /\ (Reg(n)' <=> Reg(n))
    BY <2>1 DEF Asks, Reg
  <2>4. NamesAsked'
    BY <2>1 DEF NamesAsked, Asks
  <2>5. \A n \in Names : Hears(n)' <=> Hears(n)
    BY <2>1 DEF Hears, GotLines
  <2>6. \A n, i : Early(n, i)' <=> Early(n, i)
    BY <2>1 DEF Early
  <2>7. \A n \in Names, i \in DOMAIN program : EarlyInv(n, i)' <=> EarlyInv(n, i)
    BY <2>1, <2>3, <2>5, <2>6 DEF EarlyInv
  <2>8. (Routes' <=> Routes) /\ (InProgram' <=> InProgram) /\ (Hearing' <=> Hearing)
    BY <2>1 DEF Routes, Reg, InProgram, Hearing
  <2>9. HeardInv'
    BY <2>1, <2>7, <2>8 DEF HeardInv
  <2>10. QED
    BY <2>2, <2>4, <2>9
<1>3. QED
  BY <1>1, <1>2

\* The places of a line, put together again.
LEMMA Collected ==
  ASSUME LinkInv, Intact, NamesAsked, HeardInv
  PROVE  NothingMissing
<1> SUFFICES ASSUME NEW n \in Names, EarlyRegistered(n), open, demux = "reading", Managed(n),
                    NEW pipe \in Pipes
             PROVE  Delivered(n, procs[n].pid, pipe)
                      \o Positions(From(wire, read + 1), procs[n].pid, pipe)
                      \o Positions(From(channel, Len(wire) + 1), procs[n].pid, pipe)
                      \o Positions(Pending(procs[n].pid), procs[n].pid, pipe)
                    = UpTo(Read(procs[n].pid, pipe))
  BY DEF NothingMissing, UpTo, Read
<1> DEFINE p == procs[n].pid
<1>1. /\ wire \in Seq(Message) /\ channel \in Seq(Message) /\ Len(wire) \in Nat /\ read \in 0 .. Len(wire)
      /\ TypeInv
  BY LinkTypes DEF LinkInv, ConnInv
<1>2. p \in Pids /\ child[p].name = n
  <2>1. procs[n] \in Entry /\ procs[n].pid # NoPid
    BY <1>1 DEF TypeInv, TypeOK, TableOK
  <2>2. QED
    BY <1>1, <2>1 DEF TypeInv, Owned, Entry
<1>3. Routes /\ Reg(n) /\ Hears(n)
  <2>1. PICK i \in 1 .. pc - 1 :
          /\ program[i] = Call("register", n)
          /\ \A j \in DOMAIN program :
               /\ j < i => ~(program[j].name = n /\ program[j].op \in SpawnRequests)
               /\ j # i => ~(program[j].name = n /\ program[j].op \in {"register", "unregister"})
    BY DEF EarlyRegistered
  <2>2. i \in DOMAIN program
    <3>1. pc \in Nat /\ Len(program) \in Nat /\ DOMAIN program = 1 .. Len(program) /\ pc <= Len(program) + 1
      BY LenProperties DEF LinkInv, ProgramInv, HeardInv, InProgram
    <3>2. QED
      BY <3>1
  <2>3. Early(n, i)
    BY <2>1, <2>2 DEF Early
  <2>4. EarlyInv(n, i) /\ Routes
    BY <2>2 DEF HeardInv, Hearing
  <2>5. Asks(n)
    BY <1>2 DEF NamesAsked
  <2>6. QED
    BY <2>3, <2>4, <2>5 DEF EarlyInv
<1>4. Extends(channel, wire)
  <2>1. client_tx # NoConn /\ conn[MyConn].state # "closed"
    BY DEF Intact
  <2>2. IsServed
    BY <2>1, NotLeft
  <2>3. QED
    BY <2>2 DEF LinkInv, ConnInv
<1>5. SentOf(p, pipe) \o Kept(p, pipe) = UpTo(Read(p, pipe))
  BY <1>2 DEF Intact, Whole, Held
<1> HIDE DEF p
<1> DEFINE heard == SubSeq(wire, 1, read)
           unheard == From(wire, read + 1)
<1>6. SentOf(p, pipe) = Positions(wire, p, pipe) \o Positions(From(channel, Len(wire) + 1), p, pipe)
  BY <1>1, <1>4, PositionsExtend DEF SentOf
<1>7. Positions(wire, p, pipe) = Positions(heard, p, pipe) \o Positions(unheard, p, pipe)
  <2>1. Cut(Message)
    BY Cuts
  <2>2. heard \in Seq(Message) /\ unheard \in Seq(Message) /\ heard \o unheard = wire
    BY <1>1, <2>1 DEF Cut, From
  <2> HIDE DEF heard, unheard
  <2>3. Positions(heard \o unheard, p, pipe) = Positions(heard, p, pipe) \o Positions(unheard, p, pipe)
    <3>1. \A u, v \in Seq(Message) : Positions(u \o v, p, pipe) = Positions(u, p, pipe) \o Positions(v, p, pipe)
      BY PositionsConcat
    <3>2. QED
      BY <2>2, <3>1
  <2>4. QED
    BY <2>2, <2>3
<1>8. Delivered(n, p, pipe) = Positions(heard, p, pipe)
  <2>1. Delivered(n, p, pipe) = Positions(GotLines(process_queues[n]), p, pipe)
    BY DEF Delivered, GotLines
  <2>2. QED
    BY <1>2, <1>3, <2>1 DEF Hears
<1> HIDE DEF heard, unheard
<1>9. QED
  BY <1>5, <1>6, <1>7, <1>8 DEF p, unheard, Kept

\* Nothing of a child's output is missing between the pipe and a program that
\* registered the child's name before it spawned it: what the relay tasks of
\* server.rs have read is in the program's queue, on the socket, in the
\* channel of the writer task or in a buffer, each line once and in order.
THEOREM NothingIsMissing == SessionSpec => []NothingMissing
<1> DEFINE Inv == LinkInv /\ Intact /\ NamesAsked /\ HeardInv
<1>1. SessionInit => Inv
  BY InitLinkInv, InitNothing
<1>2. Inv /\ [SessionNext]_session_vars => Inv'
  BY LinkStep, NothingStep
<1>3. Inv => NothingMissing
  BY Collected
<1> HIDE DEF Inv
<1>4. QED
  BY <1>1, <1>2, <1>3, PTL DEF SessionSpec
=============================================================================
