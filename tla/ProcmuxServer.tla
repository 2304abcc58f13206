--------------------------- MODULE ProcmuxServer ---------------------------
(***************************************************************************)
(* The Rust procmux server (rs/src/server.rs): one task that accepts a     *)
(* client, executes its lines one at a time and forwards or buffers what   *)
(* the relay tasks read from the children, together with the relay tasks   *)
(* themselves.  The children, the clients, the signals and the operating   *)
(* system are the environment; their steps are at the end of the module.   *)
(*                                                                         *)
(* A definition named Bug... is the definition after it with a plausible   *)
(* mistake; no specification uses it.  Each property is checked to fail    *)
(* when one of them takes the place of the definition it precedes.         *)
(*                                                                         *)
(* A step of the server task is what it does between two awaits that can   *)
(* really wait: the select!s of run and handle_client (at = "select"), the *)
(* waits for a child in handle_relay and kill_process, and the write to a  *)
(* child's stdin.                                                          *)
(***************************************************************************)
EXTENDS Protocol, FiniteSets

CONSTANTS
  Conns, NoConn,  \* the connections clients open, each used once
  Asked,          \* the requests clients make in this instance
  LineKinds,      \* what children write on stdout in this instance
  MaxLines,       \* bound: lines a client sends on one connection
  MaxOut, MaxErr, \* bounds: lines a child writes on stdout and on stderr
  StdinCap,       \* lines a child's stdin pipe holds before a writer waits
  MaxSignals      \* bound: 1 if this instance has a SIGTERM or SIGINT, else 0

ASSUME ServerAssumption ==
  /\ NoConn \notin Conns
  /\ Asked \subseteq Requests
  /\ LineKinds \subseteq {"json", "text", "nonutf8"}
  /\ MaxLines \in Nat /\ MaxOut \in Nat /\ MaxErr \in Nat
  /\ StdinCap \in Nat \ {0} /\ MaxSignals \in {0, 1}

VARIABLES
  \* the server task
  at,         \* the await it is suspended at, or how it ended
  target,     \* the name whose child it waits for, NoName at a select!
  procs,      \* the table of managed processes
  relay_rx,   \* what relay tasks sent and the server has not finished with
  client_tx,  \* the connection being served, NoConn in the select! of run
  channel,    \* everything sent to that connection's writer task
  writer,     \* that writer task is alive and takes messages
  served,     \* commands taken from that connection
  sig,        \* "none", "pending" (notify_one done) or "taken" by run
  todo,       \* names shutdown has still to kill
  \* its environment
  backlog,    \* connections the listener has queued
  conn,       \* the clients' ends of the connections
  task,       \* the two relay tasks of each child
  child       \* the children, as the operating system sees them

session == <<client_tx, channel, writer, served>>
quit    == <<sig, todo>>
clients == <<backlog, conn>>
os      == <<task, child>>
vars    == <<at, target, procs, relay_rx, session, quit, clients, os>>

-----------------------------------------------------------------------------
(* The table of processes *)

Entry == [status : {"absent", "running", "exited"}, pid : Pids \union {NoPid},
          exit_code : Codes \union {NoCode}, buffer : Seq(Output),
          subscribed : BOOLEAN, idle : BOOLEAN]

\* What procs holds for a name that is not a key of the map.
Absent == [status |-> "absent", pid |-> NoPid, exit_code |-> NoCode,
           buffer |-> << >>, subscribed |-> FALSE, idle |-> FALSE]

\* idle() compares two clocks; both are set here, last_stdout_at last.
NewEntry(p) == [status |-> "running", pid |-> p, exit_code |-> NoCode,
                buffer |-> << >>, subscribed |-> FALSE, idle |-> TRUE]

Managed(n) == procs[n].status # "absent"
Running(n) == procs[n].status = "running"

BugUnsubscribed(ps) == ps

\* A closed or absent connection leaves no process subscribed.
Unsubscribed(ps) == [n \in Names |-> [ps[n] EXCEPT !.subscribed = FALSE]]

BugExited(e, code) == [e EXCEPT !.status = "exited"]

\* The entry once the wait for its child has returned or was given up.
Exited(e, code) == [e EXCEPT !.status = "exited", !.exit_code = code]

\* Sets the flag but leaves the replayed messages.
BugDrained(e) == [e EXCEPT !.subscribed = TRUE]

Drained(e) == [e EXCEPT !.buffer = << >>, !.subscribed = TRUE]

-----------------------------------------------------------------------------
(* Sending to the client: a message sent without a live writer is lost. *)

Sent(msgs) == IF writer THEN channel \o msgs ELSE channel

Answer(result) == channel' = Sent(<<result>>)

\* Forwards to whoever is connected; what is buffered is overtaken.
BugRelayToAll(ps, m) ==
  \/ ~Managed(m.name) /\ UNCHANGED <<procs, channel>>
  \/ Managed(m.name) /\ writer /\ procs' = ps /\ channel' = Append(channel, m)
  \/ /\ Managed(m.name) /\ ~writer
     /\ procs' = [ps EXCEPT ![m.name].buffer = Append(@, m)]
     /\ UNCHANGED channel

\* A message that cannot be sent is not put back into the buffer.
BugRelayDrops(ps, m) ==
  \/ ~Managed(m.name) /\ UNCHANGED <<procs, channel>>
  \/ Managed(m.name) /\ procs[m.name].subscribed /\ procs' = ps /\ channel' = Sent(<<m>>)
  \/ /\ Managed(m.name) /\ ~procs[m.name].subscribed
     /\ procs' = [ps EXCEPT ![m.name].buffer = Append(@, m)]
     /\ UNCHANGED channel

\* Forward m if its name is subscribed and the channel open, else buffer it;
\* ps is the table as the handler leaves it before it relays.
RelayOrBuffer(ps, m) ==
  \/ /\ ~Managed(m.name)
     /\ UNCHANGED <<procs, channel>>
  \/ /\ Managed(m.name) /\ procs[m.name].subscribed /\ writer
     /\ procs' = ps
     /\ channel' = Append(channel, m)
  \/ /\ Managed(m.name) /\ ~(procs[m.name].subscribed /\ writer)
     /\ procs' = [ps EXCEPT ![m.name].subscribed = FALSE, ![m.name].buffer = Append(@, m)]
     /\ UNCHANGED channel

-----------------------------------------------------------------------------
(* Clients come and go *)

\* The select! of run takes a connection; whatever it was before, no process
\* is subscribed and everything sent from now on goes to this connection.
Accept ==
  /\ at = "select" /\ client_tx = NoConn /\ backlog # << >>
  /\ client_tx' = Head(backlog) /\ backlog' = Tail(backlog)
  /\ channel' = << >> /\ writer' = TRUE /\ served' = 0
  /\ procs' = Unsubscribed(procs)
  /\ UNCHANGED <<at, target, relay_rx, quit, conn, os>>

\* Noticed only once a message could not be written.
BugReaderDone(c) == conn[c].state = "closed" /\ conn[c].unread = 0 /\ ~writer

\* The reader task is over and its lines are used up: the client closed, or
\* its next line is not text.  Lines behind that one are never read.
ReaderDone(c) ==
  \/ conn[c].state = "closed" /\ conn[c].unread = 0
  \/ conn[c].unread > 0 /\ "nonutf8" \in Asked

Disconnect ==
  /\ at = "select" /\ client_tx # NoConn /\ ReaderDone(client_tx)
  /\ client_tx' = NoConn
  /\ channel' = << >> /\ writer' = FALSE /\ served' = 0
  /\ procs' = Unsubscribed(procs)
  /\ conn' = [conn EXCEPT ![client_tx] = [state |-> "closed", unread |-> 0, sent |-> 0]]
  /\ UNCHANGED <<at, target, relay_rx, quit, backlog, os>>

\* The writer task meets the peer's closed end and drops its receiver.
WriterFails ==
  /\ writer /\ channel # << >> /\ conn[client_tx].state = "closed"
  /\ writer' = FALSE
  /\ UNCHANGED <<at, target, procs, relay_rx, client_tx, channel, served, quit, clients, os>>

-----------------------------------------------------------------------------
(* Commands: the select! of handle_client takes a line that reads as r. *)

TakeLine(r) ==
  /\ r \in Asked
  /\ at = "select" /\ client_tx # NoConn /\ conn[client_tx].unread > 0
  /\ conn' = [conn EXCEPT ![client_tx].unread = @ - 1]
  /\ UNCHANGED <<relay_rx, client_tx, writer, quit, backlog>>

TakeCommand(r) == TakeLine(r) /\ served' = served + 1

CmdSpawn(r, n) ==
  /\ TakeCommand(r)
  /\ UNCHANGED target
  /\ \/ /\ Running(n)                          \* already_running
        /\ Answer(ResultOk(served', r, n))
        /\ UNCHANGED <<at, procs, os>>
     \/ /\ ~Running(n) /\ r = "spawn"
        /\ \E p \in Pids :
             /\ child[p].state = "unborn"
             /\ child' = [child EXCEPT ![p].state = "running", ![p].name = n, ![p].open = TRUE]
             /\ task' = [task EXCEPT ![p].stdout = "reading", ![p].stderr = "reading"]
             /\ procs' = [procs EXCEPT ![n] = NewEntry(p)]
        /\ Answer(ResultOk(served', r, n))
        /\ UNCHANGED at
     \/ /\ ~Running(n) /\ r = "spawn_missing"  \* cmd.spawn() fails
        /\ procs' = [procs EXCEPT ![n] = Absent]
        /\ Answer(ResultErr(served', r, n))
        /\ UNCHANGED <<at, os>>
     \/ /\ ~Running(n) /\ r = "spawn_noargs"   \* cli_args[0] is out of bounds
        /\ procs' = [procs EXCEPT ![n] = Absent]
        /\ at' = "panicked"
        /\ UNCHANGED <<channel, os>>

\* kill_process signals a process only if it is believed running and its
\* child has not been reaped (child.id() and getpgid() succeed).
Signallable(n) == Running(n) /\ child[procs[n].pid].state # "reaped"

BugKillWithoutWait(n) ==
  /\ TakeCommand("kill")
  /\ procs' = [procs EXCEPT ![n] = Absent] /\ Answer(ResultOk(served', "kill", n))
  /\ UNCHANGED <<at, target, os>>

CmdKill(n) ==
  /\ TakeCommand("kill")
  /\ \/ /\ Signallable(n)                      \* SIGTERM sent
        /\ at' = "termwait" /\ target' = n
        /\ UNCHANGED <<procs, channel>>
     \/ /\ Managed(n) /\ ~Signallable(n)
        /\ procs' = [procs EXCEPT ![n] = Absent]
        /\ Answer(ResultOk(served', "kill", n))
        /\ UNCHANGED <<at, target>>
     \/ /\ ~Managed(n)
        /\ Answer(ResultErr(served', "kill", n))
        /\ UNCHANGED <<at, target, procs>>
  /\ UNCHANGED os

BugSilentInterrupt(n) ==
  /\ TakeCommand("interrupt")
  /\ \/ Signallable(n) /\ Answer(ResultOk(served', "interrupt", n))
     \/ ~Signallable(n) /\ UNCHANGED channel
  /\ UNCHANGED <<at, target, procs, os>>

\* Does not return after the error.
BugInterruptTwice(n) ==
  /\ TakeCommand("interrupt")
  /\ \/ Signallable(n) /\ Answer(ResultOk(served', "interrupt", n))
     \/ /\ ~Signallable(n)
        /\ channel' = Sent(<<ResultErr(served', "interrupt", n), ResultOk(served', "interrupt", n)>>)
  /\ UNCHANGED <<at, target, procs, os>>

\* SIGINT, like SIGTERM, may or may not make a child exit: see ChildExits.
CmdInterrupt(n) ==
  /\ TakeCommand("interrupt")
  /\ \/ Signallable(n) /\ Answer(ResultOk(served', "interrupt", n))
     \/ ~Signallable(n) /\ Answer(ResultErr(served', "interrupt", n))
  /\ UNCHANGED <<at, target, procs, os>>

BugReplay(n, result) == <<[result EXCEPT !.replayed = Len(procs[n].buffer)]>> \o procs[n].buffer

\* The buffered messages, then the answer that counts them.
Replay(n, result) ==
  Append(procs[n].buffer, [result EXCEPT !.replayed = Len(procs[n].buffer)])

CmdSubscribe(n) ==
  /\ TakeCommand("subscribe")
  /\ \/ /\ Managed(n)
        /\ procs' = [procs EXCEPT ![n] = Drained(procs[n])]
        /\ channel' = Sent(Replay(n, ResultOk(served', "subscribe", n)))
     \/ /\ ~Managed(n)
        /\ Answer(ResultErr(served', "subscribe", n))
        /\ UNCHANGED procs
  /\ UNCHANGED <<at, target, os>>

CmdUnsubscribe(n) ==
  /\ TakeCommand("unsubscribe")
  /\ \/ /\ Managed(n)
        /\ procs' = [procs EXCEPT ![n].subscribed = FALSE]
        /\ Answer(ResultOk(served', "unsubscribe", n))
     \/ /\ ~Managed(n)
        /\ Answer(ResultErr(served', "unsubscribe", n))
        /\ UNCHANGED procs
  /\ UNCHANGED <<at, target, os>>

CmdList ==
  /\ TakeCommand("list") /\ Answer(ResultOk(served', "list", NoName))
  /\ UNCHANGED <<at, target, procs, os>>

CmdStatus ==
  /\ TakeCommand("status") /\ Answer(ResultOk(served', "status", NoName))
  /\ UNCHANGED <<at, target, procs, os>>

CmdUnknown ==
  /\ TakeCommand("unknown") /\ Answer(ResultErr(served', "unknown", NoName))
  /\ UNCHANGED <<at, target, procs, os>>

\* Lines that are no message are logged, at most 200 bytes of them; cutting
\* the line inside a character panics.
InvalidLine ==
  /\ \/ TakeLine("garbage") /\ UNCHANGED at
     \/ TakeLine("garbage_split") /\ at' = "panicked"
  /\ UNCHANGED <<target, procs, channel, served, os>>

-----------------------------------------------------------------------------
(* handle_stdin: the server waits until the child's pipe takes the line. *)

HandleStdin(n) ==
  /\ TakeLine("stdin")
  /\ \/ Running(n) /\ at' = "stdin" /\ target' = n
     \/ ~Running(n) /\ UNCHANGED <<at, target>>
  /\ UNCHANGED <<procs, channel, served, os>>

StdinWritten ==
  LET p == procs[target].pid IN
  /\ at = "stdin" /\ child[p].stdin < StdinCap
  /\ child' = [child EXCEPT ![p].stdin = @ + 1]
  /\ procs' = [procs EXCEPT ![target].idle = FALSE]
  /\ at' = "select" /\ target' = NoName
  /\ UNCHANGED <<relay_rx, session, quit, clients, task>>

\* The child has closed its stdin or is dead: the write fails with EPIPE.
StdinFails ==
  /\ at = "stdin"
  /\ at' = "select" /\ target' = NoName
  /\ UNCHANGED <<procs, relay_rx, session, quit, clients, os>>

-----------------------------------------------------------------------------
(* handle_relay *)

\* Only the select! of handle_client takes relay messages.
BugHandleStdout ==
  /\ at = "select" /\ client_tx # NoConn
  /\ relay_rx # << >> /\ Head(relay_rx).kind = "stdout"
  /\ relay_rx' = Tail(relay_rx)
  /\ RelayOrBuffer(procs, Head(relay_rx))
  /\ UNCHANGED <<at, target, client_tx, writer, served, quit, clients, os>>

HandleStdout ==
  /\ at = "select" /\ relay_rx # << >> /\ Head(relay_rx).kind = "stdout"
  /\ relay_rx' = Tail(relay_rx)
  /\ LET m == Head(relay_rx) IN
       RelayOrBuffer([procs EXCEPT ![m.name].idle = TRUE], m)
  /\ UNCHANGED <<at, target, client_tx, writer, served, quit, clients, os>>

HandleStderr ==
  /\ at = "select" /\ relay_rx # << >> /\ Head(relay_rx).kind = "stderr"
  /\ relay_rx' = Tail(relay_rx)
  /\ RelayOrBuffer(procs, Head(relay_rx))
  /\ UNCHANGED <<at, target, client_tx, writer, served, quit, clients, os>>

\* Does not look whether the entry is still there.
BugHandleExit ==
  /\ at = "select" /\ relay_rx # << >> /\ Head(relay_rx).kind = "exit"
  /\ at' = "exitwait" /\ target' = Head(relay_rx).name
  /\ UNCHANGED <<procs, relay_rx, session, quit, clients, os>>

\* An Exit makes the server wait for the child of that NAME.  The message
\* stays at the head of relay_rx, which only the server reads, until then.
HandleExit ==
  /\ at = "select" /\ relay_rx # << >> /\ Head(relay_rx).kind = "exit"
  /\ LET n == Head(relay_rx).name IN
       \/ Managed(n) /\ at' = "exitwait" /\ target' = n /\ UNCHANGED relay_rx
       \/ ~Managed(n) /\ relay_rx' = Tail(relay_rx) /\ UNCHANGED <<at, target>>
  /\ UNCHANGED <<procs, session, quit, clients, os>>

\* Forwards the Exit but does not mark the entry.
BugFinishExit(code) ==
  /\ at = "exitwait"
  /\ relay_rx' = Tail(relay_rx)
  /\ RelayOrBuffer(procs, [Head(relay_rx) EXCEPT !.code = code])
  /\ at' = "select" /\ target' = NoName
  /\ UNCHANGED <<client_tx, writer, served, quit, clients, task>>

FinishExit(code) ==
  /\ at = "exitwait"
  /\ relay_rx' = Tail(relay_rx)
  /\ RelayOrBuffer([procs EXCEPT ![target] = Exited(procs[target], code)],
                   [Head(relay_rx) EXCEPT !.code = code])
  /\ at' = "select" /\ target' = NoName
  /\ UNCHANGED <<client_tx, writer, served, quit, clients, task>>

\* try_wait or wait returned: the child is reaped, if it was not already.
ExitReaped ==
  LET p == procs[target].pid IN
  /\ FinishExit(child[p].code)
  /\ child[p].state \in {"zombie", "reaped"}
  /\ child' = [child EXCEPT ![p].state = "reaped"]

\* Five seconds are over and the child is still alive.
ExitTimeout ==
  /\ FinishExit(NoCode)
  /\ child[procs[target].pid].state = "running"
  /\ UNCHANGED child

-----------------------------------------------------------------------------
(* kill_process, for cmd_kill or for shutdown *)

Abort(t) == IF t = "reading" THEN "aborting" ELSE t

Aborted(t) == [t EXCEPT !.stdout = Abort(t.stdout), !.stderr = Abort(t.stderr)]

\* wait returned, after SIGTERM or after SIGKILL; the caller goes on.
KillReaped ==
  LET p == procs[target].pid IN
  /\ at \in {"termwait", "killwait"} /\ child[p].state = "zombie"
  /\ child' = [child EXCEPT ![p].state = "reaped"]
  /\ task' = [task EXCEPT ![p] = Aborted(task[p])]
  /\ \/ /\ sig # "taken"
        /\ procs' = [procs EXCEPT ![target] = Absent]
        /\ Answer(ResultOk(served, "kill", target))
        /\ at' = "select"
        /\ UNCHANGED todo
     \/ /\ sig = "taken"
        /\ procs' = [procs EXCEPT ![target] = Exited(procs[target], child[p].code)]
        /\ todo' = todo \ {target}
        /\ at' = "shutdown"
        /\ UNCHANGED channel
  /\ target' = NoName
  /\ UNCHANGED <<relay_rx, client_tx, writer, served, sig, clients>>

\* No escalation to SIGKILL.
BugKillTimeout ==
  /\ at = "termwait" /\ child[procs[target].pid].state = "running"
  /\ at' = "killwait"
  /\ UNCHANGED <<target, procs, relay_rx, session, quit, clients, os>>

\* Five seconds after SIGTERM the child is still alive: SIGKILL.
KillTimeout ==
  LET p == procs[target].pid IN
  /\ at = "termwait" /\ child[p].state = "running"
  /\ child' = [child EXCEPT ![p].killed = TRUE]
  /\ at' = "killwait"
  /\ UNCHANGED <<target, procs, relay_rx, session, quit, clients, task>>

-----------------------------------------------------------------------------
(* Shutdown: only the select! of run listens for it, so never while a      *)
(* client is connected.                                                    *)

TakeShutdown ==
  /\ at = "select" /\ client_tx = NoConn /\ sig = "pending"
  /\ at' = "shutdown" /\ sig' = "taken"
  /\ todo' = {n \in Names : Managed(n)}
  /\ UNCHANGED <<target, procs, relay_rx, session, clients, os>>

\* Gives up at the first entry that has nothing to signal.
BugShutdownNext(n) ==
  /\ at = "shutdown" /\ n \in todo
  /\ \/ Signallable(n) /\ at' = "termwait" /\ target' = n /\ UNCHANGED todo
     \/ ~Signallable(n) /\ todo' = {} /\ UNCHANGED <<at, target>>
  /\ UNCHANGED <<procs, relay_rx, session, sig, clients, os>>

ShutdownNext(n) ==
  /\ at = "shutdown" /\ n \in todo
  /\ \/ Signallable(n) /\ at' = "termwait" /\ target' = n /\ UNCHANGED todo
     \/ ~Signallable(n) /\ todo' = todo \ {n} /\ UNCHANGED <<at, target>>
  /\ UNCHANGED <<procs, relay_rx, session, sig, clients, os>>

ShutdownDone ==
  /\ at = "shutdown" /\ todo = {}
  /\ at' = "stopped"
  /\ UNCHANGED <<target, procs, relay_rx, session, quit, clients, os>>

-----------------------------------------------------------------------------
(* The relay tasks.  task[p].out and .err count what they have sent.  An   *)
(* aborted task runs on until it next yields.  They die with the server.   *)

Alive == at \notin {"stopped", "panicked"}
Reads(state) == Alive /\ state \in {"reading", "aborting"}

Relay(m) == relay_rx' = Append(relay_rx, m)

RelayStdout(p) ==
  LET i == task[p].out + 1 IN
  /\ Reads(task[p].stdout) /\ task[p].out < child[p].out
  /\ \/ /\ "json" \in LineKinds
        /\ Relay(StdoutMsg(child[p].name, p, i))
        /\ task' = [task EXCEPT ![p].out = i]
     \/ /\ "text" \in LineKinds                  \* not JSON: relayed as stderr
        /\ Relay(StderrMsg(child[p].name, p, "stdout", i))
        /\ task' = [task EXCEPT ![p].out = i]
     \/ /\ "nonutf8" \in LineKinds               \* read error: no Exit follows
        /\ task' = [task EXCEPT ![p].stdout = "done"]
        /\ UNCHANGED relay_rx
  /\ UNCHANGED <<at, target, procs, session, quit, clients, child>>

RelayEof(p) ==
  LET i == task[p].out + 1 IN
  /\ Reads(task[p].stdout) /\ task[p].out = child[p].out /\ ~child[p].open
  /\ Relay(ExitMsg(child[p].name, p, i))
  /\ task' = [task EXCEPT ![p].out = i, ![p].stdout = "done"]
  /\ UNCHANGED <<at, target, procs, session, quit, clients, child>>

RelayStderr(p) ==
  LET i == task[p].err + 1 IN
  /\ Reads(task[p].stderr) /\ task[p].err < child[p].err
  /\ Relay(StderrMsg(child[p].name, p, "stderr", i))
  /\ task' = [task EXCEPT ![p].err = i]
  /\ UNCHANGED <<at, target, procs, session, quit, clients, child>>

AbortedTaskEnds(p) ==
  /\ Alive
  /\ \/ /\ task[p].stdout = "aborting"
        /\ task' = [task EXCEPT ![p].stdout = "done"]
     \/ /\ task[p].stderr = "aborting"
        /\ task' = [task EXCEPT ![p].stderr = "done"]
  /\ UNCHANGED <<at, target, procs, relay_rx, session, quit, clients, child>>

\* The runtime reaps the child of an entry that was dropped without a wait.
OrphanReaped(p) ==
  /\ Alive /\ child[p].state = "zombie" /\ \A n \in Names : procs[n].pid # p
  /\ child' = [child EXCEPT ![p].state = "reaped"]
  /\ UNCHANGED <<at, target, procs, relay_rx, session, quit, clients, task>>

-----------------------------------------------------------------------------
(* The children.  What a child leaves behind may keep its stdout open and  *)
(* write to it after the child is dead; a child may close it while alive.  *)

Unchanged == UNCHANGED <<at, target, procs, relay_rx, session, quit, clients, task>>

ChildWrites(p) ==
  /\ child[p].state # "unborn" /\ child[p].open /\ child[p].out < MaxOut
  /\ child' = [child EXCEPT ![p].out = @ + 1]
  /\ Unchanged

ChildWritesErr(p) ==
  /\ child[p].state # "unborn" /\ child[p].err < MaxErr
  /\ child' = [child EXCEPT ![p].err = @ + 1]
  /\ Unchanged

ChildReads(p) ==
  /\ child[p].state = "running" /\ child[p].stdin > 0
  /\ child' = [child EXCEPT ![p].stdin = @ - 1]
  /\ Unchanged

ChildClosesStdout(p) ==
  /\ child[p].state # "unborn" /\ child[p].open
  /\ child' = [child EXCEPT ![p].open = FALSE]
  /\ Unchanged

\* With a code of its own or, NoCode, by a signal.
ChildExits(p) ==
  /\ child[p].state = "running"
  /\ \E code \in Codes \union {NoCode} :
       child' = [child EXCEPT ![p].state = "zombie", ![p].code = code]
  /\ Unchanged

\* Nothing survives SIGKILL.
KilledDies(p) ==
  /\ child[p].state = "running" /\ child[p].killed
  /\ child' = [child EXCEPT ![p].state = "zombie"]
  /\ Unchanged

-----------------------------------------------------------------------------
(* The clients and the operator *)

ClientConnects(c) ==
  /\ Alive /\ conn[c].state = "new"
  /\ conn' = [conn EXCEPT ![c].state = "open"]
  /\ backlog' = Append(backlog, c)
  /\ UNCHANGED <<at, target, procs, relay_rx, session, quit, os>>

ClientSends(c) ==
  /\ conn[c].state = "open" /\ conn[c].sent < MaxLines
  /\ conn' = [conn EXCEPT ![c].unread = @ + 1, ![c].sent = @ + 1]
  /\ UNCHANGED <<at, target, procs, relay_rx, session, quit, backlog, os>>

ClientCloses(c) ==
  /\ conn[c].state = "open"
  /\ conn' = [conn EXCEPT ![c].state = "closed"]
  /\ UNCHANGED <<at, target, procs, relay_rx, session, quit, backlog, os>>

\* SIGTERM or SIGINT; the signal task ends after the first.
Signal ==
  /\ Alive /\ sig = "none" /\ MaxSignals = 1
  /\ sig' = "pending"
  /\ UNCHANGED <<at, target, procs, relay_rx, session, todo, clients, os>>

\* A server that has stopped, or waits for input or for a child to read its
\* stdin, may do so for ever; anywhere else it must have a next step.
Rests == at \in {"select", "stdin", "stopped", "panicked"} /\ UNCHANGED vars

-----------------------------------------------------------------------------
Init ==
  /\ at = "select" /\ target = NoName
  /\ procs = [n \in Names |-> Absent]
  /\ relay_rx = << >>
  /\ client_tx = NoConn /\ channel = << >> /\ writer = FALSE /\ served = 0
  /\ sig = "none" /\ todo = {}
  /\ backlog = << >>
  /\ conn = [c \in Conns |-> [state |-> "new", unread |-> 0, sent |-> 0]]
  /\ task = [p \in Pids |-> [stdout |-> "none", stderr |-> "none", out |-> 0, err |-> 0]]
  /\ child = [p \in Pids |-> [state |-> "unborn", name |-> NoName, code |-> NoCode,
                              out |-> 0, err |-> 0, open |-> FALSE, stdin |-> 0,
                              killed |-> FALSE]]

HandleClientLine ==
  \/ \E n \in Names :
       \/ \E r \in SpawnRequests : CmdSpawn(r, n)
       \/ CmdKill(n) \/ CmdInterrupt(n) \/ CmdSubscribe(n) \/ CmdUnsubscribe(n)
       \/ HandleStdin(n)
  \/ CmdList \/ CmdStatus \/ CmdUnknown \/ InvalidLine

HandleRelay == HandleStdout \/ HandleStderr \/ HandleExit

\* What ends a wait of the server task.
WaitEnds ==
  \/ ExitReaped \/ ExitTimeout \/ KillReaped \/ KillTimeout
  \/ StdinWritten \/ StdinFails

Shutdown == ShutdownDone \/ \E n \in Names : ShutdownNext(n)

Server ==
  Accept \/ Disconnect \/ HandleClientLine \/ HandleRelay \/ WaitEnds
    \/ TakeShutdown \/ Shutdown

Tasks ==
  \/ WriterFails
  \/ \E p \in Pids : RelayStdout(p) \/ RelayEof(p) \/ RelayStderr(p)
                       \/ AbortedTaskEnds(p) \/ OrphanReaped(p)

Environment ==
  \/ \E p \in Pids : ChildWrites(p) \/ ChildWritesErr(p) \/ ChildReads(p)
                       \/ ChildClosesStdout(p) \/ ChildExits(p) \/ KilledDies(p)
  \/ \E c \in Conns : ClientConnects(c) \/ ClientSends(c) \/ ClientCloses(c)
  \/ Signal

Next == Server \/ Tasks \/ Environment \/ Rests

Spec == Init /\ [][Next]_vars
=============================================================================
