------------------------------ MODULE PyServer ------------------------------
(***************************************************************************)
(* The Python procmux server (py/procmux/server.py).  Unlike the Rust one  *)
(* it runs a handler for each connection, a relay task for each child and  *)
(* the shutdown as tasks of one event loop, which interleave at awaits.    *)
(*                                                                         *)
(* A step is what a task does between two awaits that can really wait.     *)
(* _client_lock is never held across one, so taking it never waits; the    *)
(* drain after a single message is taken not to wait.  The stderr relay,   *)
(* which does as the stdout relay but reports no exit, stdin messages,     *)
(* which only make their handler wait, the stdio logs and idle are left    *)
(* out.                                                                    *)
(*                                                                         *)
(* A definition named Bug... is the definition after it with a plausible   *)
(* mistake; no specification uses it.                                      *)
(***************************************************************************)
EXTENDS Integers, Sequences, FiniteSets, Functions

CONSTANTS
  Names,           \* the names clients give to processes
  Pids, NoPid,     \* the children the operating system can create, each once
  Conns, NoConn,   \* the connections clients open, each used once
  Asked,           \* the requests clients make in this instance
  MaxLines,        \* bound: lines received on all connections together
  MaxOut,          \* bound: lines a child writes
  MaxSignals       \* bound: 1 if this instance has a SIGTERM, else 0

Main == "main"     \* the task of start(), which runs _shutdown

\* "status" stands for all that only answer: interrupt, list, unknown commands.
ASSUME PyAssumption ==
  /\ NoPid \notin Pids /\ NoConn \notin Conns /\ Main \notin Conns
  /\ Asked \subseteq {"spawn", "kill", "subscribe", "unsubscribe", "status"}
  /\ MaxLines \in Nat /\ MaxOut \in Nat /\ MaxSignals \in {0, 1}

VARIABLES
  procs,          \* _procs: the child managed under each name
  mp,             \* the ManagedProcess of each child
  relay,          \* its stdout relay task, and how many messages it has taken
  client_writer,  \* _client_writer
  handler,        \* where the task of each connection, and Main, stand
  todo,           \* children _shutdown has still to kill
  \* the streams of the connections
  taken,          \* commands each handler has taken
  dropped,        \* those whose writer the server has closed
  broken,         \* those a send failed on: their readers raise
  sent,           \* what was written to each, as long as its client is there
  \* the environment
  conn,           \* the clients' ends, and the lines the server received of them
  child,          \* the children, as the operating system sees them
  \* history
  overlapped      \* a connection was accepted while the handler of another ran

tasks   == <<procs, mp, relay, client_writer, handler, todo>>
streams == <<taken, dropped, broken, sent>>
vars    == <<tasks, streams, conn, child, overlapped>>

-----------------------------------------------------------------------------
(* Messages.  asker and no say which command a result answers; from and    *)
(* seq which line of which child is relayed.  They are not on the wire.    *)

Out(p, i)    == [kind |-> "stdout", from |-> p, seq |-> i]
Exit(p, i)   == [kind |-> "exit", from |-> p, seq |-> i]
Result(c, i) == [kind |-> "result", asker |-> c, no |-> i]

(* The table *)

Managed(n) == procs[n] # NoPid
Running(n) == Managed(n) /\ mp[procs[n]].status = "running"

Process(state) == [status |-> state, buffer |-> << >>, subscribed |-> FALSE]

BugUnsubscribed(ps) == ps

\* Every process of the table as the caller leaves it, and no other, is
\* unsubscribed.
Unsubscribed(ps) ==
  [p \in Pids |-> [ps[p] EXCEPT !.subscribed = @ /\ \A n \in Names : procs'[n] # p]]

\* t waits for child p, started as n, or for writer w to drain.
Waits(t, state, n, p, w) ==
  handler' = [handler EXCEPT ![t] = [at |-> state, name |-> n, pid |-> p, writer |-> w]]

Goes(t, state) == Waits(t, state, Main, NoPid, NoConn)

-----------------------------------------------------------------------------
(* _send_to_client.  ps is the ManagedProcesses as the caller leaves them. *)

\* A send to w is noticed to fail: if w is still the writer, it is reset and
\* its processes are unsubscribed.
SendFails(w, ps) ==
  /\ broken' = broken \union {w}
  /\ client_writer' = IF client_writer = w THEN NoConn ELSE client_writer
  /\ mp' = IF client_writer = w THEN Unsubscribed(ps) ELSE ps
  /\ UNCHANGED sent

\* Without a writer the messages are gone.  Once the client has closed a
\* send fails, or is not noticed and the messages are gone as well.
SendToClient(msgs, ps) ==
  \/ /\ client_writer # NoConn => conn[client_writer].state = "closed"
     /\ mp' = ps /\ UNCHANGED <<client_writer, broken, sent>>
  \/ /\ client_writer # NoConn /\ conn[client_writer].state = "closed"
     /\ SendFails(client_writer, ps)
  \/ /\ client_writer # NoConn /\ conn[client_writer].state = "open"
     /\ mp' = ps /\ sent' = [sent EXCEPT ![client_writer] = @ \o msgs]
     /\ UNCHANGED <<client_writer, broken>>

Answer(c, ps) == SendToClient(<<Result(c, taken'[c])>>, ps)

-----------------------------------------------------------------------------
(* Connections *)

\* The new connection takes over and closes the old writer; that it then
\* waits for wait_closed is not told from not having read a line yet.
HandleClient(c) ==
  /\ conn[c].state = "new" /\ UNCHANGED procs
  /\ conn' = [conn EXCEPT ![c].state = "open"]
  /\ client_writer' = c /\ mp' = Unsubscribed(mp)
  /\ dropped' = dropped \union ({client_writer} \ {NoConn})
  /\ Goes(c, "reading")
  /\ overlapped' = (overlapped \/ \E d \in Conns : handler[d].at \notin {"new", "done"})
  /\ UNCHANGED <<relay, todo, taken, broken, sent, child>>

\* What had been received is still read after the writer was closed, but not
\* after a send has failed.
AtEnd(c) ==
  c \in broken \/ (conn[c].unread = 0 /\ (conn[c].state = "closed" \/ c \in dropped))

\* A line over the limit, for which readline raises ValueError, or a stdin
\* message whose logger cannot be opened: the exception ends the handler, and
\* its client may still be there.
Raises(c) == c \notin broken /\ conn[c].unread > 0

\* Without the test that the writer is its own.
BugHandlerEnds(c) ==
  /\ handler[c].at = "reading" /\ (AtEnd(c) \/ Raises(c)) /\ Goes(c, "done")
  /\ UNCHANGED <<procs, relay, todo, streams, conn, child, overlapped>>
  /\ client_writer' = NoConn /\ mp' = Unsubscribed(mp)

HandlerEnds(c) ==
  /\ handler[c].at = "reading" /\ (AtEnd(c) \/ Raises(c)) /\ Goes(c, "done")
  /\ UNCHANGED <<procs, relay, todo, streams, conn, child, overlapped>>
  /\ \/ client_writer = c /\ client_writer' = NoConn /\ mp' = Unsubscribed(mp)
     \/ client_writer # c /\ UNCHANGED <<client_writer, mp>>

-----------------------------------------------------------------------------
(* Commands: the handler of c takes a line that reads as r. *)

TakeCommand(c, r) ==
  /\ r \in Asked /\ handler[c].at = "reading"
  /\ c \notin broken /\ conn[c].unread > 0
  /\ conn' = [conn EXCEPT ![c].unread = @ - 1]
  /\ taken' = [taken EXCEPT ![c] = @ + 1]
  /\ UNCHANGED <<relay, todo, dropped, overlapped>>

\* The old entry is popped and the child is forked; the entry comes later.
CmdSpawn(c, n) ==
  \/ /\ TakeCommand(c, "spawn") /\ Running(n)
     /\ UNCHANGED <<procs, handler, child>> /\ Answer(c, mp)
  \/ /\ TakeCommand(c, "spawn") /\ ~Running(n)
     /\ procs' = [procs EXCEPT ![n] = NoPid]
     /\ \E p \in Pids :
          /\ child[p].state = "unborn"
          /\ child' = [child EXCEPT ![p] = [@ EXCEPT !.state = "running", !.name = n, !.open = TRUE]]
          /\ Waits(c, "spawning", n, p, NoConn)
     /\ UNCHANGED <<mp, client_writer, broken, sent>>
  \/ /\ TakeCommand(c, "spawn") /\ ~Running(n)     \* create_subprocess_exec raises
     /\ procs' = [procs EXCEPT ![n] = NoPid]
     /\ Answer(c, mp) /\ UNCHANGED <<handler, child>>

\* create_subprocess_exec returns; whatever has got the name meanwhile is
\* overwritten.
Spawned(c) ==
  LET n == handler[c].name  p == handler[c].pid IN
  /\ handler[c].at = "spawning" /\ Goes(c, "reading")
  /\ procs' = [procs EXCEPT ![n] = p]
  /\ relay' = [relay EXCEPT ![p].at = "reading"]
  /\ UNCHANGED taken /\ Answer(c, [mp EXCEPT ![p] = Process("running")])
  /\ UNCHANGED <<todo, dropped, conn, child, overlapped>>

\* A process that is not there, or has exited, gets no answer.
BugSilentKill(c, n) ==
  /\ TakeCommand(c, "kill") /\ UNCHANGED child
  /\ \/ /\ Running(n)
        /\ Waits(c, "termwait", n, procs[n], NoConn)
        /\ UNCHANGED <<procs, mp, client_writer, broken, sent>>
     \/ /\ ~Running(n)
        /\ procs' = [procs EXCEPT ![n] = NoPid]
        /\ UNCHANGED <<mp, client_writer, broken, sent, handler>>

\* The entry is popped before the wait.
BugKillPops(c, n) ==
  /\ TakeCommand(c, "kill") /\ UNCHANGED child
  /\ procs' = [procs EXCEPT ![n] = NoPid]
  /\ \/ /\ Running(n)
        /\ Waits(c, "termwait", n, procs[n], NoConn)
        /\ UNCHANGED <<mp, client_writer, broken, sent>>
     \/ ~Running(n) /\ Answer(c, mp) /\ UNCHANGED handler

CmdKill(c, n) ==
  /\ TakeCommand(c, "kill") /\ UNCHANGED child
  /\ \/ /\ Running(n)                             \* SIGTERM
        /\ Waits(c, "termwait", n, procs[n], NoConn)
        /\ UNCHANGED <<procs, mp, client_writer, broken, sent>>
     \/ /\ ~Running(n)                            \* exited already, or not found
        /\ procs' = [procs EXCEPT ![n] = NoPid]
        /\ Answer(c, mp) /\ UNCHANGED handler

\* The buffer is not cleared.
BugSubscribed(n) == [mp EXCEPT ![procs[n]].subscribed = TRUE]

Subscribed(n) ==
  [mp EXCEPT ![procs[n]] = [@ EXCEPT !.buffer = << >>, !.subscribed = TRUE]]

\* Replays to whoever is the writer, who need not be the one that asks.
CmdSubscribe(c, n) ==
  /\ TakeCommand(c, "subscribe") /\ UNCHANGED <<procs, child>>
  /\ \/ ~Managed(n) /\ Answer(c, mp) /\ UNCHANGED handler
     \/ /\ Managed(n) /\ UNCHANGED handler        \* the drain need not wait
        /\ SendToClient(Append(mp[procs[n]].buffer, Result(c, taken'[c])), Subscribed(n))
     \/ /\ Managed(n) /\ client_writer # NoConn   \* the drain waits
        /\ conn[client_writer].state = "open"
        /\ Waits(c, "draining", n, procs[n], client_writer)
        /\ SendToClient(mp[procs[n]].buffer, Subscribed(n))

\* The drain returns, and the answer goes to the writer there is now; or it
\* fails, and there is no answer.
Drained(c) ==
  LET w == handler[c].writer IN
  /\ handler[c].at = "draining" /\ Goes(c, "reading")
  /\ UNCHANGED <<procs, relay, todo, taken, dropped, conn, child, overlapped>>
  /\ \/ w \notin broken /\ Answer(c, mp)
     \/ w \in dropped \union broken /\ UNCHANGED <<mp, client_writer, broken, sent>>
     \/ conn[w].state = "closed" /\ SendFails(w, mp)

\* The buffer goes with the subscription.
BugCmdUnsubscribe(c, n) ==
  /\ TakeCommand(c, "unsubscribe") /\ UNCHANGED <<procs, handler, child>>
  /\ Answer(c, IF Managed(n) THEN [mp EXCEPT ![procs[n]] = Process(@.status)] ELSE mp)

CmdUnsubscribe(c, n) ==
  /\ TakeCommand(c, "unsubscribe") /\ UNCHANGED <<procs, handler, child>>
  /\ Answer(c, IF Managed(n) THEN [mp EXCEPT ![procs[n]].subscribed = FALSE] ELSE mp)

CmdStatus(c) ==
  /\ TakeCommand(c, "status") /\ UNCHANGED <<procs, handler, child>> /\ Answer(c, mp)

-----------------------------------------------------------------------------
(* _kill_process, in the handler of a connection or in Main *)

\* wait returns.  The relay is cancelled; a handler then pops whatever has
\* the name by now.
KillReaped(t) ==
  LET p == handler[t].pid
      exited == [mp EXCEPT ![p].status = "exited"] IN
  /\ handler[t].at = "termwait" /\ child[p].state = "dead"
  /\ relay' = [relay EXCEPT ![p].at = "done"]
  /\ \/ /\ t \in Conns /\ Goes(t, "reading")
        /\ procs' = [procs EXCEPT ![handler[t].name] = NoPid]
        /\ UNCHANGED taken /\ Answer(t, exited)
     \/ /\ t = Main /\ Goes(t, "killing")
        /\ mp' = exited
        /\ UNCHANGED <<procs, taken, client_writer, broken, sent>>
  /\ UNCHANGED <<todo, dropped, conn, child, overlapped>>

\* Five seconds after SIGTERM: SIGKILL, which nothing survives.
KillTimeout(t) ==
  /\ handler[t].at = "termwait" /\ child[handler[t].pid].state = "running"
  /\ child' = [child EXCEPT ![handler[t].pid].state = "dead"]
  /\ UNCHANGED <<tasks, streams, conn, overlapped>>

-----------------------------------------------------------------------------
(* _shutdown *)

\* The first signal sets the event Main waits for.  The list of processes is
\* taken once.
Shutdown ==
  /\ handler[Main].at = "serving" /\ MaxSignals = 1 /\ Goes(Main, "killing")
  /\ todo' = {p \in Pids : \E n \in Names : procs[n] = p}
  /\ UNCHANGED <<procs, mp, relay, client_writer, streams, conn, child, overlapped>>

ShutdownNext(p) ==
  /\ handler[Main].at = "killing" /\ p \in todo /\ todo' = todo \ {p}
  /\ \/ mp[p].status = "running" /\ Waits(Main, "termwait", child[p].name, p, NoConn)
     \/ mp[p].status # "running" /\ UNCHANGED handler
  /\ UNCHANGED <<procs, mp, relay, client_writer, streams, conn, child, overlapped>>

\* The client's writer is closed and reset; subscriptions stay.  Main then
\* waits, 1 s and 3 s at most, while relays and handlers go on, also one whose
\* connection was accepted just before.  The process can end anywhere in a
\* behaviour that goes on; nothing is said of after.
ShutdownCloses ==
  /\ handler[Main].at = "killing" /\ todo = {} /\ Goes(Main, "closing")
  /\ client_writer' = NoConn
  /\ dropped' = dropped \union ({client_writer} \ {NoConn})
  /\ UNCHANGED <<procs, mp, relay, todo, taken, broken, sent, conn, child, overlapped>>

-----------------------------------------------------------------------------
(* _relay_stdout.  The task has its ManagedProcess, whatever the table says. *)

RelayOrBuffer(p, m, ps) ==
  \/ mp[p].subscribed /\ SendToClient(<<m>>, ps)
  \/ /\ ~mp[p].subscribed /\ mp' = [ps EXCEPT ![p].buffer = Append(@, m)]
     /\ UNCHANGED <<client_writer, broken, sent>>

RelayStands ==
  UNCHANGED <<procs, handler, todo, taken, dropped, conn, child, overlapped>>

RelayStdout(p) ==
  /\ relay[p].at = "reading" /\ relay[p].taken < child[p].out
  /\ relay' = [relay EXCEPT ![p].taken = @ + 1]
  /\ RelayStands /\ RelayOrBuffer(p, Out(p, relay'[p].taken), mp)

\* End of file, and then the child is dead or 10 s have passed.
RelayExit(p) ==
  /\ relay[p].at = "reading" /\ relay[p].taken = child[p].out /\ ~child[p].open
  /\ relay' = [relay EXCEPT ![p] = [at |-> "done", taken |-> @.taken + 1]]
  /\ RelayStands
  /\ RelayOrBuffer(p, Exit(p, relay'[p].taken), [mp EXCEPT ![p].status = "exited"])

\* The next line is too long or is not text: the task ends without an exit,
\* and the process stays running for the server.
RelayFails(p) ==
  /\ relay[p].at = "reading" /\ relay[p].taken < child[p].out
  /\ relay' = [relay EXCEPT ![p].at = "done"]
  /\ RelayStands /\ UNCHANGED <<mp, client_writer, broken, sent>>

-----------------------------------------------------------------------------
(* The clients, the operator and the children *)

\* What the event loop has received of it.
ClientSends(c) ==
  /\ conn[c].state = "open" /\ c \notin dropped
  /\ SumFunction([d \in Conns |-> conn[d].received]) < MaxLines
  /\ conn' = [conn EXCEPT ![c].received = @ + 1, ![c].unread = @ + 1]
  /\ UNCHANGED <<tasks, streams, child, overlapped>>

\* What it was sent is of no further interest.
ClientCloses(c) ==
  /\ conn[c].state = "open"
  /\ conn' = [conn EXCEPT ![c].state = "closed"]
  /\ sent' = [sent EXCEPT ![c] = << >>]
  /\ UNCHANGED <<tasks, taken, dropped, broken, child, overlapped>>

ChildWrites(p) ==
  /\ child[p].open /\ child[p].out < MaxOut
  /\ child' = [child EXCEPT ![p].out = @ + 1]
  /\ UNCHANGED <<tasks, streams, conn, overlapped>>

\* Not all at once: something it has started may hold its stdout.
ChildCloses(p) ==
  /\ child[p].open /\ child' = [child EXCEPT ![p].open = FALSE]
  /\ UNCHANGED <<tasks, streams, conn, overlapped>>

ChildExits(p) ==
  /\ child[p].state = "running" /\ child' = [child EXCEPT ![p].state = "dead"]
  /\ UNCHANGED <<tasks, streams, conn, overlapped>>

-----------------------------------------------------------------------------
Init ==
  /\ procs = [n \in Names |-> NoPid]
  /\ mp = [p \in Pids |-> Process("none")]
  /\ relay = [p \in Pids |-> [at |-> "none", taken |-> 0]]
  /\ client_writer = NoConn
  /\ handler = [t \in Conns \union {Main} |->
       [at |-> IF t = Main THEN "serving" ELSE "new", name |-> Main, pid |-> NoPid, writer |-> NoConn]]
  /\ todo = {}
  /\ taken = [c \in Conns |-> 0] /\ dropped = {} /\ broken = {}
  /\ sent = [c \in Conns |-> << >>]
  /\ conn = [c \in Conns |-> [state |-> "new", received |-> 0, unread |-> 0]]
  /\ child = [p \in Pids |->
       [state |-> "unborn", name |-> Main, open |-> FALSE, out |-> 0]]
  /\ overlapped = FALSE

Command(c) ==
  \/ \E n \in Names : CmdSpawn(c, n) \/ CmdKill(c, n) \/ CmdSubscribe(c, n)
                        \/ CmdUnsubscribe(c, n)
  \/ CmdStatus(c)

Handler(c) == Command(c) \/ HandlerEnds(c) \/ Spawned(c) \/ Drained(c)

Killing(t) == KillReaped(t) \/ KillTimeout(t)

Relay(p) == RelayStdout(p) \/ RelayExit(p) \/ RelayFails(p)

Stopping == Shutdown \/ ShutdownCloses \/ Killing(Main) \/ \E p \in Pids : ShutdownNext(p)

Environment ==
  \/ \E c \in Conns : HandleClient(c) \/ ClientSends(c) \/ ClientCloses(c)
  \/ \E p \in Pids : ChildWrites(p) \/ ChildCloses(p) \/ ChildExits(p)

\* A server that waits for clients may do so for ever, and one that has closed
\* has nothing more to do.
Rests == handler[Main].at \in {"serving", "closing"} /\ UNCHANGED vars

Next ==
  \/ \E c \in Conns : Handler(c) \/ Killing(c)
  \/ \E p \in Pids : Relay(p)
  \/ Stopping \/ Environment \/ Rests

Spec == Init /\ [][Next]_vars
=============================================================================
