---------------------- MODULE ProcmuxServerProperties ----------------------
(***************************************************************************)
(* What the Rust server promises, what its documentation promises beyond   *)
(* that, and the fairness under which it makes progress.                   *)
(***************************************************************************)
EXTENDS ProcmuxServer

ControlOK ==
  /\ at \in {"select", "exitwait", "termwait", "killwait", "stdin", "shutdown",
             "stopped", "panicked"}
  /\ target \in Names \union {NoName}
  /\ client_tx \in Conns \union {NoConn} /\ writer \in BOOLEAN /\ served \in Nat
  /\ sig \in {"none", "pending", "taken"} /\ todo \in SUBSET Names
  /\ writer => client_tx # NoConn

TableOK ==
  /\ procs \in [Names -> Entry]
  /\ \A n \in Names : procs[n].pid = NoPid <=> ~Managed(n)

MessagesOK ==
  /\ relay_rx \in Seq(Output) /\ channel \in Seq(Message)
  /\ client_tx = NoConn => channel = << >>

ClientsOK ==
  /\ backlog \in Seq(Conns)
  /\ conn \in [Conns -> [state : {"new", "open", "closed"}, unread : Nat, sent : Nat]]

TaskStates == {"none", "reading", "aborting", "done"}

TaskRec == [stdout : TaskStates, stderr : TaskStates, out : Nat, err : Nat]

ChildRec == [state : {"unborn", "running", "zombie", "reaped"},
             name : Names \union {NoName}, code : Codes \union {NoCode},
             out : Nat, err : Nat, open : BOOLEAN, stdin : Nat, killed : BOOLEAN]

OsOK == task \in [Pids -> TaskRec] /\ child \in [Pids -> ChildRec]

\* The server waits for the child of an entry that is there and, but for an
\* exit wait, believed running; a wait for an exit has its Exit at hand.
WaitOK ==
  /\ (target # NoName) <=> at \in {"exitwait", "termwait", "killwait", "stdin"}
  /\ at = "exitwait" => /\ Managed(target) /\ relay_rx # << >>
                        /\ Head(relay_rx).kind = "exit" /\ Head(relay_rx).name = target
  /\ at \in {"termwait", "killwait", "stdin"} => Running(target)

(***************************************************************************)
(* Types, and how the server's variables depend on each other: a writer    *)
(* only with a client, and a wait only for an entry that is still in the   *)
(* table when the wait is over (handlers keep a borrow of it meanwhile).   *)
(***************************************************************************)
TypeOK == ControlOK /\ TableOK /\ MessagesOK /\ ClientsOK /\ OsOK /\ WaitOK

-----------------------------------------------------------------------------
(* Safety *)

(***************************************************************************)
(* A subscribed process has a client to forward to and nothing left in its *)
(* buffer: relay_or_buffer could otherwise overtake buffered messages, or  *)
(* a new client would receive output it never subscribed to.               *)
(***************************************************************************)
SubscribedIsDrained ==
  \A n \in Names : procs[n].subscribed => client_tx # NoConn /\ procs[n].buffer = << >>

\* a was read before b, if both were read from one pipe.
Before(a, b) ==
  (a.kind # "result" /\ b.kind # "result" /\ a.from = b.from /\ a.pipe = b.pipe)
    => a.seq < b.seq

Sorted(s) == \A i, j \in DOMAIN s : i < j => Before(s[i], s[j])

Precedes(s, t) == \A i \in DOMAIN s, j \in DOMAIN t : Before(s[i], t[j])

(***************************************************************************)
(* Whatever a child wrote on a pipe reaches the client in the order it was *)
(* written, at most once, and its Exit after all of its stdout, across     *)
(* buffering, replay, unsubscribing and the death of the writer task.      *)
(***************************************************************************)
InOrder ==
  /\ Sorted(channel) /\ Sorted(relay_rx) /\ Precedes(channel, relay_rx)
  /\ \A n \in Names : /\ Sorted(procs[n].buffer)
                      /\ Precedes(channel, procs[n].buffer)
                      /\ Precedes(procs[n].buffer, relay_rx)

\* The relayed line m is in s; an Exit may have got its code meanwhile.
Holds(s, m) ==
  \E i \in DOMAIN s : /\ s[i].kind # "result" /\ s[i].from = m.from
                       /\ s[i].pipe = m.pipe /\ s[i].seq = m.seq

(***************************************************************************)
(* Nothing a relay task took from the child of an entry is lost while the  *)
(* entry keeps the child: whoever connects, leaves, subscribes or stops,   *)
(* what is queued or buffered stays so until it is sent to a live writer.  *)
(* The one loss in the code is allowed for: a subscribe empties the buffer *)
(* into a channel whose writer task is already dead.                       *)
(***************************************************************************)
NothingIsLost ==
  [][\A n \in Names : Managed(n) /\ procs'[n].pid = procs[n].pid =>
       LET pending == procs[n].buffer \o relay_rx IN
       \A i \in DOMAIN pending : pending[i].from = procs[n].pid =>
         \/ Holds(procs'[n].buffer \o relay_rx', pending[i])
         \/ writer /\ Holds(channel', pending[i])
         \/ ~writer /\ procs'[n].subscribed /\ Holds(procs[n].buffer, pending[i])]_vars

ReadFrom(m, p, pipe) == m.kind # "result" /\ m.from = p /\ m.pipe = pipe

\* The positions of the messages in s that were read from one pipe of p.
Positions(s, p, pipe) ==
  LET upto[i \in 0 .. Len(s)] ==
        IF i = 0 THEN << >>
        ELSE IF ReadFrom(s[i], p, pipe) THEN Append(upto[i - 1], s[i].seq) ELSE upto[i - 1]
  IN upto[Len(s)]

\* What the server has of the output of p: what is buffered under its name,
\* then what relay tasks have sent.
Pending(p) ==
  (IF child[p].name = NoName THEN << >> ELSE procs[child[p].name].buffer) \o relay_rx

Stream(p, pipe) == INSTANCE OutputStream WITH
  taken  <- IF pipe = "stdout" THEN task[p].out ELSE task[p].err,
  kept   <- Positions(Pending(p), p, pipe),
  sent   <- Positions(channel, p, pipe),
  held   <- \E n \in Names : procs[n].pid = p,
  client <- writer

(***************************************************************************)
(* The table, the buffers, the relay queue, the subscriptions and the      *)
(* channel together are, for each pipe of each child, one queue from which *)
(* clients are served: see OutputStream for what may be lost.              *)
(***************************************************************************)
PipesAreStreams ==
  /\ \A p \in Pids, pipe \in Pipes : Stream(p, pipe)!Init
  /\ [][\A p \in Pids, pipe \in Pipes :
           [Stream(p, pipe)!Next]_(Stream(p, pipe)!stream)]_vars

IsReplay(m) == m.kind = "result" /\ m.cmd = "subscribe" /\ m.ok

(***************************************************************************)
(* The replayed messages directly precede the answer to subscribe that     *)
(* counts them (cmd_subscribe, "buffered messages replay synchronously"),  *)
(* and on its connection a client sees output of a name only from the      *)
(* replay of its first successful subscribe on.                            *)
(***************************************************************************)
ReplayIsCounted ==
  /\ \A j \in DOMAIN channel : IsReplay(channel[j]) =>
       /\ channel[j].replayed < j
       /\ \A i \in j - channel[j].replayed .. j - 1 :
            channel[i].kind # "result" /\ channel[i].name = channel[j].name
  /\ \A i \in DOMAIN channel : channel[i].kind # "result" =>
       \E j \in DOMAIN channel : /\ IsReplay(channel[j])
                                 /\ channel[j].name = channel[i].name
                                 /\ j - channel[j].replayed <= i

\* Where the results are, and how many are due.
Answers == {i \in DOMAIN channel : channel[i].kind = "result"}

Due == IF at \in {"termwait", "killwait"} THEN served - 1 ELSE served

(***************************************************************************)
(* Every command gets exactly one result, in the order of the commands,    *)
(* whichever early return its handler takes; only the kill the server is   *)
(* waiting in has none yet.  The clients count results to match them.      *)
(***************************************************************************)
OneResultPerCommand ==
  writer /\ at # "panicked" =>
    /\ {channel[i].re : i \in Answers} = 1 .. Due
    /\ \A i, j \in Answers : i < j => channel[i].re < channel[j].re

(***************************************************************************)
(* The entry of a child that has been reaped is marked exited and holds    *)
(* the child's code.  So an entry believed running has a child that holds  *)
(* its pid: kill_process and cmd_interrupt never signal a recycled pid.    *)
(***************************************************************************)
ReapedIsExited ==
  \A n \in Names : Managed(n) /\ child[procs[n].pid].state = "reaped" =>
    procs[n].status = "exited" /\ procs[n].exit_code = child[procs[n].pid].code

(***************************************************************************)
(* An entry believed running is dropped or given another child only once   *)
(* its own child has been reaped, whether by a kill, a respawn, a failed   *)
(* spawn or the arrival of a client.                                       *)
(***************************************************************************)
RunningIsNotDropped ==
  [][\A n \in Names : Running(n) =>
       \/ procs'[n].pid = procs[n].pid
       \/ child'[procs[n].pid].state = "reaped"]_vars

(***************************************************************************)
(* When the server has stopped, no entry is believed running: shutdown has *)
(* skipped none, whatever its children did while it killed the others.     *)
(***************************************************************************)
StoppedHasKilled ==
  at = "stopped" => \A n \in Names : ~Running(n)

-----------------------------------------------------------------------------
(***************************************************************************)
(* Fairness.  Tokio runs every ready task, and select! polls its branches  *)
(* in random order, so a branch that is ready again and again is taken:    *)
(* strong fairness for the branches.  Timers fire, the kernel delivers     *)
(* SIGKILL, a write to a pipe with room completes and one to a pipe whose  *)
(* reader is dead fails.  Nothing is assumed of clients, of signals, or of *)
(* a child that was not killed.                                            *)
(***************************************************************************)
ReaderIsDead == at = "stdin" /\ child[procs[target].pid].state # "running"

Fairness ==
  /\ SF_vars(Accept) /\ SF_vars(Disconnect) /\ SF_vars(TakeShutdown)
  /\ SF_vars(HandleRelay) /\ SF_vars(HandleClientLine)
  /\ WF_vars(ExitReaped \/ ExitTimeout) /\ WF_vars(KillReaped \/ KillTimeout)
  /\ WF_vars(StdinWritten) /\ WF_vars(ReaderIsDead /\ StdinFails)
  /\ WF_vars(Shutdown)
  /\ \A p \in Pids : /\ WF_vars(KilledDies(p))
                     /\ WF_vars(RelayStdout(p)) /\ WF_vars(RelayEof(p))
                     /\ WF_vars(RelayStderr(p)) /\ WF_vars(AbortedTaskEnds(p))
                     /\ WF_vars(OrphanReaped(p))

FairSpec == Spec /\ Fairness

\* The server is over, or waits for ever for a child to read its stdin.
Ended == at \in {"stopped", "panicked"}
Stuck == [](at = "stdin")

(***************************************************************************)
(* A wait for a child ends, however long the child lives: handle_relay     *)
(* gives up after 5 s, kill_process escalates to a signal nothing          *)
(* survives.                                                               *)
(***************************************************************************)
WaitsEnd == at \in {"exitwait", "termwait", "killwait"} ~> at \in {"select", "shutdown"}

(***************************************************************************)
(* A signal stops the server, whatever the children do, unless from some   *)
(* point on there is always a client connected.                            *)
(***************************************************************************)
ShutdownCompletes ==
  sig = "pending" ~> Ended \/ [](client_tx # NoConn)

(***************************************************************************)
(* The death of a child whose stdout is closed is noticed: its entry does  *)
(* not go on being believed running (and, by ReapedIsExited, shows the     *)
(* code if the child was reaped).                                          *)
(***************************************************************************)
DeathIsReported ==
  \A n \in Names, p \in Pids :
    Running(n) /\ procs[n].pid = p /\ child[p].state = "zombie" /\ ~child[p].open
      ~> Ended \/ Stuck \/ ~Running(n) \/ procs[n].pid # p

(***************************************************************************)
(* What relay tasks send is handled: the queue to the server empties, and  *)
(* no exit wait, kill or busy client keeps the server from it for ever.    *)
(***************************************************************************)
OutputIsHandled == relay_rx # << >> ~> Ended \/ Stuck \/ relay_rx = << >>

(***************************************************************************)
(* A client that has closed is noticed, its lines having been executed,    *)
(* and a client in the backlog then gets its turn, unless a signal stops   *)
(* the server first.                                                       *)
(***************************************************************************)
ClosedClientIsReplaced ==
  \A c \in Conns : client_tx = c /\ conn[c].state = "closed"
     ~> Ended \/ Stuck
          \/ (client_tx # c /\ (backlog = << >> \/ client_tx # NoConn))

(***************************************************************************)
(* Every line of the client being served is executed, however long kills   *)
(* and exits make the server wait, unless a child that does not read its   *)
(* stdin stops it for good.                                                *)
(***************************************************************************)
LinesAreHandled ==
  \A c \in Conns : client_tx = c /\ conn[c].unread > 0
                     ~> Ended \/ Stuck \/ conn[c].unread = 0

-----------------------------------------------------------------------------
(* What the documentation says and the code does not do *)

\* README.md:70, "Graceful shutdown on SIGTERM/SIGINT": a signal stops the
\* server.  But nothing in handle_client listens for it.
SignalStopsServer == sig = "pending" ~> Ended

\* tests/stress.rs:716, "The exit message should only come when the process
\* truly terminates."
ExitMeansDead ==
  \A m \in {channel[i] : i \in DOMAIN channel} :
    m.kind = "exit" => child[m.from].state \in {"zombie", "reaped"}

\* tests/stress.rs:452, no "stale state between incarnations": an entry's
\* buffer holds output of its own child only.
NoStaleOutput ==
  \A n \in Names : \A i \in DOMAIN procs[n].buffer :
    procs[n].buffer[i].from = procs[n].pid
=============================================================================
