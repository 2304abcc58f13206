# procmux in TLA+

procmux keeps named subprocesses alive for a client that comes and goes: a server
spawns them, multiplexes their stdin, stdout and stderr over one Unix socket, and
buffers what they write while nobody is subscribed. The repository has it twice, in
Rust and in Python, and a client library for each. This directory holds a
specification of it in TLA+, the TLC configurations that check small instances, and
theorems about it whose proofs TLAPS checks. Paths below are relative to the
repository (`rs/src/server.rs`, ...).

## 1. The system

| Part | State | Operations | Interacts by |
|---|---|---|---|
| Rust server (`rs/src/server.rs`) | `procs` table, `relay_rx` queue, `client_tx`, the shutdown notification | accept, disconnect, eight kinds of line (`spawn`, `kill`, `interrupt`, `subscribe`, `unsubscribe`, `list`, `status`, stdin), `handle_relay`, `kill_process`, `shutdown` | channels to and from its tasks, pipes and signals to children |
| its tasks | per child a stdout and a stderr relay task; per client a reader and a writer task; the signal task | read a line and send it on; end | unbounded channels, one `Notify` |
| Rust protocol (`rs/src/protocol.rs`) | none | which line is which message | |
| Rust client (`rs/src/client.rs`) | per-process queues, the response channel, `cmd_lock`, `closed` | `send_command` (30 s timeout), `send_stdin`, `register_process`, `unregister_process`, `close`, the demultiplexer task | the socket |
| Python server (`py/procmux/server.py`) | the same table; `_client_writer` under a lock | the same commands; a handler task for each connection, a relay task for each pipe and the shutdown interleave at awaits | asyncio |
| Python client, helpers (`py/procmux/client.py`, `helpers.py`) | as the Rust client; the name of the socket | `connect`, `ensure_running`, which starts a server | socket, process start |
| stdio logs (`server.rs:630-667`) | log files, three rotations | open, rotate | file system |
| binary, examples | none | | |

What is hard. The Rust server is one task, so its handlers do not interleave with
each other, but every one of its awaits that really waits (for a child to die, for a
pipe to take a line) stops the whole server while relay tasks, children, clients and
signals go on, and the handler then continues on what it read before. A client may
vanish between the decision to forward a message and its write. Messages of the
relay tasks carry a process *name* and no incarnation. Two timers (5 s after end of
file, 5 s after SIGTERM) race the death of the child. Nothing on the wire ties a
result to its command, so the client library has to count, and a timeout makes it
lose count; its timer does not run while a command is being written, and a future
dropped in that time leaves half a line behind. In the Python server the handler of a
client that was replaced goes on beside the new one's, every handler continues after
its awaits on a table that may have changed, and an exception may end it while its
client is connected. The hazards are listed one by one in `PROJECT.json`, each at its
line, with the properties that would catch it.

What makes each part correct:

* relaying: each pipe of each child is a queue, delivered in order, at most once,
  without gaps; a replay is exactly what was buffered; a client sees nothing it has
  not subscribed to;
* commands: one result for each command, in order;
* the table: an entry says "running" only of a child that has not been reaped, and a
  running child's entry is not dropped;
* waits: each ends, a death is recorded, a signal ends the server;
* the client library: a result is returned to the command that asked for it, a
  registered queue has no gaps and hears of a lost connection, calls return if the
  server reads;
* both together: what a child writes gets to the program, and a program ends unless
  the server waits for a child to read;
* the Python server: the same promises for output and results while handlers
  interleave, and the newest client is the one that is served.

## 2. The modules

| Module | What it is |
|---|---|
| `Protocol` | requests and messages (`protocol.rs`) |
| `ProcmuxServer` | the Rust server, its tasks, and their environment: one action per handler |
| `ProcmuxServerProperties` | its invariants, action properties, fairness and liveness, and what the documentation claims beyond them |
| `OutputStream` | the abstract specification of one pipe: a queue from which a client is served |
| `ProcmuxServerProofs`, `ProcmuxServerOutputProofs`, `ProcmuxServerStreamProofs` | theorems about the Rust server and their proofs: its table, what it sends, and that it implements `OutputStream` |
| `ProcmuxClient`, `ProcmuxClientProperties` | the Rust client library against any server |
| `ProcmuxClientProofs` | theorems about it and their proofs |
| `Session` | the Rust server, the client library and a program between them |
| `SessionProofs` | theorems about the composition and their proofs |
| `PyServer`, `PyServerProperties` | the Python server |
| `PyServerProofs`, `PyServerOutputProofs`, `PyServerTableProofs` | theorems about it and their proofs |
| `MC...` | symmetry sets and programs for the configurations |

    Protocol -- ProcmuxServer -- ProcmuxServerProperties -- Session -- MCSession
                                   |  (INSTANCE OutputStream)  |
                                   |                           (INSTANCE ProcmuxClient)
                                 ProcmuxServerProofs -- ProcmuxServerOutputProofs
                                                           -- ProcmuxServerStreamProofs
    Session, ProcmuxServerStreamProofs -- SessionProofs
    ProcmuxClient -- ProcmuxClientProperties -- ProcmuxClientProofs
    PyServer -- PyServerProperties -- PyServerProofs -- PyServerOutputProofs
                                                           -- PyServerTableProofs

A definition named `Bug...` is the definition after it with a plausible mistake. No
specification uses it; each property is checked to fail when it takes the place of the
definition it belongs to.

### How `ProcmuxServer` corresponds to the code

A step of the server task is what it does between two awaits that can really wait.
`at` says where it is suspended:

| `at` | Code |
|---|---|
| `select` | the `select!` of `run` (if `client_tx = NoConn`) or of `handle_client` |
| `exitwait` | `timeout(5s, child.wait())` in `handle_relay` |
| `termwait`, `killwait` | the waits after SIGTERM and after SIGKILL in `kill_process`, called by `cmd_kill` or (if `sig = "taken"`) by `shutdown` |
| `stdin` | `write_all` in `handle_stdin` |
| `shutdown`, `stopped` | the loop of `shutdown`, and the end of `run` |
| `panicked` | a panic in the task that runs the server |

`target` is the name a wait is about. `procs` maps every name to an entry, the
status `absent` standing for a name that is no key of the map. `channel` is
everything ever sent to the current client's writer task; `writer` says the task
still holds its receiver (`tx.send` succeeds). `served` counts the commands taken
from the connection. `relay_rx` is the queue from the relay tasks; while the server
waits for a child because of an Exit, that Exit stays at the head, which nothing but
the server reads. `task[p]` holds the state of child `p`'s two relay tasks and how
many lines each has sent; `child[p]` is the child as the kernel sees it.

Abstractions, and why they lose nothing the properties tell apart:

* Payloads are opaque to the server. A relayed line is identified by the child, the
  pipe and its position; whether a stdout line is JSON, other text or not UTF-8 is
  chosen when the relay task reads it. Blank lines, which the relay tasks skip, are
  not counted. A stderr line that is not text, which silently ends the stderr task,
  is not modelled: nothing else depends on that task.
* A pipe from a child is the number of lines written to it. What a child leaves
  behind (a grandchild holding its stdout) may write after the child is dead, and a
  child may close its stdout and live on; both are allowed.
* Requests on one connection are chosen when the server takes them (`Session`, where
  a program writes them, takes them in the order written); `Asked` names the kinds an
  instance has. `unread` counts lines in the socket and in the reader task's channel
  together.
* A spawn may start, may fail (`cmd.spawn()` returns an error) or may name no
  program (`cli_args` is empty, and `cli_args[0]` panics). An invalid line panics if
  byte 200 is inside a character (`&line[..200]`), since the warning is enabled at
  the default level.
* `idle` compares two clocks; the model keeps which was set last.
* Pids are not recycled in the model; `ReapedIsExited` is what makes recycling
  harmless, since no signal is then sent to a pid whose child was reaped.
* An aborted relay task may still send what it can until it next yields.
* Left out: log files and rotation, accept errors, removal of the socket file,
  descriptive fields of results (pid, uptime, error text, list of processes).

### `OutputStream`

The promise about one pipe: what is taken from it is appended to what the server
keeps; a prefix of that is forwarded when a client is there; something is lost only
when the entry is given up or a client that asked for it is gone, and then the oldest
first. The refinement `Stream(p, pipe)` in `ProcmuxServerProperties` maps the
server's state to it: `kept` is the name's buffer followed by `relay_rx`, both
restricted to the pipe, and `sent` is `channel` restricted to it. `PipesAreStreams`
says that the server implements it for all pipes at once.

### How `ProcmuxClient` corresponds to the code

`caller[t]` is a task in `send_command`: `locking` at `cmd_lock.lock()`, `writing` from
there to the end of `flush` (`client.rs:158-163`: the lock of the writer, which a
`send_stdin` may hold, and the socket, which a server that does not read may leave
full), `waiting` at the timeout around `rx.recv()`; the lock is held from `writing` on.
The timer runs in `waiting` only, so a command may be `writing` for ever. A future
dropped there may leave the line torn (`last_line`): what is written next continues it,
and the server gets one line that is no command (`WriteSpoilt`, whose caller has `asked
= 0`). `send_stdin` is answered by nobody and matters in the same way only: it ends a
torn line, or tears one. `demux` is the demultiplexer task (`ending` between its loop
and the notification, `aborted` by `close`), `cmd_response` the channel it sends results
to, `process_queues` the sender registered for each name, `queue` what was sent to each
receiver. `register_process` replaces a sender registered before under the name, which
is then dropped. Results are known by the number of the command they answer, which only
the model sees. `given_up` counts the commands whose caller stopped waiting, by the
timer or because its future was dropped (`Cancel`), and `undone` the results that a
caller with a spoilt command took, which bring the others back into step. The server is
any that answers each command once and in order, sends output and lines that do not
parse in between, and may go away, or stop reading, at any moment.

### How `Session` composes them

A program makes its calls in order on one connection; an error of a call ends it, as
`?` does in `examples/rust/basic.rs`. `BasicExample` in `MCSession` has the calls of that
file; the others pause and resume a subscription, register late, write more to a child
than its stdin takes, and ask for a spawn without an executable. They drop no future,
so no line is torn. The
server's actions are those of `ProcmuxServer`, the library's are those of
`ProcmuxClient` through INSTANCE, and the writer task, whose writes `ProcmuxServer`
leaves out, copies `channel` to `wire`. `IsClientSystem` says that this composition
implements `ProcmuxClient`: the commands not yet answered are a function of how many
were written and how many results are on the wire, which is only true because the
server answers each once and in order.

### How `PyServer` corresponds to the code

Every connection has a handler task (`handler[c]`): `reading` at `readline`,
`spawning` at `create_subprocess_exec`, `termwait` at `proc.wait()` in
`_kill_process`, `draining` at `writer.drain()` after a replay. `handler[Main]` is the
task of `start`, which runs `_shutdown`: `killing` in its loop, `closing` once it has
reset the writer and waits, up to 4 s, with relays and handlers going on
(`server.py:134-152`). The process may end at any moment of that; a behaviour that goes
on covers those that stop. A handler ends when its client is gone (`AtEnd`) or with an
exception (`Raises`, `server.py:189-192`), when its client may well be there: `readline`
raises on a line over its limit, and what `_handle_stdin` does for the log may raise. A
relay ends without an exit when a line is too long or is not text (`RelayFails`,
`server.py:392-430`). A handler remembers what the code keeps in
local variables across the await: the name, the child, the writer. `mp[p]` is the
ManagedProcess of child `p`, which relay tasks and handlers hold on to when the table
`procs` no longer does. `dropped` are the connections whose writer the server has
closed, `broken` those a send has failed on. `sent[c]` is what was written to a client
that was there to get it. `_client_lock` is never held across an await that waits, so
it is not modelled; a `drain` after a single message is taken not to wait. That
`Process.wait` returns once the child is dead is asyncio's promise and assumed.
`overlapped` is a history variable: a connection was accepted while the handler of
another had not ended. Some promises of this server hold only without overlaps
(`Alone`), and the properties say which.

## 3. The checks

| Run | Instance | Shows |
|---|---|---|
| `relay` | 1 child, 2 connections, 3 lines of spawn, subscribe, unsubscribe each; 2 lines on stdout, 1 on stderr, and the Exit | `SubscribedIsDrained`, `InOrder`, `NothingIsLost`, `ReplayIsCounted`, `PipesAreStreams` |
| `commands` | 1 name with 2 children one after the other, 1 connection, 3 lines of any kind, stdout lines of any kind | `TypeOK`, `OneResultPerCommand`, `ReapedIsExited`, `RunningIsNotDropped`, `PipesAreStreams` |
| `shutdown` | 2 names, 2 children, spawn and kill, a signal at any time | `StoppedHasKilled` |
| `exits` | 1 name, 2 children, spawn, kill, stdin; fairness | `DeathIsReported`, `WaitsEnd`, `LinesAreHandled` |
| `handover` | 1 child, 2 connections, a signal; fairness | `ShutdownCompletes`, `ClosedClientIsReplaced`, `OutputIsHandled` |
| `client` | 2 tasks, 2 answered commands, torn lines, 2 queues for 1 name, output and garbage, a server that may go or not read; fairness | `TypeOK`, `ResultsShift`, `ResultIsOwn`, `QueueIsStream`, `LossIsTold`, `CommandsReturn`, `QueuesEnd` |
| `session` | 5 programs of 2 to 8 calls, 1 child with 2 lines and its Exit, a pipe for one stdin line, a signal, one timeout; fairness | `NothingMissing`, `IsClientSystem`, `ProgramEnds` |
| `py_server` | 2 children, 2 connections, 3 commands of any kind on them, 1 line and the exit of each child, a signal | `TypeOK`, `InOrder`, `NothingIsLost`, `NewestIsServed`, `ResultsInTurn`, `RunningIsManaged`, `AwayIsBufferedAlone` |

Why the bounds are enough for the cases that matter. In `relay` a process can be
spawned, subscribed and unsubscribed on one connection, and the other, with three lines
of its own, can find anything the first left behind; two lines and the Exit on one pipe
are what an overtaking, a lost or a duplicated message needs, while some are sent, some
buffered and some queued. In `commands` and `exits` two children make a kill or an exit
followed by a respawn while messages of the first child are still queued. In `shutdown`
two entries make the loop go round twice, each entry running, exited or dead but not yet
noticed. In `client` a second command, of the same or the other task, is what a late
result needs to be taken by the wrong one, and a second queue registers the name anew,
also during and after the end of the demultiplexer. In `session` the programs reach
every command; one of them writes two stdin lines to a pipe that takes one, so the write
that stops the server is reached, and one makes the server panic. In `py_server` two
handlers meet in every pair of awaits, a handler ends by an exception at any of its
lines, and the second child is what a double spawn, or a kill of a newer entry, needs.
`MaxLines`, `MaxOut`, `MaxErr`, `StdinCap`, `MaxSignals`, `MaxCommands`, `MaxSent` and
`MaxTimeouts` bound the environment only; the code has none of these bounds except the
capacity of the pipe, which `StdinCap` stands for. `exits` leaves lines that are not
UTF-8 out of `LineKinds`, since they end the relay task for good (see below). Children,
connections, tasks and queues are interchangeable, so safety runs use symmetry; liveness
runs do not. Deadlock is checked in every run: the models may rest for ever only where
the code may (`Rests`, `SessionRests`).

### Fairness

Server: what tokio and the kernel provide. `select!` polls its branches in random
order and an event stays ready until it is taken, so a branch that is ready again and
again is taken: strong fairness for accepting, disconnecting, taking a line, taking a
relay message and taking the notification. Timers fire, a wait for a dead child
returns, a process that was sent SIGKILL dies, a write to a pipe with room completes
and a write to a pipe whose reader is dead fails, relay tasks run: weak fairness.
Nothing is assumed of clients, signals, or children that were not killed. In
particular a child that never reads its stdin may stop the server, so the liveness
properties except the bound on waits say "or the server waits in a write for ever"
(`Stuck`), that of the composition included.

Client: the demultiplexer runs and the 30 s timer fires (weak fairness); `cmd_lock` is
tokio's mutex, which is first come first served (strong fairness for a task that wants
it, since others may hold it in between). A write to a connection whose server is gone
fails (weak fairness). Nothing is assumed of the server or the application, and nothing
of a write while the server is there: `client.rs:160-162` waits for as long as the server
does not read, with `cmd_lock` held and no timer. `CommandsReturn` therefore says that
every call returns or some caller is writing for ever.

Session: both of these, weak fairness of the writer task, and that a program goes on
with its calls, its writes included: the Rust server's reader task feeds an unbounded
channel (`server.rs:190-200`) and so reads whatever the server task does, and before a
connection is accepted the socket takes the few lines there are. The timer is not used
while the server is there, so `ProgramEnds` shows that commands are answered, not that
they time out, and that a program hears of a server that has panicked. It excepts a
server that waits in a write for ever.

No liveness is stated for the Python server.

### Where the documentation says more than the code does

| Run | Claim | What happens |
|---|---|---|
| `signal_ignored` | `README.md:70`, graceful shutdown on SIGTERM/SIGINT | only `run`'s `select!` listens; while a client stays connected a signal does nothing |
| `exit_of_the_living` | `tests/stress.rs:716`, exit only on true termination | a child that closes stdout and lives is reported exited after 5 s |
| `stale_output` | `tests/stress.rs:452`, no stale state between incarnations | queued lines of a killed child go to the next one of that name |
| `py_away` | `README.md:20`, output is buffered when the client disconnects | in the Python server a replaced handler can subscribe a process after the last client has left; its output is dropped |

More follows from the same models and has no run of its own:

* after the 5 s timeout nothing waits for the living child again: a kill drops its entry
  without a signal, a spawn of the name starts a second child, `shutdown` passes over it
  (`README.md:70`, "terminates all subprocesses"), and once dead it stays a zombie while
  its entry exists;
* a stdout line that is not UTF-8 ends the relay task without an Exit, and no main loop
  detects the death as the comment at `server.rs:728` has it: with `"nonutf8"` in
  `LineKinds`, `DeathIsReported` fails;
* a spawn without `cli_args` panics (`server.rs:352`), and a child that does not read its
  stdin stops the server (`server.rs:554`);
* a second client waits in the backlog until the first has left, although
  `server.rs:160-162` handles a new client that replaces an old one;
* `ResultIsOwn` needs `given_up = 0`: after one timeout every later `send_command` on the
  connection returns the result of an earlier command (`ResultsShift` says by how many),
  unless callers whose own line was spoilt took as many results too many;
* a server that does not read blocks `send_command`, and every one behind it, for ever:
  the 30 s timeout begins after the write (`client.rs:160-166`). Without its exception
  `CommandsReturn` fails;
* without `Stuck`, `ProgramEnds` fails: a child that does not read its stdin keeps the
  program waiting;
* a process registered after the demultiplexer has ended waits for ever (`late`);
* without `Alone`, `RunningIsManaged` and `ResultsInTurn` fail in the Python server: two
  spawns of one name leave a child that is in no table, and results of the replaced
  client's commands go to the new client;
* an exception that ends the handler of the newest client (`server.py:191`) leaves it
  connected and unserved; after overlaps an older handler may then subscribe with no
  writer set, and output is lost though no client has left (`NothingIsLost` allows it).

## 4. The proofs

For every value of the constants that satisfies the named assumptions (`None` is not a
value; bounds are naturals):

| Theorem | Module | States |
|---|---|---|
| `TypeCorrect` | `ProcmuxServerProofs` | `Spec => []TypeOK` |
| `DrainedCorrect` | | `Spec => []SubscribedIsDrained` |
| `ReapedCorrect` | | `Spec => []ReapedIsExited` |
| `NotDropped` | | `Spec => RunningIsNotDropped` |
| `ShutdownCorrect` | | `Spec => []StoppedHasKilled` |
| `OrderCorrect` | `ProcmuxServerOutputProofs` | `Spec => []InOrder` |
| `LossCorrect` | | `Spec => NothingIsLost` |
| `ReplayCorrect` | | `Spec => []ReplayIsCounted` |
| `TurnCorrect` | | `Spec => []OneResultPerCommand` |
| `StreamsCorrect` | `ProcmuxServerStreamProofs` | `Spec => PipesAreStreams`: the server implements `OutputStream` for each pipe of each child |
| `TypeCorrect` | `ProcmuxClientProofs` | `Spec => []TypeOK`, with mutual exclusion of `cmd_lock` |
| `ShiftCorrect` | | `Spec => []ResultsShift` |
| `OwnCorrect` | | `Spec => []ResultIsOwn` |
| `LossCorrect` | | `Spec => []LossIsTold` |
| `StreamCorrect` | | `Spec => []QueueIsStream` |
| `ServerInSession` | `SessionProofs` | `SessionSpec => Spec`: in the composition the server behaves as alone |
| `ClientSystem` | | `SessionSpec => IsClientSystem`: the composition implements `ProcmuxClient` |
| `NothingIsMissing` | | `SessionSpec => []NothingMissing` |
| `TypeCorrect` | `PyServerProofs` | `Spec => []TypeOK` |
| `NewestCorrect` | | `Spec => []NewestIsServed` |
| `AwayCorrect` | | `Spec => []AwayIsBufferedAlone` |
| `OrderCorrect` | `PyServerOutputProofs` | `Spec => []InOrder` |
| `ManagedCorrect` | `PyServerTableProofs` | `Spec => []RunningIsManaged` |
| `TurnCorrect` | | `Spec => []ResultsInTurn` |
| `LossCorrect` | | `Spec => NothingIsLost` |

*The table of the Rust server.* The inductive invariant is `TypeInv == TypeOK /\ Born
/\ Owned`. `TypeOK` alone is not inductive: a relay task stamps its messages with its
child's name, so they are typed only because a child that has relay tasks was started
under a name (`Born`); and a step that changes one child must not disturb another
entry, which holds because an entry's child carries the entry's name (`Owned`), so two
entries never share a child. Two lemmas carry most of the rest: `OsStep` (a born child
stays born and keeps its name, a new one gets a name) and `TableStep` (a step keeps the
table's names and children, or removes an entry it may drop, or adds one for the child
it creates). `ReapedIsExited` is inductive together with `TypeInv`; the three steps
that reap (the end of an exit wait, of a kill wait, and the runtime's orphan queue) are
where `Owned` is needed. `StoppedHasKilled` needs `ShutdownInv` (what is still running
is still to do) and `ReapedIsExited`: an entry that `shutdown` finds running has an
unreaped child, so `kill_process` does not return early for it.

*The order of output.* `InOrder` relates the channel, each buffer and the relay queue,
but not the buffers to each other, and says nothing of what the relay tasks will read.
The inductive invariant adds `Placed`: whatever is on its way carries the name of its
child, a buffer holds output of its own name only, and no position is higher than what
its relay task has counted. `ShapeStep` reduces the server's forty actions to four ways
of moving messages (`Quiet`, `Replays`, `Handles`, `Relays`), and everything after it is
about these four and about sequences. Forwarding a live message is in order because a
subscribed process has an empty buffer (`SubscribedIsDrained`); a replay is because
what is buffered under one name and what is buffered under another are from different
children (`Placed`).

*What reaches the channel.* `NothingIsLost` follows from the same four ways and from
`Owned` and `Placed`: the name on a line taken from the queue is the name of the entry
that holds its child, and a buffer goes only into the channel or with its entry.
`ReplayIsCounted` is not inductive alone: that a forwarded message was asked for needs
`Replayed`, which says that on a connection that is written to every subscribed process
has a replay in the channel. `OneResultPerCommand` is `InTurn(channel, Due)` where `Due`
counts the lines taken, less the kill being waited in; the proof goes through the steps
that begin a connection, pass output, and give an answer (`Begins`, `Passes`, `Gives`),
and needs that once the shutdown is taken no writer is alive.

*The refinement.* `PipesAreStreams` says that the server, seen through the positions of
one pipe in its queue and buffer (`Pending`) and in the channel, is a queue that lines
enter at one end and that is served or thrown away from the other (`OutputStream`).
`Positions` is a recursive function, so what it gives for an appended message, for a
concatenation and for the tail of a sequence is proved first, by induction on the
length: the library's induction theorems take an operator as a parameter, but that `Nat`
is well founded (`NatLessThanWellFounded`) gives a least counterexample to be ruled out
(`NatSet`). The inductive invariant `StreamInv` adds to that of the order that a child
that was not started has read nothing, and that the name of an entry that is gone has
an empty buffer. `EveryStep` then maps each of the ways a step moves messages to a step
of the queue or to a stutter: a relay task adds a line (`TaskStep`); a replay serves the
whole buffer, or throws it away when the client is gone (`ReplayStep`); a handled line is
served at once, goes from the queue to the end of the buffer, or is lost with its entry
(`HandleStep`); an answer leaves the queue alone or gives up the child (`QuietStep`); and
a new connection ends the client's view (`ConnectionStep`).

*The client library.* `InTurn` adds two facts to the types. `Counted`: every command
written was answered and taken, answered and not taken, given up, or is being waited
for, so the position of the next result is a number (`Base`) computed from the state.
`Coming`: the results not yet read and the commands not yet answered are, in this order,
exactly the numbers after it, increasing. The next result read is then the lowest of
them (`NextResult`), which gives `ResultsShift`, where a caller with a spoilt command
owes nothing (`Owed`) and what it takes is counted by `undone`; with `given_up = 0` the
next result is the waiting caller's own (`OwnInTurn`). `LossIsTold` needs that a queue
registered while the demultiplexer runs is told when it ends. `QueueIsStream` follows
from `StreamInv`: each queue has heard one stretch of the connection (`Spans`), which
every line read extends while the queue is registered, by a message (`StreamGets`) or by
nothing for it (`StreamSkips`). That needs a registered queue to be in the table under
its own name (`Routed`), so that no other line reaches it, and `ConnectionLost` not to
be in a queue before the demultiplexer has ended (`ToldAtEnd`), so that nothing follows
it.

*The composition.* Here too programs are any sequences of the calls `Session` knows, on
any number of names and children; assumed are finitely many children and that `Asked`
holds nothing a program cannot write (a line that is not UTF-8 would end the connection
before its commands are answered). `ServerInSession` needs `ProgramInv`: the lines the
server has not taken are the last the program wrote, so the line it takes is one it can
take. `ClientSystem` needs one invariant of both sides, `LinkInv`. Its part `ConnInv`
follows the program's connection from before `connect` through the backlog and the time
it is served to the time it is left (`Fore`, `Queued`, `IsServed`, `Left`), and says
what of the channel is on the socket and how many commands were written, taken and
answered. The next result on the socket is then that of the oldest command without one
(`NextOnWire`, from `OneResultPerCommand`), and output is bounded because each message
on the socket is another line of another child (`RoomForOutput`, an injection, from
`InOrder` and `Bounded`). Each step of the composition is mapped to the step of
`ProcmuxClient` it is, or to a stutter (`ProgramClient`, `WriterClient`,
`LibraryClient`, `ServerClient`).

*Nothing is missing.* `NothingMissing` is about both ends and what is between them, and
none of it is inductive alone. From the server it needs `Intact`: while the program has
its connection open, the server has a live writer for it or manages nothing, and of a
child it manages, what the channel has and what is kept are all the lines read (`Whole`).
A step of `OutputStream` breaks this only by losing a line without a client or by ending
a client's view, which is where `LinkInv` comes in: a connection that is not closed is
not left, and no child is started before it is served. From the program it needs that no
child has a name the program did not ask for (`NamesAsked`), and from the library
`HeardInv`: a registered name has a queue of its own, in which is what was read from the
socket of the children of that name (`Hears`). This last holds only because of
`EarlyRegistered`, and the proof uses it three times: where the name is registered no
child has it yet; where a child is spawned nothing on the socket is from it, since what
is there carries the name of its child (`WireFits`); and nothing else the program does
changes which queue the name has (`RegStep`). Two cuts of sequences (`PositionsExtend`,
`Cut`) put the places together (`Collected`). As in the statement, `read` is what the
library's demultiplexer has taken, and nothing is said once the connection is lost.

*The Python server.* Handlers interleave, so every invariant here also says what a
handler remembers across its await (`Remembers`): while it waits for a subprocess or
for a death it has a child and a name, while it drains it has a writer.
`NewestIsServed` is inductive with the types and the fact that only a client that has
gone makes a send fail: a handler that ends, in whatever way, resets the writer only if
it is its own; `AwayIsBufferedAlone` needs that without overlaps one handler
at most is active (`OneActive`), and that the server's writer is that handler's own
unless a send to it failed (`ActiveIsWriter`). `InOrder` holds with
overlaps too. As for the Rust server, each step moves messages in one of four ways
(`Quiet`, `Enters`, `Replays`, `Relays`), and `Placed` keeps what is on its way below
what its relay has counted. `NothingIsLost` has two parts. No entry
of the table is made for a child that already had one, so that making an entry drops
nothing (`BirthInv`: a child is known to one waiting handler or has its entry). And
without overlaps nothing is sent while there is no writer (`Away`): a relay that is
reading has a process that is believed running, which is in the table
(`RunningIsManaged`) and so not subscribed (`AwayIsBufferedAlone`), and a subscribe needs
an active handler, whose client would be the writer (`ActiveIsWriter`). `RunningIsManaged`
needs what the code relies on across its two awaits (`Relies`: the name being spawned
is still free, the name being killed is still the same child's), which holds only
without overlaps. `ResultsInTurn` is the invariant `Turn`, in which a handler that waits
(`Waiting`) owes one result (`Due`): a step passes output on, gives the result that is
due, or finds the client gone (`Passes`, `Gives`, `Leaves`). It needs that without
overlaps a handler sends to its own client or to nobody (`OwnWriter`) and drains its own
writer (`OwnDrain`).

Every invariant and every action property of a passing run is proved. Only model-checked
is what needs fairness, since neither liveness nor `ENABLED` is in the prover's reach.
Most properties about results and queues speak of sets of positions and numbers rather
than of sequences picked from others, which the provers handle without induction.

## 5. Not modelled

* Stdio logs: rotation when a process is spawned and the lines written to them. Names
  and sizes of files only; errors are ignored and nothing else reads them.
* The Python client, which has the structure of the Rust one, and `helpers.py`: start-up
  keeps no state, and nothing in it or in the documentation says what two concurrent
  callers of `ensure_running` may expect (each starts a server, and the second removes
  the first one's socket).
* In the Python server: the stderr relay (the stdout relay without the exit); stdin
  messages and stdio loggers, except that an exception of theirs may end the handler;
  `idle`; that a handler waits for `wait_closed` of the writer it replaces; and a kill
  that the kernel refuses. A spawn that is under way when `_shutdown` takes its list is
  not in it, and its child survives; nothing is promised of it.
* JSON and pydantic, descriptive fields, argument parsing, logging set-up.
