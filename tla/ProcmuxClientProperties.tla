---------------------- MODULE ProcmuxClientProperties ----------------------
(* What the client library promises, and the fairness it needs. *)
EXTENDS ProcmuxClient

Line == [kind : {"result", "output", "garbage", "lost"}, name : Names \union {NoName}, no : Nat]

(***************************************************************************)
(* Types, and who holds cmd_lock: the one caller that writes or waits.     *)
(***************************************************************************)
TypeOK ==
  /\ lines \in Seq(Nat) /\ wire \in Seq(Line) /\ read \in 0 .. Len(wire)
  /\ up \in BOOLEAN /\ open \in BOOLEAN /\ closed \in BOOLEAN
  /\ demux \in {"reading", "ending", "ended", "aborted"}
  /\ process_queues \in [Names -> Queues \union {NoQueue}]
  /\ queue \in [Queues -> [name : Names \union {NoName}, late : BOOLEAN, got : Seq(Line)]]
  /\ cmd_lock \in Callers \union {NoCaller} /\ cmd_response \in Seq(Nat)
  /\ caller \in [Callers ->
       [at : {"idle", "locking", "writing", "waiting"}, asked : Nat, got : Nat]]
  /\ last_line \in {"whole", "torn"} /\ written \in Nat /\ given_up \in Nat /\ undone \in Nat
  /\ \A t \in Callers : caller[t].at \in {"writing", "waiting"} <=> cmd_lock = t

-----------------------------------------------------------------------------
(***************************************************************************)
(* send_command takes the next result from the channel, whatever command   *)
(* it answers.  That result is off by the number of commands given up so   *)
(* far on the connection, by a timeout or by dropping the future, less the *)
(* results that went to callers whose command was spoilt by a torn line:   *)
(* none means that every caller gets its own; one shifts all that follow.  *)
(***************************************************************************)
ResultsShift ==
  \A t \in Callers : caller[t].at = "waiting" /\ Answerable(t) /\ cmd_response # << >> =>
    Head(cmd_response) = caller[t].asked - given_up + undone

\* The same where callers see it.
ResultIsOwn ==
  given_up = 0 => \A t \in Callers : caller[t].got # 0 => caller[t].got = caller[t].asked

-----------------------------------------------------------------------------
\* Where the messages for n are among the lines i+1 .. j.
Outputs(n, i, j) == {k \in i + 1 .. j : wire[k].kind = "output" /\ wire[k].name = n}

Told(q) == Lost \in {queue[q].got[a] : a \in DOMAIN queue[q].got}

\* Where the server's messages are in a queue.
Heard(q) == {a \in DOMAIN queue[q].got : queue[q].got[a] # Lost}

(***************************************************************************)
(* A queue gets what the server sent for its name without a gap, in order  *)
(* and once, from some point on and, while it is registered, up to what    *)
(* was read last; ConnectionLost, if it comes, comes once and last.        *)
(***************************************************************************)
QueueIsStream ==
  \A q \in Queues : queue[q].name # NoName =>
    LET got == queue[q].got IN
    /\ \A a \in DOMAIN got : got[a] = Lost => a = Len(got)
    /\ \A a, b \in Heard(q) : a < b => got[a].no < got[b].no
    /\ \E i, j \in 0 .. read :
         /\ Registered(q) => j = read
         /\ {got[a] : a \in Heard(q)} = {wire[k] : k \in Outputs(queue[q].name, i, j)}

(***************************************************************************)
(* When the demultiplexer has ended, every queue that is still registered  *)
(* was told that the connection is lost, but for those that were           *)
(* registered after it had ended: their receivers wait for ever.           *)
(***************************************************************************)
LossIsTold ==
  demux = "ended" => \A q \in Queues : Registered(q) => Told(q) \/ queue[q].late

-----------------------------------------------------------------------------
(***************************************************************************)
(* Fairness.  Tokio polls every ready task; cmd_lock is a fair mutex, so a *)
(* caller that wants it gets it again and again: strong fairness.  A write *)
(* to a closed socket fails, and the 30 s timer fires.  Nothing is assumed *)
(* of the application or the server, not even that it reads what is        *)
(* written: a caller may be writing for ever.                              *)
(***************************************************************************)
Fairness ==
  /\ WF_vars(Demux)
  /\ \A t \in Callers :
       /\ SF_vars(TakeLock(t) /\ UNCHANGED link)
       /\ WF_vars(~up /\ WriteFails(t) /\ UNCHANGED link)
       /\ WF_vars((ReceiveResult(t) \/ TimeOut(t)) /\ UNCHANGED link)

FairSpec == Spec /\ Fairness

(***************************************************************************)
(* send_command returns, whatever the server answers and however many      *)
(* callers want the lock: with a result, an error or a timeout.  The one   *)
(* exception is a caller whose write never ends, because the server does   *)
(* not read: the timer is not running yet, and the lock is held.           *)
(***************************************************************************)
CommandsReturn ==
  \A t \in Callers : caller[t].at # "idle" ~>
    \/ caller[t].at = "idle"
    \/ \E u \in Callers : [](caller[u].at = "writing")

(***************************************************************************)
(* Once the connection is lost or closed, nobody waits on a queue for      *)
(* ever: it is told, or its sender is dropped, unless it was registered    *)
(* after the demultiplexer had ended.                                      *)
(***************************************************************************)
QueuesEnd ==
  \A q \in Queues : queue[q].name # NoName /\ (~up \/ ~open)
    ~> Told(q) \/ ~Registered(q) \/ queue[q].late
=============================================================================
