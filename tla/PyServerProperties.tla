------------------------- MODULE PyServerProperties -------------------------
(* What the Python server promises, and under which conditions. *)
EXTENDS PyServer

Alone == ~overlapped

Relayed == [kind : {"stdout", "exit"}, from : Pids, seq : Nat]
Message == Relayed \union [kind : {"result"}, asker : Conns, no : Nat]

HandlerStates ==
  {"new", "reading", "spawning", "draining", "termwait", "done",
   "serving", "killing", "closing"}

Tasks == Conns \union {Main}

ManagedProcess ==
  [status : {"none", "running", "exited"}, buffer : Seq(Relayed), subscribed : BOOLEAN]

(***************************************************************************)
(* Types; and what relay_or_buffer relies on: a subscribed process has     *)
(* nothing in its buffer that a live message could overtake.               *)
(***************************************************************************)
TypeOK ==
  /\ procs \in [Names -> Pids \union {NoPid}]
  /\ mp \in [Pids -> ManagedProcess]
  /\ relay \in [Pids -> [at : {"none", "reading", "done"}, taken : Nat]]
  /\ client_writer \in Conns \union {NoConn}
  /\ handler \in [Tasks ->
       [at : HandlerStates, name : Names \union {Main}, pid : Pids \union {NoPid},
        writer : Conns \union {NoConn}]]
  /\ todo \in SUBSET Pids /\ overlapped \in BOOLEAN
  /\ taken \in [Conns -> Nat] /\ dropped \in SUBSET Conns /\ broken \in SUBSET Conns
  /\ sent \in [Conns -> Seq(Message)]
  /\ conn \in [Conns -> [state : {"new", "open", "closed"}, received : Nat, unread : Nat]]
  /\ child \in [Pids -> [state : {"unborn", "running", "dead"}, name : Names \union {Main},
                        open : BOOLEAN, out : Nat]]
  /\ \A p \in Pids : mp[p].subscribed => mp[p].buffer = << >>

-----------------------------------------------------------------------------
\* m is before m2 in the output of its child, if both are from one.
Before(m, m2) ==
  m.kind # "result" /\ m2.kind # "result" /\ m.from = m2.from => m.seq < m2.seq

Sorted(s) == \A i, j \in DOMAIN s : i < j => Before(s[i], s[j])

Precedes(s, t) == \A i \in DOMAIN s, j \in DOMAIN t : Before(s[i], t[j])

(***************************************************************************)
(* On one connection the output of a child arrives in order and at most    *)
(* once, followed by what is still buffered, though relays, replays and    *)
(* the handlers of two connections write to it.                            *)
(***************************************************************************)
InOrder ==
  /\ \A c \in Conns : Sorted(sent[c])
  /\ \A p \in Pids : Sorted(mp[p].buffer)
  /\ \A c \in Conns, p \in Pids : Precedes(sent[c], mp[p].buffer)

\* What child p wrote as number k is in s.
Holds(s, p, k) == \E i \in DOMAIN s : s[i].kind # "result" /\ s[i].from = p /\ s[i].seq = k

\* The shutdown has not reset the writer yet.
Serving == handler[Main].at # "closing"

Away == Serving /\ client_writer = NoConn

(***************************************************************************)
(* A line that its relay takes, and one that a step takes from a buffer,   *)
(* is then buffered or was sent to a client that is there.  It is lost     *)
(* only where the client sent to has closed, whether the send fails or     *)
(* not, where there is none because the server is being stopped, or where  *)
(* there is none and handlers have overlapped (py_away).                   *)
(***************************************************************************)
NothingIsLost ==
  [][\A p \in Pids : \A k \in 1 .. relay'[p].taken :
       k > relay[p].taken \/ Holds(mp[p].buffer, p, k) =>
         \/ Holds(mp'[p].buffer, p, k)
         \/ \E c \in Conns : Holds(sent'[c], p, k)
         \/ client_writer # NoConn /\ conn[client_writer].state = "closed"
         \/ client_writer = NoConn /\ (Away => ~Alone)]_vars

(***************************************************************************)
(* The connection accepted last is the one sent to until its client goes   *)
(* away or its own handler is over: the handlers of replaced connections   *)
(* end in any way, and their sends fail, without taking that from it.      *)
(***************************************************************************)
NewestIsServed ==
  \A c \in Conns :
    conn[c].state = "open" /\ c \notin dropped /\ handler[c].at # "done" => client_writer = c

\* The results in s are those of the first k commands of c, each once, in order.
InTurn(s, c, k) ==
  LET results == {i \in DOMAIN s : s[i].kind = "result"} IN
  /\ {s[i] : i \in results} = {Result(c, no) : no \in 1 .. k}
  /\ \A i, j \in results : i < j => s[i].no < s[j].no

(***************************************************************************)
(* If each handler ended before the next connection came, a client gets    *)
(* one result for each of its commands, in order, and no other: it can     *)
(* only match them by counting.                                            *)
(***************************************************************************)
ResultsInTurn ==
  Alone => \A c \in Conns :
    /\ \E k \in 0 .. taken[c] : InTurn(sent[c], c, k)
    /\ handler[c].at = "reading" /\ conn[c].state = "open" /\ c \notin dropped
         => InTurn(sent[c], c, taken[c])

(***************************************************************************)
(* If each handler ended before the next connection came, a process that   *)
(* is believed running is in the table, where it can be killed, though     *)
(* spawn inserts it and kill pops it after an await.                       *)
(***************************************************************************)
RunningIsManaged ==
  Alone => \A p \in Pids : mp[p].status = "running" => procs[child[p].name] = p

\* README.md:20, "When the client disconnects, output is buffered."
AwayIsBuffered ==
  Away => \A n \in Names : Managed(n) => ~mp[procs[n]].subscribed

(***************************************************************************)
(* Without a client nothing in the table is subscribed, so that its output *)
(* is buffered, if each handler ended before the next connection came.     *)
(***************************************************************************)
AwayIsBufferedAlone == Alone => AwayIsBuffered
=============================================================================
