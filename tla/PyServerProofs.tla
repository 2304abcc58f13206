--------------------------- MODULE PyServerProofs ---------------------------
(***************************************************************************)
(* Safety of the Python server for every number of names, children,        *)
(* connections and lines.  The handlers interleave, so what each of them   *)
(* remembers across its await is part of the invariants.                   *)
(***************************************************************************)
EXTENDS PyServerProperties, SequenceTheorems, TLAPS

\* What a handler remembers while it waits, and that it is there if its
\* connection is.
Remembers ==
  /\ \A c \in Conns :
       /\ handler[c].at \in {"new", "reading", "spawning", "draining", "termwait", "done"}
       /\ handler[c].at = "new" <=> conn[c].state = "new"
       /\ handler[c].at \in {"spawning", "termwait"} =>
            handler[c].pid \in Pids /\ handler[c].name \in Names
       /\ handler[c].at = "draining" => handler[c].writer \in Conns
  /\ handler[Main].at \in {"serving", "killing", "termwait", "closing"}
  /\ handler[Main].at = "termwait" => handler[Main].pid \in Pids

TypeInv == TypeOK /\ Remembers

HandlerRec ==
  [at : HandlerStates, name : Names \union {Main}, pid : Pids \union {NoPid},
   writer : Conns \union {NoConn}]

RelayRec == [at : {"none", "reading", "done"}, taken : Nat]
ConnRec == [state : {"new", "open", "closed"}, received : Nat, unread : Nat]
ChildRec ==
  [state : {"unborn", "running", "dead"}, name : Names \union {Main}, open : BOOLEAN, out : Nat]

-----------------------------------------------------------------------------
(* Sends and subscriptions *)

Drains(ps) == \A p \in Pids : ps[p].subscribed => ps[p].buffer = << >>

\* ps2 is ps but for subscriptions that ended.
Quieter(ps, ps2) ==
  \A p \in Pids : /\ ps2[p].status = ps[p].status /\ ps2[p].buffer = ps[p].buffer
                  /\ ps2[p].subscribed => ps[p].subscribed

NoneSubscribed(ps) == \A n \in Names, p \in Pids : procs'[n] = p => ~ps[p].subscribed

LEMMA UnsubscribedIs ==
  ASSUME NEW ps \in [Pids -> ManagedProcess], Drains(ps)
  PROVE  /\ Unsubscribed(ps) \in [Pids -> ManagedProcess] /\ Drains(Unsubscribed(ps))
         /\ Quieter(ps, Unsubscribed(ps)) /\ NoneSubscribed(Unsubscribed(ps))
<1> DEFINE us == Unsubscribed(ps)
<1>1. ASSUME NEW p \in Pids
      PROVE  /\ us[p] \in ManagedProcess
             /\ us[p].status = ps[p].status /\ us[p].buffer = ps[p].buffer
             /\ us[p].subscribed <=> ps[p].subscribed /\ \A n \in Names : procs'[n] # p
  BY DEF Unsubscribed, ManagedProcess
<1>2. us \in [Pids -> ManagedProcess]
  BY <1>1 DEF Unsubscribed
<1>3. QED
  BY <1>1, <1>2 DEF Drains, Quieter, NoneSubscribed

\* A send that fails, or finds no one, leaves everything but subscriptions.
LEMMA SendFailsIs ==
  ASSUME TypeOK, NEW w \in Conns, NEW ps \in [Pids -> ManagedProcess], Drains(ps),
         SendFails(w, ps)
  PROVE  /\ mp' \in [Pids -> ManagedProcess] /\ Drains(mp') /\ Quieter(ps, mp')
         /\ broken' = broken \union {w} /\ broken' \in SUBSET Conns
         /\ client_writer' \in Conns \union {NoConn} /\ client_writer' \in {client_writer, NoConn}
         /\ client_writer' # client_writer =>
              client_writer = w /\ client_writer' = NoConn /\ NoneSubscribed(mp')
         /\ sent' = sent
<1>1. broken \in SUBSET Conns /\ client_writer \in Conns \union {NoConn}
  BY DEF TypeOK
<1>2. CASE client_writer = w
  BY <1>1, <1>2, UnsubscribedIs DEF SendFails
<1>3. CASE client_writer # w
  BY <1>1, <1>3 DEF SendFails, Quieter
<1>4. QED
  BY <1>2, <1>3

LEMMA SendIs ==
  ASSUME TypeOK, NEW ps \in [Pids -> ManagedProcess], Drains(ps), NEW msgs \in Seq(Message),
         SendToClient(msgs, ps)
  PROVE  /\ mp' \in [Pids -> ManagedProcess] /\ Drains(mp') /\ Quieter(ps, mp')
         /\ \/ broken' = broken
            \/ /\ client_writer # NoConn /\ conn[client_writer].state = "closed"
               /\ broken' = broken \union {client_writer}
         /\ broken' \in SUBSET Conns
         /\ client_writer' \in Conns \union {NoConn} /\ client_writer' \in {client_writer, NoConn}
         /\ client_writer' # client_writer =>
              /\ client_writer' = NoConn /\ client_writer \in broken'
              /\ conn[client_writer].state = "closed" /\ NoneSubscribed(mp')
         /\ sent' \in [Conns -> Seq(Message)]
         /\ \A c \in Conns :
              IF c = client_writer /\ conn[c].state = "open"
              THEN sent'[c] = sent[c] \o msgs
              ELSE sent'[c] = sent[c] \/ sent'[c] = sent[c] \o msgs
         /\ \A c \in Conns : sent'[c] # sent[c] => c = client_writer
<1>1. /\ broken \in SUBSET Conns /\ client_writer \in Conns \union {NoConn}
      /\ sent \in [Conns -> Seq(Message)]
  BY DEF TypeOK
<1>2. CASE /\ client_writer # NoConn => conn[client_writer].state = "closed"
           /\ mp' = ps /\ UNCHANGED <<client_writer, broken, sent>>
  BY <1>1, <1>2, PyAssumption DEF Quieter
<1>3. CASE client_writer # NoConn /\ conn[client_writer].state = "closed" /\ SendFails(client_writer, ps)
  <2>1. client_writer \in Conns
    BY <1>1, <1>3
  <2>2. QED
    BY <1>1, <1>3, <2>1, SendFailsIs
<1>4. CASE /\ client_writer # NoConn /\ conn[client_writer].state = "open"
           /\ mp' = ps /\ sent' = [sent EXCEPT ![client_writer] = @ \o msgs]
           /\ UNCHANGED <<client_writer, broken>>
  <2>1. client_writer \in Conns
    BY <1>1, <1>4
  <2>2. sent[client_writer] \o msgs \in Seq(Message)
    BY <1>1, <2>1, ConcatProperties
  <2>3. /\ sent' \in [Conns -> Seq(Message)] /\ sent'[client_writer] = sent[client_writer] \o msgs
        /\ \A c \in Conns : c # client_writer => sent'[c] = sent[c]
    BY <1>1, <1>4, <2>1, <2>2
  <2>4. Quieter(ps, mp')
    BY <1>4 DEF Quieter
  <2>5. QED
    BY <1>1, <1>4, <2>3, <2>4
<1>5. QED
  BY <1>2, <1>3, <1>4 DEF SendToClient

-----------------------------------------------------------------------------
(* Types *)

LEMMA InitTyped == Init => TypeInv
<1> SUFFICES ASSUME Init PROVE TypeInv
  OBVIOUS
<1> USE PyAssumption
<1>1. mp \in [Pids -> ManagedProcess] /\ \A p \in Pids : ~mp[p].subscribed
  BY DEF Init, Process, ManagedProcess
<1>2. handler \in [Tasks -> HandlerRec]
  BY DEF Init, Tasks, HandlerRec, HandlerStates
<1>3. \A c \in Conns : handler[c].at = "new" /\ conn[c].state = "new"
  BY DEF Init, Main
<1>4. handler[Main].at = "serving"
  BY DEF Init
<1>5. sent \in [Conns -> Seq(Message)] /\ conn \in [Conns -> ConnRec] /\ child \in [Pids -> ChildRec]
      /\ relay \in [Pids -> RelayRec]
  BY DEF Init, ConnRec, ChildRec, RelayRec
<1>6. TypeOK
  BY <1>1, <1>2, <1>5 DEF Init, TypeOK, HandlerRec, ConnRec, ChildRec, RelayRec
<1>7. Remembers
  BY <1>3, <1>4 DEF Remembers
<1>8. QED
  BY <1>6, <1>7 DEF TypeInv

\* What a step may do to what a send changes.
Sends ==
  /\ mp' \in [Pids -> ManagedProcess] /\ Drains(mp')
  /\ client_writer' \in Conns \union {NoConn} /\ broken' \in SUBSET Conns
  /\ sent' \in [Conns -> Seq(Message)]
  /\ client_writer' # client_writer =>
       /\ client_writer' = NoConn /\ client_writer \in broken'
       /\ conn[client_writer].state = "closed" /\ NoneSubscribed(mp')
  /\ broken \subseteq broken' /\ \A w \in broken' : w \in broken \/ conn[w].state = "closed"

LEMMA SendSends ==
  ASSUME TypeOK, NEW ps \in [Pids -> ManagedProcess], Drains(ps), NEW msgs \in Seq(Message),
         SendToClient(msgs, ps)
  PROVE  Sends
BY SendIs DEF Sends

\* TypeOK by its records.
Types ==
  /\ procs \in [Names -> Pids \union {NoPid}]
  /\ mp \in [Pids -> ManagedProcess] /\ Drains(mp)
  /\ relay \in [Pids -> RelayRec]
  /\ client_writer \in Conns \union {NoConn}
  /\ handler \in [Tasks -> HandlerRec]
  /\ todo \in SUBSET Pids /\ overlapped \in BOOLEAN
  /\ taken \in [Conns -> Nat] /\ dropped \in SUBSET Conns /\ broken \in SUBSET Conns
  /\ sent \in [Conns -> Seq(Message)]
  /\ conn \in [Conns -> ConnRec]
  /\ child \in [Pids -> ChildRec]

LEMMA TypeParts == TypeOK <=> Types
BY DEF TypeOK, Types, Drains, RelayRec, HandlerRec, ConnRec, ChildRec

LEMMA TypesNext == TypeOK' <=> Types'
BY DEF TypeOK, Types, Drains, RelayRec, HandlerRec, ConnRec, ChildRec

LEMMA WaitsIs ==
  ASSUME TypeOK, NEW t \in Tasks, NEW s \in HandlerStates, NEW n \in Names \union {Main},
         NEW p \in Pids \union {NoPid}, NEW w \in Conns \union {NoConn}, Waits(t, s, n, p, w)
  PROVE  /\ handler' \in [Tasks -> HandlerRec]
         /\ handler'[t] = [at |-> s, name |-> n, pid |-> p, writer |-> w]
         /\ \A u \in Tasks : u # t => handler'[u] = handler[u]
<1>1. handler \in [Tasks -> HandlerRec]
  BY TypeParts DEF Types
<1>2. [at |-> s, name |-> n, pid |-> p, writer |-> w] \in HandlerRec
  BY DEF HandlerRec
<1>3. QED
  BY <1>1, <1>2 DEF Waits

\* The task t goes on to s, the others stay where they are.
LEMMA GoesIs ==
  ASSUME TypeOK, NEW t \in Tasks, NEW s \in HandlerStates, Goes(t, s)
  PROVE  /\ handler' \in [Tasks -> HandlerRec] /\ handler'[t].at = s
         /\ \A u \in Tasks : u # t => handler'[u] = handler[u]
<1>1. /\ Main \in Names \union {Main} /\ NoPid \in Pids \union {NoPid}
      /\ NoConn \in Conns \union {NoConn} /\ Waits(t, s, Main, NoPid, NoConn)
  BY DEF Goes
<1> DEFINE h == [at |-> s, name |-> Main, pid |-> NoPid, writer |-> NoConn]
<1>2. /\ handler' \in [Tasks -> HandlerRec] /\ handler'[t] = h
      /\ \A u \in Tasks : u # t => handler'[u] = handler[u]
  BY <1>1, WaitsIs
<1>3. QED
  BY <1>2

\* A handler that changes only its own place, to one it can be in.
LEMMA Remembered ==
  ASSUME Remembers, NEW t \in Conns,
         \A u \in Tasks : u # t => handler'[u] = handler[u],
         handler'[t].at \in {"reading", "spawning", "draining", "termwait", "done"},
         handler'[t].at \in {"spawning", "termwait"} =>
           handler'[t].pid \in Pids /\ handler'[t].name \in Names,
         handler'[t].at = "draining" => handler'[t].writer \in Conns,
         conn'[t].state # "new",
         \A d \in Conns : d # t => (conn'[d].state = "new" <=> conn[d].state = "new")
  PROVE  Remembers'
<1>1. Main \in Tasks /\ Main # t /\ Conns \subseteq Tasks
  BY PyAssumption DEF Tasks
<1>2. QED
  BY <1>1 DEF Remembers

\* A handler that takes a line.
LEMMA TakeIs ==
  ASSUME TypeInv, NEW c \in Conns, NEW r, TakeCommand(c, r)
  PROVE  /\ taken' \in [Conns -> Nat] /\ <<Result(c, taken'[c])>> \in Seq(Message)
         /\ conn' \in [Conns -> ConnRec]
         /\ \A d \in Conns : conn'[d].state = conn[d].state
         /\ conn[c].state # "new" /\ handler[c].at = "reading"
         /\ UNCHANGED <<relay, todo, dropped, overlapped>>
         /\ c \in Tasks
<1>1. TypeOK /\ Remembers /\ taken \in [Conns -> Nat] /\ conn \in [Conns -> ConnRec]
  BY TypeParts DEF TypeInv, Types
<1>2. [conn[c] EXCEPT !.unread = conn[c].unread - 1] \in ConnRec
  BY <1>1 DEF TakeCommand, ConnRec
<1>3. /\ conn' \in [Conns -> ConnRec] /\ \A d \in Conns : conn'[d].state = conn[d].state
  BY <1>1, <1>2 DEF TakeCommand, ConnRec
<1>4. taken' \in [Conns -> Nat]
  BY <1>1 DEF TakeCommand
<1>5. Result(c, taken'[c]) \in Message
  BY <1>4 DEF Result, Message
<1>6. conn[c].state # "new"
  BY <1>1 DEF TakeCommand, Remembers
<1>7. QED
  BY <1>3, <1>4, <1>5, <1>6 DEF TakeCommand, Tasks

\* The answer to the line just taken, or to one taken before.
LEMMA AnswerTyped ==
  ASSUME TypeOK, NEW c \in Conns, NEW ps \in [Pids -> ManagedProcess], Drains(ps),
         taken'[c] \in Nat, Answer(c, ps)
  PROVE  Sends
<1>1. <<Result(c, taken'[c])>> \in Seq(Message)
  BY DEF Result, Message
<1>2. QED
  BY <1>1, SendSends DEF Answer

LEMMA SpawnTyped ==
  ASSUME TypeInv, NEW c \in Conns, NEW n \in Names, CmdSpawn(c, n)
  PROVE  TypeInv' /\ Sends
<1> USE PyAssumption
<1>0. TypeOK /\ Remembers
  BY DEF TypeInv
<1>t. TakeCommand(c, "spawn")
  BY DEF CmdSpawn
<1>1. /\ taken' \in [Conns -> Nat] /\ taken'[c] \in Nat
      /\ conn' \in [Conns -> ConnRec] /\ \A d \in Conns : conn'[d].state = conn[d].state
      /\ conn[c].state # "new" /\ handler[c].at = "reading"
      /\ UNCHANGED <<relay, todo, dropped, overlapped>> /\ c \in Tasks
  BY <1>t, TakeIs
<1>2. /\ mp \in [Pids -> ManagedProcess] /\ Drains(mp) /\ procs \in [Names -> Pids \union {NoPid}]
      /\ child \in [Pids -> ChildRec] /\ handler \in [Tasks -> HandlerRec]
      /\ [procs EXCEPT ![n] = NoPid] \in [Names -> Pids \union {NoPid}]
  BY <1>0, TypeParts DEF Types
<1>3. CASE Answer(c, mp) /\ UNCHANGED <<handler, child>> /\ procs' \in {procs, [procs EXCEPT ![n] = NoPid]}
  <2>1. Sends
    BY <1>0, <1>1, <1>2, <1>3, AnswerTyped
  <2>2. TypeOK'
    BY <1>0, <1>1, <1>2, <1>3, <2>1, TypeParts, TypesNext DEF Sends, Types
  <2>3. Remembers'
    BY <1>0, <1>1, <1>3, Remembered DEF Remembers
  <2>4. QED
    BY <2>1, <2>2, <2>3 DEF TypeInv
<1>4. ASSUME NEW p \in Pids,
             child' = [child EXCEPT ![p] = [@ EXCEPT !.state = "running", !.name = n, !.open = TRUE]],
             Waits(c, "spawning", n, p, NoConn), procs' = [procs EXCEPT ![n] = NoPid],
             UNCHANGED <<mp, client_writer, broken, sent>>
      PROVE  TypeInv' /\ Sends
  <2>c. child[p] \in ChildRec
    BY <1>2, <1>4
  <2>0. [child[p] EXCEPT !.state = "running", !.name = n, !.open = TRUE] \in ChildRec
    BY <2>c DEF ChildRec
  <2>1. child' \in [Pids -> ChildRec]
    BY <1>2, <1>4, <2>0
  <2>2. /\ handler' \in [Tasks -> HandlerRec]
        /\ handler'[c] = [at |-> "spawning", name |-> n, pid |-> p, writer |-> NoConn]
        /\ \A u \in Tasks : u # c => handler'[u] = handler[u]
    BY <1>0, <1>1, <1>4, WaitsIs DEF HandlerStates
  <2>3. TypeOK'
    BY <1>0, <1>1, <1>2, <1>4, <2>1, <2>2, TypeParts, TypesNext DEF Types
  <2>4. Remembers'
    BY <1>0, <1>1, <2>2, Remembered
  <2>5. Sends
    BY <1>0, <1>2, <1>4, TypeParts DEF Types, Sends
  <2>6. QED
    BY <2>3, <2>4, <2>5 DEF TypeInv
<1>5. QED
  BY <1>3, <1>4 DEF CmdSpawn

\* A handler that takes a line, answers it or not, and waits for no more than
\* a child or a drain.
LEMMA TakenTyped ==
  ASSUME TypeInv, NEW c \in Conns, NEW r, TakeCommand(c, r), Sends,
         procs' \in [Names -> Pids \union {NoPid}], UNCHANGED child,
         handler' \in [Tasks -> HandlerRec], \A u \in Tasks : u # c => handler'[u] = handler[u],
         \/ handler'[c].at = "reading"
         \/ /\ handler'[c].at = "termwait"
            /\ handler'[c].pid \in Pids /\ handler'[c].name \in Names
         \/ handler'[c].at = "draining" /\ handler'[c].writer \in Conns
  PROVE  TypeInv'
<1>0. TypeOK /\ Remembers /\ Types
  BY TypeParts DEF TypeInv
<1>1. /\ taken' \in [Conns -> Nat] /\ conn' \in [Conns -> ConnRec]
      /\ \A d \in Conns : conn'[d].state = conn[d].state
      /\ conn[c].state # "new" /\ UNCHANGED <<relay, todo, dropped, overlapped>>
  BY TakeIs
<1>2. Types'
  BY <1>0, <1>1 DEF Types, Sends
<1>3. Remembers'
  BY <1>0, <1>1, Remembered
<1>4. QED
  BY <1>2, <1>3, TypesNext DEF TypeInv

\* One that only answers.
LEMMA AnsweredTyped ==
  ASSUME TypeInv, NEW c \in Conns, NEW r, TakeCommand(c, r),
         NEW ps \in [Pids -> ManagedProcess], Drains(ps), Answer(c, ps),
         procs' \in [Names -> Pids \union {NoPid}], UNCHANGED <<handler, child>>
  PROVE  TypeInv' /\ Sends
<1>1. TypeOK /\ Types /\ taken'[c] \in Nat /\ handler[c].at = "reading"
  BY TypeParts, TakeIs DEF TypeInv
<1>2. Sends
  BY <1>1, AnswerTyped
<1>3. QED
  BY <1>1, <1>2, TakenTyped DEF Types

LEMMA KillTyped ==
  ASSUME TypeInv, NEW c \in Conns, NEW n \in Names, CmdKill(c, n)
  PROVE  TypeInv' /\ Sends
<1> USE PyAssumption
<1>0. TypeOK /\ Types /\ TakeCommand(c, "kill") /\ UNCHANGED child /\ c \in Tasks
  BY TypeParts DEF TypeInv, CmdKill, Tasks
<1>1. CASE /\ Running(n) /\ Waits(c, "termwait", n, procs[n], NoConn)
           /\ UNCHANGED <<procs, mp, client_writer, broken, sent>>
  <2>1. procs[n] \in Pids
    BY <1>0, <1>1 DEF Types, Running, Managed
  <2>2. /\ handler' \in [Tasks -> HandlerRec]
        /\ handler'[c] = [at |-> "termwait", name |-> n, pid |-> procs[n], writer |-> NoConn]
        /\ \A u \in Tasks : u # c => handler'[u] = handler[u]
    BY <1>0, <1>1, <2>1, WaitsIs DEF HandlerStates
  <2>3. Sends
    BY <1>0, <1>1 DEF Types, Sends, Drains
  <2>4. /\ handler'[c].at = "termwait" /\ handler'[c].pid \in Pids
        /\ handler'[c].name \in Names
    BY <2>1, <2>2
  <2>5. procs' \in [Names -> Pids \union {NoPid}]
    BY <1>0, <1>1 DEF Types
  <2>6. QED
    BY <1>0, <2>2, <2>3, <2>4, <2>5, TakenTyped
<1>2. CASE ~Running(n) /\ procs' = [procs EXCEPT ![n] = NoPid] /\ Answer(c, mp) /\ UNCHANGED handler
  BY <1>0, <1>2, AnsweredTyped DEF Types
<1>3. QED
  BY <1>1, <1>2 DEF CmdKill

\* What subscribe makes of the table's process.
LEMMA SubscribedIs ==
  ASSUME TypeOK, NEW n \in Names, Managed(n)
  PROVE  /\ procs[n] \in Pids /\ mp[procs[n]].buffer \in Seq(Message)
         /\ mp[procs[n]].buffer \in Seq(Relayed)
         /\ Subscribed(n) \in [Pids -> ManagedProcess] /\ Drains(Subscribed(n))
         /\ Subscribed(n)[procs[n]].buffer = << >>
         /\ Subscribed(n)[procs[n]].status = mp[procs[n]].status
         /\ \A p \in Pids : p # procs[n] => Subscribed(n)[p] = mp[p]
<1> DEFINE q == procs[n]
           e == [mp[q] EXCEPT !.buffer = << >>, !.subscribed = TRUE]
<1>1. q \in Pids /\ mp \in [Pids -> ManagedProcess] /\ Drains(mp)
  BY TypeParts DEF Types, Managed
<1>2. mp[q] \in ManagedProcess
  BY <1>1
<1>3. mp[q].buffer \in Seq(Relayed) /\ Relayed \subseteq Message
  BY <1>2 DEF ManagedProcess, Message
<1>4. mp[q].buffer \in Seq(Message)
  BY <1>3
<1>n. << >> \in Seq(Relayed)
  OBVIOUS
<1>5. e \in ManagedProcess /\ e.buffer = << >> /\ e.status = mp[q].status
  BY <1>2, <1>n DEF ManagedProcess
<1>6. Subscribed(n) = [mp EXCEPT ![q] = e]
  BY DEF Subscribed
<1> HIDE DEF e
<1>7. /\ Subscribed(n) \in [Pids -> ManagedProcess] /\ Subscribed(n)[q] = e
      /\ \A p \in Pids : p # q => Subscribed(n)[p] = mp[p]
  BY <1>1, <1>5, <1>6
<1>8. QED
  BY <1>1, <1>3, <1>4, <1>5, <1>7 DEF Drains

LEMMA SubscribeTyped ==
  ASSUME TypeInv, NEW c \in Conns, NEW n \in Names, CmdSubscribe(c, n)
  PROVE  TypeInv' /\ Sends
<1> USE PyAssumption
<1>0. /\ TypeOK /\ Types /\ TakeCommand(c, "subscribe") /\ UNCHANGED <<procs, child>>
      /\ c \in Tasks /\ procs' \in [Names -> Pids \union {NoPid}]
      /\ handler \in [Tasks -> HandlerRec] /\ handler[c].at = "reading"
      /\ taken'[c] \in Nat /\ Result(c, taken'[c]) \in Message
  BY TypeParts, TakeIs DEF TypeInv, CmdSubscribe, Tasks, Types, Message, Result
<1>1. CASE ~Managed(n) /\ Answer(c, mp) /\ UNCHANGED handler
  BY <1>0, <1>1, AnsweredTyped DEF Types
<1>2. CASE /\ Managed(n) /\ UNCHANGED handler
           /\ SendToClient(Append(mp[procs[n]].buffer, Result(c, taken'[c])), Subscribed(n))
  <2>1. Append(mp[procs[n]].buffer, Result(c, taken'[c])) \in Seq(Message)
    BY <1>0, <1>2, SubscribedIs
  <2>2. Sends
    BY <1>0, <1>2, <2>1, SubscribedIs, SendSends
  <2>3. QED
    BY <1>0, <1>2, <2>2, TakenTyped
<1>3. CASE /\ Managed(n) /\ client_writer # NoConn
           /\ Waits(c, "draining", n, procs[n], client_writer)
           /\ SendToClient(mp[procs[n]].buffer, Subscribed(n))
  <2>1. client_writer \in Conns /\ procs[n] \in Pids
    BY <1>0, <1>3, SubscribedIs DEF Types
  <2>2. Sends
    BY <1>0, <1>3, SubscribedIs, SendSends
  <2>3. /\ handler' \in [Tasks -> HandlerRec]
        /\ handler'[c] = [at |-> "draining", name |-> n, pid |-> procs[n], writer |-> client_writer]
        /\ \A u \in Tasks : u # c => handler'[u] = handler[u]
    BY <1>0, <1>3, <2>1, WaitsIs DEF HandlerStates
  <2>4. QED
    BY <1>0, <2>1, <2>2, <2>3, TakenTyped
<1>4. QED
  BY <1>1, <1>2, <1>3 DEF CmdSubscribe

LEMMA CommandTyped ==
  ASSUME TypeInv, NEW c \in Conns, Command(c)
  PROVE  TypeInv' /\ Sends
<1>0. Types /\ Drains(mp)
  BY TypeParts DEF TypeInv, Types
<1>1. ASSUME NEW n \in Names, CmdUnsubscribe(c, n) PROVE TypeInv' /\ Sends
  <2> DEFINE ps == IF Managed(n) THEN [mp EXCEPT ![procs[n]].subscribed = FALSE] ELSE mp
  <2>1. ps \in [Pids -> ManagedProcess] /\ Drains(ps)
    <3>1. CASE Managed(n)
      <4>1. procs[n] \in Pids /\ mp[procs[n]] \in ManagedProcess
        BY <1>0, <1>1, <3>1 DEF Types, Managed
      <4>2. /\ [mp[procs[n]] EXCEPT !.subscribed = FALSE] \in ManagedProcess
            /\ ~[mp[procs[n]] EXCEPT !.subscribed = FALSE].subscribed
        BY <4>1 DEF ManagedProcess
      <4>3. QED
        BY <1>0, <3>1, <4>1, <4>2 DEF Types, Drains
    <3>2. QED
      BY <1>0, <3>1 DEF Types
  <2>2. Answer(c, ps) /\ TakeCommand(c, "unsubscribe") /\ UNCHANGED <<procs, handler, child>>
    BY <1>1 DEF CmdUnsubscribe
  <2> HIDE DEF ps
  <2>3. QED
    BY <1>0, <2>1, <2>2, AnsweredTyped DEF Types
<1>2. CASE CmdStatus(c)
  BY <1>0, <1>2, AnsweredTyped DEF CmdStatus, Types
<1>3. QED
  BY <1>1, <1>2, SpawnTyped, KillTyped, SubscribeTyped DEF Command

LEMMA TakesOverTyped ==
  ASSUME TypeInv, NEW c \in Conns, HandleClient(c) \/ HandlerEnds(c)
  PROVE  TypeInv'
<1> USE PyAssumption
<1>0. TypeOK /\ Remembers /\ Types /\ c \in Tasks /\ mp \in [Pids -> ManagedProcess] /\ Drains(mp)
  BY TypeParts DEF TypeInv, Types, Tasks
<1>1. Unsubscribed(mp) \in [Pids -> ManagedProcess] /\ Drains(Unsubscribed(mp))
  BY <1>0, UnsubscribedIs
<1>2. CASE HandleClient(c)
  <2>1. /\ handler' \in [Tasks -> HandlerRec] /\ handler'[c].at = "reading"
        /\ \A u \in Tasks : u # c => handler'[u] = handler[u]
    BY <1>0, <1>2, GoesIs DEF HandleClient, HandlerStates
  <2>c. conn[c] \in ConnRec
    BY <1>0 DEF Types
  <2>2. [conn[c] EXCEPT !.state = "open"] \in ConnRec
    BY <2>c DEF ConnRec
  <2>3. /\ conn' \in [Conns -> ConnRec] /\ conn'[c].state = "open"
        /\ \A d \in Conns : d # c => conn'[d] = conn[d]
    BY <1>0, <1>2, <2>2 DEF HandleClient, Types, ConnRec
  <2>4. mp' = Unsubscribed(mp) /\ client_writer' = c
    BY <1>2 DEF HandleClient
  <2>5. dropped' \in SUBSET Conns /\ overlapped' \in BOOLEAN
    BY <1>0, <1>2 DEF HandleClient, Types
  <2>6. Types'
    BY <1>0, <1>1, <1>2, <2>1, <2>3, <2>4, <2>5 DEF HandleClient, Types
  <2>7. Remembers'
    BY <1>0, <2>1, <2>3, Remembered
  <2>8. QED
    BY <2>6, <2>7, TypesNext DEF TypeInv
<1>3. CASE HandlerEnds(c)
  <2>1. /\ handler' \in [Tasks -> HandlerRec] /\ handler'[c].at = "done"
        /\ \A u \in Tasks : u # c => handler'[u] = handler[u]
    BY <1>0, <1>3, GoesIs DEF HandlerEnds, HandlerStates
  <2>2. /\ mp' \in [Pids -> ManagedProcess] /\ Drains(mp')
        /\ client_writer' \in Conns \union {NoConn}
    BY <1>0, <1>1, <1>3 DEF HandlerEnds, Types
  <2>3. UNCHANGED <<procs, relay, todo, streams, conn, child, overlapped>>
        /\ conn[c].state # "new"
    BY <1>0, <1>3 DEF HandlerEnds, Remembers
  <2>4. Types'
    BY <1>0, <2>1, <2>2, <2>3 DEF Types, streams
  <2>5. Remembers'
    BY <1>0, <2>1, <2>3, Remembered
  <2>6. QED
    BY <2>4, <2>5, TypesNext DEF TypeInv
<1>4. QED
  BY <1>2, <1>3

\* A handler that goes on after its wait.
LEMMA ReturnsTyped ==
  ASSUME TypeInv, NEW c \in Conns, handler[c].at # "new", Goes(c, "reading"), Sends,
         procs' \in [Names -> Pids \union {NoPid}], relay' \in [Pids -> RelayRec],
         UNCHANGED <<todo, taken, dropped, conn, child, overlapped>>
  PROVE  TypeInv'
<1>0. TypeOK /\ Remembers /\ Types /\ c \in Tasks
  BY TypeParts DEF TypeInv, Tasks
<1>1. /\ handler' \in [Tasks -> HandlerRec] /\ handler'[c].at = "reading"
      /\ \A u \in Tasks : u # c => handler'[u] = handler[u]
  BY <1>0, GoesIs DEF HandlerStates
<1>2. Types'
  BY <1>0, <1>1 DEF Types, Sends
<1>3. Remembers'
  BY <1>0, <1>1, Remembered DEF Remembers
<1>4. QED
  BY <1>2, <1>3, TypesNext DEF TypeInv

\* A ManagedProcess that is changed for p alone.
LEMMA ProcessSet ==
  ASSUME TypeOK, NEW p \in Pids, NEW e \in ManagedProcess, e.subscribed => e.buffer = << >>
  PROVE  /\ [mp EXCEPT ![p] = e] \in [Pids -> ManagedProcess] /\ Drains([mp EXCEPT ![p] = e])
         /\ [mp EXCEPT ![p] = e][p] = e
         /\ \A q \in Pids : q # p => [mp EXCEPT ![p] = e][q] = mp[q]
BY TypeParts DEF Types, Drains

LEMMA ProcessIs ==
  /\ Process("running") \in ManagedProcess
  /\ ~Process("running").subscribed /\ Process("running").buffer = << >>
  /\ Process("running").status = "running"
<1>1. << >> \in Seq(Relayed)
  OBVIOUS
<1>2. QED
  BY <1>1 DEF Process, ManagedProcess

\* A process that exits.
LEMMA ExitedIs ==
  ASSUME TypeOK, NEW p \in Pids
  PROVE  /\ [mp EXCEPT ![p].status = "exited"] \in [Pids -> ManagedProcess]
         /\ Drains([mp EXCEPT ![p].status = "exited"])
         /\ [mp EXCEPT ![p].status = "exited"][p].status = "exited"
         /\ [mp EXCEPT ![p].status = "exited"][p].buffer = mp[p].buffer
         /\ [mp EXCEPT ![p].status = "exited"][p].subscribed = mp[p].subscribed
         /\ \A q \in Pids : q # p => [mp EXCEPT ![p].status = "exited"][q] = mp[q]
<1> DEFINE e == [mp[p] EXCEPT !.status = "exited"]
<1>1. mp[p] \in ManagedProcess /\ (mp[p].subscribed => mp[p].buffer = << >>)
  BY DEF TypeOK
<1>2. /\ e \in ManagedProcess /\ e.status = "exited" /\ e.buffer = mp[p].buffer
      /\ e.subscribed = mp[p].subscribed
  BY <1>1 DEF ManagedProcess
<1>3. [mp EXCEPT ![p].status = "exited"] = [mp EXCEPT ![p] = e]
  OBVIOUS
<1> HIDE DEF e
<1>4. e.subscribed => e.buffer = << >>
  BY <1>1, <1>2
<1>5. QED
  BY <1>2, <1>3, <1>4, ProcessSet

LEMMA ResumedTyped ==
  ASSUME TypeInv, NEW c \in Conns, Spawned(c) \/ Drained(c)
  PROVE  TypeInv' /\ Sends
<1> USE PyAssumption
<1>0. TypeOK /\ Remembers /\ Types /\ Drains(mp) /\ taken[c] \in Nat
  BY TypeParts DEF TypeInv, Types
<1>1. CASE Spawned(c)
  <2> DEFINE p == handler[c].pid
             ps == [mp EXCEPT ![p] = Process("running")]
  <2>1. p \in Pids /\ handler[c].name \in Names /\ handler[c].at # "new"
    BY <1>0, <1>1 DEF Spawned, Remembers
  <2>2. ps \in [Pids -> ManagedProcess] /\ Drains(ps)
    BY <1>0, <2>1, ProcessSet, ProcessIs
  <2>3. /\ procs' = [procs EXCEPT ![handler[c].name] = p]
        /\ relay' = [relay EXCEPT ![p].at = "reading"]
        /\ taken' = taken /\ Answer(c, ps) /\ Goes(c, "reading")
        /\ UNCHANGED <<todo, taken, dropped, conn, child, overlapped>>
    BY <1>1 DEF Spawned
  <2> HIDE DEF ps
  <2>4. Sends
    BY <1>0, <2>2, <2>3, AnswerTyped
  <2>r. relay[p] \in RelayRec
    BY <1>0, <2>1 DEF Types
  <2>5. [relay[p] EXCEPT !.at = "reading"] \in RelayRec
    BY <2>r DEF RelayRec
  <2>6. relay' \in [Pids -> RelayRec] /\ procs' \in [Names -> Pids \union {NoPid}]
    BY <1>0, <2>1, <2>3, <2>5 DEF Types
  <2>7. QED
    BY <1>0, <2>1, <2>3, <2>4, <2>6, ReturnsTyped
<1>2. CASE Drained(c)
  <2>1. handler[c].writer \in Conns /\ handler[c].at # "new"
    BY <1>0, <1>2 DEF Drained, Remembers
  <2>2. Goes(c, "reading") /\ UNCHANGED <<procs, relay, todo, taken, dropped, conn, child, overlapped>>
    BY <1>2 DEF Drained
  <2>3. CASE Answer(c, mp)
    <3>1. Sends
      BY <1>0, <2>2, <2>3, AnswerTyped DEF Types
    <3>2. QED
      BY <1>0, <2>1, <2>2, <3>1, ReturnsTyped DEF Types
  <2>4. CASE UNCHANGED <<mp, client_writer, broken, sent>>
    <3>1. Sends
      BY <1>0, <2>4 DEF Types, Sends, Drains
    <3>2. QED
      BY <1>0, <2>1, <2>2, <3>1, ReturnsTyped DEF Types
  <2>5. CASE conn[handler[c].writer].state = "closed" /\ SendFails(handler[c].writer, mp)
    <3>1. Sends
      BY <1>0, <2>1, <2>5, SendFailsIs DEF Types, Sends
    <3>2. QED
      BY <1>0, <2>1, <2>2, <3>1, ReturnsTyped DEF Types
  <2>6. QED
    BY <1>2, <2>3, <2>4, <2>5 DEF Drained
<1>3. QED
  BY <1>1, <1>2

LEMMA KillingTyped ==
  ASSUME TypeInv, NEW t \in Tasks, Killing(t)
  PROVE  TypeInv' /\ Sends
<1> USE PyAssumption
<1>0. /\ TypeOK /\ Remembers /\ Types /\ Drains(mp) /\ Main \in Tasks
      /\ Conns \subseteq Tasks
  BY TypeParts DEF TypeInv, Types, Tasks
<1>1. handler[t].at = "termwait" /\ handler[t].pid \in Pids
  BY <1>0 DEF Killing, KillReaped, KillTimeout, Remembers, Tasks
<1> DEFINE p == handler[t].pid
<1>2. CASE KillReaped(t)
  <2> DEFINE ps == [mp EXCEPT ![p].status = "exited"]
  <2>1. ps \in [Pids -> ManagedProcess] /\ Drains(ps)
    BY <1>0, <1>1, ExitedIs
  <2>r. relay[p] \in RelayRec
    BY <1>0, <1>1 DEF Types
  <2>2. [relay[p] EXCEPT !.at = "done"] \in RelayRec
    BY <2>r DEF RelayRec
  <2>3. relay' \in [Pids -> RelayRec]
    BY <1>0, <1>1, <1>2, <2>2 DEF KillReaped, Types
  <2>4. CASE /\ t \in Conns /\ Goes(t, "reading")
             /\ procs' = [procs EXCEPT ![handler[t].name] = NoPid]
             /\ UNCHANGED taken /\ Answer(t, ps)
    <3> HIDE DEF ps
    <3>1. Sends
      BY <1>0, <2>1, <2>4, AnswerTyped DEF Types
    <3>2. procs' \in [Names -> Pids \union {NoPid}]
      BY <1>0, <2>4 DEF Types
    <3>3. UNCHANGED <<todo, dropped, conn, child, overlapped>>
      BY <1>2 DEF KillReaped
    <3>4. QED
      BY <1>1, <2>3, <2>4, <3>1, <3>2, <3>3, ReturnsTyped
  <2>5. CASE /\ t = Main /\ Goes(t, "killing") /\ mp' = ps
             /\ UNCHANGED <<procs, taken, client_writer, broken, sent>>
    <3> HIDE DEF ps
    <3>1. UNCHANGED <<todo, dropped, conn, child, overlapped>>
      BY <1>2 DEF KillReaped
    <3>2. /\ handler' \in [Tasks -> HandlerRec] /\ handler'[Main].at = "killing"
          /\ \A u \in Tasks : u # Main => handler'[u] = handler[u]
      BY <1>0, <2>5, GoesIs DEF HandlerStates
    <3>3. Types'
      BY <1>0, <2>1, <2>3, <2>5, <3>1, <3>2 DEF Types
    <3>4. Remembers'
      BY <1>0, <3>1, <3>2 DEF Remembers
    <3>5. Sends
      BY <1>0, <2>1, <2>5 DEF Types, Sends
    <3>6. QED
      BY <3>3, <3>4, <3>5, TypesNext DEF TypeInv
  <2>6. QED
    BY <1>2, <2>4, <2>5 DEF KillReaped
<1>3. CASE KillTimeout(t)
  <2>r. child[p] \in ChildRec
    BY <1>0, <1>1 DEF Types
  <2>1. [child[p] EXCEPT !.state = "dead"] \in ChildRec
    BY <2>r DEF ChildRec
  <2>2. child' \in [Pids -> ChildRec]
    BY <1>0, <1>1, <1>3, <2>1 DEF KillTimeout, Types
  <2>3. Types'
    BY <1>0, <1>3, <2>2 DEF KillTimeout, Types, tasks, streams
  <2>4. Remembers'
    BY <1>0, <1>3 DEF KillTimeout, Remembers, tasks
  <2>5. Sends
    BY <1>0, <1>3 DEF KillTimeout, Types, Sends, tasks, streams, Drains
  <2>6. QED
    BY <2>3, <2>4, <2>5, TypesNext DEF TypeInv
<1>4. QED
  BY <1>2, <1>3 DEF Killing

\* Main goes on to s, or stays where it is.
LEMMA MainTyped ==
  ASSUME TypeInv, NEW s \in {"serving", "killing", "termwait", "closing"},
         NEW n \in Names \union {Main}, NEW p \in Pids \union {NoPid},
         s = "termwait" => p \in Pids,
         Waits(Main, s, n, p, NoConn) \/ UNCHANGED handler,
         todo' \in SUBSET Pids, client_writer' \in Conns \union {NoConn},
         dropped' \in SUBSET Conns,
         UNCHANGED <<procs, mp, relay, taken, broken, sent, conn, child, overlapped>>
  PROVE  TypeInv'
<1> USE PyAssumption
<1>0. /\ TypeOK /\ Remembers /\ Types /\ Main \in Tasks /\ Conns \subseteq Tasks
      /\ NoConn \in Conns \union {NoConn} /\ s \in HandlerStates
  BY TypeParts DEF TypeInv, Tasks, HandlerStates
<1>1. CASE Waits(Main, s, n, p, NoConn)
  <2> DEFINE h == [at |-> s, name |-> n, pid |-> p, writer |-> NoConn]
  <2>1. /\ handler' \in [Tasks -> HandlerRec] /\ handler'[Main] = h
        /\ \A u \in Tasks : u # Main => handler'[u] = handler[u]
    BY <1>0, <1>1, WaitsIs
  <2>2. h.at = s /\ h.pid = p
    OBVIOUS
  <2> HIDE DEF h
  <2>3. Types'
    BY <1>0, <2>1 DEF Types
  <2>4. Remembers'
    BY <1>0, <2>1, <2>2 DEF Remembers
  <2>5. QED
    BY <2>3, <2>4, TypesNext DEF TypeInv
<1>2. CASE UNCHANGED handler
  <2>1. Types'
    BY <1>0, <1>2 DEF Types, Drains
  <2>2. Remembers'
    BY <1>0, <1>2 DEF Remembers
  <2>3. QED
    BY <2>1, <2>2, TypesNext DEF TypeInv
<1>3. QED
  BY <1>1, <1>2

LEMMA StoppingTyped ==
  ASSUME TypeInv, Stopping
  PROVE  TypeInv'
<1> USE PyAssumption
<1>0. /\ TypeOK /\ Remembers /\ Types /\ Main \in Tasks /\ Main \in Names \union {Main}
      /\ NoPid \in Pids \union {NoPid}
  BY TypeParts DEF TypeInv, Tasks
<1>1. CASE Shutdown
  <2>1. Waits(Main, "killing", Main, NoPid, NoConn) /\ todo' \in SUBSET Pids
    BY <1>1 DEF Shutdown, Goes
  <2>2. UNCHANGED <<procs, mp, relay, client_writer, streams, conn, child, overlapped>>
    BY <1>1 DEF Shutdown
  <2>3. QED
    BY <1>0, <2>1, <2>2, MainTyped DEF Types, streams
<1>2. CASE ShutdownCloses
  <2>1. Waits(Main, "closing", Main, NoPid, NoConn)
    BY <1>2 DEF ShutdownCloses, Goes
  <2>2. client_writer' \in Conns \union {NoConn} /\ dropped' \in SUBSET Conns
        /\ UNCHANGED <<procs, mp, relay, todo, taken, broken, sent, conn, child, overlapped>>
    BY <1>0, <1>2 DEF ShutdownCloses, Types
  <2>3. QED
    BY <1>0, <2>1, <2>2, MainTyped DEF Types
<1>3. ASSUME NEW p \in Pids, ShutdownNext(p) PROVE TypeInv'
  <2>1. child[p].name \in Names \union {Main} /\ p \in Pids \union {NoPid}
    BY <1>0, <1>3 DEF Types, ChildRec
  <2>2. /\ Waits(Main, "termwait", child[p].name, p, NoConn) \/ UNCHANGED handler
        /\ todo' \in SUBSET Pids
        /\ UNCHANGED <<procs, mp, relay, client_writer, streams, conn, child, overlapped>>
    BY <1>0, <1>3 DEF ShutdownNext, Types
  <2>3. QED
    BY <1>0, <1>3, <2>1, <2>2, MainTyped DEF Types, streams
<1>4. QED
  BY <1>0, <1>1, <1>2, <1>3, KillingTyped DEF Stopping

\* The message the relay task of p sends or buffers, and to what.
Relaying(p) == RelayStdout(p) \/ RelayExit(p)

LEMMA RelayIs ==
  ASSUME TypeOK, NEW p \in Pids, Relaying(p)
  PROVE  \E m \in Relayed, ps \in [Pids -> ManagedProcess] :
           /\ m.from = p /\ m.seq = relay[p].taken + 1
           /\ ps[p].buffer = mp[p].buffer /\ ps[p].subscribed = mp[p].subscribed
           /\ ps[p].status \in {mp[p].status, "exited"}
           /\ \A q \in Pids : q # p => ps[q] = mp[q]
           /\ Drains(ps) /\ RelayOrBuffer(p, m, ps) /\ RelayStands
           /\ relay' \in [Pids -> RelayRec] /\ relay'[p].taken = relay[p].taken + 1
           /\ \A q \in Pids : q # p => relay'[q] = relay[q]
<1>0. Types /\ Drains(mp) /\ relay \in [Pids -> RelayRec] /\ relay[p] \in RelayRec
  BY TypeParts DEF Types
<1>n. relay[p].taken \in Nat /\ relay[p].taken + 1 \in Nat
  BY <1>0 DEF RelayRec
<1>1. CASE RelayStdout(p)
  <2>1. [relay[p] EXCEPT !.taken = relay[p].taken + 1] \in RelayRec
    BY <1>0, <1>n DEF RelayRec
  <2>2. /\ relay' \in [Pids -> RelayRec] /\ relay'[p].taken = relay[p].taken + 1
        /\ \A q \in Pids : q # p => relay'[q] = relay[q]
    BY <1>0, <1>1, <2>1 DEF RelayStdout, RelayRec
  <2> DEFINE m == Out(p, relay[p].taken + 1)
  <2>3. m \in Relayed /\ m.from = p /\ m.seq = relay[p].taken + 1
    BY <1>n DEF Out, Relayed
  <2>4. RelayOrBuffer(p, m, mp) /\ RelayStands
    BY <1>1, <2>2 DEF RelayStdout
  <2> HIDE DEF m
  <2>5. QED
    BY <1>0, <2>2, <2>3, <2>4 DEF Types
<1>2. CASE RelayExit(p)
  <2> DEFINE e == [at |-> "done", taken |-> relay[p].taken + 1]
             m == Exit(p, relay[p].taken + 1)
             ps == [mp EXCEPT ![p].status = "exited"]
  <2>1. e \in RelayRec /\ e.taken = relay[p].taken + 1
    BY <1>n DEF RelayRec
  <2>2. relay' = [relay EXCEPT ![p] = e]
    BY <1>2 DEF RelayExit
  <2> HIDE DEF e
  <2>3. /\ relay' \in [Pids -> RelayRec] /\ relay'[p].taken = relay[p].taken + 1
        /\ \A q \in Pids : q # p => relay'[q] = relay[q]
    BY <1>0, <2>1, <2>2
  <2>4. m \in Relayed /\ m.from = p /\ m.seq = relay[p].taken + 1
    BY <1>n DEF Exit, Relayed
  <2>5. RelayOrBuffer(p, m, ps) /\ RelayStands
    BY <1>2, <2>3 DEF RelayExit
  <2>6. /\ ps \in [Pids -> ManagedProcess] /\ Drains(ps)
        /\ ps[p].status = "exited" /\ ps[p].buffer = mp[p].buffer
        /\ ps[p].subscribed = mp[p].subscribed
        /\ \A q \in Pids : q # p => ps[q] = mp[q]
    BY ExitedIs
  <2> HIDE DEF m, ps
  <2>7. QED
    BY <2>3, <2>4, <2>5, <2>6
<1>3. QED
  BY <1>1, <1>2 DEF Relaying

\* A relay that ends on a line it cannot read.
LEMMA RelayFailsIs ==
  ASSUME TypeOK, NEW p \in Pids, RelayFails(p)
  PROVE  /\ relay' \in [Pids -> RelayRec] /\ relay[p].at = "reading"
         /\ \A q \in Pids : \/ relay'[q].taken = relay[q].taken /\ relay'[q].at # "none"
                            \/ relay'[q] = relay[q]
         /\ UNCHANGED <<mp, client_writer, broken, sent>> /\ RelayStands
<1>1. relay \in [Pids -> RelayRec] /\ relay[p] \in RelayRec
  BY TypeParts DEF Types
<1> DEFINE e == [relay[p] EXCEPT !.at = "done"]
<1>2. e \in RelayRec /\ e.taken = relay[p].taken /\ e.at # "none"
  BY <1>1 DEF RelayRec
<1>3. relay' = [relay EXCEPT ![p] = e]
  BY DEF RelayFails
<1> HIDE DEF e
<1>4. QED
  BY <1>1, <1>2, <1>3 DEF RelayFails

\* A message that is buffered is added to the buffer of its own child.
LEMMA BufferedIs ==
  ASSUME NEW p \in Pids, NEW m \in Relayed, NEW ps \in [Pids -> ManagedProcess],
         Drains(ps), ~ps[p].subscribed,
         mp' = [ps EXCEPT ![p].buffer = Append(@, m)]
  PROVE  /\ mp' \in [Pids -> ManagedProcess] /\ Drains(mp')
         /\ mp'[p].buffer = Append(ps[p].buffer, m) /\ mp'[p].status = ps[p].status
         /\ \A q \in Pids : mp'[q].subscribed = ps[q].subscribed
         /\ \A q \in Pids : q # p => mp'[q] = ps[q]
<1> DEFINE e == [ps[p] EXCEPT !.buffer = Append(ps[p].buffer, m)]
<1>1. ps[p] \in ManagedProcess
  OBVIOUS
<1>2. Append(ps[p].buffer, m) \in Seq(Relayed)
  BY <1>1 DEF ManagedProcess
<1>3. /\ e \in ManagedProcess /\ e.buffer = Append(ps[p].buffer, m)
      /\ e.status = ps[p].status /\ e.subscribed = ps[p].subscribed
  BY <1>1, <1>2 DEF ManagedProcess
<1>4. mp' = [ps EXCEPT ![p] = e]
  OBVIOUS
<1> HIDE DEF e
<1>5. QED
  BY <1>3, <1>4 DEF Drains

LEMMA RelayTyped ==
  ASSUME TypeInv, NEW p \in Pids, Relay(p)
  PROVE  TypeInv' /\ Sends
<1>0. TypeOK /\ Remembers /\ Types
  BY TypeParts DEF TypeInv
<1>1. ASSUME Relaying(p) PROVE RelayStands /\ Sends /\ relay' \in [Pids -> RelayRec]
  <2>1. PICK m \in Relayed, ps \in [Pids -> ManagedProcess] :
             /\ ps[p].subscribed = mp[p].subscribed
             /\ Drains(ps) /\ RelayOrBuffer(p, m, ps) /\ RelayStands
             /\ relay' \in [Pids -> RelayRec]
    BY <1>0, <1>1, RelayIs
  <2>2. CASE mp[p].subscribed /\ SendToClient(<<m>>, ps)
    <3>1. <<m>> \in Seq(Message)
      BY DEF Message
    <3>2. QED
      BY <1>0, <2>1, <2>2, <3>1, SendSends
  <2>3. CASE /\ ~mp[p].subscribed /\ mp' = [ps EXCEPT ![p].buffer = Append(@, m)]
             /\ UNCHANGED <<client_writer, broken, sent>>
    <3>1. mp' \in [Pids -> ManagedProcess] /\ Drains(mp')
      BY <2>1, <2>3, BufferedIs
    <3>2. QED
      BY <1>0, <2>1, <2>3, <3>1 DEF Sends, Types
  <2>4. QED
    BY <2>1, <2>2, <2>3 DEF RelayOrBuffer
<1>2. ASSUME RelayFails(p) PROVE RelayStands /\ Sends /\ relay' \in [Pids -> RelayRec]
  <2>1. /\ relay' \in [Pids -> RelayRec] /\ RelayStands
        /\ UNCHANGED <<mp, client_writer, broken, sent>>
    BY <1>0, <1>2, RelayFailsIs
  <2>2. QED
    BY <1>0, <2>1 DEF Types, Sends, Drains
<1>3. RelayStands /\ Sends /\ relay' \in [Pids -> RelayRec]
  BY <1>1, <1>2 DEF Relay, Relaying
<1>4. Types'
  BY <1>0, <1>3 DEF Types, RelayStands, Sends
<1>5. Remembers'
  BY <1>0, <1>3 DEF Remembers, RelayStands
<1>6. QED
  BY <1>3, <1>4, <1>5, TypesNext DEF TypeInv

LEMMA EnvironmentTyped ==
  ASSUME TypeInv, Environment
  PROVE  TypeInv'
<1> USE PyAssumption
<1>0. TypeOK /\ Remembers /\ Types
  BY TypeParts DEF TypeInv
\* A client's end, or a child, goes on.
<1>1. ASSUME NEW c \in Conns, NEW e \in ConnRec, e.state # "new", conn[c].state # "new",
             conn' = [conn EXCEPT ![c] = e], sent' \in [Conns -> Seq(Message)],
             UNCHANGED <<tasks, taken, dropped, broken, child, overlapped>>
      PROVE  TypeInv'
  <2>1. /\ conn' \in [Conns -> ConnRec]
        /\ \A d \in Conns : conn'[d].state = "new" <=> conn[d].state = "new"
    BY <1>0, <1>1 DEF Types
  <2>2. Types'
    BY <1>0, <1>1, <2>1 DEF Types, tasks, Drains
  <2>3. Remembers'
    BY <1>0, <1>1, <2>1 DEF Remembers, tasks
  <2>4. QED
    BY <2>2, <2>3, TypesNext DEF TypeInv
<1>2. ASSUME NEW p \in Pids, NEW e \in ChildRec, child' = [child EXCEPT ![p] = e],
             UNCHANGED <<tasks, streams, conn, overlapped>>
      PROVE  TypeInv'
  <2>1. child' \in [Pids -> ChildRec]
    BY <1>0, <1>2 DEF Types
  <2>2. Types'
    BY <1>0, <1>2, <2>1 DEF Types, tasks, streams, Drains
  <2>3. Remembers'
    BY <1>0, <1>2 DEF Remembers, tasks
  <2>4. QED
    BY <2>2, <2>3, TypesNext DEF TypeInv
<1>3. ASSUME NEW c \in Conns, ClientSends(c) PROVE TypeInv'
  <2> DEFINE e == [conn[c] EXCEPT !.received = @ + 1, !.unread = @ + 1]
  <2>1. conn[c] \in ConnRec /\ conn[c].state = "open"
    BY <1>0, <1>3 DEF Types, ClientSends
  <2>n. conn[c].received + 1 \in Nat /\ conn[c].unread + 1 \in Nat
    BY <2>1 DEF ConnRec
  <2>2. e \in ConnRec /\ e.state # "new"
    BY <2>1, <2>n DEF ConnRec
  <2>3. conn' = [conn EXCEPT ![c] = e] /\ UNCHANGED <<tasks, streams, child, overlapped>>
    BY <1>3 DEF ClientSends
  <2> HIDE DEF e
  <2>4. QED
    BY <1>0, <1>1, <1>3, <2>1, <2>2, <2>3 DEF Types, streams
<1>4. ASSUME NEW c \in Conns, ClientCloses(c) PROVE TypeInv'
  <2> DEFINE e == [conn[c] EXCEPT !.state = "closed"]
  <2>1. conn[c] \in ConnRec /\ conn[c].state = "open"
    BY <1>0, <1>4 DEF Types, ClientCloses
  <2>2. e \in ConnRec /\ e.state # "new"
    BY <2>1 DEF ConnRec
  <2>3. conn' = [conn EXCEPT ![c] = e] /\ UNCHANGED <<tasks, taken, dropped, broken, child, overlapped>>
    BY <1>4 DEF ClientCloses
  <2> HIDE DEF e
  <2>4. << >> \in Seq(Message)
    OBVIOUS
  <2>5. sent' \in [Conns -> Seq(Message)]
    BY <1>0, <1>4, <2>4 DEF ClientCloses, Types
  <2>6. QED
    BY <1>1, <1>4, <2>1, <2>2, <2>3, <2>5
<1>5. ASSUME NEW p \in Pids, ChildWrites(p) \/ ChildCloses(p) \/ ChildExits(p) PROVE TypeInv'
  <2>1. child[p] \in ChildRec
    BY <1>0, <1>5 DEF Types
  <2>n. child[p].out + 1 \in Nat
    BY <2>1 DEF ChildRec
  <2>o. [child[p] EXCEPT !.out = @ + 1] \in ChildRec
    BY <2>1, <2>n DEF ChildRec
  <2>2. /\ [child[p] EXCEPT !.open = FALSE] \in ChildRec
        /\ [child[p] EXCEPT !.state = "dead"] \in ChildRec
    BY <2>1 DEF ChildRec
  <2>3. \/ child' = [child EXCEPT ![p] = [child[p] EXCEPT !.out = @ + 1]]
        \/ child' = [child EXCEPT ![p] = [child[p] EXCEPT !.open = FALSE]]
        \/ child' = [child EXCEPT ![p] = [child[p] EXCEPT !.state = "dead"]]
    BY <1>5 DEF ChildWrites, ChildCloses, ChildExits
  <2>4. UNCHANGED <<tasks, streams, conn, overlapped>>
    BY <1>5 DEF ChildWrites, ChildCloses, ChildExits
  <2>5. QED
    BY <1>2, <1>5, <2>o, <2>2, <2>3, <2>4
<1>6. QED
  BY <1>3, <1>4, <1>5, TakesOverTyped DEF Environment

LEMMA NextTyped ==
  ASSUME TypeInv, [Next]_vars
  PROVE  TypeInv'
<1>1. CASE UNCHANGED vars
  BY <1>1 DEF TypeInv, TypeOK, Remembers, vars, tasks, streams
<1>2. CASE Next
  BY <1>1, <1>2, CommandTyped, TakesOverTyped, ResumedTyped, KillingTyped, RelayTyped,
     StoppingTyped, EnvironmentTyped DEF Next, Handler, Rests, Tasks
<1>3. QED
  BY <1>1, <1>2

(***************************************************************************)
(* The server's tables, streams and tasks are always of their types, and   *)
(* a subscribed process has an empty buffer: a live message overtakes none *)
(* that is waiting there.                                                  *)
(***************************************************************************)
THEOREM TypeCorrect == Spec => []TypeOK
<1>1. TypeInv => TypeOK
  BY DEF TypeInv
<1>2. QED
  BY InitTyped, NextTyped, <1>1, PTL DEF Spec

-----------------------------------------------------------------------------
(* Who is served *)

Active(c) == handler[c].at \notin {"new", "done"}

\* A step that only sends: no one connects, leaves or is replaced.
Stands ==
  /\ Sends /\ UNCHANGED <<dropped, overlapped>> /\ Serving' = Serving
  /\ \A d \in Conns : conn'[d].state = conn[d].state /\ Active(d)' = Active(d)

LEMMA Stay ==
  ASSUME TypeOK, NEW t \in Tasks, NEW s, NEW n, NEW p, NEW w,
         Waits(t, s, n, p, w), t \in Conns => Active(t) /\ s \notin {"new", "done"}
  PROVE  \A d \in Conns : Active(d)' = Active(d)
<1>1. handler \in [Tasks -> HandlerRec] /\ Conns \subseteq Tasks
  BY TypeParts DEF Types, Tasks
<1> DEFINE h == [at |-> s, name |-> n, pid |-> p, writer |-> w]
<1>2. handler' = [handler EXCEPT ![t] = h] /\ h.at = s
  BY DEF Waits
<1> HIDE DEF h
<1>3. QED
  BY <1>1, <1>2 DEF Active

LEMMA MainStays ==
  ASSUME TypeOK, NEW t \in Tasks, NEW s, NEW n, NEW p, NEW w,
         Waits(t, s, n, p, w), t = Main => handler[Main].at # "closing" /\ s # "closing"
  PROVE  Serving' = Serving
<1>1. handler \in [Tasks -> HandlerRec] /\ Main \in Tasks
  BY TypeParts DEF Types, Tasks
<1> DEFINE h == [at |-> s, name |-> n, pid |-> p, writer |-> w]
<1>2. handler' = [handler EXCEPT ![t] = h] /\ h.at = s
  BY DEF Waits
<1> HIDE DEF h
<1>3. QED
  BY <1>1, <1>2 DEF Serving

LEMMA HandlerStands ==
  ASSUME TypeInv, NEW c \in Conns, Command(c) \/ Spawned(c) \/ Drained(c)
  PROVE  Stands
<1> USE PyAssumption
<1>0. TypeOK /\ Types /\ c \in Tasks /\ c # Main /\ Sends
  BY TypeParts, CommandTyped, ResumedTyped DEF TypeInv, Tasks
<1>1. Active(c)
  BY DEF Command, CmdSpawn, CmdKill, CmdSubscribe, CmdUnsubscribe, CmdStatus, TakeCommand,
     Spawned, Drained, Active
<1>2. UNCHANGED <<dropped, overlapped>> /\ \A d \in Conns : conn'[d].state = conn[d].state
  <2>1. CASE Spawned(c) \/ Drained(c)
    BY <2>1 DEF Spawned, Drained
  <2>2. CASE Command(c)
    <3>1. \E x \in {"spawn", "kill", "subscribe", "unsubscribe", "status"} : TakeCommand(c, x)
      BY <2>2 DEF Command, CmdSpawn, CmdKill, CmdSubscribe, CmdUnsubscribe, CmdStatus
    <3>2. QED
      BY <3>1, TakeIs
  <2>3. QED
    BY <2>1, <2>2
<1> DEFINE StaysOrWaits ==
      \/ UNCHANGED handler
      \/ \E s \in {"reading", "spawning", "termwait", "draining"} :
           \E n \in Names \union {Main}, p \in Pids \union {NoPid}, w \in Conns \union {NoConn} :
             Waits(c, s, n, p, w)
<1>3. StaysOrWaits
  <2>1. ASSUME NEW n \in Names, CmdSpawn(c, n) PROVE StaysOrWaits
    BY <2>1 DEF CmdSpawn
  <2>2. ASSUME NEW n \in Names, CmdKill(c, n) PROVE StaysOrWaits
    BY <1>0, <2>2 DEF CmdKill, Types
  <2>3. ASSUME NEW n \in Names, CmdSubscribe(c, n) PROVE StaysOrWaits
    BY <1>0, <2>3 DEF CmdSubscribe, Types
  <2>4. CASE CmdStatus(c) \/ \E n \in Names : CmdUnsubscribe(c, n)
    BY <2>4 DEF CmdStatus, CmdUnsubscribe
  <2>5. CASE Spawned(c) \/ Drained(c)
    BY <2>5 DEF Spawned, Drained, Goes
  <2>6. QED
    BY <2>1, <2>2, <2>3, <2>4, <2>5 DEF Command
<1>4. CASE UNCHANGED handler
  BY <1>0, <1>2, <1>4 DEF Stands, Active, Serving
<1>5. ASSUME NEW s \in {"reading", "spawning", "termwait", "draining"},
             NEW n \in Names \union {Main}, NEW p \in Pids \union {NoPid},
             NEW w \in Conns \union {NoConn}, Waits(c, s, n, p, w)
      PROVE  Stands
  BY <1>0, <1>1, <1>2, <1>5, Stay, MainStays DEF Stands
<1>6. QED
  BY <1>3, <1>4, <1>5

LEMMA OthersStand ==
  ASSUME TypeInv,
         \/ \E t \in Tasks : Killing(t)
         \/ \E p \in Pids : Relay(p) \/ ShutdownNext(p)
         \/ Shutdown
  PROVE  Stands
<1> USE PyAssumption
<1>0. TypeOK /\ Types /\ Main \in Tasks /\ Conns \subseteq Tasks /\ Main \notin Conns
  BY TypeParts DEF TypeInv, Tasks
<1>1. ASSUME NEW t \in Tasks, Killing(t) PROVE Stands
  <2>1. Sends
    BY <1>1, KillingTyped
  <2>2. UNCHANGED <<dropped, conn, overlapped>>
    BY <1>1 DEF Killing, KillReaped, KillTimeout, streams
  <2>3. handler[t].at = "termwait"
    BY <1>1 DEF Killing, KillReaped, KillTimeout
  <2>4. \/ UNCHANGED handler
        \/ \E s \in {"reading", "killing"} : Waits(t, s, Main, NoPid, NoConn)
    BY <1>1 DEF Killing, KillReaped, KillTimeout, Goes, tasks
  <2>5. CASE UNCHANGED handler
    BY <2>1, <2>2, <2>5 DEF Stands, Active, Serving
  <2>6. ASSUME NEW s \in {"reading", "killing"}, Waits(t, s, Main, NoPid, NoConn) PROVE Stands
    <3>1. Active(t)
      BY <2>3 DEF Active
    <3>2. s \notin {"new", "done", "closing"}
      OBVIOUS
    <3>3. QED
      BY <1>0, <2>1, <2>2, <2>3, <2>6, <3>1, <3>2, Stay, MainStays DEF Stands
  <2>7. QED
    BY <2>4, <2>5, <2>6
<1>2. ASSUME NEW p \in Pids, Relay(p) PROVE Stands
  <2>1. RelayStands
    BY <1>2 DEF Relay, RelayStdout, RelayExit, RelayFails
  <2>2. QED
    BY <1>2, <2>1, RelayTyped DEF RelayStands, Stands, Active, Serving
\* Main goes on, and sends nothing.
<1>3. ASSUME NEW s \in {"killing", "termwait"}, NEW n, NEW p,
             Waits(Main, s, n, p, NoConn) \/ UNCHANGED handler,
             handler[Main].at # "closing",
             UNCHANGED <<mp, client_writer, streams, conn, overlapped>>
      PROVE  Stands
  <2>1. Sends
    BY <1>0, <1>3 DEF Types, Sends, streams, Drains
  <2>2. CASE UNCHANGED handler
    BY <1>3, <2>1, <2>2 DEF Stands, Active, Serving, streams
  <2>3. CASE Waits(Main, s, n, p, NoConn)
    <3>1. s \notin {"new", "done", "closing"}
      BY <1>3
    <3>2. (\A d \in Conns : Active(d)' = Active(d)) /\ Serving' = Serving
      BY <1>0, <1>3, <2>3, <3>1, Stay, MainStays
    <3>3. QED
      BY <1>3, <2>1, <3>2 DEF Stands, streams
  <2>4. QED
    BY <1>3, <2>2, <2>3
<1>4. ASSUME NEW p \in Pids, ShutdownNext(p) PROVE Stands
  BY <1>3, <1>4 DEF ShutdownNext
<1>5. CASE Shutdown
  BY <1>3, <1>5 DEF Shutdown, Goes
<1>6. QED
  BY <1>1, <1>2, <1>4, <1>5

(***************************************************************************)
(* The newest client is served, and without overlaps an active handler's   *)
(* client is the newest, unless it was noticed to be gone.                 *)
(***************************************************************************)
OneActive == Alone => \A c, d \in Conns : Active(c) /\ Active(d) => c = d

ActiveIsWriter ==
  Alone /\ Serving => \A c \in Conns : Active(c) => c \in broken \/ client_writer = c

\* The handler of an open connection is active until it is done.
LEMMA NewestActive ==
  Remembers => (NewestIsServed <=>
    \A c \in Conns : conn[c].state = "open" /\ c \notin dropped /\ Active(c) => client_writer = c)
BY DEF Remembers, NewestIsServed, Active

LEMMA NewestActiveNext ==
  Remembers' => (NewestIsServed' <=>
    \A c \in Conns : conn'[c].state = "open" /\ c \notin dropped' /\ Active(c)' => client_writer' = c)
BY DEF Remembers, NewestIsServed, Active

ServesInv ==
  /\ TypeInv /\ NewestIsServed /\ OneActive /\ ActiveIsWriter
  /\ \A c \in broken : conn[c].state = "closed"
  /\ client_writer # NoConn => conn[client_writer].state # "new"

LEMMA InitServes == Init => ServesInv
<1> SUFFICES ASSUME Init PROVE ServesInv
  OBVIOUS
<1>1. TypeInv
  BY InitTyped
<1>2. \A c \in Conns : ~Active(c) /\ conn[c].state = "new"
  BY PyAssumption DEF Init, Active, Main
<1>3. broken = {} /\ client_writer = NoConn
  BY DEF Init
<1>4. QED
  BY <1>1, <1>2, <1>3 DEF ServesInv, NewestIsServed, OneActive, ActiveIsWriter

LEMMA StandsServes ==
  ASSUME ServesInv, TypeInv', Stands
  PROVE  ServesInv'
<1> USE PyAssumption
<1>0. /\ broken \in SUBSET Conns /\ client_writer \in Conns \union {NoConn}
  BY TypeParts DEF ServesInv, TypeInv, Types
<1>1. /\ UNCHANGED <<dropped, overlapped>> /\ Serving' = Serving
      /\ \A d \in Conns : conn'[d].state = conn[d].state /\ Active(d)' = Active(d)
      /\ broken \subseteq broken' /\ broken' \in SUBSET Conns
      /\ \A w \in broken' : w \in broken \/ conn[w].state = "closed"
      /\ client_writer' # client_writer =>
           /\ client_writer' = NoConn /\ client_writer \in broken'
           /\ conn[client_writer].state = "closed"
  BY DEF Stands, Sends
<1>n. \A c \in Conns : conn[c].state = "open" /\ c \notin dropped /\ Active(c) => client_writer = c
  BY NewestActive DEF ServesInv, TypeInv
<1>2. NewestIsServed'
  <2>1. \A c \in Conns :
          conn'[c].state = "open" /\ c \notin dropped' /\ Active(c)' => client_writer' = c
    BY <1>0, <1>1, <1>n
  <2>2. QED
    BY <2>1, NewestActiveNext DEF TypeInv
<1>3. OneActive' /\ ActiveIsWriter'
  BY <1>0, <1>1 DEF ServesInv, OneActive, ActiveIsWriter, Alone
<1>4. \A c \in broken' : conn'[c].state = "closed"
  BY <1>0, <1>1 DEF ServesInv
<1>5. client_writer' # NoConn => conn'[client_writer'].state # "new"
  BY <1>0, <1>1 DEF ServesInv
<1>6. QED
  BY <1>2, <1>3, <1>4, <1>5 DEF ServesInv

LEMMA ComesAndGoesServes ==
  ASSUME ServesInv, TypeInv', NEW c \in Conns, HandleClient(c) \/ HandlerEnds(c)
  PROVE  ServesInv'
<1> USE PyAssumption
<1>0. /\ TypeOK /\ Types /\ c \in Tasks /\ Conns \subseteq Tasks /\ c # Main
      /\ broken \in SUBSET Conns /\ client_writer \in Conns \union {NoConn}
      /\ conn \in [Conns -> ConnRec]
  BY TypeParts DEF ServesInv, TypeInv, Types, Tasks
<1>1. CASE HandleClient(c)
  <2>1. /\ handler'[c].at = "reading" /\ \A u \in Conns : u # c => handler'[u] = handler[u]
    BY <1>0, <1>1, GoesIs DEF HandleClient, HandlerStates
  <2>2. /\ client_writer' = c /\ conn[c].state = "new" /\ broken' = broken
        /\ dropped' = dropped \union ({client_writer} \ {NoConn})
        /\ overlapped' = (overlapped \/ \E d \in Conns : Active(d))
        /\ conn' = [conn EXCEPT ![c].state = "open"]
    BY <1>1 DEF HandleClient, Active
  <2>3. /\ \A d \in Conns : d # c => conn'[d] = conn[d]
        /\ conn'[c].state = "open"
    <3>1. conn[c] \in ConnRec
      BY <1>0
    <3>2. [conn[c] EXCEPT !.state = "open"].state = "open"
      BY <3>1 DEF ConnRec
    <3>3. QED
      BY <1>0, <2>2, <3>2
  <2>4. NewestIsServed'
    BY <1>0, <1>1, <2>1, <2>2, <2>3 DEF ServesInv, NewestIsServed
  <2>5. ~overlapped' => \A d \in Conns : d # c => ~Active(d)'
    BY <2>1, <2>2 DEF Active
  <2>6. OneActive' /\ ActiveIsWriter'
    BY <2>2, <2>5 DEF OneActive, ActiveIsWriter, Alone
  <2>7. \A d \in broken' : conn'[d].state = "closed"
    BY <1>0, <2>2, <2>3 DEF ServesInv
  <2>8. QED
    BY <2>2, <2>3, <2>4, <2>6, <2>7 DEF ServesInv
<1>2. CASE HandlerEnds(c)
  <2>1. /\ handler'[c].at = "done" /\ \A u \in Tasks : u # c => handler'[u] = handler[u]
    BY <1>0, <1>2, GoesIs DEF HandlerEnds, HandlerStates
  <2>2. /\ client_writer' = (IF client_writer = c THEN NoConn ELSE client_writer)
        /\ UNCHANGED <<streams, conn, overlapped>>
    BY <1>2 DEF HandlerEnds
  <2>3. handler'[c].at = "done" /\ \A d \in Conns : d # c => handler'[d] = handler[d]
    BY <1>0, <2>1
  <2>m. Main \in Tasks /\ Serving' = Serving
    BY <1>0, <2>1 DEF Serving, Tasks
  <2>4. NewestIsServed'
    BY <1>0, <2>2, <2>3 DEF ServesInv, NewestIsServed, streams
  <2>5. ~Active(c)' /\ \A d \in Conns : d # c => Active(d)' = Active(d)
    BY <1>0, <2>1 DEF Active
  <2>6. OneActive' /\ ActiveIsWriter'
    BY <2>2, <2>5, <2>m DEF OneActive, ActiveIsWriter, Alone, ServesInv, streams
  <2>7. QED
    BY <2>2, <2>4, <2>6 DEF ServesInv, streams
<1>3. QED
  BY <1>1, <1>2

LEMMA EnvironmentServes ==
  ASSUME ServesInv, TypeInv',
         \/ \E c \in Conns : ClientSends(c) \/ ClientCloses(c)
         \/ \E p \in Pids : ChildWrites(p) \/ ChildCloses(p) \/ ChildExits(p)
  PROVE  ServesInv'
<1>0. /\ conn \in [Conns -> ConnRec] /\ broken \in SUBSET Conns
      /\ client_writer \in Conns \union {NoConn}
  BY TypeParts DEF ServesInv, TypeInv, Types
<1>1. UNCHANGED <<tasks, dropped, broken, overlapped>>
  BY DEF ClientSends, ClientCloses, ChildWrites, ChildCloses, ChildExits, streams
<1> DEFINE NoneComes ==
      \A d \in Conns : \/ conn'[d].state = conn[d].state
                       \/ conn[d].state = "open" /\ conn'[d].state = "closed"
<1>2. NoneComes
  <2>1. ASSUME NEW c \in Conns, NEW e, conn[c].state = "open",
               conn' = [conn EXCEPT ![c] = e], e.state \in {"open", "closed"}
        PROVE  NoneComes
    <3>1. conn'[c] = e /\ \A d \in Conns : d # c => conn'[d] = conn[d]
      BY <1>0, <2>1
    <3>2. conn'[c].state = conn[c].state \/ (conn[c].state = "open" /\ conn'[c].state = "closed")
      BY <2>1, <3>1
    <3>3. QED
      BY <3>1, <3>2
  <2>2. ASSUME NEW c \in Conns, ClientSends(c) \/ ClientCloses(c) PROVE NoneComes
    <3> DEFINE e1 == [conn[c] EXCEPT !.received = @ + 1, !.unread = @ + 1]
               e2 == [conn[c] EXCEPT !.state = "closed"]
    <3>1. conn[c] \in ConnRec /\ conn[c].state = "open"
      BY <1>0, <2>2 DEF ClientSends, ClientCloses
    <3>2. e1.state = "open" /\ e2.state = "closed"
      BY <3>1 DEF ConnRec
    <3>3. conn' = [conn EXCEPT ![c] = e1] \/ conn' = [conn EXCEPT ![c] = e2]
      BY <2>2 DEF ClientSends, ClientCloses
    <3> HIDE DEF e1, e2, NoneComes
    <3>4. QED
      BY <2>1, <2>2, <3>1, <3>2, <3>3
  <2>3. CASE \E p \in Pids : ChildWrites(p) \/ ChildCloses(p) \/ ChildExits(p)
    BY <2>3 DEF ChildWrites, ChildCloses, ChildExits
  <2>4. QED
    BY <2>2, <2>3
<1>3. QED
  BY <1>0, <1>1, <1>2 DEF ServesInv, NewestIsServed, OneActive, ActiveIsWriter, Alone, Active,
     Serving, tasks

LEMMA NextServes ==
  ASSUME ServesInv, [Next]_vars
  PROVE  ServesInv'
<1>1. TypeInv /\ TypeInv'
  BY NextTyped DEF ServesInv
<1>2. CASE UNCHANGED vars
  BY <1>1, <1>2 DEF ServesInv, NewestIsServed, OneActive, ActiveIsWriter, Alone, Active,
     Serving, vars, tasks, streams
<1>3. CASE ShutdownCloses
  <2>1. /\ ~Serving' /\ client_writer' = NoConn /\ UNCHANGED <<broken, conn, overlapped>>
        /\ dropped' = dropped \union ({client_writer} \ {NoConn})
    <3>1. TypeOK /\ Main \in Tasks
      BY <1>1 DEF TypeInv, Tasks
    <3>2. QED
      BY <1>3, <3>1, GoesIs DEF ShutdownCloses, Serving, HandlerStates
  <2>2. \A d \in Conns : Active(d)' = Active(d)
    <3>1. TypeOK /\ Main \in Tasks /\ Main \notin Conns /\ Conns \subseteq Tasks
      BY <1>1, PyAssumption DEF TypeInv, Tasks
    <3>2. QED
      BY <1>3, <3>1, GoesIs DEF ShutdownCloses, HandlerStates, Active
  <2>3. QED
    <3>1. \A c \in Conns : conn[c].state = "open" /\ c \notin dropped /\ Active(c) => client_writer = c
      BY <1>1, NewestActive DEF ServesInv, TypeInv
    <3>2. \A c \in Conns :
            conn'[c].state = "open" /\ c \notin dropped' /\ Active(c)' => client_writer' = c
      BY <2>1, <2>2, <3>1, PyAssumption
    <3>3. NewestIsServed'
      BY <1>1, <3>2, NewestActiveNext DEF TypeInv
    <3>4. QED
      BY <1>1, <2>1, <2>2, <3>3 DEF ServesInv, OneActive, ActiveIsWriter, Alone
<1>4. CASE Next
  <2>1. CASE \E c \in Conns : Command(c) \/ Spawned(c) \/ Drained(c)
    BY <1>1, <2>1, HandlerStands, StandsServes
  <2>2. CASE \/ \E t \in Tasks : Killing(t)
             \/ \E p \in Pids : Relay(p) \/ ShutdownNext(p)
             \/ Shutdown
    BY <1>1, <2>2, OthersStand, StandsServes
  <2>3. CASE \E c \in Conns : HandleClient(c) \/ HandlerEnds(c)
    BY <1>1, <2>3, ComesAndGoesServes
  <2>4. QED
    BY <1>1, <1>2, <1>3, <1>4, <2>1, <2>2, <2>3, EnvironmentServes
       DEF Next, Handler, Stopping, Environment, Rests, Tasks
<1>5. QED
  BY <1>2, <1>4

(***************************************************************************)
(* The connection accepted last is the one sent to until its client goes   *)
(* away or its own handler is over: no handler of a replaced connection    *)
(* takes that from it, however it ends.                                    *)
(***************************************************************************)
THEOREM NewestCorrect == Spec => []NewestIsServed
<1>1. ServesInv => NewestIsServed
  BY DEF ServesInv
<1>2. QED
  BY InitServes, NextServes, <1>1, PTL DEF Spec

-----------------------------------------------------------------------------
(* Every step moves messages in one of four ways. *)

ResultAdded(s, s2) == s2 = s \/ \E d \in Conns, i \in Nat : s2 = s \o <<Result(d, i)>>

\* Buffers stay, and no process becomes subscribed.
BuffersStay(ps) ==
  \A p \in Pids : mp'[p].buffer = ps[p].buffer /\ (mp'[p].subscribed => ps[p].subscribed)

TakenStays == \A p \in Pids : relay'[p].taken = relay[p].taken

TableShrinks == \A n \in Names : procs'[n] \in {procs[n], NoPid}

\* What was sent stays, as long as the client is there.
SentStays ==
  \A c \in Conns : \/ ResultAdded(sent[c], sent'[c])
                   \/ sent'[c] = << >> /\ conn'[c].state = "closed"

Quiet == BuffersStay(mp) /\ TakenStays /\ TableShrinks /\ SentStays

\* The child p, which some handler has started, gets its entry.
Enters(c) ==
  LET p == handler[c].pid IN
  /\ Spawned(c)
  /\ BuffersStay([mp EXCEPT ![p] = Process("running")]) /\ TakenStays /\ SentStays
  /\ \A n \in Names : procs'[n] \in {procs[n], p}

\* The messages s are sent, and perhaps a result.
SentToWriter(s) ==
  \A c \in Conns :
    \/ ResultAdded(sent[c] \o s, sent'[c])
    \/ sent'[c] = sent[c] /\ ~(c = client_writer /\ conn[c].state = "open")

Replays(c, n) ==
  LET q == procs[n] IN
  /\ Active(c) /\ c \notin broken /\ q \in Pids /\ TakenStays /\ UNCHANGED procs
  /\ mp'[q].buffer = << >> /\ SentToWriter(mp[q].buffer)
  /\ \A p \in Pids \ {q} :
       mp'[p].buffer = mp[p].buffer /\ (mp'[p].subscribed => mp[p].subscribed)

Relays(p) ==
  /\ relay[p].at = "reading" /\ UNCHANGED <<procs, conn>>
  /\ relay'[p].taken = relay[p].taken + 1
  /\ \A q \in Pids \ {p} : relay'[q].taken = relay[q].taken
  /\ \A q \in Pids : mp'[q].subscribed => mp[q].subscribed
  /\ \E m \in Relayed :
       /\ m.from = p /\ m.seq = relay[p].taken + 1
       /\ \A q \in Pids \ {p} : mp'[q].buffer = mp[q].buffer
       /\ \/ mp'[p].buffer = Append(mp[p].buffer, m) /\ UNCHANGED sent
          \/ /\ mp[p].subscribed /\ mp'[p].buffer = mp[p].buffer
             /\ SentToWriter(<<m>>)

Shape ==
  \/ Quiet
  \/ \E c \in Conns : Enters(c)
  \/ \E c \in Conns, n \in Names : Replays(c, n)
  \/ \E p \in Pids : Relays(p)

LEMMA AnswerShape ==
  ASSUME TypeOK, NEW c \in Conns, NEW ps \in [Pids -> ManagedProcess], Drains(ps),
         taken'[c] \in Nat, Answer(c, ps)
  PROVE  BuffersStay(ps) /\ SentStays
<1> DEFINE ms == <<Result(c, taken'[c])>>
<1>1. ms \in Seq(Message)
  BY DEF Result, Message
<1>2. SendToClient(ms, ps)
  BY DEF Answer
<1>3. \A d \in Conns : sent'[d] = sent[d] \/ sent'[d] = sent[d] \o ms
  <2> HIDE DEF ms
  <2>1. QED
    BY <1>1, <1>2, SendIs
<1>4. Quieter(ps, mp')
  <2> HIDE DEF ms
  <2>1. QED
    BY <1>1, <1>2, SendIs
<1>5. QED
  BY <1>3, <1>4 DEF BuffersStay, Quieter, SentStays, ResultAdded

\* Messages that are sent, then perhaps a result.
LEMMA SentShape ==
  ASSUME TypeOK, NEW ps \in [Pids -> ManagedProcess], Drains(ps), NEW s \in Seq(Message),
         \/ SendToClient(s, ps)
         \/ \E d \in Conns, i \in Nat : SendToClient(s \o <<Result(d, i)>>, ps)
  PROVE  BuffersStay(ps) /\ SentToWriter(s)
<1>0. sent \in [Conns -> Seq(Message)]
  BY TypeParts DEF Types
<1>1. CASE SendToClient(s, ps)
  BY <1>1, SendIs DEF BuffersStay, Quieter, SentToWriter, ResultAdded
<1>2. ASSUME NEW d \in Conns, NEW i \in Nat, SendToClient(s \o <<Result(d, i)>>, ps)
      PROVE  BuffersStay(ps) /\ SentToWriter(s)
  <2> DEFINE r == Result(d, i)
             ms == s \o <<r>>
  <2>1. r \in Message
    BY <1>2 DEF Result, Message
  <2> HIDE DEF r
  <2>2. <<r>> \in Seq(Message) /\ ms \in Seq(Message)
    BY <2>1
  <2>3. SendToClient(ms, ps)
    BY <1>2 DEF r
  <2>4. /\ Quieter(ps, mp')
        /\ \A c \in Conns : \/ sent'[c] = sent[c] \o ms
                            \/ sent'[c] = sent[c] /\ ~(c = client_writer /\ conn[c].state = "open")
    <3> HIDE DEF ms
    <3>1. QED
      BY <2>2, <2>3, SendIs
  <2>5. \A c \in Conns : sent[c] \o ms = (sent[c] \o s) \o <<r>>
    BY <1>0, <2>2
  <2> HIDE DEF ms
  <2>6. QED
    BY <1>2, <2>4, <2>5 DEF BuffersStay, Quieter, SentToWriter, ResultAdded, r
<1>3. QED
  BY <1>1, <1>2

LEMMA MessagesStand ==
  ASSUME UNCHANGED <<procs, mp, relay>>,
         \A c \in Conns : sent'[c] = sent[c] \/ (sent'[c] = << >> /\ conn'[c].state = "closed")
  PROVE  Quiet
BY DEF Quiet, BuffersStay, TakenStays, TableShrinks, SentStays, ResultAdded

\* A command that only answers leaves ps.
LEMMA AnswerQuiet ==
  ASSUME TypeOK, NEW c \in Conns, NEW ps \in [Pids -> ManagedProcess], Drains(ps),
         taken'[c] \in Nat, Answer(c, ps), TakenStays, TableShrinks,
         \A p \in Pids : ps[p].buffer = mp[p].buffer /\ (ps[p].subscribed => mp[p].subscribed)
  PROVE  Quiet
<1>1. BuffersStay(ps) /\ SentStays
  BY AnswerShape
<1>2. BuffersStay(mp)
  BY <1>1 DEF BuffersStay
<1>3. QED
  BY <1>1, <1>2 DEF Quiet

LEMMA SubscribeShape ==
  ASSUME TypeInv, NEW c \in Conns, NEW n \in Names, CmdSubscribe(c, n)
  PROVE  Shape
<1>0. /\ TypeOK /\ Types /\ TakeCommand(c, "subscribe") /\ UNCHANGED <<procs, relay>>
      /\ taken'[c] \in Nat /\ Active(c) /\ c \notin broken
  BY TypeParts, TakeIs DEF TypeInv, CmdSubscribe, TakeCommand, Active
<1>1. CASE ~Managed(n) /\ Answer(c, mp) /\ UNCHANGED handler
  BY <1>0, <1>1, AnswerQuiet DEF Shape, Types, TakenStays, TableShrinks
<1>2. CASE /\ Managed(n)
           /\ \/ SendToClient(Append(mp[procs[n]].buffer, Result(c, taken'[c])), Subscribed(n))
              \/ SendToClient(mp[procs[n]].buffer, Subscribed(n))
  <2> DEFINE q == procs[n]
             s == mp[q].buffer
             ps == Subscribed(n)
  <2>1. /\ q \in Pids /\ s \in Seq(Message) /\ ps \in [Pids -> ManagedProcess] /\ Drains(ps)
        /\ ps[q].buffer = << >> /\ \A p \in Pids : p # q => ps[p] = mp[p]
    BY <1>0, <1>2, SubscribedIs
  <2>r. Result(c, taken'[c]) \in Message
    BY <1>0 DEF Result, Message
  <2>2. Append(s, Result(c, taken'[c])) = s \o <<Result(c, taken'[c])>>
    BY <2>1, <2>r, AppendIsConcat
  <2>3. \/ SendToClient(s, ps)
        \/ \E d \in Conns, i \in Nat : SendToClient(s \o <<Result(d, i)>>, ps)
    BY <1>0, <1>2, <2>2
  <2> HIDE DEF s, ps
  <2>4. BuffersStay(ps) /\ SentToWriter(s)
    BY <1>0, <2>1, <2>3, SentShape
  <2>5. \A p \in Pids \ {q} :
          mp'[p].buffer = mp[p].buffer /\ (mp'[p].subscribed => mp[p].subscribed)
    BY <2>1, <2>4 DEF BuffersStay
  <2>6. mp'[q].buffer = << >>
    BY <2>1, <2>4 DEF BuffersStay
  <2>7. Replays(c, n)
    BY <1>0, <2>1, <2>4, <2>5, <2>6 DEF Replays, TakenStays, s
  <2>8. QED
    BY <2>7 DEF Shape
<1>3. QED
  BY <1>1, <1>2 DEF CmdSubscribe

LEMMA CommandShape ==
  ASSUME TypeInv, NEW c \in Conns, Command(c)
  PROVE  Shape
<1>0. TypeOK /\ Types /\ Drains(mp) /\ mp \in [Pids -> ManagedProcess]
  BY TypeParts DEF TypeInv, Types
<1>a. ASSUME NEW r, TakeCommand(c, r) PROVE taken'[c] \in Nat /\ UNCHANGED relay /\ TakenStays
  BY <1>a, TakeIs DEF TakenStays
<1>b. ASSUME NEW n \in Names, procs' \in {procs, [procs EXCEPT ![n] = NoPid]} PROVE TableShrinks
  BY <1>0, <1>b DEF TableShrinks, Types
<1>1. ASSUME NEW n \in Names, CmdSpawn(c, n) PROVE Shape
  <2>1. /\ taken'[c] \in Nat /\ TakenStays /\ UNCHANGED relay
        /\ procs' \in {procs, [procs EXCEPT ![n] = NoPid]}
    BY <1>1, <1>a DEF CmdSpawn
  <2>2. TableShrinks
    BY <1>b, <1>1, <2>1
  <2>3. CASE Answer(c, mp)
    BY <1>0, <2>1, <2>2, <2>3, AnswerQuiet DEF Shape
  <2>4. CASE UNCHANGED <<mp, client_writer, broken, sent>>
    BY <2>2, <2>1, <2>4 DEF Shape, Quiet, BuffersStay, SentStays, ResultAdded
  <2>5. QED
    BY <1>1, <2>3, <2>4 DEF CmdSpawn
<1>2. ASSUME NEW n \in Names, CmdKill(c, n) PROVE Shape
  <2>1. /\ taken'[c] \in Nat /\ TakenStays /\ UNCHANGED relay
        /\ procs' \in {procs, [procs EXCEPT ![n] = NoPid]}
    BY <1>2, <1>a DEF CmdKill
  <2>2. TableShrinks
    BY <1>b, <1>2, <2>1
  <2>3. CASE Answer(c, mp)
    BY <1>0, <2>1, <2>2, <2>3, AnswerQuiet DEF Shape
  <2>4. CASE UNCHANGED <<mp, client_writer, broken, sent>>
    BY <2>2, <2>1, <2>4 DEF Shape, Quiet, BuffersStay, SentStays, ResultAdded
  <2>5. QED
    BY <1>2, <2>3, <2>4 DEF CmdKill
<1>3. ASSUME NEW n \in Names, CmdUnsubscribe(c, n) PROVE Shape
  <2> DEFINE ps == IF Managed(n) THEN [mp EXCEPT ![procs[n]].subscribed = FALSE] ELSE mp
  <2>1. /\ ps \in [Pids -> ManagedProcess] /\ Drains(ps)
        /\ \A p \in Pids : ps[p].buffer = mp[p].buffer /\ (ps[p].subscribed => mp[p].subscribed)
    <3>1. CASE Managed(n)
      <4> DEFINE q == procs[n]
                 e == [mp[q] EXCEPT !.subscribed = FALSE]
      <4>1. q \in Pids /\ mp[q] \in ManagedProcess
        BY <1>0, <1>3, <3>1 DEF Types, Managed
      <4>2. e \in ManagedProcess /\ ~e.subscribed /\ e.buffer = mp[q].buffer
        BY <4>1 DEF ManagedProcess
      <4>3. ps = [mp EXCEPT ![q] = e]
        BY <3>1
      <4> HIDE DEF e, ps
      <4>4. QED
        BY <1>0, <4>1, <4>2, <4>3 DEF Drains
    <3>2. CASE ~Managed(n)
      BY <1>0, <3>2
    <3>3. QED
      BY <3>1, <3>2
  <2>2. Answer(c, ps) /\ TakeCommand(c, "unsubscribe") /\ UNCHANGED procs
    BY <1>3 DEF CmdUnsubscribe
  <2> HIDE DEF ps
  <2>3. taken'[c] \in Nat /\ TakenStays /\ TableShrinks
    BY <1>a, <2>2 DEF TableShrinks
  <2>4. QED
    BY <1>0, <2>1, <2>2, <2>3, AnswerQuiet DEF Shape
<1>4. CASE CmdStatus(c)
  <2>1. taken'[c] \in Nat /\ TakenStays /\ TableShrinks
    BY <1>a, <1>4 DEF TableShrinks, CmdStatus
  <2>2. QED
    BY <1>0, <1>4, <2>1, AnswerQuiet DEF Shape, CmdStatus
<1>5. QED
  BY <1>1, <1>2, <1>3, <1>4, SubscribeShape DEF Command

LEMMA ResumedShape ==
  ASSUME TypeInv, NEW c \in Conns, Spawned(c) \/ Drained(c)
  PROVE  Shape
<1>0. /\ TypeOK /\ Types /\ Drains(mp) /\ mp \in [Pids -> ManagedProcess]
      /\ taken[c] \in Nat
  BY TypeParts DEF TypeInv, Types
<1>1. CASE Spawned(c)
  <2> DEFINE p == handler[c].pid
             ps == [mp EXCEPT ![p] = Process("running")]
  <2>1. p \in Pids
    BY <1>1 DEF Spawned, Remembers, TypeInv
  <2>2. ps \in [Pids -> ManagedProcess] /\ Drains(ps)
    BY <1>0, <2>1, ProcessSet, ProcessIs
  <2>3. Answer(c, ps) /\ taken'[c] \in Nat
    BY <1>0, <1>1 DEF Spawned
  <2>4. BuffersStay(ps) /\ SentStays
    <3> HIDE DEF ps
    <3>1. QED
      BY <1>0, <2>2, <2>3, AnswerShape
  <2>5. TakenStays
    <3>1. relay' = [relay EXCEPT ![p].at = "reading"] /\ relay \in [Pids -> RelayRec]
      BY <1>0, <1>1 DEF Spawned, Types
    <3>2. ASSUME NEW q \in Pids PROVE relay'[q].taken = relay[q].taken
      <4>1. relay[q] \in RelayRec
        BY <3>1, <3>2
      <4>2. [relay[q] EXCEPT !.at = "reading"].taken = relay[q].taken
        BY <4>1 DEF RelayRec
      <4>3. QED
        BY <3>1, <3>2, <4>2
    <3>3. QED
      BY <3>2 DEF TakenStays
  <2>6. \A n \in Names : procs'[n] \in {procs[n], p}
    BY <1>0, <1>1 DEF Spawned, Types
  <2>7. Enters(c)
    BY <1>1, <2>4, <2>5, <2>6 DEF Enters
  <2>8. QED
    BY <2>7 DEF Shape
<1>2. CASE Drained(c)
  <2>1. taken'[c] \in Nat /\ TakenStays /\ TableShrinks
    BY <1>0, <1>2 DEF Drained, TakenStays, TableShrinks
  <2>2. CASE Answer(c, mp)
    BY <1>0, <2>1, <2>2, AnswerQuiet DEF Shape
  <2>3. CASE UNCHANGED <<mp, client_writer, broken, sent>>
    BY <2>1, <2>3 DEF Shape, Quiet, BuffersStay, SentStays, ResultAdded
  <2>4. CASE SendFails(handler[c].writer, mp)
    <3>1. handler[c].writer \in Conns
      BY <1>2 DEF Drained, Remembers, TypeInv
    <3>2. Quieter(mp, mp') /\ sent' = sent
      BY <1>0, <2>4, <3>1, SendFailsIs
    <3>3. QED
      BY <2>1, <3>2 DEF Shape, Quiet, BuffersStay, SentStays, ResultAdded, Quieter
  <2>5. QED
    BY <1>2, <2>2, <2>3, <2>4 DEF Drained
<1>3. QED
  BY <1>1, <1>2

LEMMA RelayingShape ==
  ASSUME TypeInv, NEW p \in Pids, Relaying(p)
  PROVE  Shape
<1>0. TypeOK /\ Types
  BY TypeParts DEF TypeInv
<1>1. PICK m \in Relayed, ps \in [Pids -> ManagedProcess] :
           /\ m.from = p /\ m.seq = relay[p].taken + 1
           /\ ps[p].buffer = mp[p].buffer /\ ps[p].subscribed = mp[p].subscribed
           /\ \A q \in Pids : q # p => ps[q] = mp[q]
           /\ Drains(ps) /\ RelayOrBuffer(p, m, ps) /\ RelayStands
           /\ relay' \in [Pids -> RelayRec] /\ relay'[p].taken = relay[p].taken + 1
           /\ \A q \in Pids : q # p => relay'[q] = relay[q]
  BY <1>0, RelayIs
<1>2. relay[p].at = "reading"
  BY DEF Relaying, RelayStdout, RelayExit
<1>3. CASE mp[p].subscribed /\ SendToClient(<<m>>, ps)
  <2> DEFINE ms == <<m>>
  <2>1. ms \in Seq(Message)
    BY DEF Message
  <2>2. SendToClient(ms, ps)
    BY <1>3
  <2>3. BuffersStay(ps) /\ SentToWriter(ms)
    <3> HIDE DEF ms
    <3>1. QED
      BY <1>0, <1>1, <2>1, <2>2, SentShape
  <2>4. \A q \in Pids : mp'[q].buffer = mp[q].buffer /\ (mp'[q].subscribed => mp[q].subscribed)
    BY <1>1, <2>3 DEF BuffersStay
  <2>5. Relays(p)
    BY <1>1, <1>2, <1>3, <2>3, <2>4 DEF Relays, RelayStands
  <2>6. QED
    BY <2>5 DEF Shape
<1>4. CASE /\ ~mp[p].subscribed /\ mp' = [ps EXCEPT ![p].buffer = Append(@, m)]
           /\ UNCHANGED <<client_writer, broken, sent>>
  <2>1. /\ mp'[p].buffer = Append(mp[p].buffer, m)
        /\ \A q \in Pids : mp'[q].subscribed => mp[q].subscribed
        /\ \A q \in Pids : q # p => mp'[q].buffer = mp[q].buffer
    <3>1. /\ mp'[p].buffer = Append(ps[p].buffer, m)
          /\ \A q \in Pids : mp'[q].subscribed = ps[q].subscribed
          /\ \A q \in Pids : q # p => mp'[q] = ps[q]
      BY <1>1, <1>4, BufferedIs
    <3>2. QED
      BY <1>1, <3>1
  <2>2. Relays(p)
    BY <1>1, <1>2, <1>4, <2>1 DEF Relays, RelayStands
  <2>3. QED
    BY <2>2 DEF Shape
<1>5. QED
  BY <1>1, <1>3, <1>4 DEF RelayOrBuffer

LEMMA RelayShape ==
  ASSUME TypeInv, NEW p \in Pids, Relay(p)
  PROVE  Shape
<1>1. CASE RelayFails(p)
  <2>1. TakenStays /\ UNCHANGED <<procs, mp, sent>>
    BY <1>1, RelayFailsIs DEF TypeInv, TakenStays, RelayStands
  <2>2. QED
    BY <2>1 DEF Shape, Quiet, BuffersStay, TableShrinks, SentStays, ResultAdded
<1>2. QED
  BY <1>1, RelayingShape DEF Relay, Relaying

LEMMA KillingShape ==
  ASSUME TypeInv, NEW t \in Tasks, Killing(t)
  PROVE  Shape
<1>0. /\ TypeOK /\ Types /\ Drains(mp) /\ mp \in [Pids -> ManagedProcess]
      /\ relay \in [Pids -> RelayRec]
  BY TypeParts DEF TypeInv, Types
<1>1. handler[t].at = "termwait" /\ handler[t].pid \in Pids
  BY DEF Killing, KillReaped, KillTimeout, Remembers, Tasks, TypeInv
<1>2. CASE KillTimeout(t)
  BY <1>2, MessagesStand DEF Shape, KillTimeout, tasks, streams
<1>3. CASE KillReaped(t)
  <2> DEFINE p == handler[t].pid
             ps == [mp EXCEPT ![p].status = "exited"]
  <2>1. TakenStays
    <3>1. relay[p] \in RelayRec
      BY <1>0, <1>1
    <3>2. [relay[p] EXCEPT !.at = "done"].taken = relay[p].taken
      BY <3>1 DEF RelayRec
    <3>3. QED
      BY <1>0, <1>1, <1>3, <3>2 DEF KillReaped, TakenStays
  <2>2. /\ ps \in [Pids -> ManagedProcess] /\ Drains(ps)
        /\ \A q \in Pids : ps[q].buffer = mp[q].buffer /\ ps[q].subscribed = mp[q].subscribed
    BY <1>0, <1>1, ExitedIs
  <2>3. CASE /\ t \in Conns /\ procs' = [procs EXCEPT ![handler[t].name] = NoPid]
             /\ UNCHANGED taken /\ Answer(t, ps)
    <3> HIDE DEF ps
    <3>1. TableShrinks /\ taken'[t] \in Nat
      BY <1>0, <2>3 DEF TableShrinks, Types
    <3>2. QED
      BY <1>0, <2>1, <2>2, <2>3, <3>1, AnswerQuiet DEF Shape
  <2>4. CASE mp' = ps /\ UNCHANGED <<procs, taken, client_writer, broken, sent>>
    <3> HIDE DEF ps
    <3>1. QED
      BY <2>1, <2>2, <2>4 DEF Shape, Quiet, BuffersStay, SentStays, ResultAdded, TableShrinks
  <2>5. QED
    BY <1>3, <2>3, <2>4 DEF KillReaped
<1>4. QED
  BY <1>2, <1>3 DEF Killing

LEMMA ShapeStep ==
  ASSUME TypeInv, Next
  PROVE  Shape
<1>0. TypeOK /\ Types /\ conn \in [Conns -> ConnRec] /\ sent \in [Conns -> Seq(Message)]
  BY TypeParts DEF TypeInv, Types
<1>1. ASSUME NEW c \in Conns, HandleClient(c) \/ HandlerEnds(c) PROVE Shape
  <2>1. mp' = mp \/ mp' = Unsubscribed(mp)
    BY <1>1 DEF HandleClient, HandlerEnds
  <2>2. BuffersStay(mp)
    BY <1>0, <2>1, UnsubscribedIs DEF BuffersStay, Quieter, Types
  <2>3. UNCHANGED <<procs, relay, sent>>
    BY <1>1 DEF HandleClient, HandlerEnds, streams
  <2>4. QED
    BY <2>2, <2>3 DEF Shape, Quiet, TakenStays, TableShrinks, SentStays, ResultAdded
<1>2. ASSUME NEW c \in Conns, ClientCloses(c) PROVE Shape
  <2>1. conn[c] \in ConnRec /\ conn' = [conn EXCEPT ![c] = [conn[c] EXCEPT !.state = "closed"]]
    BY <1>0, <1>2 DEF ClientCloses
  <2>2. [conn[c] EXCEPT !.state = "closed"].state = "closed"
    BY <2>1 DEF ConnRec
  <2>3. conn'[c].state = "closed"
    BY <1>0, <1>2, <2>1, <2>2
  <2>4. \A d \in Conns : sent'[d] = sent[d] \/ (sent'[d] = << >> /\ conn'[d].state = "closed")
    BY <1>0, <1>2, <2>3 DEF ClientCloses
  <2>5. UNCHANGED <<procs, mp, relay>>
    BY <1>2 DEF ClientCloses, tasks
  <2>6. QED
    BY <2>4, <2>5, MessagesStand DEF Shape
<1>3. CASE \/ Shutdown \/ ShutdownCloses \/ Rests
           \/ \E c \in Conns : ClientSends(c)
           \/ \E p \in Pids : ShutdownNext(p) \/ ChildWrites(p) \/ ChildCloses(p) \/ ChildExits(p)
  <2>1. UNCHANGED <<procs, mp, relay, sent>>
    BY <1>3 DEF Shutdown, ShutdownCloses, Rests, ClientSends, ShutdownNext, ChildWrites,
       ChildCloses, ChildExits, vars, tasks, streams
  <2>2. QED
    BY <2>1, MessagesStand DEF Shape
<1>4. QED
  BY <1>1, <1>2, <1>3, CommandShape, ResumedShape, RelayShape, KillingShape
     DEF Next, Handler, Stopping, Environment, Tasks

(***************************************************************************)
(* Without a client, and without overlaps, nothing is subscribed.          *)
(***************************************************************************)
AwayInv == ServesInv /\ AwayIsBufferedAlone

\* When the writer is given up, everything in the table is unsubscribed.
LEMMA LosesWriter ==
  ASSUME ServesInv, Next, Serving', client_writer # NoConn, client_writer' = NoConn
  PROVE  NoneSubscribed(mp')
<1>0. TypeInv /\ TypeOK /\ Types /\ mp \in [Pids -> ManagedProcess] /\ Drains(mp)
  BY TypeParts DEF ServesInv, TypeInv, Types
<1>1. CASE Stands
  BY <1>1 DEF Stands, Sends
<1>2. ASSUME NEW c \in Conns, HandlerEnds(c) PROVE NoneSubscribed(mp')
  <2>1. mp' = Unsubscribed(mp)
    BY <1>2 DEF HandlerEnds
  <2>2. QED
    BY <1>0, <2>1, UnsubscribedIs
<1>3. CASE ShutdownCloses
  <2>1. Main \in Tasks
    BY DEF Tasks
  <2>2. handler'[Main].at = "closing"
    BY <1>0, <1>3, <2>1, GoesIs DEF ShutdownCloses, HandlerStates
  <2>3. QED
    BY <2>2 DEF Serving
<1>4. ASSUME NEW c \in Conns, HandleClient(c) PROVE FALSE
  BY <1>4, PyAssumption DEF HandleClient
<1>5. CASE \/ \E c \in Conns : ClientSends(c) \/ ClientCloses(c)
           \/ \E p \in Pids : ChildWrites(p) \/ ChildCloses(p) \/ ChildExits(p)
           \/ Rests
  BY <1>5 DEF ClientSends, ClientCloses, ChildWrites, ChildCloses, ChildExits, Rests, vars, tasks
<1>6. QED
  BY <1>0, <1>1, <1>2, <1>3, <1>4, <1>5, HandlerStands, OthersStand
     DEF Next, Handler, Stopping, Environment, Tasks

\* A server that has closed, or has seen an overlap, stays so.
LEMMA Monotonic ==
  ASSUME TypeInv, Next
  PROVE  (Serving' => Serving) /\ (Alone' => Alone)
<1>0. TypeOK /\ Main \in Tasks /\ Conns \subseteq Tasks
  BY DEF TypeInv, Tasks
<1>1. CASE Stands
  BY <1>1 DEF Stands, Alone
<1>2. ASSUME NEW c \in Conns, HandleClient(c) \/ HandlerEnds(c)
      PROVE  (Serving' => Serving) /\ (Alone' => Alone)
  <2>m. TypeOK /\ c \in Tasks /\ Main \in Tasks /\ c # Main
    BY <1>0, PyAssumption DEF TypeInv
  <2>1. Serving' = Serving
    BY <2>m, <1>2, GoesIs DEF HandleClient, HandlerEnds, HandlerStates, Serving
  <2>2. \/ overlapped' = overlapped
        \/ overlapped' = (overlapped \/ \E d \in Conns : handler[d].at \notin {"new", "done"})
    BY <1>2 DEF HandleClient, HandlerEnds
  <2>3. overlapped \in BOOLEAN
    BY <1>0, TypeParts DEF Types
  <2>4. overlapped => overlapped'
    BY <2>2, <2>3
  <2>5. QED
    BY <2>1, <2>4 DEF Alone
<1>3. CASE ShutdownCloses
  BY <1>3 DEF ShutdownCloses, Serving, Alone
<1>4. CASE \/ \E c \in Conns : ClientSends(c) \/ ClientCloses(c)
           \/ \E p \in Pids : ChildWrites(p) \/ ChildCloses(p) \/ ChildExits(p)
           \/ Rests
  <2>1. UNCHANGED <<handler, overlapped>>
    BY <1>4 DEF ClientSends, ClientCloses, ChildWrites, ChildCloses, ChildExits, Rests, vars, tasks
  <2>2. QED
    BY <2>1 DEF Serving, Alone
<1>5. QED
  BY <1>0, <1>1, <1>2, <1>3, <1>4, HandlerStands, OthersStand
     DEF Next, Handler, Stopping, Environment, Tasks

LEMMA NextAway ==
  ASSUME AwayInv, [Next]_vars
  PROVE  AwayInv'
<1> USE PyAssumption
<1>0. /\ ServesInv /\ ServesInv' /\ TypeInv /\ TypeOK /\ Types
      /\ procs \in [Names -> Pids \union {NoPid}] /\ mp \in [Pids -> ManagedProcess]
      /\ client_writer \in Conns \union {NoConn}
  BY NextServes, TypeParts DEF AwayInv, ServesInv, TypeInv, Types
<1>1. CASE UNCHANGED vars
  <2>1. UNCHANGED <<procs, mp, client_writer, handler, overlapped>>
    BY <1>1 DEF vars, tasks
  <2>2. AwayIsBufferedAlone'
    BY <2>1 DEF AwayInv, AwayIsBufferedAlone, AwayIsBuffered, Away, Alone, Serving, Managed
  <2>3. QED
    BY <1>0, <2>2 DEF AwayInv
<1>2. CASE Next
  <2> SUFFICES ASSUME Alone', Away' PROVE AwayIsBuffered'
    BY <1>0 DEF AwayInv, AwayIsBufferedAlone, AwayIsBuffered
  <2>1. procs' \in [Names -> Pids \union {NoPid}]
    BY <1>0, TypesNext DEF ServesInv, TypeInv, Types
  <2>2. client_writer' = NoConn /\ Serving' /\ Alone /\ Serving
    BY <1>0, <1>2, Monotonic DEF Away
  <2> SUFFICES ASSUME NEW n \in Names, NEW p \in Pids, procs'[n] = p
               PROVE  ~mp'[p].subscribed
    BY <2>1 DEF AwayIsBuffered, Managed
  <2>3. CASE client_writer # NoConn
    BY <1>0, <1>2, <2>2, <2>3, LosesWriter DEF NoneSubscribed
  <2>4. CASE client_writer = NoConn
    <3>1. \A k \in Names, q \in Pids : procs[k] = q => ~mp[q].subscribed
      BY <2>2, <2>4 DEF AwayInv, AwayIsBufferedAlone, AwayIsBuffered, Away, Managed
    <3>2. CASE Quiet
      BY <1>0, <3>1, <3>2 DEF Quiet, TableShrinks, BuffersStay
    <3>3. ASSUME NEW c \in Conns, Enters(c) PROVE ~mp'[p].subscribed
      <4> DEFINE q == handler[c].pid
                 ps == [mp EXCEPT ![q] = Process("running")]
      <4>1. q \in Pids
        BY <1>0, <3>3 DEF Enters, Spawned, TypeInv, Remembers
      <4>2. /\ ps[q] = Process("running") /\ \A x \in Pids : x # q => ps[x] = mp[x]
        BY <1>0, <4>1
      <4>3. ~ps[q].subscribed
        BY <4>2, ProcessIs
      <4>4. (mp'[p].subscribed => ps[p].subscribed) /\ procs'[n] \in {procs[n], q}
        BY <3>3 DEF Enters, BuffersStay
      <4> HIDE DEF ps
      <4>5. QED
        BY <3>1, <4>2, <4>3, <4>4
    <3>4. ASSUME NEW c \in Conns, NEW k \in Names, Replays(c, k) PROVE FALSE
      BY <1>0, <2>2, <2>4, <3>4 DEF Replays, ServesInv, ActiveIsWriter
    <3>5. ASSUME NEW q \in Pids, Relays(q) PROVE ~mp'[p].subscribed
      BY <3>1, <3>5 DEF Relays
    <3>6. QED
      BY <1>0, <1>2, <3>2, <3>3, <3>4, <3>5, ShapeStep DEF Shape
  <2>5. QED
    BY <2>3, <2>4
<1>3. QED
  BY <1>1, <1>2

(***************************************************************************)
(* If each handler ended before the next connection came, nothing in the   *)
(* table is subscribed while there is no client: output is buffered.       *)
(***************************************************************************)
THEOREM AwayCorrect == Spec => []AwayIsBufferedAlone
<1>1. Init => AwayInv
  <2> SUFFICES ASSUME Init PROVE AwayIsBuffered
    BY InitServes DEF AwayInv, AwayIsBufferedAlone
  <2>1. QED
    BY DEF Init, AwayIsBuffered, Managed
<1>2. AwayInv => AwayIsBufferedAlone
  BY DEF AwayInv
<1>3. QED
  BY <1>1, <1>2, NextAway, PTL DEF Spec
=============================================================================
