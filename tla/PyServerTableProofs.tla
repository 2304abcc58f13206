------------------------ MODULE PyServerTableProofs ------------------------
(***************************************************************************)
(* The table of the Python server, for every number of names, children,    *)
(* connections and lines: what a handler finds after an await is what it   *)
(* left, if no other handler runs; what is taken of a child is not lost    *)
(* while its clients are there; and each command has one answer.           *)
(***************************************************************************)
EXTENDS PyServerOutputProofs

\* What the handler of c that waits relies on: nobody has got the name it is
\* spawning, and the name it is killing is still its child's.
Relies(c) ==
  /\ handler[c].at = "spawning" =>
       procs[handler[c].name] = NoPid /\ child[handler[c].pid].name = handler[c].name
  /\ handler[c].at = "termwait" => procs[handler[c].name] = handler[c].pid

TableInv ==
  /\ ServesInv /\ BirthInv /\ RunningIsManaged
  /\ \A p \in Pids : relay[p].at = "reading" => mp[p].status = "running"
  /\ \A p \in Pids : mp[p].status = "none" <=> ~Known(p)
  /\ \A p \in Pids : ~Unborn(p) => child[p].name \in Names
  /\ handler[Main].at = "serving" => todo = {}
  /\ Alone => \A c \in Conns : Relies(c)

\* A process exits, and its relay is done, or stays what it is; no relay
\* begins.
Ebbs == \A p \in Pids :
  /\ relay'[p].at = "reading" => relay[p].at = "reading"
  /\ \/ mp'[p].status = mp[p].status
     \/ mp[p].status # "none" /\ mp'[p].status = "exited" /\ relay'[p].at = "done"

\* No child is born or known that was not.
Same == \A p \in Pids :
  Known(p)' = Known(p) /\ Unborn(p)' = Unborn(p) /\ child'[p].name = child[p].name

\* Main begins to serve only at its start.
MainLeaves == handler'[Main].at = "serving" => handler[Main].at = "serving" /\ todo' = todo

\* A step that leaves the table, in which no handler begins to wait but for a
\* child of it.
Keeps ==
  /\ UNCHANGED procs /\ Ebbs /\ Same /\ MainLeaves
  /\ \A c \in Conns : handler'[c].at \in {"spawning", "termwait"} =>
       \/ handler'[c] = handler[c]
       \/ handler'[c].at = "termwait" /\ procs[handler'[c].name] = handler'[c].pid

\* The handler of c, which waits no more, drops an entry that is not running.
Drops(c, n) ==
  /\ Active(c) /\ Ebbs /\ MainLeaves
  /\ procs' = [procs EXCEPT ![n] = NoPid]
  /\ Alone => \A p \in Pids : procs[n] = p => mp'[p].status # "running"
  /\ \A d \in Conns : d # c => handler'[d] = handler[d]
  /\ \/ Same /\ handler'[c].at \notin {"spawning", "termwait"}
     \/ /\ handler'[c].at = "spawning" /\ handler'[c].name = n
        /\ \E p \in Pids :
             /\ handler'[c].pid = p /\ Unborn(p) /\ child'[p].name = n
             /\ \A q \in Pids : /\ Known(q)' = Known(q)
                                /\ q # p => child'[q].name = child[q].name /\ Unborn(q)' = Unborn(q)

LEMMA KeepsTable ==
  ASSUME TableInv, ServesInv', BirthInv', Alone' => Alone, Keeps
  PROVE  TableInv'
<1>0. TypeOK /\ mp \in [Pids -> ManagedProcess] /\ TypeInv'
  BY TypeParts DEF TableInv, ServesInv, TypeInv, Types
<1>1. \A p \in Pids : mp'[p].status = "none" <=> ~Known(p)'
  BY DEF Keeps, Ebbs, Same, TableInv
<1>2. \A p \in Pids : ~Unborn(p)' => child'[p].name \in Names
  BY DEF Keeps, Same, TableInv
<1>3. handler'[Main].at = "serving" => todo' = {}
  BY DEF Keeps, MainLeaves, TableInv
<1>4. RunningIsManaged'
  BY DEF Keeps, Ebbs, Same, TableInv, RunningIsManaged
<1>r. \A p \in Pids : relay'[p].at = "reading" => mp'[p].status = "running"
  BY DEF Keeps, Ebbs, TableInv
<1>5. ASSUME Alone', NEW c \in Conns PROVE Relies(c)'
  <2>1. Relies(c)
    BY <1>5 DEF TableInv
  <2>2. CASE handler'[c] = handler[c]
    <3>1. handler[c].at = "spawning" => handler[c].pid \in Pids
      BY DEF TableInv, ServesInv, TypeInv, Remembers
    <3>2. QED
      BY <2>1, <2>2, <3>1 DEF Relies, Keeps, Same
  <2>3. CASE handler'[c] # handler[c]
    BY <2>3 DEF Relies, Keeps
  <2>4. QED
    BY <2>2, <2>3
<1>6. QED
  BY <1>1, <1>2, <1>3, <1>4, <1>r, <1>5 DEF TableInv

\* Under Alone the handler of c is the only one that can be waiting.
LEMMA OthersRely ==
  ASSUME ServesInv, Alone, NEW c \in Conns, Active(c),
         \A d \in Conns : d # c => handler'[d] = handler[d]
  PROVE  \A d \in Conns : d # c => Relies(d)'
<1>1. \A d \in Conns : d # c => ~Active(d)
  BY DEF ServesInv, OneActive
<1>2. QED
  BY <1>1 DEF Relies, Active

LEMMA DropsTable ==
  ASSUME TableInv, ServesInv', BirthInv', Alone' => Alone, NEW c \in Conns, NEW n \in Names,
         Drops(c, n)
  PROVE  TableInv'
<1>0. /\ TypeOK /\ mp \in [Pids -> ManagedProcess]
      /\ procs \in [Names -> Pids \union {NoPid}] /\ ServesInv
  BY TypeParts DEF TableInv, ServesInv, TypeInv, Types
<1>1. \A p \in Pids : Known(p)' = Known(p)
  BY DEF Drops, Same
<1>2. \A p \in Pids : mp'[p].status = "none" <=> ~Known(p)'
  BY <1>1 DEF Drops, Ebbs, TableInv
<1>3. \A p \in Pids : ~Unborn(p)' => child'[p].name \in Names
  BY DEF Drops, Same, TableInv
<1>4. handler'[Main].at = "serving" => todo' = {}
  BY DEF Drops, MainLeaves, TableInv
<1>r. \A p \in Pids : relay'[p].at = "reading" => mp'[p].status = "running"
  BY DEF Drops, Ebbs, TableInv
<1>5. ASSUME Alone', NEW p \in Pids, mp'[p].status = "running" PROVE procs'[child'[p].name] = p
  <2>1. mp[p].status = "running"
    BY <1>5 DEF Drops, Ebbs
  <2>2. procs[child[p].name] = p /\ Known(p) /\ ~Unborn(p) /\ child[p].name \in Names
    BY <1>5, <2>1 DEF TableInv, RunningIsManaged, BirthInv
  <2>3. child'[p].name = child[p].name
    BY <1>5, <2>2 DEF Drops, Same
  <2>4. child[p].name # n
    BY <1>5, <2>2 DEF Drops
  <2>5. QED
    BY <1>0, <2>2, <2>3, <2>4 DEF Drops
<1>6. ASSUME Alone' PROVE \A d \in Conns : Relies(d)'
  <2>1. \A d \in Conns : d # c => Relies(d)'
    BY <1>0, <1>6, OthersRely DEF Drops
  <2>2. Relies(c)'
    BY <1>0 DEF Drops, Relies
  <2>3. QED
    BY <2>1, <2>2
<1>7. QED
  BY <1>2, <1>3, <1>4, <1>r, <1>5, <1>6 DEF TableInv, RunningIsManaged

\* The child whose handler forked it gets its entry, and the name is still free.
LEMMA SpawnedTable ==
  ASSUME TableInv, ServesInv', BirthInv', NEW c \in Conns, Spawned(c)
  PROVE  TableInv'
<1>0. /\ TypeInv /\ TypeOK /\ Types /\ mp \in [Pids -> ManagedProcess] /\ ServesInv
      /\ procs \in [Names -> Pids \union {NoPid}] /\ relay \in [Pids -> RelayRec]
      /\ c \in Tasks /\ Main \in Tasks /\ Main # c /\ Conns \subseteq Tasks
  BY TypeParts, PyAssumption DEF TableInv, ServesInv, TypeInv, Types, Tasks
<1>a. PICK n \in Names, p \in Pids : n = handler[c].name /\ p = handler[c].pid
  BY <1>0 DEF Spawned, TypeInv, Remembers
<1>1. /\ procs' = [procs EXCEPT ![n] = p] /\ UNCHANGED <<child, todo, taken, overlapped>>
      /\ Answer(c, [mp EXCEPT ![p] = Process("running")])
      /\ relay' = [relay EXCEPT ![p].at = "reading"] /\ handler[c].at = "spawning"
  BY <1>a DEF Spawned
<1>2. /\ handler'[c].at = "reading" /\ \A u \in Tasks : u # c => handler'[u] = handler[u]
  BY <1>0, GoesIs DEF Spawned, HandlerStates
<1> DEFINE ps == [mp EXCEPT ![p] = Process("running")]
<1>3. /\ ps \in [Pids -> ManagedProcess] /\ Drains(ps) /\ ps[p] = Process("running")
      /\ \A q \in Pids : q # p => ps[q] = mp[q]
  BY <1>0, ProcessSet, ProcessIs
<1>4. Quieter(ps, mp')
  <2>1. <<Result(c, taken'[c])>> \in Seq(Message)
    <3>1. taken'[c] \in Nat
      BY <1>0, <1>1 DEF Types
    <3>2. QED
      BY <3>1 DEF Result, Message
  <2>2. SendToClient(<<Result(c, taken'[c])>>, ps)
    BY <1>1 DEF Answer
  <2> HIDE DEF ps
  <2>3. QED
    BY <1>0, <1>3, <2>1, <2>2, SendIs
<1>5. mp'[p].status = "running" /\ \A q \in Pids : q # p => mp'[q].status = mp[q].status
  <2> HIDE DEF ps
  <2>1. QED
    BY <1>3, <1>4, ProcessIs DEF Quieter
<1> HIDE DEF ps
<1>6. /\ Known(p)' /\ \A q \in Pids : q # p => Known(q)' = Known(q)
      /\ \A q \in Pids : relay'[q].at = "reading" => mp'[q].status = "running"
  <2>1. relay[p] \in RelayRec /\ relay' = [relay EXCEPT ![p] = [relay[p] EXCEPT !.at = "reading"]]
    BY <1>0, <1>1
  <2>2. [relay[p] EXCEPT !.at = "reading"].at = "reading"
    BY <2>1 DEF RelayRec
  <2>3. relay'[p].at = "reading" /\ \A q \in Pids : q # p => relay'[q] = relay[q]
    BY <1>0, <2>1, <2>2
  <2>4. QED
    BY <1>5, <2>3 DEF Known, TableInv
<1>7. \A q \in Pids : mp'[q].status = "none" <=> ~Known(q)'
  BY <1>5, <1>6 DEF TableInv
<1>8. \A q \in Pids : ~Unborn(q)' => child'[q].name \in Names
  BY <1>1 DEF TableInv, Unborn
<1>9. handler'[Main].at = "serving" => todo' = {}
  BY <1>0, <1>1, <1>2 DEF TableInv
<1>10. ASSUME Alone', NEW q \in Pids, mp'[q].status = "running" PROVE procs'[child'[q].name] = q
  <2>0. Alone /\ procs[n] = NoPid /\ child[p].name = n /\ child' = child
    BY <1>a, <1>1, <1>10 DEF Alone, TableInv, Relies
  <2>1. CASE q = p
    BY <1>0, <1>1, <2>0, <2>1
  <2>2. CASE q # p
    <3>1. mp[q].status = "running"
      BY <1>5, <1>10, <2>2
    <3>2. procs[child[q].name] = q /\ ~Unborn(q)
      BY <2>0, <3>1 DEF TableInv, RunningIsManaged, BirthInv
    <3>3. child[q].name \in Names /\ child[q].name # n
      BY <2>0, <3>2, PyAssumption DEF TableInv
    <3>4. QED
      BY <1>0, <1>1, <2>0, <3>2, <3>3
  <2>3. QED
    BY <2>1, <2>2
<1>11. ASSUME Alone' PROVE \A d \in Conns : Relies(d)'
  <2>1. Alone /\ Active(c)
    BY <1>1, <1>11 DEF Alone, Active
  <2>2. \A d \in Conns : d # c => Relies(d)'
    BY <1>0, <1>2, <2>1, OthersRely
  <2>3. Relies(c)'
    BY <1>2 DEF Relies
  <2>4. QED
    BY <2>2, <2>3
<1>12. QED
  BY <1>6, <1>7, <1>8, <1>9, <1>10, <1>11 DEF TableInv, RunningIsManaged

-----------------------------------------------------------------------------
(* The steps *)

\* An answer that follows on ps.
LEMMA AnswerEbbs ==
  ASSUME TypeOK, NEW c \in Conns, NEW ps \in [Pids -> ManagedProcess], Drains(ps),
         taken'[c] \in Nat, Answer(c, ps),
         \A p \in Pids :
           /\ relay'[p].at = "reading" => relay[p].at = "reading"
           /\ \/ ps[p].status = mp[p].status
              \/ mp[p].status # "none" /\ ps[p].status = "exited" /\ relay'[p].at = "done"
  PROVE  Ebbs /\ \A p \in Pids : mp'[p].status = ps[p].status
<1>1. <<Result(c, taken'[c])>> \in Seq(Message)
  BY DEF Result, Message
<1>2. Quieter(ps, mp')
  BY <1>1, SendIs DEF Answer
<1>3. QED
  BY <1>2 DEF Ebbs, Quieter

\* The handler of c alone goes on.
LEMMA MainStands ==
  ASSUME TypeInv, NEW c \in Conns, \A u \in Tasks : u # c => handler'[u] = handler[u],
         UNCHANGED todo
  PROVE  MainLeaves
<1>1. Main \in Tasks /\ Main # c
  BY PyAssumption DEF Tasks
<1>2. QED
  BY <1>1 DEF MainLeaves

LEMMA CommandTable ==
  ASSUME TypeInv, NEW c \in Conns, Command(c)
  PROVE  Keeps \/ \E n \in Names : Drops(c, n)
<1>0. /\ TypeOK /\ Types /\ c \in Tasks /\ Conns \subseteq Tasks
      /\ mp \in [Pids -> ManagedProcess] /\ Drains(mp)
      /\ procs \in [Names -> Pids \union {NoPid}] /\ child \in [Pids -> ChildRec]
      /\ client_writer \in Conns \union {NoConn}
  BY TypeParts DEF TypeInv, Tasks, Types
<1>1. /\ UNCHANGED <<relay, todo>> /\ handler[c].at = "reading" /\ taken'[c] \in Nat /\ Active(c)
  <2>1. \E x \in {"spawn", "kill", "subscribe", "unsubscribe", "status"} : TakeCommand(c, x)
    BY DEF Command, CmdSpawn, CmdKill, CmdSubscribe, CmdUnsubscribe, CmdStatus
  <2>2. QED
    BY <2>1, TakeIs DEF TakeCommand, Active
<1>2. ASSUME UNCHANGED child PROVE Same
  BY <1>1, <1>2 DEF Same, Known, Unborn
<1>3. ASSUME UNCHANGED mp PROVE Ebbs
  BY <1>1, <1>3 DEF Ebbs
<1>4. ASSUME Answer(c, mp) PROVE Ebbs /\ \A p \in Pids : mp'[p].status = mp[p].status
  BY <1>0, <1>1, <1>4, AnswerEbbs
<1>5. ASSUME UNCHANGED <<handler, child, procs>>, Ebbs PROVE Keeps
  BY <1>0, <1>1, <1>2, <1>5, MainStands DEF Keeps
\* A name whose process does not run is dropped.
<1>6. ASSUME NEW n \in Names, ~Running(n), UNCHANGED <<handler, child>>, Answer(c, mp),
             procs' = [procs EXCEPT ![n] = NoPid]
      PROVE  Drops(c, n)
  <2>1. \A p \in Pids : procs[n] = p => mp[p].status # "running"
    BY <1>6, PyAssumption DEF Running, Managed
  <2>2. Same /\ MainLeaves
    BY <1>0, <1>1, <1>2, <1>6, MainStands
  <2>3. QED
    BY <1>1, <1>4, <1>6, <2>1, <2>2 DEF Drops
<1>7. ASSUME NEW n \in Names, CmdSpawn(c, n) PROVE Keeps \/ Drops(c, n)
  <2>1. CASE Running(n) /\ UNCHANGED <<procs, handler, child>> /\ Answer(c, mp)
    BY <1>4, <1>5, <2>1
  <2>2. ASSUME ~Running(n), procs' = [procs EXCEPT ![n] = NoPid], UNCHANGED mp, NEW p \in Pids,
               child[p].state = "unborn",
               child' = [child EXCEPT ![p] = [@ EXCEPT !.state = "running", !.name = n, !.open = TRUE]],
               Waits(c, "spawning", n, p, NoConn)
        PROVE  Drops(c, n)
    <3>1. child'[p].name = n /\ \A q \in Pids : q # p => child'[q] = child[q]
      <4> DEFINE e == [child[p] EXCEPT !.state = "running", !.name = n, !.open = TRUE]
      <4>1. e.name = n
        BY <1>0, <2>2 DEF ChildRec
      <4>2. child' = [child EXCEPT ![p] = e]
        BY <2>2
      <4> HIDE DEF e
      <4>3. QED
        BY <1>0, <4>1, <4>2
    <3>2. "spawning" \in HandlerStates
      BY DEF HandlerStates
    <3>3. /\ handler'[c].at = "spawning" /\ handler'[c].pid = p /\ handler'[c].name = n
          /\ \A u \in Tasks : u # c => handler'[u] = handler[u]
      <4> DEFINE h == [at |-> "spawning", name |-> n, pid |-> p, writer |-> NoConn]
      <4>1. handler'[c] = h /\ \A u \in Tasks : u # c => handler'[u] = handler[u]
        BY <1>0, <2>2, <3>2, WaitsIs
      <4>2. QED
        BY <4>1
    <3>4. \A q \in Pids : procs[n] = q => mp'[q].status # "running"
      BY <2>2, PyAssumption DEF Running, Managed
    <3>5. MainLeaves /\ Ebbs
      BY <1>1, <1>3, <2>2, <3>3, MainStands
    <3>6. \A q \in Pids : /\ Known(q)' = Known(q)
                          /\ q # p => child'[q].name = child[q].name /\ Unborn(q)' = Unborn(q)
      BY <1>1, <3>1 DEF Known, Unborn
    <3>7. QED
      BY <1>0, <1>1, <2>2, <3>1, <3>3, <3>4, <3>5, <3>6 DEF Drops, Unborn
  <2>3. CASE /\ ~Running(n) /\ procs' = [procs EXCEPT ![n] = NoPid]
             /\ Answer(c, mp) /\ UNCHANGED <<handler, child>>
    BY <1>6, <2>3
  <2>4. QED
    BY <1>7, <2>1, <2>2, <2>3 DEF CmdSpawn
<1>8. ASSUME NEW n \in Names, CmdKill(c, n) PROVE Keeps \/ Drops(c, n)
  <2>1. CASE /\ Waits(c, "termwait", n, procs[n], NoConn)
             /\ UNCHANGED <<procs, mp, client_writer, broken, sent>>
    <3> DEFINE h == [at |-> "termwait", name |-> n, pid |-> procs[n], writer |-> NoConn]
    <3>1. handler'[c] = h /\ \A u \in Tasks : u # c => handler'[u] = handler[u]
      BY <1>0, <2>1, WaitsIs DEF HandlerStates
    <3>2. handler'[c].at = "termwait" /\ handler'[c].pid = procs[n] /\ handler'[c].name = n
      BY <3>1
    <3> HIDE DEF h
    <3>3. Same /\ Ebbs /\ MainLeaves
      BY <1>1, <1>2, <1>3, <1>8, <2>1, <3>1, MainStands DEF CmdKill
    <3>4. QED
      BY <1>0, <2>1, <3>1, <3>2, <3>3 DEF Keeps
  <2>2. CASE /\ ~Running(n) /\ procs' = [procs EXCEPT ![n] = NoPid]
             /\ Answer(c, mp) /\ UNCHANGED handler
    BY <1>6, <1>8, <2>2 DEF CmdKill
  <2>3. QED
    BY <1>8, <2>1, <2>2 DEF CmdKill
<1>9. ASSUME NEW n \in Names, CmdSubscribe(c, n) PROVE Keeps
  <2>1. UNCHANGED <<procs, child>>
    BY <1>9 DEF CmdSubscribe
  <2>2. CASE ~Managed(n) /\ Answer(c, mp) /\ UNCHANGED handler
    BY <1>4, <1>5, <2>1, <2>2
  <2>3. CASE /\ Managed(n)
             /\ \/ SendToClient(Append(mp[procs[n]].buffer, Result(c, taken'[c])), Subscribed(n))
                \/ SendToClient(mp[procs[n]].buffer, Subscribed(n))
    <3>1. /\ procs[n] \in Pids /\ mp[procs[n]].buffer \in Seq(Message)
          /\ Subscribed(n) \in [Pids -> ManagedProcess] /\ Drains(Subscribed(n))
          /\ \A p \in Pids : Subscribed(n)[p].status = mp[p].status
      BY <1>0, <1>9, <2>3, SubscribedIs
    <3>2. Result(c, taken'[c]) \in Message
      BY <1>1 DEF Result, Message
    <3>3. Append(mp[procs[n]].buffer, Result(c, taken'[c])) \in Seq(Message)
      BY <3>1, <3>2
    <3>4. Quieter(Subscribed(n), mp')
      BY <1>0, <2>3, <3>1, <3>3, SendIs
    <3>5. Ebbs
      BY <1>1, <3>1, <3>4 DEF Ebbs, Quieter
    <3>6. CASE UNCHANGED handler
      BY <1>5, <2>1, <3>5, <3>6
    <3>7. CASE Waits(c, "draining", n, procs[n], client_writer)
      <4> DEFINE h == [at |-> "draining", name |-> n, pid |-> procs[n], writer |-> client_writer]
      <4>1. handler'[c] = h /\ \A u \in Tasks : u # c => handler'[u] = handler[u]
        BY <1>0, <3>7, WaitsIs DEF HandlerStates
      <4>2. handler'[c].at = "draining"
        BY <4>1
      <4> HIDE DEF h
      <4>3. Same /\ MainLeaves
        BY <1>1, <1>2, <2>1, <4>1, MainStands
      <4>4. QED
        BY <1>0, <2>1, <3>5, <4>1, <4>2, <4>3 DEF Keeps
    <3>8. QED
      BY <1>9, <2>3, <3>6, <3>7 DEF CmdSubscribe
  <2>4. QED
    BY <1>9, <2>2, <2>3 DEF CmdSubscribe
<1>10. ASSUME NEW n \in Names, CmdUnsubscribe(c, n) PROVE Keeps
  <2> DEFINE ps == IF Managed(n) THEN [mp EXCEPT ![procs[n]].subscribed = FALSE] ELSE mp
  <2>1. /\ ps \in [Pids -> ManagedProcess] /\ Drains(ps)
        /\ \A p \in Pids : ps[p].status = mp[p].status
    <3>1. CASE Managed(n)
      <4> DEFINE q == procs[n]
                 e == [mp[q] EXCEPT !.subscribed = FALSE]
      <4>1. q \in Pids /\ mp[q] \in ManagedProcess
        BY <1>0, <1>10, <3>1 DEF Managed
      <4>2. e \in ManagedProcess /\ ~e.subscribed /\ e.status = mp[q].status
        BY <4>1 DEF ManagedProcess
      <4>3. ps = [mp EXCEPT ![q] = e]
        BY <3>1
      <4> HIDE DEF e, ps
      <4>4. QED
        BY <1>0, <4>1, <4>2, <4>3 DEF Drains
    <3>2. CASE ~Managed(n)
      BY <1>0, <3>2
    <3>3. QED
      BY <3>1, <3>2
  <2>2. Answer(c, ps) /\ UNCHANGED <<procs, handler, child>>
    BY <1>10 DEF CmdUnsubscribe
  <2> HIDE DEF ps
  <2>3. Ebbs
    BY <1>0, <1>1, <2>1, <2>2, AnswerEbbs
  <2>4. QED
    BY <1>5, <2>2, <2>3
<1>11. CASE CmdStatus(c)
  BY <1>4, <1>5, <1>11 DEF CmdStatus
<1>12. QED
  BY <1>7, <1>8, <1>9, <1>10, <1>11 DEF Command

LEMMA KillingTable ==
  ASSUME TableInv, NEW t \in Tasks, Killing(t)
  PROVE  Keeps \/ \E c \in Conns, n \in Names : Drops(c, n)
<1>0. /\ TypeInv /\ TypeOK /\ Types /\ mp \in [Pids -> ManagedProcess] /\ BirthInv
      /\ Conns \subseteq Tasks /\ Main \in Tasks /\ Main \notin Conns
  BY TypeParts, PyAssumption DEF TableInv, ServesInv, TypeInv, Types, Tasks
<1>1. handler[t].at = "termwait"
  BY DEF Killing, KillReaped, KillTimeout
<1>2. PICK p \in Pids : p = handler[t].pid
  BY <1>0, <1>1 DEF TypeInv, Remembers, Tasks
<1>3. Known(p) /\ mp[p].status # "none"
  BY <1>1, <1>2 DEF TableInv, BirthInv
<1>4. CASE KillTimeout(t)
  <2>1. UNCHANGED <<procs, mp, relay, handler, todo>>
    BY <1>4 DEF KillTimeout, tasks
  <2>2. \A q \in Pids : child'[q].state = "unborn" <=> child[q].state = "unborn"
    BY <1>0, <1>2, <1>4, ChildLives DEF KillTimeout
  <2>3. \A q \in Pids : child'[q].name = child[q].name
    <3> DEFINE e == [child[p] EXCEPT !.state = "dead"]
    <3>1. child \in [Pids -> ChildRec] /\ child[p] \in ChildRec /\ child' = [child EXCEPT ![p] = e]
      BY <1>0, <1>2, <1>4 DEF Types, KillTimeout
    <3>2. e.name = child[p].name
      BY <3>1 DEF ChildRec
    <3> HIDE DEF e
    <3>3. QED
      BY <3>1, <3>2
  <2>4. QED
    BY <2>1, <2>2, <2>3 DEF Keeps, Ebbs, Same, MainLeaves, Known, Unborn
<1>5. CASE KillReaped(t)
  <2> DEFINE ps == [mp EXCEPT ![p].status = "exited"]
  <2>1. /\ ps \in [Pids -> ManagedProcess] /\ Drains(ps) /\ ps[p].status = "exited"
        /\ \A q \in Pids : q # p => ps[q] = mp[q]
    BY <1>0, ExitedIs
  <2>r. relay'[p].at = "done" /\ \A q \in Pids : q # p => relay'[q] = relay[q]
    <3>1. relay[p] \in RelayRec /\ relay \in [Pids -> RelayRec]
      BY <1>0 DEF Types
    <3>2. [relay[p] EXCEPT !.at = "done"].at = "done"
      BY <3>1 DEF RelayRec
    <3>3. QED
      BY <1>2, <1>5, <3>1, <3>2 DEF KillReaped
  <2>2. \A q \in Pids :
          /\ relay'[q].at = "reading" => relay[q].at = "reading"
          /\ \/ ps[q].status = mp[q].status
             \/ mp[q].status # "none" /\ ps[q].status = "exited" /\ relay'[q].at = "done"
    BY <1>3, <2>1, <2>r
  <2>3. Same
    <3>1. \A q \in Pids : relay'[q].at = "none" <=> relay[q].at = "none"
      BY <1>0, <1>2, <1>3, <1>5, RelayLives DEF KillReaped, Known
    <3>2. UNCHANGED child
      BY <1>5 DEF KillReaped
    <3>3. QED
      BY <3>1, <3>2 DEF Same, Known, Unborn
  <2>4. CASE /\ t \in Conns /\ Goes(t, "reading")
             /\ procs' = [procs EXCEPT ![handler[t].name] = NoPid]
             /\ UNCHANGED taken /\ Answer(t, ps)
    <3> HIDE DEF ps
    <3>1. PICK n \in Names : n = handler[t].name
      BY <1>0, <1>1, <2>4 DEF TypeInv, Remembers
    <3>2. taken'[t] \in Nat /\ UNCHANGED todo
      BY <1>0, <1>5, <2>4 DEF Types, KillReaped
    <3>3. Ebbs /\ \A q \in Pids : mp'[q].status = ps[q].status
      BY <1>0, <2>1, <2>2, <2>4, <3>2, AnswerEbbs
    <3>4. /\ handler'[t].at = "reading" /\ \A u \in Tasks : u # t => handler'[u] = handler[u]
      BY <1>0, <2>4, GoesIs DEF HandlerStates
    <3>5. Alone => \A q \in Pids : procs[n] = q => mp'[q].status # "running"
      BY <1>1, <1>2, <2>1, <2>4, <3>1, <3>3 DEF TableInv, Relies
    <3>6. MainLeaves /\ Active(t)
      BY <1>0, <1>1, <2>4, <3>2, <3>4, MainStands DEF Active
    <3>7. Drops(t, n)
      BY <1>0, <2>3, <2>4, <3>1, <3>3, <3>4, <3>5, <3>6 DEF Drops
    <3>8. QED
      BY <2>4, <3>7
  <2>5. CASE t = Main /\ Goes(t, "killing") /\ mp' = ps /\ UNCHANGED procs
    <3>1. /\ handler'[t].at = "killing" /\ \A u \in Tasks : u # t => handler'[u] = handler[u]
      BY <1>0, <2>5, GoesIs DEF HandlerStates
    <3>2. Ebbs
      BY <2>2, <2>5 DEF Ebbs
    <3>3. QED
      BY <1>0, <2>3, <2>5, <3>1, <3>2 DEF Keeps, MainLeaves
  <2>6. QED
    BY <1>2, <1>5, <2>4, <2>5 DEF KillReaped
<1>6. QED
  BY <1>4, <1>5 DEF Killing

LEMMA RelayTable ==
  ASSUME TableInv, NEW p \in Pids, Relay(p)
  PROVE  Keeps
<1>0. /\ TypeInv /\ TypeOK /\ Types /\ mp \in [Pids -> ManagedProcess] /\ BirthInv
      /\ relay \in [Pids -> RelayRec] /\ relay[p] \in RelayRec
  BY TypeParts DEF TableInv, ServesInv, TypeInv, Types
<1>1. relay[p].at = "reading" /\ mp[p].status # "none"
  BY DEF Relay, RelayStdout, RelayExit, RelayFails, TableInv, Known
<1>2. \A q \in Pids : relay'[q].at = "none" <=> relay[q].at = "none"
  BY <1>0, <1>1, RelayLives DEF Relay, RelayStdout, RelayExit, RelayFails
<1>3. ASSUME Ebbs, RelayStands PROVE Keeps
  BY <1>2, <1>3 DEF Keeps, Same, MainLeaves, RelayStands, Known, Unborn
\* ps is what the relay leaves to _relay_or_buffer.
<1>4. ASSUME NEW m \in Relayed, NEW ps \in [Pids -> ManagedProcess], Drains(ps),
             RelayOrBuffer(p, m, ps), RelayStands, ps[p].subscribed = mp[p].subscribed,
             \A q \in Pids :
               /\ relay'[q].at = "reading" => relay[q].at = "reading"
               /\ \/ ps[q].status = mp[q].status
                  \/ mp[q].status # "none" /\ ps[q].status = "exited" /\ relay'[q].at = "done"
      PROVE  Keeps
  <2>1. CASE SendToClient(<<m>>, ps)
    <3>1. <<m>> \in Seq(Message)
      BY DEF Message
    <3>2. \A q \in Pids : mp'[q].status = ps[q].status
      BY <1>0, <1>4, <2>1, <3>1, SendIs DEF Quieter
    <3>3. QED
      BY <1>3, <1>4, <3>2 DEF Ebbs
  <2>2. CASE ~mp[p].subscribed /\ mp' = [ps EXCEPT ![p].buffer = Append(@, m)]
    <3>1. \A q \in Pids : mp'[q].status = ps[q].status
      BY <1>4, <2>2, BufferedIs
    <3>2. QED
      BY <1>3, <1>4, <3>1 DEF Ebbs
  <2>3. QED
    BY <1>4, <2>1, <2>2 DEF RelayOrBuffer
<1>5. CASE RelayStdout(p)
  <2> DEFINE e == [relay[p] EXCEPT !.taken = @ + 1]
             m == Out(p, relay'[p].taken)
  <2>1. relay' = [relay EXCEPT ![p] = e] /\ e.at = relay[p].at /\ e.taken \in Nat
    BY <1>0, <1>5 DEF RelayStdout, RelayRec
  <2> HIDE DEF e
  <2>2. relay'[p] = e /\ \A q \in Pids : q # p => relay'[q] = relay[q]
    BY <1>0, <2>1
  <2>3. m \in Relayed
    BY <2>1, <2>2 DEF Out, Relayed
  <2>4. RelayOrBuffer(p, m, mp) /\ RelayStands
    BY <1>5 DEF RelayStdout
  <2> HIDE DEF m
  <2>5. Drains(mp)
    BY <1>0 DEF Types
  <2>6. QED
    BY <1>0, <1>4, <2>1, <2>2, <2>3, <2>4, <2>5
<1>6. CASE RelayExit(p)
  <2> DEFINE e == [at |-> "done", taken |-> relay[p].taken + 1]
             m == Exit(p, relay'[p].taken)
             ps == [mp EXCEPT ![p].status = "exited"]
  <2>1. relay' = [relay EXCEPT ![p] = e] /\ e.at = "done" /\ e.taken \in Nat
    BY <1>0, <1>6 DEF RelayExit, RelayRec
  <2> HIDE DEF e
  <2>2. relay'[p] = e /\ \A q \in Pids : q # p => relay'[q] = relay[q]
    BY <1>0, <2>1
  <2>3. m \in Relayed
    BY <2>1, <2>2 DEF Exit, Relayed
  <2>4. RelayOrBuffer(p, m, ps) /\ RelayStands
    BY <1>6 DEF RelayExit
  <2>5. /\ ps \in [Pids -> ManagedProcess] /\ Drains(ps) /\ ps[p].status = "exited"
        /\ ps[p].subscribed = mp[p].subscribed /\ \A q \in Pids : q # p => ps[q] = mp[q]
    BY <1>0, ExitedIs
  <2> HIDE DEF m, ps
  <2>6. QED
    BY <1>0, <1>1, <1>4, <2>1, <2>2, <2>3, <2>4, <2>5
<1>7. CASE RelayFails(p)
  <2>1. /\ \A q \in Pids : relay'[q].at = "reading" => relay[q].at = "reading"
        /\ UNCHANGED mp /\ RelayStands
    <3>1. relay' = [relay EXCEPT ![p] = [relay[p] EXCEPT !.at = "done"]]
      BY <1>7 DEF RelayFails
    <3>2. QED
      BY <1>0, <1>1, <1>7, <3>1 DEF RelayFails
  <2>2. QED
    BY <1>3, <2>1 DEF Ebbs
<1>8. QED
  BY <1>5, <1>6, <1>7 DEF Relay

LEMMA OthersTable ==
  ASSUME TableInv, Next,
         ~ \E c \in Conns : Command(c) \/ Spawned(c) \/ Killing(c),
         ~ \E p \in Pids : Relay(p), ~Killing(Main)
  PROVE  Keeps
<1>0. /\ TypeInv /\ TypeOK /\ Types /\ mp \in [Pids -> ManagedProcess] /\ Drains(mp)
      /\ Conns \subseteq Tasks /\ Main \in Tasks /\ Main \notin Conns
  BY TypeParts, PyAssumption DEF TableInv, ServesInv, TypeInv, Types, Tasks
<1>1. ASSUME UNCHANGED <<procs, relay, todo, child>>, Ebbs, NEW c \in Conns,
             NEW s \in {"reading", "done"}, Goes(c, s)
      PROVE  Keeps
  <2>1. handler'[c].at = s /\ \A u \in Tasks : u # c => handler'[u] = handler[u]
    BY <1>0, <1>1, GoesIs DEF HandlerStates
  <2>2. MainLeaves
    BY <1>0, <1>1, <2>1, MainStands
  <2>3. QED
    BY <1>0, <1>1, <2>1, <2>2 DEF Keeps, Same, Known, Unborn
<1>2. ASSUME NEW c \in Conns, HandleClient(c) \/ HandlerEnds(c) PROVE Keeps
  <2>1. mp' = mp \/ mp' = Unsubscribed(mp)
    BY <1>2 DEF HandleClient, HandlerEnds
  <2>2. Ebbs
    <3>1. UNCHANGED relay
      BY <1>2 DEF HandleClient, HandlerEnds
    <3>2. QED
      BY <1>0, <2>1, <3>1, UnsubscribedIs DEF Ebbs, Quieter
  <2>3. QED
    BY <1>1, <1>2, <2>2 DEF HandleClient, HandlerEnds
<1>3. ASSUME NEW c \in Conns, Drained(c) PROVE Keeps
  <2>1. taken'[c] \in Nat /\ handler[c].writer \in Conns
    BY <1>0, <1>3 DEF Drained, Types, TypeInv, Remembers
  <2>2. CASE Answer(c, mp)
    BY <1>0, <1>1, <1>3, <2>1, <2>2, AnswerEbbs DEF Drained
  <2>3. CASE UNCHANGED mp
    BY <1>1, <1>3, <2>3 DEF Drained, Ebbs
  <2>4. CASE SendFails(handler[c].writer, mp)
    <3>1. UNCHANGED relay
      BY <1>3 DEF Drained
    <3>2. Ebbs
      BY <1>0, <2>1, <2>4, <3>1, SendFailsIs DEF Ebbs, Quieter
    <3>3. QED
      BY <1>1, <1>3, <3>2 DEF Drained
  <2>5. QED
    BY <1>3, <2>2, <2>3, <2>4 DEF Drained
\* Main goes on.
<1>4. ASSUME UNCHANGED <<procs, mp, relay, child>>, NEW s \in {"killing", "termwait", "closing"},
             NEW n, NEW p, Waits(Main, s, n, p, NoConn)
      PROVE  Keeps
  <2> DEFINE h == [at |-> s, name |-> n, pid |-> p, writer |-> NoConn]
  <2>1. handler' = [handler EXCEPT ![Main] = h] /\ h.at # "serving" /\ handler \in [Tasks -> HandlerRec]
    BY <1>0, <1>4 DEF Waits, Types
  <2> HIDE DEF h
  <2>2. handler'[Main].at # "serving" /\ \A c \in Conns : handler'[c] = handler[c]
    BY <1>0, <2>1
  <2>3. QED
    BY <1>4, <2>2 DEF Keeps, Ebbs, Same, MainLeaves, Known, Unborn
<1>5. CASE Shutdown \/ ShutdownCloses
  BY <1>4, <1>5 DEF Shutdown, ShutdownCloses, Goes
<1>6. ASSUME NEW p \in Pids, ShutdownNext(p) PROVE Keeps
  <2>1. CASE UNCHANGED handler
    BY <1>6, <2>1 DEF ShutdownNext, Keeps, Ebbs, Same, MainLeaves, Known, Unborn
  <2>2. QED
    BY <1>4, <1>6, <2>1 DEF ShutdownNext
<1>7. CASE Rests \/ \E c \in Conns : ClientSends(c) \/ ClientCloses(c)
  <2>1. UNCHANGED <<procs, mp, relay, handler, todo, child>>
    BY <1>7 DEF Rests, ClientSends, ClientCloses, vars, tasks
  <2>2. QED
    BY <2>1 DEF Keeps, Ebbs, Same, MainLeaves, Known, Unborn
<1>8. ASSUME NEW p \in Pids, ChildWrites(p) \/ ChildCloses(p) \/ ChildExits(p) PROVE Keeps
  <2>1. UNCHANGED <<procs, mp, relay, handler, todo>>
    BY <1>8 DEF ChildWrites, ChildCloses, ChildExits, tasks
  <2>2. \A q \in Pids : child'[q].state = "unborn" <=> child[q].state = "unborn"
    BY <1>0, <1>8, ChildLives DEF ChildWrites, ChildCloses, ChildExits
  <2>3. \A q \in Pids : child'[q].name = child[q].name
    <3>1. child \in [Pids -> ChildRec] /\ child[p] \in ChildRec
      BY <1>0, <1>8 DEF Types
    <3> DEFINE e1 == [child[p] EXCEPT !.out = @ + 1]
               e2 == [child[p] EXCEPT !.open = FALSE]
               e3 == [child[p] EXCEPT !.state = "dead"]
    <3>2. e1.name = child[p].name /\ e2.name = child[p].name /\ e3.name = child[p].name
      BY <3>1 DEF ChildRec
    <3>3. \/ child' = [child EXCEPT ![p] = e1] \/ child' = [child EXCEPT ![p] = e2]
          \/ child' = [child EXCEPT ![p] = e3]
      BY <1>8 DEF ChildWrites, ChildCloses, ChildExits
    <3> HIDE DEF e1, e2, e3
    <3>4. QED
      BY <3>1, <3>2, <3>3
  <2>4. QED
    BY <2>1, <2>2, <2>3 DEF Keeps, Ebbs, Same, MainLeaves, Known, Unborn
<1>9. QED
  BY <1>2, <1>3, <1>5, <1>6, <1>7, <1>8 DEF Next, Handler, Stopping, Environment

LEMMA InitTable == Init => TableInv
<1> SUFFICES ASSUME Init PROVE TableInv
  OBVIOUS
<1>1. ServesInv /\ BirthInv
  BY InitServes, InitBirth
<1>2. \A p \in Pids : mp[p].status = "none" /\ ~Known(p) /\ Unborn(p) /\ relay[p].at = "none"
  BY DEF Init, Known, Unborn, Process
<1>3. RunningIsManaged
  BY <1>2 DEF RunningIsManaged
<1>4. todo = {} /\ \A c \in Conns : Relies(c)
  <2>1. \A c \in Conns : handler[c].at \notin {"spawning", "termwait"}
    BY DEF Init
  <2>2. QED
    BY <2>1 DEF Init, Relies
<1>5. QED
  BY <1>1, <1>2, <1>3, <1>4 DEF TableInv

LEMMA NextTable ==
  ASSUME TableInv, [Next]_vars
  PROVE  TableInv'
<1>0. TypeInv /\ ServesInv' /\ BirthInv'
  <2>1. ServesInv /\ BirthInv /\ TypeInv
    BY DEF TableInv, ServesInv
  <2>2. QED
    BY <2>1, NextServes, NextBirth
<1>1. CASE UNCHANGED vars
  BY <1>0, <1>1 DEF TableInv, RunningIsManaged, Relies, Alone, Known, Unborn, vars, tasks
<1>2. CASE Next
  <2>1. Alone' => Alone
    BY <1>0, <1>2, Monotonic
  <2>2. ASSUME NEW c \in Conns, Command(c) \/ Killing(c) PROVE TableInv'
    <3>1. c \in Tasks
      BY <2>2 DEF Tasks
    <3>2. QED
      BY <1>0, <2>1, <2>2, <3>1, CommandTable, KillingTable, KeepsTable, DropsTable
  <2>3. ASSUME NEW c \in Conns, Spawned(c) PROVE TableInv'
    BY <1>0, <2>3, SpawnedTable
  <2>4. CASE Killing(Main) \/ \E p \in Pids : Relay(p)
    <3>1. Main \in Tasks
      BY DEF Tasks
    <3>2. QED
      BY <1>0, <2>1, <2>4, <3>1, RelayTable, KillingTable, KeepsTable, DropsTable
  <2>5. QED
    BY <1>0, <1>2, <2>1, <2>2, <2>3, <2>4, OthersTable, KeepsTable
<1>3. QED
  BY <1>1, <1>2

(***************************************************************************)
(* If each handler ended before the next connection came, a process that   *)
(* is believed running is in the table under its name.                     *)
(***************************************************************************)
THEOREM ManagedCorrect == Spec => []RunningIsManaged
<1>1. TableInv => RunningIsManaged
  BY DEF TableInv
<1>2. QED
  BY InitTable, NextTable, <1>1, PTL DEF Spec

-----------------------------------------------------------------------------
(* Nothing is lost *)

LEMMA HoldsConcat ==
  ASSUME NEW s \in Seq(Message), NEW t \in Seq(Message), NEW p, NEW k,
         Holds(s, p, k) \/ Holds(t, p, k)
  PROVE  Holds(s \o t, p, k)
<1>1. /\ Len(s) \in Nat /\ Len(t) \in Nat /\ DOMAIN s = 1 .. Len(s) /\ DOMAIN t = 1 .. Len(t)
      /\ Len(s \o t) = Len(s) + Len(t) /\ DOMAIN (s \o t) = 1 .. Len(s \o t)
      /\ \A j \in 1 .. Len(s) + Len(t) :
           (s \o t)[j] = IF j <= Len(s) THEN s[j] ELSE t[j - Len(s)]
  BY ConcatProperties
<1>2. CASE Holds(s, p, k)
  <2>1. PICK i \in DOMAIN s : s[i].kind # "result" /\ s[i].from = p /\ s[i].seq = k
    BY <1>2 DEF Holds
  <2>2. i \in DOMAIN (s \o t) /\ (s \o t)[i] = s[i]
    BY <1>1, <2>1
  <2>3. QED
    BY <2>1, <2>2 DEF Holds
<1>3. CASE Holds(t, p, k)
  <2>1. PICK i \in DOMAIN t : t[i].kind # "result" /\ t[i].from = p /\ t[i].seq = k
    BY <1>3 DEF Holds
  <2>2. Len(s) + i \in DOMAIN (s \o t) /\ (s \o t)[Len(s) + i] = t[i]
    BY <1>1, <2>1
  <2>3. QED
    BY <2>1, <2>2 DEF Holds
<1>4. QED
  BY <1>2, <1>3

LEMMA ResultAddedHolds ==
  ASSUME NEW s \in Seq(Message), NEW s2, ResultAdded(s, s2), NEW p, NEW k, Holds(s, p, k)
  PROVE  Holds(s2, p, k)
<1>1. ASSUME NEW d \in Conns, NEW i \in Nat, s2 = s \o <<Result(d, i)>>
      PROVE  Holds(s2, p, k)
  <2>1. <<Result(d, i)>> \in Seq(Message)
    BY <1>1 DEF Result, Message
  <2>2. QED
    BY <1>1, <2>1, HoldsConcat
<1>2. QED
  BY <1>1 DEF ResultAdded

\* What was sent is held after messages s are sent too; and with a writer
\* that is there, so is s.
LEMMA SentToWriterHolds ==
  ASSUME TypeOK, NEW s \in Seq(Message), SentToWriter(s), NEW p, NEW k
  PROVE  /\ \A c \in Conns : Holds(sent[c], p, k) => Holds(sent'[c], p, k)
         /\ client_writer \in Conns /\ conn[client_writer].state = "open" /\ Holds(s, p, k) =>
              \E c \in Conns : Holds(sent'[c], p, k)
<1>1. ASSUME NEW c \in Conns, ResultAdded(sent[c] \o s, sent'[c]),
             Holds(sent[c], p, k) \/ Holds(s, p, k)
      PROVE  Holds(sent'[c], p, k)
  <2>1. sent[c] \in Seq(Message) /\ sent[c] \o s \in Seq(Message)
    BY OrderTypes, ConcatProperties
  <2>2. QED
    BY <1>1, <2>1, HoldsConcat, ResultAddedHolds
<1>2. QED
  BY <1>1 DEF SentToWriter

\* Where line k of p goes in a step that takes it, or takes it from the buffer.
Kept(p, k) ==
  \/ Holds(mp'[p].buffer, p, k)
  \/ \E c \in Conns : Holds(sent'[c], p, k)
  \/ client_writer # NoConn /\ conn[client_writer].state = "closed"
  \/ client_writer = NoConn /\ (Away => ~Alone)

\* What is sent is kept, unless there is no writer where one is needed.
LEMMA SentIsKept ==
  ASSUME ServesInv, NEW s \in Seq(Message), SentToWriter(s), NEW p, NEW k, Holds(s, p, k),
         client_writer = NoConn => ~(Away /\ Alone)
  PROVE  Kept(p, k)
<1>1. TypeOK /\ client_writer \in Conns \union {NoConn}
  BY DEF ServesInv, TypeInv, TypeOK
<1>2. CASE client_writer = NoConn
  BY <1>2 DEF Kept
<1>3. CASE client_writer \in Conns
  <2>1. conn[client_writer].state \in {"open", "closed"} /\ client_writer # NoConn
    BY <1>1, <1>3, PyAssumption DEF ServesInv, TypeOK
  <2>2. QED
    BY <1>1, <1>3, <2>1, SentToWriterHolds DEF Kept
<1>4. QED
  BY <1>1, <1>2, <1>3

\* Without a client, and without overlaps, no relay that goes on is subscribed.
LEMMA RelaysAway ==
  ASSUME TableInv, AwayIsBufferedAlone, NEW p \in Pids, relay[p].at = "reading", mp[p].subscribed
  PROVE  ~(Away /\ Alone)
<1> SUFFICES ASSUME Away, Alone PROVE FALSE
  OBVIOUS
<1>1. Known(p) /\ ~Unborn(p) /\ mp[p].status = "running"
  BY DEF TableInv, BirthInv, Known
<1>2. child[p].name \in Names /\ procs[child[p].name] = p /\ p # NoPid
  BY <1>1, PyAssumption DEF TableInv, RunningIsManaged
<1>3. QED
  BY <1>2 DEF AwayIsBufferedAlone, AwayIsBuffered, Managed

LEMMA NextKept ==
  ASSUME TableInv, AwayIsBufferedAlone, Next, NEW p \in Pids, NEW k \in 1 .. relay'[p].taken,
         k > relay[p].taken \/ Holds(mp[p].buffer, p, k)
  PROVE  Kept(p, k)
<1>0. /\ TypeInv /\ TypeOK /\ ServesInv /\ BirthInv /\ Shape
      /\ relay[p].taken \in Nat /\ mp \in [Pids -> ManagedProcess]
  <2>1. TypeInv /\ TypeOK /\ ServesInv /\ BirthInv
    BY DEF TableInv, ServesInv, TypeInv
  <2>2. QED
    BY <2>1, ShapeStep DEF TypeOK
<1>1. CASE Quiet
  BY <1>0, <1>1 DEF Quiet, TakenStays, BuffersStay, Kept
<1>2. ASSUME NEW c \in Conns, Enters(c) PROVE Kept(p, k)
  <2>1. PICK q \in Pids : q = handler[c].pid
    BY <1>0, <1>2 DEF Enters, Spawned, TypeInv, Remembers
  <2> DEFINE ps == [mp EXCEPT ![q] = Process("running")]
  <2>2. relay[q].taken = 0
    BY <1>0, <1>2, <2>1 DEF Enters, Spawned, BirthInv
  <2>3. BuffersStay(ps) /\ TakenStays
    BY <1>2, <2>1 DEF Enters
  <2>4. p # q
    BY <1>0, <2>2, <2>3 DEF TakenStays
  <2>5. ps[p] = mp[p]
    BY <1>0, <2>4
  <2> HIDE DEF ps
  <2>6. QED
    BY <1>0, <2>3, <2>5 DEF BuffersStay, TakenStays, Kept
<1>3. ASSUME NEW c \in Conns, NEW n \in Names, Replays(c, n) PROVE Kept(p, k)
  <2>1. PICK q \in Pids : q = procs[n]
    BY <1>3 DEF Replays
  <2>2. /\ SentToWriter(mp[q].buffer) /\ mp[q].buffer \in Seq(Message)
        /\ p # q => mp'[p].buffer = mp[p].buffer
        /\ Holds(mp[p].buffer, p, k)
    BY <1>0, <1>3, <2>1, OrderTypes DEF Replays, TakenStays
  <2>3. client_writer = NoConn => ~(Away /\ Alone)
    BY <1>0, <1>3, PyAssumption DEF Replays, Away, ServesInv, ActiveIsWriter
  <2>4. CASE p = q
    BY <1>0, <2>2, <2>3, <2>4, SentIsKept
  <2>5. CASE p # q
    BY <2>2, <2>5 DEF Kept
  <2>6. QED
    BY <2>4, <2>5
<1>4. ASSUME NEW q \in Pids, Relays(q) PROVE Kept(p, k)
  <2>1. PICK m \in Relayed :
          /\ m.from = q /\ m.seq = relay[q].taken + 1
          /\ \A x \in Pids \ {q} : mp'[x].buffer = mp[x].buffer
          /\ \/ mp'[q].buffer = Append(mp[q].buffer, m) /\ UNCHANGED sent
             \/ /\ mp[q].subscribed /\ mp'[q].buffer = mp[q].buffer
                /\ SentToWriter(<<m>>)
    BY <1>4 DEF Relays
  <2>2. <<m>> \in Seq(Message) /\ m \in Message /\ Holds(<<m>>, q, relay[q].taken + 1)
    <3>1. m \in Message /\ m.kind # "result"
      BY DEF Message, Relayed
    <3>2. <<m>> \in Seq(Message) /\ DOMAIN <<m>> = {1} /\ <<m>>[1] = m
      BY <3>1, OneOrdered
    <3>3. QED
      BY <2>1, <3>1, <3>2 DEF Holds
  <2>3. Holds(mp[p].buffer, p, k) \/ (p = q /\ k = relay[q].taken + 1)
    BY <1>0, <1>4 DEF Relays
  <2>4. CASE mp'[q].buffer = Append(mp[q].buffer, m)
    <3>1. mp[q].buffer \in Seq(Message) /\ mp'[q].buffer = mp[q].buffer \o <<m>>
      BY <1>0, <2>2, <2>4, OrderTypes, AppendIsConcat
    <3>2. Holds(mp[q].buffer, q, k) \/ Holds(<<m>>, q, k) => Holds(mp'[q].buffer, q, k)
      BY <2>2, <3>1, HoldsConcat
    <3>3. QED
      BY <2>1, <2>2, <2>3, <3>2 DEF Kept
  <2>5. CASE mp[q].subscribed /\ mp'[q].buffer = mp[q].buffer /\ SentToWriter(<<m>>)
    <3>1. CASE Holds(mp[p].buffer, p, k)
      BY <2>1, <2>5, <3>1 DEF Kept
    <3>2. CASE p = q /\ k = relay[q].taken + 1
      <4>1. ~(Away /\ Alone)
        BY <1>4, <2>5, RelaysAway DEF Relays
      <4>2. QED
        BY <1>0, <2>2, <2>5, <3>2, <4>1, SentIsKept
    <3>3. QED
      BY <2>3, <3>1, <3>2
  <2>6. QED
    BY <2>1, <2>4, <2>5
<1>5. QED
  BY <1>0, <1>1, <1>2, <1>3, <1>4 DEF Shape

(***************************************************************************)
(* A line that a relay takes, and one that a step takes from a buffer, is  *)
(* then buffered or was sent to a client that is there, but for the losses *)
(* the property names.                                                     *)
(***************************************************************************)
THEOREM LossCorrect == Spec => NothingIsLost
<1> DEFINE P == \A p \in Pids : \A k \in 1 .. relay'[p].taken :
                  k > relay[p].taken \/ Holds(mp[p].buffer, p, k) => Kept(p, k)
<1>1. TableInv /\ AwayIsBufferedAlone /\ [Next]_vars => [P]_vars
  BY NextKept
<1>2. [P]_vars <=>
        [\A p \in Pids : \A k \in 1 .. relay'[p].taken :
           k > relay[p].taken \/ Holds(mp[p].buffer, p, k) =>
             \/ Holds(mp'[p].buffer, p, k)
             \/ \E c \in Conns : Holds(sent'[c], p, k)
             \/ client_writer # NoConn /\ conn[client_writer].state = "closed"
             \/ client_writer = NoConn /\ (Away => ~Alone)]_vars
  BY DEF Kept
<1>3. QED
  BY InitTable, NextTable, AwayCorrect, <1>1, <1>2, PTL DEF Spec, NothingIsLost

-----------------------------------------------------------------------------
(* One result for each command *)

\* The writer is not one that was closed.
WriterInv ==
  /\ \A c \in dropped : conn[c].state # "new"
  /\ client_writer # NoConn => client_writer \notin dropped

\* How the connections go on in a step.
LEMMA ConnStep ==
  ASSUME TypeInv, Next
  PROVE  \/ \E c \in Conns : HandleClient(c)
         \/ \A d \in Conns : \/ conn'[d].state = conn[d].state
                             \/ conn[d].state = "open" /\ conn'[d].state = "closed"
<1>0. conn \in [Conns -> ConnRec]
  BY TypeParts DEF TypeInv, Types
<1>1. CASE Stands
  BY <1>1 DEF Stands
<1>2. CASE \/ \E c \in Conns : HandlerEnds(c)
           \/ \E p \in Pids : ChildWrites(p) \/ ChildCloses(p) \/ ChildExits(p)
           \/ ShutdownCloses \/ Rests
  <2>1. UNCHANGED conn
    BY <1>2 DEF HandlerEnds, ChildWrites, ChildCloses, ChildExits, ShutdownCloses, Rests, vars
  <2>2. QED
    BY <2>1
<1>3. ASSUME NEW c \in Conns, ClientSends(c) \/ ClientCloses(c)
      PROVE  \A d \in Conns : \/ conn'[d].state = conn[d].state
                              \/ conn[d].state = "open" /\ conn'[d].state = "closed"
  <2>1. conn[c] \in ConnRec /\ conn[c].state = "open"
    BY <1>0, <1>3 DEF ClientSends, ClientCloses
  <2> DEFINE e1 == [conn[c] EXCEPT !.received = @ + 1, !.unread = @ + 1]
             e2 == [conn[c] EXCEPT !.state = "closed"]
  <2>2. e1.state = "open" /\ e2.state = "closed"
    BY <2>1 DEF ConnRec
  <2>x. conn' = [conn EXCEPT ![c] = e1] \/ conn' = [conn EXCEPT ![c] = e2]
    BY <1>3 DEF ClientSends, ClientCloses
  <2> HIDE DEF e1, e2
  <2>3. PICK e : conn' = [conn EXCEPT ![c] = e] /\ e.state \in {"open", "closed"}
    BY <2>2, <2>x
  <2>4. conn'[c] = e /\ \A d \in Conns : d # c => conn'[d] = conn[d]
    BY <1>0, <2>3
  <2>5. QED
    BY <2>1, <2>3, <2>4
<1>4. QED
  BY <1>1, <1>2, <1>3, HandlerStands, OthersStand
     DEF Next, Handler, Stopping, Environment, Tasks

\* A new connection.
LEMMA ComesIs ==
  ASSUME TypeInv, NEW c \in Conns, HandleClient(c)
  PROVE  /\ conn[c].state = "new" /\ conn'[c].state = "open" /\ client_writer' = c
         /\ \A d \in Conns : d # c => conn'[d] = conn[d]
         /\ dropped' = dropped \union ({client_writer} \ {NoConn})
<1>1. conn \in [Conns -> ConnRec] /\ conn[c] \in ConnRec
  BY TypeParts DEF TypeInv, Types
<1>2. [conn[c] EXCEPT !.state = "open"].state = "open"
  BY <1>1 DEF ConnRec
<1>3. QED
  BY <1>1, <1>2 DEF HandleClient

\* Another writer is a new one; only a connection that is replaced, or the
\* last one, is closed.
LEMMA DroppedStep ==
  ASSUME ServesInv, Next
  PROVE  \/ \E c \in Conns : HandleClient(c)
         \/ /\ dropped' = dropped \/ dropped' = dropped \union ({client_writer} \ {NoConn})
            /\ client_writer' = NoConn
         \/ dropped' = dropped /\ client_writer' = client_writer
<1>0. TypeInv /\ TypeOK /\ Main \in Tasks
  BY DEF ServesInv, TypeInv, Tasks
<1>1. CASE Stands
  BY <1>1 DEF Stands, Sends
<1>2. CASE ShutdownCloses
  BY <1>2 DEF ShutdownCloses
<1>3. CASE \/ \E c \in Conns : HandlerEnds(c) \/ ClientSends(c) \/ ClientCloses(c)
           \/ \E p \in Pids : ChildWrites(p) \/ ChildCloses(p) \/ ChildExits(p)
           \/ Rests
  BY <1>3 DEF HandlerEnds, ClientSends, ClientCloses, ChildWrites, ChildCloses, ChildExits,
     Rests, vars, tasks, streams
<1>4. QED
  BY <1>0, <1>1, <1>2, <1>3, HandlerStands, OthersStand
     DEF Next, Handler, Stopping, Environment, Tasks

LEMMA NextWriter ==
  ASSUME ServesInv, WriterInv, [Next]_vars
  PROVE  WriterInv'
<1> USE PyAssumption
<1>0. /\ TypeInv /\ TypeOK /\ Types
      /\ dropped \in SUBSET Conns /\ client_writer \in Conns \union {NoConn}
  BY TypeParts DEF ServesInv, TypeInv, Types
<1>1. CASE UNCHANGED vars
  BY <1>1 DEF WriterInv, vars, tasks, streams
<1>2. ASSUME NEW c \in Conns, HandleClient(c) PROVE WriterInv'
  <2>1. /\ conn[c].state = "new" /\ conn'[c].state = "open" /\ client_writer' = c
        /\ \A d \in Conns : d # c => conn'[d] = conn[d]
        /\ dropped' = dropped \union ({client_writer} \ {NoConn})
    BY <1>0, <1>2, ComesIs
  <2>2. \A d \in dropped' : conn[d].state # "new" /\ d \in Conns
    BY <1>0, <2>1 DEF WriterInv, ServesInv
  <2>3. client_writer' \notin dropped'
    BY <2>1, <2>2
  <2>4. \A d \in dropped' : conn'[d].state # "new"
    BY <2>1, <2>2
  <2>5. QED
    BY <2>3, <2>4 DEF WriterInv
<1>3. CASE Next /\ ~ \E c \in Conns : HandleClient(c)
  <2>1. \A d \in Conns : \/ conn'[d].state = conn[d].state
                         \/ conn[d].state = "open" /\ conn'[d].state = "closed"
    BY <1>0, <1>3, ConnStep
  <2>2. \/ /\ dropped' = dropped \/ dropped' = dropped \union ({client_writer} \ {NoConn})
           /\ client_writer' = NoConn
        \/ dropped' = dropped /\ client_writer' = client_writer
    BY <1>3, DroppedStep
  <2>3. \A c \in dropped' : conn[c].state # "new" /\ c \in Conns
    BY <1>0, <2>2 DEF WriterInv, ServesInv
  <2>4. \A c \in dropped' : conn'[c].state # "new"
    BY <2>1, <2>3
  <2>5. client_writer' # NoConn => client_writer' \notin dropped'
    BY <2>2 DEF WriterInv
  <2>6. QED
    BY <2>4, <2>5 DEF WriterInv
<1>4. QED
  BY <1>1, <1>2, <1>3


\* The handler of c has taken a command that it has not yet answered.
Waiting(c) == handler[c].at \in {"spawning", "draining", "termwait"}

Due(c) == IF Waiting(c) THEN taken[c] - 1 ELSE taken[c]

Turn(c) ==
  /\ conn[c].state = "closed" => sent[c] = << >>
  /\ \E k \in 0 .. taken[c] : InTurn(sent[c], c, k)
  /\ conn[c].state # "closed" /\ c \notin dropped =>
       Due(c) \in Nat /\ InTurn(sent[c], c, Due(c))

\* Without overlaps an active handler writes to its own client, if to any.
OwnWriter ==
  \A c \in Conns : Active(c) => client_writer \in {c, NoConn}

OwnDrain == \A c \in Conns : handler[c].at = "draining" => handler[c].writer = c

TurnInv ==
  ServesInv /\ WriterInv /\ (Alone => OwnWriter /\ OwnDrain /\ \A c \in Conns : Turn(c))

LEMMA EmptyInTurn == ASSUME NEW c PROVE InTurn(<< >>, c, 0)
<1>1. {i \in DOMAIN << >> : << >>[i].kind = "result"} = {} /\ 1 .. 0 = {}
  OBVIOUS
<1>2. QED
  BY <1>1 DEF InTurn

\* Output in between changes nothing.
LEMMA OutputInTurn ==
  ASSUME NEW s \in Seq(Message), NEW b \in Seq(Relayed), NEW c, NEW k, InTurn(s, c, k)
  PROVE  InTurn(s \o b, c, k)
<1> DEFINE u == s \o b
           rs == {i \in DOMAIN s : s[i].kind = "result"}
           ru == {i \in DOMAIN u : u[i].kind = "result"}
<1>1. /\ Len(s) \in Nat /\ DOMAIN s = 1 .. Len(s) /\ Len(b) \in Nat
      /\ DOMAIN u = 1 .. Len(s) + Len(b)
      /\ \A i \in 1 .. Len(s) : u[i] = s[i]
      /\ \A i \in Len(s) + 1 .. Len(s) + Len(b) : u[i] = b[i - Len(s)] /\ i - Len(s) \in DOMAIN b
  OBVIOUS
<1>2. \A i \in DOMAIN b : b[i].kind # "result"
  <2>1. \A i \in DOMAIN b : b[i] \in Relayed
    OBVIOUS
  <2>2. QED
    BY <2>1 DEF Relayed
<1> HIDE DEF u
<1>3. ru = rs /\ \A i \in rs : u[i] = s[i]
  <2>1. ASSUME NEW i \in DOMAIN u, i \notin DOMAIN s PROVE u[i].kind # "result"
    <3>1. i \in Len(s) + 1 .. Len(s) + Len(b)
      BY <1>1, <2>1
    <3>2. QED
      BY <1>1, <1>2, <3>1
  <2>2. \A i \in DOMAIN s : i \in DOMAIN u /\ u[i] = s[i]
    BY <1>1
  <2>3. QED
    BY <2>1, <2>2
<1>4. {u[i] : i \in ru} = {s[i] : i \in rs}
  BY <1>3
<1>5. QED
  BY <1>3, <1>4 DEF InTurn, u

\* The next result.
LEMMA NextInTurn ==
  ASSUME NEW s \in Seq(Message), NEW c \in Conns, NEW k \in Nat, InTurn(s, c, k)
  PROVE  InTurn(Append(s, Result(c, k + 1)), c, k + 1)
<1> DEFINE r == Result(c, k + 1)
           u == Append(s, r)
           n == Len(s) + 1
           rs == {i \in DOMAIN s : s[i].kind = "result"}
           ru == {i \in DOMAIN u : u[i].kind = "result"}
<1>1. r.kind = "result" /\ r.no = k + 1 /\ r \in Message
  BY DEF Result, Message
<1>2. \A no \in 1 .. k : Result(c, no).no = no
  BY DEF Result
<1>3. Result(c, k + 1) = r
  OBVIOUS
<1> HIDE DEF r
<1>4. /\ Len(s) \in Nat /\ DOMAIN s = 1 .. Len(s) /\ DOMAIN u = 1 .. n
      /\ u[n] = r /\ \A i \in 1 .. Len(s) : u[i] = s[i]
  BY <1>1
<1> HIDE DEF u
<1>5. ru = rs \union {n} /\ n \notin rs /\ \A i \in rs : u[i] = s[i] /\ i < n
  BY <1>1, <1>4
<1>6. {s[i] : i \in rs} = {Result(c, no) : no \in 1 .. k}
  BY DEF InTurn
<1>7. {u[i] : i \in ru} = {s[i] : i \in rs} \union {r}
  BY <1>4, <1>5
<1>8. {Result(c, no) : no \in 1 .. k + 1} = {Result(c, no) : no \in 1 .. k} \union {r}
  <2>1. 1 .. k + 1 = 1 .. k \union {k + 1}
    OBVIOUS
  <2>2. QED
    BY <1>3, <2>1
<1>9. \A i \in rs : s[i].no < k + 1
  <2>1. ASSUME NEW i \in rs PROVE s[i].no < k + 1
    <3>1. PICK no \in 1 .. k : s[i] = Result(c, no)
      BY <1>6
    <3>2. QED
      BY <1>2, <3>1
  <2>2. QED
    BY <2>1
<1>10. \A i, j \in ru : i < j => u[i].no < u[j].no
  <2>1. \A i, j \in rs : i < j => s[i].no < s[j].no
    BY DEF InTurn
  <2>2. \A i \in rs : ~(n < i)
    BY <1>4
  <2>3. QED
    BY <1>1, <1>4, <1>5, <1>9, <2>1, <2>2
<1>11. {u[i] : i \in ru} = {Result(c, no) : no \in 1 .. k + 1}
  BY <1>6, <1>7, <1>8
<1>12. InTurn(u, c, k + 1)
  BY <1>10, <1>11 DEF InTurn
<1>13. QED
  BY <1>3, <1>12 DEF u

LEMMA AppendAfter ==
  ASSUME NEW s \in Seq(Message), NEW b \in Seq(Message), NEW m \in Message
  PROVE  s \o Append(b, m) = Append(s \o b, m)
<1>1. Append(b, m) = b \o <<m>> /\ <<m>> \in Seq(Message)
  OBVIOUS
<1>2. s \o (b \o <<m>>) = (s \o b) \o <<m>>
  BY <1>1
<1>3. Append(s \o b, m) = (s \o b) \o <<m>>
  OBVIOUS
<1>4. QED
  BY <1>1, <1>2, <1>3

\* What a step does for one client: output passes, and no more is due; or its
\* result is given; or there is no client any more.
Passes(c) ==
  /\ taken[c] <= taken'[c] /\ Due(c)' = Due(c) /\ dropped \subseteq dropped'
  /\ \E b \in Seq(Relayed) : sent'[c] = sent[c] \o b
  /\ conn'[c].state = "closed" <=> conn[c].state = "closed"
  /\ conn[c].state = "closed" => sent'[c] = sent[c]

Gives(c) ==
  /\ taken'[c] = Due(c) + 1 /\ Due(c)' = Due(c) + 1
  /\ conn[c].state = "open" /\ conn'[c].state = "open" /\ c \notin dropped
  /\ \E b \in Seq(Relayed) : sent'[c] = Append(sent[c] \o b, Result(c, Due(c) + 1))

Leaves(c) == conn'[c].state = "closed" /\ sent'[c] = << >>

\* The server is closing, and it is not sent to any more.
Passed(c) ==
  /\ taken[c] <= taken'[c] /\ c \in dropped /\ dropped \subseteq dropped'
  /\ sent'[c] = sent[c] /\ conn'[c].state = conn[c].state

LEMMA TurnKept ==
  ASSUME TypeOK, TypeOK', NEW c \in Conns, Turn(c),
         Passes(c) \/ Gives(c) \/ Leaves(c) \/ Passed(c)
  PROVE  Turn(c)'
<1>1. /\ sent[c] \in Seq(Message) /\ taken[c] \in Nat /\ taken'[c] \in Nat
      /\ Relayed \subseteq Message
  BY TypeParts, TypesNext DEF Types, Message
<1>2. CASE Passes(c)
  <2>1. PICK b \in Seq(Relayed) : sent'[c] = sent[c] \o b
    BY <1>2 DEF Passes
  <2>2. \A k : InTurn(sent[c], c, k) => InTurn(sent'[c], c, k)
    BY <1>1, <2>1, OutputInTurn
  <2>3. PICK k \in 0 .. taken[c] : InTurn(sent[c], c, k)
    BY DEF Turn
  <2>4. k \in 0 .. taken'[c] /\ InTurn(sent'[c], c, k)
    BY <1>1, <1>2, <2>2, <2>3 DEF Passes
  <2>5. conn'[c].state = "closed" => sent'[c] = << >>
    BY <1>2 DEF Passes, Turn
  <2>6. ASSUME conn'[c].state # "closed", c \notin dropped'
        PROVE  Due(c)' \in Nat /\ InTurn(sent'[c], c, Due(c)')
    BY <1>2, <2>2, <2>6 DEF Passes, Turn
  <2>7. QED
    BY <2>4, <2>5, <2>6 DEF Turn
<1>3. CASE Gives(c)
  <2>1. PICK b \in Seq(Relayed) : sent'[c] = Append(sent[c] \o b, Result(c, Due(c) + 1))
    BY <1>3 DEF Gives
  <2>2. Due(c) \in Nat /\ InTurn(sent[c], c, Due(c))
    BY <1>3 DEF Gives, Turn
  <2>3. sent[c] \o b \in Seq(Message)
    BY <1>1
  <2>4. InTurn(sent'[c], c, Due(c) + 1)
    BY <1>1, <2>1, <2>2, <2>3, OutputInTurn, NextInTurn
  <2>5. taken'[c] \in 0 .. taken'[c] /\ taken'[c] = Due(c) + 1 /\ Due(c)' = Due(c) + 1
    BY <1>1, <1>3 DEF Gives
  <2>6. QED
    BY <1>1, <1>3, <2>4, <2>5 DEF Gives, Turn
<1>4. CASE Leaves(c)
  <2>1. 0 \in 0 .. taken'[c]
    BY <1>1
  <2>2. QED
    BY <1>4, <2>1, EmptyInTurn DEF Leaves, Turn
<1>5. CASE Passed(c)
  <2>1. PICK k \in 0 .. taken[c] : InTurn(sent[c], c, k)
    BY DEF Turn
  <2>2. k \in 0 .. taken'[c] /\ InTurn(sent'[c], c, k)
    BY <1>1, <1>5, <2>1 DEF Passed
  <2>3. QED
    BY <1>5, <2>2 DEF Passed, Turn
<1>6. QED
  BY <1>2, <1>3, <1>4, <1>5

-----------------------------------------------------------------------------
(* What a handler does when no other runs *)

LEMMA SendGoes ==
  ASSUME TypeOK, NEW ps, NEW msgs, SendToClient(msgs, ps)
  PROVE  \A c \in Conns :
           sent'[c] = IF c = client_writer /\ conn[c].state = "open"
                        THEN sent[c] \o msgs ELSE sent[c]
<1>1. sent \in [Conns -> Seq(Message)] /\ client_writer \in Conns \union {NoConn}
  BY TypeParts DEF Types
<1>2. CASE /\ client_writer # NoConn => conn[client_writer].state = "closed"
           /\ UNCHANGED sent
  BY <1>2, PyAssumption
<1>3. CASE client_writer # NoConn /\ conn[client_writer].state = "closed" /\ SendFails(client_writer, ps)
  BY <1>3 DEF SendFails
<1>4. CASE /\ client_writer # NoConn /\ conn[client_writer].state = "open"
           /\ sent' = [sent EXCEPT ![client_writer] = @ \o msgs]
  BY <1>1, <1>4
<1>5. QED
  BY <1>2, <1>3, <1>4 DEF SendToClient

\* Its client is gone, or was closed by the shutdown, or is the writer.
LEMMA OwnClient ==
  ASSUME TurnInv, NEW c \in Conns, Active(c)
  PROVE  \/ conn[c].state = "closed"
         \/ conn[c].state = "open" /\ client_writer # c /\ c \in dropped
         \/ conn[c].state = "open" /\ client_writer = c /\ c \notin dropped
<1>1. conn[c].state = "open" /\ c \notin dropped => client_writer = c
  BY NewestActive DEF TurnInv, ServesInv, TypeInv
<1>2. conn[c].state \in {"new", "open", "closed"} /\ conn[c].state # "new"
  BY TypeParts DEF TurnInv, ServesInv, TypeInv, Types, ConnRec, Remembers, Active
<1>3. client_writer = c => c \notin dropped
  BY PyAssumption DEF TurnInv, WriterInv
<1>4. QED
  BY <1>1, <1>2, <1>3

\* The handler of c sends b, and then the answer that is due, or does not
\* answer yet.
Says(c) ==
  \E b \in Seq(Relayed) : \E ps :
    \/ /\ Due(c)' = Due(c) /\ taken[c] <= taken'[c]
       /\ SendToClient(b, ps) \/ (b = << >> /\ UNCHANGED sent)
    \/ /\ taken'[c] = Due(c) + 1 /\ Due(c)' = Due(c) + 1
       /\ \/ SendToClient(Append(b, Result(c, taken'[c])), ps)
          \/ b = << >> /\ Answer(c, ps)

\* Nothing but the handler of c goes on.
Only(c) ==
  /\ Active(c) /\ UNCHANGED dropped /\ taken[c] <= taken'[c]
  /\ \A d \in Conns : conn'[d].state = conn[d].state
  /\ \A d \in Conns : d # c => handler'[d] = handler[d] /\ taken'[d] = taken[d]

LEMMA HandlerTurn ==
  ASSUME TurnInv, Alone, NEW c \in Conns, Only(c),
         \/ Says(c)
         \/ /\ conn[c].state = "closed" \/ c \in dropped
            /\ UNCHANGED sent \/ \E w \in Conns : \E ps : SendFails(w, ps)
  PROVE  \A d \in Conns : Passes(d) \/ Gives(d) \/ Leaves(d) \/ Passed(d)
<1>0. /\ TypeOK /\ sent \in [Conns -> Seq(Message)] /\ taken \in [Conns -> Nat]
      /\ client_writer \in {c, NoConn} /\ << >> \in Seq(Relayed) /\ Turn(c)
      /\ Relayed \subseteq Message
  BY TypeParts DEF TurnInv, ServesInv, TypeInv, Types, Only, OwnWriter, Message
<1>1. \A d \in Conns : sent'[d] # sent[d] => d = c /\ conn[c].state = "open" /\ client_writer = c
  BY <1>0, SendGoes, PyAssumption DEF Says, Answer, SendFails
<1>2. ASSUME NEW d \in Conns, d # c PROVE Passes(d)
  <2>1. sent'[d] = sent[d] /\ sent[d] = sent[d] \o << >>
    BY <1>0, <1>1, <1>2
  <2>2. taken'[d] = taken[d] /\ taken[d] <= taken[d] /\ Due(d)' = Due(d)
    BY <1>0, <1>2 DEF Only, Due, Waiting
  <2>3. QED
    BY <1>0, <2>1, <2>2 DEF Passes, Only
<1>3. ASSUME conn[c].state = "closed" PROVE Leaves(c)
  BY <1>0, <1>1, <1>3 DEF Leaves, Only, Turn
<1>p. ASSUME client_writer # c, c \in dropped PROVE Passed(c)
  BY <1>0, <1>1, <1>p DEF Passed, Only
<1>4. ASSUME conn[c].state = "open", client_writer = c, c \notin dropped
      PROVE  Passes(c) \/ Gives(c)
  <2>b. PICK b \in Seq(Relayed) : \E ps :
          \/ /\ Due(c)' = Due(c) /\ taken[c] <= taken'[c]
             /\ SendToClient(b, ps) \/ (b = << >> /\ UNCHANGED sent)
          \/ /\ taken'[c] = Due(c) + 1 /\ Due(c)' = Due(c) + 1
             /\ \/ SendToClient(Append(b, Result(c, taken'[c])), ps)
                \/ b = << >> /\ Answer(c, ps)
    BY <1>4 DEF Says
  <2>1. PICK ps :
          \/ /\ Due(c)' = Due(c) /\ taken[c] <= taken'[c]
             /\ SendToClient(b, ps) \/ (b = << >> /\ UNCHANGED sent)
          \/ /\ taken'[c] = Due(c) + 1 /\ Due(c)' = Due(c) + 1
             /\ \/ SendToClient(Append(b, Result(c, taken'[c])), ps)
                \/ b = << >> /\ Answer(c, ps)
    BY <2>b
  <2>2. conn'[c].state = "open" /\ dropped' = dropped
    BY <1>4 DEF Only
  <2>3. CASE /\ Due(c)' = Due(c) /\ taken[c] <= taken'[c]
             /\ SendToClient(b, ps) \/ (b = << >> /\ UNCHANGED sent)
    <3>1. ASSUME SendToClient(b, ps) PROVE sent'[c] = sent[c] \o b
      BY <1>0, <1>4, <3>1, SendGoes
    <3>2. ASSUME b = << >>, UNCHANGED sent PROVE sent'[c] = sent[c] \o b
      <4>1. sent[c] \in Seq(Message) /\ sent[c] = sent[c] \o << >>
        BY <1>0
      <4>2. QED
        BY <3>2, <4>1
    <3>3. sent'[c] = sent[c] \o b
      BY <2>3, <3>1, <3>2
    <3>4. QED
      BY <1>4, <2>2, <2>3, <3>3 DEF Passes
  <2>4. CASE /\ taken'[c] = Due(c) + 1 /\ Due(c)' = Due(c) + 1
             /\ \/ SendToClient(Append(b, Result(c, taken'[c])), ps)
                \/ b = << >> /\ Answer(c, ps)
    <3> DEFINE r == Result(c, taken'[c])
    <3>1. r \in Message
      <4>1. taken'[c] \in Nat
        BY <1>0, <1>4, <2>4 DEF Turn
      <4>2. QED
        BY <4>1 DEF Result, Message
    <3>2. sent'[c] = sent[c] \o Append(b, r) \/ (b = << >> /\ sent'[c] = sent[c] \o <<r>>)
      BY <1>0, <1>4, <2>4, SendGoes DEF Answer
    <3>3. r = Result(c, Due(c) + 1)
      BY <2>4
    <3> HIDE DEF r
    <3>4. sent'[c] = Append(sent[c] \o b, r)
      <4>1. b \in Seq(Message) /\ sent[c] \in Seq(Message)
        BY <1>0
      <4>2. CASE sent'[c] = sent[c] \o Append(b, r)
        <5>1. sent[c] \o Append(b, r) = Append(sent[c] \o b, r)
          BY <3>1, <4>1, AppendAfter
        <5>2. QED
          BY <4>2, <5>1
      <4>3. CASE b = << >> /\ sent'[c] = sent[c] \o <<r>>
        <5>1. sent[c] \o b = sent[c]
          BY <4>1, <4>3
        <5>2. Append(sent[c], r) = sent[c] \o <<r>>
          BY <3>1, <4>1
        <5>3. QED
          BY <4>3, <5>1, <5>2
      <4>4. QED
        BY <3>2, <4>2, <4>3
    <3>5. QED
      BY <1>4, <2>2, <2>4, <3>3, <3>4 DEF Gives
  <2>5. QED
    BY <2>1, <2>3, <2>4
<1>5. Active(c)
  BY DEF Only
<1>6. QED
  BY <1>2, <1>3, <1>p, <1>4, <1>5, OwnClient

\* A command: it is answered, or its handler waits.
LEMMA CommandTurn ==
  ASSUME TurnInv, Alone, NEW c \in Conns, Command(c)
  PROVE  /\ Only(c) /\ Says(c)
         /\ handler'[c].at = "draining" => handler'[c].writer = c
<1>0. /\ TypeInv /\ TypeOK /\ Types /\ c \in Tasks /\ Conns \subseteq Tasks
      /\ handler \in [Tasks -> HandlerRec] /\ taken \in [Conns -> Nat]
      /\ procs \in [Names -> Pids \union {NoPid}]
      /\ client_writer \in Conns \union {NoConn} /\ << >> \in Seq(Relayed)
  BY TypeParts DEF TurnInv, ServesInv, TypeInv, Types, Tasks
<1>1. /\ UNCHANGED dropped /\ handler[c].at = "reading" /\ taken' = [taken EXCEPT ![c] = @ + 1]
      /\ Active(c) /\ \A d \in Conns : conn'[d].state = conn[d].state
  <2>1. PICK x \in {"spawn", "kill", "subscribe", "unsubscribe", "status"} : TakeCommand(c, x)
    BY DEF Command, CmdSpawn, CmdKill, CmdSubscribe, CmdUnsubscribe, CmdStatus
  <2>2. QED
    BY <1>0, <2>1, TakeIs DEF TakeCommand, Active
<1>2. /\ Due(c) = taken[c] /\ taken'[c] = Due(c) + 1 /\ taken[c] <= taken'[c]
      /\ \A d \in Conns : d # c => taken'[d] = taken[d]
  BY <1>0, <1>1 DEF Due, Waiting
\* It is answered at once.
<1>3. ASSUME UNCHANGED handler, NEW b \in Seq(Relayed), NEW ps,
             SendToClient(Append(b, Result(c, taken'[c])), ps) \/ (b = << >> /\ Answer(c, ps))
      PROVE  Only(c) /\ Says(c) /\ handler'[c].at # "draining"
  <2>1. Due(c)' = Due(c) + 1
    BY <1>1, <1>2, <1>3 DEF Due, Waiting
  <2>2. QED
    BY <1>1, <1>2, <1>3, <2>1 DEF Only, Says
\* Its handler waits.
<1>4. ASSUME NEW s \in {"spawning", "termwait", "draining"}, NEW n \in Names,
             NEW p \in Pids \union {NoPid}, NEW w \in Conns \union {NoConn},
             Waits(c, s, n, p, w), NEW b \in Seq(Relayed), NEW ps,
             SendToClient(b, ps) \/ (b = << >> /\ UNCHANGED sent)
      PROVE  Only(c) /\ Says(c) /\ handler'[c].at = s /\ handler'[c].writer = w
  <2> DEFINE h == [at |-> s, name |-> n, pid |-> p, writer |-> w]
  <2>1. handler'[c] = h /\ \A u \in Tasks : u # c => handler'[u] = handler[u]
    <3>1. handler' = [handler EXCEPT ![c] = h]
      BY <1>4 DEF Waits
    <3> HIDE DEF h
    <3>2. QED
      BY <1>0, <3>1
  <2>2. handler'[c].at = s /\ handler'[c].writer = w
    BY <2>1
  <2> HIDE DEF h
  <2>3. Due(c)' = Due(c)
    BY <1>0, <1>2, <1>4, <2>2 DEF Due, Waiting
  <2>4. QED
    BY <1>0, <1>1, <1>2, <1>4, <2>1, <2>2, <2>3 DEF Only, Says
<1>5. ASSUME NEW ps, UNCHANGED handler, Answer(c, ps)
      PROVE  Only(c) /\ Says(c) /\ handler'[c].at # "draining"
  BY <1>0, <1>3, <1>5
<1>6. ASSUME NEW n \in Names, CmdSpawn(c, n) \/ CmdKill(c, n)
      PROVE  Only(c) /\ Says(c) /\ handler'[c].at # "draining"
  <2>1. CASE UNCHANGED handler /\ Answer(c, mp)
    BY <1>5, <2>1
  <2>2. ASSUME NEW s \in {"spawning", "termwait"}, NEW p \in Pids \union {NoPid},
               Waits(c, s, n, p, NoConn), UNCHANGED sent
        PROVE  Only(c) /\ Says(c) /\ handler'[c].at # "draining"
    <3>1. NoConn \in Conns \union {NoConn} /\ s \in {"spawning", "termwait", "draining"}
      OBVIOUS
    <3>2. Only(c) /\ Says(c) /\ handler'[c].at = s
      BY <1>0, <1>4, <2>2, <3>1
    <3>3. QED
      BY <3>2
  <2>3. QED
    BY <1>0, <1>6, <2>1, <2>2 DEF CmdSpawn, CmdKill
<1>7. ASSUME NEW n \in Names, CmdUnsubscribe(c, n) \/ CmdStatus(c)
      PROVE  Only(c) /\ Says(c) /\ handler'[c].at # "draining"
  BY <1>5, <1>7 DEF CmdUnsubscribe, CmdStatus
<1>8. ASSUME NEW n \in Names, CmdSubscribe(c, n)
      PROVE  /\ Only(c) /\ Says(c)
             /\ handler'[c].at = "draining" => handler'[c].writer = c
  <2>1. CASE ~Managed(n) /\ Answer(c, mp) /\ UNCHANGED handler
    BY <1>5, <2>1
  <2>2. CASE /\ Managed(n) /\ UNCHANGED handler
             /\ SendToClient(Append(mp[procs[n]].buffer, Result(c, taken'[c])), Subscribed(n))
    <3>1. mp[procs[n]].buffer \in Seq(Relayed)
      BY <1>0, <2>2, SubscribedIs
    <3>2. QED
      BY <1>3, <2>2, <3>1
  <2>3. CASE /\ Managed(n) /\ client_writer # NoConn
             /\ Waits(c, "draining", n, procs[n], client_writer)
             /\ SendToClient(mp[procs[n]].buffer, Subscribed(n))
    <3>1. mp[procs[n]].buffer \in Seq(Relayed)
      BY <1>0, <2>3, SubscribedIs
    <3>2. Only(c) /\ Says(c) /\ handler'[c].writer = client_writer
      BY <1>0, <1>4, <2>3, <3>1
    <3>3. client_writer = c
      BY <1>1, <2>3 DEF TurnInv, OwnWriter
    <3>4. QED
      BY <3>2, <3>3
  <2>4. QED
    BY <1>8, <2>1, <2>2, <2>3 DEF CmdSubscribe
<1>9. CASE CmdStatus(c)
  BY <1>5, <1>9 DEF CmdStatus
<1>10. QED
  BY <1>6, <1>7, <1>8, <1>9 DEF Command

\* A handler that waited answers; or its client is gone.
LEMMA ResumedTurn ==
  ASSUME TurnInv, Alone, NEW c \in Conns, Spawned(c) \/ Drained(c) \/ KillReaped(c)
  PROVE  /\ Only(c) /\ handler'[c].at = "reading"
         /\ \/ Says(c)
            \/ /\ conn[c].state = "closed" \/ c \in dropped
               /\ UNCHANGED sent \/ \E w \in Conns : \E ps : SendFails(w, ps)
<1>0. /\ TypeInv /\ TypeOK /\ Types /\ c \in Tasks /\ Conns \subseteq Tasks /\ c # Main
      /\ handler \in [Tasks -> HandlerRec] /\ taken \in [Conns -> Nat]
      /\ << >> \in Seq(Relayed) /\ "reading" \in HandlerStates
  BY TypeParts, PyAssumption DEF TurnInv, ServesInv, TypeInv, Types, Tasks, HandlerStates
<1>1. /\ handler[c].at \in {"spawning", "draining", "termwait"} /\ Goes(c, "reading")
      /\ UNCHANGED <<taken, dropped, conn>>
  BY <1>0 DEF Spawned, Drained, KillReaped
<1>2. handler'[c].at = "reading" /\ \A u \in Tasks : u # c => handler'[u] = handler[u]
  BY <1>0, <1>1, GoesIs
<1>3. Only(c)
  BY <1>0, <1>1, <1>2 DEF Only, Active
<1>4. taken'[c] = Due(c) + 1 /\ Due(c)' = Due(c) + 1
  BY <1>0, <1>1, <1>2 DEF Due, Waiting
<1>5. ASSUME NEW ps, Answer(c, ps) PROVE Says(c)
  BY <1>0, <1>4, <1>5 DEF Says
<1>6. CASE Spawned(c) \/ KillReaped(c)
  <2>1. \E ps : Answer(c, ps)
    BY <1>0, <1>6 DEF Spawned, KillReaped
  <2>2. QED
    BY <1>2, <1>3, <1>5, <2>1
<1>7. CASE Drained(c)
  <2>1. handler[c].writer = c
    BY <1>7 DEF TurnInv, OwnDrain, Drained
  <2>2. CASE Answer(c, mp)
    BY <1>2, <1>3, <1>5, <2>2
  <2>3. CASE c \in dropped \union broken /\ UNCHANGED sent
    <3>1. conn[c].state = "closed" \/ c \in dropped
      BY <2>3 DEF TurnInv, ServesInv
    <3>2. QED
      BY <1>2, <1>3, <2>3, <3>1
  <2>4. CASE conn[c].state = "closed" /\ SendFails(c, mp)
    BY <1>2, <1>3, <2>4
  <2>5. QED
    BY <1>7, <2>1, <2>2, <2>3, <2>4 DEF Drained
<1>8. QED
  BY <1>6, <1>7

\* No handler goes on, and nothing is sent but output.
LEMMA StandsTurn ==
  ASSUME TurnInv, \A c \in Conns : handler'[c] = handler[c], UNCHANGED taken,
         dropped \subseteq dropped', \A c \in Conns : conn'[c].state = conn[c].state,
         \/ UNCHANGED sent
         \/ \E b \in Seq(Relayed) : \E ps : SendToClient(b, ps)
  PROVE  \A c \in Conns : Passes(c)
<1> SUFFICES ASSUME NEW c \in Conns PROVE Passes(c)
  OBVIOUS
<1>0. /\ TypeOK /\ sent[c] \in Seq(Message) /\ taken[c] \in Nat /\ << >> \in Seq(Relayed)
      /\ sent[c] = sent[c] \o << >>
  BY TypeParts DEF TurnInv, ServesInv, TypeInv, Types
<1>1. /\ \E b \in Seq(Relayed) : sent'[c] = sent[c] \o b
      /\ conn[c].state = "closed" => sent'[c] = sent[c]
  <2>1. CASE UNCHANGED sent
    BY <1>0, <2>1
  <2>2. ASSUME NEW b \in Seq(Relayed), NEW ps, SendToClient(b, ps)
        PROVE  /\ sent'[c] = sent[c] \o b \/ sent'[c] = sent[c] \o << >>
               /\ conn[c].state = "closed" => sent'[c] = sent[c]
    BY <1>0, <2>2, SendGoes
  <2>3. QED
    BY <1>0, <2>1, <2>2
<1>2. taken[c] <= taken'[c] /\ Due(c)' = Due(c)
  BY <1>0 DEF Due, Waiting
<1>3. QED
  BY <1>1, <1>2 DEF Passes

LEMMA RelayTurn ==
  ASSUME TurnInv, NEW p \in Pids, Relay(p)
  PROVE  \A c \in Conns : Passes(c)
<1>0. TypeOK /\ Conns \subseteq Tasks
  BY DEF TurnInv, ServesInv, TypeInv, Tasks
<1>1. RelayStands /\ (UNCHANGED sent \/ \E m \in Relayed : \E ps : SendToClient(<<m>>, ps))
  <2>1. ASSUME Relaying(p)
        PROVE  RelayStands /\ (UNCHANGED sent \/ \E m \in Relayed : \E ps : SendToClient(<<m>>, ps))
    <3>1. PICK m \in Relayed, ps \in [Pids -> ManagedProcess] :
            RelayOrBuffer(p, m, ps) /\ RelayStands
      BY <1>0, <2>1, RelayIs
    <3>2. QED
      BY <3>1 DEF RelayOrBuffer
  <2>2. QED
    BY <2>1 DEF Relay, Relaying, RelayFails
<1>2. UNCHANGED <<handler, taken, dropped, conn>>
  BY <1>1 DEF RelayStands
<1>3. \A m \in Relayed : <<m>> \in Seq(Relayed)
  OBVIOUS
<1>4. QED
  BY <1>1, <1>2, <1>3, StandsTurn

\* The others send nothing; a client may come or go.
LEMMA OthersTurn ==
  ASSUME TurnInv, Next, Alone,
         ~ \E c \in Conns : Command(c) \/ Spawned(c) \/ Drained(c) \/ KillReaped(c),
         ~ \E p \in Pids : Relay(p)
  PROVE  /\ \A c \in Conns : Passes(c) \/ Leaves(c)
         /\ \A c \in Conns : handler'[c].at = "draining" => handler'[c] = handler[c]
<1>0. /\ TypeInv /\ TypeOK /\ Types /\ Main \in Tasks /\ Conns \subseteq Tasks /\ Main \notin Conns
      /\ sent \in [Conns -> Seq(Message)] /\ taken \in [Conns -> Nat] /\ conn \in [Conns -> ConnRec]
      /\ handler \in [Tasks -> HandlerRec]
  BY TypeParts, PyAssumption DEF TurnInv, ServesInv, TypeInv, Types, Tasks
<1>1. ASSUME NEW c \in Conns, UNCHANGED <<sent, taken>>, dropped \subseteq dropped',
             handler[c].at \in {"new", "reading"}, handler'[c].at \in {"reading", "done"},
             \A d \in Conns : d # c => handler'[d] = handler[d],
             \A d \in Conns : conn'[d].state = "closed" <=> conn[d].state = "closed"
      PROVE  /\ \A d \in Conns : Passes(d)
             /\ \A d \in Conns : handler'[d].at = "draining" => handler'[d] = handler[d]
  <2>1. ASSUME NEW d \in Conns PROVE Passes(d)
    <3>1. taken[d] \in Nat /\ taken'[d] = taken[d] /\ taken[d] <= taken'[d]
      BY <1>0, <1>1
    <3>2. Waiting(d)' = Waiting(d)
      BY <1>1 DEF Waiting
    <3>3. Due(d)' = Due(d)
      BY <3>1, <3>2 DEF Due
    <3>4. << >> \in Seq(Relayed) /\ sent'[d] = sent[d] \o << >>
      BY <1>0, <1>1
    <3>5. QED
      BY <1>1, <3>1, <3>3, <3>4 DEF Passes
  <2>2. QED
    BY <1>1, <2>1
<1>2. ASSUME NEW c \in Conns, HandleClient(c)
      PROVE  /\ \A d \in Conns : Passes(d)
             /\ \A d \in Conns : handler'[d].at = "draining" => handler'[d] = handler[d]
  <2>1. /\ conn[c].state = "new" /\ conn'[c].state = "open"
        /\ \A d \in Conns : d # c => conn'[d] = conn[d]
        /\ dropped \subseteq dropped' /\ handler[c].at = "new"
    BY <1>0, <1>2, ComesIs DEF TypeInv, Remembers
  <2>2. /\ handler'[c].at = "reading" /\ \A u \in Tasks : u # c => handler'[u] = handler[u]
        /\ UNCHANGED <<sent, taken>>
    BY <1>0, <1>2, GoesIs DEF HandleClient, HandlerStates
  <2>3. QED
    BY <1>0, <1>1, <2>1, <2>2
<1>3. ASSUME NEW c \in Conns, HandlerEnds(c)
      PROVE  /\ \A d \in Conns : Passes(d)
             /\ \A d \in Conns : handler'[d].at = "draining" => handler'[d] = handler[d]
  <2>1. /\ handler'[c].at = "done" /\ handler[c].at = "reading"
        /\ \A u \in Tasks : u # c => handler'[u] = handler[u]
        /\ UNCHANGED <<sent, taken, dropped, conn>>
    BY <1>0, <1>3, GoesIs DEF HandlerEnds, HandlerStates, streams
  <2>2. QED
    BY <1>0, <1>1, <2>1
<1>4. ASSUME NEW c \in Conns, ClientCloses(c)
      PROVE  /\ \A d \in Conns : Passes(d) \/ Leaves(d)
             /\ UNCHANGED handler
  <2> DEFINE e == [conn[c] EXCEPT !.state = "closed"]
  <2>1. conn' = [conn EXCEPT ![c] = e] /\ e.state = "closed"
    BY <1>0, <1>4 DEF ClientCloses, ConnRec
  <2> HIDE DEF e
  <2>2. conn'[c].state = "closed" /\ \A d \in Conns : d # c => conn'[d] = conn[d]
    BY <1>0, <2>1
  <2>3. sent'[c] = << >> /\ \A d \in Conns : d # c => sent'[d] = sent[d]
    BY <1>0, <1>4 DEF ClientCloses
  <2>4. UNCHANGED <<handler, taken, dropped>>
    BY <1>4 DEF ClientCloses, tasks
  <2>5. ASSUME NEW d \in Conns, d # c PROVE Passes(d)
    <3>1. taken[d] <= taken'[d] /\ Due(d)' = Due(d)
      BY <1>0, <2>4 DEF Due, Waiting
    <3>2. << >> \in Seq(Relayed) /\ sent'[d] = sent[d] \o << >>
      BY <1>0, <2>3, <2>5
    <3>3. QED
      BY <2>2, <2>3, <2>4, <2>5, <3>1, <3>2 DEF Passes
  <2>6. QED
    BY <2>2, <2>3, <2>4, <2>5 DEF Leaves
<1>5. ASSUME NEW c \in Conns, ClientSends(c)
      PROVE  (\A d \in Conns : Passes(d)) /\ UNCHANGED handler
  <2> DEFINE e == [conn[c] EXCEPT !.received = @ + 1, !.unread = @ + 1]
  <2>1. conn' = [conn EXCEPT ![c] = e] /\ e.state = conn[c].state
    BY <1>0, <1>5 DEF ClientSends, ConnRec
  <2> HIDE DEF e
  <2>2. \A d \in Conns : conn'[d].state = conn[d].state
    BY <1>0, <2>1
  <2>3. UNCHANGED <<handler, taken, dropped, sent>>
    BY <1>5 DEF ClientSends, tasks, streams
  <2>4. QED
    BY <2>2, <2>3, StandsTurn
<1>6. ASSUME NEW t \in {Main}, NEW s, NEW n, NEW p, NEW w,
             Waits(t, s, n, p, w) \/ UNCHANGED handler, UNCHANGED <<sent, taken, conn>>,
             dropped \subseteq dropped'
      PROVE  /\ \A c \in Conns : Passes(c)
             /\ \A c \in Conns : handler'[c] = handler[c]
  <2>1. \A c \in Conns : handler'[c] = handler[c]
    BY <1>0, <1>6 DEF Waits
  <2>2. QED
    BY <1>6, <2>1, StandsTurn
<1>7. CASE Shutdown \/ ShutdownCloses \/ KillReaped(Main) \/ \E p \in Pids : ShutdownNext(p)
  <2>1. UNCHANGED <<sent, taken, conn>> /\ dropped \subseteq dropped'
    BY <1>0, <1>7 DEF Shutdown, ShutdownCloses, KillReaped, ShutdownNext, streams
  <2>2. UNCHANGED handler \/ \E s, n, p, w : Waits(Main, s, n, p, w)
    BY <1>0, <1>7 DEF Shutdown, ShutdownCloses, KillReaped, ShutdownNext, Goes
  <2>3. QED
    BY <1>6, <2>1, <2>2
<1>8. CASE \/ \E t \in Tasks : KillTimeout(t)
           \/ \E p \in Pids : ChildWrites(p) \/ ChildCloses(p) \/ ChildExits(p)
           \/ Rests
  <2>1. UNCHANGED <<handler, sent, taken, dropped, conn>>
    BY <1>8 DEF KillTimeout, ChildWrites, ChildCloses, ChildExits, Rests, vars, tasks, streams
  <2>2. QED
    BY <2>1, StandsTurn
<1>9. QED
  BY <1>0, <1>2, <1>3, <1>4, <1>5, <1>7, <1>8
     DEF Next, Handler, Killing, Stopping, Environment

\* The writer is given up or is a new client's, whose handler is then the
\* only active one.
LEMMA OwnWriterStep ==
  ASSUME TurnInv, Next, Alone', Alone
  PROVE  OwnWriter'
<1>0. /\ TypeInv /\ TypeOK /\ Types /\ Main \in Tasks /\ Conns \subseteq Tasks /\ OwnWriter
      /\ ServesInv
  BY TypeParts DEF TurnInv, ServesInv, TypeInv, Types, Tasks
<1>1. ASSUME NEW c \in Conns, HandleClient(c) PROVE OwnWriter'
  <2>1. client_writer' = c /\ \A u \in Tasks : u # c => handler'[u] = handler[u]
    BY <1>0, <1>1, GoesIs DEF HandleClient, HandlerStates
  <2>2. \A d \in Conns : ~Active(d)
    BY <1>1 DEF HandleClient, Alone, Active
  <2>3. QED
    BY <1>0, <2>1, <2>2 DEF OwnWriter, Active
<1>2. ASSUME ~ \E c \in Conns : HandleClient(c) PROVE OwnWriter'
  <2>1. client_writer' \in {client_writer, NoConn}
    BY <1>0, <1>2, DroppedStep
  <2>2. \A d \in Conns : Active(d)' => Active(d)
    <3>1. CASE Stands
      BY <3>1 DEF Stands
    <3>2. ASSUME NEW c \in Conns, HandlerEnds(c) PROVE \A d \in Conns : Active(d)' => Active(d)
      <4>1. \A u \in Tasks : u # c => handler'[u] = handler[u]
        BY <1>0, <3>2, GoesIs DEF HandlerEnds, HandlerStates
      <4>2. Active(c)
        BY <3>2 DEF HandlerEnds, Active
      <4>3. QED
        BY <1>0, <4>1, <4>2 DEF Active
    <3>3. CASE ShutdownCloses
      <4>1. \A u \in Tasks : u # Main => handler'[u] = handler[u]
        BY <1>0, <3>3, GoesIs DEF ShutdownCloses, HandlerStates
      <4>2. QED
        BY <1>0, <4>1, PyAssumption DEF Active
    <3>4. CASE \/ \E c \in Conns : ClientSends(c) \/ ClientCloses(c)
               \/ \E p \in Pids : ChildWrites(p) \/ ChildCloses(p) \/ ChildExits(p)
               \/ Rests
      BY <3>4 DEF ClientSends, ClientCloses, ChildWrites, ChildCloses, ChildExits, Rests, vars,
         tasks, Active
    <3>5. QED
      BY <1>0, <1>2, <3>1, <3>2, <3>3, <3>4, HandlerStands, OthersStand
         DEF Next, Handler, Stopping, Environment, Tasks
  <2>3. QED
    BY <1>0, <2>1, <2>2 DEF OwnWriter
<1>3. QED
  BY <1>1, <1>2

LEMMA InitTurn == Init => TurnInv
<1> SUFFICES ASSUME Init PROVE TurnInv
  OBVIOUS
<1>1. ServesInv /\ WriterInv
  BY InitServes DEF Init, WriterInv
<1>2. ASSUME NEW c \in Conns PROVE Turn(c) /\ ~Active(c) /\ handler[c].at # "draining"
  <2>1. handler[c].at = "new" /\ sent[c] = << >> /\ taken[c] = 0 /\ conn[c].state = "new"
    BY PyAssumption DEF Init
  <2>2. 0 \in 0 .. 0 /\ Due(c) = 0
    BY <2>1 DEF Due, Waiting
  <2>3. QED
    BY <2>1, <2>2, EmptyInTurn DEF Turn, Active
<1>3. QED
  BY <1>1, <1>2 DEF TurnInv, OwnWriter, OwnDrain

LEMMA NextTurn ==
  ASSUME TurnInv, [Next]_vars
  PROVE  TurnInv'
<1>0. /\ ServesInv /\ WriterInv /\ ServesInv' /\ WriterInv' /\ TypeInv /\ TypeOK /\ TypeOK'
      /\ Conns \subseteq Tasks
  <2>1. ServesInv /\ WriterInv /\ ServesInv' /\ WriterInv'
    BY NextServes, NextWriter DEF TurnInv
  <2>2. QED
    BY <2>1 DEF ServesInv, TypeInv, Tasks
<1>1. CASE UNCHANGED vars
  <2>1. UNCHANGED <<client_writer, handler, taken, dropped, sent, conn, overlapped>>
    BY <1>1 DEF vars, tasks, streams
  <2>2. OwnWriter' = OwnWriter /\ OwnDrain' = OwnDrain /\ Alone' = Alone
    BY <2>1 DEF OwnWriter, OwnDrain, Active, Alone
  <2>3. \A c \in Conns : Turn(c)' = Turn(c)
    BY <2>1 DEF Turn, Due, Waiting
  <2>4. QED
    BY <1>0, <2>2, <2>3 DEF TurnInv
<1>2. CASE Next
  <2> SUFFICES ASSUME Alone' PROVE OwnWriter' /\ OwnDrain' /\ \A c \in Conns : Turn(c)'
    BY <1>0 DEF TurnInv
  <2>1. Alone /\ OwnDrain /\ \A c \in Conns : Turn(c)
    BY <1>0, <1>2, Monotonic DEF TurnInv
  <2>2. OwnWriter'
    BY <1>2, <2>1, OwnWriterStep
  <2>3. ASSUME NEW c \in Conns, Command(c) \/ Spawned(c) \/ Drained(c) \/ KillReaped(c)
        PROVE  OwnDrain' /\ \A d \in Conns : Passes(d) \/ Gives(d) \/ Leaves(d) \/ Passed(d)
    <3>1. /\ Only(c) /\ (handler'[c].at = "draining" => handler'[c].writer = c)
          /\ \/ Says(c)
             \/ /\ conn[c].state = "closed" \/ c \in dropped
                /\ UNCHANGED sent \/ \E w \in Conns : \E ps : SendFails(w, ps)
      BY <2>1, <2>3, CommandTurn, ResumedTurn
    <3>2. OwnDrain'
      BY <2>1, <3>1 DEF OwnDrain, Only
    <3>3. QED
      BY <2>1, <3>1, <3>2, HandlerTurn
  <2>4. ASSUME NEW p \in Pids, Relay(p)
        PROVE  OwnDrain' /\ \A d \in Conns : Passes(d)
    <3>1. UNCHANGED handler
      BY <2>4 DEF Relay, RelayStdout, RelayExit, RelayFails, RelayStands
    <3>2. QED
      BY <2>1, <2>4, <3>1, RelayTurn DEF OwnDrain
  <2>5. OwnDrain' /\ \A d \in Conns : Passes(d) \/ Gives(d) \/ Leaves(d) \/ Passed(d)
    BY <1>2, <2>1, <2>3, <2>4, OthersTurn DEF OwnDrain
  <2>6. QED
    BY <1>0, <2>1, <2>2, <2>5, TurnKept
<1>3. QED
  BY <1>1, <1>2

(***************************************************************************)
(* If each handler ended before the next connection came, a client has one *)
(* result for each command its handler is done with, in their order.       *)
(***************************************************************************)
THEOREM TurnCorrect == Spec => []ResultsInTurn
<1>1. TurnInv => ResultsInTurn
  BY DEF TurnInv, ResultsInTurn, Turn, Due, Waiting
<1>2. QED
  BY InitTurn, NextTurn, <1>1, PTL DEF Spec
=============================================================================
