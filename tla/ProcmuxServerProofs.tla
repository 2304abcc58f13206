------------------------ MODULE ProcmuxServerProofs ------------------------
(***************************************************************************)
(* Safety of the Rust server for every number of names, children, clients  *)
(* and lines.  TypeInv, the inductive invariant everything rests on, adds  *)
(* to TypeOK what ties the table to the operating system: an entry's child *)
(* exists and was started under the entry's name (Owned), so no two        *)
(* entries share a child, and a name or a relay task belongs to a child    *)
(* that was started (Born), so whatever a relay task sends names an entry. *)
(*                                                                         *)
(* OsStep and TableStep say what a step can do to the children and to the  *)
(* table; most other lemmas follow from these two.                         *)
(***************************************************************************)
EXTENDS ProcmuxServerProperties, SequenceTheorems, TLAPS

\* A child has a name, and may have relay tasks, from the spawn on.
Born ==
  \A p \in Pids :
    /\ child[p].state = "unborn" <=> child[p].name = NoName
    /\ child[p].state = "unborn" => task[p].stdout = "none" /\ task[p].stderr = "none"

\* An entry's child was started under the entry's name.
Owned ==
  \A n \in Names : Managed(n) => child[procs[n].pid].name = n

TypeInv == TypeOK /\ Born /\ Owned

USE DEF Managed, Running

-----------------------------------------------------------------------------
\* A server that starts manages nothing and has started nothing.
LEMMA InitTypeInv == Init => TypeInv
<1> SUFFICES ASSUME Init PROVE TypeInv
  OBVIOUS
<1> USE NoneAssumption, ServerAssumption DEF Init
<1>1. ControlOK
  BY DEF ControlOK
<1>2. TableOK
  BY DEF TableOK, Entry, Absent
<1>3. MessagesOK
  BY DEF MessagesOK
<1>4. ClientsOK
  BY DEF ClientsOK
<1>5. OsOK
  BY DEF OsOK, TaskStates, TaskRec, ChildRec
<1>6. WaitOK
  BY DEF WaitOK
<1>7. Born /\ Owned
  BY DEF Born, Owned, Absent
<1>8. QED
  BY <1>1, <1>2, <1>3, <1>4, <1>5, <1>6, <1>7 DEF TypeInv, TypeOK

\* What the server takes from the queue of the relay tasks.
LEMMA QueueHead ==
  ASSUME TypeInv, relay_rx # << >>
  PROVE  /\ Head(relay_rx) \in Output /\ Head(relay_rx).name \in Names
         /\ Tail(relay_rx) \in Seq(Output)
<1>1. relay_rx \in Seq(Output)
  BY DEF TypeInv, TypeOK, MessagesOK
<1>2. Head(relay_rx) \in Output /\ Tail(relay_rx) \in Seq(Output)
  BY <1>1
<1>3. QED
  BY <1>2 DEF Output

-----------------------------------------------------------------------------
(* What a step does to the children: a child that is born stays born and   *)
(* keeps its name, and one that is created gets a name.                    *)

OsMove ==
  /\ OsOK'
  /\ \A p \in Pids :
       \/ /\ child'[p].name = child[p].name
          /\ child'[p].state = "unborn" <=> child[p].state = "unborn"
          /\ child[p].state = "unborn" => task'[p] = task[p]
       \/ /\ child[p].state = "unborn" /\ child'[p].state # "unborn"
          /\ child'[p].name \in Names

\* The child an entry points to is born.
LEMMA EntryHasChild ==
  ASSUME TypeInv, NEW n \in Names, Managed(n)
  PROVE  procs[n].pid \in Pids /\ child[procs[n].pid].state # "unborn"
<1>1. procs[n].pid \in Pids
  BY DEF TypeInv, TypeOK, TableOK, Entry
<1>2. child[procs[n].pid].name \in Names
  BY DEF TypeInv, Owned
<1>3. QED
  BY <1>1, <1>2, NoneAssumption DEF TypeInv, Born

\* An await is about a child that is in the table and born.
LEMMA TargetHasChild ==
  ASSUME TypeInv, at \in {"exitwait", "termwait", "killwait", "stdin"}
  PROVE  /\ target \in Names /\ Managed(target) /\ procs[target].pid \in Pids
         /\ child[procs[target].pid].state # "unborn"
<1>1. target \in Names /\ Managed(target)
  BY DEF TypeInv, TypeOK, ControlOK, WaitOK
<1>2. QED
  BY <1>1, EntryHasChild

\* A relay task belongs to a child that is born.
LEMMA TaskHasChild ==
  ASSUME TypeInv, NEW p \in Pids, task[p].stdout # "none" \/ task[p].stderr # "none"
  PROVE  child[p].state # "unborn"
BY DEF TypeInv, Born

\* A step that updates one child, or its tasks, moves them as it should.
LEMMA OneChildMoves ==
  ASSUME TypeInv, NEW p \in Pids, NEW c \in ChildRec, NEW t \in TaskRec,
         UNCHANGED child \/ child' = [child EXCEPT ![p] = c],
         UNCHANGED task \/ task' = [task EXCEPT ![p] = t],
         c.state # "unborn",
         \/ child[p].state # "unborn" /\ c.name = child[p].name
         \/ child[p].state = "unborn" /\ c.name \in Names /\ ~UNCHANGED child
  PROVE  OsMove
<1>1. child \in [Pids -> ChildRec] /\ task \in [Pids -> TaskRec]
  BY DEF TypeInv, TypeOK, OsOK
<1>2. OsOK'
  BY <1>1 DEF OsOK
<1>3. QED
  BY <1>1, <1>2 DEF OsMove

\* Every step moves the children as it should.
LEMMA OsStep == TypeInv /\ Next => OsMove
<1> SUFFICES ASSUME TypeInv, Next PROVE OsMove
  OBVIOUS
<1>0. child \in [Pids -> ChildRec] /\ task \in [Pids -> TaskRec]
  BY DEF TypeInv, TypeOK, OsOK
<1>1. CASE UNCHANGED os
  BY <1>1 DEF os, OsMove, OsOK, TypeInv, TypeOK
<1>2. ASSUME NEW p \in Pids, NEW c \in ChildRec, child' = [child EXCEPT ![p] = c],
             UNCHANGED task, child[p].state # "unborn", c.state # "unborn",
             c.name = child[p].name
      PROVE  OsMove
  BY <1>0, <1>2, OneChildMoves
<1>3. ASSUME NEW p \in Pids, NEW t \in TaskRec, task' = [task EXCEPT ![p] = t],
             UNCHANGED child, child[p].state # "unborn"
      PROVE  OsMove
  BY <1>0, <1>3, OneChildMoves
<1>4. ASSUME NEW r \in SpawnRequests, NEW n \in Names, CmdSpawn(r, n), ~UNCHANGED os
      PROVE  OsMove
  <2>1. PICK p \in Pids :
          /\ child[p].state = "unborn"
          /\ child' = [child EXCEPT ![p].state = "running", ![p].name = n, ![p].open = TRUE]
          /\ task' = [task EXCEPT ![p].stdout = "reading", ![p].stderr = "reading"]
    BY <1>4 DEF CmdSpawn
  <2> DEFINE c == [child[p] EXCEPT !.state = "running", !.name = n, !.open = TRUE]
             t == [task[p] EXCEPT !.stdout = "reading", !.stderr = "reading"]
  <2>2. c \in ChildRec /\ c.state = "running" /\ c.name = n
    BY <1>0 DEF ChildRec
  <2>3. t \in TaskRec
    BY <1>0 DEF TaskRec, TaskStates
  <2>4. child' = [child EXCEPT ![p] = c] /\ task' = [task EXCEPT ![p] = t]
    BY <1>0, <2>1
  <2>5. ~UNCHANGED child
    BY <1>0, <2>1, <2>2, <2>4
  <2>6. QED
    <3> HIDE DEF c, t
    <3> QED BY <2>1, <2>2, <2>3, <2>4, <2>5, OneChildMoves
<1>5. CASE StdinWritten
  <2> DEFINE p == procs[target].pid
             c == [child[p] EXCEPT !.stdin = child[p].stdin + 1]
  <2>1. p \in Pids /\ child[p].state # "unborn"
    BY <1>5, TargetHasChild DEF StdinWritten
  <2>2. c \in ChildRec /\ c.state = child[p].state /\ c.name = child[p].name
    BY <1>0, <2>1 DEF ChildRec
  <2>3. child' = [child EXCEPT ![p] = c] /\ UNCHANGED task
    BY <1>0, <1>5 DEF StdinWritten
  <2>4. QED
    <3> HIDE DEF c
    <3> QED BY <1>2, <2>1, <2>2, <2>3
<1>6. ASSUME NEW p \in Pids, child' = [child EXCEPT ![p].state = "reaped"], UNCHANGED task,
             child[p].state # "unborn"
      PROVE  OsMove
  <2> DEFINE c == [child[p] EXCEPT !.state = "reaped"]
  <2>1. c \in ChildRec /\ c.state = "reaped" /\ c.name = child[p].name
    BY <1>0 DEF ChildRec
  <2>2. child' = [child EXCEPT ![p] = c]
    BY <1>0, <1>6
  <2>3. QED
    <3> HIDE DEF c
    <3> QED BY <1>2, <1>6, <2>1, <2>2
<1>7. CASE ExitReaped
  BY <1>6, <1>7, TargetHasChild DEF ExitReaped, FinishExit
<1>8. CASE KillReaped
  <2> DEFINE p == procs[target].pid
             c == [child[p] EXCEPT !.state = "reaped"]
             t == Aborted(task[p])
  <2>1. p \in Pids /\ child[p].state # "unborn"
    BY <1>8, TargetHasChild DEF KillReaped
  <2>2. c \in ChildRec /\ c.state = "reaped" /\ c.name = child[p].name
    BY <1>0, <2>1 DEF ChildRec
  <2>3. t \in TaskRec
    <3>1. task[p] \in TaskRec
      BY <1>0, <2>1
    <3>2. \A s \in TaskStates : Abort(s) \in TaskStates
      BY DEF Abort, TaskStates
    <3>3. Abort(task[p].stdout) \in TaskStates /\ Abort(task[p].stderr) \in TaskStates
      BY <3>1, <3>2 DEF TaskRec
    <3>4. QED
      BY <3>1, <3>3 DEF Aborted, TaskRec
  <2>4. child' = [child EXCEPT ![p] = c] /\ task' = [task EXCEPT ![p] = t]
    BY <1>0, <1>8 DEF KillReaped
  <2>5. QED
    <3> HIDE DEF c, t
    <3> QED BY <2>1, <2>2, <2>3, <2>4, OneChildMoves
<1>9. CASE KillTimeout
  <2> DEFINE p == procs[target].pid
             c == [child[p] EXCEPT !.killed = TRUE]
  <2>1. p \in Pids /\ child[p].state # "unborn"
    BY <1>9, TargetHasChild DEF KillTimeout
  <2>2. c \in ChildRec /\ c.state = child[p].state /\ c.name = child[p].name
    <3>1. child[p] \in ChildRec
      BY <1>0, <2>1
    <3>2. QED
      BY <3>1 DEF ChildRec
  <2>3. child' = [child EXCEPT ![p] = c] /\ UNCHANGED task
    BY <1>0, <1>9 DEF KillTimeout
  <2>4. QED
    <3> HIDE DEF c
    <3> QED BY <1>2, <2>1, <2>2, <2>3
<1>10. ASSUME NEW p \in Pids,
              RelayStdout(p) \/ RelayEof(p) \/ RelayStderr(p) \/ AbortedTaskEnds(p)
       PROVE  OsMove
  <2>1. child[p].state # "unborn"
    BY <1>10, TaskHasChild DEF RelayStdout, RelayEof, RelayStderr, AbortedTaskEnds, Reads
  <2>2. PICK t \in TaskRec : task' = [task EXCEPT ![p] = t] /\ UNCHANGED child
    BY <1>0, <1>10
    DEF RelayStdout, RelayEof, RelayStderr, AbortedTaskEnds, TaskRec, TaskStates
  <2>3. QED
    BY <1>3, <2>1, <2>2
<1>11. ASSUME NEW p \in Pids, ChildWrites(p) \/ ChildWritesErr(p) \/ ChildReads(p)
                              \/ ChildClosesStdout(p) \/ KilledDies(p)
       PROVE  OsMove
  <2> DEFINE Moved(c) == /\ child' = [child EXCEPT ![p] = c]
                         /\ c.state \in {child[p].state, "zombie"}
                         /\ c.name = child[p].name
  <2>1. child[p].state # "unborn" /\ UNCHANGED task
    BY <1>11
    DEF ChildWrites, ChildWritesErr, ChildReads, ChildClosesStdout, KilledDies, Unchanged
  <2>2. CASE ChildWrites(p)
    <3>1. [child[p] EXCEPT !.out = child[p].out + 1] \in ChildRec
      BY <1>0 DEF ChildRec
    <3>2. Moved([child[p] EXCEPT !.out = child[p].out + 1])
      BY <1>0, <2>2 DEF ChildWrites, ChildRec
    <3>3. QED BY <1>2, <2>1, <3>1, <3>2
  <2>3. CASE ChildWritesErr(p)
    <3>1. [child[p] EXCEPT !.err = child[p].err + 1] \in ChildRec
      BY <1>0 DEF ChildRec
    <3>2. Moved([child[p] EXCEPT !.err = child[p].err + 1])
      BY <1>0, <2>3 DEF ChildWritesErr, ChildRec
    <3>3. QED BY <1>2, <2>1, <3>1, <3>2
  <2>4. CASE ChildReads(p)
    <3>1. [child[p] EXCEPT !.stdin = child[p].stdin - 1] \in ChildRec
      BY <1>0, <2>4 DEF ChildReads, ChildRec
    <3>2. Moved([child[p] EXCEPT !.stdin = child[p].stdin - 1])
      BY <1>0, <2>4 DEF ChildReads, ChildRec
    <3>3. QED BY <1>2, <2>1, <3>1, <3>2
  <2>5. CASE ChildClosesStdout(p)
    <3>1. [child[p] EXCEPT !.open = FALSE] \in ChildRec
      BY <1>0 DEF ChildRec
    <3>2. Moved([child[p] EXCEPT !.open = FALSE])
      BY <1>0, <2>5 DEF ChildClosesStdout, ChildRec
    <3>3. QED BY <1>2, <2>1, <3>1, <3>2
  <2>6. CASE KilledDies(p)
    <3>1. [child[p] EXCEPT !.state = "zombie"] \in ChildRec
      BY <1>0 DEF ChildRec
    <3>2. Moved([child[p] EXCEPT !.state = "zombie"])
      BY <1>0, <2>6 DEF KilledDies, ChildRec
    <3>3. QED BY <1>2, <2>1, <3>1, <3>2
  <2>7. QED
    BY <1>11, <2>2, <2>3, <2>4, <2>5, <2>6
<1>12. ASSUME NEW p \in Pids, ChildExits(p) PROVE OsMove
  <2>1. PICK code \in Codes \union {NoCode} :
          child' = [child EXCEPT ![p].state = "zombie", ![p].code = code]
    BY <1>12 DEF ChildExits
  <2> DEFINE c == [child[p] EXCEPT !.state = "zombie", !.code = code]
  <2>2. c \in ChildRec /\ c.state = "zombie" /\ c.name = child[p].name
    BY <1>0 DEF ChildRec
  <2>3. child' = [child EXCEPT ![p] = c]
    BY <1>0, <2>1
  <2>4. child[p].state # "unborn" /\ UNCHANGED task
    BY <1>12 DEF ChildExits, Unchanged
  <2>5. QED
    <3> HIDE DEF c
    <3> QED BY <1>2, <2>2, <2>3, <2>4
<1>13. ASSUME NEW p \in Pids, OrphanReaped(p) PROVE OsMove
  BY <1>6, <1>13 DEF OrphanReaped
<1>14. QED
  BY <1>1, <1>4, <1>5, <1>7, <1>8, <1>9, <1>10, <1>11, <1>12, <1>13
  DEF Next, Server, Tasks, Environment, HandleClientLine, HandleRelay, WaitEnds, Shutdown,
      Accept, Disconnect, WriterFails, CmdKill, CmdInterrupt, CmdSubscribe, CmdUnsubscribe,
      CmdList, CmdStatus, CmdUnknown, InvalidLine, HandleStdin, StdinFails, HandleStdout,
      HandleStderr, HandleExit, ExitTimeout, FinishExit, TakeShutdown, ShutdownNext, ShutdownDone,
      ClientConnects, ClientSends, ClientCloses, Signal, Rests, os, vars

-----------------------------------------------------------------------------
(* What a step does to the table: the names and children in it stay, an    *)
(* entry is removed, or one is added for a child that the step creates.    *)

SameTable ==
  \A n \in Names : procs'[n].pid = procs[n].pid
                   /\ (procs'[n].status = "absent" <=> procs[n].status = "absent")

\* A running entry loses its child only when the child has been reaped.
MayDrop(n) == Running(n) => child'[procs[n].pid].state = "reaped"

Removed == \E n \in Names : MayDrop(n) /\ procs' = [procs EXCEPT ![n] = Absent]

Added ==
  \E n \in Names, p \in Pids :
    /\ MayDrop(n) /\ child[p].state = "unborn"
    /\ child' = [child EXCEPT ![p].state = "running", ![p].name = n, ![p].open = TRUE]
    /\ procs' = [procs EXCEPT ![n] = NewEntry(p)]

TableMove == procs' \in [Names -> Entry] /\ (SameTable \/ Removed \/ Added)

\* relay_or_buffer keeps the table's names and children, whatever it does.
LEMMA RelayKeepsTable ==
  ASSUME TypeInv, NEW ps \in [Names -> Entry], NEW m \in Output, RelayOrBuffer(ps, m),
         \A n \in Names : ps[n].pid = procs[n].pid
                           /\ (procs[n].status = "absent" <=> ps[n].status = "absent")
  PROVE  procs' \in [Names -> Entry] /\ SameTable
<1>1. procs \in [Names -> Entry] /\ m.name \in Names
  BY DEF TypeInv, TypeOK, TableOK, Output
<1>2. CASE UNCHANGED procs
  BY <1>1, <1>2 DEF SameTable
<1>3. CASE procs' = ps
  BY <1>1, <1>3 DEF SameTable
<1>4. CASE procs' = [ps EXCEPT ![m.name].subscribed = FALSE, ![m.name].buffer = Append(@, m)]
  <2> DEFINE b == Append(ps[m.name].buffer, m)
             e == [ps[m.name] EXCEPT !.subscribed = FALSE, !.buffer = b]
  <2>1. b \in Seq(Output)
    BY <1>1 DEF Entry
  <2>2. e \in Entry /\ e.pid = ps[m.name].pid /\ e.status = ps[m.name].status
    <3>1. ps[m.name] \in Entry
      BY <1>1
    <3>2. QED
      <4> HIDE DEF b
      <4> QED BY <2>1, <3>1 DEF Entry
  <2>3. procs' = [ps EXCEPT ![m.name] = e]
    BY <1>1, <1>4
  <2>4. QED
    <3> HIDE DEF e
    <3> QED BY <1>1, <2>2, <2>3 DEF SameTable
<1>5. QED
  BY <1>2, <1>3, <1>4 DEF RelayOrBuffer

\* Forwarding or buffering a message leaves a channel.
LEMMA RelayChannel ==
  ASSUME TypeInv, NEW ps, NEW m \in Output, RelayOrBuffer(ps, m)
  PROVE  channel' \in Seq(Message)
<1>1. channel \in Seq(Message) /\ m \in Message
  BY DEF Message, TypeInv, TypeOK, MessagesOK
<1>2. channel' = channel \/ channel' = Append(channel, m)
  BY DEF RelayOrBuffer
<1>3. QED
  BY <1>1, <1>2, AppendProperties

\* Noting that a process has written changes nothing else of its entry.
LEMMA IdleOnly ==
  ASSUME procs \in [Names -> Entry], NEW n \in Names
  PROVE  /\ [procs EXCEPT ![n].idle = TRUE] \in [Names -> Entry]
         /\ \A k \in Names : LET e == [procs EXCEPT ![n].idle = TRUE][k] IN
              /\ e.status = procs[k].status /\ e.pid = procs[k].pid
              /\ e.exit_code = procs[k].exit_code
              /\ e.buffer = procs[k].buffer /\ e.subscribed = procs[k].subscribed
<1> DEFINE e == [procs[n] EXCEPT !.idle = TRUE]
<1>1. procs[n] \in Entry
  OBVIOUS
<1>2. e \in Entry
  BY <1>1 DEF Entry
<1>3. /\ e.status = procs[n].status /\ e.pid = procs[n].pid /\ e.exit_code = procs[n].exit_code
      /\ e.buffer = procs[n].buffer /\ e.subscribed = procs[n].subscribed
  BY <1>1 DEF Entry
<1>4. [procs EXCEPT ![n].idle = TRUE] = [procs EXCEPT ![n] = e]
  OBVIOUS
<1> HIDE DEF e
<1>5. QED
  BY <1>2, <1>3, <1>4

\* Every step types the table and moves it in one of the three ways.
LEMMA TableStep == TypeInv /\ Next => TableMove
<1> SUFFICES ASSUME TypeInv, Next PROVE TableMove
  OBVIOUS
<1> USE DEF TableMove
<1>0. procs \in [Names -> Entry] /\ Absent \in Entry
  BY NoneAssumption DEF TypeInv, TypeOK, TableOK, Entry, Absent
<1>1. CASE UNCHANGED procs
  BY <1>0, <1>1 DEF SameTable
<1>2. CASE procs' = Unsubscribed(procs)
  BY <1>0, <1>2 DEF Unsubscribed, Entry, SameTable
<1>3. ASSUME NEW n \in Names, MayDrop(n), procs' = [procs EXCEPT ![n] = Absent]
      PROVE  TableMove
  BY <1>0, <1>3 DEF Removed
<1>4. ASSUME NEW r \in SpawnRequests, NEW n \in Names, CmdSpawn(r, n) PROVE TableMove
  <2>1. ASSUME NEW p \in Pids, MayDrop(n), child[p].state = "unborn",
               child' = [child EXCEPT ![p].state = "running", ![p].name = n, ![p].open = TRUE],
               procs' = [procs EXCEPT ![n] = NewEntry(p)]
        PROVE  TableMove
    <3>1. NewEntry(p) \in Entry
      BY NoneAssumption DEF NewEntry, Entry
    <3>2. QED
      BY <1>0, <2>1, <3>1 DEF Added
  <2>2. QED
    BY <1>1, <1>3, <1>4, <2>1 DEF CmdSpawn, MayDrop
<1>5. ASSUME NEW n \in Names, CmdKill(n) PROVE TableMove
  <2>1. UNCHANGED procs \/ (MayDrop(n) /\ procs' = [procs EXCEPT ![n] = Absent])
    BY <1>5 DEF CmdKill, Signallable, os, MayDrop
  <2>2. QED
    BY <1>1, <1>3, <2>1
<1>6. ASSUME NEW n \in Names, NEW e \in Entry, procs' = [procs EXCEPT ![n] = e],
             e.pid = procs[n].pid, e.status = "absent" <=> procs[n].status = "absent"
      PROVE  TableMove
  BY <1>0, <1>6 DEF SameTable
<1>7. ASSUME NEW n \in Names, CmdSubscribe(n) PROVE TableMove
  <2>1. procs[n] \in Entry /\ << >> \in Seq(Output)
    BY <1>0
  <2>2. /\ Drained(procs[n]) \in Entry
        /\ Drained(procs[n]).pid = procs[n].pid /\ Drained(procs[n]).status = procs[n].status
    BY <2>1 DEF Drained, Entry
  <2>3. QED
    BY <1>1, <1>6, <1>7, <2>2 DEF CmdSubscribe
<1>8. ASSUME NEW n \in Names, CmdUnsubscribe(n) PROVE TableMove
  <2> DEFINE e == [procs[n] EXCEPT !.subscribed = FALSE]
  <2>1. e \in Entry /\ e.pid = procs[n].pid /\ e.status = procs[n].status
    BY <1>0 DEF Entry
  <2>2. UNCHANGED procs \/ procs' = [procs EXCEPT ![n] = e]
    BY <1>0, <1>8 DEF CmdUnsubscribe
  <2>3. QED
    <3> HIDE DEF e
    <3> QED BY <1>1, <1>6, <2>1, <2>2
<1>9. CASE StdinWritten
  <2>1. target \in Names
    BY <1>9, TargetHasChild DEF StdinWritten
  <2> DEFINE e == [procs[target] EXCEPT !.idle = FALSE]
  <2>2. e \in Entry /\ e.pid = procs[target].pid /\ e.status = procs[target].status
    BY <1>0, <2>1 DEF Entry
  <2>3. procs' = [procs EXCEPT ![target] = e]
    BY <1>0, <1>9 DEF StdinWritten
  <2>4. QED
    <3> HIDE DEF e
    <3> QED BY <1>6, <2>1, <2>2, <2>3
<1>10. CASE HandleStdout
  <2>1. Head(relay_rx) \in Output
    BY <1>10 DEF HandleStdout, TypeInv, TypeOK, MessagesOK
  <2> DEFINE ps == [procs EXCEPT ![Head(relay_rx).name].idle = TRUE]
  <2>2. /\ ps \in [Names -> Entry]
        /\ \A n \in Names : ps[n].pid = procs[n].pid /\ ps[n].status = procs[n].status
    BY <1>0, <2>1 DEF Entry, Output
  <2>3. RelayOrBuffer(ps, Head(relay_rx))
    BY <1>10 DEF HandleStdout
  <2>4. QED
    <3> HIDE DEF ps
    <3> QED BY <2>1, <2>2, <2>3, RelayKeepsTable
<1>11. CASE HandleStderr
  <2>1. Head(relay_rx) \in Output
    BY <1>11 DEF HandleStderr, TypeInv, TypeOK, MessagesOK
  <2>2. QED
    BY <1>0, <1>11, <2>1, RelayKeepsTable DEF HandleStderr
<1>12. ASSUME NEW code \in Codes \union {NoCode}, FinishExit(code) PROVE TableMove
  <2>1. Head(relay_rx) \in Output /\ target \in Names /\ Managed(target)
    BY <1>12, TargetHasChild DEF FinishExit, TypeInv, TypeOK, MessagesOK, WaitOK
  <2>2. [Head(relay_rx) EXCEPT !.code = code] \in Output
    BY <2>1 DEF Output
  <2> DEFINE ps == [procs EXCEPT ![target] = Exited(procs[target], code)]
  <2>3. /\ ps \in [Names -> Entry]
        /\ \A n \in Names : ps[n].pid = procs[n].pid
                            /\ (procs[n].status = "absent" <=> ps[n].status = "absent")
    BY <1>0, <2>1 DEF Exited, Entry
  <2>4. RelayOrBuffer(ps, [Head(relay_rx) EXCEPT !.code = code])
    BY <1>12 DEF FinishExit
  <2>5. QED
    <3> HIDE DEF ps
    <3> QED BY <2>2, <2>3, <2>4, RelayKeepsTable
<1>13. CASE ExitReaped \/ ExitTimeout
  <2>1. child[procs[target].pid].code \in Codes \union {NoCode}
    BY <1>13, TargetHasChild
    DEF ExitReaped, ExitTimeout, FinishExit, TypeInv, TypeOK, OsOK, ChildRec
  <2>2. QED
    BY <1>12, <1>13, <2>1 DEF ExitReaped, ExitTimeout
<1>14. CASE KillReaped
  <2>1. target \in Names /\ child[procs[target].pid].code \in Codes \union {NoCode}
    BY <1>14, TargetHasChild DEF KillReaped, TypeInv, TypeOK, OsOK, ChildRec
  <2>2. Managed(target) /\ MayDrop(target)
    BY <1>14, TargetHasChild DEF KillReaped, MayDrop, TypeInv, TypeOK, OsOK, ChildRec
  <2> DEFINE e == Exited(procs[target], child[procs[target].pid].code)
  <2>3. e \in Entry /\ e.pid = procs[target].pid /\ e.status # "absent"
    BY <1>0, <2>1 DEF Exited, Entry
  <2>4. procs' = [procs EXCEPT ![target] = Absent] \/ procs' = [procs EXCEPT ![target] = e]
    BY <1>14 DEF KillReaped
  <2>5. QED
    <3> HIDE DEF e
    <3> QED BY <1>3, <1>6, <2>1, <2>2, <2>3, <2>4
<1>15. QED
  BY <1>1, <1>2, <1>4, <1>5, <1>7, <1>8, <1>9, <1>10, <1>11, <1>13, <1>14
  DEF Next, Server, Tasks, Environment, HandleClientLine, HandleRelay, WaitEnds, Shutdown,
      Accept, Disconnect, WriterFails, CmdInterrupt, CmdList, CmdStatus, CmdUnknown,
      InvalidLine, HandleStdin, StdinFails, HandleExit, KillTimeout, TakeShutdown,
      ShutdownNext, ShutdownDone, RelayStdout, RelayEof, RelayStderr, AbortedTaskEnds,
      OrphanReaped, ChildWrites, ChildWritesErr, ChildReads, ChildClosesStdout,
      ChildExits, KilledDies, Unchanged, ClientConnects, ClientSends, ClientCloses,
      Signal, Rests, vars

-----------------------------------------------------------------------------
(* The invariant is kept. *)

\* The table stays consistent and its entries keep pointing to born children.
LEMMA TableInvStep == TypeInv /\ Next => TableOK' /\ Born' /\ Owned'
<1> SUFFICES ASSUME TypeInv, Next PROVE TableOK' /\ Born' /\ Owned'
  OBVIOUS
<1>1. OsMove /\ TableMove
  BY OsStep, TableStep
<1>2. procs \in [Names -> Entry]
  BY DEF TypeInv, TypeOK, TableOK
<1>3. Born'
  BY <1>1, NoneAssumption DEF OsMove, Born, TypeInv
<1>4. ASSUME NEW n \in Names, procs[n].status # "absent"
      PROVE  procs[n].pid \in Pids /\ child'[procs[n].pid].name = n
  BY <1>1, <1>4, EntryHasChild DEF OsMove, TypeInv, Owned
<1>5. CASE SameTable
  <2>1. TableOK'
    BY <1>1, <1>5 DEF TableMove, SameTable, TableOK, TypeInv, TypeOK
  <2>2. Owned'
    BY <1>4, <1>5 DEF SameTable, Owned
  <2>3. QED
    BY <1>3, <2>1, <2>2
<1>6. CASE Removed
  <2>1. PICK n \in Names : procs' = [procs EXCEPT ![n] = Absent]
    BY <1>6 DEF Removed
  <2>2. Absent.status = "absent" /\ Absent.pid = NoPid
    BY DEF Absent
  <2>3. TableOK'
    BY <1>1, <1>2, <2>1, <2>2 DEF TableMove, TableOK, TypeInv, TypeOK
  <2>4. Owned'
    BY <1>2, <1>4, <2>1, <2>2 DEF Owned
  <2>5. QED
    BY <1>3, <2>3, <2>4
<1>7. CASE Added
  <2>1. PICK n \in Names, p \in Pids :
          /\ child[p].state = "unborn"
          /\ child' = [child EXCEPT ![p].state = "running", ![p].name = n, ![p].open = TRUE]
          /\ procs' = [procs EXCEPT ![n] = NewEntry(p)]
    BY <1>7 DEF Added
  <2>2. NewEntry(p).status = "running" /\ NewEntry(p).pid = p /\ p # NoPid
    BY NoneAssumption DEF NewEntry
  <2>3. child'[p].name = n
    BY <2>1 DEF TypeInv, TypeOK, OsOK, ChildRec
  <2>4. TableOK'
    BY <1>1, <1>2, <2>1, <2>2 DEF TableMove, TableOK, TypeInv, TypeOK
  <2>5. Owned'
    BY <1>2, <1>4, <2>1, <2>2, <2>3 DEF Owned
  <2>6. QED
    BY <1>3, <2>4, <2>5
<1>8. QED
  BY <1>1, <1>5, <1>6, <1>7 DEF TableMove

\* The waits stay consistent with the table and with the queue.
LEMMA WaitStep == TypeInv /\ Next => WaitOK'
<1> SUFFICES ASSUME TypeInv, Next PROVE WaitOK'
  OBVIOUS
<1>0. WaitOK /\ ControlOK /\ relay_rx \in Seq(Output)
  BY DEF TypeInv, TypeOK, MessagesOK
<1>1. ASSUME at' \in {"select", "shutdown", "stopped", "panicked"}, target' = NoName
      PROVE  WaitOK'
  BY <1>1 DEF WaitOK
<1>2. ASSUME UNCHANGED <<at, target, procs>>,
             UNCHANGED relay_rx \/ \E m : relay_rx' = Append(relay_rx, m)
      PROVE  WaitOK'
  <2>1. relay_rx # << >> => relay_rx' # << >> /\ Head(relay_rx') = Head(relay_rx)
    BY <1>0, <1>2
  <2>2. QED
    BY <1>0, <1>2, <2>1 DEF WaitOK
<1>3. ASSUME NEW n \in Names, Running(n), at' \in {"termwait", "killwait", "stdin"},
             target' = n, UNCHANGED procs
      PROVE  WaitOK'
  BY <1>3, NoneAssumption DEF WaitOK
<1>4. CASE at \notin {"exitwait", "termwait", "killwait", "stdin"}
           /\ at' \in {"select", "shutdown", "stopped", "panicked"} /\ UNCHANGED target
  BY <1>0, <1>1, <1>4 DEF WaitOK, ControlOK
<1>5. ASSUME NEW n \in Names, CmdKill(n) \/ HandleStdin(n) \/ ShutdownNext(n)
      PROVE  WaitOK'
  BY <1>3, <1>4, <1>5
  DEF CmdKill, HandleStdin, ShutdownNext, TakeCommand, TakeLine, Signallable
<1>6. CASE HandleExit
  <2>1. Head(relay_rx).name \in Names
    BY <1>6, QueueHead DEF HandleExit
  <2>2. QED
    <3>1. CASE UNCHANGED <<at, target>>
      BY <1>4, <1>6, <3>1 DEF HandleExit
    <3>2. CASE /\ Managed(Head(relay_rx).name)
               /\ at' = "exitwait" /\ target' = Head(relay_rx).name
               /\ UNCHANGED <<procs, relay_rx>>
      BY <1>6, <2>1, <3>2, NoneAssumption DEF HandleExit, WaitOK
    <3>3. QED
      BY <1>6, <3>1, <3>2 DEF HandleExit
<1>7. CASE KillTimeout
  BY <1>0, <1>3, <1>7, TargetHasChild DEF KillTimeout, WaitOK
<1>8. ASSUME NEW n \in Names, NEW r \in SpawnRequests, CmdSpawn(r, n) PROVE WaitOK'
  BY <1>4, <1>8 DEF CmdSpawn, TakeCommand, TakeLine
<1>9. CASE Accept \/ Disconnect \/ HandleStdout \/ HandleStderr \/ InvalidLine \/ CmdList
           \/ CmdStatus \/ CmdUnknown \/ TakeShutdown \/ ShutdownDone
           \/ \E n \in Names : CmdInterrupt(n) \/ CmdSubscribe(n) \/ CmdUnsubscribe(n)
  BY <1>4, <1>9
  DEF Accept, Disconnect, HandleStdout, HandleStderr, InvalidLine, CmdList, CmdStatus,
      CmdUnknown, TakeShutdown, ShutdownDone, CmdInterrupt, CmdSubscribe, CmdUnsubscribe,
      TakeCommand, TakeLine
<1>10. CASE ExitReaped \/ ExitTimeout \/ KillReaped \/ StdinWritten \/ StdinFails
  BY <1>1, <1>10
  DEF ExitReaped, ExitTimeout, FinishExit, KillReaped, StdinWritten, StdinFails
<1>11. ASSUME NEW p \in Pids, RelayStdout(p) \/ RelayEof(p) \/ RelayStderr(p) PROVE WaitOK'
  BY <1>2, <1>11 DEF RelayStdout, RelayEof, RelayStderr, Relay
<1>12. CASE UNCHANGED <<at, target, procs, relay_rx>>
  BY <1>2, <1>12
<1>13. QED
  BY <1>5, <1>6, <1>7, <1>8, <1>9, <1>10, <1>11, <1>12
  DEF Next, Server, Tasks, Environment, HandleClientLine, HandleRelay, WaitEnds, Shutdown,
      WriterFails, AbortedTaskEnds, OrphanReaped, ChildWrites, ChildWritesErr, ChildReads,
      ChildClosesStdout, ChildExits, KilledDies, Unchanged, ClientConnects, ClientSends,
      ClientCloses, Signal, Rests, vars

\* The connections stay connections.
LEMMA ClientsStep == TypeInv /\ Next => ClientsOK'
<1> SUFFICES ASSUME TypeInv, Next PROVE ClientsOK'
  OBVIOUS
<1> DEFINE ConnRec == [state : {"new", "open", "closed"}, unread : Nat, sent : Nat]
<1>0. backlog \in Seq(Conns) /\ conn \in [Conns -> ConnRec]
      /\ client_tx \in Conns \union {NoConn}
  BY DEF TypeInv, TypeOK, ClientsOK, ControlOK
<1>1. CASE UNCHANGED clients
  BY <1>0, <1>1 DEF clients, ClientsOK
<1>2. CASE Accept
  BY <1>0, <1>2 DEF Accept, ClientsOK
<1>3. CASE Disconnect
  BY <1>0, <1>3 DEF Disconnect, ClientsOK
<1>4. ASSUME NEW r, TakeLine(r) PROVE ClientsOK'
  <2>1. client_tx \in Conns /\ conn[client_tx].unread - 1 \in Nat
    BY <1>0, <1>4 DEF TakeLine
  <2>2. [conn[client_tx] EXCEPT !.unread = conn[client_tx].unread - 1] \in ConnRec
    BY <1>0, <2>1
  <2>3. QED
    BY <1>0, <1>4, <2>1, <2>2 DEF TakeLine, ClientsOK
<1>5. ASSUME NEW c \in Conns, ClientConnects(c) PROVE ClientsOK'
  <2>1. [conn[c] EXCEPT !.state = "open"] \in ConnRec
    BY <1>0
  <2>2. QED
    BY <1>0, <1>5, <2>1 DEF ClientConnects, ClientsOK
<1>6. ASSUME NEW c \in Conns, ClientSends(c) PROVE ClientsOK'
  <2> DEFINE u == conn[c].unread + 1
             k == conn[c].sent + 1
  <2>1. conn[c] \in ConnRec /\ u \in Nat /\ k \in Nat
    BY <1>0
  <2>2. [conn[c] EXCEPT !.unread = u, !.sent = k] \in ConnRec
    <3> HIDE DEF u, k
    <3> QED BY <2>1
  <2>3. QED
    BY <1>0, <1>6, <2>2 DEF ClientSends, ClientsOK
<1>7. ASSUME NEW c \in Conns, ClientCloses(c) PROVE ClientsOK'
  <2>1. [conn[c] EXCEPT !.state = "closed"] \in ConnRec
    BY <1>0
  <2>2. QED
    BY <1>0, <1>7, <2>1 DEF ClientCloses, ClientsOK
<1>8. CASE HandleClientLine
  BY <1>4, <1>8
  DEF HandleClientLine, CmdSpawn, CmdKill, CmdInterrupt, CmdSubscribe, CmdUnsubscribe,
      CmdList, CmdStatus, CmdUnknown, InvalidLine, HandleStdin, TakeCommand
<1>9. QED
  BY <1>1, <1>2, <1>3, <1>5, <1>6, <1>7, <1>8
  DEF Next, Server, Tasks, Environment, HandleRelay, WaitEnds, Shutdown, HandleStdout,
      HandleStderr, HandleExit, ExitReaped, ExitTimeout, FinishExit, KillReaped, KillTimeout,
      StdinWritten, StdinFails, TakeShutdown, ShutdownNext, ShutdownDone, WriterFails,
      RelayStdout, RelayEof, RelayStderr, AbortedTaskEnds, OrphanReaped, ChildWrites,
      ChildWritesErr, ChildReads, ChildClosesStdout, ChildExits, KilledDies, Unchanged,
      Signal, Rests, clients, vars

\* What the server sends is a message.
LEMMA AnswerTypes ==
  ASSUME NEW k \in Nat, NEW r \in Requests, NEW n \in Names \union {NoName}
  PROVE  ResultOk(k, r, n) \in Result /\ ResultErr(k, r, n) \in Result
BY DEF ResultOk, ResultErr, Result

\* What a child that is born writes is output of a name.
LEMMA OutputTypes ==
  ASSUME TypeInv, NEW p \in Pids, child[p].state # "unborn", NEW i \in Nat,
         NEW pipe \in Pipes
  PROVE  /\ StdoutMsg(child[p].name, p, i) \in Output
         /\ StderrMsg(child[p].name, p, pipe, i) \in Output
         /\ ExitMsg(child[p].name, p, i) \in Output
<1>1. child[p].name \in Names
  BY DEF TypeInv, TypeOK, OsOK, ChildRec, Born
<1>2. QED
  BY <1>1 DEF StdoutMsg, StderrMsg, ExitMsg, Output, Pipes

\* The queue of the relay tasks holds output.
LEMMA QueueStep == TypeInv /\ Next => relay_rx' \in Seq(Output)
<1> SUFFICES ASSUME TypeInv, Next PROVE relay_rx' \in Seq(Output)
  OBVIOUS
<1>0. relay_rx \in Seq(Output)
  BY DEF TypeInv, TypeOK, MessagesOK
<1>1. CASE UNCHANGED relay_rx
  BY <1>0, <1>1
<1>2. CASE HandleStdout \/ HandleStderr \/ HandleExit
  BY <1>0, <1>2, QueueHead DEF HandleStdout, HandleStderr, HandleExit
<1>3. CASE ExitReaped \/ ExitTimeout
  <2>1. relay_rx # << >>
    BY <1>3 DEF ExitReaped, ExitTimeout, FinishExit, TypeInv, TypeOK, WaitOK
  <2>2. relay_rx' = Tail(relay_rx)
    BY <1>3 DEF ExitReaped, ExitTimeout, FinishExit
  <2>3. QED
    BY <2>1, <2>2, QueueHead
<1>4. ASSUME NEW p \in Pids, RelayStdout(p) \/ RelayEof(p) \/ RelayStderr(p)
      PROVE  relay_rx' \in Seq(Output)
  <2>1. child[p].state # "unborn"
    BY <1>4, TaskHasChild DEF RelayStdout, RelayEof, RelayStderr, Reads
  <2>2. task[p].out + 1 \in Nat /\ task[p].err + 1 \in Nat
    BY DEF TypeInv, TypeOK, OsOK, TaskRec
  <2>3. UNCHANGED relay_rx \/ \E m \in Output : relay_rx' = Append(relay_rx, m)
    BY <1>4, <2>1, <2>2, OutputTypes DEF RelayStdout, RelayEof, RelayStderr, Relay, Pipes
  <2>4. QED
    BY <1>0, <2>3
<1>5. QED
  BY <1>1, <1>2, <1>3, <1>4
  DEF Next, Server, Tasks, Environment, HandleClientLine, HandleRelay, WaitEnds, Shutdown,
      Accept, Disconnect, WriterFails, CmdSpawn, CmdKill, CmdInterrupt, CmdSubscribe,
      CmdUnsubscribe, CmdList, CmdStatus, CmdUnknown, InvalidLine, HandleStdin, TakeCommand,
      TakeLine, StdinWritten, StdinFails, KillReaped, KillTimeout, TakeShutdown,
      ShutdownNext, ShutdownDone, AbortedTaskEnds, OrphanReaped, ChildWrites,
      ChildWritesErr, ChildReads, ChildClosesStdout, ChildExits, KilledDies, Unchanged,
      ClientConnects, ClientSends, ClientCloses, Signal, Rests, vars

\* Control: the task's place, the session and the shutdown.
LEMMA ControlStep == TypeInv /\ Next => ControlOK'
<1> SUFFICES ASSUME TypeInv, Next PROVE ControlOK'
  OBVIOUS
<1> USE DEF ControlOK
<1>0. ControlOK
  BY DEF TypeInv, TypeOK
<1>1. CASE UNCHANGED <<at, target, client_tx, writer, served, sig, todo>>
  BY <1>0, <1>1
<1>2. CASE Accept
  <2>1. Head(backlog) \in Conns
    BY <1>2 DEF Accept, TypeInv, TypeOK, ClientsOK
  <2>2. QED
    BY <1>0, <1>2, <2>1, ServerAssumption DEF Accept, quit
<1>3. CASE Disconnect
  BY <1>0, <1>3 DEF Disconnect, quit
<1>4. ASSUME NEW r \in SpawnRequests, NEW n \in Names, CmdSpawn(r, n) PROVE ControlOK'
  <2>1. /\ UNCHANGED <<target, client_tx, writer, sig, todo>>
        /\ served' = served + 1
    BY <1>4 DEF CmdSpawn, TakeCommand, TakeLine, quit
  <2>2. at' \in {at, "panicked"}
    BY <1>4 DEF CmdSpawn
  <2>3. QED
    BY <1>0, <2>1, <2>2
<1>5. ASSUME NEW n \in Names, CmdKill(n) PROVE ControlOK'
  BY <1>0, <1>5 DEF CmdKill, TakeCommand, TakeLine, quit
<1>6. ASSUME NEW n \in Names, CmdInterrupt(n) \/ CmdSubscribe(n) \/ CmdUnsubscribe(n)
      PROVE  ControlOK'
  BY <1>0, <1>6 DEF CmdInterrupt, CmdSubscribe, CmdUnsubscribe, TakeCommand, TakeLine, quit
<1>7. CASE CmdList \/ CmdStatus \/ CmdUnknown \/ InvalidLine
  BY <1>0, <1>7 DEF CmdList, CmdStatus, CmdUnknown, InvalidLine, TakeCommand, TakeLine, quit
<1>8. ASSUME NEW n \in Names, HandleStdin(n) PROVE ControlOK'
  BY <1>0, <1>8 DEF HandleStdin, TakeLine, quit
<1>9. CASE HandleExit
  <2>1. Head(relay_rx).name \in Names
    BY <1>9, QueueHead DEF HandleExit
  <2>2. QED
    BY <1>0, <1>9, <2>1 DEF HandleExit, session, quit
<1>10. CASE HandleStdout \/ HandleStderr
  BY <1>0, <1>10 DEF HandleStdout, HandleStderr, quit
<1>11. CASE ExitReaped \/ ExitTimeout \/ KillReaped
  BY <1>0, <1>11 DEF ExitReaped, ExitTimeout, FinishExit, KillReaped, quit
<1>12. CASE KillTimeout \/ StdinWritten \/ StdinFails
  BY <1>0, <1>12 DEF KillTimeout, StdinWritten, StdinFails, session, quit
<1>13. CASE TakeShutdown \/ ShutdownDone \/ \E n \in Names : ShutdownNext(n)
  BY <1>0, <1>13 DEF TakeShutdown, ShutdownDone, ShutdownNext, session, quit
<1>14. CASE WriterFails
  BY <1>0, <1>14 DEF WriterFails, quit
<1>15. CASE Signal
  BY <1>0, <1>15 DEF Signal, session
<1>16. QED
  BY <1>1, <1>2, <1>3, <1>4, <1>5, <1>6, <1>7, <1>8, <1>9, <1>10, <1>11, <1>12, <1>13,
     <1>14, <1>15
  DEF Next, Server, Tasks, Environment, HandleClientLine, HandleRelay, WaitEnds, Shutdown,
      RelayStdout, RelayEof, RelayStderr, AbortedTaskEnds, OrphanReaped, ChildWrites,
      ChildWritesErr, ChildReads, ChildClosesStdout, ChildExits, KilledDies, Unchanged,
      ClientConnects, ClientSends, ClientCloses, Rests, session, quit, vars

\* The channel holds messages, and none while no client is connected.
LEMMA ChannelStep ==
  TypeInv /\ Next => channel' \in Seq(Message) /\ (client_tx' = NoConn => channel' = << >>)
<1> DEFINE Goal == channel' \in Seq(Message) /\ (client_tx' = NoConn => channel' = << >>)
<1> SUFFICES ASSUME TypeInv, Next PROVE Goal
  OBVIOUS
<1>0. /\ channel \in Seq(Message) /\ served \in Nat
      /\ client_tx = NoConn => channel = << >> /\ ~writer
  BY DEF TypeInv, TypeOK, MessagesOK, ControlOK
<1>1. CASE UNCHANGED <<channel, client_tx>>
  BY <1>0, <1>1
<1>2. CASE channel' = << >>
  BY <1>2
<1>3. ASSUME NEW m \in Message, Answer(m), UNCHANGED client_tx PROVE Goal
  <2>1. CASE writer
    BY <1>0, <1>3, <2>1 DEF Answer, Sent
  <2>2. CASE ~writer
    BY <1>0, <1>3, <2>2 DEF Answer, Sent
  <2>3. QED
    BY <2>1, <2>2
<1>4. ASSUME NEW k \in Nat, NEW r \in Requests, NEW n \in Names \union {NoName},
             \/ Answer(ResultOk(k, r, n))
             \/ Answer(ResultErr(k, r, n))
             \/ UNCHANGED channel,
             UNCHANGED client_tx
      PROVE  Goal
  BY <1>1, <1>3, <1>4, AnswerTypes DEF Message
<1>5. ASSUME NEW r, TakeCommand(r) PROVE served' \in Nat /\ r \in Requests /\ UNCHANGED client_tx
  BY <1>0, <1>5, ServerAssumption DEF TakeCommand, TakeLine
<1>6. ASSUME NEW r \in SpawnRequests, NEW n \in Names, CmdSpawn(r, n) PROVE Goal
  BY <1>4, <1>5, <1>6 DEF CmdSpawn
<1>7. ASSUME NEW n \in Names, CmdKill(n) PROVE Goal
  BY <1>4, <1>5, <1>7 DEF CmdKill
<1>8. ASSUME NEW n \in Names, CmdInterrupt(n) PROVE Goal
  BY <1>4, <1>5, <1>8 DEF CmdInterrupt
<1>9. ASSUME NEW n \in Names, CmdUnsubscribe(n) PROVE Goal
  BY <1>4, <1>5, <1>9 DEF CmdUnsubscribe
<1>10. CASE CmdList \/ CmdStatus \/ CmdUnknown
  BY <1>4, <1>5, <1>10 DEF CmdList, CmdStatus, CmdUnknown
<1>11. CASE KillReaped
  <2>1. target \in Names
    BY <1>11, TargetHasChild DEF KillReaped
  <2>2. "kill" \in Requests
    BY DEF Requests
  <2>3. UNCHANGED client_tx /\ (UNCHANGED channel \/ Answer(ResultOk(served, "kill", target)))
    BY <1>11 DEF KillReaped
  <2>4. QED
    BY <1>0, <1>4, <2>1, <2>2, <2>3
<1>12. ASSUME NEW n \in Names, CmdSubscribe(n) PROVE Goal
  <2>1. CASE ~Managed(n)
    BY <1>4, <1>5, <1>12, <2>1 DEF CmdSubscribe
  <2>2. CASE Managed(n)
    <3> DEFINE m == [ResultOk(served', "subscribe", n) EXCEPT !.replayed = Len(procs[n].buffer)]
               replay == Append(procs[n].buffer, m)
    <3>1. procs[n].buffer \in Seq(Output)
      BY DEF TypeInv, TypeOK, TableOK, Entry
    <3>2. served' \in Nat /\ "subscribe" \in Requests /\ UNCHANGED client_tx
      BY <1>5, <1>12 DEF CmdSubscribe
    <3>3. m \in Message
      <4>1. Len(procs[n].buffer) \in Nat /\ ResultOk(served', "subscribe", n) \in Result
        BY <3>1, <3>2, AnswerTypes
      <4>2. QED
        BY <4>1 DEF Result, Message
    <3>4. replay \in Seq(Message)
      <4> HIDE DEF m
      <4> QED BY <3>1, <3>3 DEF Message
    <3>5. channel' = IF writer THEN channel \o replay ELSE channel
      BY <1>12, <2>2 DEF CmdSubscribe, Sent, Replay
    <3>6. QED
      <4> HIDE DEF replay
      <4> QED BY <1>0, <3>2, <3>4, <3>5
  <2>3. QED
    BY <2>1, <2>2
<1>13. ASSUME NEW ps, NEW m \in Output, RelayOrBuffer(ps, m), UNCHANGED client_tx PROVE Goal
  BY <1>0, <1>13, RelayChannel DEF RelayOrBuffer
<1>14. CASE HandleStdout \/ HandleStderr
  BY <1>13, <1>14, QueueHead DEF HandleStdout, HandleStderr
<1>15. ASSUME NEW code \in Codes \union {NoCode}, FinishExit(code) PROVE Goal
  <2>1. relay_rx # << >>
    BY <1>15 DEF FinishExit, TypeInv, TypeOK, WaitOK
  <2>2. [Head(relay_rx) EXCEPT !.code = code] \in Output
    BY <2>1, QueueHead DEF Output
  <2>3. QED
    BY <1>13, <1>15, <2>2 DEF FinishExit
<1>16. CASE ExitReaped \/ ExitTimeout
  <2>1. child[procs[target].pid].code \in Codes \union {NoCode}
    BY <1>16, TargetHasChild
    DEF ExitReaped, ExitTimeout, FinishExit, TypeInv, TypeOK, OsOK, ChildRec
  <2>2. QED
    BY <1>15, <1>16, <2>1 DEF ExitReaped, ExitTimeout
<1>17. CASE Accept \/ Disconnect
  BY <1>2, <1>17 DEF Accept, Disconnect
<1>18. QED
  BY <1>1, <1>6, <1>7, <1>8, <1>9, <1>10, <1>11, <1>12, <1>14, <1>16, <1>17
  DEF Next, Server, Tasks, Environment, HandleClientLine, HandleRelay, WaitEnds, Shutdown,
      WriterFails, InvalidLine, HandleStdin, TakeLine, StdinWritten, StdinFails, KillTimeout,
      HandleExit, TakeShutdown, ShutdownNext, ShutdownDone, RelayStdout, RelayEof,
      RelayStderr, AbortedTaskEnds, OrphanReaped, ChildWrites, ChildWritesErr, ChildReads,
      ChildClosesStdout, ChildExits, KilledDies, Unchanged, ClientConnects, ClientSends,
      ClientCloses, Signal, Rests, session, vars

-----------------------------------------------------------------------------
(* Theorems *)

\* TypeInv is kept by every step, those that stutter included.
LEMMA TypeInvStep == TypeInv /\ [Next]_vars => TypeInv'
<1> SUFFICES ASSUME TypeInv, [Next]_vars PROVE TypeInv'
  OBVIOUS
<1>1. CASE Next
  <2>1. TableOK' /\ Born' /\ Owned'
    BY <1>1, TableInvStep
  <2>2. OsOK'
    BY <1>1, OsStep DEF OsMove
  <2>3. MessagesOK'
    BY <1>1, QueueStep, ChannelStep DEF MessagesOK
  <2>4. ControlOK' /\ ClientsOK' /\ WaitOK'
    BY <1>1, ControlStep, ClientsStep, WaitStep
  <2>5. QED
    BY <2>1, <2>2, <2>3, <2>4 DEF TypeInv, TypeOK
<1>2. CASE UNCHANGED vars
  BY <1>2
  DEF TypeInv, TypeOK, ControlOK, TableOK, MessagesOK, ClientsOK, OsOK, WaitOK, Born, Owned,
      vars, session, quit, clients, os
<1>3. QED
  BY <1>1, <1>2

\* For any number of names, children, clients and lines the variables keep
\* their types, and a wait of the server is for an entry that is there.
THEOREM TypeCorrect == Spec => []TypeOK
<1>1. Spec => []TypeInv
  BY InitTypeInv, TypeInvStep, PTL DEF Spec
<1>2. TypeInv => TypeOK
  BY DEF TypeInv
<1>3. QED
  BY <1>1, <1>2, PTL

\* Every step keeps subscribed entries empty and with a client.
LEMMA DrainedStep == TypeInv /\ SubscribedIsDrained /\ Next => SubscribedIsDrained'
<1> SUFFICES ASSUME TypeInv, SubscribedIsDrained, Next PROVE SubscribedIsDrained'
  OBVIOUS
<1>0. procs \in [Names -> Entry]
  BY DEF TypeInv, TypeOK, TableOK
<1>1. CASE UNCHANGED <<procs, client_tx>>
  BY <1>1 DEF SubscribedIsDrained
<1>2. CASE procs' = Unsubscribed(procs)
  BY <1>0, <1>2 DEF Unsubscribed, SubscribedIsDrained, Entry
<1>3. ASSUME NEW n \in Names, NEW e, procs' = [procs EXCEPT ![n] = e], UNCHANGED client_tx,
             \/ ~e.subscribed
             \/ e.buffer = << >> /\ client_tx # NoConn
             \/ e.subscribed = procs[n].subscribed /\ e.buffer = procs[n].buffer
      PROVE  SubscribedIsDrained'
  BY <1>0, <1>3 DEF SubscribedIsDrained
<1>4. ASSUME NEW n \in Names, procs' = [procs EXCEPT ![n] = Absent], UNCHANGED client_tx
      PROVE  SubscribedIsDrained'
  <2>1. ~Absent.subscribed
    BY DEF Absent
  <2>2. QED
    BY <1>3, <1>4, <2>1
<1>5. ASSUME NEW r \in SpawnRequests, NEW n \in Names, CmdSpawn(r, n)
      PROVE  SubscribedIsDrained'
  <2>1. UNCHANGED client_tx
    BY <1>5 DEF CmdSpawn, TakeCommand, TakeLine
  <2>2. \A p \in Pids : ~NewEntry(p).subscribed
    BY DEF NewEntry
  <2>3. \/ UNCHANGED procs
        \/ procs' = [procs EXCEPT ![n] = Absent]
        \/ \E p \in Pids : procs' = [procs EXCEPT ![n] = NewEntry(p)]
    BY <1>5 DEF CmdSpawn
  <2>4. QED
    BY <1>1, <1>3, <1>4, <2>1, <2>2, <2>3
<1>6. ASSUME NEW n \in Names, CmdKill(n) PROVE SubscribedIsDrained'
  <2>1. UNCHANGED client_tx /\ (UNCHANGED procs \/ procs' = [procs EXCEPT ![n] = Absent])
    BY <1>6 DEF CmdKill, TakeCommand, TakeLine
  <2>2. QED
    BY <1>1, <1>4, <2>1
<1>7. ASSUME NEW n \in Names, CmdSubscribe(n) PROVE SubscribedIsDrained'
  <2>1. UNCHANGED client_tx /\ client_tx # NoConn
    BY <1>7 DEF CmdSubscribe, TakeCommand, TakeLine
  <2>2. Drained(procs[n]).buffer = << >>
    BY <1>0 DEF Drained, Entry
  <2>3. QED
    BY <1>1, <1>3, <1>7, <2>1, <2>2 DEF CmdSubscribe
<1>8. ASSUME NEW n \in Names, CmdUnsubscribe(n) PROVE SubscribedIsDrained'
  <2> DEFINE e == [procs[n] EXCEPT !.subscribed = FALSE]
  <2>1. ~e.subscribed
    BY <1>0 DEF Entry
  <2>2. UNCHANGED client_tx /\ (UNCHANGED procs \/ procs' = [procs EXCEPT ![n] = e])
    BY <1>0, <1>8 DEF CmdUnsubscribe, TakeCommand, TakeLine
  <2>3. QED
    <3> HIDE DEF e
    <3> QED BY <1>1, <1>3, <2>1, <2>2
<1>9. CASE StdinWritten
  <2> DEFINE e == [procs[target] EXCEPT !.idle = FALSE]
  <2>1. target \in Names
    BY <1>9, TargetHasChild DEF StdinWritten
  <2>2. e.subscribed = procs[target].subscribed /\ e.buffer = procs[target].buffer
    BY <1>0, <2>1 DEF Entry
  <2>3. UNCHANGED client_tx /\ procs' = [procs EXCEPT ![target] = e]
    BY <1>0, <1>9 DEF StdinWritten, session
  <2>4. QED
    <3> HIDE DEF e
    <3> QED BY <1>3, <2>1, <2>2, <2>3
<1>10. ASSUME NEW ps \in [Names -> Entry], NEW m, m.name \in Names, RelayOrBuffer(ps, m),
              UNCHANGED client_tx,
              \A n \in Names : ps[n].subscribed = procs[n].subscribed
                                /\ ps[n].buffer = procs[n].buffer
       PROVE  SubscribedIsDrained'
  <2>1. CASE UNCHANGED procs
    BY <1>1, <1>10, <2>1
  <2>2. CASE procs' = ps
    BY <1>10, <2>2 DEF SubscribedIsDrained
  <2>3. CASE procs' = [ps EXCEPT ![m.name].subscribed = FALSE,
                                 ![m.name].buffer = Append(@, m)]
    <3> DEFINE e == [ps[m.name] EXCEPT !.subscribed = FALSE,
                                       !.buffer = Append(ps[m.name].buffer, m)]
    <3>1. ~e.subscribed
      BY <1>10 DEF Entry
    <3>2. procs' = [ps EXCEPT ![m.name] = e]
      BY <1>10, <2>3
    <3>3. QED
      <4> HIDE DEF e
      <4> QED BY <1>10, <3>1, <3>2 DEF SubscribedIsDrained
  <2>4. QED
    BY <1>10, <2>1, <2>2, <2>3 DEF RelayOrBuffer
<1>11. CASE HandleStdout
  <2> DEFINE ps == [procs EXCEPT ![Head(relay_rx).name].idle = TRUE]
  <2>1. Head(relay_rx).name \in Names
    BY <1>11, QueueHead DEF HandleStdout
  <2>2. /\ ps \in [Names -> Entry]
        /\ \A n \in Names : ps[n].subscribed = procs[n].subscribed
                             /\ ps[n].buffer = procs[n].buffer
    BY <1>0, <2>1, IdleOnly
  <2>3. RelayOrBuffer(ps, Head(relay_rx)) /\ UNCHANGED client_tx
    BY <1>11 DEF HandleStdout
  <2>4. QED
    <3> HIDE DEF ps
    <3> QED BY <1>10, <2>1, <2>2, <2>3
<1>12. CASE HandleStderr
  BY <1>0, <1>10, <1>12, QueueHead DEF HandleStderr
<1>13. ASSUME NEW code \in Codes \union {NoCode}, FinishExit(code) PROVE SubscribedIsDrained'
  <2> DEFINE ps == [procs EXCEPT ![target] = Exited(procs[target], code)]
             m == [Head(relay_rx) EXCEPT !.code = code]
  <2>1. target \in Names /\ Head(relay_rx) \in Output
    BY <1>13, TargetHasChild, QueueHead DEF FinishExit, TypeInv, TypeOK, WaitOK
  <2>2. m.name \in Names
    BY <2>1 DEF Output
  <2>3. /\ ps \in [Names -> Entry]
        /\ \A n \in Names : ps[n].subscribed = procs[n].subscribed
                             /\ ps[n].buffer = procs[n].buffer
    BY <1>0, <2>1 DEF Exited, Entry
  <2>4. RelayOrBuffer(ps, m) /\ UNCHANGED client_tx
    BY <1>13 DEF FinishExit
  <2>5. QED
    <3> HIDE DEF ps, m
    <3> QED BY <1>10, <2>2, <2>3, <2>4
<1>14. CASE ExitReaped \/ ExitTimeout
  <2>1. child[procs[target].pid].code \in Codes \union {NoCode}
    BY <1>14, TargetHasChild
    DEF ExitReaped, ExitTimeout, FinishExit, TypeInv, TypeOK, OsOK, ChildRec
  <2>2. QED
    BY <1>13, <1>14, <2>1 DEF ExitReaped, ExitTimeout
<1>15. CASE KillReaped
  <2> DEFINE e == Exited(procs[target], child[procs[target].pid].code)
  <2>1. target \in Names
    BY <1>15, TargetHasChild DEF KillReaped
  <2>2. e.subscribed = procs[target].subscribed /\ e.buffer = procs[target].buffer
    BY <1>0, <2>1 DEF Exited, Entry
  <2>3. /\ UNCHANGED client_tx
        /\ procs' = [procs EXCEPT ![target] = Absent] \/ procs' = [procs EXCEPT ![target] = e]
    BY <1>15 DEF KillReaped
  <2>4. QED
    <3> HIDE DEF e
    <3> QED BY <1>3, <1>4, <2>1, <2>2, <2>3
<1>16. CASE Accept \/ Disconnect
  BY <1>2, <1>16 DEF Accept, Disconnect
<1>17. QED
  BY <1>1, <1>5, <1>6, <1>7, <1>8, <1>9, <1>11, <1>12, <1>14, <1>15, <1>16
  DEF Next, Server, Tasks, Environment, HandleClientLine, HandleRelay, WaitEnds, Shutdown,
      WriterFails, CmdInterrupt, CmdList, CmdStatus, CmdUnknown, InvalidLine, HandleStdin,
      TakeCommand, TakeLine, StdinFails, HandleExit, KillTimeout, TakeShutdown, ShutdownNext,
      ShutdownDone, RelayStdout, RelayEof, RelayStderr, AbortedTaskEnds, OrphanReaped,
      ChildWrites, ChildWritesErr, ChildReads, ChildClosesStdout, ChildExits, KilledDies,
      Unchanged, ClientConnects, ClientSends, ClientCloses, Signal, Rests, session, vars

\* For any number of names, clients and children, no process is subscribed
\* without a client or with messages left to replay.
THEOREM DrainedCorrect == Spec => []SubscribedIsDrained
<1> DEFINE Inv == TypeInv /\ SubscribedIsDrained
<1>1. Init => Inv
  BY InitTypeInv DEF Init, SubscribedIsDrained, Absent
<1>2. Inv /\ [Next]_vars => Inv'
  BY TypeInvStep, DrainedStep DEF vars, session, SubscribedIsDrained
<1>3. Spec => []Inv
  BY <1>1, <1>2, PTL DEF Spec
<1>4. Inv => SubscribedIsDrained
  OBVIOUS
<1>5. QED
  BY <1>3, <1>4, PTL

-----------------------------------------------------------------------------
(* Reaping.  Most steps leave every entry its status, child and code, or   *)
(* remove it, and reap no child.                                           *)

StatusKept ==
  \A n \in Names : \/ procs'[n].status = "absent"
                   \/ /\ procs'[n].status = procs[n].status
                      /\ procs'[n].pid = procs[n].pid
                      /\ procs'[n].exit_code = procs[n].exit_code

NothingReaped ==
  \A p \in Pids : child'[p].state = "reaped" =>
    child[p].state = "reaped" /\ child'[p].code = child[p].code

\* Two entries do not point to the same child.
LEMMA OneEntryPerChild ==
  ASSUME TypeInv, NEW m \in Names, NEW n \in Names, Managed(m), Managed(n),
         procs[m].pid = procs[n].pid
  PROVE  m = n
BY DEF TypeInv, Owned

\* Relaying a message leaves entries the status the handler gave them.
LEMMA RelayStatus ==
  ASSUME NEW ps \in [Names -> Entry], NEW m, m.name \in Names, RelayOrBuffer(ps, m)
  PROVE  \/ UNCHANGED procs /\ ~Managed(m.name)
         \/ \A n \in Names : /\ procs'[n].status = ps[n].status
                             /\ procs'[n].pid = ps[n].pid
                             /\ procs'[n].exit_code = ps[n].exit_code
<1>1. CASE UNCHANGED procs /\ ~Managed(m.name)
  BY <1>1
<1>2. CASE procs' = ps
  BY <1>2
<1>3. CASE procs' = [ps EXCEPT ![m.name].subscribed = FALSE, ![m.name].buffer = Append(@, m)]
  <2> DEFINE e == [ps[m.name] EXCEPT !.subscribed = FALSE,
                                     !.buffer = Append(ps[m.name].buffer, m)]
  <2>1. /\ e.status = ps[m.name].status /\ e.pid = ps[m.name].pid
        /\ e.exit_code = ps[m.name].exit_code
    BY DEF Entry
  <2>2. procs' = [ps EXCEPT ![m.name] = e]
    BY <1>3
  <2>3. QED
    <3> HIDE DEF e
    <3> QED BY <2>1, <2>2
<1>4. QED
  BY <1>1, <1>2, <1>3 DEF RelayOrBuffer

\* Every step keeps the entries of reaped children marked and coded.
LEMMA ReapedStep == TypeInv /\ ReapedIsExited /\ Next => ReapedIsExited'
<1> SUFFICES ASSUME TypeInv, ReapedIsExited, Next PROVE ReapedIsExited'
  OBVIOUS
<1>0. procs \in [Names -> Entry] /\ child \in [Pids -> ChildRec] /\ Absent.status = "absent"
  BY DEF TypeInv, TypeOK, TableOK, OsOK, Absent
<1>1. ASSUME StatusKept, NothingReaped PROVE ReapedIsExited'
  <2> SUFFICES ASSUME NEW n \in Names, procs'[n].status # "absent",
                      child'[procs'[n].pid].state = "reaped"
               PROVE  /\ procs'[n].status = "exited"
                      /\ procs'[n].exit_code = child'[procs'[n].pid].code
    BY DEF ReapedIsExited
  <2>1. procs'[n].pid = procs[n].pid /\ Managed(n) /\ procs[n].pid \in Pids
    BY <1>1, EntryHasChild DEF StatusKept
  <2>2. QED
    BY <1>1, <2>1 DEF StatusKept, NothingReaped, ReapedIsExited
<1>2. UNCHANGED procs => StatusKept
  BY DEF StatusKept
<1>3. UNCHANGED child => NothingReaped
  BY DEF NothingReaped
<1>4. ASSUME NEW n \in Names, procs' = [procs EXCEPT ![n] = Absent] PROVE StatusKept
  BY <1>0, <1>4 DEF StatusKept
<1>5. ASSUME NEW r \in SpawnRequests, NEW n \in Names, CmdSpawn(r, n)
      PROVE  ReapedIsExited'
  <2>1. CASE UNCHANGED child /\ (UNCHANGED procs \/ procs' = [procs EXCEPT ![n] = Absent])
    BY <1>1, <1>2, <1>3, <1>4, <2>1
  <2>2. ASSUME NEW p \in Pids, child[p].state = "unborn",
               child' = [child EXCEPT ![p].state = "running", ![p].name = n, ![p].open = TRUE],
               procs' = [procs EXCEPT ![n] = NewEntry(p)]
        PROVE  ReapedIsExited'
    <3>1. NewEntry(p).pid = p
      BY DEF NewEntry
    <3>2. \A q \in Pids : child'[q].state = "reaped" => q # p /\ child'[q] = child[q]
      BY <1>0, <2>2 DEF ChildRec
    <3>3. ASSUME NEW m \in Names, procs'[m].status # "absent",
                 child'[procs'[m].pid].state = "reaped"
          PROVE  procs'[m] = procs[m] /\ child'[procs'[m].pid] = child[procs[m].pid]
      <4>1. CASE m = n
        BY <1>0, <2>2, <3>1, <3>2, <3>3, <4>1
      <4>2. CASE m # n
        BY <1>0, <2>2, <3>2, <3>3, <4>2, EntryHasChild
      <4>3. QED BY <4>1, <4>2
    <3>4. QED
      BY <3>3 DEF ReapedIsExited
  <2>3. QED
    BY <1>5, <2>1, <2>2 DEF CmdSpawn, os
<1>6. ASSUME NEW n \in Names, CmdKill(n) PROVE ReapedIsExited'
  <2>1. UNCHANGED child /\ (UNCHANGED procs \/ procs' = [procs EXCEPT ![n] = Absent])
    BY <1>6 DEF CmdKill, os
  <2>2. QED
    BY <1>1, <1>2, <1>3, <1>4, <2>1
<1>7. ASSUME NEW n \in Names, CmdSubscribe(n) \/ CmdUnsubscribe(n) PROVE ReapedIsExited'
  <2>1. ASSUME CmdSubscribe(n) PROVE StatusKept
    <3>1. /\ Drained(procs[n]).status = procs[n].status /\ Drained(procs[n]).pid = procs[n].pid
          /\ Drained(procs[n]).exit_code = procs[n].exit_code
      BY <1>0 DEF Drained, Entry
    <3>2. QED
      BY <1>0, <2>1, <3>1 DEF CmdSubscribe, StatusKept
  <2>2. ASSUME CmdUnsubscribe(n) PROVE StatusKept
    BY <1>0, <2>2 DEF CmdUnsubscribe, Entry, StatusKept
  <2>3. UNCHANGED child
    BY <1>7 DEF CmdSubscribe, CmdUnsubscribe, os
  <2>4. StatusKept
    BY <1>7, <2>1, <2>2
  <2>5. QED
    BY <1>1, <1>3, <2>3, <2>4
<1>8. CASE Accept \/ Disconnect
  <2>1. StatusKept
    BY <1>0, <1>8 DEF Accept, Disconnect, Unsubscribed, Entry, StatusKept
  <2>2. UNCHANGED child
    BY <1>8 DEF Accept, Disconnect, os
  <2>3. QED
    BY <1>1, <1>3, <2>1, <2>2
<1>9. CASE StdinWritten
  <2>1. target \in Names /\ procs[target].pid \in Pids
    BY <1>9, TargetHasChild DEF StdinWritten
  <2>2. StatusKept
    BY <1>0, <1>9, <2>1 DEF StdinWritten, Entry, StatusKept
  <2>3. NothingReaped
    BY <1>0, <1>9, <2>1 DEF StdinWritten, ChildRec, NothingReaped
  <2>4. QED
    BY <1>1, <2>2, <2>3
<1>10. CASE HandleStdout
  <2> DEFINE ps == [procs EXCEPT ![Head(relay_rx).name].idle = TRUE]
  <2>1. Head(relay_rx).name \in Names
    BY <1>10, QueueHead DEF HandleStdout
  <2>2. /\ ps \in [Names -> Entry]
        /\ \A n \in Names : /\ ps[n].status = procs[n].status /\ ps[n].pid = procs[n].pid
                            /\ ps[n].exit_code = procs[n].exit_code
    BY <1>0, <2>1, IdleOnly
  <2>3. RelayOrBuffer(ps, Head(relay_rx)) /\ UNCHANGED child
    BY <1>10 DEF HandleStdout, os
  <2>4. StatusKept
    <3> HIDE DEF ps
    <3> QED BY <2>1, <2>2, <2>3, RelayStatus DEF StatusKept
  <2>5. QED
    BY <1>1, <1>3, <2>3, <2>4
<1>11. CASE HandleStderr
  <2>1. StatusKept
    BY <1>0, <1>11, QueueHead, RelayStatus DEF HandleStderr, StatusKept
  <2>2. QED
    BY <1>1, <1>3, <1>11, <2>1 DEF HandleStderr, os
<1>12. ASSUME NEW code \in Codes \union {NoCode}, FinishExit(code)
       PROVE  /\ target \in Names
              /\ procs'[target].status = "exited" /\ procs'[target].exit_code = code
              /\ \A n \in Names : procs'[n].pid = procs[n].pid
              /\ \A n \in Names : n # target =>
                   /\ procs'[n].status = procs[n].status
                   /\ procs'[n].exit_code = procs[n].exit_code
  <2> DEFINE e == Exited(procs[target], code)
             ps == [procs EXCEPT ![target] = e]
             m == [Head(relay_rx) EXCEPT !.code = code]
  <2>1. /\ target \in Names /\ Managed(target)
        /\ Head(relay_rx) \in Output /\ Head(relay_rx).name = target
    BY <1>12, TargetHasChild, QueueHead DEF FinishExit, TypeInv, TypeOK, WaitOK
  <2>2. m.name = target
    BY <2>1 DEF Output
  <2>3. /\ ps \in [Names -> Entry]
        /\ ps[target].status = "exited" /\ ps[target].exit_code = code
        /\ \A n \in Names : ps[n].pid = procs[n].pid
        /\ \A n \in Names : n # target => ps[n] = procs[n]
    <3>1. procs[target] \in Entry
      BY <1>0, <2>1
    <3>2. /\ e \in Entry /\ e.status = "exited" /\ e.exit_code = code
          /\ e.pid = procs[target].pid
      BY <3>1 DEF Exited, Entry
    <3>3. QED
      <4> HIDE DEF e
      <4> QED BY <1>0, <2>1, <3>2
  <2>4. RelayOrBuffer(ps, m)
    BY <1>12 DEF FinishExit
  <2>5. QED
    <3> HIDE DEF ps, m, e
    <3> QED BY <2>1, <2>2, <2>3, <2>4, RelayStatus
<1>13. ASSUME NEW p \in Pids, p = procs[target].pid, target \in Names, Managed(target),
              child[p].state # "unborn",
              \A q \in Pids \ {p} : child'[q] = child[q],
              child'[p].state = "reaped" => /\ procs'[target].status = "exited"
                                            /\ procs'[target].exit_code = child'[p].code,
              procs'[target].pid = p,
              \A n \in Names : n # target => /\ procs'[n].pid = procs[n].pid
                                             /\ procs'[n].status = procs[n].status
                                             /\ procs'[n].exit_code = procs[n].exit_code
       PROVE  ReapedIsExited'
  <2> SUFFICES ASSUME NEW n \in Names, procs'[n].status # "absent",
                      child'[procs'[n].pid].state = "reaped"
               PROVE  /\ procs'[n].status = "exited"
                      /\ procs'[n].exit_code = child'[procs'[n].pid].code
    BY DEF ReapedIsExited
  <2>1. CASE n = target
    BY <1>13, <2>1
  <2>2. CASE n # target
    <3>1. Managed(n) /\ procs'[n].pid = procs[n].pid
      BY <1>13, <2>2
    <3>2. procs[n].pid \in Pids \ {p}
      BY <1>13, <2>2, <3>1, OneEntryPerChild, EntryHasChild
    <3>3. QED
      BY <1>13, <2>2, <3>1, <3>2 DEF ReapedIsExited
  <2>3. QED
    BY <2>1, <2>2
<1>14. CASE ExitReaped
  <2> DEFINE p == procs[target].pid
  <2>1. p \in Pids /\ Managed(target) /\ child[p].state # "unborn"
    BY <1>14, TargetHasChild DEF ExitReaped, FinishExit
  <2>2. child[p].code \in Codes \union {NoCode} /\ FinishExit(child[p].code)
    BY <1>0, <1>14, <2>1 DEF ExitReaped, ChildRec
  <2>3. child'[p].code = child[p].code /\ \A q \in Pids \ {p} : child'[q] = child[q]
    BY <1>0, <1>14, <2>1 DEF ExitReaped, ChildRec
  <2>4. QED
    BY <1>12, <1>13, <2>1, <2>2, <2>3
<1>15. CASE ExitTimeout
  <2> DEFINE p == procs[target].pid
  <2>1. /\ p \in Pids /\ Managed(target) /\ child[p].state = "running"
        /\ UNCHANGED child /\ FinishExit(NoCode)
    BY <1>15, TargetHasChild DEF ExitTimeout, FinishExit
  <2>2. QED
    BY <1>12, <1>13, <2>1
<1>16. CASE KillReaped
  <2> DEFINE p == procs[target].pid
             e == Exited(procs[target], child[p].code)
  <2>1. target \in Names /\ p \in Pids /\ Managed(target) /\ child[p].state # "unborn"
    BY <1>16, TargetHasChild DEF KillReaped
  <2>2. /\ child'[p].code = child[p].code /\ child'[p].state = "reaped"
        /\ \A q \in Pids \ {p} : child'[q] = child[q]
    BY <1>0, <1>16, <2>1 DEF KillReaped, ChildRec
  <2>3. e.status = "exited" /\ e.exit_code = child[p].code /\ e.pid = p
    BY <1>0, <2>1 DEF Exited, Entry
  <2>4. procs' = [procs EXCEPT ![target] = Absent] \/ procs' = [procs EXCEPT ![target] = e]
    BY <1>16 DEF KillReaped
  <2>5. CASE procs' = [procs EXCEPT ![target] = e]
    <3> HIDE DEF e
    <3>1. procs'[target] = e /\ \A n \in Names : n # target => procs'[n] = procs[n]
      BY <1>0, <2>1, <2>5
    <3>2. QED
      BY <1>13, <2>1, <2>2, <2>3, <3>1
  <2>6. CASE procs' = [procs EXCEPT ![target] = Absent]
    <3> SUFFICES ASSUME NEW n \in Names, procs'[n].status # "absent",
                        child'[procs'[n].pid].state = "reaped"
                 PROVE  /\ procs'[n].status = "exited"
                        /\ procs'[n].exit_code = child'[procs'[n].pid].code
      BY DEF ReapedIsExited
    <3>1. n # target /\ procs'[n] = procs[n] /\ Managed(n)
      BY <1>0, <2>1, <2>6
    <3>2. procs[n].pid \in Pids \ {p}
      BY <2>1, <3>1, OneEntryPerChild, EntryHasChild
    <3>3. QED
      BY <2>2, <3>1, <3>2 DEF ReapedIsExited
  <2>7. QED
    BY <2>4, <2>5, <2>6
<1>17. ASSUME NEW p \in Pids, OrphanReaped(p) PROVE ReapedIsExited'
  <2>1. \A q \in Pids \ {p} : child'[q] = child[q]
    BY <1>0, <1>17 DEF OrphanReaped
  <2>2. \A n \in Names : Managed(n) => procs[n].pid \in Pids \ {p}
    BY <1>17, EntryHasChild DEF OrphanReaped
  <2>3. UNCHANGED procs
    BY <1>17 DEF OrphanReaped
  <2>4. QED
    BY <2>1, <2>2, <2>3 DEF ReapedIsExited
<1>18. ASSUME UNCHANGED procs, NothingReaped PROVE ReapedIsExited'
  BY <1>1, <1>2, <1>18
<1>19. CASE KillTimeout
  <2>1. procs[target].pid \in Pids
    BY <1>19, TargetHasChild DEF KillTimeout
  <2>2. NothingReaped
    BY <1>0, <1>19, <2>1 DEF KillTimeout, ChildRec, NothingReaped
  <2>3. QED
    BY <1>18, <1>19, <2>2 DEF KillTimeout
<1>20. ASSUME NEW p \in Pids, ChildWrites(p) \/ ChildWritesErr(p) \/ ChildReads(p)
                              \/ ChildClosesStdout(p)
       PROVE  ReapedIsExited'
  <2>1. NothingReaped
    BY <1>0, <1>20
    DEF ChildWrites, ChildWritesErr, ChildReads, ChildClosesStdout, ChildRec, NothingReaped
  <2>2. UNCHANGED procs
    BY <1>20 DEF ChildWrites, ChildWritesErr, ChildReads, ChildClosesStdout, Unchanged
  <2>3. QED
    BY <1>18, <2>1, <2>2
<1>21. ASSUME NEW p \in Pids, ChildExits(p) \/ KilledDies(p) PROVE ReapedIsExited'
  <2>1. NothingReaped
    BY <1>0, <1>21 DEF ChildExits, KilledDies, ChildRec, NothingReaped
  <2>2. UNCHANGED procs
    BY <1>21 DEF ChildExits, KilledDies, Unchanged
  <2>3. QED
    BY <1>18, <2>1, <2>2
<1>22. CASE UNCHANGED <<procs, child>>
  BY <1>3, <1>18, <1>22
<1>23. QED
  BY <1>5, <1>6, <1>7, <1>8, <1>9, <1>10, <1>11, <1>14, <1>15, <1>16, <1>17, <1>19, <1>20,
     <1>21, <1>22
  DEF Next, Server, Tasks, Environment, HandleClientLine, HandleRelay, WaitEnds, Shutdown,
      WriterFails, CmdInterrupt, CmdList, CmdStatus, CmdUnknown, InvalidLine, HandleStdin,
      StdinFails, HandleExit, TakeShutdown, ShutdownNext, ShutdownDone, RelayStdout,
      RelayEof, RelayStderr, AbortedTaskEnds, ClientConnects, ClientSends, ClientCloses,
      Signal, Rests, os, vars

\* For any number of names, clients and children, an entry whose child has
\* been reaped is marked exited: no signal is sent to a pid that was freed.
THEOREM ReapedCorrect == Spec => []ReapedIsExited
<1> DEFINE Inv == TypeInv /\ ReapedIsExited
<1>1. Init => Inv
  BY InitTypeInv DEF Init, ReapedIsExited, Absent
<1>2. Inv /\ [Next]_vars => Inv'
  BY TypeInvStep, ReapedStep DEF vars, os, ReapedIsExited
<1>3. Spec => []Inv
  BY <1>1, <1>2, PTL DEF Spec
<1>4. Inv => ReapedIsExited
  OBVIOUS
<1>5. QED
  BY <1>3, <1>4, PTL

\* For any number of names, clients and children, a running entry keeps its
\* child until the server has waited for it.
THEOREM NotDropped == Spec => RunningIsNotDropped
<1> DEFINE Kept == \A n \in Names : Running(n) =>
                     \/ procs'[n].pid = procs[n].pid
                     \/ child'[procs[n].pid].state = "reaped"
<1>1. TypeInv /\ [Next]_vars => [Kept]_vars
  <2> SUFFICES ASSUME TypeInv, Next, NEW n \in Names, Running(n),
                      child'[procs[n].pid].state # "reaped"
               PROVE  procs'[n].pid = procs[n].pid
    OBVIOUS
  <2>1. TableMove /\ procs \in [Names -> Entry]
    BY TableStep DEF TypeInv, TypeOK, TableOK
  <2>2. CASE SameTable
    BY <2>2 DEF SameTable
  <2>3. CASE Removed \/ Added
    BY <2>1, <2>3 DEF Removed, Added, MayDrop
  <2>4. QED
    BY <2>1, <2>2, <2>3 DEF TableMove
<1>2. Spec => []TypeInv
  BY InitTypeInv, TypeInvStep, PTL DEF Spec
<1>3. QED
  BY <1>1, <1>2, PTL DEF Spec, RunningIsNotDropped

-----------------------------------------------------------------------------
(* Shutdown.  Once the signal is taken the server only kills, and what is  *)
(* still running is still to do.                                           *)

ShutdownInv ==
  /\ at \in {"shutdown", "stopped"} => sig = "taken"
  /\ sig = "taken" => /\ at \in {"shutdown", "termwait", "killwait", "stopped"}
                      /\ \A n \in Names : Running(n) => n \in todo
  /\ at = "stopped" => todo = {}

\* shutdown skips no running entry: by ReapedIsExited each can be signalled.
LEMMA ShutdownStep ==
  TypeInv /\ ReapedIsExited /\ ShutdownInv /\ Next => ShutdownInv'
<1> SUFFICES ASSUME TypeInv, ReapedIsExited, ShutdownInv, Next PROVE ShutdownInv'
  OBVIOUS
<1>0. procs \in [Names -> Entry]
  BY DEF TypeInv, TypeOK, TableOK
<1>1. CASE UNCHANGED <<at, procs, sig, todo>>
  BY <1>1 DEF ShutdownInv
<1>2. CASE sig # "taken" /\ sig' # "taken" /\ at' \notin {"shutdown", "stopped"}
  BY <1>2 DEF ShutdownInv
<1>3. CASE /\ at \in {"select", "exitwait", "stdin"} /\ at' \notin {"shutdown", "stopped"}
           /\ UNCHANGED sig
  BY <1>2, <1>3 DEF ShutdownInv
<1>4. CASE TakeShutdown
  BY <1>4 DEF TakeShutdown, ShutdownInv
<1>5. ASSUME NEW n \in Names, ShutdownNext(n) PROVE ShutdownInv'
  <2>1. sig = "taken" /\ UNCHANGED <<sig, procs>> /\ at' \in {"shutdown", "termwait"}
    BY <1>5 DEF ShutdownNext, ShutdownInv
  <2>2. Running(n) => Signallable(n)
    BY DEF Signallable, ReapedIsExited
  <2>3. todo' = todo \/ (~Running(n) /\ todo' = todo \ {n})
    BY <1>5, <2>2 DEF ShutdownNext
  <2>4. QED
    BY <2>1, <2>3 DEF ShutdownInv
<1>6. CASE ShutdownDone
  BY <1>6 DEF ShutdownDone, ShutdownInv, quit
<1>7. CASE KillReaped
  <2>1. CASE sig = "taken"
    <3> DEFINE e == Exited(procs[target], child[procs[target].pid].code)
    <3>1. target \in Names
      BY <1>7, TargetHasChild DEF KillReaped
    <3>2. e.status = "exited"
      BY <1>0, <3>1 DEF Exited, Entry
    <3>3. /\ procs' = [procs EXCEPT ![target] = e] /\ todo' = todo \ {target}
          /\ at' = "shutdown" /\ UNCHANGED sig
      BY <1>7, <2>1 DEF KillReaped
    <3>4. QED
      <4> HIDE DEF e
      <4> QED BY <1>0, <2>1, <3>1, <3>2, <3>3 DEF ShutdownInv
  <2>2. CASE sig # "taken"
    BY <1>2, <1>7, <2>2 DEF KillReaped
  <2>3. QED
    BY <2>1, <2>2
<1>8. CASE KillTimeout
  BY <1>8 DEF KillTimeout, ShutdownInv, quit
<1>9. CASE Signal
  BY <1>2, <1>9 DEF Signal, ShutdownInv
<1>10. ASSUME NEW r, TakeLine(r), at' \in {"select", "panicked", "termwait", "stdin"}
       PROVE  ShutdownInv'
  BY <1>3, <1>10 DEF TakeLine, quit
<1>11. CASE HandleClientLine
  <2>1. ASSUME NEW n \in Names, NEW r \in SpawnRequests, CmdSpawn(r, n) PROVE ShutdownInv'
    BY <1>10, <2>1 DEF CmdSpawn, TakeCommand, TakeLine
  <2>2. ASSUME NEW n \in Names, CmdKill(n) \/ HandleStdin(n) PROVE ShutdownInv'
    BY <1>10, <2>2 DEF CmdKill, HandleStdin, TakeCommand, TakeLine
  <2>3. ASSUME NEW n \in Names, CmdInterrupt(n) \/ CmdSubscribe(n) \/ CmdUnsubscribe(n)
        PROVE  ShutdownInv'
    BY <1>10, <2>3 DEF CmdInterrupt, CmdSubscribe, CmdUnsubscribe, TakeCommand, TakeLine
  <2>4. CASE CmdList \/ CmdStatus \/ CmdUnknown \/ InvalidLine
    BY <1>10, <2>4 DEF CmdList, CmdStatus, CmdUnknown, InvalidLine, TakeCommand, TakeLine
  <2>5. QED
    BY <1>11, <2>1, <2>2, <2>3, <2>4 DEF HandleClientLine
<1>12. CASE Accept \/ Disconnect \/ HandleStdout \/ HandleStderr \/ HandleExit
  BY <1>3, <1>12 DEF Accept, Disconnect, HandleStdout, HandleStderr, HandleExit, quit
<1>13. CASE ExitReaped \/ ExitTimeout \/ StdinWritten \/ StdinFails
  BY <1>3, <1>13 DEF ExitReaped, ExitTimeout, FinishExit, StdinWritten, StdinFails, quit
<1>14. QED
  BY <1>1, <1>4, <1>5, <1>6, <1>7, <1>8, <1>9, <1>11, <1>12, <1>13
  DEF Next, Server, Tasks, Environment, HandleRelay, WaitEnds, Shutdown, WriterFails,
      RelayStdout, RelayEof, RelayStderr, AbortedTaskEnds, OrphanReaped, ChildWrites,
      ChildWritesErr, ChildReads, ChildClosesStdout, ChildExits, KilledDies, Unchanged,
      ClientConnects, ClientSends, ClientCloses, Rests, quit, vars

\* For any number of names and children, a server that has stopped believes
\* no process running.
THEOREM ShutdownCorrect == Spec => []StoppedHasKilled
<1> DEFINE Inv == TypeInv /\ ReapedIsExited /\ ShutdownInv
<1>1. Init => Inv
  BY InitTypeInv DEF Init, ReapedIsExited, ShutdownInv, Absent
<1>2. Inv /\ [Next]_vars => Inv'
  <2>1. Inv /\ Next => Inv'
    BY TypeInvStep, ReapedStep, ShutdownStep
  <2>2. Inv /\ UNCHANGED vars => Inv'
    BY TypeInvStep DEF vars, os, quit, ReapedIsExited, ShutdownInv
  <2>3. QED
    BY <2>1, <2>2
<1>3. Spec => []Inv
  BY <1>1, <1>2, PTL DEF Spec
<1>4. Inv => StoppedHasKilled
  BY DEF ShutdownInv, StoppedHasKilled
<1>5. QED
  BY <1>3, <1>4, PTL
=============================================================================
