---------------------- MODULE ProcmuxServerOutputProofs -----------------------
(*****************************************************************************)
(* What the Rust server sends, for every number of names, children, clients  *)
(* and lines: in which order, that nothing of an entry is lost on the way,   *)
(* that a replay is as long as its answer says, and that every command gets  *)
(* one result in its turn.                                                   *)
(*                                                                           *)
(* ShapeStep reduces Next to four ways of moving messages; what follows is   *)
(* about these four and not about the actions.  To InOrder, the invariant    *)
(* adds Placed: what is anywhere on its way carries the name its child was   *)
(* started under, is in no other name's buffer, and was counted by a relay   *)
(* task.                                                                     *)
(*****************************************************************************)
EXTENDS ProcmuxServerProofs

\* How many lines the relay task of a pipe has sent.
Read(p, pipe) == IF pipe = "stdout" THEN task[p].out ELSE task[p].err

SameLine(a, b) ==
  a.kind = b.kind /\ a.name = b.name /\ a.from = b.from /\ a.pipe = b.pipe /\ a.seq = b.seq

NoneSubscribes ==
  \A n \in Names : procs'[n].subscribed => procs[n].subscribed

SameBuffers ==
  \A n \in Names : procs'[n].buffer = procs[n].buffer

SamePids ==
  \A n \in Names : procs'[n].pid = procs[n].pid

\* A buffer stays, unless its entry is given up or gets another child.
BufferStays(n) ==
  \/ procs'[n].buffer = procs[n].buffer
  \/ procs'[n].buffer = << >> /\ (Managed(n) => procs'[n].pid # procs[n].pid)

\* Nothing is relayed: a connection begins or ends, or a command is answered.
Quiet ==
  /\ UNCHANGED relay_rx
  /\ \A n \in Names : BufferStays(n)
  /\ \/ /\ Accept \/ Disconnect
        /\ channel' = << >> /\ \A n \in Names : ~procs'[n].subscribed
     \/ /\ writer' => writer
        /\ writer' # writer => WriterFails
        /\ NoneSubscribes
        /\ \/ UNCHANGED channel
           \/ \E r \in Result : ~IsReplay(r) /\ channel' = Append(channel, r)

\* A buffer is replayed and answered for.
Replays ==
  /\ UNCHANGED <<relay_rx, writer>>
  /\ \E n \in Names, r \in Result :
       /\ procs' = [procs EXCEPT ![n] = Drained(procs[n])]
       /\ IsReplay(r) /\ r.name = n /\ r.replayed = Len(procs[n].buffer)
       /\ channel' = IF writer THEN channel \o Append(procs[n].buffer, r) ELSE channel

\* The first message of relay_rx is dropped, forwarded or buffered.
Handles ==
  /\ relay_rx # << >> /\ relay_rx' = Tail(relay_rx)
  /\ UNCHANGED writer
  /\ NoneSubscribes /\ SamePids
  /\ \E m \in Output :
       /\ SameLine(m, Head(relay_rx))
       /\ \/ ~Managed(m.name) /\ UNCHANGED channel /\ SameBuffers
          \/ /\ procs[m.name].subscribed /\ writer
             /\ channel' = Append(channel, m) /\ SameBuffers
          \/ /\ Managed(m.name) /\ UNCHANGED channel
             /\ procs'[m.name].buffer = Append(procs[m.name].buffer, m)
             /\ \A n \in Names \ {m.name} : procs'[n].buffer = procs[n].buffer

\* A relay task sends the next line of its pipe.
Relays ==
  /\ UNCHANGED <<channel, writer, procs>>
  /\ \E m \in Output :
       /\ relay_rx' = Append(relay_rx, m)
       /\ m.name = child[m.from].name
       /\ m.seq = Read(m.from, m.pipe) + 1 /\ Read(m.from, m.pipe)' = m.seq

-----------------------------------------------------------------------------
(* Steps *)

\* Only a relay task counts.
LEMMA ReadSteady ==
  ASSUME TypeInv, Next, NEW p \in Pids
  PROVE  \/ \E q \in Pids : RelayStdout(q) \/ RelayEof(q) \/ RelayStderr(q)
         \/ task'[p].out = task[p].out /\ task'[p].err = task[p].err
<1> DEFINE Steady == task'[p].out = task[p].out /\ task'[p].err = task[p].err
<1>0. task \in [Pids -> TaskRec]
  BY DEF TypeInv, TypeOK, OsOK
<1>1. CASE UNCHANGED task
  BY <1>1
<1>2. ASSUME NEW r \in SpawnRequests, NEW n \in Names, CmdSpawn(r, n) PROVE Steady
  <2>1. ASSUME NEW q \in Pids,
               task' = [task EXCEPT ![q].stdout = "reading", ![q].stderr = "reading"]
        PROVE  Steady
    <3> DEFINE e == [task[q] EXCEPT !.stdout = "reading", !.stderr = "reading"]
    <3>1. e.out = task[q].out /\ e.err = task[q].err
      BY <1>0 DEF TaskRec
    <3>2. task' = [task EXCEPT ![q] = e]
      BY <1>0, <2>1
    <3> HIDE DEF e
    <3>3. QED
      BY <1>0, <3>1, <3>2
  <2>2. QED
    BY <1>1, <1>2, <2>1 DEF CmdSpawn, os
<1>3. CASE KillReaped
  <2>1. task' = [task EXCEPT ![procs[target].pid] = Aborted(task[procs[target].pid])]
    BY <1>3 DEF KillReaped
  <2>2. Aborted(task[p]).out = task[p].out /\ Aborted(task[p]).err = task[p].err
    BY <1>0 DEF Aborted, TaskRec
  <2>3. QED
    BY <1>0, <2>1, <2>2
<1>4. ASSUME NEW q \in Pids, AbortedTaskEnds(q) PROVE Steady
  BY <1>0, <1>4 DEF AbortedTaskEnds, TaskRec
<1>5. QED
  BY <1>1, <1>2, <1>3, <1>4
  DEF Next, Server, Tasks, Environment, HandleClientLine, HandleRelay, WaitEnds, Shutdown, os,
      Accept, Disconnect, WriterFails, CmdKill, CmdInterrupt, CmdSubscribe, CmdUnsubscribe,
      CmdList, CmdStatus, CmdUnknown, InvalidLine, HandleStdin, StdinWritten, StdinFails,
      HandleStdout, HandleStderr, HandleExit, ExitReaped, ExitTimeout, FinishExit, KillTimeout,
      TakeShutdown, ShutdownNext, ShutdownDone, OrphanReaped, ChildWrites, ChildWritesErr,
      ChildReads, ChildClosesStdout, ChildExits, KilledDies, Unchanged, ClientConnects,
      ClientSends, ClientCloses, Signal, Rests, vars

\* A relay task counts what it sends, one by one.
LEMMA TaskCounts ==
  ASSUME TypeInv, NEW q \in Pids, RelayStdout(q) \/ RelayEof(q) \/ RelayStderr(q)
  PROVE  /\ task[q].out \in Nat /\ task[q].err \in Nat
         /\ \A p \in Pids \ {q} : task'[p] = task[p]
         /\ RelayStdout(q) => task'[q].out \in {task[q].out, task[q].out + 1}
         /\ RelayEof(q) => task'[q].out = task[q].out + 1
         /\ RelayStdout(q) \/ RelayEof(q) => task'[q].err = task[q].err
         /\ RelayStderr(q) => task'[q].err = task[q].err + 1 /\ task'[q].out = task[q].out
<1>0. task \in [Pids -> TaskRec] /\ task[q].out \in Nat /\ task[q].err \in Nat
  BY DEF TypeInv, TypeOK, OsOK, TaskRec
<1> DEFINE a == [task[q] EXCEPT !.out = task[q].out + 1]
           b == [task[q] EXCEPT !.stdout = "done"]
           c == [task[q] EXCEPT !.out = task[q].out + 1, !.stdout = "done"]
           d == [task[q] EXCEPT !.err = task[q].err + 1]
<1>1. /\ a.out = task[q].out + 1 /\ b.out = task[q].out /\ c.out = task[q].out + 1
      /\ a.err = task[q].err /\ b.err = task[q].err /\ c.err = task[q].err
      /\ d.out = task[q].out /\ d.err = task[q].err + 1
  BY <1>0 DEF TaskRec
<1>2. /\ RelayStdout(q) => task' = [task EXCEPT ![q] = a] \/ task' = [task EXCEPT ![q] = b]
      /\ RelayEof(q) => task' = [task EXCEPT ![q] = c]
      /\ RelayStderr(q) => task' = [task EXCEPT ![q] = d]
  BY <1>0 DEF RelayStdout, RelayEof, RelayStderr
<1> HIDE DEF a, b, c, d
<1>3. QED
  BY <1>0, <1>1, <1>2

\* Relay tasks only count up.
LEMMA ReadGrows ==
  TypeInv /\ Next => \A p \in Pids, pipe \in Pipes : Read(p, pipe) <= Read(p, pipe)'
<1> SUFFICES ASSUME TypeInv, Next, NEW p \in Pids
             PROVE  task[p].out <= task'[p].out /\ task[p].err <= task'[p].err
  BY DEF Read
<1>0. task[p].out \in Nat /\ task[p].err \in Nat
  BY DEF TypeInv, TypeOK, OsOK, TaskRec
<1>1. CASE task'[p].out = task[p].out /\ task'[p].err = task[p].err
  BY <1>0, <1>1
<1>2. ASSUME NEW q \in Pids, RelayStdout(q) \/ RelayEof(q) \/ RelayStderr(q)
      PROVE  task[p].out <= task'[p].out /\ task[p].err <= task'[p].err
  BY <1>0, <1>2, TaskCounts
<1>3. QED
  BY <1>1, <1>2, ReadSteady

\* What RelayOrBuffer does with the first message, whatever else the handler
\* has changed in the entry.
LEMMA RelayShape ==
  ASSUME TypeInv, relay_rx # << >>, relay_rx' = Tail(relay_rx), UNCHANGED writer,
         NEW m \in Output, SameLine(m, Head(relay_rx)), NEW ps \in [Names -> Entry],
         \A n \in Names : /\ ps[n].buffer = procs[n].buffer /\ ps[n].pid = procs[n].pid
                          /\ ps[n].subscribed = procs[n].subscribed,
         RelayOrBuffer(ps, m)
  PROVE  Handles
<1> DEFINE e == [ps[m.name] EXCEPT !.subscribed = FALSE, !.buffer = Append(ps[m.name].buffer, m)]
<1>0. m.name \in Names /\ procs \in [Names -> Entry] /\ ps[m.name] \in Entry
  BY DEF Output, TypeInv, TypeOK, TableOK
<1>1. CASE ~Managed(m.name)
  BY <1>1 DEF RelayOrBuffer, Handles, NoneSubscribes, SameBuffers, SamePids
<1>2. CASE Managed(m.name) /\ procs[m.name].subscribed /\ writer
  BY <1>2 DEF RelayOrBuffer, Handles, NoneSubscribes, SameBuffers, SamePids
<1>3. CASE Managed(m.name) /\ ~(procs[m.name].subscribed /\ writer)
  <2>1. procs' = [ps EXCEPT ![m.name] = e] /\ UNCHANGED channel
    BY <1>0, <1>3 DEF RelayOrBuffer
  <2>2. e.subscribed = FALSE /\ e.buffer = Append(procs[m.name].buffer, m) /\ e.pid = procs[m.name].pid
    BY <1>0 DEF Entry
  <2> HIDE DEF e
  <2>3. /\ procs'[m.name] = e
        /\ \A n \in Names \ {m.name} : procs'[n] = ps[n]
    BY <1>0, <2>1
  <2>4. NoneSubscribes /\ SamePids
    BY <2>2, <2>3 DEF NoneSubscribes, SamePids
  <2>5. QED
    BY <1>3, <2>1, <2>2, <2>3, <2>4 DEF Handles
<1>4. QED
  BY <1>1, <1>2, <1>3

\* Every step moves messages in one of the four ways.
LEMMA ShapeStep == TypeInv /\ Next => Quiet \/ Replays \/ Handles \/ Relays
<1> DEFINE Goal == Quiet \/ Replays \/ Handles \/ Relays
<1> SUFFICES ASSUME TypeInv, Next PROVE Goal
  OBVIOUS
<1>0. /\ procs \in [Names -> Entry] /\ task \in [Pids -> TaskRec] /\ served \in Nat
      /\ target \in Names \union {NoName} /\ relay_rx \in Seq(Output)
      /\ channel \in Seq(Message) /\ Absent.buffer = << >> /\ Absent.subscribed = FALSE
  BY DEF TypeInv, TypeOK, TableOK, OsOK, ControlOK, MessagesOK, Absent
<1>1. ASSUME UNCHANGED relay_rx, UNCHANGED writer \/ WriterFails, UNCHANGED channel,
             NoneSubscribes, \A n \in Names : BufferStays(n)
      PROVE  Goal
  BY <1>1 DEF Quiet, WriterFails
<1>2. CASE UNCHANGED <<relay_rx, writer, channel, procs>>
  BY <1>1, <1>2 DEF NoneSubscribes, BufferStays
<1>3. ASSUME NEW k \in Nat, NEW r \in Requests \ {"subscribe"}, NEW n \in Names \union {NoName},
             NEW x \in {ResultOk(k, r, n), ResultErr(k, r, n)}, Answer(x),
             UNCHANGED <<relay_rx, writer>>, NoneSubscribes,
             \A i \in Names : BufferStays(i)
      PROVE  Goal
  <2>1. x \in Result /\ ~IsReplay(x)
    <3>1. ResultOk(k, r, n) \in Result /\ ResultErr(k, r, n) \in Result
      BY AnswerTypes
    <3>2. ResultOk(k, r, n).cmd = r /\ ResultErr(k, r, n).cmd = r /\ r # "subscribe"
      BY DEF ResultOk, ResultErr
    <3>3. QED
      BY <1>3, <3>1, <3>2 DEF IsReplay
  <2>2. UNCHANGED channel \/ channel' = Append(channel, x)
    BY <1>0, <1>3, <2>1, AppendIsConcat DEF Answer, Sent, Message
  <2>3. QED
    BY <1>3, <2>1, <2>2 DEF Quiet
<1>4. CASE Accept \/ Disconnect
  BY <1>0, <1>4 DEF Accept, Disconnect, Quiet, BufferStays, Unsubscribed, Entry
<1>5. CASE WriterFails
  BY <1>1, <1>5 DEF WriterFails, NoneSubscribes, BufferStays
<1>6. ASSUME NEW n \in Names, procs' = [procs EXCEPT ![n] = Absent] \/ UNCHANGED procs
      PROVE  NoneSubscribes /\ \A i \in Names : BufferStays(i)
  BY <1>0, <1>6, EntryHasChild, NoneAssumption DEF NoneSubscribes, BufferStays, Absent
<1>7. ASSUME NEW r \in SpawnRequests, NEW n \in Names, CmdSpawn(r, n) PROVE Goal
  <2>1. r \in Requests \ {"subscribe"} /\ served' \in Nat /\ UNCHANGED <<relay_rx, writer>>
    <3>1. TakeCommand(r)
      BY <1>7 DEF CmdSpawn
    <3>2. r \in Requests \ {"subscribe"}
      BY DEF SpawnRequests, Requests
    <3>3. QED
      BY <1>0, <3>1, <3>2 DEF TakeCommand, TakeLine
  <2>2. NoneSubscribes /\ \A i \in Names : BufferStays(i)
    <3>1. ASSUME NEW p \in Pids, child[p].state = "unborn", procs' = [procs EXCEPT ![n] = NewEntry(p)]
          PROVE  NoneSubscribes /\ \A i \in Names : BufferStays(i)
      BY <1>0, <3>1, EntryHasChild DEF NewEntry, NoneSubscribes, BufferStays
    <3>2. QED
      BY <1>6, <1>7, <3>1 DEF CmdSpawn
  <2>3. UNCHANGED channel \/ Answer(ResultOk(served', r, n)) \/ Answer(ResultErr(served', r, n))
    BY <1>7 DEF CmdSpawn
  <2>4. QED
    BY <1>1, <1>3, <2>1, <2>2, <2>3
<1>8. ASSUME NEW n \in Names, CmdKill(n) PROVE Goal
  <2>1. "kill" \in Requests \ {"subscribe"} /\ served' \in Nat /\ UNCHANGED <<relay_rx, writer>>
    BY <1>0, <1>8 DEF CmdKill, TakeCommand, TakeLine, Requests
  <2>2. NoneSubscribes /\ \A i \in Names : BufferStays(i)
    BY <1>6, <1>8 DEF CmdKill
  <2>3. UNCHANGED channel \/ Answer(ResultOk(served', "kill", n)) \/ Answer(ResultErr(served', "kill", n))
    BY <1>8 DEF CmdKill
  <2>4. QED
    BY <1>1, <1>3, <2>1, <2>2, <2>3
<1>9. ASSUME UNCHANGED procs
      PROVE  NoneSubscribes /\ \A i \in Names : BufferStays(i)
  BY <1>9 DEF NoneSubscribes, BufferStays
<1>10. ASSUME NEW n \in Names, CmdInterrupt(n) PROVE Goal
  <2>1. "interrupt" \in Requests \ {"subscribe"} /\ served' \in Nat /\ UNCHANGED <<relay_rx, writer, procs>>
    BY <1>0, <1>10 DEF CmdInterrupt, TakeCommand, TakeLine, Requests
  <2>2. Answer(ResultOk(served', "interrupt", n)) \/ Answer(ResultErr(served', "interrupt", n))
    BY <1>10 DEF CmdInterrupt
  <2>3. QED
    BY <1>3, <1>9, <2>1, <2>2
<1>11. CASE CmdList \/ CmdStatus \/ CmdUnknown
  <2>1. /\ {"list", "status", "unknown"} \subseteq Requests \ {"subscribe"}
        /\ served' \in Nat /\ UNCHANGED <<relay_rx, writer, procs>>
    BY <1>0, <1>11 DEF CmdList, CmdStatus, CmdUnknown, TakeCommand, TakeLine, Requests
  <2>2. \/ Answer(ResultOk(served', "list", NoName)) \/ Answer(ResultOk(served', "status", NoName))
        \/ Answer(ResultErr(served', "unknown", NoName))
    BY <1>11 DEF CmdList, CmdStatus, CmdUnknown
  <2>3. QED
    BY <1>3, <1>9, <2>1, <2>2
<1>12. ASSUME NEW n \in Names, CmdUnsubscribe(n) PROVE Goal
  <2>1. "unsubscribe" \in Requests \ {"subscribe"} /\ served' \in Nat /\ UNCHANGED <<relay_rx, writer>>
    BY <1>0, <1>12 DEF CmdUnsubscribe, TakeCommand, TakeLine, Requests
  <2> DEFINE e == [procs[n] EXCEPT !.subscribed = FALSE]
  <2>2. e.subscribed = FALSE /\ e.buffer = procs[n].buffer
    BY <1>0 DEF Entry
  <2>3. UNCHANGED procs \/ procs' = [procs EXCEPT ![n] = e]
    BY <1>0, <1>12 DEF CmdUnsubscribe
  <2> HIDE DEF e
  <2>4. NoneSubscribes /\ \A i \in Names : BufferStays(i)
    BY <1>0, <2>2, <2>3 DEF NoneSubscribes, BufferStays
  <2>5. Answer(ResultOk(served', "unsubscribe", n)) \/ Answer(ResultErr(served', "unsubscribe", n))
    BY <1>12 DEF CmdUnsubscribe
  <2>6. QED
    BY <1>3, <2>1, <2>4, <2>5
<1>13. ASSUME NEW n \in Names, CmdSubscribe(n) PROVE Goal
  <2>1. "subscribe" \in Requests /\ served' \in Nat /\ UNCHANGED <<relay_rx, writer>>
    BY <1>0, <1>13 DEF CmdSubscribe, TakeCommand, TakeLine, Requests
  <2>2. CASE Managed(n)
    <3> DEFINE x == ResultOk(served', "subscribe", n)
               r == [x EXCEPT !.replayed = Len(procs[n].buffer)]
    <3>1. procs[n].buffer \in Seq(Output)
      BY <1>0 DEF Entry
    <3>2. r \in Result /\ IsReplay(r) /\ r.name = n /\ r.replayed = Len(procs[n].buffer)
      <4>1. x \in Result /\ x.kind = "result" /\ x.cmd = "subscribe" /\ x.ok = TRUE /\ x.name = n
        BY <2>1, AnswerTypes DEF ResultOk
      <4>2. Len(procs[n].buffer) \in Nat
        BY <3>1
      <4> HIDE DEF x
      <4>3. QED
        BY <4>1, <4>2 DEF Result, IsReplay
    <3>3. /\ procs' = [procs EXCEPT ![n] = Drained(procs[n])]
          /\ channel' = IF writer THEN channel \o Append(procs[n].buffer, r) ELSE channel
      BY <1>13, <2>2 DEF CmdSubscribe, Sent, Replay
    <3> HIDE DEF r
    <3>4. QED
      BY <2>1, <3>2, <3>3 DEF Replays
  <2>3. CASE ~Managed(n)
    <3> DEFINE r == ResultErr(served', "subscribe", n)
    <3>1. r \in Result /\ ~IsReplay(r)
      BY <2>1, AnswerTypes DEF IsReplay, ResultErr, ResultOk
    <3>2. Answer(r) /\ UNCHANGED procs
      BY <1>13, <2>3 DEF CmdSubscribe
    <3> HIDE DEF r
    <3>3. UNCHANGED channel \/ channel' = Append(channel, r)
      BY <1>0, <3>1, <3>2, AppendIsConcat DEF Answer, Sent, Message
    <3>4. QED
      BY <1>9, <2>1, <3>1, <3>2, <3>3 DEF Quiet
  <2>4. QED
    BY <2>2, <2>3
<1>14. CASE StdinWritten
  <2>1. target \in Names /\ UNCHANGED <<relay_rx, writer, channel>>
    BY <1>14, TargetHasChild DEF StdinWritten, session
  <2> DEFINE e == [procs[target] EXCEPT !.idle = FALSE]
  <2>2. e.subscribed = procs[target].subscribed /\ e.buffer = procs[target].buffer
    BY <1>0, <2>1 DEF Entry
  <2>3. procs' = [procs EXCEPT ![target] = e]
    BY <1>0, <1>14 DEF StdinWritten
  <2> HIDE DEF e
  <2>4. QED
    BY <1>0, <1>1, <2>1, <2>2, <2>3 DEF NoneSubscribes, BufferStays
<1>15. CASE KillReaped
  <2>1. target \in Names /\ "kill" \in Requests \ {"subscribe"} /\ UNCHANGED <<relay_rx, writer, served>>
    BY <1>15, TargetHasChild DEF KillReaped, Requests
  <2> DEFINE e == Exited(procs[target], child[procs[target].pid].code)
  <2>2. e.subscribed = procs[target].subscribed /\ e.buffer = procs[target].buffer
    BY <1>0, <2>1 DEF Exited, Entry
  <2>3. \/ procs' = [procs EXCEPT ![target] = Absent] /\ Answer(ResultOk(served, "kill", target))
        \/ procs' = [procs EXCEPT ![target] = e] /\ UNCHANGED channel
    BY <1>15 DEF KillReaped
  <2> HIDE DEF e
  <2>4. NoneSubscribes /\ \A i \in Names : BufferStays(i)
    BY <1>0, <1>6, <2>1, <2>2, <2>3 DEF NoneSubscribes, BufferStays
  <2>5. QED
    BY <1>0, <1>1, <1>3, <2>1, <2>3, <2>4
<1>16. CASE HandleStdout
  <2>1. Head(relay_rx) \in Output /\ SameLine(Head(relay_rx), Head(relay_rx))
    BY <1>16, QueueHead DEF HandleStdout, SameLine
  <2> DEFINE n == Head(relay_rx).name
             ps == [procs EXCEPT ![n].idle = TRUE]
  <2>2. n \in Names
    BY <2>1 DEF Output
  <2>3. /\ ps \in [Names -> Entry]
        /\ \A k \in Names : /\ ps[k].buffer = procs[k].buffer /\ ps[k].pid = procs[k].pid
                            /\ ps[k].subscribed = procs[k].subscribed
    BY <1>0, <2>2, IdleOnly
  <2>4. RelayOrBuffer(ps, Head(relay_rx))
    BY <1>16 DEF HandleStdout
  <2> HIDE DEF ps
  <2>5. ps \in [Names -> Entry]
        /\ \A i \in Names : /\ ps[i].buffer = procs[i].buffer /\ ps[i].pid = procs[i].pid
                            /\ ps[i].subscribed = procs[i].subscribed
    BY <1>0, <2>2, <2>3
  <2>6. QED
    BY <1>16, <2>1, <2>4, <2>5, RelayShape DEF HandleStdout
<1>17. CASE HandleStderr
  <2>1. Head(relay_rx) \in Output /\ SameLine(Head(relay_rx), Head(relay_rx))
    BY <1>17, QueueHead DEF HandleStderr, SameLine
  <2>2. QED
    BY <1>0, <1>17, <2>1, RelayShape DEF HandleStderr
<1>18. CASE HandleExit
  <2>1. Head(relay_rx) \in Output /\ SameLine(Head(relay_rx), Head(relay_rx))
    BY <1>18, QueueHead DEF HandleExit, SameLine
  <2>2. /\ UNCHANGED <<procs, channel, writer>>
        /\ \/ UNCHANGED relay_rx
           \/ /\ relay_rx # << >> /\ relay_rx' = Tail(relay_rx)
              /\ ~Managed(Head(relay_rx).name)
    BY <1>18 DEF HandleExit, session
  <2>3. QED
    BY <1>2, <2>1, <2>2 DEF Handles, NoneSubscribes, SameBuffers, SamePids
<1>19. ASSUME NEW code \in Codes \union {NoCode}, FinishExit(code) PROVE Goal
  <2>1. relay_rx # << >> /\ target \in Names /\ Head(relay_rx) \in Output
    BY <1>19, TargetHasChild, QueueHead DEF FinishExit, TypeInv, TypeOK, WaitOK
  <2> DEFINE m == [Head(relay_rx) EXCEPT !.code = code]
             e == Exited(procs[target], code)
             ps == [procs EXCEPT ![target] = e]
  <2>2. m \in Output /\ SameLine(m, Head(relay_rx))
    BY <2>1 DEF Output, SameLine
  <2>3. /\ e \in Entry /\ e.subscribed = procs[target].subscribed
        /\ e.buffer = procs[target].buffer /\ e.pid = procs[target].pid
    BY <1>0, <2>1 DEF Exited, Entry
  <2>4. RelayOrBuffer(ps, m) /\ relay_rx' = Tail(relay_rx) /\ UNCHANGED writer
    BY <1>19 DEF FinishExit
  <2> HIDE DEF m, e
  <2>5. ps \in [Names -> Entry]
        /\ \A i \in Names : /\ ps[i].buffer = procs[i].buffer /\ ps[i].pid = procs[i].pid
                            /\ ps[i].subscribed = procs[i].subscribed
    BY <1>0, <2>1, <2>3
  <2>6. QED
    BY <2>1, <2>2, <2>4, <2>5, RelayShape
<1>20. CASE ExitReaped \/ ExitTimeout
  <2>1. child[procs[target].pid].code \in Codes \union {NoCode}
    BY <1>20, TargetHasChild
    DEF ExitReaped, ExitTimeout, FinishExit, TypeInv, TypeOK, OsOK, ChildRec
  <2>2. QED
    BY <1>19, <1>20, <2>1 DEF ExitReaped, ExitTimeout
<1>21. ASSUME NEW p \in Pids, RelayStdout(p) \/ RelayEof(p) \/ RelayStderr(p) PROVE Goal
  <2>0. /\ task[p] \in TaskRec /\ task[p].out + 1 \in Nat /\ task[p].err + 1 \in Nat
        /\ child[p].state # "unborn" /\ {"stdout", "stderr"} = Pipes
        /\ UNCHANGED <<channel, writer, procs>>
    BY <1>0, <1>21, TaskHasChild
    DEF RelayStdout, RelayEof, RelayStderr, Reads, TaskRec, Pipes, session
  <2>1. CASE UNCHANGED relay_rx
    BY <1>2, <2>0, <2>1
  <2>2. ASSUME NEW m \in Output, NEW pipe \in Pipes, relay_rx' = Append(relay_rx, m),
               m.from = p, m.pipe = pipe, m.name = child[p].name, m.seq = Read(p, pipe) + 1,
               Read(p, pipe)' = Read(p, pipe) + 1
        PROVE  Goal
    BY <2>0, <2>2 DEF Relays
  <2>3. ASSUME RelayStdout(p), relay_rx' # relay_rx PROVE Goal
    <3>1. /\ task' = [task EXCEPT ![p].out = task[p].out + 1]
          /\ \/ relay_rx' = Append(relay_rx, StdoutMsg(child[p].name, p, task[p].out + 1))
             \/ relay_rx' = Append(relay_rx, StderrMsg(child[p].name, p, "stdout", task[p].out + 1))
      BY <2>3 DEF RelayStdout, Relay
    <3>2. Read(p, "stdout")' = Read(p, "stdout") + 1 /\ Read(p, "stdout") = task[p].out
      BY <1>0, <2>0, <3>1 DEF Read, TaskRec
    <3>3. QED
      BY <2>0, <2>2, <3>1, <3>2, OutputTypes DEF StdoutMsg, StderrMsg
  <2>4. CASE RelayEof(p)
    <3> DEFINE e == [task[p] EXCEPT !.out = task[p].out + 1, !.stdout = "done"]
    <3>1. task' = [task EXCEPT ![p] = e]
          /\ relay_rx' = Append(relay_rx, ExitMsg(child[p].name, p, task[p].out + 1))
      BY <1>0, <2>4 DEF RelayEof, Relay
    <3>2. e.out = task[p].out + 1
      BY <2>0 DEF TaskRec
    <3> HIDE DEF e
    <3>3. Read(p, "stdout")' = Read(p, "stdout") + 1 /\ Read(p, "stdout") = task[p].out
      BY <1>0, <3>1, <3>2 DEF Read
    <3>4. QED
      BY <2>0, <2>2, <3>1, <3>3, OutputTypes DEF ExitMsg
  <2>5. CASE RelayStderr(p)
    <3>1. /\ task' = [task EXCEPT ![p].err = task[p].err + 1]
          /\ relay_rx' = Append(relay_rx, StderrMsg(child[p].name, p, "stderr", task[p].err + 1))
      BY <2>5 DEF RelayStderr, Relay
    <3>2. Read(p, "stderr")' = Read(p, "stderr") + 1 /\ Read(p, "stderr") = task[p].err
      BY <1>0, <2>0, <3>1 DEF Read, TaskRec
    <3>3. QED
      BY <2>0, <2>2, <3>1, <3>2, OutputTypes DEF StderrMsg
  <2>6. QED
    BY <1>21, <2>1, <2>3, <2>4, <2>5
<1>22. QED
  BY <1>2, <1>4, <1>5, <1>7, <1>8, <1>10, <1>11, <1>12, <1>13, <1>14, <1>15, <1>16, <1>17,
     <1>18, <1>20, <1>21
  DEF Next, Server, Tasks, Environment, HandleClientLine, HandleRelay, WaitEnds, Shutdown,
      InvalidLine, HandleStdin, TakeLine, TakeCommand, StdinFails, KillTimeout, TakeShutdown,
      ShutdownNext, ShutdownDone, AbortedTaskEnds, OrphanReaped, ChildWrites, ChildWritesErr,
      ChildReads, ChildClosesStdout, ChildExits, KilledDies, Unchanged, ClientConnects,
      ClientSends, ClientCloses, Signal, Rests, vars, session

-----------------------------------------------------------------------------
(* Sequences of messages, and what comes before what *)

\* A result, and what another name's child wrote, is ordered with nothing.
LEMMA BeforeResult ==
  ASSUME NEW a, NEW r \in Result
  PROVE  Before(a, r) /\ Before(r, a)
BY DEF Before, Result

\* Only what tells lines apart matters, not the code of an Exit.
LEMMA BeforeSame ==
  ASSUME NEW a, NEW b, NEW c, SameLine(a, b)
  PROVE  (Before(c, a) <=> Before(c, b)) /\ (Before(a, c) <=> Before(b, c))
BY DEF SameLine, Before

\* One more message at the end.
LEMMA SortedAppend ==
  ASSUME NEW s \in Seq(Message), NEW m \in Message, Sorted(s),
         \A i \in 1 .. Len(s) : Before(s[i], m)
  PROVE  Sorted(Append(s, m))
<1> DEFINE t == Append(s, m)
<1>1. /\ Len(s) \in Nat /\ DOMAIN s = 1 .. Len(s) /\ DOMAIN t = 1 .. Len(s) + 1
      /\ t[Len(s) + 1] = m /\ \A i \in 1 .. Len(s) : t[i] = s[i]
  BY AppendProperties
<1> HIDE DEF t
<1>2. SUFFICES ASSUME NEW i \in DOMAIN t, NEW j \in DOMAIN t, i < j PROVE Before(t[i], t[j])
  BY DEF Sorted, t
<1>3. i \in 1 .. Len(s) /\ t[i] = s[i]
  BY <1>1, <1>2
<1>4. CASE j = Len(s) + 1
  BY <1>1, <1>3, <1>4
<1>5. CASE j # Len(s) + 1
  <2>1. j \in 1 .. Len(s) /\ t[j] = s[j]
    BY <1>1, <1>5
  <2>2. QED
    BY <1>1, <1>2, <1>3, <2>1 DEF Sorted
<1>6. QED
  BY <1>4, <1>5

LEMMA AppendPrecedes ==
  ASSUME NEW s \in Seq(Message), NEW t \in Seq(Message), NEW m \in Message, Precedes(s, t),
         \A j \in 1 .. Len(t) : Before(m, t[j])
  PROVE  Precedes(Append(s, m), t)
<1> DEFINE u == Append(s, m)
<1>1. /\ Len(s) \in Nat /\ DOMAIN s = 1 .. Len(s) /\ DOMAIN u = 1 .. Len(s) + 1
      /\ u[Len(s) + 1] = m /\ \A i \in 1 .. Len(s) : u[i] = s[i]
      /\ DOMAIN t = 1 .. Len(t)
  BY AppendProperties
<1> HIDE DEF u
<1>2. SUFFICES ASSUME NEW i \in DOMAIN u, NEW j \in DOMAIN t PROVE Before(u[i], t[j])
  BY DEF Precedes, u
<1>3. CASE i = Len(s) + 1
  BY <1>1, <1>3
<1>4. CASE i # Len(s) + 1
  <2>1. i \in DOMAIN s /\ u[i] = s[i]
    BY <1>1, <1>4
  <2>2. QED
    BY <2>1 DEF Precedes
<1>5. QED
  BY <1>3, <1>4

LEMMA PrecedesAppend ==
  ASSUME NEW s \in Seq(Message), NEW t \in Seq(Message), NEW m \in Message, Precedes(s, t),
         \A i \in 1 .. Len(s) : Before(s[i], m)
  PROVE  Precedes(s, Append(t, m))
<1> DEFINE u == Append(t, m)
<1>1. /\ Len(t) \in Nat /\ DOMAIN t = 1 .. Len(t) /\ DOMAIN u = 1 .. Len(t) + 1
      /\ u[Len(t) + 1] = m /\ \A i \in 1 .. Len(t) : u[i] = t[i]
      /\ DOMAIN s = 1 .. Len(s)
  BY AppendProperties
<1> HIDE DEF u
<1>2. SUFFICES ASSUME NEW i \in DOMAIN s, NEW j \in DOMAIN u PROVE Before(s[i], u[j])
  BY DEF Precedes, u
<1>3. CASE j = Len(t) + 1
  BY <1>1, <1>3
<1>4. CASE j # Len(t) + 1
  <2>1. j \in DOMAIN t /\ u[j] = t[j]
    BY <1>1, <1>4
  <2>2. QED
    BY <2>1 DEF Precedes
<1>5. QED
  BY <1>3, <1>4

\* One sequence after another.
LEMMA ConcatIndex ==
  ASSUME NEW s \in Seq(Message), NEW t \in Seq(Message), NEW i \in DOMAIN (s \o t)
  PROVE  \/ i \in DOMAIN s /\ (s \o t)[i] = s[i]
         \/ i - Len(s) \in DOMAIN t /\ (s \o t)[i] = t[i - Len(s)] /\ i > Len(s)
<1>1. /\ Len(s) \in Nat /\ Len(t) \in Nat /\ DOMAIN s = 1 .. Len(s) /\ DOMAIN t = 1 .. Len(t)
      /\ Len(s \o t) = Len(s) + Len(t) /\ DOMAIN (s \o t) = 1 .. Len(s \o t)
      /\ \A k \in 1 .. Len(s) + Len(t) :
           (s \o t)[k] = IF k <= Len(s) THEN s[k] ELSE t[k - Len(s)]
  BY ConcatProperties
<1>2. QED
  BY <1>1

LEMMA SortedConcat ==
  ASSUME NEW s \in Seq(Message), NEW t \in Seq(Message), Sorted(s), Sorted(t), Precedes(s, t)
  PROVE  Sorted(s \o t)
<1> DEFINE u == s \o t
<1> SUFFICES ASSUME NEW i \in DOMAIN u, NEW j \in DOMAIN u, i < j PROVE Before(u[i], u[j])
  BY DEF Sorted
<1>1. \/ i \in DOMAIN s /\ u[i] = s[i]
      \/ i - Len(s) \in DOMAIN t /\ u[i] = t[i - Len(s)] /\ i > Len(s)
  BY ConcatIndex
<1>2. \/ j \in DOMAIN s /\ u[j] = s[j]
      \/ j - Len(s) \in DOMAIN t /\ u[j] = t[j - Len(s)] /\ j > Len(s)
  BY ConcatIndex
<1>3. DOMAIN s = 1 .. Len(s) /\ Len(s) \in Nat /\ i \in Int /\ j \in Int
  BY ConcatProperties
<1> HIDE DEF u
<1>4. CASE i \in DOMAIN s /\ u[i] = s[i] /\ j \in DOMAIN s /\ u[j] = s[j]
  BY <1>4 DEF Sorted
<1>5. CASE i \in DOMAIN s /\ u[i] = s[i] /\ j - Len(s) \in DOMAIN t /\ u[j] = t[j - Len(s)]
  BY <1>5 DEF Precedes
<1>6. CASE i - Len(s) \in DOMAIN t /\ u[i] = t[i - Len(s)] /\ j - Len(s) \in DOMAIN t
           /\ u[j] = t[j - Len(s)]
  <2>1. i - Len(s) < j - Len(s)
    BY <1>3
  <2>2. QED
    BY <1>6, <2>1 DEF Sorted
<1>7. QED
  BY <1>1, <1>2, <1>3, <1>4, <1>5, <1>6

LEMMA ConcatPrecedes ==
  ASSUME NEW s \in Seq(Message), NEW t \in Seq(Message), NEW u \in Seq(Message),
         Precedes(s, u), Precedes(t, u)
  PROVE  Precedes(s \o t, u)
<1> SUFFICES ASSUME NEW i \in DOMAIN (s \o t), NEW j \in DOMAIN u PROVE Before((s \o t)[i], u[j])
  BY DEF Precedes
<1>1. QED
  BY ConcatIndex DEF Precedes

\* The first message, and the rest.
LEMMA SortedTail ==
  ASSUME NEW t \in Seq(Message), t # << >>, Sorted(t)
  PROVE  /\ Sorted(Tail(t)) /\ Tail(t) \in Seq(Message) /\ Head(t) = t[1] /\ 1 \in DOMAIN t
         /\ \A j \in 1 .. Len(Tail(t)) : Before(Head(t), Tail(t)[j])
         /\ \A j \in 1 .. Len(Tail(t)) : j + 1 \in DOMAIN t /\ Tail(t)[j] = t[j + 1]
<1>1. /\ Len(t) \in Nat /\ Len(t) >= 1 /\ Tail(t) \in Seq(Message) /\ Head(t) = t[1]
      /\ Len(Tail(t)) = Len(t) - 1 /\ DOMAIN t = 1 .. Len(t)
      /\ DOMAIN Tail(t) = 1 .. Len(Tail(t))
      /\ \A j \in 1 .. Len(Tail(t)) : Tail(t)[j] = t[j + 1]
  BY HeadTailProperties, EmptySeq
<1>2. \A j \in 1 .. Len(Tail(t)) : j + 1 \in DOMAIN t /\ 1 < j + 1 /\ 1 \in DOMAIN t
  BY <1>1
<1>3. \A i, j \in 1 .. Len(Tail(t)) : i < j => i + 1 < j + 1
  BY <1>1
<1>4. Sorted(Tail(t))
  BY <1>1, <1>2, <1>3 DEF Sorted
<1>5. QED
  BY <1>1, <1>2, <1>4 DEF Sorted

LEMMA PrecedesTail ==
  ASSUME NEW s, NEW t \in Seq(Message), t # << >>, Precedes(s, t), Sorted(t)
  PROVE  Precedes(s, Tail(t)) /\ \A i \in DOMAIN s : Before(s[i], Head(t))
<1>1. DOMAIN Tail(t) = 1 .. Len(Tail(t))
  BY SortedTail
<1>2. QED
  BY <1>1, SortedTail DEF Precedes

\* Nothing comes before or after the empty sequence.
LEMMA EmptyOrdered ==
  ASSUME NEW s
  PROVE  Sorted(<< >>) /\ Precedes(<< >>, s) /\ Precedes(s, << >>)
BY DEF Sorted, Precedes

-----------------------------------------------------------------------------
(* The invariant *)

\* A relayed message carries its child's name and was counted.
Fits(m) ==
  m.kind # "result" =>
    m.name = child[m.from].name /\ 1 <= m.seq /\ m.seq <= Read(m.from, m.pipe)

\* The same of a message now, and of its child after the step.
FitsNext(m) ==
  m.kind # "result" =>
    /\ m.name = child'[m.from].name
    /\ 1 <= m.seq
    /\ m.seq <= IF m.pipe = "stdout" THEN task'[m.from].out ELSE task'[m.from].err

Placed ==
  /\ \A i \in DOMAIN channel : Fits(channel[i])
  /\ \A i \in DOMAIN relay_rx : Fits(relay_rx[i])
  /\ \A n \in Names : \A i \in DOMAIN procs[n].buffer :
       Fits(procs[n].buffer[i]) /\ procs[n].buffer[i].name = n

OrderInv == TypeInv /\ SubscribedIsDrained /\ Placed /\ InOrder

LEMMA OrderTypes ==
  ASSUME TypeInv
  PROVE  /\ channel \in Seq(Message) /\ relay_rx \in Seq(Output) /\ relay_rx \in Seq(Message)
         /\ \A n \in Names : procs[n].buffer \in Seq(Output) /\ procs[n].buffer \in Seq(Message)
         /\ procs \in [Names -> Entry]
         /\ \A m \in Output : /\ m.kind # "result" /\ m.name \in Names /\ m.from \in Pids
                              /\ m.pipe \in Pipes /\ m.seq \in Nat
<1>1. /\ channel \in Seq(Message) /\ relay_rx \in Seq(Output) /\ procs \in [Names -> Entry]
  BY DEF TypeInv, TypeOK, MessagesOK, TableOK
<1>2. \A n \in Names : procs[n].buffer \in Seq(Output)
  BY <1>1 DEF Entry
<1>3. \A s \in Seq(Output) : s \in Seq(Message)
  BY DEF Message
<1>4. QED
  BY <1>1, <1>2, <1>3 DEF Output

\* What fits goes on to fit: names of children stay and counts grow.
LEMMA FitsStays ==
  ASSUME TypeInv, Next, NEW m \in Message, Fits(m)
  PROVE  FitsNext(m)
<1>1. CASE m \in Output
  <2>1. m.from \in Pids /\ m.pipe \in Pipes /\ m.name \in Names /\ m.seq \in Nat
    BY <1>1, OrderTypes
  <2>2. m.name = child[m.from].name /\ 1 <= m.seq /\ m.seq <= Read(m.from, m.pipe)
    BY <1>1, OrderTypes DEF Fits
  <2>3. child'[m.from].name = m.name
    BY <2>1, <2>2, OsStep, NoneAssumption DEF OsMove, TypeInv, Born
  <2>4. Read(m.from, m.pipe) <= Read(m.from, m.pipe)'
    BY <2>1, ReadGrows
  <2>5. Read(m.from, m.pipe) \in Nat /\ Read(m.from, m.pipe)' \in Nat
    BY <2>1, OsStep DEF OsMove, OsOK, TaskRec, TypeInv, TypeOK, Read
  <2>6. QED
    BY <2>1, <2>2, <2>3, <2>4, <2>5 DEF FitsNext, Read
<1>2. CASE m \in Result
  BY <1>2 DEF FitsNext, Result
<1>3. QED
  BY <1>1, <1>2 DEF Message

\* Messages of two names are of two children.
LEMMA OtherName ==
  ASSUME NEW a, NEW b, Fits(a), Fits(b), a.name # b.name
  PROVE  Before(a, b)
BY DEF Fits, Before

\* Whatever has been counted comes before what is counted next.
LEMMA BeforeNext ==
  ASSUME TypeInv, NEW a \in Message, NEW m \in Output, Fits(a),
         m.seq = Read(m.from, m.pipe) + 1
  PROVE  Before(a, m)
<1>1. CASE a \in Result
  BY <1>1, BeforeResult, OrderTypes DEF Before, Result
<1>2. CASE a \in Output
  <2>1. a.seq \in Nat /\ a.from \in Pids /\ a.pipe \in Pipes /\ m.from \in Pids /\ m.pipe \in Pipes
    BY <1>2, OrderTypes
  <2>2. Read(a.from, a.pipe) \in Nat /\ a.seq <= Read(a.from, a.pipe)
    BY <1>2, <2>1, OrderTypes DEF Read, Fits, TypeInv, TypeOK, OsOK, TaskRec
  <2>3. QED
    BY <2>1, <2>2 DEF Before
<1>3. QED
  BY <1>1, <1>2 DEF Message

\* The shapes keep everything in its place.
LEMMA PlacedStep == TypeInv /\ Placed /\ Next => Placed'
<1> SUFFICES ASSUME TypeInv, Placed, Next PROVE Placed'
  OBVIOUS
<1>0. /\ channel \in Seq(Message) /\ relay_rx \in Seq(Output) /\ relay_rx \in Seq(Message)
      /\ procs \in [Names -> Entry] /\ DOMAIN channel = 1 .. Len(channel)
      /\ \A n \in Names : procs[n].buffer \in Seq(Output) /\ procs[n].buffer \in Seq(Message)
  BY OrderTypes
<1>1. \A i \in DOMAIN channel : FitsNext(channel[i])
  BY <1>0, FitsStays DEF Placed
<1>2. \A i \in DOMAIN relay_rx : FitsNext(relay_rx[i])
  BY <1>0, FitsStays DEF Placed
<1>3. \A n \in Names : \A i \in DOMAIN procs[n].buffer :
        FitsNext(procs[n].buffer[i]) /\ procs[n].buffer[i].name = n
  BY <1>0, FitsStays DEF Placed
<1>4. SUFFICES /\ \A i \in DOMAIN channel' : FitsNext(channel'[i])
               /\ \A i \in DOMAIN relay_rx' : FitsNext(relay_rx'[i])
               /\ \A n \in Names : \A i \in DOMAIN procs'[n].buffer :
                    FitsNext(procs'[n].buffer[i]) /\ procs'[n].buffer[i].name = n
  BY DEF Placed, Fits, FitsNext, Read
<1>5. ASSUME NEW s \in Seq(Message), NEW m \in Message, NEW i \in DOMAIN Append(s, m)
      PROVE  \/ i \in DOMAIN s /\ Append(s, m)[i] = s[i]
             \/ Append(s, m)[i] = m
  <2>1. /\ Len(s) \in Nat /\ DOMAIN s = 1 .. Len(s) /\ Len(Append(s, m)) = Len(s) + 1
        /\ DOMAIN Append(s, m) = 1 .. Len(Append(s, m))
        /\ Append(s, m)[Len(s) + 1] = m /\ \A k \in 1 .. Len(s) : Append(s, m)[k] = s[k]
    BY AppendProperties
  <2>2. i \in 1 .. Len(s) \/ i = Len(s) + 1
    BY <2>1
  <2>3. QED
    BY <2>1, <2>2
<1>6. \A r \in Result : FitsNext(r)
  BY DEF FitsNext, Result
<1>7. CASE Quiet
  <2>1. \A i \in DOMAIN channel' : FitsNext(channel'[i])
    <3>1. CASE channel' = << >>
      BY <3>1
    <3>2. CASE UNCHANGED channel
      BY <1>1, <3>2
    <3>3. ASSUME NEW r \in Result, channel' = Append(channel, r)
          PROVE  \A i \in DOMAIN channel' : FitsNext(channel'[i])
      <4>1. r \in Message
        BY DEF Message
      <4>2. SUFFICES ASSUME NEW i \in DOMAIN Append(channel, r)
                     PROVE  FitsNext(Append(channel, r)[i])
        BY <3>3
      <4>3. \/ i \in DOMAIN channel /\ Append(channel, r)[i] = channel[i]
            \/ Append(channel, r)[i] = r
        BY <1>0, <1>5, <4>1
      <4>4. QED
        BY <1>1, <1>6, <4>3
    <3>4. QED
      BY <1>7, <3>1, <3>2, <3>3 DEF Quiet
  <2>2. ASSUME NEW n \in Names, NEW i \in DOMAIN procs'[n].buffer
        PROVE  FitsNext(procs'[n].buffer[i]) /\ procs'[n].buffer[i].name = n
    <3>1. procs'[n].buffer # << >>
      BY <2>2
    <3>2. procs'[n].buffer = procs[n].buffer
      BY <1>7, <3>1 DEF Quiet, BufferStays
    <3>3. QED
      BY <1>3, <2>2, <3>2
  <2>3. QED
    BY <1>2, <1>7, <2>1, <2>2 DEF Quiet
<1>8. CASE Replays
  <2>1. PICK n \in Names, r \in Result :
          /\ procs' = [procs EXCEPT ![n] = Drained(procs[n])]
          /\ channel' = IF writer THEN channel \o Append(procs[n].buffer, r) ELSE channel
    BY <1>8 DEF Replays
  <2> DEFINE b == Append(procs[n].buffer, r)
  <2>2. r \in Message /\ b \in Seq(Message)
    BY <1>0, AppendProperties DEF Message
  <2>3. \A i \in DOMAIN b : FitsNext(b[i])
    BY <1>0, <1>3, <1>5, <1>6, <2>2
  <2>4. \A i \in DOMAIN channel' : FitsNext(channel'[i])
    <3> HIDE DEF b
    <3>1. channel' = channel \o b \/ channel' = channel
      BY <2>1 DEF b
    <3>2. ASSUME NEW i \in DOMAIN (channel \o b) PROVE FitsNext((channel \o b)[i])
      <4>1. \/ i \in DOMAIN channel /\ (channel \o b)[i] = channel[i]
            \/ i - Len(channel) \in DOMAIN b /\ (channel \o b)[i] = b[i - Len(channel)]
        BY <1>0, <2>2, ConcatIndex
      <4>2. QED
        BY <1>1, <2>3, <4>1
    <3>3. QED
      BY <1>1, <3>1, <3>2
  <2>5. Drained(procs[n]).buffer = << >>
    BY <1>0 DEF Drained, Entry
  <2>6. ASSUME NEW k \in Names, NEW i \in DOMAIN procs'[k].buffer
        PROVE  FitsNext(procs'[k].buffer[i]) /\ procs'[k].buffer[i].name = k
    BY <1>0, <1>3, <2>1, <2>5, <2>6
  <2>7. QED
    BY <1>2, <1>8, <2>4, <2>6 DEF Replays
<1>9. CASE Handles
  <2>1. PICK m \in Output :
          /\ SameLine(m, Head(relay_rx))
          /\ \/ UNCHANGED channel /\ SameBuffers
             \/ channel' = Append(channel, m) /\ SameBuffers
             \/ /\ UNCHANGED channel
                /\ procs'[m.name].buffer = Append(procs[m.name].buffer, m)
                /\ \A n \in Names \ {m.name} : procs'[n].buffer = procs[n].buffer
    BY <1>9 DEF Handles
  <2>2. /\ relay_rx # << >> /\ relay_rx' = Tail(relay_rx) /\ Head(relay_rx) = relay_rx[1]
        /\ 1 \in DOMAIN relay_rx /\ DOMAIN relay_rx' = 1 .. Len(relay_rx')
        /\ \A j \in 1 .. Len(relay_rx') : j + 1 \in DOMAIN relay_rx /\ relay_rx'[j] = relay_rx[j + 1]
    <3>1. relay_rx # << >> /\ relay_rx' = Tail(relay_rx)
      BY <1>9 DEF Handles
    <3>2. /\ Len(relay_rx) \in Nat /\ Len(relay_rx) >= 1 /\ DOMAIN relay_rx = 1 .. Len(relay_rx)
          /\ relay_rx' \in Seq(Message) /\ Len(relay_rx') = Len(relay_rx) - 1
          /\ Head(relay_rx) = relay_rx[1]
          /\ \A j \in 1 .. Len(relay_rx') : relay_rx'[j] = relay_rx[j + 1]
      BY <1>0, <3>1, HeadTailProperties, EmptySeq
    <3>3. QED
      BY <3>1, <3>2
  <2>3. \A i \in DOMAIN relay_rx' : FitsNext(relay_rx'[i])
    BY <1>2, <2>2
  <2>4. FitsNext(m) /\ m \in Message /\ m.name \in Names
    BY <1>2, <2>1, <2>2, OrderTypes DEF FitsNext, SameLine, Message
  <2>5. \A i \in DOMAIN channel' : FitsNext(channel'[i])
    <3>1. ASSUME NEW i \in DOMAIN Append(channel, m) PROVE FitsNext(Append(channel, m)[i])
      <4>1. \/ i \in DOMAIN channel /\ Append(channel, m)[i] = channel[i]
            \/ Append(channel, m)[i] = m
        BY <1>0, <1>5, <2>4
      <4>2. QED
        BY <1>1, <2>4, <4>1
    <3>2. QED
      BY <1>1, <2>1, <3>1
  <2>6. ASSUME NEW k \in Names, NEW i \in DOMAIN procs'[k].buffer
        PROVE  FitsNext(procs'[k].buffer[i]) /\ procs'[k].buffer[i].name = k
    <3>1. CASE procs'[k].buffer = procs[k].buffer
      BY <1>3, <2>6, <3>1
    <3>2. CASE procs'[k].buffer # procs[k].buffer
      <4>1. k = m.name /\ procs'[k].buffer = Append(procs[k].buffer, m)
        BY <2>1, <3>2 DEF SameBuffers
      <4>2. QED
        BY <1>0, <1>3, <1>5, <2>4, <2>6, <4>1
    <3>3. QED
      BY <3>1, <3>2
  <2>7. QED
    BY <2>3, <2>5, <2>6
<1>10. CASE Relays
  <2>1. PICK m \in Output : /\ relay_rx' = Append(relay_rx, m) /\ m.name = child[m.from].name
                            /\ m.seq = Read(m.from, m.pipe) + 1
                            /\ Read(m.from, m.pipe)' = m.seq
    BY <1>10 DEF Relays
  <2>2. /\ m \in Message /\ m.from \in Pids /\ m.name \in Names /\ m.seq \in Nat
    BY OrderTypes DEF Message
  <2>3. child'[m.from].name = m.name
    BY <2>1, <2>2, OsStep, NoneAssumption DEF OsMove, TypeInv, Born
  <2>4. FitsNext(m)
    <3>1. m.from \in Pids /\ m.pipe \in Pipes /\ Read(m.from, m.pipe) \in Nat
      BY OrderTypes DEF Read, TypeInv, TypeOK, OsOK, TaskRec
    <3>2. m.seq >= 1
      BY <2>1, <3>1
    <3>3. QED
      BY <2>1, <2>2, <2>3, <3>2 DEF FitsNext, Read
  <2>5. \A i \in DOMAIN relay_rx' : FitsNext(relay_rx'[i])
    BY <1>0, <1>2, <1>5, <2>1, <2>2, <2>4
  <2>6. QED
    BY <1>1, <1>3, <1>10, <2>5 DEF Relays
<1>11. QED
  BY <1>7, <1>8, <1>9, <1>10, ShapeStep

\* And in order.
LEMMA InOrderStep == OrderInv /\ Next => InOrder'
<1> SUFFICES ASSUME OrderInv, Next PROVE InOrder'
  OBVIOUS
<1>0. /\ TypeInv /\ Placed /\ channel \in Seq(Message)
      /\ relay_rx \in Seq(Output) /\ relay_rx \in Seq(Message) /\ procs \in [Names -> Entry]
      /\ \A n \in Names : procs[n].buffer \in Seq(Output) /\ procs[n].buffer \in Seq(Message)
  BY OrderTypes DEF OrderInv
<1>1. /\ Sorted(channel) /\ Sorted(relay_rx) /\ Precedes(channel, relay_rx)
      /\ \A n \in Names : /\ Sorted(procs[n].buffer)
                          /\ Precedes(channel, procs[n].buffer)
                          /\ Precedes(procs[n].buffer, relay_rx)
  BY DEF OrderInv, InOrder
<1>2. CASE Quiet
  <2>1. /\ Sorted(channel') /\ Precedes(channel', relay_rx)
        /\ \A n \in Names : Precedes(channel', procs[n].buffer)
    <3>1. CASE channel' = << >>
      BY <3>1, EmptyOrdered
    <3>2. CASE UNCHANGED channel
      BY <1>1, <3>2
    <3>3. ASSUME NEW r \in Result, channel' = Append(channel, r)
          PROVE  /\ Sorted(channel') /\ Precedes(channel', relay_rx)
                 /\ \A n \in Names : Precedes(channel', procs[n].buffer)
      <4>1. r \in Message
        BY DEF Message
      <4>2. QED
        BY <1>0, <1>1, <3>3, <4>1, BeforeResult, SortedAppend, AppendPrecedes
    <3>4. QED
      BY <1>2, <3>1, <3>2, <3>3 DEF Quiet
  <2>2. UNCHANGED relay_rx
        /\ \A n \in Names : procs'[n].buffer = procs[n].buffer \/ procs'[n].buffer = << >>
    BY <1>2 DEF Quiet, BufferStays
  <2>3. ASSUME NEW n \in Names
        PROVE  /\ Sorted(procs'[n].buffer) /\ Precedes(channel', procs'[n].buffer)
               /\ Precedes(procs'[n].buffer, relay_rx')
    <3>1. CASE procs'[n].buffer = procs[n].buffer
      BY <1>1, <2>1, <2>2, <3>1
    <3>2. CASE procs'[n].buffer = << >>
      BY <3>2, EmptyOrdered
    <3>3. QED
      BY <2>2, <3>1, <3>2
  <2>4. QED
    BY <1>1, <2>1, <2>2, <2>3 DEF InOrder
<1>3. CASE Replays
  <2>1. PICK n \in Names, r \in Result :
          /\ procs' = [procs EXCEPT ![n] = Drained(procs[n])]
          /\ channel' = IF writer THEN channel \o Append(procs[n].buffer, r) ELSE channel
    BY <1>3 DEF Replays
  <2> DEFINE b == Append(procs[n].buffer, r)
  <2>2. r \in Message /\ b \in Seq(Message)
    BY <1>0, AppendProperties DEF Message
  <2>3. Sorted(b) /\ Precedes(channel, b) /\ Precedes(b, relay_rx)
    BY <1>0, <1>1, <2>2, BeforeResult, SortedAppend, PrecedesAppend, AppendPrecedes
  <2>4. ASSUME NEW k \in Names \ {n} PROVE Precedes(b, procs[k].buffer)
    <3>1. ASSUME NEW i \in DOMAIN procs[n].buffer, NEW j \in DOMAIN procs[k].buffer
          PROVE  Before(procs[n].buffer[i], procs[k].buffer[j])
      BY <1>0, OtherName DEF Placed
    <3>2. Precedes(procs[n].buffer, procs[k].buffer)
      BY <3>1 DEF Precedes
    <3>3. QED
      BY <1>0, <2>2, <3>2, BeforeResult, AppendPrecedes
  <2>5. channel' = channel \o b \/ channel' = channel
    BY <2>1
  <2> HIDE DEF b
  <2>6. /\ Sorted(channel') /\ Precedes(channel', relay_rx)
        /\ \A k \in Names \ {n} : Precedes(channel', procs[k].buffer)
    BY <1>0, <1>1, <2>2, <2>3, <2>4, <2>5, SortedConcat, ConcatPrecedes
  <2>7. procs'[n].buffer = << >> /\ \A k \in Names \ {n} : procs'[k] = procs[k]
    BY <1>0, <2>1 DEF Drained, Entry
  <2>8. ASSUME NEW k \in Names
        PROVE  /\ Sorted(procs'[k].buffer) /\ Precedes(channel', procs'[k].buffer)
               /\ Precedes(procs'[k].buffer, relay_rx)
    BY <1>1, <2>6, <2>7, EmptyOrdered
  <2>9. QED
    BY <1>1, <1>3, <2>6, <2>8 DEF InOrder, Replays
<1>4. CASE Handles
  <2>1. PICK m \in Output :
          /\ SameLine(m, Head(relay_rx))
          /\ \/ UNCHANGED channel /\ SameBuffers
             \/ procs[m.name].subscribed /\ channel' = Append(channel, m) /\ SameBuffers
             \/ /\ UNCHANGED channel
                /\ procs'[m.name].buffer = Append(procs[m.name].buffer, m)
                /\ \A n \in Names \ {m.name} : procs'[n].buffer = procs[n].buffer
    BY <1>4 DEF Handles
  <2>2. relay_rx # << >> /\ relay_rx' = Tail(relay_rx)
    BY <1>4 DEF Handles
  <2>3. /\ Sorted(relay_rx') /\ relay_rx' \in Seq(Message)
        /\ Precedes(channel, relay_rx') /\ \A n \in Names : Precedes(procs[n].buffer, relay_rx')
    BY <1>0, <1>1, <2>2, SortedTail, PrecedesTail
  <2>4. /\ \A i \in DOMAIN channel : Before(channel[i], m)
        /\ \A n \in Names : \A i \in DOMAIN procs[n].buffer : Before(procs[n].buffer[i], m)
    <3>1. \A i \in DOMAIN channel : Before(channel[i], Head(relay_rx))
      BY <1>0, <1>1, <2>2, PrecedesTail
    <3>2. \A n \in Names : \A i \in DOMAIN procs[n].buffer : Before(procs[n].buffer[i], Head(relay_rx))
      BY <1>0, <1>1, <2>2, PrecedesTail
    <3>3. QED
      BY <2>1, <3>1, <3>2, BeforeSame
  <2>5. \A j \in 1 .. Len(relay_rx') : Before(m, relay_rx'[j])
    BY <1>0, <1>1, <2>1, <2>2, SortedTail, BeforeSame
  <2>6. m \in Message /\ m.name \in Names
    BY <1>0, OrderTypes DEF Message
  <2>7. ASSUME NEW n \in Names \ {m.name}, NEW i \in 1 .. Len(procs[n].buffer)
        PROVE  Before(m, procs[n].buffer[i])
    <3>1. Head(relay_rx) = relay_rx[1] /\ 1 \in DOMAIN relay_rx
      BY <1>0, <1>1, <2>2, SortedTail
    <3>2. Fits(m)
      BY <1>0, <2>1, <3>1 DEF Placed, Fits, SameLine
    <3>3. Fits(procs[n].buffer[i]) /\ procs[n].buffer[i].name = n
      BY <1>0, <2>7 DEF Placed
    <3>4. QED
      BY <3>2, <3>3, OtherName
  <2>8. CASE UNCHANGED channel /\ SameBuffers
    BY <1>1, <2>3, <2>8 DEF InOrder, SameBuffers
  <2>9. CASE procs[m.name].subscribed /\ channel' = Append(channel, m) /\ SameBuffers
    <3>1. procs[m.name].buffer = << >>
      BY <2>6, <2>9 DEF OrderInv, SubscribedIsDrained
    <3>2. Sorted(channel') /\ Precedes(channel', relay_rx')
      BY <1>0, <1>1, <2>3, <2>4, <2>5, <2>6, <2>9, SortedAppend, AppendPrecedes
    <3>3. ASSUME NEW n \in Names PROVE Precedes(channel', procs[n].buffer)
      <4>1. CASE n = m.name
        BY <3>1, <4>1, EmptyOrdered
      <4>2. CASE n # m.name
        BY <1>0, <1>1, <2>6, <2>7, <2>9, <4>2, AppendPrecedes
      <4>3. QED
        BY <4>1, <4>2
    <3>4. QED
      BY <1>1, <2>3, <2>9, <3>2, <3>3 DEF InOrder, SameBuffers
  <2>10. CASE /\ UNCHANGED channel
              /\ procs'[m.name].buffer = Append(procs[m.name].buffer, m)
              /\ \A n \in Names \ {m.name} : procs'[n].buffer = procs[n].buffer
    <3> DEFINE b == procs[m.name].buffer
    <3>0. /\ b \in Seq(Message) /\ Sorted(b) /\ Precedes(channel, b) /\ Precedes(b, relay_rx')
          /\ \A i \in 1 .. Len(b) : Before(b[i], m)
          /\ \A i \in 1 .. Len(channel) : Before(channel[i], m)
      BY <1>0, <1>1, <2>3, <2>4, <2>6
    <3> HIDE DEF b
    <3>1. Sorted(Append(b, m))
      BY <2>6, <3>0, SortedAppend
    <3>2. Precedes(channel, Append(b, m))
      BY <1>0, <2>6, <3>0, PrecedesAppend
    <3>3. Precedes(Append(b, m), relay_rx')
      BY <2>3, <2>5, <2>6, <3>0, AppendPrecedes
    <3>4. QED
      BY <1>1, <2>3, <2>6, <2>10, <3>1, <3>2, <3>3 DEF InOrder, b
  <2>11. QED
    BY <2>1, <2>8, <2>9, <2>10
<1>5. CASE Relays
  <2>1. PICK m \in Output : /\ relay_rx' = Append(relay_rx, m)
                            /\ m.seq = Read(m.from, m.pipe) + 1
    BY <1>5 DEF Relays
  <2>2. m \in Message
    BY DEF Message
  <2>3. \A i \in 1 .. Len(relay_rx) : Before(relay_rx[i], m)
    BY <1>0, <2>1, BeforeNext DEF Placed
  <2>4. \A i \in 1 .. Len(channel) : Before(channel[i], m)
    BY <1>0, <2>1, BeforeNext DEF Placed
  <2>5. \A n \in Names : \A i \in 1 .. Len(procs[n].buffer) : Before(procs[n].buffer[i], m)
    BY <1>0, <2>1, BeforeNext DEF Placed
  <2>6. Sorted(relay_rx') /\ Precedes(channel, relay_rx')
    BY <1>0, <1>1, <2>1, <2>2, <2>3, <2>4, SortedAppend, PrecedesAppend
  <2>7. \A n \in Names : Precedes(procs[n].buffer, relay_rx')
    BY <1>0, <1>1, <2>1, <2>2, <2>5, PrecedesAppend
  <2>8. QED
    BY <1>1, <1>5, <2>6, <2>7 DEF InOrder, Relays
<1>6. QED
  BY <1>0, <1>2, <1>3, <1>4, <1>5, ShapeStep

\* OrderInv is inductive.
LEMMA OrderInvStep == OrderInv /\ [Next]_vars => OrderInv'
<1> SUFFICES ASSUME OrderInv, [Next]_vars PROVE OrderInv'
  OBVIOUS
<1>1. CASE Next
  BY <1>1, TypeInvStep, DrainedStep, PlacedStep, InOrderStep DEF OrderInv
<1>2. CASE UNCHANGED vars
  <2>1. TypeInv'
    BY TypeInvStep DEF OrderInv
  <2>2. UNCHANGED <<channel, relay_rx, procs, child, task, client_tx>>
    BY <1>2 DEF vars, session, os
  <2>3. SubscribedIsDrained' /\ InOrder'
    BY <2>2 DEF OrderInv, SubscribedIsDrained, InOrder
  <2>4. Placed'
    BY <2>2 DEF OrderInv, Placed, Fits, Read
  <2>5. QED
    BY <2>1, <2>3, <2>4 DEF OrderInv
<1>3. QED
  BY <1>1, <1>2

LEMMA InitOrderInv == Init => OrderInv
<1> SUFFICES ASSUME Init PROVE OrderInv
  OBVIOUS
<1>1. channel = << >> /\ relay_rx = << >> /\ \A n \in Names : procs[n].buffer = << >> /\ ~procs[n].subscribed
  BY DEF Init, Absent
<1>2. SubscribedIsDrained /\ InOrder
  BY <1>1, EmptyOrdered DEF SubscribedIsDrained, InOrder
<1>3. Placed
  BY <1>1 DEF Placed
<1>4. QED
  BY <1>2, <1>3, InitTypeInv DEF OrderInv

\* What a child wrote on a pipe reaches a client in the order it was written,
\* at most once, with its Exit last: the buffers, the subscriptions and the
\* channel never let a later line overtake an earlier one.
THEOREM OrderCorrect == Spec => []InOrder
<1>1. OrderInv => InOrder
  BY DEF OrderInv
<1>2. QED
  BY <1>1, InitOrderInv, OrderInvStep, PTL DEF Spec

-----------------------------------------------------------------------------
(*****************************************************************************)
(* What gets into a client's channel: losses, replays and results.  As for   *)
(* the order, the arguments are about the few ways in which a step moves     *)
(* messages.                                                                 *)
(*****************************************************************************)

-----------------------------------------------------------------------------
(* What a sequence holds *)

LEMMA OutputElement ==
  ASSUME NEW s \in Seq(Output), NEW k \in DOMAIN s
  PROVE  s[k].kind # "result"
<1>1. k \in 1 .. Len(s)
  BY LenProperties
<1>2. s[k] \in Output
  BY <1>1, ElementOfSeq
<1>3. QED
  BY <1>2 DEF Output

LEMMA HoldsAppend ==
  ASSUME NEW s \in Seq(Message), NEW x \in Message, NEW m
  PROVE  /\ Holds(s, m) => Holds(Append(s, x), m)
         /\ x \in Output /\ SameLine(x, m) => Holds(Append(s, x), m)
<1>1. /\ Len(s) \in Nat /\ DOMAIN s = 1 .. Len(s) /\ DOMAIN Append(s, x) = 1 .. Len(s) + 1
      /\ Append(s, x)[Len(s) + 1] = x /\ \A i \in 1 .. Len(s) : Append(s, x)[i] = s[i]
  BY AppendProperties
<1>2. DOMAIN s \subseteq DOMAIN Append(s, x) /\ Len(s) + 1 \in DOMAIN Append(s, x)
  BY <1>1
<1>3. Holds(s, m) => Holds(Append(s, x), m)
  BY <1>1, <1>2 DEF Holds
<1>4. x \in Output => x.kind # "result"
  BY DEF Output
<1>5. QED
  BY <1>1, <1>2, <1>3, <1>4 DEF Holds, SameLine

LEMMA HoldsConcat ==
  ASSUME NEW s \in Seq(Message), NEW t \in Seq(Message), NEW m
  PROVE  Holds(s \o t, m) <=> Holds(s, m) \/ Holds(t, m)
<1>1. /\ Len(s) \in Nat /\ Len(t) \in Nat /\ DOMAIN s = 1 .. Len(s) /\ DOMAIN t = 1 .. Len(t)
      /\ DOMAIN (s \o t) = 1 .. Len(s) + Len(t)
      /\ \A k \in 1 .. Len(s) + Len(t) :
           (s \o t)[k] = IF k <= Len(s) THEN s[k] ELSE t[k - Len(s)]
  BY ConcatProperties
<1>2. \A k \in DOMAIN s : k \in DOMAIN (s \o t) /\ (s \o t)[k] = s[k]
  BY <1>1
<1>3. \A k \in DOMAIN t : k + Len(s) \in DOMAIN (s \o t) /\ (s \o t)[k + Len(s)] = t[k]
  BY <1>1
<1>4. Holds(s \o t, m) => Holds(s, m) \/ Holds(t, m)
  <2>1. SUFFICES ASSUME NEW i \in DOMAIN (s \o t), (s \o t)[i].kind # "result",
                        (s \o t)[i].from = m.from, (s \o t)[i].pipe = m.pipe,
                        (s \o t)[i].seq = m.seq
                 PROVE  Holds(s, m) \/ Holds(t, m)
    BY DEF Holds
  <2>2. \/ i \in DOMAIN s /\ (s \o t)[i] = s[i]
        \/ i - Len(s) \in DOMAIN t /\ (s \o t)[i] = t[i - Len(s)]
    BY ConcatIndex
  <2>3. QED
    BY <2>1, <2>2 DEF Holds
<1>5. Holds(s, m) => Holds(s \o t, m)
  BY <1>2 DEF Holds
<1>6. Holds(t, m) => Holds(s \o t, m)
  BY <1>3 DEF Holds
<1>7. QED
  BY <1>4, <1>5, <1>6

LEMMA HoldsTail ==
  ASSUME NEW t \in Seq(Message), t # << >>, NEW m, Holds(t, m)
  PROVE  \/ Holds(Tail(t), m)
         \/ Head(t).from = m.from /\ Head(t).pipe = m.pipe /\ Head(t).seq = m.seq
<1>1. /\ Len(t) \in Nat /\ Len(t) >= 1 /\ Head(t) = t[1] /\ DOMAIN t = 1 .. Len(t)
      /\ Len(Tail(t)) = Len(t) - 1 /\ DOMAIN Tail(t) = 1 .. Len(Tail(t))
      /\ \A j \in 1 .. Len(Tail(t)) : Tail(t)[j] = t[j + 1]
  BY HeadTailProperties, EmptySeq
<1>2. PICK i \in DOMAIN t : /\ t[i].kind # "result" /\ t[i].from = m.from
                            /\ t[i].pipe = m.pipe /\ t[i].seq = m.seq
  BY DEF Holds
<1>3. CASE i = 1
  BY <1>1, <1>2, <1>3
<1>4. CASE i # 1
  <2>1. i - 1 \in DOMAIN Tail(t) /\ Tail(t)[i - 1] = t[i]
    BY <1>1, <1>4
  <2>2. QED
    BY <1>2, <2>1 DEF Holds
<1>5. QED
  BY <1>3, <1>4

-----------------------------------------------------------------------------
(* Nothing is lost *)

\* The line m of an entry's child, which is buffered or queued, stays so, or
\* is sent, or goes with a subscribe to a writer task that is dead.
LEMMA LineStays ==
  ASSUME OrderInv, Next, NEW n \in Names, Managed(n), procs'[n].pid = procs[n].pid,
         NEW m, m.from = procs[n].pid, Holds(procs[n].buffer, m) \/ Holds(relay_rx, m)
  PROVE  \/ Holds(procs'[n].buffer, m) \/ Holds(relay_rx', m)
         \/ writer /\ Holds(channel', m)
         \/ ~writer /\ procs'[n].subscribed /\ Holds(procs[n].buffer, m)
<1> DEFINE Goal == \/ Holds(procs'[n].buffer, m) \/ Holds(relay_rx', m)
                   \/ writer /\ Holds(channel', m)
                   \/ ~writer /\ procs'[n].subscribed /\ Holds(procs[n].buffer, m)
<1>0. /\ TypeInv /\ Placed /\ channel \in Seq(Message)
      /\ relay_rx \in Seq(Output) /\ relay_rx \in Seq(Message) /\ procs \in [Names -> Entry]
      /\ \A k \in Names : procs[k].buffer \in Seq(Output) /\ procs[k].buffer \in Seq(Message)
      /\ \A x \in Output : x.name \in Names /\ x \in Message
  BY OrderTypes DEF OrderInv, Message
<1>1. CASE Quiet
  BY <1>1 DEF Quiet, BufferStays
<1>2. CASE Replays
  <2>1. PICK k \in Names, r \in Result :
          /\ procs' = [procs EXCEPT ![k] = Drained(procs[k])]
          /\ channel' = IF writer THEN channel \o Append(procs[k].buffer, r) ELSE channel
    BY <1>2 DEF Replays
  <2>2. relay_rx' = relay_rx
    BY <1>2 DEF Replays
  <2>3. CASE k # n
    BY <1>0, <2>1, <2>2, <2>3
  <2>4. CASE k = n /\ Holds(procs[n].buffer, m)
    <3>1. procs'[n].subscribed
      BY <1>0, <2>1, <2>4 DEF Drained, Entry
    <3>2. r \in Message /\ Append(procs[n].buffer, r) \in Seq(Message)
      BY <1>0, AppendProperties DEF Message
    <3>3. Holds(channel \o Append(procs[n].buffer, r), m)
      BY <1>0, <2>4, <3>2, HoldsAppend, HoldsConcat
    <3>4. QED
      BY <2>1, <2>4, <3>1, <3>3
  <2>5. QED
    BY <2>2, <2>3, <2>4
<1>3. CASE Handles
  <2>1. PICK x \in Output :
          /\ SameLine(x, Head(relay_rx))
          /\ \/ ~Managed(x.name) /\ UNCHANGED channel /\ SameBuffers
             \/ writer /\ channel' = Append(channel, x) /\ SameBuffers
             \/ /\ procs'[x.name].buffer = Append(procs[x.name].buffer, x)
                /\ \A k \in Names \ {x.name} : procs'[k].buffer = procs[k].buffer
    BY <1>3 DEF Handles
  <2>2. relay_rx # << >> /\ relay_rx' = Tail(relay_rx)
    BY <1>3 DEF Handles
  <2>3. CASE Holds(procs[n].buffer, m)
    BY <1>0, <2>1, <2>3, HoldsAppend DEF SameBuffers
  <2>4. CASE Holds(relay_rx, m) /\ ~Holds(Tail(relay_rx), m)
    <3>1. Head(relay_rx).from = m.from /\ Head(relay_rx).pipe = m.pipe /\ Head(relay_rx).seq = m.seq
      BY <1>0, <2>2, <2>4, HoldsTail
    <3>2. Fits(Head(relay_rx)) /\ Head(relay_rx).kind # "result"
      <4>1. Head(relay_rx) = relay_rx[1] /\ 1 \in DOMAIN relay_rx
        BY <1>0, <2>2, HeadTailProperties, EmptySeq
      <4>2. QED
        BY <1>0, <2>2, <4>1, QueueHead, OrderTypes DEF Placed
    <3>3. x.name = n
      BY <1>0, <2>1, <3>1, <3>2 DEF Fits, SameLine, TypeInv, Owned
    <3>4. /\ x.from = m.from /\ x.pipe = m.pipe /\ x.seq = m.seq
      BY <2>1, <3>1 DEF SameLine
    <3>5. \A s \in Seq(Message) : Holds(Append(s, x), m)
      <4>1. \A s \in Seq(Message) : Holds(Append(s, x), x)
        BY <1>0, HoldsAppend DEF SameLine
      <4>2. QED
        BY <3>4, <4>1 DEF Holds
    <3>6. QED
      BY <1>0, <2>1, <3>3, <3>5
  <2>5. QED
    BY <2>2, <2>3, <2>4
<1>4. CASE Relays
  BY <1>0, <1>4, HoldsAppend DEF Relays
<1>5. QED
  BY <1>0, <1>1, <1>2, <1>3, <1>4, ShapeStep

-----------------------------------------------------------------------------
(* Replays *)

\* s has a replay of n.
Has(s, n) == \E j \in DOMAIN s : IsReplay(s[j]) /\ s[j].name = n

\* On a connection that is written to, whatever is subscribed was replayed.
Replayed == writer => \A n \in Names : procs[n].subscribed => Has(channel, n)

CountInv == OrderInv /\ ReplayIsCounted /\ Replayed

\* What ReplayIsCounted says of an answer, of a relayed message, and of all.
Counts(s, j) ==
  /\ s[j].replayed < j
  /\ \A i \in j - s[j].replayed .. j - 1 : s[i].kind # "result" /\ s[i].name = s[j].name

AskedFor(s, i) ==
  \E j \in DOMAIN s : /\ IsReplay(s[j]) /\ s[j].name = s[i].name /\ j - s[j].replayed <= i

AllCounted(s) ==
  /\ \A j \in DOMAIN s : IsReplay(s[j]) => Counts(s, j)
  /\ \A i \in DOMAIN s : s[i].kind # "result" => AskedFor(s, i)

\* u begins with s.
Extends(u, s) ==
  Len(s) <= Len(u) /\ \A i \in 1 .. Len(s) : u[i] = s[i]

\* What was sent stays counted when more is sent.
LEMMA CountedStays ==
  ASSUME NEW s \in Seq(Message), NEW u \in Seq(Message), Extends(u, s), AllCounted(s),
         NEW k \in 1 .. Len(s)
  PROVE  /\ k \in DOMAIN u
         /\ IsReplay(u[k]) => Counts(u, k)
         /\ u[k].kind # "result" => AskedFor(u, k)
<1>1. /\ Len(s) \in Nat /\ Len(u) \in Nat /\ DOMAIN s = 1 .. Len(s) /\ DOMAIN u = 1 .. Len(u)
      /\ k \in DOMAIN s /\ k \in DOMAIN u /\ DOMAIN s \subseteq DOMAIN u
      /\ \A i \in DOMAIN s : u[i] = s[i]
  BY LenProperties DEF Extends
<1>2. CASE IsReplay(u[k])
  <2>1. Counts(s, k) /\ s[k] = u[k] /\ s[k] \in Message
    BY <1>1, <1>2, ElementOfSeq DEF AllCounted
  <2>2. s[k].replayed \in Nat
    BY <1>2, <2>1 DEF IsReplay, Message, Output, Result
  <2>3. ASSUME NEW i \in k - s[k].replayed .. k - 1
        PROVE  u[i].kind # "result" /\ u[i].name = u[k].name
    <3>1. i \in 1 .. Len(s)
      BY <1>1, <2>1, <2>2, <2>3 DEF Counts
    <3>2. QED
      BY <1>1, <2>1, <2>3, <3>1 DEF Counts
  <2>4. QED
    BY <1>1, <1>2, <2>1, <2>3 DEF Counts, IsReplay
<1>3. CASE u[k].kind # "result"
  <2>1. AskedFor(s, k) /\ s[k] = u[k]
    BY <1>1, <1>3 DEF AllCounted
  <2>2. QED
    BY <1>1, <1>3, <2>1 DEF AskedFor, IsReplay
<1>4. QED
  BY <1>1, <1>2, <1>3 DEF IsReplay

LEMMA CountedAppend ==
  ASSUME NEW s \in Seq(Message), NEW m \in Message, AllCounted(s), ~IsReplay(m),
         m.kind # "result" => Has(s, m.name)
  PROVE  AllCounted(Append(s, m))
<1> DEFINE u == Append(s, m)
<1>1. /\ Len(s) \in Nat /\ DOMAIN s = 1 .. Len(s) /\ DOMAIN u = 1 .. Len(s) + 1 /\ u \in Seq(Message)
      /\ Len(u) = Len(s) + 1
      /\ u[Len(s) + 1] = m /\ \A i \in 1 .. Len(s) : u[i] = s[i]
  BY AppendProperties
<1> HIDE DEF u
<1>2. Extends(u, s)
  BY <1>1 DEF Extends
<1>3. ASSUME m.kind # "result" PROVE AskedFor(u, Len(s) + 1)
  <2>1. PICK j \in DOMAIN s : IsReplay(s[j]) /\ s[j].name = m.name
    BY <1>3 DEF Has
  <2>2. s[j].replayed \in Nat
    BY <2>1, ElementOfSeq DEF IsReplay, Message, Output, Result
  <2>3. j \in DOMAIN u /\ u[j] = s[j] /\ j - u[j].replayed <= Len(s) + 1
    BY <1>1, <2>2
  <2>4. QED
    BY <1>1, <2>1, <2>3 DEF AskedFor
<1>4. ASSUME NEW k \in DOMAIN u
      PROVE  /\ IsReplay(u[k]) => Counts(u, k)
             /\ u[k].kind # "result" => AskedFor(u, k)
  <2>1. CASE k = Len(s) + 1
    BY <1>1, <1>3, <2>1
  <2>2. CASE k # Len(s) + 1
    <3>1. k \in 1 .. Len(s)
      BY <1>1, <2>2
    <3>2. QED
      BY <1>1, <1>2, <3>1, CountedStays
  <2>3. QED
    BY <2>1, <2>2
<1>5. QED
  BY <1>4 DEF AllCounted, u

LEMMA CountedReplay ==
  ASSUME NEW s \in Seq(Message), NEW b \in Seq(Output), NEW r \in Result, AllCounted(s),
         IsReplay(r), r.replayed = Len(b), \A i \in DOMAIN b : b[i].name = r.name
  PROVE  /\ AllCounted(s \o Append(b, r))
         /\ \A n \in Names : n = r.name \/ Has(s, n) => Has(s \o Append(b, r), n)
<1> DEFINE t == Append(b, r)
           u == s \o t
           k0 == Len(s) + Len(b) + 1
<1>1. /\ Len(b) \in Nat /\ DOMAIN b = 1 .. Len(b) /\ t \in Seq(Message) /\ Len(t) = Len(b) + 1
      /\ t[Len(b) + 1] = r /\ \A i \in 1 .. Len(b) : t[i] = b[i]
  <2>1. b \in Seq(Message) /\ r \in Message
    BY DEF Message
  <2>2. QED
    BY <2>1, AppendProperties, LenProperties
<1> HIDE DEF t
<1>2. /\ Len(s) \in Nat /\ DOMAIN s = 1 .. Len(s) /\ u \in Seq(Message) /\ Len(u) = Len(s) + Len(t)
      /\ DOMAIN u = 1 .. Len(u)
      /\ \A i \in 1 .. Len(s) + Len(t) : u[i] = IF i <= Len(s) THEN s[i] ELSE t[i - Len(s)]
  <2>1. Len(s) \in Nat /\ DOMAIN s = 1 .. Len(s)
    BY LenProperties
  <2>2. u \in Seq(Message) /\ Len(u) = Len(s) + Len(t)
        /\ \A i \in 1 .. Len(s) + Len(t) : u[i] = IF i <= Len(s) THEN s[i] ELSE t[i - Len(s)]
    <3>1. /\ s \o t \in Seq(Message) /\ Len(s \o t) = Len(s) + Len(t)
          /\ \A i \in 1 .. Len(s) + Len(t) :
               (s \o t)[i] = IF i <= Len(s) THEN s[i] ELSE t[i - Len(s)]
      <4>1. t \in Seq(Message)
        BY <1>1
      <4>2. QED
        BY <4>1, ConcatProperties
    <3>2. QED
      BY <3>1
  <2> HIDE DEF u
  <2>3. DOMAIN u = 1 .. Len(u)
    BY <2>2, LenProperties
  <2>4. QED
    BY <2>1, <2>2, <2>3
<1> HIDE DEF u
<1>3. /\ DOMAIN u = 1 .. k0 /\ k0 \in DOMAIN u /\ u[k0] = r
      /\ \A i \in 1 .. Len(s) : u[i] = s[i]
      /\ \A i \in Len(s) + 1 .. k0 - 1 : i - Len(s) \in DOMAIN b /\ u[i] = b[i - Len(s)]
  <2>1. k0 \in 1 .. Len(s) + Len(t) /\ ~(k0 <= Len(s)) /\ k0 - Len(s) = Len(b) + 1
    BY <1>1, <1>2
  <2>2. \A i \in Len(s) + 1 .. k0 - 1 : i - Len(s) \in 1 .. Len(b) /\ i \in 1 .. Len(s) + Len(t)
                                         /\ ~(i <= Len(s))
    BY <1>1, <1>2
  <2>3. \A i \in Len(s) + 1 .. k0 - 1 : i - Len(s) \in DOMAIN b /\ u[i] = b[i - Len(s)]
    BY <1>1, <1>2, <2>2
  <2>4. u[k0] = r /\ k0 \in DOMAIN u /\ DOMAIN u = 1 .. k0
    BY <1>1, <1>2, <2>1
  <2>5. \A i \in 1 .. Len(s) : u[i] = s[i]
    BY <1>1, <1>2
  <2>6. QED
    BY <2>3, <2>4, <2>5
<1>4. Extends(u, s)
  BY <1>1, <1>2, <1>3 DEF Extends
<1>5. \A i \in Len(s) + 1 .. k0 - 1 : u[i].kind # "result" /\ u[i].name = r.name
  <2>1. \A i \in DOMAIN b : b[i].kind # "result"
    BY OutputElement
  <2>2. QED
    BY <1>3, <2>1
<1>6. k0 - r.replayed = Len(s) + 1 /\ k0 \in Nat /\ r.replayed < k0
  BY <1>1, <1>2
<1>7. Counts(u, k0)
  BY <1>3, <1>5, <1>6 DEF Counts
<1>8. ASSUME NEW k \in DOMAIN u
      PROVE  /\ IsReplay(u[k]) => Counts(u, k)
             /\ u[k].kind # "result" => AskedFor(u, k)
  <2>1. CASE k = k0
    BY <1>3, <1>7, <2>1 DEF IsReplay
  <2>2. CASE k \in 1 .. Len(s)
    BY <1>2, <1>4, <2>2, CountedStays
  <2>3. CASE k \in Len(s) + 1 .. k0 - 1
    <3>1. k0 - u[k0].replayed <= k
      BY <1>3, <1>6, <2>3
    <3>2. QED
      BY <1>3, <1>5, <2>3, <3>1 DEF AskedFor, IsReplay
  <2>4. QED
    BY <1>2, <1>3, <1>6, <2>1, <2>2, <2>3
<1>9. ASSUME NEW n \in Names, n = r.name \/ Has(s, n) PROVE Has(u, n)
  <2>1. CASE n = r.name
    BY <1>3, <2>1 DEF Has
  <2>2. CASE Has(s, n)
    <3>1. PICK j \in DOMAIN s : IsReplay(s[j]) /\ s[j].name = n
      BY <2>2 DEF Has
    <3>2. j \in DOMAIN u /\ u[j] = s[j]
      BY <1>1, <1>2, <1>3
    <3>3. QED
      BY <3>1, <3>2 DEF Has
  <2>3. QED
    BY <1>9, <2>1, <2>2
<1>10. QED
  BY <1>8, <1>9 DEF AllCounted, u, t

LEMMA CountStep == CountInv /\ Next => AllCounted(channel') /\ Replayed'
<1> SUFFICES ASSUME CountInv, Next PROVE AllCounted(channel') /\ Replayed'
  OBVIOUS
<1>0. /\ OrderInv /\ TypeInv /\ Placed /\ Replayed /\ AllCounted(channel)
      /\ channel \in Seq(Message) /\ procs \in [Names -> Entry]
      /\ \A n \in Names : procs[n].buffer \in Seq(Output)
      /\ \A m \in Output : m.name \in Names /\ m.kind # "result" /\ ~IsReplay(m) /\ m \in Message
      /\ \A r \in Result : r.kind = "result" /\ r \in Message
  BY OrderTypes
  DEF CountInv, OrderInv, ReplayIsCounted, AllCounted, Counts, AskedFor, Message, Result, IsReplay
\* Subscriptions do not come out of nothing, and what was replayed stays.
<1>1. ASSUME NEW m \in Message, channel' = Append(channel, m), writer' => writer, NoneSubscribes
      PROVE  Replayed'
  <2>1. ASSUME NEW n \in Names, Has(channel, n) PROVE Has(channel', n)
    <3>1. PICK j \in DOMAIN channel : IsReplay(channel[j]) /\ channel[j].name = n
      BY <2>1 DEF Has
    <3>2. j \in DOMAIN Append(channel, m) /\ Append(channel, m)[j] = channel[j]
      BY <1>0, AppendProperties
    <3>3. QED
      BY <1>1, <3>1, <3>2 DEF Has
  <2>2. QED
    BY <1>0, <1>1, <2>1 DEF Replayed, NoneSubscribes, Has, IsReplay
<1>2. ASSUME UNCHANGED channel, writer' => writer, NoneSubscribes PROVE Replayed'
  BY <1>0, <1>2 DEF Replayed, NoneSubscribes, Has, IsReplay
<1>3. CASE Quiet
  <2>1. CASE channel' = << >> /\ \A n \in Names : ~procs'[n].subscribed
    BY <2>1 DEF AllCounted, Replayed
  <2>2. ASSUME writer' => writer, NoneSubscribes, NEW r \in Result, ~IsReplay(r),
               channel' = Append(channel, r)
        PROVE  AllCounted(channel') /\ Replayed'
    BY <1>0, <1>1, <2>2, CountedAppend
  <2>3. CASE (writer' => writer) /\ NoneSubscribes /\ UNCHANGED channel
    BY <1>0, <1>2, <2>3
  <2>4. QED
    BY <1>3, <2>1, <2>2, <2>3 DEF Quiet
<1>4. CASE Replays
  <2>1. PICK n \in Names, r \in Result :
          /\ procs' = [procs EXCEPT ![n] = Drained(procs[n])]
          /\ IsReplay(r) /\ r.name = n /\ r.replayed = Len(procs[n].buffer)
          /\ channel' = IF writer THEN channel \o Append(procs[n].buffer, r) ELSE channel
    BY <1>4 DEF Replays
  <2>2. writer' = writer
    BY <1>4 DEF Replays
  <2>3. CASE ~writer
    BY <1>0, <2>1, <2>2, <2>3 DEF Replayed
  <2>4. CASE writer
    <3>1. \A i \in DOMAIN procs[n].buffer : procs[n].buffer[i].name = r.name
      BY <1>0, <2>1 DEF Placed
    <3>2. /\ AllCounted(channel')
          /\ \A k \in Names : k = n \/ Has(channel, k) => Has(channel', k)
      BY <1>0, <2>1, <2>4, <3>1, CountedReplay
    <3>3. \A k \in Names \ {n} : procs'[k] = procs[k]
      BY <1>0, <2>1
    <3>4. \A k \in Names : procs'[k].subscribed => Has(channel', k)
      BY <1>0, <2>4, <3>2, <3>3 DEF Replayed
    <3>5. QED
      BY <3>2, <3>4 DEF Replayed, Has, IsReplay
  <2>5. QED
    BY <2>3, <2>4
<1>5. CASE Handles
  <2>1. (writer' => writer) /\ NoneSubscribes
    BY <1>5 DEF Handles
  <2>2. CASE UNCHANGED channel
    BY <1>0, <1>2, <2>1, <2>2
  <2>3. ASSUME NEW m \in Output, procs[m.name].subscribed, writer, channel' = Append(channel, m)
        PROVE  AllCounted(channel') /\ Replayed'
    <3>1. Has(channel, m.name)
      BY <1>0, <2>3 DEF Replayed
    <3>2. AllCounted(Append(channel, m))
      BY <1>0, <3>1, CountedAppend
    <3>3. QED
      BY <1>0, <1>1, <2>1, <2>3, <3>2
  <2>4. QED
    BY <1>5, <2>2, <2>3 DEF Handles
<1>6. CASE Relays
  BY <1>0, <1>2, <1>6 DEF Relays, NoneSubscribes
<1>7. QED
  BY <1>0, <1>3, <1>4, <1>5, <1>6, ShapeStep

-----------------------------------------------------------------------------
(* One result for each command *)

\* The results in s are those of the first d commands, in their order.
InTurn(s, d) ==
  LET results == {i \in DOMAIN s : s[i].kind = "result"} IN
  /\ d \in Nat
  /\ {s[i].re : i \in results} = 1 .. d
  /\ \A i, j \in results : i < j => s[i].re < s[j].re

\* Output in between changes nothing.
LEMMA TurnStays ==
  ASSUME NEW s \in Seq(Message), NEW m \in Output, NEW d, InTurn(s, d)
  PROVE  InTurn(Append(s, m), d)
<1> DEFINE u == Append(s, m)
           rs == {i \in DOMAIN s : s[i].kind = "result"}
           ru == {i \in DOMAIN u : u[i].kind = "result"}
<1>1. /\ Len(s) \in Nat /\ DOMAIN s = 1 .. Len(s) /\ DOMAIN u = 1 .. Len(s) + 1
      /\ u[Len(s) + 1] = m /\ \A i \in 1 .. Len(s) : u[i] = s[i]
  BY AppendProperties DEF Message
<1>2. m.kind # "result"
  BY DEF Output
<1> HIDE DEF u
<1>3. ru = rs /\ \A i \in rs : u[i] = s[i]
  BY <1>1, <1>2
<1>4. {u[i].re : i \in ru} = {s[i].re : i \in rs}
  BY <1>3
<1>5. QED
  BY <1>3, <1>4 DEF InTurn, u

\* Some output, and the next result.
LEMMA TurnNext ==
  ASSUME NEW s \in Seq(Message), NEW b \in Seq(Output), NEW r \in Result, NEW d, InTurn(s, d),
         r.re = d + 1
  PROVE  InTurn(s \o Append(b, r), d + 1)
<1> DEFINE t == Append(b, r)
           u == s \o t
           k0 == Len(s) + Len(t)
           rs == {i \in DOMAIN s : s[i].kind = "result"}
           ru == {i \in DOMAIN u : u[i].kind = "result"}
<1>1. /\ Len(b) \in Nat /\ DOMAIN b = 1 .. Len(b) /\ t \in Seq(Message) /\ Len(t) = Len(b) + 1
      /\ t[Len(b) + 1] = r /\ \A i \in 1 .. Len(b) : t[i] = b[i]
  <2>1. b \in Seq(Message) /\ r \in Message
    BY DEF Message
  <2>2. QED
    BY <2>1, AppendProperties, LenProperties
<1> HIDE DEF t
<1>2. t \in Seq(Message)
  BY <1>1
<1>3. Len(s) \in Nat /\ DOMAIN s = 1 .. Len(s)
  BY LenProperties
<1>4. /\ \A i \in DOMAIN u : \/ i \in DOMAIN s /\ u[i] = s[i]
                             \/ i - Len(s) \in DOMAIN t /\ u[i] = t[i - Len(s)] /\ i > Len(s)
      /\ DOMAIN u = 1 .. k0
      /\ \A i \in 1 .. k0 : u[i] = IF i <= Len(s) THEN s[i] ELSE t[i - Len(s)]
  <2>1. u \in Seq(Message) /\ Len(u) = k0
        /\ \A i \in 1 .. k0 : u[i] = IF i <= Len(s) THEN s[i] ELSE t[i - Len(s)]
    BY <1>2, ConcatProperties
  <2>2. \A i \in DOMAIN u : \/ i \in DOMAIN s /\ u[i] = s[i]
                            \/ i - Len(s) \in DOMAIN t /\ u[i] = t[i - Len(s)] /\ i > Len(s)
    BY <1>2, ConcatIndex
  <2> HIDE DEF u
  <2>3. DOMAIN u = 1 .. k0
    BY <2>1, LenProperties
  <2>4. QED
    BY <2>1, <2>2, <2>3
<1> HIDE DEF u
<1>5. k0 \in DOMAIN u /\ u[k0] = r
  <2>1. k0 \in 1 .. k0 /\ ~(k0 <= Len(s)) /\ k0 - Len(s) = Len(b) + 1
    BY <1>1, <1>3
  <2>2. QED
    BY <1>1, <1>4, <2>1
<1>6. r.kind = "result" /\ \A i \in DOMAIN b : b[i].kind # "result"
  BY OutputElement DEF Result
<1>7. ASSUME NEW i \in ru PROVE (i \in rs /\ u[i] = s[i]) \/ i = k0
  <2>1. CASE i \in DOMAIN s /\ u[i] = s[i]
    BY <1>7, <2>1
  <2>2. CASE i - Len(s) \in DOMAIN t /\ u[i] = t[i - Len(s)] /\ i # k0
    <3>1. DOMAIN t = 1 .. Len(t)
      BY <1>2, LenProperties
    <3>2. i - Len(s) \in DOMAIN b /\ i - Len(s) \in 1 .. Len(b)
      <4>1. i \in 1 .. Len(s) + Len(t) /\ i - Len(s) \in 1 .. Len(t) /\ i # Len(s) + Len(t)
        BY <1>4, <1>7, <2>2, <3>1
      <4>2. i - Len(s) \in 1 .. Len(b)
        <5>1. Len(t) = Len(b) + 1 /\ Len(b) \in Nat /\ Len(s) \in Nat
          BY <1>1, <1>3
        <5>2. QED
          BY <4>1, <5>1
      <4>3. QED
        BY <1>1, <4>2
    <3>3. QED
      BY <1>1, <1>6, <1>7, <2>2, <3>2
  <2>3. QED
    BY <1>4, <1>7, <2>1, <2>2
<1>8. /\ k0 \in ru /\ u[k0].re = d + 1
      /\ \A i \in rs : i \in ru /\ u[i] = s[i] /\ i < k0
  <2>1. \A i \in 1 .. Len(s) : i \in 1 .. k0 /\ i <= Len(s) /\ i < k0
    BY <1>1, <1>3
  <2>2. QED
    BY <1>3, <1>4, <1>5, <1>6, <2>1
<1>9. d \in Nat /\ {s[i].re : i \in rs} = 1 .. d /\ \A i, j \in rs : i < j => s[i].re < s[j].re
  BY DEF InTurn
<1>10. {u[i].re : i \in ru} = 1 .. d + 1
  <2>1. ASSUME NEW i \in ru PROVE u[i].re \in 1 .. d + 1
    <3>1. CASE i = k0
      BY <1>8, <1>9, <3>1
    <3>2. CASE i \in rs /\ u[i] = s[i]
      <4>1. s[i].re \in 1 .. d
        BY <1>9, <3>2
      <4>2. QED
        BY <1>9, <3>2, <4>1
    <3>3. QED
      BY <1>7, <2>1, <3>1, <3>2
  <2>2. ASSUME NEW x \in 1 .. d + 1 PROVE \E i \in ru : u[i].re = x
    <3>1. CASE x = d + 1
      BY <1>8, <3>1
    <3>2. CASE x # d + 1
      <4>1. x \in 1 .. d
        BY <1>9, <3>2
      <4>2. PICK i \in rs : s[i].re = x
        BY <1>9, <4>1
      <4>3. QED
        BY <1>8, <4>2
    <3>3. QED
      BY <3>1, <3>2
  <2>3. QED
    BY <2>1, <2>2
<1>11. ASSUME NEW i \in ru, NEW j \in ru, i < j PROVE u[i].re < u[j].re
  <2>1. CASE j = k0
    <3>1. i \in rs /\ u[i] = s[i]
      BY <1>3, <1>7, <1>11, <2>1
    <3>2. s[i].re \in 1 .. d
      BY <1>9, <3>1
    <3>3. QED
      BY <1>8, <1>9, <2>1, <3>1, <3>2
  <2>2. CASE j # k0
    <3>1. j \in rs /\ u[j] = s[j] /\ j < k0 /\ j \in Nat /\ k0 \in Nat
      BY <1>1, <1>3, <1>7, <1>8, <2>2
    <3>2. i \in rs /\ u[i] = s[i]
      BY <1>3, <1>7, <1>11, <3>1
    <3>3. QED
      BY <1>9, <1>11, <3>1, <3>2
  <2>3. QED
    BY <2>1, <2>2
<1>12. QED
  <2>1. d + 1 \in Nat
    BY <1>9
  <2>2. InTurn(u, d + 1)
    BY <1>10, <1>11, <2>1 DEF InTurn
  <2>3. QED
    BY <2>2 DEF u, t

\* A step begins a channel or makes it not matter, answers nothing, or
\* answers the command that is next.
Begins ==
  ~writer' \/ at' = "panicked" \/ (channel' = << >> /\ served' = 0 /\ at' = "select")

Passes ==
  /\ writer /\ at # "panicked" /\ Due' = Due
  /\ UNCHANGED channel \/ \E m \in Output : channel' = Append(channel, m)

Gives ==
  /\ writer /\ at # "panicked" /\ Due' = Due + 1
  /\ \E b \in Seq(Output), r \in Result : r.re = Due' /\ channel' = channel \o Append(b, r)

LEMMA AnswerStep ==
  ASSUME TypeInv, ShutdownInv, sig = "taken" => ~writer, Next
  PROVE  Begins \/ Passes \/ Gives
<1> DEFINE Goal == Begins \/ Passes \/ Gives
<1>0. /\ served \in Nat /\ target \in Names \union {NoName} /\ channel \in Seq(Message)
      /\ procs \in [Names -> Entry] /\ (writer => client_tx # NoConn)
      /\ writer \in BOOLEAN
  BY DEF TypeInv, TypeOK, ControlOK, MessagesOK, TableOK
<1>1. ASSUME UNCHANGED <<served, writer>>, ~writer \/ UNCHANGED channel,
             \/ at' = at
             \/ at' = "panicked"
             \/ at \in {"termwait", "killwait"} /\ at' \in {"termwait", "killwait"}
             \/ at \notin {"termwait", "killwait", "panicked"} /\ at' \notin {"termwait", "killwait"}
      PROVE  Goal
  BY <1>0, <1>1 DEF Begins, Passes, Due
<1>2. ASSUME NEW r \in Result, r.re = Due + 1, Due' = Due + 1, at # "panicked",
             UNCHANGED writer, Answer(r)
      PROVE  Goal
  <2>1. << >> \in Seq(Output) /\ Append(<< >>, r) = <<r>>
    OBVIOUS
  <2>2. writer => channel' = channel \o <<r>>
    BY <1>2 DEF Answer, Sent
  <2>3. QED
    BY <1>0, <1>2, <2>1, <2>2 DEF Begins, Gives
<1>3. ASSUME NEW r \in Requests, TakeCommand(r), UNCHANGED at,
             NEW n \in Names \union {NoName}, Answer(ResultOk(served', r, n)) \/ Answer(ResultErr(served', r, n))
      PROVE  Goal
  <2>1. served' = served + 1 /\ at = "select" /\ UNCHANGED writer
    BY <1>3 DEF TakeCommand, TakeLine
  <2>2. Due = served /\ Due' = served'
    BY <1>3, <2>1 DEF Due
  <2>3. /\ ResultOk(served', r, n) \in Result /\ ResultErr(served', r, n) \in Result
        /\ ResultOk(served', r, n).re = served' /\ ResultErr(served', r, n).re = served'
    <3>1. served' \in Nat
      BY <1>0, <2>1
    <3>2. ResultOk(served', r, n) \in Result /\ ResultErr(served', r, n) \in Result
      BY <3>1, AnswerTypes
    <3>3. ResultOk(served', r, n).re = served' /\ ResultErr(served', r, n).re = served'
      BY DEF ResultOk, ResultErr
    <3>4. QED
      BY <3>2, <3>3
  <2>4. QED
    BY <1>2, <1>3, <2>1, <2>2, <2>3
<1>4. CASE Accept \/ Disconnect \/ WriterFails
  BY <1>4 DEF Accept, Disconnect, WriterFails, Begins
<1>5. ASSUME NEW r \in SpawnRequests, NEW n \in Names, CmdSpawn(r, n) PROVE Goal
  <2>1. r \in Requests /\ TakeCommand(r)
    BY <1>5 DEF SpawnRequests, Requests, CmdSpawn
  <2>2. \/ at' = "panicked"
        \/ /\ UNCHANGED at
           /\ Answer(ResultOk(served', r, n)) \/ Answer(ResultErr(served', r, n))
    BY <1>5 DEF CmdSpawn
  <2>3. QED
    BY <1>3, <2>1, <2>2 DEF Begins
<1>6. ASSUME NEW n \in Names, CmdKill(n) PROVE Goal
  <2>1. "kill" \in Requests /\ TakeCommand("kill")
    BY <1>6 DEF Requests, CmdKill
  <2>2. CASE UNCHANGED at /\ (Answer(ResultOk(served', "kill", n)) \/ Answer(ResultErr(served', "kill", n)))
    BY <1>3, <2>1, <2>2
  <2>3. CASE at' = "termwait" /\ UNCHANGED channel
    BY <1>0, <2>1, <2>3 DEF TakeCommand, TakeLine, Begins, Passes, Due
  <2>4. QED
    BY <1>6, <2>2, <2>3 DEF CmdKill
<1>7. ASSUME NEW n \in Names, CmdInterrupt(n) PROVE Goal
  <2>1. /\ TakeCommand("interrupt") /\ UNCHANGED at /\ "interrupt" \in Requests
        /\ Answer(ResultOk(served', "interrupt", n)) \/ Answer(ResultErr(served', "interrupt", n))
    BY <1>7 DEF CmdInterrupt, Requests
  <2>2. QED
    BY <1>3, <2>1
<1>8. ASSUME NEW n \in Names, CmdUnsubscribe(n) PROVE Goal
  <2>1. /\ TakeCommand("unsubscribe") /\ UNCHANGED at /\ "unsubscribe" \in Requests
        /\ Answer(ResultOk(served', "unsubscribe", n)) \/ Answer(ResultErr(served', "unsubscribe", n))
    BY <1>8 DEF CmdUnsubscribe, Requests
  <2>2. QED
    BY <1>3, <2>1
<1>9. CASE CmdList \/ CmdStatus \/ CmdUnknown
  <2>1. {"list", "status", "unknown"} \subseteq Requests
    BY DEF Requests
  <2>2. CASE CmdList
    BY <1>3, <2>1, <2>2 DEF CmdList
  <2>3. CASE CmdStatus
    BY <1>3, <2>1, <2>3 DEF CmdStatus
  <2>4. CASE CmdUnknown
    BY <1>3, <2>1, <2>4 DEF CmdUnknown
  <2>5. QED
    BY <1>9, <2>2, <2>3, <2>4
<1>10. ASSUME NEW n \in Names, CmdSubscribe(n) PROVE Goal
  <2>1. TakeCommand("subscribe") /\ UNCHANGED at /\ "subscribe" \in Requests
    BY <1>10 DEF CmdSubscribe, Requests
  <2>2. served' = served + 1 /\ at = "select" /\ UNCHANGED writer /\ Due = served /\ Due' = served'
    BY <2>1 DEF TakeCommand, TakeLine, Due
  <2>3. CASE Managed(n)
    <3> DEFINE x == ResultOk(served', "subscribe", n)
               r == [x EXCEPT !.replayed = Len(procs[n].buffer)]
    <3>1. procs[n].buffer \in Seq(Output) /\ Len(procs[n].buffer) \in Nat
      BY <1>0, LenProperties DEF Entry
    <3>2. r \in Result /\ r.re = served'
      <4>1. x \in Result /\ x.re = served'
        BY <1>0, <2>1, <2>2, AnswerTypes DEF ResultOk
      <4> HIDE DEF x
      <4>2. QED
        BY <3>1, <4>1 DEF Result
    <3>3. channel' = IF writer THEN channel \o Append(procs[n].buffer, r) ELSE channel
      BY <1>10, <2>3 DEF CmdSubscribe, Sent, Replay
    <3> HIDE DEF r
    <3>4. QED
      BY <1>0, <2>2, <3>1, <3>2, <3>3 DEF Begins, Gives
  <2>4. CASE ~Managed(n)
    <3>1. Answer(ResultErr(served', "subscribe", n))
      BY <1>10, <2>4 DEF CmdSubscribe
    <3>2. QED
      BY <1>3, <2>1, <3>1
  <2>5. QED
    BY <2>3, <2>4
<1>11. CASE InvalidLine \/ \E n \in Names : HandleStdin(n)
  BY <1>1, <1>11 DEF InvalidLine, HandleStdin, TakeLine
<1>12. CASE StdinWritten \/ StdinFails \/ HandleExit \/ KillTimeout
  BY <1>1, <1>12 DEF StdinWritten, StdinFails, HandleExit, KillTimeout, session
<1>13. ASSUME NEW m \in Output, NEW ps, RelayOrBuffer(ps, m), UNCHANGED <<served, writer>>,
              at \in {"select", "exitwait"}, at' = "select"
       PROVE  Goal
  <2>1. UNCHANGED channel \/ channel' = Append(channel, m)
    BY <1>13 DEF RelayOrBuffer
  <2>2. QED
    BY <1>0, <1>13, <2>1 DEF Begins, Passes, Due
<1>14. CASE HandleStdout
  <2>1. Head(relay_rx) \in Output
    BY <1>14, QueueHead DEF HandleStdout
  <2>2. QED
    BY <1>13, <1>14, <2>1 DEF HandleStdout
<1>15. CASE HandleStderr
  <2>1. Head(relay_rx) \in Output
    BY <1>15, QueueHead DEF HandleStderr
  <2>2. QED
    BY <1>13, <1>15, <2>1 DEF HandleStderr
<1>16. ASSUME NEW code \in Codes \union {NoCode}, FinishExit(code) PROVE Goal
  <2>1. relay_rx # << >> /\ Head(relay_rx) \in Output
    BY <1>16, QueueHead DEF FinishExit, TypeInv, TypeOK, WaitOK
  <2>2. [Head(relay_rx) EXCEPT !.code = code] \in Output
    BY <2>1 DEF Output
  <2>3. QED
    BY <1>13, <1>16, <2>2 DEF FinishExit
<1>17. CASE ExitReaped \/ ExitTimeout
  <2>1. child[procs[target].pid].code \in Codes \union {NoCode}
    BY <1>17, TargetHasChild
    DEF ExitReaped, ExitTimeout, FinishExit, TypeInv, TypeOK, OsOK, ChildRec
  <2>2. QED
    BY <1>16, <1>17, <2>1 DEF ExitReaped, ExitTimeout
<1>18. CASE KillReaped
  <2>1. CASE sig = "taken"
    BY <1>18, <2>1 DEF KillReaped, Begins
  <2>2. CASE sig # "taken"
    <3>1. /\ Answer(ResultOk(served, "kill", target)) /\ at' = "select" /\ UNCHANGED <<writer, served>>
          /\ at \in {"termwait", "killwait"} /\ target \in Names /\ "kill" \in Requests
      BY <1>18, <2>2, TargetHasChild DEF KillReaped, Requests
    <3>2. ResultOk(served, "kill", target) \in Result /\ ResultOk(served, "kill", target).re = served
      BY <1>0, <3>1, AnswerTypes DEF ResultOk
    <3>3. Due = served - 1 /\ Due' = served
      BY <3>1 DEF Due
    <3>4. QED
      BY <1>0, <1>2, <3>1, <3>2, <3>3
  <2>3. QED
    BY <2>1, <2>2
<1>19. CASE TakeShutdown
  BY <1>0, <1>19 DEF TakeShutdown, Begins, session
<1>20. CASE ShutdownDone \/ \E n \in Names : ShutdownNext(n)
  BY <1>20 DEF ShutdownDone, ShutdownNext, ShutdownInv, Begins, session
<1>21. CASE UNCHANGED <<at, served, writer, channel>>
  BY <1>1, <1>21
<1>22. QED
  BY <1>4, <1>5, <1>6, <1>7, <1>8, <1>9, <1>10, <1>11, <1>12, <1>14, <1>15, <1>17, <1>18,
     <1>19, <1>20, <1>21
  DEF Next, Server, Tasks, Environment, HandleClientLine, HandleRelay, WaitEnds, Shutdown,
      RelayStdout, RelayEof, RelayStderr, AbortedTaskEnds, OrphanReaped, ChildWrites,
      ChildWritesErr, ChildReads, ChildClosesStdout, ChildExits, KilledDies, Unchanged,
      ClientConnects, ClientSends, ClientCloses, Signal, Rests, vars, session

TurnInv ==
  /\ TypeInv /\ ReapedIsExited /\ ShutdownInv
  /\ sig = "taken" => ~writer
  /\ writer /\ at # "panicked" => InTurn(channel, Due)

\* No connection is accepted once the signal is taken.
LEMMA QuitsAlone ==
  ASSUME TypeInv, ShutdownInv, sig = "taken" => ~writer, Next
  PROVE  sig' = "taken" => ~writer'
<1>1. writer => client_tx # NoConn
  BY DEF TypeInv, TypeOK, ControlOK
<1>2. CASE Accept
  BY <1>2 DEF Accept, ShutdownInv, quit
<1>3. CASE TakeShutdown
  BY <1>1, <1>3 DEF TakeShutdown, session
<1>4. CASE Disconnect \/ WriterFails
  BY <1>4 DEF Disconnect, WriterFails
<1>5. CASE Signal
  BY <1>5 DEF Signal
<1>6. CASE UNCHANGED <<sig, writer>>
  BY <1>6
<1>7. CASE HandleClientLine
  <2>1. ASSUME NEW r, TakeLine(r) PROVE UNCHANGED <<sig, writer>>
    BY <2>1 DEF TakeLine, quit
  <2>2. QED
    BY <1>6, <1>7, <2>1
    DEF HandleClientLine, CmdSpawn, CmdKill, CmdInterrupt, CmdSubscribe, CmdUnsubscribe,
        HandleStdin, CmdList, CmdStatus, CmdUnknown, InvalidLine, TakeCommand
<1>8. QED
  BY <1>2, <1>3, <1>4, <1>5, <1>6, <1>7
  DEF Next, Server, Tasks, Environment, HandleRelay, WaitEnds, Shutdown,
      HandleStdout, HandleStderr, HandleExit, ExitReaped, ExitTimeout, FinishExit, KillReaped,
      KillTimeout, StdinWritten, StdinFails, ShutdownDone, ShutdownNext,
      RelayStdout, RelayEof, RelayStderr, AbortedTaskEnds, OrphanReaped, ChildWrites,
      ChildWritesErr, ChildReads, ChildClosesStdout, ChildExits, KilledDies, Unchanged,
      ClientConnects, ClientSends, ClientCloses, Rests, vars, session, quit

LEMMA TurnStep == TurnInv /\ [Next]_vars => TurnInv'
<1> SUFFICES ASSUME TurnInv, [Next]_vars PROVE TurnInv'
  OBVIOUS
<1>1. CASE Next
  <2>1. TypeInv' /\ ReapedIsExited' /\ ShutdownInv' /\ (sig' = "taken" => ~writer')
    BY <1>1, TypeInvStep, ReapedStep, ShutdownStep, QuitsAlone DEF TurnInv
  <2>2. channel \in Seq(Message)
    BY DEF TurnInv, TypeInv, TypeOK, MessagesOK
  <2>3. CASE Begins
    <3>1. InTurn(<< >>, 0)
      BY DEF InTurn
    <3>2. QED
      BY <2>1, <2>3, <3>1 DEF TurnInv, Begins, Due
  <2>4. CASE Passes
    <3>1. InTurn(channel', Due)
      BY <2>2, <2>4, TurnStays DEF TurnInv, Passes
    <3>2. QED
      BY <2>1, <2>4, <3>1 DEF TurnInv, Passes, InTurn
  <2>5. CASE Gives
    <3>1. InTurn(channel, Due) /\ Due' = Due + 1
      BY <2>5 DEF TurnInv, Gives
    <3>2. InTurn(channel', Due + 1)
      BY <2>2, <2>5, <3>1, TurnNext DEF Gives
    <3>3. QED
      BY <2>1, <3>1, <3>2 DEF TurnInv, InTurn
  <2>6. QED
    BY <1>1, <2>3, <2>4, <2>5, AnswerStep DEF TurnInv
<1>2. CASE UNCHANGED vars
  <2>1. TypeInv'
    BY TypeInvStep DEF TurnInv
  <2>2. UNCHANGED <<procs, child, sig, writer, at, todo, channel, served>>
    BY <1>2 DEF vars, session, os, quit
  <2>3. ReapedIsExited' /\ ShutdownInv'
    BY <2>2 DEF TurnInv, ReapedIsExited, ShutdownInv, Managed, Running
  <2>4. Due' = Due
    BY <2>2 DEF Due
  <2>5. QED
    BY <2>1, <2>2, <2>3, <2>4 DEF TurnInv
<1>3. QED
  BY <1>1, <1>2

-----------------------------------------------------------------------------
(* The theorems *)

\* Whoever connects, leaves, subscribes or stops: what a relay task took of an
\* entry's child is buffered or queued until it is sent, except what a
\* subscribe takes from the buffer for a writer task that is dead.
THEOREM LossCorrect == Spec => NothingIsLost
<1> DEFINE Kept ==
      \A n \in Names : Managed(n) /\ procs'[n].pid = procs[n].pid =>
        LET pending == procs[n].buffer \o relay_rx IN
        \A i \in DOMAIN pending : pending[i].from = procs[n].pid =>
          \/ Holds(procs'[n].buffer \o relay_rx', pending[i])
          \/ writer /\ Holds(channel', pending[i])
          \/ ~writer /\ procs'[n].subscribed /\ Holds(procs[n].buffer, pending[i])
<1>1. OrderInv /\ [Next]_vars => [Kept]_vars
  <2> SUFFICES ASSUME OrderInv, Next PROVE Kept
    OBVIOUS
  <2>1. OrderInv'
    BY OrderInvStep
  <2>2. /\ relay_rx \in Seq(Message) /\ relay_rx' \in Seq(Message) /\ relay_rx \in Seq(Output)
        /\ \A n \in Names : /\ procs[n].buffer \in Seq(Message) /\ procs'[n].buffer \in Seq(Message)
                            /\ procs[n].buffer \in Seq(Output)
    BY <2>1, OrderTypes DEF OrderInv, TypeInv, TypeOK, MessagesOK, TableOK, Entry, Message
  <2>3. ASSUME NEW n \in Names, Managed(n), procs'[n].pid = procs[n].pid,
               NEW i \in DOMAIN (procs[n].buffer \o relay_rx),
               (procs[n].buffer \o relay_rx)[i].from = procs[n].pid
        PROVE  LET m == (procs[n].buffer \o relay_rx)[i] IN
               \/ Holds(procs'[n].buffer \o relay_rx', m)
               \/ writer /\ Holds(channel', m)
               \/ ~writer /\ procs'[n].subscribed /\ Holds(procs[n].buffer, m)
    <3> DEFINE m == (procs[n].buffer \o relay_rx)[i]
    <3>1. Holds(procs[n].buffer, m) \/ Holds(relay_rx, m)
      <4>1. \A s \in Seq(Output) : \A k \in DOMAIN s : Holds(s, s[k])
        BY OutputElement DEF Holds
      <4>2. QED
        BY <2>2, <4>1, ConcatIndex
    <3>2. m.from = procs[n].pid
      BY <2>3
    <3> HIDE DEF m
    <3>3. \/ Holds(procs'[n].buffer, m) \/ Holds(relay_rx', m)
          \/ writer /\ Holds(channel', m)
          \/ ~writer /\ procs'[n].subscribed /\ Holds(procs[n].buffer, m)
      BY <2>3, <3>1, <3>2, LineStays
    <3>4. QED
      BY <2>2, <3>3, HoldsConcat DEF m
  <2>4. QED
    BY <2>3
<1>2. Spec => []OrderInv
  BY InitOrderInv, OrderInvStep, PTL DEF Spec
<1>3. QED
  BY <1>1, <1>2, PTL DEF Spec, NothingIsLost

\* The messages that precede the answer to a subscribe are as many as it says
\* and of its name, and a client sees output of no other name.
THEOREM ReplayCorrect == Spec => []ReplayIsCounted
<1>1. Init => CountInv
  BY InitOrderInv DEF Init, CountInv, ReplayIsCounted, Replayed
<1>2. CountInv /\ [Next]_vars => CountInv'
  <2> SUFFICES ASSUME CountInv, [Next]_vars PROVE CountInv'
    OBVIOUS
  <2>1. OrderInv'
    BY OrderInvStep DEF CountInv
  <2>2. CASE Next
    BY <2>1, <2>2, CountStep
    DEF CountInv, ReplayIsCounted, AllCounted, Counts, AskedFor, IsReplay
  <2>3. CASE UNCHANGED vars
    <3>1. UNCHANGED <<channel, writer, procs>>
      BY <2>3 DEF vars, session
    <3>2. QED
      BY <2>1, <3>1 DEF CountInv, ReplayIsCounted, Replayed, Has, IsReplay
  <2>4. QED
    BY <2>2, <2>3
<1>3. CountInv => ReplayIsCounted
  BY DEF CountInv
<1>4. QED
  BY <1>1, <1>2, <1>3, PTL DEF Spec

\* However its handler returns, and however long a kill waits, every command
\* of a connection gets one result, and the results come in the commands' order.
THEOREM TurnCorrect == Spec => []OneResultPerCommand
<1>1. Init => TurnInv
  <2> SUFFICES ASSUME Init PROVE TurnInv
    OBVIOUS
  <2>1. TypeInv /\ ReapedIsExited /\ ShutdownInv
    BY InitTypeInv DEF Init, ReapedIsExited, ShutdownInv, Absent, Managed, Running
  <2>2. ~writer
    BY DEF Init
  <2>3. QED
    BY <2>1, <2>2 DEF TurnInv
<1>2. TurnInv => OneResultPerCommand
  BY DEF TurnInv, InTurn, OneResultPerCommand, Answers
<1>3. QED
  BY <1>1, <1>2, TurnStep, PTL DEF Spec

===============================================================================
