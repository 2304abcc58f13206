------------------------ MODULE ProcmuxClientProofs ------------------------
(***************************************************************************)
(* Safety of the client library for every number of names, callers, queues *)
(* and lines, against any server that answers in order.  InTurn, the       *)
(* inductive invariant of the results, counts those that were taken: what  *)
(* is in the channel, on its way and still to be answered follows them     *)
(* without a gap.  StreamInv, that of the queues, gives each queue the     *)
(* stretch of the connection that it heard.                                *)
(***************************************************************************)
EXTENDS ProcmuxClientProperties, SequenceTheorems, TLAPS

CallerRec == [at : {"idle", "locking", "writing", "waiting"}, asked : Nat, got : Nat]

QueueRec == [name : Names \union {NoName}, late : BOOLEAN, got : Seq(Line)]

-----------------------------------------------------------------------------
(* Types *)

LEMMA InitTypeOK == Init => TypeOK
<1> SUFFICES ASSUME Init PROVE TypeOK
  OBVIOUS
<1>1. caller \in [Callers -> CallerRec] /\ \A t \in Callers : caller[t].at = "idle"
  BY DEF Init, Caller, CallerRec
<1>2. queue \in [Queues -> QueueRec]
  BY DEF Init, QueueRec
<1>3. cmd_lock = NoCaller /\ \A t \in Callers : cmd_lock # t
  BY ClientAssumption DEF Init
<1>4. lines \in Seq(Nat) /\ wire \in Seq(Line) /\ read \in 0 .. Len(wire)
      /\ cmd_response \in Seq(Nat)
  BY DEF Init
<1>5. process_queues \in [Names -> Queues \union {NoQueue}]
  BY DEF Init
<1>6. QED
  BY <1>1, <1>2, <1>3, <1>4, <1>5 DEF Init, TypeOK, CallerRec, QueueRec

\* The lines the server can send are lines.
LEMMA LinesAreLines ==
  /\ \A k \in Nat : Result(k) \in Line /\ Garbage(k) \in Line
  /\ \A n \in Names, k \in Nat : Output(n, k) \in Line
  /\ Lost \in Line
BY DEF Result, Garbage, Output, Lost, Line

\* A caller that goes on to another state.
LEMMA CallerMoves ==
  ASSUME TypeOK, NEW t \in Callers, NEW s \in {"idle", "locking", "writing", "waiting"},
         NEW k \in Nat, NEW r \in Nat, caller' = [caller EXCEPT ![t] = Caller(s, k, r)]
  PROVE  /\ caller' \in [Callers -> CallerRec]
         /\ caller'[t].at = s /\ caller'[t].asked = k /\ caller'[t].got = r
         /\ \A u \in Callers \ {t} : caller'[u] = caller[u]
<1> DEFINE e == Caller(s, k, r)
<1>1. e \in CallerRec /\ e.at = s /\ e.asked = k /\ e.got = r
  BY DEF Caller, CallerRec
<1>2. caller \in [Callers -> CallerRec] /\ caller' = [caller EXCEPT ![t] = e]
  BY DEF TypeOK, CallerRec
<1> HIDE DEF e
<1>3. QED
  BY <1>1, <1>2

\* A queue that gets one more message.
LEMMA Appended ==
  ASSUME NEW r \in QueueRec, NEW m \in Line
  PROVE  /\ [r EXCEPT !.got = Append(r.got, m)] \in QueueRec
         /\ [r EXCEPT !.got = Append(r.got, m)].got = Append(r.got, m)
<1>1. r.got \in Seq(Line) /\ r.name \in Names \union {NoName} /\ r.late \in BOOLEAN
  BY DEF QueueRec
<1>2. Append(r.got, m) \in Seq(Line)
  BY <1>1
<1>3. QED
  BY <1>2 DEF QueueRec

\* What a caller does keeps the types, of the channel and of the lock too.
LEMMA CommandTyped ==
  ASSUME TypeOK, NEW t \in Callers, Command(t)
  PROVE  TypeOK'
<1> USE ClientAssumption
<1>0. /\ lines \in Seq(Nat) /\ wire \in Seq(Line) /\ read \in 0 .. Len(wire)
      /\ cmd_lock \in Callers \union {NoCaller} /\ cmd_response \in Seq(Nat)
      /\ last_line \in {"whole", "torn"} /\ written \in Nat /\ given_up \in Nat /\ undone \in Nat
      /\ caller[t].asked \in Nat
      /\ \A u \in Callers : caller[u].at \in {"writing", "waiting"} <=> cmd_lock = u
  BY DEF TypeOK
<1>1. ASSUME NEW s \in {"idle", "locking", "writing", "waiting"}, NEW k \in Nat, NEW r \in Nat,
             caller' = [caller EXCEPT ![t] = Caller(s, k, r)],
             lines' \in Seq(Nat), UNCHANGED <<wire, read, up, ends, routes>>,
             cmd_lock' \in Callers \union {NoCaller}, cmd_response' \in Seq(Nat),
             last_line' \in {"whole", "torn"}, written' \in Nat, given_up' \in Nat, undone' \in Nat,
             s \in {"writing", "waiting"} <=> cmd_lock' = t,
             \A u \in Callers \ {t} : cmd_lock = u <=> cmd_lock' = u
      PROVE  TypeOK'
  <2>1. /\ caller' \in [Callers -> CallerRec]
        /\ caller'[t].at = s /\ \A u \in Callers \ {t} : caller'[u] = caller[u]
    BY <1>1, CallerMoves
  <2>2. \A u \in Callers : caller'[u].at \in {"writing", "waiting"} <=> cmd_lock' = u
    BY <1>0, <1>1, <2>1
  <2>3. QED
    BY <1>1, <2>1, <2>2 DEF TypeOK, CallerRec, ends, routes
<1>2. CASE SendCommand(t) /\ UNCHANGED link
  BY <1>0, <1>1, <1>2 DEF SendCommand, Sends, link
<1>3. CASE TakeLock(t) /\ UNCHANGED link
  BY <1>0, <1>1, <1>3 DEF TakeLock, Sends, link
<1>4. CASE up /\ WriteCommand(t) /\ lines' = Append(lines, written') /\ UNCHANGED <<wire, read, up>>
  <2>1. written' \in Nat /\ lines' \in Seq(Nat) /\ cmd_lock = t
    BY <1>0, <1>4 DEF WriteCommand
  <2>2. caller' = [caller EXCEPT ![t] = Caller("waiting", written', 0)]
    BY <1>4 DEF WriteCommand, Sends
  <2>3. UNCHANGED <<ends, routes, cmd_lock, cmd_response, last_line, given_up, undone>>
    BY <1>4 DEF WriteCommand
  <2>4. QED
    BY <1>0, <1>1, <1>4, <2>1, <2>2, <2>3
<1>5. CASE up /\ WriteSpoilt(t) /\ UNCHANGED link
  BY <1>0, <1>1, <1>5 DEF WriteSpoilt, Sends, link
<1>6. ASSUME Leave(t), last_line' \in {"whole", "torn"}, UNCHANGED link PROVE TypeOK'
  <2>1. caller' = [caller EXCEPT ![t] = Caller("idle", 0, 0)]
    BY <1>6 DEF Leave, Sends
  <2>2. /\ cmd_lock' \in Callers \union {NoCaller} /\ cmd_lock' # t
        /\ \A u \in Callers \ {t} : cmd_lock = u <=> cmd_lock' = u
    BY <1>0, <1>6 DEF Leave
  <2>3. UNCHANGED <<link, ends, routes, cmd_response, written, given_up, undone>>
    BY <1>6 DEF Leave
  <2>4. QED
    BY <1>0, <1>1, <1>6, <2>1, <2>2, <2>3 DEF link
<1>7. CASE ~up /\ WriteFails(t) /\ UNCHANGED link
  BY <1>0, <1>6, <1>7 DEF WriteFails
<1>8. CASE ReceiveResult(t) /\ UNCHANGED link
  <2>1. Head(cmd_response) \in Nat /\ Tail(cmd_response) \in Seq(Nat) /\ undone' \in Nat
    BY <1>0, <1>8 DEF ReceiveResult
  <2>2. QED
    BY <1>0, <1>1, <1>8, <2>1 DEF ReceiveResult, link
<1>9. ASSUME GiveUp(t), UNCHANGED link PROVE TypeOK'
  <2>1. cmd_lock = t /\ cmd_lock' = NoCaller /\ given_up' \in Nat
    BY <1>0, <1>9 DEF GiveUp
  <2>2. caller' = [caller EXCEPT ![t] = Caller("idle", caller[t].asked, 0)]
    BY <1>9 DEF GiveUp, Sends
  <2>3. UNCHANGED <<link, ends, routes, cmd_response, last_line, written, undone>>
    BY <1>9 DEF GiveUp
  <2>4. QED
    BY <1>0, <1>1, <2>1, <2>2, <2>3 DEF link
<1>10. CASE TimeOut(t) /\ UNCHANGED link
  BY <1>9, <1>10 DEF TimeOut
<1>11. CASE Cancel(t) /\ UNCHANGED link
  BY <1>0, <1>6, <1>9, <1>11 DEF Cancel
<1>12. QED
  BY <1>2, <1>3, <1>4, <1>5, <1>7, <1>8, <1>10, <1>11 DEF Command

\* What the demultiplexer does.
LEMMA DemuxTyped ==
  ASSUME TypeOK, Demux
  PROVE  TypeOK'
<1> USE ClientAssumption
<1>0. /\ queue \in [Queues -> QueueRec] /\ process_queues \in [Names -> Queues \union {NoQueue}]
      /\ wire \in Seq(Line) /\ read \in 0 .. Len(wire) /\ cmd_response \in Seq(Nat)
  BY DEF TypeOK, QueueRec
<1>1. CASE ReadLine
  <2> DEFINE m == wire[read + 1]
  <2>1. m \in Line /\ read + 1 \in 0 .. Len(wire)
    BY <1>0, <1>1 DEF ReadLine
  <2>2. m.no \in Nat
    BY <2>1 DEF Line
  <2>3. Route(m) /\ read' = read + 1 /\ UNCHANGED <<lines, wire, up>>
    BY <1>1 DEF ReadLine
  <2> HIDE DEF m
  <2>4. cmd_response' \in Seq(Nat)
    <3>1. cmd_response' = cmd_response \/ cmd_response' = Append(cmd_response, m.no)
      BY <2>3 DEF Route
    <3>2. Append(cmd_response, m.no) \in Seq(Nat)
      BY <1>0, <2>2, AppendProperties
    <3>3. QED
      BY <1>0, <3>1, <3>2
  <2>5. queue' \in [Queues -> QueueRec]
    <3>1. CASE UNCHANGED queue
      BY <1>0, <3>1
    <3>2. CASE ~UNCHANGED queue
      <4> DEFINE q == process_queues[m.name]
                 e == [queue[q] EXCEPT !.got = Append(queue[q].got, m)]
      <4>1. m.kind = "output" /\ Deliver(m)
        BY <2>3, <3>2 DEF Route
      <4>2. q # NoQueue /\ queue' = [queue EXCEPT ![q] = e]
        BY <3>2, <4>1 DEF Deliver
      <4>3. CASE q \in Queues
        <5>1. e \in QueueRec
          BY <1>0, <2>1, <4>3, Appended
        <5> HIDE DEF e, q
        <5>2. QED
          BY <1>0, <4>2, <5>1
      <4>4. CASE q \notin Queues
        BY <1>0, <4>2, <4>4
      <4>5. QED
        BY <4>3, <4>4
    <3>3. QED
      BY <3>1, <3>2
  <2>6. QED
    BY <2>1, <2>3, <2>4, <2>5 DEF Route, TypeOK, QueueRec, ends
<1>2. CASE Eof
  BY <1>2 DEF Eof, LoseConnection, TypeOK, link, routes, commands
<1>3. CASE NotifyLoss /\ UNCHANGED link
  <2>1. \A q \in Queues : [queue[q] EXCEPT !.got = Append(queue[q].got, Lost)] \in QueueRec
    BY <1>0, Appended, LinesAreLines
  <2>2. queue' \in [Queues -> QueueRec]
    BY <1>0, <1>3, <2>1 DEF NotifyLoss
  <2>3. process_queues' \in [Names -> Queues \union {NoQueue}]
    BY <1>0, <1>3 DEF NotifyLoss, Senders
  <2>4. QED
    BY <1>3, <2>2, <2>3 DEF NotifyLoss, TypeOK, QueueRec, link, commands
<1>4. CASE Abort /\ UNCHANGED link
  BY <1>4 DEF Abort, Senders, TypeOK, link, commands
<1>5. QED
  BY <1>1, <1>2, <1>3, <1>4 DEF Demux

\* What the application does.
LEMMA ApplicationTyped ==
  ASSUME TypeOK, Application
  PROVE  TypeOK'
<1> USE ClientAssumption DEF TypeOK, link, ends, routes, commands
<1>1. ASSUME NEW n \in Names, NEW q \in Queues, RegisterProcess(n, q), UNCHANGED link
      PROVE  TypeOK'
  <2>1. queue' \in [Queues -> QueueRec]
    BY <1>1, SMT DEF RegisterProcess, QueueRec
  <2>2. QED
    BY <1>1, <2>1 DEF RegisterProcess, QueueRec
<1>2. ASSUME NEW n \in Names, UnregisterProcess(n), UNCHANGED link PROVE TypeOK'
  BY <1>2 DEF UnregisterProcess
<1>3. CASE Close /\ UNCHANGED link
  BY <1>3 DEF Close, Senders
<1>4. CASE SendStdin /\ UNCHANGED link
  BY <1>4 DEF SendStdin
<1>5. QED
  BY <1>1, <1>2, <1>3, <1>4, CommandTyped DEF Application

\* What the server does.
LEMMA ServerTyped ==
  ASSUME TypeOK, Server
  PROVE  TypeOK'
<1> USE DEF TypeOK, link, ends, routes, commands
<1>1. ASSUME NEW m \in Line, ServerSends(m), lines' \in Seq(Nat) PROVE TypeOK'
  BY <1>1 DEF ServerSends
<1>2. CASE ServerAnswers
  BY <1>1, <1>2, LinesAreLines DEF ServerAnswers
<1>3. CASE ServerOutputs
  BY <1>1, <1>3, LinesAreLines DEF ServerOutputs
<1>4. CASE ServerGone
  BY <1>4 DEF ServerGone
<1>5. QED
  BY <1>2, <1>3, <1>4 DEF Server

LEMMA NextTyped == TypeOK /\ [Next]_vars => TypeOK'
<1> SUFFICES ASSUME TypeOK, [Next]_vars PROVE TypeOK'
  OBVIOUS
<1>1. CASE UNCHANGED vars
  BY <1>1 DEF TypeOK, vars, link, ends, routes, commands
<1>2. CASE Next
  BY <1>1, <1>2, DemuxTyped, ApplicationTyped, ServerTyped DEF Next, Rests
<1>3. QED
  BY <1>1, <1>2

\* The variables have their types in every reachable state, and cmd_lock is
\* held by exactly the caller that writes its command or waits for a result.
THEOREM TypeCorrect == Spec => []TypeOK
<1>1. QED
  BY InitTypeOK, NextTyped, PTL DEF Spec

-----------------------------------------------------------------------------
(***************************************************************************)
(* Results.  Taken is how many results callers have taken; those in the    *)
(* channel follow it without a gap (Counted), and after them come, still   *)
(* in order and without a gap, the results the demultiplexer has not read  *)
(* and then the commands the server has not answered (Coming): the next    *)
(* result it reads is always the one after Base.                           *)
(***************************************************************************)
Owed == \E t \in Callers : caller[t].at = "waiting" /\ Answerable(t)

Taken == written - given_up + undone - (IF Owed THEN 1 ELSE 0)

Base == Taken + Len(cmd_response)

Counted ==
  /\ Taken \in Nat
  /\ \A i \in 1 .. Len(cmd_response) : cmd_response[i] = Taken + i
  /\ \A t \in Callers : caller[t].at = "waiting" => caller[t].asked \in {0, written}

Unread == {i \in 1 .. Len(wire) : i > read /\ wire[i].kind = "result"}

Coming ==
  /\ Base <= written
  /\ \A i \in Unread : Base < wire[i].no /\ wire[i].no <= written
  /\ \A i, j \in Unread : i < j => wire[i].no < wire[j].no
  /\ \A i \in 1 .. Len(lines) : Base < lines[i] /\ lines[i] <= written
  /\ \A i, j \in 1 .. Len(lines) : i < j => lines[i] < lines[j]
  /\ \A i \in Unread, j \in 1 .. Len(lines) : wire[i].no < lines[j]
  /\ \A k \in Nat : Base < k /\ k <= written =>
       (\E i \in Unread : wire[i].no = k) \/ (\E j \in 1 .. Len(lines) : lines[j] = k)

InTurn == TypeOK /\ Counted /\ Coming

LEMMA InitInTurn == Init => InTurn
<1> SUFFICES ASSUME Init PROVE Counted /\ Coming
  BY InitTypeOK DEF InTurn
<1>2. \A t \in Callers : caller[t].at # "waiting"
  BY DEF Init, Caller
<1>3. /\ written = 0 /\ given_up = 0 /\ undone = 0
      /\ cmd_response = << >> /\ lines = << >> /\ wire = << >>
  BY DEF Init
<1>4. ~Owed
  BY <1>2 DEF Owed
<1>5. Taken = 0 /\ Base = 0 /\ Len(cmd_response) = 0 /\ Len(lines) = 0 /\ Unread = {}
  <2>1. Taken = 0
    <3>1. written = 0 /\ given_up = 0 /\ undone = 0
      BY <1>3
    <3>2. (IF Owed THEN 1 ELSE 0) = 0
      BY <1>4
    <3>3. 0 - 0 + 0 - 0 = 0
      OBVIOUS
    <3>4. QED
      BY <3>1, <3>2, <3>3 DEF Taken
  <2>2. Len(cmd_response) = 0 /\ Len(lines) = 0 /\ Len(wire) = 0
    BY <1>3
  <2>3. Unread = {}
    BY <2>2 DEF Unread
  <2>4. QED
    BY <2>1, <2>2, <2>3 DEF Base
<1>6. QED
  BY <1>2, <1>3, <1>5 DEF Counted, Coming

\* What TypeOK says of the numbers.
LEMMA Numbers ==
  ASSUME TypeOK
  PROVE  /\ written \in Nat /\ given_up \in Nat /\ undone \in Nat /\ Taken \in Int /\ Base \in Int
         /\ Len(cmd_response) \in Nat /\ cmd_response \in Seq(Nat)
         /\ Len(wire) \in Nat /\ wire \in Seq(Line) /\ read \in Nat /\ read <= Len(wire)
         /\ Len(lines) \in Nat /\ lines \in Seq(Nat)
         /\ \A i \in 1 .. Len(wire) : wire[i] \in Line /\ wire[i].no \in Nat
         /\ \A i \in 1 .. Len(lines) : lines[i] \in Nat
         /\ Unread \subseteq 1 .. Len(wire)
<1>1. /\ written \in Nat /\ given_up \in Nat /\ undone \in Nat
      /\ cmd_response \in Seq(Nat) /\ lines \in Seq(Nat)
      /\ wire \in Seq(Line) /\ read \in 0 .. Len(wire)
  BY DEF TypeOK
<1>2. \A i \in 1 .. Len(wire) : wire[i] \in Line
  BY <1>1
<1>3. \A m \in Line : m.no \in Nat
  BY DEF Line
<1>4. QED
  BY <1>1, <1>2, <1>3 DEF Taken, Base, Unread

\* The next result that is read is the one after Base.
LEMMA NextResult ==
  ASSUME InTurn, read < Len(wire), wire[read + 1].kind = "result"
  PROVE  wire[read + 1].no = Base + 1 /\ Base + 1 <= written
<1>1. read + 1 \in Unread
  BY Numbers DEF InTurn, Unread
<1>2. Base < wire[read + 1].no /\ wire[read + 1].no <= written /\ wire[read + 1].no \in Nat
  BY <1>1, Numbers DEF InTurn, Coming
<1>3. Base \in Nat
  BY Numbers DEF InTurn, Counted, Base
<1>4. \A i \in Unread : wire[read + 1].no <= wire[i].no
  <2> SUFFICES ASSUME NEW i \in Unread PROVE wire[read + 1].no <= wire[i].no
    OBVIOUS
  <2>1. i = read + 1 \/ read + 1 < i
    BY Numbers DEF InTurn, Unread
  <2>2. QED
    BY <1>1, <2>1, Numbers DEF InTurn, Coming
<1>5. \A j \in 1 .. Len(lines) : wire[read + 1].no < lines[j]
  BY <1>1 DEF InTurn, Coming
<1>6. (\E i \in Unread : wire[i].no = Base + 1) \/ (\E j \in 1 .. Len(lines) : lines[j] = Base + 1)
  <2>1. Base + 1 \in Nat /\ Base < Base + 1 /\ Base + 1 <= written
    BY <1>2, <1>3, Numbers DEF InTurn
  <2>2. QED
    BY <2>1 DEF InTurn, Coming
<1>7. wire[read + 1].no <= Base + 1
  <2>1. ASSUME NEW i \in Unread, wire[i].no = Base + 1 PROVE wire[read + 1].no <= Base + 1
    BY <1>4, <2>1
  <2>2. ASSUME NEW j \in 1 .. Len(lines), lines[j] = Base + 1 PROVE wire[read + 1].no <= Base + 1
    BY <1>2, <1>3, <1>5, <2>2
  <2>3. QED
    BY <1>6, <2>1, <2>2
<1>8. QED
  BY <1>2, <1>3, <1>7

\* Steps that leave what is on its way alone, but for lines that are not results.
LEMMA ComingStays ==
  ASSUME InTurn, Base' = Base, UNCHANGED <<lines, written>>, Unread' = Unread,
         \A i \in Unread : wire'[i] = wire[i]
  PROVE  Coming'
BY DEF InTurn, Coming

\* The demultiplexer reads a line.
LEMMA ReadInTurn ==
  ASSUME InTurn, ReadLine
  PROVE  Counted' /\ Coming'
<1> DEFINE m == wire[read + 1]
<1>1. Route(m) /\ read < Len(wire) /\ read' = read + 1 /\ UNCHANGED <<lines, wire, up>>
  BY DEF ReadLine
<1>2. UNCHANGED <<written, given_up, undone, caller>> /\ Taken' = Taken
  BY <1>1 DEF Route, Taken, Owed, Answerable
<1>3. read + 1 \in 1 .. Len(wire)
  BY <1>1, Numbers DEF InTurn
<1>4. CASE m.kind = "result"
  <2>1. m.no = Base + 1 /\ Base + 1 <= written
    BY <1>1, <1>4, NextResult
  <2>2. cmd_response' = Append(cmd_response, m.no)
    BY <1>1, <1>4 DEF Route
  <2> HIDE DEF m
  <2>3. /\ Len(cmd_response') = Len(cmd_response) + 1
        /\ \A i \in 1 .. Len(cmd_response) : cmd_response'[i] = cmd_response[i]
        /\ cmd_response'[Len(cmd_response) + 1] = Base + 1
    BY <2>1, <2>2, Numbers, AppendProperties DEF InTurn, Counted, Base
  <2>4. Base' = Base + 1
    BY <1>2, <2>3, Numbers DEF Base, InTurn
  <2>5. Counted'
    <3>1. \A i \in 1 .. Len(cmd_response') : cmd_response'[i] = Taken + i
      <4> SUFFICES ASSUME NEW i \in 1 .. Len(cmd_response') PROVE cmd_response'[i] = Taken + i
        OBVIOUS
      <4>1. i \in 1 .. Len(cmd_response) \/ i = Len(cmd_response) + 1
        BY <2>3, Numbers DEF InTurn
      <4>2. CASE i \in 1 .. Len(cmd_response)
        BY <2>3, <4>2 DEF InTurn, Counted
      <4>3. CASE i = Len(cmd_response) + 1
        BY <2>3, <4>3, Numbers DEF InTurn, Base
      <4>4. QED
        BY <4>1, <4>2, <4>3
    <3>2. QED
      BY <1>2, <3>1 DEF Counted, InTurn
  <2>6. Unread' = Unread \ {read + 1}
    BY <1>1, Numbers DEF Unread, InTurn
  <2>7. read + 1 \in Unread /\ wire[read + 1].no = Base + 1
    BY <1>3, <1>4, <2>1, Numbers DEF Unread, InTurn, m
  <2>8. \A i \in Unread' : Base + 1 < wire[i].no
    <3> SUFFICES ASSUME NEW i \in Unread' PROVE Base + 1 < wire[i].no
      OBVIOUS
    <3>1. i \in Unread /\ read + 1 < i
      BY <1>1, <2>6, Numbers DEF InTurn, Unread
    <3>2. QED
      BY <2>7, <3>1 DEF InTurn, Coming
  <2>9. \A i \in 1 .. Len(lines) : Base + 1 < lines[i]
    BY <2>7 DEF InTurn, Coming
  <2>10. ASSUME NEW k \in Nat, Base + 1 < k, k <= written
         PROVE  (\E i \in Unread' : wire[i].no = k) \/ (\E j \in 1 .. Len(lines) : lines[j] = k)
    <3>1. Base < k /\ k # wire[read + 1].no
      BY <2>7, <2>10, Numbers DEF InTurn
    <3>2. (\E i \in Unread : wire[i].no = k) \/ (\E j \in 1 .. Len(lines) : lines[j] = k)
      BY <2>10, <3>1 DEF InTurn, Coming
    <3>3. QED
      BY <2>6, <3>1, <3>2
  <2>11. QED
    BY <1>1, <1>2, <2>1, <2>4, <2>5, <2>6, <2>8, <2>9, <2>10, Numbers DEF InTurn, Coming
<1>5. CASE m.kind # "result"
  <2>1. UNCHANGED cmd_response
    BY <1>1, <1>5 DEF Route
  <2>2. Unread' = Unread
    BY <1>1, <1>3, <1>5, Numbers DEF Unread, InTurn
  <2>3. Base' = Base /\ Counted'
    BY <1>2, <2>1 DEF Base, InTurn, Counted
  <2>4. QED
    BY <1>1, <1>2, <2>2, <2>3, ComingStays
<1>6. QED
  BY <1>4, <1>5

\* The server answers the oldest command.
LEMMA AnswerInTurn ==
  ASSUME InTurn, ServerAnswers
  PROVE  Counted' /\ Coming'
<1> DEFINE k == Head(lines)
           n == Len(wire) + 1
<1>1. lines # << >> /\ lines' = Tail(lines) /\ wire' = Append(wire, Result(k))
      /\ UNCHANGED <<read, ends, routes, commands>>
  BY DEF ServerAnswers, ServerSends
<1>2. Taken' = Taken /\ Base' = Base /\ Counted' /\ UNCHANGED written
  BY <1>1 DEF Taken, Owed, Answerable, Base, commands, InTurn, Counted
<1>3. k \in Nat /\ k = lines[1] /\ Len(lines) >= 1 /\ Len(lines') = Len(lines) - 1
      /\ \A i \in 1 .. Len(lines') : lines'[i] = lines[i + 1]
  BY <1>1, Numbers, HeadTailProperties, EmptySeq DEF InTurn
<1>4. /\ Len(wire') = n /\ wire'[n].no = k /\ wire'[n].kind = "result"
      /\ \A i \in 1 .. Len(wire) : wire'[i] = wire[i]
  BY <1>1, <1>3, Numbers, LinesAreLines, AppendProperties DEF InTurn, Result
<1> HIDE DEF k
<1>5. Unread' = Unread \union {n} /\ n \notin Unread
  <2>1. 1 .. Len(wire') = (1 .. Len(wire)) \union {n} /\ n > read /\ n \notin 1 .. Len(wire)
        /\ UNCHANGED read
    BY <1>1, <1>4, Numbers DEF InTurn
  <2>2. QED
    BY <1>4, <2>1 DEF Unread
<1>6. \A i \in Unread : wire'[i] = wire[i] /\ i < n /\ wire[i].no < k
  BY <1>3, <1>4, Numbers DEF InTurn, Unread, Coming
<1>7. Base < k /\ k <= written
  BY <1>3, Numbers DEF InTurn, Coming
<1>8. \A i \in 1 .. Len(lines') : k < lines'[i] /\ Base < lines'[i] /\ lines'[i] <= written
  <2> SUFFICES ASSUME NEW i \in 1 .. Len(lines')
               PROVE  k < lines'[i] /\ Base < lines'[i] /\ lines'[i] <= written
    OBVIOUS
  <2>1. 1 \in 1 .. Len(lines) /\ i + 1 \in 1 .. Len(lines) /\ 1 < i + 1 /\ lines'[i] = lines[i + 1]
    BY <1>3, Numbers DEF InTurn
  <2>2. QED
    BY <1>3, <2>1 DEF InTurn, Coming
<1>9. \A i \in Unread' : Base < wire'[i].no /\ wire'[i].no <= written
  BY <1>4, <1>5, <1>6, <1>7, Numbers DEF InTurn, Coming
<1>10. \A i, j \in Unread' : i < j => wire'[i].no < wire'[j].no
  <2> SUFFICES ASSUME NEW i \in Unread', NEW j \in Unread', i < j
               PROVE  wire'[i].no < wire'[j].no
    OBVIOUS
  <2>1. n \in Nat /\ j <= n
    BY <1>5, <1>6, Numbers DEF InTurn
  <2>2. i \in Nat /\ j \in Nat /\ i \in Unread
    BY <1>5, <2>1, Numbers DEF InTurn
  <2>3. CASE j \in Unread
    BY <1>6, <2>2, <2>3 DEF InTurn, Coming
  <2>4. CASE j = n
    BY <1>4, <1>6, <2>2, <2>4
  <2>5. QED
    BY <1>5, <2>3, <2>4
<1>11. \A i, j \in 1 .. Len(lines') : i < j => lines'[i] < lines'[j]
  <2> SUFFICES ASSUME NEW i \in 1 .. Len(lines'), NEW j \in 1 .. Len(lines'), i < j
               PROVE  lines'[i] < lines'[j]
    OBVIOUS
  <2>1. i + 1 \in 1 .. Len(lines) /\ j + 1 \in 1 .. Len(lines) /\ i + 1 < j + 1
    <3>1. Len(lines) \in Nat /\ Len(lines') = Len(lines) - 1
      BY <1>3, Numbers DEF InTurn
    <3>2. QED
      BY <3>1
  <2>2. lines'[i] = lines[i + 1] /\ lines'[j] = lines[j + 1]
    BY <1>3
  <2>3. QED
    BY <2>1, <2>2 DEF InTurn, Coming
<1>12. \A i \in Unread', j \in 1 .. Len(lines') : wire'[i].no < lines'[j]
  <2> SUFFICES ASSUME NEW i \in Unread', NEW j \in 1 .. Len(lines')
               PROVE  wire'[i].no < lines'[j]
    OBVIOUS
  <2>1. CASE i = n
    BY <1>4, <1>8, <2>1
  <2>2. CASE i \in Unread
    <3>1. j + 1 \in 1 .. Len(lines) /\ lines'[j] = lines[j + 1]
      <4>1. Len(lines') = Len(lines) - 1 /\ lines'[j] = lines[j + 1]
        BY <1>3
      <4>2. Len(lines) \in Nat
        BY Numbers DEF InTurn
      <4>3. QED
        BY <4>1, <4>2
    <3>2. QED
      BY <1>6, <2>2, <3>1 DEF InTurn, Coming
  <2>3. QED
    BY <1>5, <2>1, <2>2
<1>13. ASSUME NEW x \in Nat, Base < x, x <= written
       PROVE  (\E i \in Unread' : wire'[i].no = x) \/ (\E j \in 1 .. Len(lines') : lines'[j] = x)
  <2>1. CASE \E i \in Unread : wire[i].no = x
    BY <1>5, <1>6, <2>1
  <2>2. ASSUME NEW j \in 1 .. Len(lines), lines[j] = x
        PROVE  x = k \/ \E i \in 1 .. Len(lines') : lines'[i] = x
    <3>1. CASE j = 1
      BY <1>3, <2>2, <3>1
    <3>2. CASE j # 1
      <4>1. j - 1 \in 1 .. Len(lines')
        <5>1. Len(lines) \in Nat /\ Len(lines') = Len(lines) - 1
          BY <1>3, Numbers DEF InTurn
        <5>2. QED
          BY <3>2, <5>1
      <4>2. lines'[j - 1] = x
        <5>1. lines'[j - 1] = lines[(j - 1) + 1]
          BY <1>3, <4>1
        <5>2. (j - 1) + 1 = j
          BY Numbers DEF InTurn
        <5>3. QED
          BY <2>2, <5>1, <5>2
      <4>3. QED
        BY <4>1, <4>2
    <3>3. QED
      BY <3>1, <3>2
  <2>3. (\E i \in Unread : wire[i].no = x) \/ (\E j \in 1 .. Len(lines) : lines[j] = x)
    BY <1>13 DEF InTurn, Coming
  <2>4. QED
    BY <1>4, <1>5, <2>1, <2>2, <2>3
<1>14. QED
  BY <1>2, <1>8, <1>9, <1>10, <1>11, <1>12, <1>13 DEF InTurn, Coming

\* A caller writes its command.
LEMMA WriteInTurn ==
  ASSUME InTurn, NEW t \in Callers, WriteCommand(t), lines' = Append(lines, written'),
         UNCHANGED <<wire, read, up>>
  PROVE  Counted' /\ Coming'
<1> USE ClientAssumption
<1>1. /\ caller[t].at = "writing" /\ written' = written + 1
      /\ UNCHANGED <<cmd_response, given_up, undone, wire, read>>
      /\ caller' = [caller EXCEPT ![t] = Caller("waiting", written', 0)]
  BY DEF WriteCommand, Sends
<1>2. written' \in Nat /\ written' # 0 /\ \A u \in Callers : caller[u].at # "waiting"
  BY <1>1, Numbers DEF InTurn, TypeOK
<1>3. caller'[t].at = "waiting" /\ caller'[t].asked = written'
      /\ \A u \in Callers \ {t} : caller'[u] = caller[u]
  BY <1>1, <1>2, CallerMoves DEF InTurn
<1>4. Taken' = Taken /\ Base' = Base
  <2>1. ~Owed /\ Owed'
    BY <1>2, <1>3 DEF Owed, Answerable
  <2>2. QED
    BY <1>1, <2>1, Numbers DEF Taken, Base, InTurn
<1>5. Counted'
  BY <1>1, <1>2, <1>3, <1>4 DEF InTurn, Counted
<1>6. /\ Len(lines') = Len(lines) + 1 /\ lines'[Len(lines) + 1] = written + 1
      /\ \A i \in 1 .. Len(lines) : lines'[i] = lines[i]
  BY <1>1, <1>2, Numbers, AppendProperties DEF InTurn
<1>7. \A i \in 1 .. Len(lines') : i \in 1 .. Len(lines) \/ i = Len(lines) + 1
  <2>1. Len(lines) \in Nat /\ Len(lines') = Len(lines) + 1
    BY <1>6, Numbers DEF InTurn
  <2>2. QED
    BY <2>1
<1>8. Unread' = Unread
  BY <1>1 DEF Unread
<1>9. \A i \in Unread : Base < wire[i].no /\ wire[i].no <= written /\ wire[i].no \in Nat
  BY Numbers DEF InTurn, Coming
<1>10. \A i \in 1 .. Len(lines) : Base < lines[i] /\ lines[i] <= written /\ lines[i] \in Nat
  BY Numbers DEF InTurn, Coming
<1>11. Base <= written /\ Base < written + 1 /\ Base \in Int /\ written \in Nat
  BY Numbers DEF InTurn, Coming
<1>12. \A i, j \in 1 .. Len(lines') : i < j => lines'[i] < lines'[j]
  <2> SUFFICES ASSUME NEW i \in 1 .. Len(lines'), NEW j \in 1 .. Len(lines'), i < j
               PROVE  lines'[i] < lines'[j]
    OBVIOUS
  <2>1. i \in 1 .. Len(lines)
    BY <1>6, Numbers DEF InTurn
  <2>2. CASE j \in 1 .. Len(lines)
    BY <1>6, <2>1, <2>2 DEF InTurn, Coming
  <2>3. CASE j = Len(lines) + 1
    BY <1>6, <1>10, <1>11, <2>1, <2>3
  <2>4. QED
    BY <1>7, <2>2, <2>3
<1>13. \A i \in 1 .. Len(lines') : Base < lines'[i] /\ lines'[i] <= written + 1
  BY <1>6, <1>7, <1>10, <1>11
<1>14. \A i \in Unread, j \in 1 .. Len(lines') : wire[i].no < lines'[j]
  <2> SUFFICES ASSUME NEW i \in Unread, NEW j \in 1 .. Len(lines') PROVE wire[i].no < lines'[j]
    OBVIOUS
  <2>1. CASE j \in 1 .. Len(lines)
    BY <1>6, <2>1 DEF InTurn, Coming
  <2>2. CASE j = Len(lines) + 1
    BY <1>6, <1>9, <1>11, <2>2
  <2>3. QED
    BY <1>7, <2>1, <2>2
<1>15. ASSUME NEW k \in Nat, Base < k, k <= written + 1
       PROVE  (\E i \in Unread : wire[i].no = k) \/ (\E j \in 1 .. Len(lines') : lines'[j] = k)
  <2>1. CASE k <= written
    <3>1. (\E i \in Unread : wire[i].no = k) \/ (\E j \in 1 .. Len(lines) : lines[j] = k)
      BY <1>15, <2>1 DEF InTurn, Coming
    <3>2. 1 .. Len(lines) \subseteq 1 .. Len(lines')
      BY <1>6, Numbers DEF InTurn
    <3>3. QED
      BY <1>6, <3>1, <3>2
  <2>2. CASE k = written + 1
    <3>1. Len(lines) + 1 \in 1 .. Len(lines')
      BY <1>6, Numbers DEF InTurn
    <3>2. QED
      BY <1>6, <2>2, <3>1
  <2>3. QED
    BY <1>11, <1>15, <2>1, <2>2
<1>16. \A i \in Unread : Base < wire[i].no /\ wire[i].no <= written + 1
  BY <1>9, <1>11
<1>17. Coming'
  <2> SUFFICES /\ Base <= written + 1
               /\ \A i \in Unread : Base < wire[i].no /\ wire[i].no <= written + 1
               /\ \A i, j \in Unread : i < j => wire[i].no < wire[j].no
               /\ \A i \in 1 .. Len(lines') : Base < lines'[i] /\ lines'[i] <= written + 1
               /\ \A i, j \in 1 .. Len(lines') : i < j => lines'[i] < lines'[j]
               /\ \A i \in Unread, j \in 1 .. Len(lines') : wire[i].no < lines'[j]
               /\ \A k \in Nat : Base < k /\ k <= written + 1 =>
                    \/ \E i \in Unread : wire[i].no = k
                    \/ \E j \in 1 .. Len(lines') : lines'[j] = k
    BY <1>1, <1>4, <1>8, Zenon DEF Coming
  <2>1. Base <= written + 1
    BY <1>11
  <2>2. \A i, j \in Unread : i < j => wire[i].no < wire[j].no
    BY DEF InTurn, Coming
  <2>3. QED
    BY <1>12, <1>13, <1>14, <1>15, <1>16, <2>1, <2>2
<1>18. QED
  BY <1>5, <1>17

\* Whatever else a caller does leaves what is on its way to the others alone.
LEMMA CommandInTurn ==
  ASSUME InTurn, NEW t \in Callers, Command(t)
  PROVE  Counted' /\ Coming'
<1> USE ClientAssumption
<1>1. caller[t].asked \in Nat /\ \A u, v \in Callers :
        caller[u].at = "waiting" /\ caller[v].at = "waiting" => u = v
  BY DEF InTurn, TypeOK
<1>2. ASSUME NEW s \in {"idle", "locking", "writing", "waiting"}, NEW k \in Nat, UNCHANGED link,
             caller[t].at # "waiting", s = "waiting" => k = 0, Sends(t, s, k),
             UNCHANGED <<cmd_response, written, given_up, undone>>
      PROVE  Counted' /\ Coming'
  <2>1. caller' = [caller EXCEPT ![t] = Caller(s, k, 0)]
    BY <1>2 DEF Sends
  <2>2. /\ caller'[t].at = s /\ caller'[t].asked = k
        /\ \A u \in Callers \ {t} : caller'[u] = caller[u]
    BY <1>2, <2>1, CallerMoves DEF InTurn
  <2>3. Owed' = Owed
    BY <1>2, <2>2 DEF Owed, Answerable
  <2>4. Taken' = Taken /\ Base' = Base
    BY <1>2, <2>3 DEF Taken, Base
  <2>5. Unread' = Unread
    BY <1>2 DEF Unread, link
  <2>6. Counted'
    <3>1. \A u \in Callers : caller'[u].at = "waiting" => caller'[u].asked \in {0, written}
      BY <1>2, <2>2 DEF InTurn, Counted
    <3>2. QED
      BY <1>2, <2>4, <3>1 DEF InTurn, Counted
  <2>7. QED
    BY <1>2, <2>4, <2>5, <2>6, ComingStays DEF link
\* The caller stops waiting.
<1>3. ASSUME caller[t].at = "waiting", UNCHANGED <<link, written>>, NEW r \in Nat,
             caller' = [caller EXCEPT ![t] = Caller("idle", caller[t].asked, r)]
      PROVE  /\ (Owed <=> Answerable(t)) /\ ~Owed' /\ Unread' = Unread
             /\ \A u \in Callers : caller'[u].at # "waiting"
  <2>1. caller'[t].at # "waiting" /\ \A u \in Callers \ {t} : caller'[u] = caller[u]
    BY <1>1, <1>3, CallerMoves DEF InTurn
  <2>2. \A u \in Callers : caller'[u].at # "waiting"
    BY <1>1, <1>3, <2>1
  <2>3. (Owed <=> Answerable(t)) /\ ~Owed'
    BY <1>1, <1>3, <2>2 DEF Owed
  <2>4. QED
    BY <1>3, <2>2, <2>3 DEF Unread, link
<1>4. CASE ReceiveResult(t) /\ UNCHANGED link
  <2>1. /\ caller[t].at = "waiting" /\ UNCHANGED <<link, written, given_up>>
        /\ cmd_response # << >> /\ cmd_response' = Tail(cmd_response)
        /\ undone' = IF Answerable(t) THEN undone ELSE undone + 1
        /\ caller' = [caller EXCEPT ![t] = Caller("idle", caller[t].asked, Head(cmd_response))]
    BY <1>4 DEF ReceiveResult
  <2>2. /\ Head(cmd_response) \in Nat /\ Len(cmd_response') = Len(cmd_response) - 1
        /\ \A i \in 1 .. Len(cmd_response') : cmd_response'[i] = cmd_response[i + 1]
    BY <2>1, Numbers, HeadTailProperties DEF InTurn
  <2>3. /\ (Owed <=> Answerable(t)) /\ ~Owed' /\ Unread' = Unread
        /\ \A u \in Callers : caller'[u].at # "waiting"
    BY <1>3, <2>1, <2>2
  <2>4. Taken' = Taken + 1 /\ Base' = Base
    <3>1. Taken' = Taken + 1
      BY <2>1, <2>3, Numbers DEF Taken, InTurn
    <3>2. QED
      BY <2>2, <3>1, Numbers DEF Base, InTurn
  <2>5. ASSUME NEW i \in 1 .. Len(cmd_response') PROVE cmd_response'[i] = Taken + 1 + i
    <3>1. i + 1 \in 1 .. Len(cmd_response)
      BY <2>2, Numbers DEF InTurn
    <3>2. cmd_response[i + 1] = Taken + (i + 1)
      BY <3>1 DEF InTurn, Counted
    <3>3. QED
      BY <2>2, <3>2, Numbers DEF InTurn
  <2>6. Counted'
    BY <2>3, <2>4, <2>5 DEF InTurn, Counted
  <2>7. QED
    BY <2>1, <2>3, <2>4, <2>6, ComingStays DEF link
<1>5. ASSUME GiveUp(t), UNCHANGED link PROVE Counted' /\ Coming'
  <2>1. /\ caller[t].at = "waiting" /\ UNCHANGED <<link, written, cmd_response, undone>>
        /\ given_up' = IF Answerable(t) THEN given_up + 1 ELSE given_up
        /\ caller' = [caller EXCEPT ![t] = Caller("idle", caller[t].asked, 0)]
    BY <1>5 DEF GiveUp, Sends
  <2>2. /\ (Owed <=> Answerable(t)) /\ ~Owed' /\ Unread' = Unread
        /\ \A u \in Callers : caller'[u].at # "waiting"
    BY <1>3, <2>1
  <2>3. Taken' = Taken /\ Base' = Base
    <3>1. Taken' = Taken
      BY <2>1, <2>2, Numbers DEF Taken, InTurn
    <3>2. QED
      BY <2>1, <3>1 DEF Base
  <2>4. Counted'
    BY <2>1, <2>2, <2>3 DEF InTurn, Counted
  <2>5. QED
    BY <2>1, <2>2, <2>3, <2>4, ComingStays DEF link
<1>6. CASE SendCommand(t) /\ UNCHANGED link
  BY <1>2, <1>6 DEF SendCommand
<1>7. CASE TakeLock(t) /\ UNCHANGED link
  BY <1>2, <1>7 DEF TakeLock
<1>8. CASE up /\ WriteSpoilt(t) /\ UNCHANGED link
  BY <1>2, <1>8 DEF WriteSpoilt
<1>9. CASE ~up /\ WriteFails(t) /\ UNCHANGED link
  BY <1>2, <1>9 DEF WriteFails, Leave
<1>10. CASE TimeOut(t) /\ UNCHANGED link
  BY <1>5, <1>10 DEF TimeOut
<1>11. CASE Cancel(t) /\ UNCHANGED link
  BY <1>2, <1>5, <1>11 DEF Cancel, Leave
<1>12. QED
  BY <1>4, <1>6, <1>7, <1>8, <1>9, <1>10, <1>11, WriteInTurn DEF Command

\* Every step keeps the results in turn.
LEMMA NextInTurn == InTurn /\ [Next]_vars => InTurn'
<1> SUFFICES ASSUME InTurn, [Next]_vars PROVE Counted' /\ Coming'
  BY NextTyped DEF InTurn
<1>1. ASSUME UNCHANGED <<lines, wire, read, commands>> PROVE Counted' /\ Coming'
  <2>1. Taken' = Taken /\ Base' = Base /\ Unread' = Unread /\ Counted'
    BY <1>1 DEF Taken, Owed, Answerable, Base, Unread, commands, InTurn, Counted
  <2>2. QED
    BY <1>1, <2>1, ComingStays DEF commands
<1>2. CASE UNCHANGED vars
  BY <1>1, <1>2 DEF vars, link
<1>3. CASE Demux
  BY <1>1, <1>3, ReadInTurn DEF Demux, Eof, LoseConnection, NotifyLoss, Abort, link
<1>4. CASE Application
  <2>1. CASE SendStdin /\ UNCHANGED link
    <3>1. UNCHANGED <<link, cmd_response, caller, written, given_up, undone>>
      BY <2>1 DEF SendStdin
    <3>2. Taken' = Taken /\ Base' = Base /\ Unread' = Unread /\ Counted'
      BY <3>1 DEF Taken, Owed, Answerable, Base, Unread, link, InTurn, Counted
    <3>3. QED
      BY <3>1, <3>2, ComingStays DEF link
  <2>2. QED
    BY <1>1, <1>4, <2>1, CommandInTurn
       DEF Application, RegisterProcess, UnregisterProcess, Close, link
<1>5. CASE ServerOutputs
  <2>1. PICK m \in Line : m.kind # "result" /\ ServerSends(m) /\ UNCHANGED lines
    <3>1. Len(wire) + 1 \in Nat
      BY Numbers DEF InTurn
    <3>2. /\ Garbage(Len(wire) + 1).kind # "result"
          /\ \A n \in Names : Output(n, Len(wire) + 1).kind # "result"
      BY DEF Garbage, Output
    <3>3. QED
      BY <1>5, <3>1, <3>2, LinesAreLines DEF ServerOutputs
  <2>2. wire' = Append(wire, m) /\ UNCHANGED <<lines, read, commands>>
    BY <2>1 DEF ServerSends
  <2>3. /\ Len(wire') = Len(wire) + 1 /\ wire'[Len(wire) + 1] = m
        /\ \A i \in 1 .. Len(wire) : wire'[i] = wire[i]
    BY <2>2, Numbers, AppendProperties DEF InTurn
  <2>4. 1 .. Len(wire') = (1 .. Len(wire)) \union {Len(wire) + 1}
    BY <2>3, Numbers DEF InTurn
  <2>5. Unread' = Unread
    BY <2>1, <2>2, <2>3, <2>4 DEF Unread
  <2>6. Taken' = Taken /\ Base' = Base /\ Counted'
    BY <2>2 DEF Taken, Owed, Answerable, Base, commands, InTurn, Counted
  <2>7. QED
    BY <2>2, <2>3, <2>5, <2>6, ComingStays, Numbers DEF InTurn, commands
<1>6. CASE ServerGone
  BY <1>1, <1>6 DEF ServerGone
<1>7. QED
  BY <1>2, <1>3, <1>4, <1>5, <1>6, AnswerInTurn DEF Next, Server, Rests

\* The next result in the channel belongs to the waiting caller, but for one
\* command for each that was given up, less those that the spoilt have taken.
LEMMA InTurnShifts == InTurn => ResultsShift
<1> SUFFICES ASSUME InTurn, NEW t \in Callers, caller[t].at = "waiting", Answerable(t),
                    cmd_response # << >>
             PROVE  Head(cmd_response) = caller[t].asked - given_up + undone
  BY DEF ResultsShift
<1>1. Owed
  BY DEF Owed
<1>2. 1 \in 1 .. Len(cmd_response) /\ Head(cmd_response) = cmd_response[1]
  BY Numbers, EmptySeq DEF InTurn
<1>3. cmd_response[1] = Taken + 1 /\ caller[t].asked = written
  BY <1>2 DEF InTurn, Counted, Answerable
<1>4. QED
  BY <1>1, <1>2, <1>3, Numbers DEF InTurn, Taken

\* While nobody has given up, nothing is in the channel for a spoilt command
\* to take, and so nothing but his own for whoever else waits.
LEMMA OwnInTurn ==
  ASSUME InTurn, given_up = 0, NEW t \in Callers, caller[t].at = "waiting", cmd_response # << >>
  PROVE  Answerable(t) /\ Head(cmd_response) = caller[t].asked
<1>1. Base <= written /\ Base = Taken + Len(cmd_response) /\ Len(cmd_response) >= 1
  BY Numbers, EmptySeq DEF InTurn, Coming, Base
<1>2. Owed
  BY <1>1, Numbers DEF InTurn, Taken
<1>3. PICK u \in Callers : caller[u].at = "waiting" /\ Answerable(u)
  BY <1>2 DEF Owed
<1>4. u = t
  BY <1>3 DEF InTurn, TypeOK
<1>5. caller[t].asked = written /\ Head(cmd_response) = caller[t].asked + undone
  BY <1>3, <1>4, InTurnShifts, Numbers DEF ResultsShift, InTurn, Counted, Answerable
<1>6. undone = 0
  BY <1>1, <1>2, Numbers DEF InTurn, Taken
<1>7. QED
  BY <1>3, <1>4, <1>5, <1>6, Numbers DEF InTurn

\* send_command takes a result that is off by the commands given up, less the
\* results that callers with a spoilt command took.
THEOREM ShiftCorrect == Spec => []ResultsShift
<1>1. QED
  BY InitInTurn, NextInTurn, InTurnShifts, PTL DEF Spec

\* A caller that receives a result while nobody has given up gets its own.
LEMMA NextIsOwn == InTurn /\ ResultIsOwn /\ [Next]_vars => ResultIsOwn'
<1> SUFFICES ASSUME InTurn, ResultIsOwn, [Next]_vars, given_up' = 0, NEW u \in Callers
             PROVE  caller'[u].got # 0 => caller'[u].got = caller'[u].asked
  BY DEF ResultIsOwn
<1>1. given_up \in Nat
  BY Numbers DEF InTurn
<1>2. ASSUME given_up = 0, caller'[u] = caller[u]
      PROVE  caller'[u].got # 0 => caller'[u].got = caller'[u].asked
  BY <1>2 DEF ResultIsOwn
<1>3. CASE UNCHANGED <<caller, given_up>>
  BY <1>2, <1>3
<1>4. ASSUME NEW t \in Callers, Command(t)
      PROVE  caller'[u].got # 0 => caller'[u].got = caller'[u].asked
  <2>1. ASSUME NEW s \in {"idle", "locking", "writing", "waiting"}, NEW k \in Nat, NEW r \in Nat,
               caller' = [caller EXCEPT ![t] = Caller(s, k, r)],
               UNCHANGED given_up, r # 0 => r = k
        PROVE  caller'[u].got # 0 => caller'[u].got = caller'[u].asked
    <3>1. TypeOK
      BY DEF InTurn
    <3>2. caller' = [caller EXCEPT ![t] = Caller(s, k, r)]
      BY <2>1
    <3>3. caller'[t].got = r
      BY <3>1, <3>2 DEF TypeOK, Caller
    <3>4. caller'[t].asked = k
      BY <3>1, <3>2, CallerMoves
    <3>5. \A x \in Callers \ {t} : caller'[x] = caller[x]
      BY <3>1, <3>2, CallerMoves
    <3>6. QED
      BY <1>2, <2>1, <3>3, <3>4, <3>5
  <2>2. written + 1 \in Nat /\ caller[t].asked \in Nat
    BY Numbers DEF InTurn, TypeOK
  <2>3. GiveUp(t) => ~Answerable(t) /\ UNCHANGED given_up
    BY <1>1 DEF GiveUp
  <2>4. CASE ReceiveResult(t)
    <3>1. /\ caller[t].at = "waiting" /\ cmd_response # << >> /\ UNCHANGED given_up
          /\ caller' = [caller EXCEPT ![t] = Caller("idle", caller[t].asked, Head(cmd_response))]
      BY <2>4 DEF ReceiveResult
    <3>2. Head(cmd_response) = caller[t].asked
      BY <3>1, OwnInTurn
    <3>3. QED
      BY <2>1, <2>2, <3>1, <3>2
  <2>5. ASSUME NEW s \in {"idle", "locking", "writing", "waiting"}, NEW k \in Nat,
               Sends(t, s, k), UNCHANGED given_up
        PROVE  caller'[u].got # 0 => caller'[u].got = caller'[u].asked
    BY <2>1, <2>5 DEF Sends
  <2>6. CASE WriteCommand(t)
    <3>1. Sends(t, "waiting", written + 1) /\ UNCHANGED given_up
      BY <2>6 DEF WriteCommand
    <3>2. QED
      BY <2>2, <2>5, <3>1
  <2>7. CASE GiveUp(t)
    <3>1. Sends(t, "idle", caller[t].asked)
      BY <2>7 DEF GiveUp
    <3>2. QED
      BY <2>2, <2>3, <2>5, <2>7, <3>1
  <2>8. CASE SendCommand(t) \/ TakeLock(t) \/ WriteSpoilt(t)
    BY <2>5, <2>8 DEF SendCommand, TakeLock, WriteSpoilt
  <2>9. CASE Leave(t)
    BY <2>5, <2>9 DEF Leave
  <2>10. QED
    BY <1>4, <2>4, <2>6, <2>7, <2>8, <2>9 DEF Command, TimeOut, WriteFails, Cancel
<1>5. CASE Demux
  BY <1>3, <1>5 DEF Demux, ReadLine, Route, Eof, LoseConnection, NotifyLoss, Abort, commands
<1>6. CASE Application
  BY <1>3, <1>4, <1>6
     DEF Application, RegisterProcess, UnregisterProcess, SendStdin, Close, commands
<1>7. CASE Server
  BY <1>3, <1>7 DEF Server, ServerAnswers, ServerOutputs, ServerSends, ServerGone, commands
<1>8. CASE UNCHANGED vars
  BY <1>3, <1>8 DEF vars, commands
<1>9. QED
  BY <1>5, <1>6, <1>7, <1>8 DEF Next, Rests

\* As long as nobody gave up, every caller got the result of its own command.
THEOREM OwnCorrect == Spec => []ResultIsOwn
<1>1. Init => ResultIsOwn
  BY DEF Init, ResultIsOwn, Caller
<1>2. QED
  BY <1>1, InitInTurn, NextInTurn, NextIsOwn, PTL DEF Spec

-----------------------------------------------------------------------------
(* The loss of the connection *)

\* A queue was told when ConnectionLost is the last thing sent to it.
LEMMA ToldByLast ==
  ASSUME NEW q \in Queues, NEW s \in Seq(Line), queue'[q].got = Append(s, Lost)
  PROVE  Told(q)'
<1>1. /\ Len(s) \in Nat /\ Append(s, Lost) \in Seq(Line)
      /\ Len(Append(s, Lost)) = Len(s) + 1 /\ Append(s, Lost)[Len(s) + 1] = Lost
  BY LinesAreLines, AppendProperties
<1>2. Len(s) + 1 \in DOMAIN queue'[q].got /\ queue'[q].got[Len(s) + 1] = Lost
  BY <1>1
<1>3. QED
  BY <1>2 DEF Told

\* Only the demultiplexer ends itself, and only RegisterProcess, which sets
\* late when that has happened, gives a queue to a name.
LEMMA NextTold == TypeOK /\ LossIsTold /\ [Next]_vars => LossIsTold'
<1> SUFFICES ASSUME TypeOK, LossIsTold, [Next]_vars, demux' = "ended",
                    NEW q \in Queues, Registered(q)'
             PROVE  Told(q)' \/ queue'[q].late
  BY DEF LossIsTold
<1> USE ClientAssumption
<1>0. queue \in [Queues -> QueueRec] /\ process_queues \in [Names -> Queues \union {NoQueue}]
  BY DEF TypeOK, QueueRec
<1>1. PICK n \in Names : process_queues'[n] = q
  BY DEF Registered
<1>2. ASSUME demux = "ended", Registered(q), queue'[q] = queue[q]
      PROVE  Told(q)' \/ queue'[q].late
  BY <1>2 DEF LossIsTold, Told
<1>3. CASE UNCHANGED <<demux, routes>>
  BY <1>1, <1>2, <1>3 DEF Registered, routes
<1>4. CASE NotifyLoss
  <2>1. process_queues[n] = q
    BY <1>1, <1>4 DEF NotifyLoss, Senders
  <2>2. queue'[q] = [queue[q] EXCEPT !.got = Append(queue[q].got, Lost)]
    BY <1>4, <2>1 DEF NotifyLoss, Registered
  <2>3. queue'[q].got = Append(queue[q].got, Lost) /\ queue[q].got \in Seq(Line)
    BY <1>0, <2>2, Appended, LinesAreLines DEF QueueRec
  <2>4. QED
    BY <2>3, ToldByLast
<1>5. ASSUME NEW m \in Names, NEW r \in Queues, RegisterProcess(m, r)
      PROVE  Told(q)' \/ queue'[q].late
  <2>1. /\ demux = "ended" /\ process_queues' = [process_queues EXCEPT ![m] = r]
        /\ queue' = [queue EXCEPT ![r] = [name |-> m, late |-> TRUE, got |-> << >>]]
    BY <1>5 DEF RegisterProcess, ends
  <2>2. CASE q = r
    BY <1>0, <2>1, <2>2
  <2>3. CASE q # r
    BY <1>0, <1>1, <1>2, <2>1, <2>3 DEF Registered
  <2>4. QED
    BY <2>2, <2>3
<1>6. ASSUME NEW m \in Names, UnregisterProcess(m) PROVE Told(q)' \/ queue'[q].late
  BY <1>0, <1>1, <1>2, <1>6 DEF UnregisterProcess, Registered, ends
<1>7. CASE Close
  BY <1>0, <1>1, <1>2, <1>7 DEF Close, Senders, Registered
<1>8. ~(ReadLine \/ Eof \/ Abort)
  BY DEF ReadLine, Route, Eof, LoseConnection, Abort, ends
<1>9. ASSUME NEW t \in Callers, Command(t) PROVE UNCHANGED <<demux, routes>>
  BY <1>9 DEF Command, SendCommand, TakeLock, WriteCommand, WriteSpoilt, WriteFails, Leave,
              ReceiveResult, TimeOut, GiveUp, Cancel, ends
<1>10. CASE Server
  BY <1>3, <1>10 DEF Server, ServerAnswers, ServerOutputs, ServerSends, ServerGone, ends
<1>11. CASE UNCHANGED vars
  BY <1>3, <1>11 DEF vars, ends
<1>12. QED
  BY <1>3, <1>4, <1>5, <1>6, <1>7, <1>8, <1>9, <1>10, <1>11
     DEF Next, Demux, Application, SendStdin, ends, routes, Rests

\* Whoever is registered when the demultiplexer has ended knows of the loss,
\* unless it was registered after that.
THEOREM LossCorrect == Spec => []LossIsTold
<1>1. Init => LossIsTold
  BY DEF Init, LossIsTold
<1>2. QED
  BY <1>1, InitTypeOK, NextTyped, NextTold, PTL DEF Spec

-----------------------------------------------------------------------------
(***************************************************************************)
(* Queues.  A queue that is registered is in the table under its own name, *)
(* and until the demultiplexer has ended nothing in it is ConnectionLost,  *)
(* so that a message is appended to nothing but earlier messages.          *)
(***************************************************************************)
\* An output is numbered with its position on the connection.
Placed ==
  \A k \in 1 .. Len(wire) : wire[k].kind = "output" => wire[k].no = k /\ wire[k].name \in Names

Routed ==
  \A n \in Names : process_queues[n] # NoQueue => queue[process_queues[n]].name = n

ToldAtEnd == \A q \in Queues : Told(q) => demux = "ended"

InOrder(q) ==
  /\ \A a \in DOMAIN queue[q].got : queue[q].got[a] = Lost => a = Len(queue[q].got)
  /\ \A a, b \in Heard(q) : a < b => queue[q].got[a].no < queue[q].got[b].no

\* What q heard is what was sent for its name among the lines i+1 .. j.
Spans(q, i, j) ==
  {queue[q].got[a] : a \in Heard(q)} = {wire[k] : k \in Outputs(queue[q].name, i, j)}

Stream(q) ==
  /\ InOrder(q)
  /\ \E i, j \in 0 .. read : (Registered(q) => j = read) /\ Spans(q, i, j)

StreamInv ==
  TypeOK /\ Placed /\ Routed /\ ToldAtEnd
         /\ \A q \in Queues : queue[q].name # NoName => Stream(q)

\* What was read stays as it was sent.
WireGrows ==
  /\ read' \in Nat /\ read <= read' /\ read' <= Len(wire') /\ Len(wire) <= Len(wire')
  /\ \A k \in 1 .. Len(wire) : wire'[k] = wire[k]

LEMMA GotTyped ==
  ASSUME TypeOK, NEW q \in Queues
  PROVE  /\ queue[q].got \in Seq(Line) /\ Len(queue[q].got) \in Nat
         /\ DOMAIN queue[q].got = 1 .. Len(queue[q].got)
         /\ wire \in Seq(Line) /\ Len(wire) \in Nat /\ read \in 0 .. Len(wire)
BY DEF TypeOK

LEMMA SpansStay ==
  ASSUME TypeOK, NEW q \in Queues, queue'[q] = queue[q], WireGrows,
         NEW i \in 0 .. read, NEW j \in 0 .. read, Spans(q, i, j)
  PROVE  Spans(q, i, j)'
<1>1. Heard(q)' = Heard(q)
  BY DEF Heard
<1>2. \A k \in i + 1 .. j : wire'[k] = wire[k]
  BY GotTyped DEF WireGrows
<1>3. Outputs(queue[q].name, i, j)' = Outputs(queue[q].name, i, j)
  BY <1>2 DEF Outputs
<1>4. {wire'[k] : k \in Outputs(queue[q].name, i, j)} = {wire[k] : k \in Outputs(queue[q].name, i, j)}
  BY <1>2 DEF Outputs
<1>5. QED
  BY <1>1, <1>3, <1>4 DEF Spans

\* A queue that gets nothing, from a line that was read or because it is not
\* registered.
LEMMA StreamStays ==
  ASSUME TypeOK, NEW q \in Queues, queue'[q] = queue[q], Stream(q), WireGrows,
         Registered(q)' => Registered(q) /\ read' = read
  PROVE  Stream(q)'
<1>1. PICK i \in 0 .. read, j \in 0 .. read : (Registered(q) => j = read) /\ Spans(q, i, j)
  BY DEF Stream
<1>2. i \in 0 .. read' /\ j \in 0 .. read'
  BY GotTyped DEF WireGrows
<1>3. Spans(q, i, j)'
  BY <1>1, SpansStay
<1>4. InOrder(q)'
  BY DEF Stream, InOrder, Heard
<1>5. QED
  BY <1>1, <1>2, <1>3, <1>4 DEF Stream

LEMMA StreamSkips ==
  ASSUME TypeOK, NEW q \in Queues, queue'[q] = queue[q], Stream(q), Registered(q),
         UNCHANGED wire, read < Len(wire), read' = read + 1,
         ~(wire[read + 1].kind = "output" /\ wire[read + 1].name = queue[q].name)
  PROVE  Stream(q)'
<1>0. Len(wire) \in Nat /\ read \in Nat /\ WireGrows
  BY GotTyped DEF WireGrows
<1>1. PICK i \in 0 .. read, j \in 0 .. read : j = read /\ Spans(q, i, j)
  BY DEF Stream
<1>2. i \in 0 .. read' /\ j + 1 \in 0 .. read' /\ read' = j + 1
  BY <1>0, <1>1
<1>3. Outputs(queue[q].name, i, j + 1) = Outputs(queue[q].name, i, j)
  BY <1>0, <1>1 DEF Outputs
<1>4. Outputs(queue[q].name, i, j + 1)' = Outputs(queue[q].name, i, j + 1)
  BY DEF Outputs
<1>5. Spans(q, i, j + 1)'
  <2>1. Heard(q)' = Heard(q)
    BY DEF Heard
  <2>2. {queue'[q].got[a] : a \in Heard(q)'} = {wire'[k] : k \in Outputs(queue[q].name, i, j + 1)'}
    <3> DEFINE O == Outputs(queue[q].name, i, j)
               H == Heard(q)
    <3>1. Outputs(queue[q].name, i, j + 1)' = O /\ Heard(q)' = H
      BY <1>3, <1>4, <2>1
    <3>2. {queue[q].got[a] : a \in H} = {wire[k] : k \in O}
      BY <1>1 DEF Spans
    <3>3. {queue'[q].got[a] : a \in H} = {queue[q].got[a] : a \in H}
      OBVIOUS
    <3>4. {wire'[k] : k \in O} = {wire[k] : k \in O}
      OBVIOUS
    <3> HIDE DEF O, H
    <3>5. QED
      BY <3>1, <3>2, <3>3, <3>4
  <2>3. QED
    BY <2>2 DEF Spans
<1>6. InOrder(q)'
  BY DEF Stream, InOrder, Heard
<1>7. QED
  BY <1>2, <1>5, <1>6 DEF Stream

\* What is in a queue after one more message.
LEMMA GotAppend ==
  ASSUME NEW s \in Seq(Line), NEW m \in Line
  PROVE  /\ Len(s) \in Nat /\ DOMAIN s = 1 .. Len(s)
         /\ DOMAIN Append(s, m) = 1 .. Len(s) + 1 /\ Len(Append(s, m)) = Len(s) + 1
         /\ Append(s, m)[Len(s) + 1] = m /\ \A a \in 1 .. Len(s) : Append(s, m)[a] = s[a]
OBVIOUS

LEMMA StreamGets ==
  ASSUME TypeOK, Placed, NEW q \in Queues, Stream(q), Registered(q), ~Told(q),
         UNCHANGED wire, read < Len(wire), read' = read + 1,
         wire[read + 1].kind = "output", wire[read + 1].name = queue[q].name,
         queue'[q].name = queue[q].name,
         queue'[q].got = Append(queue[q].got, wire[read + 1])
  PROVE  Stream(q)'
<1> DEFINE m == wire[read + 1]
           s == queue[q].got
           n == Len(s) + 1
<1>0. /\ Len(wire) \in Nat /\ read \in Nat /\ s \in Seq(Line) /\ m \in Line
      /\ m.no = read + 1 /\ m # Lost
  <2>1. read + 1 \in 1 .. Len(wire)
    BY GotTyped
  <2>2. QED
    BY <2>1, GotTyped DEF Placed, Lost
<1> HIDE DEF m, s
<1>1. /\ Len(s) \in Nat /\ DOMAIN s = 1 .. Len(s)
      /\ DOMAIN queue'[q].got = 1 .. n /\ queue'[q].got[n] = m
      /\ \A a \in 1 .. Len(s) : queue'[q].got[a] = s[a]
  BY <1>0, GotAppend DEF m, s
<1>2. \A a \in DOMAIN s : s[a] # Lost
  BY DEF Told, s
<1>3. Heard(q) = 1 .. Len(s) /\ Heard(q)' = 1 .. n
  BY <1>0, <1>1, <1>2 DEF Heard, s
<1>4. PICK i \in 0 .. read, j \in 0 .. read : j = read /\ Spans(q, i, j)
  BY DEF Stream
<1>5. \A a \in 1 .. Len(s) : s[a].no <= read
  <2>1. ASSUME NEW a \in 1 .. Len(s) PROVE s[a].no <= read
    <3>1. PICK k \in Outputs(queue[q].name, i, j) : s[a] = wire[k]
      BY <1>3, <1>4 DEF Spans, s
    <3>2. k \in 1 .. Len(wire) /\ k <= read /\ wire[k].kind = "output"
      BY <1>0, <1>4, <3>1 DEF Outputs
    <3>3. QED
      BY <3>1, <3>2 DEF Placed
  <2>2. QED
    BY <2>1
<1>6. InOrder(q)'
  <2>1. \A a \in DOMAIN queue'[q].got : queue'[q].got[a] # Lost
    BY <1>0, <1>1, <1>2
  <2>2. \A a, b \in 1 .. Len(s) : a < b => s[a].no < s[b].no
    BY <1>3 DEF Stream, InOrder, s
  <2>3. \A a \in 1 .. Len(s) : s[a].no < m.no
    <3>1. \A a \in 1 .. Len(s) : s[a].no \in Nat
      <4>1. \A a \in 1 .. Len(s) : s[a] \in Line
        BY <1>0, <1>1
      <4>2. QED
        BY <4>1 DEF Line
    <3>2. QED
      BY <1>0, <1>5, <3>1
  <2>4. \A a, b \in 1 .. n : a < b => queue'[q].got[a].no < queue'[q].got[b].no
    <3> DEFINE g == queue'[q].got
    <3>1. /\ \A a \in 1 .. Len(s) : g[a] = s[a]
          /\ g[n] = m /\ Len(s) \in Nat
      BY <1>1
    <3> HIDE DEF g
    <3>2. \A a \in 1 .. Len(s) : g[a].no < g[n].no
      BY <2>3, <3>1
    <3>3. \A a, b \in 1 .. Len(s) : a < b => g[a].no < g[b].no
      BY <2>2, <3>1
    <3>4. \A b \in 1 .. n : b \in 1 .. Len(s) \/ b = n
      BY <3>1
    <3>5. \A a, b \in 1 .. n : a < b => a \in 1 .. Len(s)
      BY <3>1
    <3> HIDE DEF n
    <3>6. \A a, b \in 1 .. n : a < b => g[a].no < g[b].no
      BY <3>2, <3>3, <3>4, <3>5
    <3>7. QED
      BY <3>6 DEF g
  <2>5. QED
    BY <1>3, <2>1, <2>4 DEF InOrder
<1>7. Spans(q, i, j + 1)'
  <2>1. Outputs(queue[q].name, i, j + 1)' = Outputs(queue[q].name, i, j) \union {j + 1}
    <3>1. Outputs(queue[q].name, i, j + 1)' = Outputs(queue[q].name, i, j + 1)
      BY DEF Outputs
    <3>2. i + 1 .. j + 1 = (i + 1 .. j) \union {j + 1}
      BY <1>0, <1>4
    <3>3. QED
      BY <1>4, <3>1, <3>2 DEF Outputs
  <2>2. {wire[k] : k \in Outputs(queue[q].name, i, j) \union {j + 1}}
          = {wire[k] : k \in Outputs(queue[q].name, i, j)} \union {m}
    BY <1>4 DEF m
  <2>3. {queue'[q].got[a] : a \in 1 .. n} = {s[a] : a \in 1 .. Len(s)} \union {m}
    <3> DEFINE A == 1 .. Len(s)
               g == queue'[q].got
    <3>1. 1 .. n = A \union {n}
      BY <1>1
    <3>2. g[n] = m /\ \A a \in A : g[a] = s[a]
      BY <1>1
    <3> HIDE DEF n, A, g
    <3>3. {g[a] : a \in A \union {n}} = {s[a] : a \in A} \union {m}
      BY <3>2
    <3>4. QED
      BY <3>1, <3>3 DEF A, g
  <2>4. {s[a] : a \in 1 .. Len(s)} = {wire[k] : k \in Outputs(queue[q].name, i, j)}
    BY <1>3, <1>4 DEF Spans, s
  <2>5. {queue'[q].got[a] : a \in Heard(q)'} = {wire'[k] : k \in Outputs(queue[q].name, i, j + 1)'}
    <3> DEFINE O == Outputs(queue[q].name, i, j)
               G == {queue'[q].got[a] : a \in 1 .. n}
               S == {s[a] : a \in 1 .. Len(s)}
               W == {wire[k] : k \in O}
               V == {wire[k] : k \in O \union {j + 1}}
    <3>1. {queue'[q].got[a] : a \in Heard(q)'} = G
      BY <1>3
    <3>2. {wire'[k] : k \in Outputs(queue[q].name, i, j + 1)'} = V
      BY <2>1
    <3>3. V = W \union {m} /\ G = S \union {m} /\ S = W
      BY <2>2, <2>3, <2>4
    <3> HIDE DEF G, S, V, W
    <3>4. G = V
      BY <3>3
    <3>5. QED
      BY <3>1, <3>2, <3>4
  <2>6. QED
    BY <2>5 DEF Spans
<1>8. i \in 0 .. read' /\ j + 1 \in 0 .. read' /\ read' = j + 1
  BY <1>0, <1>4
<1>9. QED
  BY <1>6, <1>7, <1>8 DEF Stream

LEMMA StreamEnds ==
  ASSUME TypeOK, NEW q \in Queues, Stream(q), ~Told(q), UNCHANGED <<wire, read>>,
         queue'[q].name = queue[q].name, queue'[q].got = Append(queue[q].got, Lost),
         Registered(q)' => Registered(q)
  PROVE  Stream(q)'
<1> DEFINE s == queue[q].got
<1>0. s \in Seq(Line) /\ Lost \in Line
  BY GotTyped, LinesAreLines
<1> HIDE DEF s
<1>1. /\ Len(s) \in Nat /\ DOMAIN s = 1 .. Len(s)
      /\ DOMAIN queue'[q].got = 1 .. Len(s) + 1 /\ Len(queue'[q].got) = Len(s) + 1
      /\ queue'[q].got[Len(s) + 1] = Lost
      /\ \A a \in 1 .. Len(s) : queue'[q].got[a] = s[a]
  BY <1>0, GotAppend DEF s
<1>2. \A a \in DOMAIN s : s[a] # Lost
  BY DEF Told, s
<1>3. Heard(q) = 1 .. Len(s) /\ Heard(q)' = 1 .. Len(s)
  BY <1>1, <1>2 DEF Heard, s
<1>4. InOrder(q)'
  <2>1. \A a, b \in 1 .. Len(s) : a < b => s[a].no < s[b].no
    BY <1>3 DEF Stream, InOrder, s
  <2>2. \A a \in 1 .. Len(s) + 1 : queue'[q].got[a] = Lost => a = Len(s) + 1
    BY <1>1, <1>2
  <2>3. QED
    BY <1>1, <1>3, <2>1, <2>2 DEF InOrder
<1>5. PICK i \in 0 .. read, j \in 0 .. read : (Registered(q) => j = read) /\ Spans(q, i, j)
  BY DEF Stream
<1>6. Spans(q, i, j)'
  <2>1. {queue'[q].got[a] : a \in 1 .. Len(s)} = {s[a] : a \in 1 .. Len(s)}
    BY <1>1
  <2>2. Outputs(queue[q].name, i, j)' = Outputs(queue[q].name, i, j)
    BY DEF Outputs
  <2>3. {s[a] : a \in 1 .. Len(s)} = {wire[k] : k \in Outputs(queue[q].name, i, j)}
    BY <1>3, <1>5 DEF Spans, s
  <2>4. {queue'[q].got[a] : a \in Heard(q)'} = {queue'[q].got[a] : a \in 1 .. Len(s)}
    BY <1>3
  <2>5. {wire'[k] : k \in Outputs(queue[q].name, i, j)'}
          = {wire[k] : k \in Outputs(queue[q].name, i, j)}
    BY <2>2
  <2>6. {queue'[q].got[a] : a \in Heard(q)'} = {wire'[k] : k \in Outputs(queue[q].name, i, j)'}
    BY <2>1, <2>3, <2>4, <2>5
  <2>7. QED
    BY <2>6 DEF Spans
<1>7. QED
  BY <1>4, <1>5, <1>6 DEF Stream

\* A queue that is made.
LEMMA StreamBegins ==
  ASSUME TypeOK, NEW q \in Queues, UNCHANGED <<wire, read>>, queue'[q].got = << >>
  PROVE  Stream(q)'
<1>0. PICK i \in 0 .. read' : i = read'
  BY GotTyped
<1>1. Heard(q)' = {} /\ DOMAIN queue'[q].got = {}
  BY DEF Heard
<1>2. Outputs(queue[q].name, i, i)' = {}
  BY <1>0, GotTyped DEF Outputs
<1>3. Spans(q, i, i)'
  BY <1>1, <1>2 DEF Spans
<1>4. InOrder(q)'
  BY <1>1 DEF InOrder
<1>5. QED
  BY <1>0, <1>3, <1>4 DEF Stream

-----------------------------------------------------------------------------
\* The number of a line is the place where ServerSends puts it.
LEMMA NextPlaced == TypeOK /\ Placed /\ [Next]_vars => Placed' /\ WireGrows
<1> SUFFICES ASSUME TypeOK, Placed, [Next]_vars PROVE Placed' /\ WireGrows
  OBVIOUS
<1>0. wire \in Seq(Line) /\ Len(wire) \in Nat /\ read \in 0 .. Len(wire)
  BY DEF TypeOK
<1>1. CASE UNCHANGED wire /\ (read' = read \/ (read < Len(wire) /\ read' = read + 1))
  BY <1>0, <1>1 DEF Placed, WireGrows
<1>2. ASSUME NEW m \in Line, ServerSends(m),
             m.kind = "output" => m.no = Len(wire) + 1 /\ m.name \in Names
      PROVE  Placed' /\ WireGrows
  <2>1. /\ read' = read /\ Len(wire') = Len(wire) + 1 /\ wire'[Len(wire) + 1] = m
        /\ \A k \in 1 .. Len(wire) : wire'[k] = wire[k]
    BY <1>0, <1>2, GotAppend DEF ServerSends
  <2>2. Placed'
    BY <1>0, <1>2, <2>1 DEF Placed
  <2>3. WireGrows
    BY <1>0, <2>1 DEF WireGrows
  <2>4. QED
    BY <2>2, <2>3
<1>3. CASE ServerAnswers
  <2>1. Head(lines) \in Nat /\ ServerSends(Result(Head(lines)))
    BY <1>3 DEF ServerAnswers, TypeOK
  <2>2. Result(Head(lines)).kind # "output"
    BY DEF Result
  <2>3. QED
    BY <1>2, <2>1, <2>2, LinesAreLines
<1>4. CASE ServerOutputs
  <2>1. \A n \in Names : LET m == Output(n, Len(wire) + 1) IN m.no = Len(wire) + 1 /\ m.name = n
    BY DEF Output
  <2>2. Garbage(Len(wire) + 1).kind # "output"
    BY DEF Garbage
  <2>3. Len(wire) + 1 \in Nat
    BY <1>0
  <2>4. CASE ServerSends(Garbage(Len(wire) + 1))
    BY <1>2, <2>2, <2>3, <2>4, LinesAreLines
  <2>5. ASSUME NEW n \in Names, ServerSends(Output(n, Len(wire) + 1)) PROVE Placed' /\ WireGrows
    BY <1>2, <2>1, <2>3, <2>5, LinesAreLines
  <2>6. QED
    BY <1>4, <2>4, <2>5 DEF ServerOutputs
<1>5. CASE ReadLine
  BY <1>1, <1>5 DEF ReadLine
<1>6. CASE wire' = wire /\ read' = read
  BY <1>1, <1>6
<1>7. ASSUME NEW t \in Callers, Command(t) PROVE wire' = wire /\ read' = read
  BY <1>7 DEF Command, link
<1>8. QED
  BY <1>3, <1>4, <1>5, <1>6, <1>7
     DEF Next, Demux, Eof, Application, Server, ServerGone, Rests, vars, link

\* A line that is read leaves a queue as it is or is appended to it.
LEMMA ReadAppends ==
  ASSUME TypeOK, ReadLine, NEW q \in Queues, queue'[q] # queue[q]
  PROVE  /\ wire[read + 1] \in Line /\ wire[read + 1].kind = "output"
         /\ queue'[q].got = Append(queue[q].got, wire[read + 1])
         /\ queue'[q].name = queue[q].name
<1> DEFINE m == wire[read + 1]
<1>0. queue \in [Queues -> QueueRec] /\ read + 1 \in 1 .. Len(wire) /\ wire \in Seq(Line)
  BY DEF TypeOK, QueueRec, ReadLine
<1>1. m \in Line /\ Route(m)
  BY <1>0 DEF ReadLine
<1> HIDE DEF m
<1>2. m.kind = "output" /\ Deliver(m)
  BY <1>1 DEF Route
<1>3. queue' = [queue EXCEPT ![process_queues[m.name]].got = Append(@, m)]
  BY <1>2 DEF Deliver
<1>4. queue'[q] = [queue[q] EXCEPT !.got = Append(queue[q].got, m)]
  BY <1>0, <1>3
<1>5. queue'[q].got = Append(queue[q].got, m) /\ queue'[q].name = queue[q].name
  BY <1>0, <1>4 DEF QueueRec
<1>6. QED
  BY <1>1, <1>2, <1>5 DEF m

\* A queue keeps the name it was made for, and a registered one has a name.
LEMMA RegisteredByName ==
  ASSUME TypeOK, Routed, NEW q \in Queues, Registered(q)
  PROVE  queue[q].name \in Names /\ process_queues[queue[q].name] = q
BY ClientAssumption DEF Routed, Registered, TypeOK

LEMMA NextRouted == TypeOK /\ Routed /\ [Next]_vars => Routed'
<1> SUFFICES ASSUME TypeOK, Routed, [Next]_vars PROVE Routed'
  OBVIOUS
<1> USE ClientAssumption
<1>0. queue \in [Queues -> QueueRec] /\ process_queues \in [Names -> Queues \union {NoQueue}]
  BY DEF TypeOK, QueueRec
<1>1. ASSUME \A n \in Names : process_queues'[n] \in {process_queues[n], NoQueue},
             \A q \in Queues : queue'[q].name = queue[q].name
      PROVE  Routed'
  BY <1>0, <1>1 DEF Routed
<1>2. CASE UNCHANGED routes
  BY <1>1, <1>2 DEF routes
<1>3. CASE ReadLine
  <2>1. \A q \in Queues : queue'[q].name = queue[q].name
    BY <1>3, ReadAppends
  <2>2. UNCHANGED process_queues
    BY <1>3 DEF ReadLine, Route
  <2>3. QED
    BY <1>1, <2>1, <2>2
<1>4. CASE NotifyLoss
  <2>1. \A q \in Queues : queue'[q].name = queue[q].name
    BY <1>0, <1>4 DEF NotifyLoss, QueueRec
  <2>2. \A n \in Names : process_queues'[n] \in {process_queues[n], NoQueue}
    BY <1>4 DEF NotifyLoss, Senders
  <2>3. QED
    BY <1>1, <2>1, <2>2
<1>5. ASSUME NEW n \in Names, NEW q \in Queues, RegisterProcess(n, q) PROVE Routed'
  <2>1. /\ queue[q].name = NoName /\ process_queues' = [process_queues EXCEPT ![n] = q]
        /\ queue' = [queue EXCEPT ![q] = [name |-> n, late |-> (demux = "ended"), got |-> << >>]]
    BY <1>5 DEF RegisterProcess
  <2>2. \A m \in Names : process_queues[m] # q
    BY <2>1 DEF Routed
  <2>3. QED
    BY <1>0, <2>1, <2>2 DEF Routed
<1>6. ASSUME NEW n \in Names, UnregisterProcess(n) PROVE Routed'
  BY <1>0, <1>1, <1>6 DEF UnregisterProcess
<1>7. CASE Close \/ Abort
  BY <1>1, <1>7 DEF Close, Abort, Senders
<1>8. CASE Eof
  BY <1>2, <1>8 DEF Eof, LoseConnection
<1>9. ASSUME NEW t \in Callers, Command(t) PROVE UNCHANGED routes
  BY <1>9 DEF Command, SendCommand, TakeLock, WriteCommand, WriteSpoilt, WriteFails, Leave,
              ReceiveResult, TimeOut, GiveUp, Cancel
<1>10. CASE Server
  BY <1>2, <1>10 DEF Server, ServerAnswers, ServerOutputs, ServerSends, ServerGone
<1>11. QED
  BY <1>2, <1>3, <1>4, <1>5, <1>6, <1>7, <1>8, <1>9, <1>10
     DEF Next, Demux, Application, SendStdin, Rests, vars

LEMMA NextToldAtEnd == TypeOK /\ ToldAtEnd /\ [Next]_vars => ToldAtEnd'
<1> SUFFICES ASSUME TypeOK, ToldAtEnd, [Next]_vars, NEW q \in Queues, Told(q)'
             PROVE  demux' = "ended"
  BY DEF ToldAtEnd
<1> USE ClientAssumption
<1>0. queue \in [Queues -> QueueRec] /\ process_queues \in [Names -> Queues \union {NoQueue}]
  BY DEF TypeOK, QueueRec
<1>1. ASSUME queue'[q] = queue[q], demux = "ended" => demux' = "ended" PROVE demux' = "ended"
  BY <1>1 DEF ToldAtEnd, Told
<1>2. CASE UNCHANGED <<demux, queue>>
  BY <1>1, <1>2
<1>3. CASE ReadLine
  <2> DEFINE m == wire[read + 1]
  <2>1. demux' = demux
    BY <1>3 DEF ReadLine, Route, ends
  <2> HIDE DEF m
  <2>2. CASE queue'[q] = queue[q]
    BY <1>1, <2>1, <2>2
  <2>3. CASE queue'[q] # queue[q]
    <3>1. m \in Line /\ m # Lost /\ queue'[q].got = Append(queue[q].got, m)
      BY <1>3, <2>3, ReadAppends DEF m, Lost
    <3>2. queue[q].got \in Seq(Line)
      BY <1>0 DEF QueueRec
    <3>3. PICK a \in DOMAIN queue'[q].got : queue'[q].got[a] = Lost
      BY DEF Told
    <3>4. a \in DOMAIN queue[q].got /\ queue[q].got[a] = Lost
      BY <3>1, <3>2, <3>3, GotAppend
    <3>5. QED
      BY <2>1, <3>4 DEF ToldAtEnd, Told
  <2>4. QED
    BY <2>2, <2>3
<1>4. CASE NotifyLoss
  BY <1>4 DEF NotifyLoss
<1>5. ASSUME NEW n \in Names, NEW r \in Queues, RegisterProcess(n, r) PROVE demux' = "ended"
  <2>1. /\ demux' = demux
        /\ queue' = [queue EXCEPT ![r] = [name |-> n, late |-> (demux = "ended"), got |-> << >>]]
    BY <1>5 DEF RegisterProcess, ends
  <2>2. CASE q = r
    BY <1>0, <2>1, <2>2 DEF Told
  <2>3. CASE q # r
    BY <1>0, <1>1, <2>1, <2>3
  <2>4. QED
    BY <2>2, <2>3
<1>6. ASSUME NEW n \in Names, UnregisterProcess(n) PROVE UNCHANGED <<demux, queue>>
  BY <1>6 DEF UnregisterProcess, ends
<1>7. CASE Close
  BY <1>2, <1>7 DEF Close
<1>8. CASE Eof \/ Abort
  BY <1>1, <1>8 DEF Eof, LoseConnection, Abort, routes
<1>9. ASSUME NEW t \in Callers, Command(t) PROVE UNCHANGED <<demux, queue>>
  BY <1>9 DEF Command, SendCommand, TakeLock, WriteCommand, WriteSpoilt, WriteFails, Leave,
              ReceiveResult, TimeOut, GiveUp, Cancel, ends, routes
<1>10. CASE Server
  BY <1>2, <1>10 DEF Server, ServerAnswers, ServerOutputs, ServerSends, ServerGone, ends, routes
<1>11. QED
  BY <1>2, <1>3, <1>4, <1>5, <1>6, <1>7, <1>8, <1>9, <1>10
     DEF Next, Demux, Application, SendStdin, Rests, vars, ends, routes

\* A line that is read goes to the queue registered for its name, which
\* takes it in its turn; the other queues skip it.
LEMMA ReadStream ==
  ASSUME StreamInv, ReadLine, WireGrows, NEW q \in Queues, queue[q].name # NoName
  PROVE  Stream(q)'
<1> DEFINE m == wire[read + 1]
<1> USE ClientAssumption
<1>0. /\ TypeOK /\ Placed /\ Routed /\ Stream(q) /\ UNCHANGED <<wire, process_queues>>
      /\ read < Len(wire) /\ read' = read + 1
      /\ queue \in [Queues -> QueueRec] /\ process_queues \in [Names -> Queues \union {NoQueue}]
  BY DEF StreamInv, ReadLine, Route, TypeOK, QueueRec
<1>1. Route(m) /\ demux = "reading" /\ ~Told(q)
  BY DEF ReadLine, Route, StreamInv, ToldAtEnd
<1>2. Registered(q)' = Registered(q)
  BY <1>0 DEF Registered
<1> HIDE DEF m
<1>3. CASE m.kind = "output" /\ m.name = queue[q].name /\ Registered(q)
  <2>1. queue[q].name \in Names /\ process_queues[queue[q].name] = q
    BY <1>0, <1>3, RegisteredByName
  <2>2. queue' = [queue EXCEPT ![q] = [queue[q] EXCEPT !.got = Append(queue[q].got, m)]]
    BY <1>1, <1>3, <2>1 DEF Route, Deliver
  <2>3. queue'[q].got = Append(queue[q].got, m) /\ queue'[q].name = queue[q].name
    BY <1>0, <2>2 DEF QueueRec
  <2>4. QED
    BY <1>0, <1>1, <1>3, <2>3, StreamGets DEF m
<1>4. CASE ~(m.kind = "output" /\ m.name = queue[q].name /\ Registered(q))
  <2>1. queue'[q] = queue[q]
    <3>1. CASE m.kind # "output"
      BY <1>1, <3>1 DEF Route
    <3>2. CASE m.kind = "output"
      <4>1. Deliver(m)
        BY <1>1, <3>2 DEF Route
      <4>2. m.name \in Names => process_queues[m.name] # q
        <5>1. SUFFICES ASSUME m.name \in Names, process_queues[m.name] = q PROVE FALSE
          OBVIOUS
        <5>2. Registered(q) /\ queue[q].name = m.name
          BY <1>0, <5>1 DEF Registered, Routed
        <5>3. QED
          BY <1>4, <3>2, <5>2
      <4>3. m.name \in Names
        <5>1. read + 1 \in 1 .. Len(wire)
          BY <1>0, GotTyped
        <5>2. QED
          BY <1>0, <3>2, <5>1 DEF m, Placed
      <4>4. QED
        BY <1>0, <4>1, <4>2, <4>3 DEF Deliver
    <3>3. QED
      BY <3>1, <3>2
  <2>2. CASE Registered(q)
    BY <1>0, <1>4, <2>1, <2>2, StreamSkips DEF m
  <2>3. CASE ~Registered(q)
    BY <1>0, <1>2, <2>1, <2>3, StreamStays
  <2>4. QED
    BY <2>2, <2>3
<1>5. QED
  BY <1>3, <1>4

LEMMA NextStream ==
  ASSUME StreamInv, [Next]_vars, WireGrows, NEW q \in Queues, queue'[q].name # NoName
  PROVE  Stream(q)'
<1> USE ClientAssumption
<1>0. /\ TypeOK /\ Placed /\ Routed /\ (queue[q].name # NoName => Stream(q))
      /\ queue \in [Queues -> QueueRec] /\ process_queues \in [Names -> Queues \union {NoQueue}]
  BY DEF StreamInv, TypeOK, QueueRec
<1>1. ASSUME queue'[q] = queue[q], read' = read,
             \A n \in Names : process_queues'[n] = q => process_queues[n] = q
      PROVE  Stream(q)'
  <2>1. Registered(q)' => Registered(q)
    BY <1>1 DEF Registered
  <2>2. QED
    BY <1>0, <1>1, <2>1, StreamStays
<1>2. CASE UNCHANGED <<queue, process_queues, read>>
  BY <1>1, <1>2
<1>3. CASE ReadLine
  <2>1. queue'[q].name = queue[q].name
    BY <1>0, <1>3, ReadAppends
  <2>2. QED
    BY <1>3, <2>1, ReadStream
<1>4. CASE NotifyLoss /\ UNCHANGED link
  <2>1. \A n \in Names : process_queues'[n] = q => process_queues[n] = q
    BY <1>4 DEF NotifyLoss, Senders
  <2>2. UNCHANGED <<wire, read>> /\ ~Told(q)
    BY <1>4 DEF link, NotifyLoss, StreamInv, ToldAtEnd
  <2>3. CASE Registered(q)
    <3>1. queue'[q] = [queue[q] EXCEPT !.got = Append(queue[q].got, Lost)]
      BY <1>4, <2>3 DEF NotifyLoss
    <3>2. queue'[q].got = Append(queue[q].got, Lost) /\ queue'[q].name = queue[q].name
      BY <1>0, <3>1 DEF QueueRec
    <3>3. queue[q].name # NoName
      BY <1>0, <2>3, RegisteredByName
    <3>4. QED
      BY <1>0, <2>2, <2>3, <3>2, <3>3, StreamEnds
  <2>4. CASE ~Registered(q)
    BY <1>1, <1>4, <2>1, <2>2, <2>4 DEF NotifyLoss
  <2>5. QED
    BY <2>3, <2>4
<1>5. ASSUME NEW n \in Names, NEW r \in Queues, RegisterProcess(n, r), UNCHANGED link
      PROVE  Stream(q)'
  <2>1. /\ process_queues' = [process_queues EXCEPT ![n] = r] /\ UNCHANGED <<wire, read>>
        /\ queue' = [queue EXCEPT ![r] = [name |-> n, late |-> (demux = "ended"), got |-> << >>]]
    BY <1>5 DEF RegisterProcess, link
  <2>2. CASE q = r
    <3>1. queue'[q].got = << >>
      BY <1>0, <2>1, <2>2
    <3>2. QED
      BY <1>0, <2>1, <3>1, StreamBegins
  <2>3. CASE q # r
    BY <1>0, <1>1, <2>1, <2>3
  <2>4. QED
    BY <2>2, <2>3
<1>6. ASSUME NEW n \in Names, UnregisterProcess(n), UNCHANGED link PROVE Stream(q)'
  BY <1>0, <1>1, <1>6 DEF UnregisterProcess, link
<1>7. CASE (Close \/ Abort) /\ UNCHANGED link
  BY <1>1, <1>7 DEF Close, Abort, Senders, link
<1>8. CASE Eof
  BY <1>2, <1>8 DEF Eof, LoseConnection, routes, link
<1>9. ASSUME NEW t \in Callers, Command(t) PROVE UNCHANGED <<queue, process_queues, read>>
  BY <1>9 DEF Command, SendCommand, TakeLock, WriteCommand, WriteSpoilt, WriteFails, Leave,
              ReceiveResult, TimeOut, GiveUp, Cancel, routes, link
<1>10. CASE Server
  BY <1>2, <1>10 DEF Server, ServerAnswers, ServerOutputs, ServerSends, ServerGone, routes
<1>11. QED
  BY <1>2, <1>3, <1>4, <1>5, <1>6, <1>7, <1>8, <1>9, <1>10
     DEF Next, Demux, Application, SendStdin, Rests, vars, routes, link

\* What a queue is sent is a stretch of what the server sent for its name, in
\* order and once, and ConnectionLost ends it.
THEOREM StreamCorrect == Spec => []QueueIsStream
<1>1. Init => StreamInv
  <2>1. Init => /\ Placed /\ Routed /\ \A q \in Queues : queue[q].name = NoName /\ ~Told(q)
    BY DEF Init, Placed, Routed, Told
  <2>2. QED
    BY <2>1, InitTypeOK DEF StreamInv, ToldAtEnd
<1>2. StreamInv /\ [Next]_vars => StreamInv'
  <2>1. SUFFICES ASSUME StreamInv, [Next]_vars PROVE StreamInv'
    OBVIOUS
  <2>2. TypeOK /\ Placed /\ Routed /\ ToldAtEnd
    BY <2>1 DEF StreamInv
  <2>3. TypeOK' /\ Placed' /\ Routed' /\ ToldAtEnd' /\ WireGrows
    BY <2>1, <2>2, NextTyped, NextPlaced, NextRouted, NextToldAtEnd
  <2>4. QED
    BY <2>1, <2>3, NextStream DEF StreamInv
<1>3. StreamInv => QueueIsStream
  BY DEF StreamInv, Stream, InOrder, Spans, QueueIsStream
<1>4. QED
  BY <1>1, <1>2, <1>3, PTL DEF Spec

=============================================================================
