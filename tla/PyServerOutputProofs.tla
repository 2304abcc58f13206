------------------------- MODULE PyServerOutputProofs -------------------------
(*****************************************************************************)
(* What the Python server sends, for every number of names, children,        *)
(* connections and lines: that it is in order, and who knows a child before  *)
(* its entry is made.  The arguments are about the four shapes of a step,    *)
(* not about the actions.                                                    *)
(*****************************************************************************)
EXTENDS PyServerProofs

-----------------------------------------------------------------------------
(* Sequences of messages *)

LEMMA ConcatIndex ==
  ASSUME NEW s \in Seq(Message), NEW t \in Seq(Message), NEW i \in DOMAIN (s \o t)
  PROVE  \/ i \in DOMAIN s /\ (s \o t)[i] = s[i]
         \/ i - Len(s) \in DOMAIN t /\ (s \o t)[i] = t[i - Len(s)] /\ i > Len(s)
<1>1. /\ Len(s) \in Nat /\ Len(t) \in Nat /\ DOMAIN s = 1 .. Len(s) /\ DOMAIN t = 1 .. Len(t)
      /\ Len(s \o t) = Len(s) + Len(t) /\ DOMAIN (s \o t) = 1 .. Len(s \o t)
      /\ \A k \in 1 .. Len(s) + Len(t) :
           (s \o t)[k] = IF k <= Len(s) THEN s[k] ELSE t[k - Len(s)]
  BY ConcatProperties
<1>2. QED
  BY <1>1

LEMMA SortedConcat ==
  ASSUME NEW s \in Seq(Message), NEW t \in Seq(Message), Sorted(s), Sorted(t), Precedes(s, t)
  PROVE  Sorted(s \o t)
<1> DEFINE u == s \o t
<1> SUFFICES ASSUME NEW i \in DOMAIN u, NEW j \in DOMAIN u, i < j PROVE Before(u[i], u[j])
  BY DEF Sorted
<1>1. \/ i \in DOMAIN s /\ u[i] = s[i]
      \/ i - Len(s) \in DOMAIN t /\ u[i] = t[i - Len(s)] /\ i > Len(s)
  BY ConcatIndex
<1>2. \/ j \in DOMAIN s /\ u[j] = s[j]
      \/ j - Len(s) \in DOMAIN t /\ u[j] = t[j - Len(s)] /\ j > Len(s)
  BY ConcatIndex
<1>3. DOMAIN s = 1 .. Len(s) /\ Len(s) \in Nat /\ i \in Int /\ j \in Int
  BY ConcatProperties
<1> HIDE DEF u
<1>4. CASE i \in DOMAIN s /\ u[i] = s[i] /\ j \in DOMAIN s /\ u[j] = s[j]
  BY <1>4 DEF Sorted
<1>5. CASE i \in DOMAIN s /\ u[i] = s[i] /\ j - Len(s) \in DOMAIN t /\ u[j] = t[j - Len(s)]
  BY <1>5 DEF Precedes
<1>6. CASE i - Len(s) \in DOMAIN t /\ u[i] = t[i - Len(s)] /\ j - Len(s) \in DOMAIN t
           /\ u[j] = t[j - Len(s)]
  <2>1. i - Len(s) < j - Len(s)
    BY <1>3
  <2>2. QED
    BY <1>6, <2>1 DEF Sorted
<1>7. QED
  BY <1>1, <1>2, <1>3, <1>4, <1>5, <1>6

LEMMA ConcatPrecedes ==
  ASSUME NEW s \in Seq(Message), NEW t \in Seq(Message), NEW u,
         Precedes(s, u), Precedes(t, u)
  PROVE  Precedes(s \o t, u)
<1> SUFFICES ASSUME NEW i \in DOMAIN (s \o t), NEW j \in DOMAIN u PROVE Before((s \o t)[i], u[j])
  BY DEF Precedes
<1>1. QED
  BY ConcatIndex DEF Precedes

LEMMA PrecedesConcat ==
  ASSUME NEW u, NEW s \in Seq(Message), NEW t \in Seq(Message),
         Precedes(u, s), Precedes(u, t)
  PROVE  Precedes(u, s \o t)
<1> SUFFICES ASSUME NEW i \in DOMAIN u, NEW j \in DOMAIN (s \o t) PROVE Before(u[i], (s \o t)[j])
  BY DEF Precedes
<1>1. QED
  BY ConcatIndex DEF Precedes

LEMMA EmptyOrdered ==
  ASSUME NEW s
  PROVE  Sorted(<< >>) /\ Precedes(<< >>, s) /\ Precedes(s, << >>)
BY DEF Sorted, Precedes

\* One message.
LEMMA OneOrdered ==
  ASSUME NEW m \in Message
  PROVE  /\ <<m>> \in Seq(Message) /\ Sorted(<<m>>)
         /\ DOMAIN <<m>> = {1} /\ <<m>>[1] = m
BY DEF Sorted

\* What was counted of its child's output.
Counted(m) == m.kind # "result" => m.seq <= relay[m.from].taken

AllCounted(s) == \A i \in DOMAIN s : Counted(s[i])

LEMMA ConcatCounted ==
  ASSUME NEW s \in Seq(Message), NEW t \in Seq(Message), AllCounted(s), AllCounted(t)
  PROVE  AllCounted(s \o t)
BY ConcatIndex DEF AllCounted

\* A result is counted as nothing and ordered with nothing.
LEMMA ResultAddedKeeps ==
  ASSUME NEW s \in Seq(Message), NEW s2, ResultAdded(s, s2)
  PROVE  /\ s2 \in Seq(Message)
         /\ Sorted(s) => Sorted(s2)
         /\ AllCounted(s) => AllCounted(s2)
         /\ \A t : Precedes(s, t) => Precedes(s2, t)
<1>1. CASE s2 = s
  BY <1>1
<1>2. ASSUME NEW d \in Conns, NEW i \in Nat, s2 = s \o <<Result(d, i)>>
      PROVE  /\ s2 \in Seq(Message)
             /\ Sorted(s) => Sorted(s2)
             /\ AllCounted(s) => AllCounted(s2)
             /\ \A t : Precedes(s, t) => Precedes(s2, t)
  <2> DEFINE r == Result(d, i)
  <2>1. r \in Message /\ r.kind = "result"
    BY <1>2 DEF Result, Message
  <2> HIDE DEF r
  <2>2. <<r>> \in Seq(Message) /\ Sorted(<<r>>) /\ DOMAIN <<r>> = {1} /\ <<r>>[1] = r
    BY <2>1, OneOrdered
  <2>3. Precedes(s, <<r>>) /\ \A t : Precedes(<<r>>, t)
    BY <2>1, <2>2 DEF Precedes, Before
  <2>4. AllCounted(<<r>>)
    BY <2>1, <2>2 DEF AllCounted, Counted
  <2>5. s2 = s \o <<r>>
    BY <1>2 DEF r
  <2>6. s2 \in Seq(Message)
    BY <2>2, <2>5, ConcatProperties
  <2>7. Sorted(s) => Sorted(s2)
    BY <2>2, <2>3, <2>5, SortedConcat
  <2>8. AllCounted(s) => AllCounted(s2)
    BY <2>2, <2>4, <2>5, ConcatCounted
  <2>9. \A t : Precedes(s, t) => Precedes(s2, t)
    BY <2>2, <2>3, <2>5, ConcatPrecedes
  <2>10. QED
    BY <2>6, <2>7, <2>8, <2>9
<1>3. QED
  BY <1>1, <1>2 DEF ResultAdded

\* The same of what will have been counted after the step.
LEMMA ResultAddedCounted ==
  ASSUME NEW s \in Seq(Message), NEW s2, ResultAdded(s, s2),
         \A i \in DOMAIN s : s[i].kind # "result" => s[i].seq <= relay'[s[i].from].taken
  PROVE  \A i \in DOMAIN s2 : s2[i].kind # "result" => s2[i].seq <= relay'[s2[i].from].taken
<1>1. SUFFICES ASSUME NEW i \in DOMAIN s2, s2[i].kind # "result"
               PROVE  i \in DOMAIN s /\ s2[i] = s[i]
  OBVIOUS
<1>2. ASSUME NEW d \in Conns, NEW k \in Nat, s2 = s \o <<Result(d, k)>>
      PROVE  i \in DOMAIN s /\ s2[i] = s[i]
  <2> DEFINE r == Result(d, k)
  <2>1. r \in Message /\ r.kind = "result"
    BY <1>2 DEF Result, Message
  <2> HIDE DEF r
  <2>2. <<r>> \in Seq(Message) /\ DOMAIN <<r>> = {1} /\ <<r>>[1] = r /\ s2 = s \o <<r>>
    BY <1>2, <2>1, OneOrdered DEF r
  <2>3. QED
    BY <1>1, <2>1, <2>2, ConcatIndex
<1>3. QED
  BY <1>1, <1>2 DEF ResultAdded

-----------------------------------------------------------------------------
(* The order *)

\* A buffer holds output of its own child, and everything was counted.
Placed ==
  /\ \A p \in Pids : /\ AllCounted(mp[p].buffer)
                     /\ \A i \in DOMAIN mp[p].buffer : mp[p].buffer[i].from = p
  /\ \A c \in Conns : AllCounted(sent[c])

OrderInv == TypeInv /\ InOrder /\ Placed

LEMMA OrderTypes ==
  ASSUME TypeOK
  PROVE  /\ \A c \in Conns : sent[c] \in Seq(Message)
         /\ \A p \in Pids : /\ mp[p].buffer \in Seq(Relayed) /\ mp[p].buffer \in Seq(Message)
                            /\ relay[p].taken \in Nat
                            /\ mp[p].subscribed => mp[p].buffer = << >>
<1>1. ASSUME NEW p \in Pids
      PROVE  mp[p].buffer \in Seq(Relayed) /\ mp[p].buffer \in Seq(Message)
  <2>1. mp[p].buffer \in Seq(Relayed)
    BY <1>1 DEF TypeOK, ManagedProcess
  <2>2. Relayed \subseteq Message
    BY DEF Message
  <2>3. QED
    BY <2>1, <2>2
<1>2. QED
  BY <1>1 DEF TypeOK

\* What was counted stays so.
LEMMA CountedStays ==
  ASSUME TypeOK, Shape, NEW s \in Seq(Message), AllCounted(s)
  PROVE  \A i \in DOMAIN s : s[i].kind # "result" => s[i].seq <= relay'[s[i].from].taken
<1>1. \A p \in Pids : relay[p].taken \in Nat /\ relay'[p].taken \in Nat
                      /\ relay[p].taken <= relay'[p].taken
  <2>1. \A p \in Pids : relay[p].taken \in Nat
    BY OrderTypes
  <2>2. CASE TakenStays
    BY <2>1, <2>2 DEF TakenStays
  <2>3. ASSUME NEW q \in Pids, Relays(q)
        PROVE  \A p \in Pids : relay'[p].taken \in Nat /\ relay[p].taken <= relay'[p].taken
    <3>1. /\ relay'[q].taken = relay[q].taken + 1
          /\ \A p \in Pids \ {q} : relay'[p].taken = relay[p].taken
      BY <2>3 DEF Relays
    <3>2. QED
      BY <2>1, <2>3, <3>1
  <2>4. QED
    BY <2>1, <2>2, <2>3 DEF Shape, Quiet, Enters, Replays
<1>2. SUFFICES ASSUME NEW i \in DOMAIN s, s[i].kind # "result"
               PROVE  s[i].seq <= relay'[s[i].from].taken
  OBVIOUS
<1>3. s[i] \in Message
  BY ElementOfSeq, <1>2
<1>4. s[i].from \in Pids /\ s[i].seq \in Nat
  BY <1>2, <1>3 DEF Message, Relayed
<1>5. s[i].seq <= relay[s[i].from].taken
  BY <1>2 DEF AllCounted, Counted
<1>6. QED
  BY <1>1, <1>4, <1>5

\* The invariant, of the buffers and streams a step leads to.
LEMMA OrderedNext ==
  ASSUME TypeInv',
         \A c \in Conns : /\ Sorted(sent'[c])
                          /\ \A p \in Pids : Precedes(sent'[c], mp'[p].buffer),
         \A p \in Pids : /\ Sorted(mp'[p].buffer)
                         /\ \A i \in DOMAIN mp'[p].buffer : mp'[p].buffer[i].from = p,
         \A c \in Conns : AllCounted(sent[c])',
         \A p \in Pids : AllCounted(mp[p].buffer)'
  PROVE  OrderInv'
BY DEF OrderInv, InOrder, Placed

\* A step that leaves buffers, or empties them, and adds results to streams.
LEMMA QuietOrder ==
  ASSUME OrderInv, TypeInv', Shape, SentStays,
         \A p \in Pids : mp'[p].buffer = mp[p].buffer \/ mp'[p].buffer = << >>
  PROVE  OrderInv'
<1>0. TypeOK /\ InOrder /\ Placed
  BY DEF OrderInv, TypeInv
<1>1. ASSUME NEW p \in Pids
      PROVE  /\ Sorted(mp'[p].buffer) /\ AllCounted(mp[p].buffer)'
             /\ \A i \in DOMAIN mp'[p].buffer : mp'[p].buffer[i].from = p
             /\ \A s : Precedes(s, mp[p].buffer) => Precedes(s, mp'[p].buffer)
  <2>1. CASE mp'[p].buffer = << >>
    BY <2>1, EmptyOrdered DEF AllCounted
  <2>2. CASE mp'[p].buffer = mp[p].buffer
    <3>1. AllCounted(mp[p].buffer) /\ mp[p].buffer \in Seq(Message)
      BY <1>0, <1>1, OrderTypes DEF Placed
    <3>2. AllCounted(mp[p].buffer)'
      BY <1>0, <2>2, <3>1, CountedStays DEF AllCounted, Counted
    <3>3. QED
      BY <1>0, <1>1, <2>2, <3>2 DEF InOrder, Placed
  <2>3. QED
    BY <1>1, <2>1, <2>2
<1>2. ASSUME NEW c \in Conns
      PROVE  /\ Sorted(sent'[c]) /\ AllCounted(sent[c])'
             /\ \A p \in Pids : Precedes(sent'[c], mp[p].buffer)
  <2>1. CASE sent'[c] = << >>
    BY <2>1, EmptyOrdered DEF AllCounted
  <2>2. CASE ResultAdded(sent[c], sent'[c])
    <3>1. /\ sent[c] \in Seq(Message) /\ Sorted(sent[c]) /\ AllCounted(sent[c])
          /\ \A p \in Pids : Precedes(sent[c], mp[p].buffer)
      BY <1>0, <1>2, OrderTypes DEF InOrder, Placed
    <3>2. /\ sent'[c] \in Seq(Message) /\ Sorted(sent'[c]) /\ AllCounted(sent'[c])
          /\ \A p \in Pids : Precedes(sent'[c], mp[p].buffer)
      BY <2>2, <3>1, ResultAddedKeeps
    <3>3. AllCounted(sent[c])'
      BY <1>0, <3>2, CountedStays DEF AllCounted, Counted
    <3>4. QED
      BY <3>2, <3>3
  <2>3. QED
    BY <1>2, <2>1, <2>2 DEF SentStays
<1>3. QED
  BY <1>1, <1>2, OrderedNext

\* What is replayed follows what was sent, and empties the buffer.
LEMMA ReplaysOrder ==
  ASSUME OrderInv, TypeInv', NEW c0 \in Conns, NEW n \in Names, Replays(c0, n)
  PROVE  OrderInv'
<1> DEFINE q == procs[n]
<1>0. TypeOK /\ InOrder /\ Placed /\ Shape /\ q \in Pids
  BY DEF OrderInv, TypeInv, Shape, Replays
<1>1. /\ mp'[q].buffer = << >> /\ SentToWriter(mp[q].buffer)
      /\ \A p \in Pids \ {q} : mp'[p].buffer = mp[p].buffer
  BY DEF Replays
<1>2. /\ mp[q].buffer \in Seq(Message) /\ AllCounted(mp[q].buffer) /\ Sorted(mp[q].buffer)
      /\ \A i \in DOMAIN mp[q].buffer : mp[q].buffer[i].from = q
  BY <1>0, OrderTypes DEF InOrder, Placed
<1>3. ASSUME NEW p \in Pids
      PROVE  /\ Sorted(mp'[p].buffer) /\ AllCounted(mp[p].buffer)'
             /\ \A i \in DOMAIN mp'[p].buffer : mp'[p].buffer[i].from = p
  <2>1. CASE p = q
    BY <1>1, <2>1, EmptyOrdered DEF AllCounted
  <2>2. CASE p # q
    <3>1. AllCounted(mp[p].buffer) /\ mp[p].buffer \in Seq(Message) /\ mp'[p].buffer = mp[p].buffer
      BY <1>0, <1>1, <1>3, <2>2, OrderTypes DEF Placed
    <3>2. AllCounted(mp[p].buffer)'
      BY <1>0, <3>1, CountedStays DEF AllCounted, Counted
    <3>3. QED
      BY <1>0, <1>3, <3>1, <3>2 DEF InOrder, Placed
  <2>3. QED
    BY <2>1, <2>2
<1>4. ASSUME NEW c \in Conns
      PROVE  /\ Sorted(sent'[c]) /\ AllCounted(sent[c])'
             /\ \A p \in Pids : Precedes(sent'[c], mp'[p].buffer)
  <2> DEFINE s == sent[c] \o mp[q].buffer
  <2>1. /\ sent[c] \in Seq(Message) /\ Sorted(sent[c]) /\ AllCounted(sent[c])
        /\ \A p \in Pids : Precedes(sent[c], mp[p].buffer)
    BY <1>0, <1>4, OrderTypes DEF InOrder, Placed
  <2>2. s \in Seq(Message) /\ Sorted(s) /\ AllCounted(s)
    BY <1>0, <1>2, <2>1, SortedConcat, ConcatCounted, ConcatProperties
  <2>3. ASSUME NEW p \in Pids PROVE Precedes(sent[c], mp'[p].buffer) /\ Precedes(s, mp'[p].buffer)
    <3>1. CASE p = q
      BY <1>1, <3>1, EmptyOrdered
    <3>2. CASE p # q
      <4>f. \A j \in DOMAIN mp[p].buffer : mp[p].buffer[j].from = p
        BY <1>0, <2>3 DEF Placed
      <4>1. Precedes(mp[q].buffer, mp[p].buffer)
        BY <1>2, <3>2, <4>f DEF Precedes, Before
      <4>2. QED
        BY <1>1, <1>2, <2>1, <2>3, <3>2, <4>1, ConcatPrecedes
    <3>3. QED
      BY <3>1, <3>2
  <2>4. sent'[c] = sent[c] \/ ResultAdded(s, sent'[c])
    BY <1>1, <1>4 DEF SentToWriter
  <2> HIDE DEF s
  <2>5. /\ sent'[c] \in Seq(Message) /\ Sorted(sent'[c]) /\ AllCounted(sent'[c])
        /\ \A p \in Pids : Precedes(sent'[c], mp'[p].buffer)
    BY <2>1, <2>2, <2>3, <2>4, ResultAddedKeeps
  <2>6. AllCounted(sent[c])'
    BY <1>0, <2>5, CountedStays DEF AllCounted, Counted
  <2>7. QED
    BY <2>5, <2>6
<1>5. QED
  BY <1>3, <1>4, OrderedNext

\* A live message follows all that was counted of its child.
LEMMA RelaysOrder ==
  ASSUME OrderInv, TypeInv', NEW p0 \in Pids, Relays(p0)
  PROVE  OrderInv'
<1>0. TypeOK /\ InOrder /\ Placed /\ Shape
  BY DEF OrderInv, TypeInv, Shape
<1>1. PICK m \in Relayed :
        /\ m.from = p0 /\ m.seq = relay[p0].taken + 1
        /\ \A q \in Pids \ {p0} : mp'[q].buffer = mp[q].buffer
        /\ \/ mp'[p0].buffer = Append(mp[p0].buffer, m) /\ UNCHANGED sent
           \/ /\ mp[p0].subscribed /\ mp'[p0].buffer = mp[p0].buffer
              /\ SentToWriter(<<m>>)
  BY DEF Relays
<1> DEFINE ms == <<m>>
<1>2. m \in Message /\ relay'[p0].taken = relay[p0].taken + 1 /\ relay[p0].taken \in Nat
  BY <1>0, OrderTypes DEF Message, Relays
<1>3. ms \in Seq(Message) /\ Sorted(ms) /\ DOMAIN ms = {1} /\ ms[1] = m
  BY <1>2, OneOrdered
<1> HIDE DEF ms
\* s' is s before the step; ms comes after s, and is counted after the step.
<1>4. ASSUME NEW s \in Seq(Message), AllCounted(s)
      PROVE  Precedes(s, ms)
  <2>1. SUFFICES ASSUME NEW i \in DOMAIN s PROVE Before(s[i], m)
    BY <1>3 DEF Precedes
  <2>2. s[i] \in Message /\ Counted(s[i])
    BY <1>4, <2>1, ElementOfSeq DEF AllCounted
  <2>3. SUFFICES ASSUME s[i].kind # "result", s[i].from = p0 PROVE s[i].seq < m.seq
    BY <1>1 DEF Before
  <2>4. s[i].seq \in Nat /\ s[i].seq <= relay[p0].taken
    BY <2>2, <2>3 DEF Message, Relayed, Counted
  <2>5. QED
    BY <1>1, <1>2, <2>4
<1> DEFINE CountedNext(s) ==
      \A i \in DOMAIN s : s[i].kind # "result" => s[i].seq <= relay'[s[i].from].taken
<1>5. ASSUME NEW s \in Seq(Message), AllCounted(s)
      PROVE  CountedNext(s) /\ CountedNext(s \o ms)
  <2>1. CountedNext(s)
    BY <1>0, <1>5, CountedStays
  <2>2. CountedNext(ms)
    BY <1>1, <1>2, <1>3
  <2> HIDE DEF CountedNext
  <2>3. ASSUME NEW i \in DOMAIN (s \o ms), (s \o ms)[i].kind # "result"
        PROVE  (s \o ms)[i].seq <= relay'[(s \o ms)[i].from].taken
    <3>1. \/ i \in DOMAIN s /\ (s \o ms)[i] = s[i]
          \/ i - Len(s) \in DOMAIN ms /\ (s \o ms)[i] = ms[i - Len(s)]
      BY <1>3, <1>5, <2>3, ConcatIndex
    <3>2. QED
      BY <2>1, <2>2, <2>3, <3>1 DEF CountedNext
  <2>4. QED
    BY <2>1, <2>3 DEF CountedNext
<1>6. ASSUME NEW p \in Pids
      PROVE  /\ mp[p].buffer \in Seq(Message) /\ AllCounted(mp[p].buffer) /\ Sorted(mp[p].buffer)
             /\ \A i \in DOMAIN mp[p].buffer : mp[p].buffer[i].from = p
             /\ mp[p].subscribed => mp[p].buffer = << >>
  BY <1>0, <1>6, OrderTypes DEF InOrder, Placed
<1>7. ASSUME NEW c \in Conns
      PROVE  /\ sent[c] \in Seq(Message) /\ AllCounted(sent[c]) /\ Sorted(sent[c])
             /\ \A p \in Pids : Precedes(sent[c], mp[p].buffer)
  BY <1>0, <1>7, OrderTypes DEF InOrder, Placed
<1>8. CASE mp'[p0].buffer = Append(mp[p0].buffer, m) /\ UNCHANGED sent
  <2> DEFINE b == mp[p0].buffer \o ms
  <2>1. mp'[p0].buffer = b
    BY <1>2, <1>6, <1>8, AppendIsConcat DEF ms
  <2>2. Sorted(b) /\ CountedNext(b)
    BY <1>3, <1>4, <1>5, <1>6, SortedConcat
  <2>3. \A i \in DOMAIN b : b[i].from = p0
    <3>1. SUFFICES ASSUME NEW i \in DOMAIN b PROVE b[i].from = p0
      OBVIOUS
    <3>2. \/ i \in DOMAIN mp[p0].buffer /\ b[i] = mp[p0].buffer[i]
          \/ i - Len(mp[p0].buffer) \in DOMAIN ms /\ b[i] = ms[i - Len(mp[p0].buffer)]
      BY <1>3, <1>6, <3>1, ConcatIndex
    <3>3. QED
      BY <1>1, <1>3, <1>6, <3>2
  <2>4. \A c \in Conns : Precedes(sent[c], b)
    BY <1>3, <1>4, <1>6, <1>7, PrecedesConcat
  <2> HIDE DEF b, CountedNext
  <2>5. ASSUME NEW p \in Pids
        PROVE  /\ Sorted(mp'[p].buffer) /\ CountedNext(mp'[p].buffer)
               /\ \A i \in DOMAIN mp'[p].buffer : mp'[p].buffer[i].from = p
    BY <1>1, <1>5, <1>6, <2>1, <2>2, <2>3, <2>5
  <2>6. ASSUME NEW c \in Conns
        PROVE  /\ Sorted(sent'[c]) /\ CountedNext(sent'[c])
               /\ \A p \in Pids : Precedes(sent'[c], mp'[p].buffer)
    BY <1>1, <1>5, <1>7, <1>8, <2>1, <2>4, <2>6
  <2>7. QED
    BY <2>5, <2>6, OrderedNext DEF AllCounted, Counted, CountedNext
<1>9. CASE /\ mp[p0].subscribed /\ mp'[p0].buffer = mp[p0].buffer
           /\ SentToWriter(ms)
  <2>1. \A p \in Pids : mp'[p].buffer = mp[p].buffer
    BY <1>1, <1>9
  <2>2. ASSUME NEW p \in Pids PROVE Precedes(ms, mp[p].buffer)
    <3>1. CASE p = p0
      BY <1>6, <1>9, <3>1, EmptyOrdered
    <3>2. CASE p # p0
      BY <1>1, <1>3, <1>6, <2>2, <3>2 DEF Precedes, Before
    <3>3. QED
      BY <3>1, <3>2
  <2>3. ASSUME NEW c \in Conns
        PROVE  /\ Sorted(sent'[c]) /\ CountedNext(sent'[c])
               /\ \A p \in Pids : Precedes(sent'[c], mp[p].buffer)
    <3> DEFINE s == sent[c] \o ms
    <3>1. s \in Seq(Message) /\ Sorted(s) /\ CountedNext(s)
      BY <1>3, <1>4, <1>5, <1>7, <2>3, SortedConcat, ConcatProperties
    <3>2. \A p \in Pids : Precedes(s, mp[p].buffer)
      BY <1>3, <1>7, <2>2, <2>3, ConcatPrecedes
    <3>3. sent'[c] = sent[c] \/ ResultAdded(s, sent'[c])
      BY <1>9, <2>3 DEF SentToWriter
    <3>4. CASE sent'[c] = sent[c]
      BY <1>5, <1>7, <2>3, <3>4
    <3>5. CASE ResultAdded(s, sent'[c])
      <4> HIDE DEF s
      <4>1. /\ Sorted(sent'[c]) /\ \A p \in Pids : Precedes(sent'[c], mp[p].buffer)
        BY <3>1, <3>2, <3>5, ResultAddedKeeps
      <4>2. CountedNext(sent'[c])
        BY <3>1, <3>5, ResultAddedCounted
      <4>3. QED
        BY <4>1, <4>2
    <3>6. QED
      BY <3>3, <3>4, <3>5
  <2> HIDE DEF CountedNext
  <2>4. \A p \in Pids : CountedNext(mp[p].buffer)
    BY <1>5, <1>6
  <2>5. QED
    BY <1>6, <2>1, <2>3, <2>4, OrderedNext DEF AllCounted, Counted, CountedNext
<1>10. QED
  BY <1>1, <1>8, <1>9 DEF ms

LEMMA InitOrder == Init => OrderInv
<1> SUFFICES ASSUME Init PROVE OrderInv
  OBVIOUS
<1>1. TypeInv
  BY InitTyped
<1>2. \A p \in Pids : mp[p].buffer = << >>
  BY DEF Init, Process
<1>3. \A c \in Conns : sent[c] = << >>
  BY DEF Init
<1>4. InOrder
  BY <1>2, <1>3, EmptyOrdered DEF InOrder
<1>5. Placed
  BY <1>2, <1>3, EmptyOrdered DEF Placed, AllCounted
<1>6. QED
  BY <1>1, <1>4, <1>5 DEF OrderInv

LEMMA NextOrder ==
  ASSUME OrderInv, [Next]_vars
  PROVE  OrderInv'
<1>0. TypeInv /\ TypeOK /\ TypeInv'
  BY NextTyped DEF OrderInv, TypeInv
<1>1. CASE UNCHANGED vars
  <2>1. mp' = mp /\ sent' = sent /\ relay' = relay
    BY <1>1 DEF vars, tasks, streams
  <2>2. InOrder' /\ Placed'
    BY <2>1 DEF OrderInv, InOrder, Placed, AllCounted, Counted
  <2>3. QED
    BY <1>0, <2>2 DEF OrderInv
<1>2. CASE Next
  <2>0. Shape
    BY <1>0, <1>2, ShapeStep
  <2>1. CASE Quiet
    BY <1>0, <2>0, <2>1, QuietOrder DEF Quiet, BuffersStay
  <2>2. ASSUME NEW c \in Conns, Enters(c) PROVE OrderInv'
    <3> DEFINE q == handler[c].pid
               ps == [mp EXCEPT ![q] = Process("running")]
    <3>1. BuffersStay(ps) /\ SentStays
      BY <2>2 DEF Enters
    <3>2. \A p \in Pids : ps[p].buffer = mp[p].buffer \/ ps[p].buffer = << >>
      BY <1>0, ProcessIs DEF TypeOK
    <3> HIDE DEF ps
    <3>3. \A p \in Pids : mp'[p].buffer = mp[p].buffer \/ mp'[p].buffer = << >>
      BY <3>1, <3>2 DEF BuffersStay
    <3>4. QED
      BY <1>0, <2>0, <3>1, <3>3, QuietOrder
  <2>3. ASSUME NEW c \in Conns, NEW n \in Names, Replays(c, n) PROVE OrderInv'
    BY <1>0, <2>3, ReplaysOrder
  <2>4. ASSUME NEW p \in Pids, Relays(p) PROVE OrderInv'
    BY <1>0, <2>4, RelaysOrder
  <2>5. QED
    BY <2>0, <2>1, <2>2, <2>3, <2>4 DEF Shape
<1>3. QED
  BY <1>1, <1>2

(***************************************************************************)
(* What a connection is sent of a child is in the order the child wrote    *)
(* it, each line at most once, and what is buffered comes after it.        *)
(***************************************************************************)
THEOREM OrderCorrect == Spec => []InOrder
<1>1. OrderInv => InOrder
  BY DEF OrderInv
<1>2. QED
  BY InitOrder, NextOrder, <1>1, PTL DEF Spec

-----------------------------------------------------------------------------
(* Where children are known *)

Unborn(p) == child[p].state = "unborn"
Known(p) == relay[p].at # "none"

\* Only the handler that forked a child can make its entry, once; the table,
\* the shutdown and those who wait for a child know it from its entry.
BirthInv ==
  /\ \A p \in Pids : /\ Unborn(p) => ~Known(p)
                     /\ ~Known(p) => relay[p].taken = 0
  /\ \A n \in Names, p \in Pids : procs[n] = p => Known(p)
  /\ \A p \in todo : Known(p)
  /\ \A t \in Tasks : handler[t].at = "termwait" => Known(handler[t].pid)
  /\ \A c \in Conns : handler[c].at = "spawning" =>
       ~Unborn(handler[c].pid) /\ ~Known(handler[c].pid)
  /\ \A c, d \in Conns : handler[c].at = "spawning" /\ handler[d].at = "spawning"
                         /\ handler[c].pid = handler[d].pid => c = d

\* A step that makes no child and no entry.
Lives ==
  /\ \A p \in Pids : /\ Unborn(p)' = Unborn(p) /\ Known(p)' = Known(p)
                     /\ ~Known(p) => relay'[p].taken = relay[p].taken
  /\ TableShrinks
  /\ \A p \in todo' : p \in todo \/ \E n \in Names : procs[n] = p
  /\ \A t \in Tasks : handler'[t].at = "termwait" =>
       \/ handler'[t] = handler[t]
       \/ handler'[t].pid \in todo \/ \E n \in Names : procs[n] = handler'[t].pid
  /\ \A c \in Conns : handler'[c].at = "spawning" => handler'[c] = handler[c]

\* The handler of c forks the child p.
Forks(c, p) ==
  /\ Unborn(p) /\ ~Unborn(p)' /\ \A q \in Pids \ {p} : Unborn(q)' = Unborn(q)
  /\ UNCHANGED <<relay, todo>> /\ TableShrinks
  /\ handler'[c].at = "spawning" /\ handler'[c].pid = p
  /\ \A t \in Tasks \ {c} : handler'[t] = handler[t]

LEMMA LivesBirth ==
  ASSUME TypeInv, TypeInv', BirthInv, Lives
  PROVE  BirthInv'
<1>0. /\ Types /\ todo' \in SUBSET Pids /\ Conns \subseteq Tasks /\ Main \in Tasks
      /\ procs' \in [Names -> Pids \union {NoPid}]
  BY TypeParts, TypesNext DEF TypeInv, Types, Tasks
<1>1. \A p \in Pids : /\ Unborn(p)' = Unborn(p) /\ Known(p)' = Known(p)
                      /\ ~Known(p) => relay'[p].taken = relay[p].taken
  BY DEF Lives
<1>2. \A p \in Pids : (Unborn(p)' => ~Known(p)') /\ (~Known(p)' => relay'[p].taken = 0)
  BY <1>1 DEF BirthInv
<1>3. \A n \in Names, p \in Pids : procs'[n] = p => Known(p)'
  BY <1>1, PyAssumption DEF BirthInv, Lives, TableShrinks
<1>4. \A p \in todo' : Known(p)'
  BY <1>0, <1>1 DEF BirthInv, Lives
<1>5. ASSUME NEW t \in Tasks, handler'[t].at = "termwait" PROVE Known(handler[t].pid)'
  <2>1. handler'[t].pid \in Pids
    BY <1>5 DEF TypeInv, Remembers, Tasks
  <2>2. Known(handler'[t].pid)
    BY <1>5, <2>1 DEF BirthInv, Lives
  <2>3. QED
    BY <1>1, <2>1, <2>2 DEF Known
<1>6. ASSUME NEW c \in Conns, handler'[c].at = "spawning"
      PROVE  ~Unborn(handler[c].pid)' /\ ~Known(handler[c].pid)'
  <2>1. handler'[c].pid \in Pids /\ handler'[c] = handler[c]
    BY <1>6 DEF TypeInv, Remembers, Lives
  <2>2. ~Unborn(handler'[c].pid) /\ ~Known(handler'[c].pid)
    BY <1>6, <2>1 DEF BirthInv
  <2>3. QED
    BY <1>1, <2>1, <2>2 DEF Known, Unborn
<1>7. \A c, d \in Conns : handler'[c].at = "spawning" /\ handler'[d].at = "spawning"
                         /\ handler'[c].pid = handler'[d].pid => c = d
  BY DEF BirthInv, Lives
<1>8. QED
  BY <1>2, <1>3, <1>4, <1>5, <1>6, <1>7 DEF BirthInv, Known, Unborn

LEMMA ForksBirth ==
  ASSUME TypeInv, TypeInv', BirthInv, NEW c \in Conns, NEW p \in Pids, Forks(c, p)
  PROVE  BirthInv'
<1>0. Types /\ Conns \subseteq Tasks /\ Main \in Tasks /\ Main \notin Conns
  BY TypeParts, PyAssumption DEF TypeInv, Tasks
<1>1. /\ \A q \in Pids : Known(q)' = Known(q) /\ relay'[q].taken = relay[q].taken
      /\ \A q \in Pids : Unborn(q)' => Unborn(q)
      /\ ~Known(p) /\ ~Unborn(p)'
  BY DEF Forks, Known, BirthInv
<1>2. \A q \in Pids : (Unborn(q)' => ~Known(q)') /\ (~Known(q)' => relay'[q].taken = 0)
  BY <1>1 DEF BirthInv
<1>3. \A n \in Names, q \in Pids : procs'[n] = q => Known(q)'
  BY <1>1, PyAssumption DEF BirthInv, Forks, TableShrinks
<1>4. \A q \in todo' : Known(q)'
  BY <1>0, <1>1 DEF BirthInv, Forks, Types
<1>5. ASSUME NEW t \in Tasks, handler'[t].at = "termwait" PROVE Known(handler[t].pid)'
  <2>1. handler'[t] = handler[t] /\ handler[t].pid \in Pids
    BY <1>5 DEF Forks, TypeInv, Remembers, Tasks
  <2>2. Known(handler'[t].pid)
    BY <1>5, <2>1 DEF BirthInv
  <2>3. QED
    BY <1>1, <2>1, <2>2 DEF Known
<1>6. ASSUME NEW d \in Conns, handler'[d].at = "spawning"
      PROVE  ~Unborn(handler[d].pid)' /\ ~Known(handler[d].pid)'
  <2>1. CASE d = c
    BY <1>1, <2>1 DEF Forks, Known, Unborn
  <2>2. CASE d # c
    <3>1. handler'[d] = handler[d] /\ handler[d].pid \in Pids
      BY <1>0, <1>6, <2>2 DEF Forks, TypeInv, Remembers
    <3>2. ~Unborn(handler'[d].pid) /\ ~Known(handler'[d].pid)
      BY <1>6, <3>1 DEF BirthInv
    <3>3. QED
      BY <1>1, <3>1, <3>2 DEF Known, Unborn
  <2>3. QED
    BY <2>1, <2>2
<1>7. ASSUME NEW d \in Conns, NEW e \in Conns, handler'[d].at = "spawning",
             handler'[e].at = "spawning", handler'[d].pid = handler'[e].pid
      PROVE  d = e
  <2>1. \A x \in Conns : x # c => handler'[x] = handler[x]
    BY <1>0 DEF Forks
  <2>2. \A x \in Conns : x # c /\ handler'[x].at = "spawning" => handler'[x].pid # p
    BY <2>1 DEF BirthInv, Forks
  <2>3. QED
    BY <1>7, <2>1, <2>2 DEF BirthInv, Forks
<1>8. QED
  BY <1>2, <1>3, <1>4, <1>5, <1>6, <1>7 DEF BirthInv, Known, Unborn

\* What it takes for a step to make no child and no entry.
LEMMA LivesIf ==
  ASSUME TypeInv,
         \A p \in Pids : child'[p].state = "unborn" <=> child[p].state = "unborn",
         \A p \in Pids : /\ relay'[p].at = "none" <=> relay[p].at = "none"
                         /\ relay[p].at = "none" => relay'[p].taken = relay[p].taken,
         TableShrinks, \A p \in todo' : p \in todo \/ \E n \in Names : procs[n] = p,
         NEW t \in Tasks, \A u \in Tasks : u # t => handler'[u] = handler[u],
         \/ handler'[t].at \notin {"spawning", "termwait"} \/ handler'[t] = handler[t]
         \/ /\ handler'[t].at = "termwait"
            /\ handler'[t].pid \in todo \/ \E n \in Names : procs[n] = handler'[t].pid
  PROVE  Lives
<1>1. Conns \subseteq Tasks
  BY DEF Tasks
<1>2. \A u \in Tasks : handler'[u].at = "termwait" =>
       \/ handler'[u] = handler[u]
       \/ handler'[u].pid \in todo \/ \E n \in Names : procs[n] = handler'[u].pid
  OBVIOUS
<1>3. \A c \in Conns : handler'[c].at = "spawning" => handler'[c] = handler[c]
  BY <1>1
<1>4. \A p \in Pids : /\ Unborn(p)' = Unborn(p) /\ Known(p)' = Known(p)
                      /\ ~Known(p) => relay'[p].taken = relay[p].taken
  BY DEF Unborn, Known
<1>5. QED
  BY <1>2, <1>3, <1>4 DEF Lives

LEMMA CommandBirth ==
  ASSUME TypeInv, NEW c \in Conns, Command(c)
  PROVE  Lives \/ \E p \in Pids : Forks(c, p)
<1>0. /\ TypeOK /\ c \in Tasks /\ c # Main /\ Conns \subseteq Tasks
      /\ procs \in [Names -> Pids \union {NoPid}] /\ child \in [Pids -> ChildRec]
      /\ client_writer \in Conns \union {NoConn}
  BY TypeParts, PyAssumption DEF TypeInv, Tasks, Types
<1>1. /\ UNCHANGED <<relay, todo>> /\ handler[c].at = "reading"
  <2>1. \E x \in {"spawn", "kill", "subscribe", "unsubscribe", "status"} : TakeCommand(c, x)
    BY DEF Command, CmdSpawn, CmdKill, CmdSubscribe, CmdUnsubscribe, CmdStatus
  <2>2. QED
    BY <2>1 DEF TakeCommand
<1>2. ASSUME UNCHANGED <<handler, child>>, TableShrinks PROVE Lives
  BY <1>0, <1>1, <1>2, LivesIf
<1>3. ASSUME NEW n \in Names, CmdSpawn(c, n) PROVE Lives \/ \E p \in Pids : Forks(c, p)
  <2>1. TableShrinks
    BY <1>0, <1>3 DEF CmdSpawn, TableShrinks
  <2>2. ASSUME NEW p \in Pids, child[p].state = "unborn",
               child' = [child EXCEPT ![p] = [@ EXCEPT !.state = "running", !.name = n, !.open = TRUE]],
               Waits(c, "spawning", n, p, NoConn)
        PROVE  Forks(c, p)
    <3>1. child'[p].state = "running" /\ \A q \in Pids \ {p} : child'[q] = child[q]
      <4>1. child[p] \in ChildRec
        BY <1>0
      <4>2. [child[p] EXCEPT !.state = "running", !.name = n, !.open = TRUE].state = "running"
        BY <4>1 DEF ChildRec
      <4>3. QED
        BY <1>0, <2>2, <4>2
    <3>2. "spawning" \in HandlerStates
      BY DEF HandlerStates
    <3>3. /\ handler'[c].at = "spawning" /\ handler'[c].pid = p
          /\ \A u \in Tasks : u # c => handler'[u] = handler[u]
      <4> DEFINE h == [at |-> "spawning", name |-> n, pid |-> p, writer |-> NoConn]
      <4>1. handler'[c] = h /\ \A u \in Tasks : u # c => handler'[u] = handler[u]
        BY <1>0, <2>2, <3>2, WaitsIs
      <4>2. QED
        BY <4>1
    <3>4. QED
      BY <1>1, <2>1, <2>2, <3>1, <3>3 DEF Forks, Unborn
  <2>3. UNCHANGED <<handler, child>> \/ \E p \in Pids :
          /\ child[p].state = "unborn"
          /\ child' = [child EXCEPT ![p] = [@ EXCEPT !.state = "running", !.name = n, !.open = TRUE]]
          /\ Waits(c, "spawning", n, p, NoConn)
    BY <1>3 DEF CmdSpawn
  <2>4. QED
    BY <1>2, <2>1, <2>2, <2>3
<1>4. ASSUME NEW n \in Names, CmdKill(c, n) PROVE Lives
  <2>1. TableShrinks /\ UNCHANGED child
    BY <1>0, <1>4 DEF CmdKill, TableShrinks
  <2>2. CASE UNCHANGED handler
    BY <1>2, <2>1, <2>2
  <2>3. CASE Waits(c, "termwait", n, procs[n], NoConn)
    <3> DEFINE h == [at |-> "termwait", name |-> n, pid |-> procs[n], writer |-> NoConn]
    <3>1. handler'[c] = h /\ \A u \in Tasks : u # c => handler'[u] = handler[u]
      BY <1>0, <2>3, WaitsIs DEF HandlerStates
    <3>2. handler'[c].at = "termwait" /\ handler'[c].pid = procs[n]
      BY <3>1
    <3> HIDE DEF h
    <3>3. QED
      BY <1>0, <1>1, <2>1, <3>1, <3>2, LivesIf
  <2>4. QED
    BY <1>4, <2>2, <2>3 DEF CmdKill
<1>5. ASSUME NEW n \in Names, CmdSubscribe(c, n) PROVE Lives
  <2>1. TableShrinks /\ UNCHANGED child
    BY <1>5 DEF CmdSubscribe, TableShrinks
  <2>2. CASE UNCHANGED handler
    BY <1>2, <2>1, <2>2
  <2>3. CASE Waits(c, "draining", n, procs[n], client_writer)
    <3> DEFINE h == [at |-> "draining", name |-> n, pid |-> procs[n], writer |-> client_writer]
    <3>1. handler'[c] = h /\ \A u \in Tasks : u # c => handler'[u] = handler[u]
      BY <1>0, <2>3, WaitsIs DEF HandlerStates
    <3>2. handler'[c].at = "draining"
      BY <3>1
    <3> HIDE DEF h
    <3>3. QED
      BY <1>0, <1>1, <2>1, <3>1, <3>2, LivesIf
  <2>4. QED
    BY <1>5, <2>2, <2>3 DEF CmdSubscribe
<1>6. CASE CmdStatus(c) \/ \E n \in Names : CmdUnsubscribe(c, n)
  <2>1. TableShrinks /\ UNCHANGED <<handler, child>>
    BY <1>6 DEF CmdStatus, CmdUnsubscribe, TableShrinks
  <2>2. QED
    BY <1>2, <2>1
<1>7. QED
  BY <1>3, <1>4, <1>5, <1>6 DEF Command

\* The entry of the child whose handler forked it.
LEMMA SpawnedBirth ==
  ASSUME TypeInv, TypeInv', BirthInv, NEW c \in Conns, Spawned(c)
  PROVE  BirthInv'
<1>0. /\ TypeOK /\ Types /\ c \in Tasks /\ Conns \subseteq Tasks /\ Main \in Tasks
      /\ relay \in [Pids -> RelayRec] /\ procs \in [Names -> Pids \union {NoPid}]
  BY TypeParts DEF TypeInv, Tasks, Types
<1>a. PICK n \in Names, p \in Pids : n = handler[c].name /\ p = handler[c].pid
  BY DEF Spawned, TypeInv, Remembers
<1>1. handler[c].at = "spawning" /\ UNCHANGED <<child, todo>>
  BY DEF Spawned
<1>2. procs' = [procs EXCEPT ![n] = p]
  BY <1>a DEF Spawned
<1>3. /\ handler'[c].at = "reading" /\ \A u \in Tasks : u # c => handler'[u] = handler[u]
  BY <1>0, GoesIs DEF Spawned, HandlerStates
<1>4. relay'[p].at = "reading" /\ \A q \in Pids \ {p} : relay'[q] = relay[q]
  <2>1. relay[p] \in RelayRec /\ relay' = [relay EXCEPT ![p] = [relay[p] EXCEPT !.at = "reading"]]
    BY <1>0, <1>a, <1>1 DEF Spawned
  <2>2. [relay[p] EXCEPT !.at = "reading"].at = "reading"
    BY <2>1 DEF RelayRec
  <2>3. QED
    BY <1>0, <1>1, <2>1, <2>2
<1>5. /\ Known(p)' /\ \A q \in Pids \ {p} : Known(q)' = Known(q) /\ relay'[q] = relay[q]
      /\ \A q \in Pids : Known(q) => Known(q)'
  BY <1>4 DEF Known
<1>6. /\ ~Unborn(p) /\ \A q \in Pids : Unborn(q)' = Unborn(q)
      /\ \A d \in Conns : d # c /\ handler[d].at = "spawning" => handler[d].pid # p
  BY <1>a, <1>1 DEF BirthInv, Unborn
<1>7. \A q \in Pids : (Unborn(q)' => ~Known(q)') /\ (~Known(q)' => relay'[q].taken = 0)
  BY <1>5, <1>6 DEF BirthInv
<1>8. \A k \in Names, q \in Pids : procs'[k] = q => Known(q)'
  BY <1>0, <1>1, <1>2, <1>5 DEF BirthInv
<1>9. \A q \in todo' : Known(q)'
  BY <1>0, <1>1, <1>5 DEF BirthInv, Types
<1>10. ASSUME NEW t \in Tasks, handler'[t].at = "termwait" PROVE Known(handler[t].pid)'
  <2>1. handler'[t] = handler[t] /\ handler[t].pid \in Pids
    BY <1>3, <1>10 DEF TypeInv, Remembers, Tasks
  <2>2. Known(handler[t].pid)
    BY <1>10, <2>1 DEF BirthInv
  <2>3. QED
    BY <1>5, <2>1, <2>2 DEF Known
<1>11. ASSUME NEW d \in Conns, handler'[d].at = "spawning"
       PROVE  ~Unborn(handler[d].pid)' /\ ~Known(handler[d].pid)'
  <2>1. handler'[d] = handler[d] /\ d # c
    BY <1>0, <1>3, <1>11
  <2>2. handler[d].pid \in Pids /\ handler[d].pid # p
    BY <1>6, <1>11, <2>1 DEF TypeInv, Remembers
  <2>3. ~Unborn(handler[d].pid) /\ ~Known(handler[d].pid)
    BY <1>11, <2>1 DEF BirthInv
  <2>4. QED
    BY <1>5, <1>6, <2>1, <2>2, <2>3 DEF Known, Unborn
<1>12. \A d, e \in Conns : handler'[d].at = "spawning" /\ handler'[e].at = "spawning"
                          /\ handler'[d].pid = handler'[e].pid => d = e
  BY <1>0, <1>3 DEF BirthInv
<1>13. QED
  BY <1>7, <1>8, <1>9, <1>10, <1>11, <1>12 DEF BirthInv, Known, Unborn

\* A child that lives on, or dies.
LEMMA ChildLives ==
  ASSUME TypeInv, NEW p \in Pids,
         \/ child' = [child EXCEPT ![p].out = @ + 1] \/ child' = [child EXCEPT ![p].open = FALSE]
         \/ child[p].state = "running" /\ child' = [child EXCEPT ![p].state = "dead"]
  PROVE  \A q \in Pids : child'[q].state = "unborn" <=> child[q].state = "unborn"
<1>0. child \in [Pids -> ChildRec] /\ child[p] \in ChildRec
  BY TypeParts DEF TypeInv, Types
<1>1. ASSUME NEW e \in {[child[p] EXCEPT !.out = @ + 1], [child[p] EXCEPT !.open = FALSE]}
      PROVE  e.state = child[p].state
  BY <1>0, <1>1 DEF ChildRec
<1>2. [child[p] EXCEPT !.state = "dead"].state = "dead"
  BY <1>0 DEF ChildRec
<1>3. PICK e : child' = [child EXCEPT ![p] = e] /\ (e.state = "unborn" <=> child[p].state = "unborn")
  BY <1>1, <1>2
<1>4. child'[p] = e /\ \A q \in Pids : q # p => child'[q] = child[q]
  BY <1>0, <1>3
<1>5. QED
  BY <1>3, <1>4

\* A relay that has been started goes on or ends.
LEMMA RelayLives ==
  ASSUME TypeInv, NEW p \in Pids, relay[p].at # "none",
         \/ relay' = [relay EXCEPT ![p].taken = @ + 1] \/ relay' = [relay EXCEPT ![p].at = "done"]
         \/ relay' = [relay EXCEPT ![p] = [at |-> "done", taken |-> @.taken + 1]]
  PROVE  \A q \in Pids : /\ relay'[q].at = "none" <=> relay[q].at = "none"
                         /\ relay[q].at = "none" => relay'[q].taken = relay[q].taken
<1>0. relay \in [Pids -> RelayRec] /\ relay[p] \in RelayRec
  BY TypeParts DEF TypeInv, Types
<1>1. /\ [relay[p] EXCEPT !.taken = @ + 1].at = relay[p].at
      /\ [relay[p] EXCEPT !.at = "done"].at = "done"
      /\ [at |-> "done", taken |-> relay[p].taken + 1].at = "done"
  BY <1>0 DEF RelayRec
<1>2. PICK e : relay' = [relay EXCEPT ![p] = e] /\ e.at # "none"
  BY <1>1
<1>3. relay'[p] = e /\ \A q \in Pids : q # p => relay'[q] = relay[q]
  BY <1>0, <1>2
<1>4. QED
  BY <1>2, <1>3

LEMMA KillingBirth ==
  ASSUME TypeInv, BirthInv, NEW t \in Tasks, Killing(t)
  PROVE  Lives
<1>0. /\ TypeOK /\ Types /\ Main \in Tasks /\ Conns \subseteq Tasks
      /\ procs \in [Names -> Pids \union {NoPid}]
  BY TypeParts DEF TypeInv, Types, Tasks
<1>1. handler[t].at = "termwait" /\ handler[t].pid \in Pids
  BY <1>0 DEF Killing, KillReaped, KillTimeout, TypeInv, Remembers, Tasks
<1>2. CASE KillReaped(t)
  <2>1. UNCHANGED <<todo, child>> /\ TableShrinks
    BY <1>0, <1>2 DEF KillReaped, TableShrinks
  <2>2. relay[handler[t].pid].at # "none"
    BY <1>1 DEF BirthInv, Known
  <2>3. \A q \in Pids : /\ relay'[q].at = "none" <=> relay[q].at = "none"
                        /\ relay[q].at = "none" => relay'[q].taken = relay[q].taken
    BY <1>1, <1>2, <2>2, RelayLives DEF KillReaped
  <2>4. handler'[t].at \in {"reading", "killing"} /\ \A u \in Tasks : u # t => handler'[u] = handler[u]
    BY <1>0, <1>2, GoesIs DEF KillReaped, HandlerStates
  <2>5. QED
    BY <2>1, <2>3, <2>4, LivesIf
<1>3. CASE KillTimeout(t)
  <2>1. UNCHANGED <<procs, relay, todo, handler>> /\ TableShrinks
    BY <1>3 DEF KillTimeout, tasks, TableShrinks
  <2>2. \A q \in Pids : child'[q].state = "unborn" <=> child[q].state = "unborn"
    BY <1>1, <1>3, ChildLives DEF KillTimeout
  <2>3. QED
    BY <2>1, <2>2, LivesIf
<1>4. QED
  BY <1>2, <1>3 DEF Killing

LEMMA OthersBirth ==
  ASSUME TypeInv, BirthInv, Next,
         ~ \E c \in Conns : Command(c) \/ Spawned(c)
  PROVE  Lives
<1>0. /\ TypeOK /\ Types /\ Main \in Tasks /\ Conns \subseteq Tasks
  BY TypeParts DEF TypeInv, Types, Tasks
<1>1. ASSUME UNCHANGED <<procs, relay, todo, child>>, NEW t \in Tasks, NEW s \in HandlerStates,
             s \notin {"spawning", "termwait"}, Goes(t, s)
      PROVE  Lives
  <2>1. handler'[t].at = s /\ \A u \in Tasks : u # t => handler'[u] = handler[u]
    BY <1>0, <1>1, GoesIs
  <2>2. TableShrinks
    BY <1>1 DEF TableShrinks
  <2>3. QED
    BY <1>1, <2>1, <2>2, LivesIf
<1>2. ASSUME UNCHANGED <<procs, handler, todo>>,
             \A p \in Pids : child'[p].state = "unborn" <=> child[p].state = "unborn",
             \A p \in Pids : /\ relay'[p].at = "none" <=> relay[p].at = "none"
                             /\ relay[p].at = "none" => relay'[p].taken = relay[p].taken
      PROVE  Lives
  <2>1. TableShrinks
    BY <1>2 DEF TableShrinks
  <2>2. QED
    BY <1>0, <1>2, <2>1, LivesIf
<1>3. CASE \E c \in Conns : HandleClient(c) \/ HandlerEnds(c) \/ Drained(c)
  BY <1>0, <1>1, <1>3 DEF HandleClient, HandlerEnds, Drained, HandlerStates, streams
<1>4. CASE ShutdownCloses
  BY <1>0, <1>1, <1>4 DEF ShutdownCloses, HandlerStates
<1>5. CASE Shutdown
  <2>1. handler'[Main].at = "killing" /\ \A u \in Tasks : u # Main => handler'[u] = handler[u]
    BY <1>0, <1>5, GoesIs DEF Shutdown, HandlerStates
  <2>2. /\ UNCHANGED <<relay, child>> /\ TableShrinks
        /\ \A p \in todo' : \E n \in Names : procs[n] = p
    BY <1>5 DEF Shutdown, TableShrinks
  <2>3. QED
    BY <1>0, <2>1, <2>2, LivesIf
<1>6. ASSUME NEW p \in Pids, ShutdownNext(p) PROVE Lives
  <2>1. /\ UNCHANGED <<procs, relay, child>> /\ TableShrinks /\ p \in todo /\ todo' \subseteq todo
    BY <1>6 DEF ShutdownNext, TableShrinks
  <2>2. CASE UNCHANGED handler
    BY <1>0, <2>1, <2>2, LivesIf
  <2>3. CASE Waits(Main, "termwait", child[p].name, p, NoConn)
    <3> DEFINE h == [at |-> "termwait", name |-> child[p].name, pid |-> p, writer |-> NoConn]
    <3>1. child[p].name \in Names \union {Main}
      BY <1>0, <1>6 DEF Types, ChildRec
    <3>2. handler'[Main] = h /\ \A u \in Tasks : u # Main => handler'[u] = handler[u]
      BY <1>0, <2>3, <3>1, WaitsIs DEF HandlerStates
    <3>3. handler'[Main].at = "termwait" /\ handler'[Main].pid = p
      BY <3>2
    <3> HIDE DEF h
    <3>4. QED
      BY <1>0, <2>1, <3>2, <3>3, LivesIf
  <2>4. QED
    BY <1>6, <2>2, <2>3 DEF ShutdownNext
<1>7. ASSUME NEW p \in Pids, Relay(p) PROVE Lives
  <2>1. relay[p].at # "none"
    BY <1>7 DEF Relay, RelayStdout, RelayExit, RelayFails
  <2>2. \A q \in Pids : /\ relay'[q].at = "none" <=> relay[q].at = "none"
                        /\ relay[q].at = "none" => relay'[q].taken = relay[q].taken
    BY <1>7, <2>1, RelayLives DEF Relay, RelayStdout, RelayExit, RelayFails
  <2>3. UNCHANGED <<procs, handler, todo, child>>
    BY <1>7 DEF Relay, RelayStdout, RelayExit, RelayFails, RelayStands
  <2>4. QED
    BY <1>2, <2>2, <2>3
<1>8. ASSUME NEW p \in Pids, ChildWrites(p) \/ ChildCloses(p) \/ ChildExits(p) PROVE Lives
  <2>1. \A q \in Pids : child'[q].state = "unborn" <=> child[q].state = "unborn"
    BY <1>8, ChildLives DEF ChildWrites, ChildCloses, ChildExits
  <2>2. UNCHANGED <<procs, handler, todo, relay>>
    BY <1>8 DEF ChildWrites, ChildCloses, ChildExits, tasks
  <2>3. QED
    BY <1>2, <2>1, <2>2
<1>9. CASE Rests \/ \E c \in Conns : ClientSends(c) \/ ClientCloses(c)
  BY <1>2, <1>9 DEF Rests, ClientSends, ClientCloses, vars, tasks
<1>10. QED
  BY <1>0, <1>3, <1>4, <1>5, <1>6, <1>7, <1>8, <1>9, KillingBirth
     DEF Next, Handler, Stopping, Environment

LEMMA InitBirth == Init => BirthInv
<1> SUFFICES ASSUME Init PROVE BirthInv
  OBVIOUS
<1>1. \A p \in Pids : ~Known(p) /\ relay[p].taken = 0 /\ Unborn(p)
  BY DEF Init, Known, Unborn
<1>2. \A t \in Tasks : handler[t].at \notin {"termwait", "spawning"}
  BY DEF Init, Tasks
<1>3. Conns \subseteq Tasks /\ todo = {} /\ \A n \in Names : procs[n] = NoPid
  BY DEF Init, Tasks
<1>4. QED
  BY <1>1, <1>2, <1>3, PyAssumption DEF BirthInv

LEMMA NextBirth ==
  ASSUME TypeInv, BirthInv, [Next]_vars
  PROVE  BirthInv'
<1>0. TypeInv'
  BY NextTyped
<1>1. CASE UNCHANGED vars
  BY <1>1 DEF BirthInv, Unborn, Known, vars, tasks
<1>2. CASE Next
  BY <1>0, <1>2, CommandBirth, SpawnedBirth, OthersBirth, LivesBirth, ForksBirth
<1>3. QED
  BY <1>1, <1>2

===============================================================================
