--------------------- MODULE ProcmuxServerStreamProofs ---------------------
(***************************************************************************)
(* The Rust server implements OutputStream, for every number of names,     *)
(* children, clients and lines: each pipe of each child is one queue.      *)
(*                                                                         *)
(* Positions is a recursive function, so what it does to the sequences the *)
(* server builds (append, concatenate, take the first) is proved by        *)
(* induction on Nat first.  Then each way a step moves messages is a step  *)
(* of the queue, or leaves it alone.                                       *)
(***************************************************************************)
EXTENDS ProcmuxServerOutputProofs, WellFoundedInduction

USE DEF Managed, Running

-----------------------------------------------------------------------------
(* Induction *)

\* A set of naturals with 0 and the successor of each of its members is Nat:
\* otherwise there would be a least number that is not in it.
LEMMA NatSet ==
  ASSUME NEW T \in SUBSET Nat, 0 \in T, \A n \in T : n + 1 \in T
  PROVE  T = Nat
<1> DEFINE U == Nat \ T
<1>1. SUFFICES ASSUME U # {} PROVE FALSE
  OBVIOUS
<1>2. PICK m \in U : \A y \in U : <<y, m>> \notin OpToRel(<, Nat)
  <2>1. U \subseteq Nat
    OBVIOUS
  <2> HIDE DEF U
  <2>2. QED
    BY <1>1, <2>1, NatLessThanWellFounded, WFMin, Zenon
<1>3. \A y \in U : ~(y < m)
  BY <1>2, Zenon DEF OpToRel
<1>4. m \in Nat /\ m # 0 /\ m - 1 \in Nat /\ m - 1 < m
  OBVIOUS
<1>5. m - 1 \in T
  BY <1>3, <1>4
<1>6. (m - 1) + 1 \in T
  BY <1>5
<1>7. QED
  BY <1>4, <1>6

-----------------------------------------------------------------------------
(* Positions *)

\* f collects the positions of one pipe of p from the first n messages of s.
Scans(f, s, p, pipe, n) ==
  /\ f \in [0 .. n -> Seq(Nat)]
  /\ f[0] = << >>
  /\ \A i \in 1 .. n :
       f[i] = IF ReadFrom(s[i], p, pipe) THEN Append(f[i - 1], s[i].seq) ELSE f[i - 1]

LEMMA ReadFromType ==
  ASSUME NEW m \in Message, NEW p, NEW pipe, ReadFrom(m, p, pipe)
  PROVE  m \in Output /\ m.seq \in Nat
BY DEF ReadFrom, Message, Output, Result

LEMMA ScanExists ==
  ASSUME NEW s \in Seq(Message), NEW p, NEW pipe
  PROVE  \E f : Scans(f, s, p, pipe, Len(s))
<1> DEFINE T == {n \in Nat : n <= Len(s) => \E f : Scans(f, s, p, pipe, n)}
<1>1. 0 \in T
  <2> DEFINE e == [i \in 0 .. 0 |-> << >>]
  <2>1. Scans(e, s, p, pipe, 0)
    BY DEF Scans
  <2>2. QED
    BY <2>1
<1>2. ASSUME NEW n \in T PROVE n + 1 \in T
  <2>1. SUFFICES ASSUME n + 1 <= Len(s) PROVE \E f : Scans(f, s, p, pipe, n + 1)
    OBVIOUS
  <2>2. n \in Nat /\ n <= Len(s) /\ n + 1 \in 1 .. Len(s)
    BY <2>1
  <2>3. PICK f : Scans(f, s, p, pipe, n)
    BY <2>2
  <2> DEFINE a == f[n]
             b == IF ReadFrom(s[n + 1], p, pipe) THEN Append(a, s[n + 1].seq) ELSE a
             g == [i \in 0 .. n + 1 |-> IF i = n + 1 THEN b ELSE f[i]]
  <2>4. b \in Seq(Nat)
    <3>1. a \in Seq(Nat)
      BY <2>2, <2>3 DEF Scans
    <3>2. ReadFrom(s[n + 1], p, pipe) => s[n + 1].seq \in Nat
      BY <2>2, ElementOfSeq, ReadFromType
    <3> HIDE DEF a
    <3>3. QED
      BY <3>1, <3>2
  <2> HIDE DEF b
  <2>5. g \in [0 .. n + 1 -> Seq(Nat)]
    BY <2>2, <2>3, <2>4 DEF Scans
  <2>6. g[0] = << >> /\ \A i \in 0 .. n : g[i] = f[i]
    BY <2>2, <2>3 DEF Scans
  <2>7. g[n + 1] = b /\ g[n] = a
    BY <2>2
  <2>8. ASSUME NEW i \in 1 .. n + 1
        PROVE  g[i] = IF ReadFrom(s[i], p, pipe) THEN Append(g[i - 1], s[i].seq) ELSE g[i - 1]
    <3>1. CASE i = n + 1
      <4>1. i - 1 = n
        BY <2>2, <3>1
      <4> HIDE DEF g
      <4>2. QED
        BY <2>7, <3>1, <4>1 DEF b
    <3>2. CASE i \in 1 .. n
      <4>1. g[i] = f[i] /\ g[i - 1] = f[i - 1]
        BY <2>2, <2>6, <3>2
      <4> HIDE DEF g
      <4>2. QED
        BY <2>3, <3>2, <4>1 DEF Scans
    <3>3. QED
      BY <2>2, <3>1, <3>2
  <2> HIDE DEF g
  <2>9. Scans(g, s, p, pipe, n + 1)
    BY <2>5, <2>6, <2>8 DEF Scans
  <2>10. QED
    BY <2>9
<1>3. T \in SUBSET Nat
  OBVIOUS
<1> HIDE DEF T
<1>4. T = Nat
  BY <1>1, <1>2, <1>3, NatSet
<1>5. Len(s) \in T
  BY <1>4
<1>6. QED
  BY <1>5 DEF T

\* Two scans agree as long as what they scan does.
LEMMA ScansAgree ==
  ASSUME NEW s, NEW t, NEW p, NEW pipe, NEW n \in Nat, NEW k \in Nat, n <= k,
         \A i \in 1 .. n : s[i] = t[i],
         NEW f, Scans(f, s, p, pipe, n), NEW g, Scans(g, t, p, pipe, k)
  PROVE  f[n] = g[n]
<1> DEFINE T == {i \in Nat : i <= n => f[i] = g[i]}
<1>1. 0 \in T
  BY DEF Scans
<1>2. ASSUME NEW i \in T PROVE i + 1 \in T
  <2>1. SUFFICES ASSUME i + 1 <= n PROVE f[i + 1] = g[i + 1]
    OBVIOUS
  <2>2. /\ i + 1 \in 1 .. n /\ i + 1 \in 1 .. k /\ (i + 1) - 1 = i /\ f[i] = g[i]
        /\ s[i + 1] = t[i + 1]
    BY <2>1
  <2>3. f[i + 1] = IF ReadFrom(s[i + 1], p, pipe) THEN Append(f[i], s[i + 1].seq) ELSE f[i]
    BY <2>2 DEF Scans
  <2>4. g[i + 1] = IF ReadFrom(t[i + 1], p, pipe) THEN Append(g[i], t[i + 1].seq) ELSE g[i]
    BY <2>2 DEF Scans
  <2>5. QED
    BY <2>2, <2>3, <2>4
<1>3. T \in SUBSET Nat
  OBVIOUS
<1> HIDE DEF T
<1>4. T = Nat
  BY <1>1, <1>2, <1>3, NatSet
<1>5. QED
  BY <1>4 DEF T

\* The function in the definition of Positions is such a scan.
LEMMA PositionsScan ==
  ASSUME NEW s \in Seq(Message), NEW p, NEW pipe
  PROVE  \E f : Scans(f, s, p, pipe, Len(s)) /\ Positions(s, p, pipe) = f[Len(s)]
<1> DEFINE R(f) == [i \in 0 .. Len(s) |->
                      IF i = 0 THEN << >>
                      ELSE IF ReadFrom(s[i], p, pipe) THEN Append(f[i - 1], s[i].seq) ELSE f[i - 1]]
           h == CHOOSE f : f = R(f)
<1>0. Len(s) \in Nat
  BY LenProperties
<1>1. Positions(s, p, pipe) = h[Len(s)]
  BY DEF Positions
<1>2. PICK f : Scans(f, s, p, pipe, Len(s))
  BY ScanExists
<1>3. f = R(f)
  <2>1. f = [i \in 0 .. Len(s) |-> f[i]]
    BY <1>2 DEF Scans
  <2>2. ASSUME NEW i \in 0 .. Len(s)
        PROVE  f[i] = IF i = 0 THEN << >>
                      ELSE IF ReadFrom(s[i], p, pipe) THEN Append(f[i - 1], s[i].seq) ELSE f[i - 1]
    <3>1. CASE i = 0
      BY <1>2, <3>1 DEF Scans
    <3>2. CASE i # 0
      <4>1. i \in 1 .. Len(s)
        BY <3>2
      <4>2. QED
        BY <1>2, <3>2, <4>1, Zenon DEF Scans
    <3>3. QED
      BY <3>1, <3>2
  <2>3. R(f) = [i \in 0 .. Len(s) |-> f[i]]
    BY <2>2, Zenon
  <2>4. QED
    BY <2>1, <2>3
<1>4. h = R(h)
  <2> HIDE DEF R
  <2>1. QED
    BY <1>3
<1> HIDE DEF h
<1>5. \A i \in 0 .. Len(s) : h[i] = f[i]
  <2> DEFINE T == {n \in Nat : n <= Len(s) => h[n] = f[n]}
  <2>1. 0 \in T
    BY <1>0, <1>2, <1>4 DEF Scans
  <2>2. ASSUME NEW n \in T PROVE n + 1 \in T
    <3>1. SUFFICES ASSUME n + 1 <= Len(s) PROVE h[n + 1] = f[n + 1]
      OBVIOUS
    <3>2. n + 1 \in 1 .. Len(s) /\ (n + 1) - 1 = n /\ n + 1 \in 0 .. Len(s) /\ n + 1 # 0
      BY <3>1
    <3>3. h[n] = f[n]
      BY <3>2
    <3>4. f[n + 1] = IF ReadFrom(s[n + 1], p, pipe) THEN Append(f[n], s[n + 1].seq) ELSE f[n]
      BY <1>2, <3>2 DEF Scans
    <3>5. h[n + 1] = R(h)[n + 1]
      BY <1>4, Zenon
    <3>6. R(h)[n + 1] = IF ReadFrom(s[n + 1], p, pipe) THEN Append(h[n], s[n + 1].seq) ELSE h[n]
      BY <3>2
    <3> HIDE DEF R
    <3>7. QED
      BY <3>3, <3>4, <3>5, <3>6
  <2>3. T \in SUBSET Nat
    OBVIOUS
  <2> HIDE DEF T
  <2>4. T = Nat
    BY <2>1, <2>2, <2>3, NatSet
  <2>5. QED
    BY <2>4 DEF T
<1>6. h[Len(s)] = f[Len(s)]
  BY <1>0, <1>5
<1>7. QED
  BY <1>1, <1>2, <1>6

\* What it is for the sequences the server builds.
LEMMA PositionsEmpty ==
  ASSUME NEW p, NEW pipe
  PROVE  Positions(<< >>, p, pipe) = << >>
<1>1. << >> \in Seq(Message) /\ Len(<< >>) = 0
  BY EmptySeq
<1>2. PICK f : Scans(f, << >>, p, pipe, 0) /\ Positions(<< >>, p, pipe) = f[0]
  BY <1>1, PositionsScan
<1>3. QED
  BY <1>2 DEF Scans

LEMMA PositionsType ==
  ASSUME NEW s \in Seq(Message), NEW p, NEW pipe
  PROVE  Positions(s, p, pipe) \in Seq(Nat)
<1>1. Len(s) \in 0 .. Len(s)
  BY LenProperties
<1>2. QED
  BY <1>1, PositionsScan DEF Scans

LEMMA PositionsAppend ==
  ASSUME NEW s \in Seq(Message), NEW m \in Message, NEW p, NEW pipe
  PROVE  Positions(Append(s, m), p, pipe) =
           IF ReadFrom(m, p, pipe) THEN Append(Positions(s, p, pipe), m.seq)
                                   ELSE Positions(s, p, pipe)
<1> DEFINE t == Append(s, m)
<1>1. /\ t \in Seq(Message) /\ Len(s) \in Nat /\ Len(t) = Len(s) + 1
      /\ t[Len(s) + 1] = m /\ \A i \in 1 .. Len(s) : s[i] = t[i]
  BY AppendProperties, LenProperties
<1> HIDE DEF t
<1>2. PICK f : Scans(f, s, p, pipe, Len(s)) /\ Positions(s, p, pipe) = f[Len(s)]
  BY PositionsScan
<1>3. PICK g : Scans(g, t, p, pipe, Len(t)) /\ Positions(t, p, pipe) = g[Len(t)]
  BY <1>1, PositionsScan
<1>4. f[Len(s)] = g[Len(s)]
  <2>1. Len(t) \in Nat /\ Len(s) <= Len(t)
    BY <1>1
  <2>2. QED
    BY <1>1, <1>2, <1>3, <2>1, ScansAgree
<1>5. g[Len(t)] = IF ReadFrom(m, p, pipe) THEN Append(g[Len(s)], m.seq) ELSE g[Len(s)]
  <2>1. Len(t) \in 1 .. Len(t) /\ Len(t) - 1 = Len(s)
    BY <1>1
  <2>2. g[Len(t)] = IF ReadFrom(t[Len(t)], p, pipe)
                      THEN Append(g[Len(t) - 1], t[Len(t)].seq) ELSE g[Len(t) - 1]
    BY <1>3, <2>1 DEF Scans
  <2>3. QED
    BY <1>1, <2>1, <2>2
<1>6. QED
  BY <1>2, <1>3, <1>4, <1>5 DEF t

\* The first n + 1 elements are the first n and one more.
LEMMA PrefixNext ==
  ASSUME NEW S, NEW t \in Seq(S), NEW n \in Nat, n + 1 <= Len(t)
  PROVE  /\ SubSeq(t, 1, n) \in Seq(S) /\ t[n + 1] \in S
         /\ SubSeq(t, 1, n + 1) = Append(SubSeq(t, 1, n), t[n + 1])
<1>1. Len(t) \in Nat /\ n + 1 \in 1 .. Len(t) /\ n + 1 \in 1 .. Len(t)
  BY LenProperties
<1>2. t[n + 1] \in S /\ \A i \in 1 .. n : t[i] \in S
  BY <1>1, ElementOfSeq
<1>3. SubSeq(t, 1, n) \in Seq(S)
  BY <1>2, SubSeqProperties
<1>4. SubSeq(t, 1, n + 1) = SubSeq(t, 1, (n + 1) - 1) \o << t[n + 1] >>
  BY <1>1, SubSeqRecursiveSecond
<1>5. (n + 1) - 1 = n
  OBVIOUS
<1>6. Append(SubSeq(t, 1, n), t[n + 1]) = SubSeq(t, 1, n) \o << t[n + 1] >>
  BY <1>2, <1>3, AppendIsConcat
<1>7. QED
  BY <1>2, <1>3, <1>4, <1>5, <1>6

\* Appending to the second of two sequences appends to both.
LEMMA ConcatAppend ==
  ASSUME NEW S, NEW s \in Seq(S), NEW t \in Seq(S), NEW x \in S
  PROVE  s \o Append(t, x) = Append(s \o t, x)
<1>1. <<x>> \in Seq(S) /\ s \o t \in Seq(S)
  BY ConcatProperties
<1>2. Append(t, x) = t \o <<x>> /\ Append(s \o t, x) = (s \o t) \o <<x>>
  BY <1>1, AppendIsConcat
<1>3. QED
  BY <1>1, <1>2, ConcatAssociative

\* The same, of sequences of positions: the provers instantiate a set of elements
\* that is named, and Nat only inside a definition.
Concatenates(S) ==
  /\ \A u \in Seq(S) : << >> \o u = u /\ u \o << >> = u
  /\ \A u, v \in Seq(S) : \A x \in S : u \o Append(v, x) = Append(u \o v, x)
  /\ \A u, v, w \in Seq(S) : (u \o v) \o w = u \o (v \o w)

LEMMA Concatenation ==
  ASSUME NEW S
  PROVE  Concatenates(S)
<1>1. ASSUME NEW u \in Seq(S) PROVE << >> \o u = u /\ u \o << >> = u
  BY ConcatEmptySeq
<1>2. ASSUME NEW u \in Seq(S), NEW v \in Seq(S), NEW x \in S
      PROVE  u \o Append(v, x) = Append(u \o v, x)
  BY ConcatAppend
<1>3. ASSUME NEW u \in Seq(S), NEW v \in Seq(S), NEW w \in Seq(S)
      PROVE  (u \o v) \o w = u \o (v \o w)
  BY ConcatAssociative
<1>4. QED
  BY <1>1, <1>2, <1>3 DEF Concatenates

LEMMA EmptyWith == \A u \in Seq(Nat) : << >> \o u = u /\ u \o << >> = u
<1>1. Concatenates(Nat)
  BY Concatenation
<1>2. QED
  BY <1>1 DEF Concatenates

LEMMA AppendTo == \A u, v \in Seq(Nat) : \A x \in Nat : u \o Append(v, x) = Append(u \o v, x)
<1>1. Concatenates(Nat)
  BY Concatenation
<1>2. QED
  BY <1>1 DEF Concatenates

LEMMA Regroup == \A u, v, w \in Seq(Nat) : (u \o v) \o w = u \o (v \o w)
<1>1. Concatenates(Nat)
  BY Concatenation
<1>2. QED
  BY <1>1 DEF Concatenates

LEMMA PositionsConcat ==
  ASSUME NEW s \in Seq(Message), NEW t \in Seq(Message), NEW p, NEW pipe
  PROVE  Positions(s \o t, p, pipe) = Positions(s, p, pipe) \o Positions(t, p, pipe)
<1> DEFINE P(u) == Positions(u, p, pipe)
           first(n) == SubSeq(t, 1, n)
           T == {n \in Nat : n <= Len(t) => P(s \o first(n)) = P(s) \o P(first(n))}
<1>0. P(s) \in Seq(Nat) /\ Len(t) \in Nat
  BY PositionsType, LenProperties
<1>1. 0 \in T
  <2>1. first(0) = << >>
    BY SubSeqEmpty
  <2>2. s \o << >> = s /\ P(s) \o << >> = P(s)
    BY <1>0, EmptyWith, ConcatEmptySeq
  <2>3. P(<< >>) = << >>
    BY PositionsEmpty
  <2> HIDE DEF P, first
  <2>4. QED
    BY <2>1, <2>2, <2>3
<1>2. ASSUME NEW n \in T PROVE n + 1 \in T
  <2>1. SUFFICES ASSUME n + 1 <= Len(t) PROVE P(s \o first(n + 1)) = P(s) \o P(first(n + 1))
    OBVIOUS
  <2>2. n \in Nat /\ n <= Len(t) /\ P(s \o first(n)) = P(s) \o P(first(n))
    BY <1>0, <2>1
  <2> DEFINE a == first(n)
             x == t[n + 1]
  <2>3. a \in Seq(Message) /\ x \in Message /\ first(n + 1) = Append(a, x)
    BY <2>1, <2>2, PrefixNext
  <2>4. P(s \o a) = P(s) \o P(a)
    BY <2>2
  <2> HIDE DEF a, x, first
  <2>5. s \o a \in Seq(Message) /\ s \o Append(a, x) = Append(s \o a, x)
    BY <2>3, ConcatProperties, ConcatAppend
  <2>6. P(a) \in Seq(Nat)
    BY <2>3, PositionsType
  <2>7. CASE ReadFrom(x, p, pipe)
    <3>1. x.seq \in Nat
      BY <2>3, <2>7, ReadFromType
    <3>2. P(Append(s \o a, x)) = Append(P(s \o a), x.seq) /\ P(Append(a, x)) = Append(P(a), x.seq)
      BY <2>3, <2>5, <2>7, PositionsAppend
    <3>3. P(s) \o Append(P(a), x.seq) = Append(P(s) \o P(a), x.seq)
      BY <1>0, <2>6, <3>1, AppendTo
    <3> HIDE DEF P
    <3>4. QED
      BY <2>3, <2>4, <2>5, <3>2, <3>3
  <2>8. CASE ~ReadFrom(x, p, pipe)
    <3>1. P(Append(s \o a, x)) = P(s \o a)
      <4>1. \A u \in Seq(Message) : Positions(Append(u, x), p, pipe) = Positions(u, p, pipe)
        BY <2>3, <2>8, PositionsAppend
      <4>2. QED
        BY <2>5, <4>1
    <3>2. P(Append(a, x)) = P(a)
      BY <2>3, <2>8, PositionsAppend
    <3> HIDE DEF P
    <3>3. QED
      BY <2>3, <2>4, <2>5, <2>8, <3>1, <3>2
  <2>9. QED
    BY <2>7, <2>8
<1>3. T \in SUBSET Nat
  OBVIOUS
<1> HIDE DEF T
<1>4. T = Nat
  BY <1>1, <1>2, <1>3, NatSet
<1>5. Len(t) \in T
  BY <1>0, <1>4
<1>6. first(Len(t)) = t
  BY SubSeqFull
<1>7. P(s \o first(Len(t))) = P(s) \o P(first(Len(t)))
  BY <1>0, <1>5 DEF T
<1> HIDE DEF first
<1>8. QED
  BY <1>6, <1>7

LEMMA PositionsHead ==
  ASSUME NEW s \in Seq(Message), s # << >>, NEW p, NEW pipe
  PROVE  Positions(s, p, pipe) =
           IF ReadFrom(Head(s), p, pipe) THEN <<Head(s).seq>> \o Positions(Tail(s), p, pipe)
                                         ELSE Positions(Tail(s), p, pipe)
<1> DEFINE m == Head(s)
           e == Append(<< >>, m)
<1>1. m \in Message /\ Tail(s) \in Seq(Message) /\ << >> \in Seq(Message)
  BY HeadTailProperties, EmptySeq
<1>2. e = <<m>> /\ e \in Seq(Message)
  BY <1>1
<1>3. s = <<m>> \o Tail(s)
  BY HeadTailProperties, LenProperties
<1>4. Positions(e, p, pipe) = IF ReadFrom(m, p, pipe) THEN Append(<< >>, m.seq) ELSE << >>
  <2>1. Positions(<< >>, p, pipe) = << >>
    BY PositionsEmpty
  <2> HIDE DEF m
  <2>2. \A u \in Seq(Message) :
          Positions(Append(u, m), p, pipe) = IF ReadFrom(m, p, pipe)
                                               THEN Append(Positions(u, p, pipe), m.seq)
                                               ELSE Positions(u, p, pipe)
    BY <1>1, PositionsAppend
  <2>3. QED
    BY <1>1, <2>1, <2>2
<1>5. Positions(s, p, pipe) = Positions(e, p, pipe) \o Positions(Tail(s), p, pipe)
  <2>1. s = e \o Tail(s)
    BY <1>2, <1>3
  <2> DEFINE t == Tail(s)
  <2> HIDE DEF m, e, t
  <2>2. Positions(e \o t, p, pipe) = Positions(e, p, pipe) \o Positions(t, p, pipe)
    <3>1. \A u, v \in Seq(Message) :
            Positions(u \o v, p, pipe) = Positions(u, p, pipe) \o Positions(v, p, pipe)
      BY PositionsConcat
    <3>2. e \in Seq(Message) /\ t \in Seq(Message)
      BY <1>1, <1>2 DEF t
    <3>3. QED
      BY <3>1, <3>2
  <2>3. QED
    BY <2>1, <2>2 DEF t
<1>6. Append(<< >>, m.seq) = <<m.seq>>
  OBVIOUS
<1>7. << >> \o Positions(Tail(s), p, pipe) = Positions(Tail(s), p, pipe)
  BY <1>1, PositionsType, EmptyWith
<1> HIDE DEF m, e
<1>8. QED
  BY <1>4, <1>5, <1>6, <1>7 DEF m

\* There are none where nothing is from that pipe.
LEMMA PositionsNone ==
  ASSUME NEW s \in Seq(Message), NEW p, NEW pipe,
         \A i \in 1 .. Len(s) : ~ReadFrom(s[i], p, pipe)
  PROVE  Positions(s, p, pipe) = << >>
<1>1. PICK f : Scans(f, s, p, pipe, Len(s)) /\ Positions(s, p, pipe) = f[Len(s)]
  BY PositionsScan
<1> DEFINE T == {n \in Nat : n <= Len(s) => f[n] = << >>}
<1>2. 0 \in T
  BY <1>1 DEF Scans
<1>3. ASSUME NEW n \in T PROVE n + 1 \in T
  <2>1. SUFFICES ASSUME n + 1 <= Len(s) PROVE f[n + 1] = << >>
    OBVIOUS
  <2>2. n + 1 \in 1 .. Len(s) /\ (n + 1) - 1 = n /\ f[n] = << >>
    BY <2>1, LenProperties
  <2>3. QED
    BY <1>1, <2>2 DEF Scans
<1>4. T \in SUBSET Nat
  OBVIOUS
<1> HIDE DEF T
<1>5. T = Nat
  BY <1>2, <1>3, <1>4, NatSet
<1>6. Len(s) \in T
  BY <1>5, LenProperties
<1>7. QED
  BY <1>1, <1>6, LenProperties DEF T

-----------------------------------------------------------------------------
(* The invariant *)

\* A child that has not been started has written nothing.
Fresh ==
  \A p \in Pids, pipe \in Pipes : child[p].state = "unborn" => Read(p, pipe) = 0

\* A name that is no key of the table has no buffer.
GoneIsEmpty ==
  \A n \in Names : ~Managed(n) => procs[n].buffer = << >>

StreamInv == OrderInv /\ Fresh /\ GoneIsEmpty

LEMMA FreshStep == StreamInv /\ Next => Fresh'
<1> SUFFICES ASSUME StreamInv, Next, NEW p \in Pids, NEW pipe \in Pipes,
                    child'[p].state = "unborn"
             PROVE  Read(p, pipe)' = 0
  BY DEF Fresh
<1>1. child[p].state = "unborn" /\ task'[p] = task[p]
  BY OsStep DEF OsMove, StreamInv, OrderInv
<1>2. QED
  BY <1>1 DEF StreamInv, Fresh, Read

LEMMA GoneStep == StreamInv /\ Next => GoneIsEmpty'
<1> SUFFICES ASSUME StreamInv, Next, NEW n \in Names, procs'[n].status = "absent"
             PROVE  procs'[n].buffer = << >>
  BY DEF GoneIsEmpty
<1>0. /\ TypeInv /\ OrderInv /\ procs \in [Names -> Entry] /\ TableMove
      /\ procs[n].status = "absent" => procs[n].buffer = << >>
      /\ Absent.buffer = << >>
  <2>1. TypeInv /\ OrderInv
    BY DEF StreamInv, OrderInv
  <2>2. procs \in [Names -> Entry] /\ TableMove
    BY <2>1, TableStep DEF TypeInv, TypeOK, TableOK
  <2>3. procs[n].status = "absent" => procs[n].buffer = << >>
    BY DEF StreamInv, GoneIsEmpty
  <2>4. QED
    BY <2>1, <2>2, <2>3 DEF Absent
<1>1. CASE procs' \in [Names -> Entry] /\ (Removed \/ Added)
  <2>1. ASSUME NEW k \in Names, procs' = [procs EXCEPT ![k] = Absent] PROVE procs'[n].buffer = << >>
    BY <1>0, <2>1
  <2>2. ASSUME NEW k \in Names, NEW q \in Pids, procs' = [procs EXCEPT ![k] = NewEntry(q)]
        PROVE  procs'[n].buffer = << >>
    BY <1>0, <2>2 DEF NewEntry
  <2>3. QED
    BY <1>1, <2>1, <2>2 DEF Removed, Added
<1>2. CASE SameTable
  <2>1. procs[n].status = "absent" /\ procs[n].buffer = << >> /\ procs'[n].pid = procs[n].pid
    BY <1>0, <1>2 DEF SameTable
  <2>2. CASE Quiet
    BY <2>1, <2>2 DEF Quiet, BufferStays
  <2>3. CASE Replays
    <3>1. PICK k \in Names : procs' = [procs EXCEPT ![k] = Drained(procs[k])]
      BY <2>3 DEF Replays
    <3>2. Drained(procs[k]).buffer = << >>
      BY <1>0 DEF Drained, Entry
    <3>3. QED
      BY <1>0, <2>1, <3>1, <3>2
  <2>4. CASE Handles
    <3>1. PICK m \in Output :
            \/ SameBuffers
            \/ Managed(m.name) /\ \A k \in Names \ {m.name} : procs'[k].buffer = procs[k].buffer
      BY <2>4 DEF Handles
    <3>2. QED
      BY <2>1, <3>1 DEF SameBuffers
  <2>5. CASE Relays
    BY <2>1, <2>5 DEF Relays
  <2>6. QED
    BY <1>0, <2>2, <2>3, <2>4, <2>5, ShapeStep
<1>3. QED
  BY <1>0, <1>1, <1>2 DEF TableMove

LEMMA StreamInvStep == StreamInv /\ [Next]_vars => StreamInv'
<1> SUFFICES ASSUME StreamInv, [Next]_vars PROVE StreamInv'
  OBVIOUS
<1>1. OrderInv'
  BY OrderInvStep DEF StreamInv
<1>2. CASE Next
  BY <1>1, <1>2, FreshStep, GoneStep DEF StreamInv
<1>3. CASE UNCHANGED vars
  <2>1. UNCHANGED <<procs, child, task>>
    BY <1>3 DEF vars, os
  <2>2. Fresh' /\ GoneIsEmpty'
    BY <2>1 DEF StreamInv, Fresh, GoneIsEmpty, Read
  <2>3. QED
    BY <1>1, <2>2 DEF StreamInv
<1>4. QED
  BY <1>2, <1>3

LEMMA InitStreamInv == Init => StreamInv
<1> SUFFICES ASSUME Init PROVE StreamInv
  OBVIOUS
<1>1. Fresh /\ GoneIsEmpty
  BY DEF Init, Fresh, GoneIsEmpty, Read, Absent
<1>2. QED
  BY <1>1, InitOrderInv DEF StreamInv

-----------------------------------------------------------------------------
(* The queue of a pipe, as the server has it *)

Kept(p, pipe) == Positions(Pending(p), p, pipe)
SentOf(p, pipe) == Positions(channel, p, pipe)
Held(p) == \E n \in Names : procs[n].pid = p

\* One queue, then another: its front and what is left.
LEMMA FrontAndRest ==
  ASSUME NEW a \in Seq(Nat), NEW b \in Seq(Nat)
  PROVE  /\ SubSeq(a \o b, 1, Len(a)) = a
         /\ SubSeq(a \o b, Len(a) + 1, Len(a \o b)) = b
         /\ Len(a) \in 0 .. Len(a \o b)
         /\ a # << >> => Len(a) \in 1 .. Len(a \o b)
<1> DEFINE s == a \o b
           front == SubSeq(s, 1, Len(a))
           rest == SubSeq(s, Len(a) + 1, Len(s))
<1>1. /\ Len(a) \in Nat /\ Len(b) \in Nat /\ s \in Seq(Nat) /\ Len(s) = Len(a) + Len(b)
      /\ a # << >> => Len(a) # 0
  BY LenProperties, EmptySeq, ConcatProperties
<1>2. \A i \in 1 .. Len(a) + Len(b) : s[i] = IF i <= Len(a) THEN a[i] ELSE b[i - Len(a)]
  BY ConcatProperties
<1>3. \A i \in 1 .. Len(s) : s[i] \in Nat
  BY <1>1, ElementOfSeq
<1> HIDE DEF s
<1>4. front = a
  <2>1. /\ front \in Seq(Nat) /\ Len(front) = Len(a)
        /\ \A i \in 1 .. Len(a) : front[i] = s[i]
    <3>1. \A i \in 1 .. Len(a) : s[i] \in Nat
      BY <1>1, <1>3
    <3>2. /\ front \in Seq(Nat) /\ Len(front) = IF 1 <= Len(a) THEN Len(a) - 1 + 1 ELSE 0
          /\ \A i \in 1 .. Len(a) - 1 + 1 : front[i] = s[1 + i - 1]
      BY <1>1, <3>1, SubSeqProperties
    <3> HIDE DEF front
    <3>3. QED
      BY <1>1, <3>2
  <2>2. \A i \in 1 .. Len(a) : s[i] = a[i]
    BY <1>1, <1>2
  <2> HIDE DEF front
  <2>3. QED
    BY <2>1, <2>2, SeqEqual
<1>5. rest = b
  <2>1. /\ rest \in Seq(Nat) /\ Len(rest) = Len(b)
        /\ \A i \in 1 .. Len(b) : rest[i] = s[Len(a) + i]
    <3>1. \A i \in Len(a) + 1 .. Len(s) : s[i] \in Nat
      BY <1>1, <1>3
    <3>2. /\ rest \in Seq(Nat)
          /\ Len(rest) = IF Len(a) + 1 <= Len(s) THEN Len(s) - (Len(a) + 1) + 1 ELSE 0
          /\ \A i \in 1 .. Len(s) - (Len(a) + 1) + 1 : rest[i] = s[Len(a) + 1 + i - 1]
      BY <1>1, <3>1, SubSeqProperties
    <3> HIDE DEF rest
    <3>3. Len(s) - (Len(a) + 1) + 1 = Len(b) /\ \A i \in 1 .. Len(b) : Len(a) + 1 + i - 1 = Len(a) + i
      BY <1>1
    <3>4. Len(rest) = Len(b)
      BY <1>1, <3>2
    <3>5. QED
      BY <3>2, <3>3, <3>4
  <2>2. ASSUME NEW i \in 1 .. Len(b) PROVE s[Len(a) + i] = b[i]
    <3>1. Len(a) + i \in 1 .. Len(a) + Len(b) /\ ~(Len(a) + i <= Len(a)) /\ Len(a) + i - Len(a) = i
      BY <1>1
    <3>2. s[Len(a) + i] = b[Len(a) + i - Len(a)]
      BY <1>2, <3>1
    <3>3. QED
      BY <3>1, <3>2
  <2> HIDE DEF rest
  <2>3. QED
    BY <2>1, <2>2, SeqEqual
<1>6. QED
  BY <1>1, <1>4, <1>5 DEF s

\* What is not the server's to change about one pipe.
SameSource(p, pipe) == Read(p, pipe)' = Read(p, pipe)

\* A step of the server, seen from one pipe, is a step of its queue.
StreamStep(p, pipe) == [Stream(p, pipe)!Next]_(Stream(p, pipe)!stream)

LEMMA Stutters ==
  ASSUME NEW p \in Pids, NEW pipe \in Pipes, SameSource(p, pipe), UNCHANGED writer,
         Held(p)' <=> Held(p), Kept(p, pipe)' = Kept(p, pipe), SentOf(p, pipe)' = SentOf(p, pipe)
  PROVE  StreamStep(p, pipe)
BY DEF StreamStep, Stream!stream, SameSource, Read, Held, Kept, SentOf

LEMMA Takes ==
  ASSUME NEW p \in Pids, NEW pipe \in Pipes, Read(p, pipe)' = Read(p, pipe) + 1,
         UNCHANGED writer, Held(p)' <=> Held(p), SentOf(p, pipe)' = SentOf(p, pipe),
         Kept(p, pipe)' = Append(Kept(p, pipe), Read(p, pipe) + 1)
  PROVE  StreamStep(p, pipe)
BY DEF StreamStep, Stream!Next, Stream!Take, Read, Held, Kept, SentOf

LEMMA Forwards ==
  ASSUME NEW p \in Pids, NEW pipe \in Pipes, SameSource(p, pipe), writer, UNCHANGED writer,
         Held(p)' <=> Held(p), NEW a \in Seq(Nat), NEW b \in Seq(Nat), a # << >>,
         Kept(p, pipe) = a \o b, Kept(p, pipe)' = b, SentOf(p, pipe)' = SentOf(p, pipe) \o a
  PROVE  StreamStep(p, pipe)
<1>1. \E k \in 1 .. Len(Kept(p, pipe)) :
        /\ SubSeq(Kept(p, pipe), 1, k) = a
        /\ SubSeq(Kept(p, pipe), k + 1, Len(Kept(p, pipe))) = b
  <2>1. Len(a) \in 1 .. Len(a \o b)
    BY FrontAndRest
  <2>2. SubSeq(a \o b, 1, Len(a)) = a /\ SubSeq(a \o b, Len(a) + 1, Len(a \o b)) = b
    BY FrontAndRest
  <2>3. QED
    BY <2>1, <2>2
<1>2. QED
  BY <1>1 DEF StreamStep, Stream!Next, Stream!Forward, Stream!Front, Stream!Rest, SameSource,
              Read, Held, Kept, SentOf

LEMMA Loses ==
  ASSUME NEW p \in Pids, NEW pipe \in Pipes, SameSource(p, pipe), UNCHANGED writer,
         ~Held(p) \/ ~writer, Held(p)' <=> Held(p), NEW a \in Seq(Nat), NEW b \in Seq(Nat),
         Kept(p, pipe) = a \o b, Kept(p, pipe)' = b, SentOf(p, pipe)' = SentOf(p, pipe)
  PROVE  StreamStep(p, pipe)
<1>1. CASE a = << >>
  <2>1. Kept(p, pipe)' = Kept(p, pipe)
    BY <1>1, EmptyWith
  <2>2. QED
    BY <2>1, Stutters
<1>2. CASE a # << >>
  <2>1. \E k \in 1 .. Len(Kept(p, pipe)) :
          SubSeq(Kept(p, pipe), k + 1, Len(Kept(p, pipe))) = b
    <3>1. Len(a) \in 1 .. Len(a \o b)
      BY <1>2, FrontAndRest
    <3>2. SubSeq(a \o b, Len(a) + 1, Len(a \o b)) = b
      BY FrontAndRest
    <3>3. QED
      BY <3>1, <3>2
  <2>2. QED
    BY <2>1 DEF StreamStep, Stream!Next, Stream!Lose, Stream!Rest, SameSource, Read, Held, Kept,
                SentOf
<1>3. QED
  BY <1>1, <1>2

LEMMA Releases ==
  ASSUME NEW p \in Pids, NEW pipe \in Pipes, SameSource(p, pipe), UNCHANGED writer,
         Held(p), ~Held(p)', NEW a \in Seq(Nat), NEW b \in Seq(Nat),
         Kept(p, pipe) = a \o b, Kept(p, pipe)' = b, SentOf(p, pipe)' = SentOf(p, pipe)
  PROVE  StreamStep(p, pipe)
<1>1. \E k \in 0 .. Len(Kept(p, pipe)) : SubSeq(Kept(p, pipe), k + 1, Len(Kept(p, pipe))) = b
  <2>1. Len(a) \in 0 .. Len(a \o b)
    BY FrontAndRest
  <2>2. SubSeq(a \o b, Len(a) + 1, Len(a \o b)) = b
    BY FrontAndRest
  <2>3. QED
    BY <2>1, <2>2
<1>2. QED
  BY <1>1 DEF StreamStep, Stream!Next, Stream!Release, Stream!Rest, SameSource, Read, Held, Kept,
              SentOf

LEMMA MayHold ==
  ASSUME NEW p \in Pids, NEW pipe \in Pipes, SameSource(p, pipe), UNCHANGED writer,
         ~Held(p), Read(p, pipe) = 0, Kept(p, pipe)' = Kept(p, pipe),
         SentOf(p, pipe)' = SentOf(p, pipe)
  PROVE  StreamStep(p, pipe)
<1>1. CASE ~Held(p)'
  BY <1>1, Stutters
<1>2. CASE Held(p)'
  BY <1>2 DEF StreamStep, Stream!Next, Stream!Hold, SameSource, Read, Held, Kept, SentOf
<1>3. QED
  BY <1>1, <1>2

LEMMA Connects ==
  ASSUME NEW p \in Pids, NEW pipe \in Pipes, SameSource(p, pipe), Held(p)' <=> Held(p),
         Kept(p, pipe)' = Kept(p, pipe), writer' = TRUE, SentOf(p, pipe)' = << >>
  PROVE  StreamStep(p, pipe)
BY DEF StreamStep, Stream!Next, Stream!Connect, SameSource, Read, Held, Kept, SentOf

LEMMA Disconnects ==
  ASSUME NEW p \in Pids, NEW pipe \in Pipes, SameSource(p, pipe), Held(p)' <=> Held(p),
         Kept(p, pipe)' = Kept(p, pipe), writer' = FALSE,
         SentOf(p, pipe)' \in {SentOf(p, pipe), << >>}
  PROVE  StreamStep(p, pipe)
BY DEF StreamStep, Stream!Next, Stream!Disconnect, SameSource, Read, Held, Kept, SentOf

-----------------------------------------------------------------------------
(* Steps *)

\* As long as nothing was read from a pipe, nothing is from it.
Unread ==
  \A p \in Pids, pipe \in Pipes :
    Read(p, pipe) = 0 => Kept(p, pipe) = << >> /\ SentOf(p, pipe) = << >>

LEMMA NothingRead == StreamInv => Unread
<1> SUFFICES ASSUME StreamInv, NEW p \in Pids, NEW pipe \in Pipes, Read(p, pipe) = 0
             PROVE  Kept(p, pipe) = << >> /\ SentOf(p, pipe) = << >>
  BY DEF Unread
<1>0. /\ TypeInv /\ Placed /\ channel \in Seq(Message) /\ relay_rx \in Seq(Message)
      /\ \A n \in Names : procs[n].buffer \in Seq(Message)
  BY OrderTypes DEF StreamInv, OrderInv
<1>1. ASSUME NEW m \in Message, Fits(m) PROVE ~ReadFrom(m, p, pipe)
  <2>1. SUFFICES ASSUME ReadFrom(m, p, pipe) PROVE FALSE
    OBVIOUS
  <2>2. m.seq \in Nat /\ 1 <= m.seq /\ m.seq <= 0
    BY <1>1, <2>1, ReadFromType DEF Fits, ReadFrom
  <2>3. QED
    BY <2>2
<1>2. ASSUME NEW s \in Seq(Message), \A i \in DOMAIN s : Fits(s[i])
      PROVE  Positions(s, p, pipe) = << >>
  <2>1. DOMAIN s = 1 .. Len(s) /\ \A i \in 1 .. Len(s) : s[i] \in Message
    BY LenProperties, ElementOfSeq
  <2>2. QED
    BY <1>1, <1>2, <2>1, PositionsNone
<1>3. SentOf(p, pipe) = << >> /\ Positions(relay_rx, p, pipe) = << >>
      /\ \A n \in Names : Positions(procs[n].buffer, p, pipe) = << >>
  BY <1>0, <1>2 DEF Placed, SentOf
<1>4. Kept(p, pipe) = << >>
  <2> DEFINE b == IF child[p].name = NoName THEN << >> ELSE procs[child[p].name].buffer
  <2>1. b \in Seq(Message) /\ Positions(b, p, pipe) = << >>
    <3>1. child[p].name \in Names \union {NoName}
      BY <1>0 DEF TypeInv, TypeOK, OsOK, ChildRec
    <3>2. << >> \in Seq(Message)
      BY EmptySeq
    <3>3. QED
      BY <1>0, <1>3, <3>1, <3>2, PositionsEmpty
  <2>2. Kept(p, pipe) = Positions(b \o relay_rx, p, pipe)
    BY DEF Kept, Pending
  <2> HIDE DEF b
  <2>3. Positions(b \o relay_rx, p, pipe) = << >> \o << >>
    BY <1>0, <1>3, <2>1, PositionsConcat
  <2>4. QED
    BY <2>2, <2>3
<1>5. QED
  BY <1>3, <1>4

\* What is held of a child that was started is at its name.
AtName ==
  \A p \in Pids, pipe \in Pipes : child[p].name \in Names =>
    LET n == child[p].name IN
    /\ Held(p) <=> procs[n].pid = p
    /\ Kept(p, pipe) = Positions(procs[n].buffer, p, pipe) \o Positions(relay_rx, p, pipe)
    /\ Positions(procs[n].buffer, p, pipe) \in Seq(Nat)
    /\ Positions(relay_rx, p, pipe) \in Seq(Nat) /\ SentOf(p, pipe) \in Seq(Nat)

LEMMA HeldAtName == StreamInv => AtName
<1> SUFFICES ASSUME StreamInv, NEW p \in Pids, NEW pipe \in Pipes, NEW n \in Names,
                    n = child[p].name
             PROVE  /\ Held(p) <=> procs[n].pid = p
                    /\ Kept(p, pipe) = Positions(procs[n].buffer, p, pipe) \o Positions(relay_rx, p, pipe)
                    /\ Positions(procs[n].buffer, p, pipe) \in Seq(Nat)
                    /\ Positions(relay_rx, p, pipe) \in Seq(Nat) /\ SentOf(p, pipe) \in Seq(Nat)
  BY DEF AtName
<1>0. /\ TypeInv /\ channel \in Seq(Message) /\ relay_rx \in Seq(Message)
      /\ procs[n].buffer \in Seq(Message)
  BY OrderTypes DEF StreamInv, OrderInv
<1>1. ASSUME NEW k \in Names, procs[k].pid = p PROVE k = n
  BY <1>0, <1>1, NoneAssumption DEF TypeInv, TypeOK, TableOK, Owned
<1>2. Held(p) <=> procs[n].pid = p
  BY <1>1 DEF Held
<1>3. Kept(p, pipe) = Positions(procs[n].buffer \o relay_rx, p, pipe)
  BY NoneAssumption DEF Kept, Pending
<1>4. Kept(p, pipe) = Positions(procs[n].buffer, p, pipe) \o Positions(relay_rx, p, pipe)
  <2>1. \A u, v \in Seq(Message) :
          Positions(u \o v, p, pipe) = Positions(u, p, pipe) \o Positions(v, p, pipe)
    BY PositionsConcat
  <2>2. QED
    BY <1>0, <1>3, <2>1
<1>5. /\ Positions(procs[n].buffer, p, pipe) \in Seq(Nat)
      /\ Positions(relay_rx, p, pipe) \in Seq(Nat) /\ SentOf(p, pipe) \in Seq(Nat)
  BY <1>0, PositionsType DEF SentOf
<1>6. QED
  BY <1>2, <1>4, <1>5

LEMMA NothingReadNext == StreamInv' => Unread'
BY NothingRead, PTL

LEMMA HeldAtNameNext == StreamInv' => AtName'
BY HeldAtName, PTL

\* While nothing is read from its pipes a child may be started, and given up.
LEMMA NewStep ==
  ASSUME StreamInv, StreamInv', NEW p \in Pids, NEW pipe \in Pipes,
         SameSource(p, pipe), UNCHANGED writer, Read(p, pipe) = 0
  PROVE  StreamStep(p, pipe)
<1>1. /\ Kept(p, pipe) = << >> /\ Kept(p, pipe)' = << >>
      /\ SentOf(p, pipe) = << >> /\ SentOf(p, pipe)' = << >>
  BY NothingRead, NothingReadNext DEF Unread, SameSource
<1>2. CASE Held(p)' <=> Held(p)
  BY <1>1, <1>2, Stutters
<1>3. CASE ~Held(p)
  BY <1>1, <1>3, MayHold
<1>4. CASE Held(p) /\ ~Held(p)'
  <2>1. << >> \in Seq(Nat) /\ << >> \o << >> = << >>
    BY EmptySeq, EmptyWith
  <2>2. QED
    BY <1>1, <1>4, <2>1, Releases
<1>5. QED
  BY <1>2, <1>3, <1>4

\* A child something was read from keeps the name it was started under.
LEMMA Started ==
  ASSUME StreamInv, Next, NEW p \in Pids, NEW pipe \in Pipes, Read(p, pipe) # 0
  PROVE  child[p].name \in Names /\ child'[p].name = child[p].name
<1>1. child[p].state # "unborn" /\ TypeInv
  BY DEF StreamInv, OrderInv, Fresh
<1>2. QED
  BY <1>1, OsStep DEF OsMove, TypeInv, Born, TypeOK, OsOK, ChildRec

\* A connection begins or ends, or its writer task fails.
LEMMA ConnectionStep ==
  ASSUME StreamInv, NEW p \in Pids, NEW pipe \in Pipes, Accept \/ Disconnect \/ WriterFails
  PROVE  StreamStep(p, pipe)
<1>0. procs \in [Names -> Entry] /\ child \in [Pids -> ChildRec]
  BY DEF StreamInv, OrderInv, TypeInv, TypeOK, TableOK, OsOK
<1>1. UNCHANGED <<relay_rx, task, child>> /\ SameBuffers /\ SamePids
  BY <1>0 DEF Accept, Disconnect, WriterFails, os, Unsubscribed, Entry, SameBuffers, SamePids
<1>2. SameSource(p, pipe)
  BY <1>1 DEF SameSource, Read
<1>3. Held(p)' <=> Held(p)
  BY <1>1 DEF Held, SamePids
<1>4. Kept(p, pipe)' = Kept(p, pipe)
  <2>1. child[p].name \in Names \union {NoName}
    BY <1>0 DEF ChildRec
  <2>2. Pending(p)' = Pending(p)
    BY <1>1, <2>1 DEF Pending, SameBuffers
  <2>3. QED
    BY <2>2 DEF Kept
<1>5. CASE Accept
  <2>1. SentOf(p, pipe)' = << >> /\ writer' = TRUE
    BY <1>5, PositionsEmpty DEF Accept, SentOf
  <2>2. QED
    BY <1>2, <1>3, <1>4, <2>1, Connects
<1>6. CASE Disconnect
  <2>1. SentOf(p, pipe)' = << >> /\ writer' = FALSE
    BY <1>6, PositionsEmpty DEF Disconnect, SentOf
  <2>2. QED
    BY <1>2, <1>3, <1>4, <2>1, Disconnects
<1>7. CASE WriterFails
  <2>1. SentOf(p, pipe)' = SentOf(p, pipe) /\ writer' = FALSE
    BY <1>7 DEF WriterFails, SentOf
  <2>2. QED
    BY <1>2, <1>3, <1>4, <2>1, Disconnects
<1>8. QED
  BY <1>5, <1>6, <1>7

\* A relay task sends the next message of its pipe, or ends.
LEMMA TaskSends ==
  ASSUME TypeInv, NEW q \in Pids, RelayStdout(q) \/ RelayEof(q) \/ RelayStderr(q)
  PROVE  /\ UNCHANGED <<channel, writer, procs, child>> /\ child[q].name \in Names
         /\ \/ UNCHANGED relay_rx /\ \A p \in Pids, pipe \in Pipes : SameSource(p, pipe)
            \/ \E m \in Output :
                 /\ relay_rx' = Append(relay_rx, m) /\ m.from = q
                 /\ m.seq = Read(q, m.pipe) + 1 /\ Read(q, m.pipe)' = Read(q, m.pipe) + 1
                 /\ \A p \in Pids, pipe \in Pipes :
                      p # q \/ pipe # m.pipe => SameSource(p, pipe)
<1>0. /\ task \in [Pids -> TaskRec] /\ task[q].out \in Nat /\ task[q].err \in Nat
      /\ task[q].out + 1 \in Nat /\ task[q].err + 1 \in Nat
      /\ child[q].state # "unborn" /\ Pipes = {"stdout", "stderr"}
      /\ UNCHANGED <<channel, writer, procs, child>>
  BY TaskHasChild DEF RelayStdout, RelayEof, RelayStderr, Reads, TypeInv, TypeOK, OsOK, TaskRec,
                      Pipes, session
<1>1. child[q].name \in Names
  BY <1>0 DEF TypeInv, Born, TypeOK, OsOK, ChildRec
<1>2. \A p \in Pids \ {q}, pipe \in Pipes : SameSource(p, pipe)
  BY TaskCounts DEF SameSource, Read
<1>3. CASE RelayStdout(q) /\ UNCHANGED relay_rx
  <2>1. task' = [task EXCEPT ![q].stdout = "done"]
    <3>1. \A m \in Output : relay_rx' # Append(relay_rx, m)
      <4>1. relay_rx \in Seq(Output)
        BY DEF TypeInv, TypeOK, MessagesOK
      <4>2. \A m \in Output : Len(Append(relay_rx, m)) = Len(relay_rx) + 1 /\ Len(relay_rx) \in Nat
        BY <4>1
      <4>3. QED
        BY <1>3, <4>2
    <3>2. QED
      BY <1>0, <1>3, <3>1, OutputTypes DEF RelayStdout, Relay
  <2> DEFINE e == [task[q] EXCEPT !.stdout = "done"]
  <2>2. e.out = task[q].out /\ e.err = task[q].err
    BY <1>0 DEF TaskRec
  <2>3. task' = [task EXCEPT ![q] = e]
    BY <1>0, <2>1
  <2> HIDE DEF e
  <2>4. task'[q].out = task[q].out /\ task'[q].err = task[q].err
    BY <1>0, <2>2, <2>3
  <2>5. \A pipe \in Pipes : SameSource(q, pipe)
    BY <2>4 DEF SameSource, Read
  <2>6. QED
    BY <1>0, <1>1, <1>2, <1>3, <2>5
<1>4. CASE (RelayStdout(q) /\ ~UNCHANGED relay_rx) \/ RelayEof(q)
  <2>1. PICK m \in Output : /\ relay_rx' = Append(relay_rx, m) /\ m.from = q
                            /\ m.pipe = "stdout" /\ m.seq = task[q].out + 1
    <3> DEFINE a == StdoutMsg(child[q].name, q, task[q].out + 1)
               b == StderrMsg(child[q].name, q, "stdout", task[q].out + 1)
               c == ExitMsg(child[q].name, q, task[q].out + 1)
    <3>1. a \in Output /\ b \in Output /\ c \in Output
      BY <1>0, OutputTypes
    <3>2. \A m \in {a, b, c} : m.from = q /\ m.pipe = "stdout" /\ m.seq = task[q].out + 1
      BY DEF StdoutMsg, StderrMsg, ExitMsg
    <3>3. \E m \in {a, b, c} : relay_rx' = Append(relay_rx, m)
      BY <1>4 DEF RelayStdout, RelayEof, Relay
    <3> HIDE DEF a, b, c
    <3>4. QED
      BY <3>1, <3>2, <3>3
  <2>2. task'[q].out = task[q].out + 1 /\ task'[q].err = task[q].err
    <3>1. CASE RelayEof(q)
      BY <3>1, TaskCounts
    <3>2. CASE RelayStdout(q) /\ ~UNCHANGED relay_rx
      <4>1. task' = [task EXCEPT ![q].out = task[q].out + 1]
        BY <3>2 DEF RelayStdout
      <4>2. QED
        BY <1>0, <4>1 DEF TaskRec
    <3>3. QED
      BY <1>4, <3>1, <3>2
  <2>3. Read(q, m.pipe) = task[q].out /\ Read(q, m.pipe)' = task[q].out + 1
        /\ \A pipe \in Pipes : pipe # m.pipe => SameSource(q, pipe)
    BY <1>0, <2>1, <2>2 DEF Read, SameSource
  <2>4. \A p \in Pids, pipe \in Pipes : p # q \/ pipe # m.pipe => SameSource(p, pipe)
    BY <1>2, <2>3
  <2>5. QED
    BY <1>0, <1>1, <2>1, <2>3, <2>4
<1>5. CASE RelayStderr(q)
  <2>1. PICK m \in Output : /\ relay_rx' = Append(relay_rx, m) /\ m.from = q
                            /\ m.pipe = "stderr" /\ m.seq = task[q].err + 1
    BY <1>0, <1>5, OutputTypes DEF RelayStderr, Relay, StderrMsg
  <2>2. task'[q].err = task[q].err + 1 /\ task'[q].out = task[q].out
    BY <1>5, TaskCounts
  <2>3. Read(q, m.pipe) = task[q].err /\ Read(q, m.pipe)' = task[q].err + 1
        /\ \A pipe \in Pipes : pipe # m.pipe => SameSource(q, pipe)
    BY <1>0, <2>1, <2>2 DEF Read, SameSource
  <2>4. \A p \in Pids, pipe \in Pipes : p # q \/ pipe # m.pipe => SameSource(p, pipe)
    BY <1>2, <2>3
  <2>5. QED
    BY <1>0, <1>1, <2>1, <2>3, <2>4
<1>6. QED
  BY <1>3, <1>4, <1>5

LEMMA TaskStep ==
  ASSUME StreamInv, StreamInv', Next, NEW p \in Pids, NEW pipe \in Pipes, NEW q \in Pids,
         RelayStdout(q) \/ RelayEof(q) \/ RelayStderr(q)
  PROVE  StreamStep(p, pipe)
<1>0. /\ TypeInv /\ relay_rx \in Seq(Message) /\ UNCHANGED <<channel, writer, procs, child>>
      /\ child[q].name \in Names /\ Read(p, pipe) \in Nat
  BY OrderTypes, TaskSends DEF StreamInv, OrderInv, TypeInv, TypeOK, OsOK, TaskRec, Read
<1>1. (Held(p)' <=> Held(p)) /\ SentOf(p, pipe)' = SentOf(p, pipe)
  BY <1>0 DEF Held, SentOf
<1>2. CASE UNCHANGED relay_rx /\ SameSource(p, pipe)
  BY <1>0, <1>1, <1>2, Stutters DEF Kept, Pending
<1>3. ASSUME NEW m \in Output, relay_rx' = Append(relay_rx, m), m.from = q,
             m.seq = Read(q, m.pipe) + 1, Read(q, m.pipe)' = Read(q, m.pipe) + 1,
             p # q \/ pipe # m.pipe => SameSource(p, pipe)
      PROVE  StreamStep(p, pipe)
  <2>1. m \in Message /\ m.kind # "result"
    BY OrderTypes, <1>0 DEF Message
  <2>2. \A u \in Seq(Message) :
          Positions(Append(u, m), p, pipe) =
            IF ReadFrom(m, p, pipe) THEN Append(Positions(u, p, pipe), m.seq) ELSE Positions(u, p, pipe)
    BY <2>1, PositionsAppend
  <2>3. Pending(p) \in Seq(Message) /\ Pending(p)' = Append(Pending(p), m)
    <3> DEFINE b == IF child[p].name = NoName THEN << >> ELSE procs[child[p].name].buffer
    <3>1. b \in Seq(Message)
      <4>1. child[p].name \in Names \union {NoName} /\ << >> \in Seq(Message)
        BY <1>0, EmptySeq DEF TypeInv, TypeOK, OsOK, ChildRec
      <4>2. QED
        BY <1>0, <4>1, OrderTypes
    <3>2. Pending(p) = b \o relay_rx /\ Pending(p)' = b \o Append(relay_rx, m)
      BY <1>0, <1>3 DEF Pending
    <3> HIDE DEF b
    <3>3. QED
      BY <1>0, <2>1, <3>1, <3>2, ConcatAppend, ConcatProperties
  <2>4. Kept(p, pipe)' = IF ReadFrom(m, p, pipe) THEN Append(Kept(p, pipe), m.seq) ELSE Kept(p, pipe)
    BY <2>2, <2>3 DEF Kept
  <2>5. CASE p = q /\ pipe = m.pipe
    BY <1>0, <1>1, <1>3, <2>1, <2>4, <2>5, Takes DEF ReadFrom
  <2>6. CASE p # q \/ pipe # m.pipe
    BY <1>0, <1>1, <1>3, <2>4, <2>6, Stutters DEF ReadFrom
  <2>7. QED
    BY <2>5, <2>6
<1>4. QED
  BY <1>0, <1>2, <1>3, TaskSends

\* A command, or the end of a wait, may give up an entry or its child: what is
\* buffered under the name goes, and the child is not held any more.
LEMMA QuietStep ==
  ASSUME StreamInv, StreamInv', Next, Quiet, UNCHANGED writer, ~Accept, ~Disconnect,
         NEW p \in Pids, NEW pipe \in Pipes, SameSource(p, pipe)
  PROVE  StreamStep(p, pipe)
<1> SUFFICES ASSUME Read(p, pipe) # 0 PROVE StreamStep(p, pipe)
  BY NewStep
<1> DEFINE n == child[p].name
           B == Positions(procs[n].buffer, p, pipe)
           R == Positions(relay_rx, p, pipe)
<1>0. /\ TypeInv /\ channel \in Seq(Message) /\ procs \in [Names -> Entry] /\ TableMove
      /\ n \in Names /\ child'[p].name = n /\ UNCHANGED relay_rx
  BY OrderTypes, TableStep, Started DEF StreamInv, OrderInv, Quiet
<1>1. /\ Held(p) <=> procs[n].pid = p
      /\ Kept(p, pipe) = B \o R /\ B \in Seq(Nat) /\ R \in Seq(Nat)
  BY <1>0, HeldAtName DEF AtName
<1>2. /\ Held(p)' <=> procs'[n].pid = p
      /\ Kept(p, pipe)' = Positions(procs'[n].buffer, p, pipe) \o R
  BY <1>0, HeldAtNameNext DEF AtName
<1>3. SentOf(p, pipe)' = SentOf(p, pipe)
  <2>1. UNCHANGED channel \/ \E r \in Result : channel' = Append(channel, r)
    BY DEF Quiet
  <2>2. ASSUME NEW r \in Result, channel' = Append(channel, r) PROVE SentOf(p, pipe)' = SentOf(p, pipe)
    <3>1. r \in Message /\ ~ReadFrom(r, p, pipe)
      BY DEF Message, Result, ReadFrom
    <3>2. \A u \in Seq(Message) : Positions(Append(u, r), p, pipe) = Positions(u, p, pipe)
      BY <3>1, PositionsAppend
    <3>3. QED
      BY <1>0, <2>2, <3>2 DEF SentOf
  <2>3. QED
    BY <2>1, <2>2 DEF SentOf
<1> HIDE DEF n, B, R
<1>4. CASE procs'[n].buffer = procs[n].buffer /\ (procs'[n].pid = p <=> procs[n].pid = p)
  <2>1. Kept(p, pipe)' = Kept(p, pipe) /\ (Held(p)' <=> Held(p))
    BY <1>1, <1>2, <1>4 DEF B
  <2>2. QED
    BY <1>3, <2>1, Stutters
<1>5. CASE procs'[n].buffer = << >> /\ procs'[n].pid # p
  <2>1. Kept(p, pipe)' = R
    <3>1. Positions(procs'[n].buffer, p, pipe) = << >>
      BY <1>5, PositionsEmpty
    <3>2. << >> \o R = R
      BY <1>1, EmptyWith
    <3>3. QED
      BY <1>2, <3>1, <3>2
  <2>2. ~Held(p)'
    BY <1>2, <1>5
  <2>3. CASE Held(p)
    BY <1>1, <1>3, <2>1, <2>2, <2>3, Releases
  <2>4. CASE ~Held(p)
    BY <1>1, <1>3, <2>1, <2>2, <2>4, Loses
  <2>5. QED
    BY <2>3, <2>4
<1>6. CASE SameTable
  <2>1. procs'[n].pid = procs[n].pid /\ BufferStays(n)
    BY <1>0, <1>6 DEF SameTable, Quiet
  <2>2. procs'[n].buffer = procs[n].buffer
    BY <1>0, <2>1 DEF BufferStays, StreamInv, GoneIsEmpty
  <2>3. QED
    BY <1>4, <2>1, <2>2
<1>7. ASSUME NEW k \in Names, procs' = [procs EXCEPT ![k] = Absent] PROVE StreamStep(p, pipe)
  <2>1. CASE k = n
    BY <1>0, <1>5, <1>7, <2>1, NoneAssumption DEF Absent
  <2>2. CASE k # n
    BY <1>0, <1>4, <1>7, <2>2
  <2>3. QED
    BY <2>1, <2>2
<1>8. ASSUME NEW k \in Names, NEW c \in Pids, child[c].state = "unborn",
             procs' = [procs EXCEPT ![k] = NewEntry(c)]
      PROVE  StreamStep(p, pipe)
  <2>1. CASE k = n
    <3>1. c # p
      BY <1>8 DEF StreamInv, Fresh
    <3>2. QED
      BY <1>0, <1>5, <1>8, <2>1, <3>1 DEF NewEntry
  <2>2. CASE k # n
    BY <1>0, <1>4, <1>8, <2>2
  <2>3. QED
    BY <2>1, <2>2
<1>9. QED
  BY <1>0, <1>6, <1>7, <1>8 DEF TableMove, Removed, Added

\* Nothing of a child is buffered under another name.
LEMMA OtherBuffer ==
  ASSUME StreamInv, NEW p \in Pids, NEW pipe \in Pipes, NEW k \in Names, k # child[p].name
  PROVE  Positions(procs[k].buffer, p, pipe) = << >>
<1>1. procs[k].buffer \in Seq(Message)
  BY OrderTypes DEF StreamInv, OrderInv
<1>2. \A i \in 1 .. Len(procs[k].buffer) : ~ReadFrom(procs[k].buffer[i], p, pipe)
  <2>1. DOMAIN procs[k].buffer = 1 .. Len(procs[k].buffer)
    BY <1>1, LenProperties
  <2>2. QED
    BY <2>1 DEF StreamInv, OrderInv, Placed, Fits, ReadFrom
<1>3. QED
  BY <1>1, <1>2, PositionsNone

\* A subscribe forwards all that is buffered under the name, or loses it to a
\* writer task that is dead.
LEMMA ReplayStep ==
  ASSUME StreamInv, StreamInv', Next, Replays,
         NEW p \in Pids, NEW pipe \in Pipes, SameSource(p, pipe)
  PROVE  StreamStep(p, pipe)
<1> SUFFICES ASSUME Read(p, pipe) # 0 PROVE StreamStep(p, pipe)
  BY NewStep DEF Replays
<1> DEFINE n == child[p].name
           B == Positions(procs[n].buffer, p, pipe)
           R == Positions(relay_rx, p, pipe)
<1>0. /\ channel \in Seq(Message) /\ procs \in [Names -> Entry]
      /\ \A k \in Names : procs[k].buffer \in Seq(Message)
      /\ n \in Names /\ child'[p].name = n /\ UNCHANGED <<relay_rx, writer>>
  BY OrderTypes, Started DEF StreamInv, OrderInv, Replays
<1>1. /\ Held(p) <=> procs[n].pid = p
      /\ Kept(p, pipe) = B \o R /\ B \in Seq(Nat) /\ R \in Seq(Nat) /\ SentOf(p, pipe) \in Seq(Nat)
  BY <1>0, HeldAtName DEF AtName
<1>2. /\ Held(p)' <=> procs'[n].pid = p
      /\ Kept(p, pipe)' = Positions(procs'[n].buffer, p, pipe) \o R
  BY <1>0, HeldAtNameNext DEF AtName
<1>3. PICK k \in Names, r \in Result :
        /\ procs' = [procs EXCEPT ![k] = Drained(procs[k])]
        /\ channel' = IF writer THEN channel \o Append(procs[k].buffer, r) ELSE channel
  BY DEF Replays
<1>4. procs'[k].buffer = << >> /\ procs'[k].pid = procs[k].pid
      /\ \A i \in Names \ {k} : procs'[i] = procs[i]
  BY <1>0, <1>3 DEF Drained, Entry
<1>5. SentOf(p, pipe)' = IF writer THEN SentOf(p, pipe) \o Positions(procs[k].buffer, p, pipe)
                                   ELSE SentOf(p, pipe)
  <2>1. r \in Message /\ ~ReadFrom(r, p, pipe)
    BY DEF Message, Result, ReadFrom
  <2>2. \A u \in Seq(Message) : /\ Append(u, r) \in Seq(Message)
                                /\ Positions(Append(u, r), p, pipe) = Positions(u, p, pipe)
    BY <2>1, PositionsAppend
  <2>3. \A u, v \in Seq(Message) :
          Positions(u \o v, p, pipe) = Positions(u, p, pipe) \o Positions(v, p, pipe)
    BY PositionsConcat
  <2>4. Positions(channel \o Append(procs[k].buffer, r), p, pipe)
          = Positions(channel, p, pipe) \o Positions(procs[k].buffer, p, pipe)
    <3> DEFINE b == procs[k].buffer
    <3>1. b \in Seq(Message)
      BY <1>0
    <3> HIDE DEF b
    <3>2. Positions(channel \o Append(b, r), p, pipe)
            = Positions(channel, p, pipe) \o Positions(Append(b, r), p, pipe)
      BY <1>0, <2>2, <2>3, <3>1
    <3>3. QED
      BY <2>2, <3>1, <3>2 DEF b
  <2>5. QED
    BY <1>3, <2>4 DEF SentOf
<1>6. Held(p)' <=> Held(p)
  BY <1>0, <1>1, <1>2, <1>4
<1>7. CASE k # n
  <2>1. Positions(procs[k].buffer, p, pipe) = << >>
    BY <1>7, OtherBuffer
  <2>2. SentOf(p, pipe)' = SentOf(p, pipe)
    BY <1>1, <1>5, <2>1, EmptyWith
  <2>3. Kept(p, pipe)' = Kept(p, pipe)
    BY <1>0, <1>1, <1>2, <1>4, <1>7
  <2>4. QED
    BY <1>0, <1>6, <2>2, <2>3, Stutters
<1>8. CASE k = n
  <2> HIDE DEF n, B, R
  <2>1. Kept(p, pipe)' = R
    <3>1. Positions(procs'[n].buffer, p, pipe) = << >>
      BY <1>4, <1>8, PositionsEmpty
    <3>2. << >> \o R = R
      BY <1>1, EmptyWith
    <3>3. QED
      BY <1>2, <3>1, <3>2
  <2>2. CASE ~writer
    BY <1>0, <1>1, <1>5, <1>6, <2>1, <2>2, Loses
  <2>3. CASE writer /\ B # << >>
    BY <1>0, <1>1, <1>5, <1>6, <1>8, <2>1, <2>3, Forwards DEF B
  <2>4. CASE writer /\ B = << >>
    <3>1. Kept(p, pipe)' = Kept(p, pipe) /\ SentOf(p, pipe)' = SentOf(p, pipe)
      BY <1>1, <1>5, <1>8, <2>1, <2>4, EmptyWith DEF B
    <3>2. QED
      BY <1>0, <1>6, <3>1, Stutters
  <2>5. QED
    BY <2>2, <2>3, <2>4
<1>9. QED
  BY <1>7, <1>8

\* The first message of relay_rx, if it is of this pipe, is forwarded past an
\* empty buffer, goes to the end of the buffer, or is lost with its entry.
LEMMA HandleStep ==
  ASSUME StreamInv, StreamInv', Next, Handles,
         NEW p \in Pids, NEW pipe \in Pipes, SameSource(p, pipe)
  PROVE  StreamStep(p, pipe)
<1> SUFFICES ASSUME Read(p, pipe) # 0 PROVE StreamStep(p, pipe)
  BY NewStep DEF Handles
<1> DEFINE n == child[p].name
           B == Positions(procs[n].buffer, p, pipe)
           R == Positions(Tail(relay_rx), p, pipe)
<1>0. /\ TypeInv /\ channel \in Seq(Message) /\ procs \in [Names -> Entry]
      /\ relay_rx \in Seq(Message) /\ relay_rx # << >> /\ relay_rx' = Tail(relay_rx)
      /\ \A k \in Names : procs[k].buffer \in Seq(Message)
      /\ n \in Names /\ child'[p].name = n /\ UNCHANGED writer
  BY OrderTypes, Started DEF StreamInv, OrderInv, Handles
<1>1. /\ Held(p) <=> procs[n].pid = p
      /\ Kept(p, pipe) = B \o Positions(relay_rx, p, pipe)
      /\ B \in Seq(Nat) /\ SentOf(p, pipe) \in Seq(Nat)
  BY <1>0, HeldAtName DEF AtName
<1>2. /\ Held(p)' <=> procs'[n].pid = p
      /\ Kept(p, pipe)' = Positions(procs'[n].buffer, p, pipe) \o R
      /\ R \in Seq(Nat)
  BY <1>0, HeldAtNameNext DEF AtName
<1>3. PICK m \in Output :
        /\ SameLine(m, Head(relay_rx))
        /\ \/ ~Managed(m.name) /\ UNCHANGED channel /\ SameBuffers
           \/ /\ procs[m.name].subscribed /\ writer
              /\ channel' = Append(channel, m) /\ SameBuffers
           \/ /\ UNCHANGED channel
              /\ procs'[m.name].buffer = Append(procs[m.name].buffer, m)
              /\ \A k \in Names \ {m.name} : procs'[k].buffer = procs[k].buffer
  BY DEF Handles
<1>4. m \in Message /\ m.kind # "result" /\ m.name \in Names /\ m.seq \in Nat
  BY <1>0, OrderTypes DEF Message
<1>5. Held(p)' <=> Held(p)
  BY <1>0, <1>1, <1>2 DEF Handles, SamePids
<1>6. \A u \in Seq(Message) :
        Positions(Append(u, m), p, pipe) =
          IF ReadFrom(m, p, pipe) THEN Append(Positions(u, p, pipe), m.seq) ELSE Positions(u, p, pipe)
  BY <1>4, PositionsAppend
<1>7. Positions(relay_rx, p, pipe) = IF ReadFrom(m, p, pipe) THEN <<m.seq>> \o R ELSE R
  <2>1. ReadFrom(m, p, pipe) <=> ReadFrom(Head(relay_rx), p, pipe)
    BY <1>3 DEF SameLine, ReadFrom
  <2>2. m.seq = Head(relay_rx).seq
    BY <1>3 DEF SameLine
  <2>3. QED
    BY <1>0, <2>1, <2>2, PositionsHead
<1>8. ReadFrom(m, p, pipe) => m.name = n
  <2>1. Head(relay_rx) = relay_rx[1] /\ 1 \in DOMAIN relay_rx
    BY <1>0, HeadTailProperties, EmptySeq
  <2>2. Fits(Head(relay_rx))
    BY <2>1 DEF StreamInv, OrderInv, Placed
  <2>3. QED
    BY <1>3, <2>2 DEF Fits, SameLine, ReadFrom
<1> HIDE DEF n, B, R
<1>9. CASE ~ReadFrom(m, p, pipe)
  <2>1. Positions(procs'[n].buffer, p, pipe) = B
    BY <1>0, <1>3, <1>4, <1>6, <1>9 DEF SameBuffers, B
  <2>2. SentOf(p, pipe)' = SentOf(p, pipe)
    BY <1>0, <1>3, <1>6, <1>9 DEF SentOf
  <2>3. Kept(p, pipe)' = Kept(p, pipe)
    BY <1>1, <1>2, <1>7, <1>9, <2>1
  <2>4. QED
    BY <1>0, <1>5, <2>2, <2>3, Stutters
<1>10. CASE ReadFrom(m, p, pipe)
  <2> DEFINE a == <<m.seq>>
  <2>1. /\ m.name = n /\ a \in Seq(Nat) /\ a # << >>
        /\ Positions(relay_rx, p, pipe) = a \o R
        /\ \A u \in Seq(Nat) : Append(u, m.seq) = u \o a
    <3>1. \A u \in Seq(Nat) : Append(u, m.seq) = u \o a
      BY <1>4, AppendIsConcat
    <3>2. a \in Seq(Nat) /\ a # << >>
      BY <1>4
    <3>3. m.name = n /\ Positions(relay_rx, p, pipe) = a \o R
      BY <1>7, <1>8, <1>10
    <3> HIDE DEF a
    <3>4. QED
      BY <3>1, <3>2, <3>3
  <2> HIDE DEF a
  <2>2. CASE procs[n].buffer = << >> /\ SameBuffers
    <3>1. B = << >> /\ Kept(p, pipe) = a \o R
      <4>1. B = << >>
        BY <2>2, PositionsEmpty DEF B
      <4>2. a \o R \in Seq(Nat)
        BY <1>2, <2>1, ConcatProperties
      <4>3. QED
        BY <1>1, <2>1, <4>1, <4>2, EmptyWith
    <3>2. Kept(p, pipe)' = R
      BY <1>0, <1>2, <2>2, <3>1, EmptyWith DEF SameBuffers, B
    <3>3. CASE UNCHANGED channel /\ ~Managed(n)
      <4>1. ~Held(p)
        BY <1>0, <1>1, <3>3, NoneAssumption DEF TypeInv, TypeOK, TableOK
      <4>2. SentOf(p, pipe)' = SentOf(p, pipe)
        BY <3>3 DEF SentOf
      <4>3. QED
        BY <1>0, <1>2, <1>5, <2>1, <3>1, <3>2, <4>1, <4>2, Loses
    <3>4. CASE writer /\ channel' = Append(channel, m)
      <4>1. SentOf(p, pipe)' = SentOf(p, pipe) \o a
        BY <1>0, <1>1, <1>6, <1>10, <2>1, <3>4 DEF SentOf
      <4>2. QED
        BY <1>0, <1>2, <1>5, <2>1, <3>1, <3>2, <3>4, <4>1, Forwards
    <3>5. CASE procs'[n].buffer = Append(procs[n].buffer, m)
      <4>1. Append(procs[n].buffer, m) # procs[n].buffer
        <5>1. Len(Append(procs[n].buffer, m)) = Len(procs[n].buffer) + 1 /\ Len(procs[n].buffer) \in Nat
          BY <1>0, <1>4, AppendProperties, LenProperties
        <5>2. QED
          BY <5>1
      <4>2. QED
        BY <1>0, <2>2, <3>5, <4>1 DEF SameBuffers
    <3>6. QED
      BY <1>3, <2>1, <3>3, <3>4, <3>5
  <2>3. CASE UNCHANGED channel /\ procs'[n].buffer = Append(procs[n].buffer, m)
    <3>1. Positions(procs'[n].buffer, p, pipe) = B \o a
      BY <1>0, <1>1, <1>6, <1>10, <2>1, <2>3 DEF B
    <3>2. (B \o a) \o R = B \o (a \o R)
      BY <1>1, <1>2, <2>1, Regroup
    <3>3. Kept(p, pipe)' = Kept(p, pipe) /\ SentOf(p, pipe)' = SentOf(p, pipe)
      BY <1>1, <1>2, <2>1, <2>3, <3>1, <3>2 DEF SentOf
    <3>4. QED
      BY <1>0, <1>5, <3>3, Stutters
  <2>4. \/ procs[n].buffer = << >> /\ SameBuffers
        \/ UNCHANGED channel /\ procs'[n].buffer = Append(procs[n].buffer, m)
    BY <1>0, <1>3, <2>1 DEF StreamInv, GoneIsEmpty, OrderInv, SubscribedIsDrained
  <2>5. QED
    BY <2>2, <2>3, <2>4
<1>11. QED
  BY <1>9, <1>10

\* Every step of the server is a step of the queue of each pipe, or none.
LEMMA EveryStep ==
  ASSUME StreamInv, StreamInv', Next, NEW p \in Pids, NEW pipe \in Pipes
  PROVE  StreamStep(p, pipe)
<1>0. TypeInv /\ Read(p, pipe) \in Nat
  BY DEF StreamInv, OrderInv, TypeInv, TypeOK, OsOK, TaskRec, Read
<1>1. CASE Accept \/ Disconnect \/ WriterFails
  BY <1>1, ConnectionStep
<1>2. ASSUME NEW q \in Pids, RelayStdout(q) \/ RelayEof(q) \/ RelayStderr(q)
      PROVE  StreamStep(p, pipe)
  BY <1>2, TaskStep
<1>3. CASE /\ ~Accept /\ ~Disconnect /\ ~WriterFails
           /\ task'[p].out = task[p].out /\ task'[p].err = task[p].err
  <2>1. SameSource(p, pipe)
    BY <1>3 DEF SameSource, Read
  <2>2. CASE Quiet
    <3>1. UNCHANGED writer
      BY <1>3, <2>2 DEF Quiet
    <3>2. QED
      BY <1>3, <2>1, <2>2, <3>1, QuietStep
  <2>3. CASE Replays
    BY <2>1, <2>3, ReplayStep
  <2>4. CASE Handles
    BY <2>1, <2>4, HandleStep
  <2>5. CASE Relays
    <3>1. PICK m \in Output : /\ relay_rx' = Append(relay_rx, m)
                              /\ m.seq = Read(m.from, m.pipe) + 1
                              /\ Read(m.from, m.pipe)' = m.seq
      BY <2>5 DEF Relays
    <3>2. PICK q \in Pids : task'[q].out # task[q].out \/ task'[q].err # task[q].err
      <4>1. m.from \in Pids /\ Read(m.from, m.pipe) \in Nat
        BY <1>0, OrderTypes DEF TypeInv, TypeOK, OsOK, TaskRec, Read
      <4>2. Read(m.from, m.pipe)' # Read(m.from, m.pipe)
        BY <3>1, <4>1
      <4>3. QED
        BY <4>1, <4>2 DEF Read
    <3>3. QED
      BY <1>0, <1>2, <3>2, ReadSteady
  <2>6. QED
    BY <1>0, <2>2, <2>3, <2>4, <2>5, ShapeStep
<1>4. QED
  BY <1>0, <1>1, <1>2, <1>3, ReadSteady

\* For the output of each pipe of each child, the table, the buffers, the
\* relay queue, the subscriptions and the channel are one queue, from which a
\* line is lost only with its entry or to a client that is gone: whatever
\* commands, exits, kills and connections come in between (relay_or_buffer,
\* cmd_subscribe, handle_relay, and the resets at the ends of a connection).
THEOREM StreamsCorrect == Spec => PipesAreStreams
<1>1. Init => \A p \in Pids, pipe \in Pipes : Stream(p, pipe)!Init
  <2> SUFFICES ASSUME Init, NEW p \in Pids, NEW pipe \in Pipes PROVE Stream(p, pipe)!Init
    OBVIOUS
  <2>1. StreamInv /\ Read(p, pipe) = 0 /\ ~writer
    BY InitStreamInv DEF Init, Read
  <2>2. Kept(p, pipe) = << >> /\ SentOf(p, pipe) = << >>
    BY <2>1, NothingRead DEF Unread
  <2>3. ~Held(p)
    BY NoneAssumption DEF Init, Held, Absent
  <2>4. QED
    BY <2>1, <2>2, <2>3 DEF Stream!Init, Read, Kept, SentOf, Held
<1>2. StreamInv /\ StreamInv' /\ [Next]_vars =>
        [\A p \in Pids, pipe \in Pipes :
           [Stream(p, pipe)!Next]_(Stream(p, pipe)!stream)]_vars
  BY EveryStep DEF StreamStep
<1>3. QED
  BY <1>1, <1>2, InitStreamInv, StreamInvStep, PTL DEF Spec, PipesAreStreams

=============================================================================
