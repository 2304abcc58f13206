---------------------------- MODULE OutputStream ----------------------------
(***************************************************************************)
(* What a procmux server promises of one pipe of one child: it is a queue. *)
(* The relay task puts what it reads at its end; the client gets it from   *)
(* its front, each message once, in order and without a gap.  Something is *)
(* lost only when the child's entry is given up, or when the client asks   *)
(* for it and is gone before it is written, and then the oldest first.     *)
(* Messages are named by their position in the pipe.                       *)
(***************************************************************************)
EXTENDS Integers, Sequences

VARIABLES
  taken,   \* how many messages have been taken from the pipe
  kept,    \* those of them the server has, oldest first
  sent,    \* those of them sent on the connection being served
  held,    \* the server manages the child
  client   \* a client is there to send to

stream == <<taken, kept, sent, held, client>>

Init == taken = 0 /\ kept = << >> /\ sent = << >> /\ ~held /\ ~client

Front(k) == SubSeq(kept, 1, k)
Rest(k)  == SubSeq(kept, k + 1, Len(kept))

Take ==
  /\ taken' = taken + 1 /\ kept' = Append(kept, taken')
  /\ UNCHANGED <<sent, held, client>>

Forward ==
  /\ client
  /\ \E k \in 1 .. Len(kept) : sent' = sent \o Front(k) /\ kept' = Rest(k)
  /\ UNCHANGED <<taken, held, client>>

Lose ==
  /\ ~held \/ ~client
  /\ \E k \in 1 .. Len(kept) : kept' = Rest(k)
  /\ UNCHANGED <<taken, sent, held, client>>

\* A child is started once; what is kept of it may go with its entry.
Hold == ~held /\ taken = 0 /\ held' = TRUE /\ UNCHANGED <<taken, kept, sent, client>>

Release ==
  /\ held /\ held' = FALSE
  /\ \E k \in 0 .. Len(kept) : kept' = Rest(k)
  /\ UNCHANGED <<taken, sent, client>>

Connect    == client' = TRUE  /\ sent' = << >> /\ UNCHANGED <<taken, kept, held>>
Disconnect == client' = FALSE /\ sent' \in {sent, << >>} /\ UNCHANGED <<taken, kept, held>>

Next == Take \/ Forward \/ Lose \/ Hold \/ Release \/ Connect \/ Disconnect

Spec == Init /\ [][Next]_stream
=============================================================================
