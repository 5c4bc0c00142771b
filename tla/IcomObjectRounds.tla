-------------------------- MODULE IcomObjectRounds --------------------------
(***************************************************************************)
(* Why the objects of IcomObject keep their links in step: where a         *)
(* component stands in its loops says how many messages each of its links  *)
(* has carried and returned, and with notifications who holds the one      *)
(* message or acknowledgement of a link.  RoundsInv is the inductive       *)
(* invariant IcomObjectProofs proves; TLC checks it on the instances of    *)
(* MCIcomObject.                                                           *)
(***************************************************************************)
EXTENDS IcomObject

\* icom_send has not come to link i with the round under way.
Unserved(c, i) ==
  \/ pc[c] = "send" /\ at[c] <= i
  \/ pc[c] = "sent" /\ at[c] < i

\* icom_recv under way has the message of link j already.
Ahead(d, j) == pc[d] \in {"recv", "take"} /\ at[d] < j

\* Messages taken from link j.
Taken(d, j) == IF Ahead(d, j) THEN Len(seen[d]) + 1 ELSE Len(seen[d])

\* The loops stay within the links of the object; a component in the middle
\* passes on each round it receives.
PlacedAt(c) ==
  /\ at[c] >= 1
  /\ pc[c] \in {"recv", "take", "notifySend"} => at[c] <= Len(Ins(c))
  /\ pc[c] \in {"send", "sent", "notifyRecv"} => at[c] <= Len(Outs(c))
  /\ pc[c] = "visit" => Ins(c) # <<>> /\ seen[c] # <<>>
  /\ pc[c] = "write" => Outs(c) # <<>>
  /\ pc[c] \in {"notifySend", "notifyRecv"} => sys.notify = "notify"
  /\ pc[c] = "init" => round[c] = 0 /\ seen[c] = <<>>
  /\ Ins(c) # <<>> /\ Outs(c) # <<>> =>
       Len(seen[c]) = IF pc[c] \in {"visit", "notifySend", "write"}
                      THEN round[c] + 1 ELSE round[c]

Placed == \A c \in Component : PlacedAt(c)

\* Every link has been served with every round; none is refused once connected.
InRound ==
  /\ \A c \in Component : \A i \in DOMAIN Outs(c) :
       put[Outs(c)[i]] + refused[Outs(c)[i]] =
         IF Unserved(c, i) THEN round[c] - 1 ELSE round[c]
  /\ \A l \in Link : put[l] > 0 <=> l \in connected
  /\ \A c \in Component : pc[c] = "sent" => OutLink(c) \in connected

\* Where all receivers listen in time no destination is ever refused.
NoneRefused ==
  InTime => /\ \A c, d \in Component : pc[c] # "init" => Elems(Ins(d)) \subseteq up
            /\ \A l \in Link : refused[l] = 0

\* What was sent and not yet taken is on the way.
OnTheWay ==
  /\ \A d \in Component : \A j \in DOMAIN Ins(d) :
       put[Ins(d)[j]] = Len(wire[Ins(d)[j]]) + Taken(d, j)
  /\ \A l \in up \cup connected : \E d \in Component : l \in Elems(Ins(d))

\* v is what the n-th message of link l carries: the round, or the sender's
\* buffer.
Carries(l, n, v) ==
  \E c \in Component :
    /\ l \in Elems(Outs(c))
    /\ v = IF sys.zero THEN c ELSE refused[l] + n

InOrder ==
  \A d \in Component : \A j \in DOMAIN Ins(d) :
    LET l == Ins(d)[j]
    IN  /\ \A k \in 1..Len(wire[l]) : Carries(l, Taken(d, j) + k, wire[l][k])
        /\ Taken(d, j) > 0 => Carries(l, Taken(d, j), recvBuf[l])

\* The receiver has a message of link j that it has not acknowledged.
HeldAt(d, j) ==
  IF sys.notify = "notify"
  THEN Ahead(d, j) \/ pc[d] = "visit" \/ (pc[d] = "notifySend" /\ at[d] >= j)
  ELSE Ins(d)[j] \in armed /\ ~(pc[d] = "take" /\ at[d] = j)

\* The sender has sent a message on link i that it knows no acknowledgement of.
AwaitedAt(c, i) ==
  IF sys.notify = "notify"
  THEN /\ Outs(c)[i] \in connected
       /\ \/ pc[c] = "send" /\ at[c] > i
          \/ pc[c] \in {"sent", "notifyRecv"} /\ at[c] >= i
  ELSE pc[c] = "sent" /\ at[c] = i

Held(l)    == \E d \in Component : \E j \in DOMAIN Ins(d) : Ins(d)[j] = l /\ HeldAt(d, j)
Awaited(l) == \E c \in Component : \E i \in DOMAIN Outs(c) : Outs(c)[i] = l /\ AwaitedAt(c, i)

\* The message a sender waits for is on the way, or with the receiver, or its
\* acknowledgement is on the way back: one of these, and nothing else is.
Token ==
  sys.notify # "none" =>
    \A l \in Link :
      /\ Held(l) => Awaited(l)
      /\ Len(wire[l]) + acks[l] = IF Awaited(l) /\ ~Held(l) THEN 1 ELSE 0

\* link_sendAck is installed by the first icom_recv that comes to the link.
Armed ==
  sys.notify = "autonotify" =>
    \A d \in Component : \A j \in DOMAIN Ins(d) :
      Taken(d, j) > 0 \/ (pc[d] = "take" /\ at[d] = j) <=> Ins(d)[j] \in armed

\* The pointers a component gets are its sources' names: no two of its links
\* come from one sender.
DistinctPointers ==
  \A s \in Systems : s.zero =>
    \A c, d \in Component : \A i, j \in DOMAIN s.outs[c] :
      s.outs[c][i] \in Elems(s.ins[d]) /\ s.outs[c][j] \in Elems(s.ins[d]) => i = j

\* The traversal stands behind the n-th buffer and has read all up to it.
Reading(c) ==
  LET k == Len(seen[c])
  IN  \E n \in 0..Len(Ins(c)) :
        /\ seen[c][k] = SubSeq(Expected(c, k), 1, n)
        /\ cur[c] = IF n = 0 THEN NULL ELSE BufferOf(c, n)

AllRead ==
  ~sys.zero \/ sys.notify # "none" =>
    \A c \in Component :
      /\ \A k \in DOMAIN seen[c] :
           (k = Len(seen[c]) /\ pc[c] = "visit") \/ seen[c][k] = Expected(c, k)
      /\ pc[c] = "visit" => Reading(c)

\* All of it (the loops of icom_send, icom_recv, icom_notify_send,
\* icom_notify_recv and icom_nextBuffer together).
RoundsInv ==
  /\ TypeOK
  /\ Placed
  /\ InRound
  /\ NoneRefused
  /\ OnTheWay
  /\ InOrder
  /\ Token
  /\ Armed
=============================================================================
