----------------------------- MODULE IcomObject -----------------------------
(***************************************************************************)
(* Objects of several links (icom/src/icom.c: icom_send, icom_recv,        *)
(* icom_notify_send, icom_notify_recv, icom_nextBuffer) and the components *)
(* that use them.  A component is one thread with at most one receiving    *)
(* and one sending object; it receives a round from all its sources, walks *)
(* through the buffers, notifies the sources, writes its own buffer, sends *)
(* it to all its destinations and waits to be notified.  A link is what    *)
(* SocketLink has been shown to be: messages in order, and                 *)
(* acknowledgements that are never confused with them.  Which loops block, *)
(* in which order they serve the links and what they return is the subject *)
(* here.                                                                   *)
(***************************************************************************)
EXTENDS Integers, Sequences, FiniteSets

CONSTANTS
  Component,   \* the threads
  Link,        \* one TCP connection each
  NULL,        \* no buffer
  Systems,     \* the systems looked at
  MaxRounds    \* bound: how often a component writes its buffer

\* A system: the links of each component's receiving and sending object in the
\* order of their communication strings; the flags of all objects; how many
\* messages the kernel holds per link (0: a message is larger than that);
\* whether components may send before all receivers are initialised.
System == [ins : [Component -> Seq(Link)], outs : [Component -> Seq(Link)],
           zero : BOOLEAN, notify : {"none", "notify", "autonotify"},
           cap : Nat, early : BOOLEAN]

\* One listener and one connecting end per link: bind() refuses a port a second
\* time, and a listener accepts one connection.
OneEnd(ends) ==
  \A c, d \in Component : \A i \in DOMAIN ends[c], j \in DOMAIN ends[d] :
    ends[c][i] = ends[d][j] => c = d /\ i = j

ASSUME ObjectAssumption ==
  /\ NULL \notin Component \cup Link
  /\ Component \cap Link = {}
  /\ Systems \subseteq System
  /\ \A s \in Systems : OneEnd(s.ins) /\ OneEnd(s.outs)
  /\ MaxRounds \in Nat

VARIABLES
  sys,        \* the system, chosen once
  pc,         \* pc[c]: where c stands in its round
  at,         \* at[c]: the loop variable i, counting links from 1
  up,         \* links whose receiver listens
  connected,  \* links whose sender has connected
  armed,      \* links whose autoSendAck is link_sendAck by now
  wire,       \* wire[l]: messages on the way
  acks,       \* acks[l]: acknowledgements on the way back
  recvBuf,    \* recvBuf[l]: what the receiver's link->recvBuf holds
  round,      \* round[c]: what c's own buffer holds: the round it was written in
  cur,        \* cur[c]: *buf of the traversal
  seen,       \* history: what each traversal of c has read, buffer by buffer
  put,        \* history: messages sent per link
  refused     \* history: messages refused per link

prog == <<pc, at>>
tcp  == <<up, connected, wire, acks>>
rcv  == <<armed, recvBuf, cur, seen>>
hist == <<put, refused>>
vars == <<sys, prog, tcp, rcv, round, hist>>

Pc == {"init", "recv", "take", "visit", "notifySend", "write", "send", "sent",
       "notifyRecv"}

Ins(c)  == sys.ins[c]
Outs(c) == sys.outs[c]
Elems(s) == {s[i] : i \in DOMAIN s}

\* The link served at this moment.
InLink(c)  == Ins(c)[at[c]]
OutLink(c) == Outs(c)[at[c]]

-----------------------------------------------------------------------------
Init ==
  /\ sys       \in Systems
  /\ pc        = [c \in Component |-> "init"]
  /\ at        = [c \in Component |-> 1]
  /\ up        = {}
  /\ connected = {}
  /\ armed     = {}
  /\ wire      = [l \in Link |-> <<>>]
  /\ acks      = [l \in Link |-> 0]
  /\ recvBuf   = [l \in Link |-> NULL]
  /\ round     = [c \in Component |-> 0]
  /\ cur       = [c \in Component |-> NULL]
  /\ seen      = [c \in Component |-> <<>>]
  /\ put       = [l \in Link |-> 0]
  /\ refused   = [l \in Link |-> 0]

Goto(c, p, i) ==
  /\ pc' = [pc EXCEPT ![c] = p]
  /\ at' = [at EXCEPT ![c] = i]
  /\ UNCHANGED sys

\* The top of the component's loop.
NextRound(c) ==
  IF Ins(c) # <<>> THEN Goto(c, "recv", Len(Ins(c))) ELSE Goto(c, "write", 1)

\* icom_init of the receiving object brings up one listener after the other.
Listen(c) ==
  /\ pc[c] = "init"
  /\ at[c] <= Len(Ins(c))
  /\ up' = up \cup {InLink(c)}
  /\ Goto(c, "init", at[c] + 1)
  /\ UNCHANGED <<connected, wire, acks, rcv, round, hist>>

Begin(c) ==
  /\ pc[c] = "init"
  /\ at[c] > Len(Ins(c))
  /\ Ins(c) # <<>> \/ Outs(c) # <<>>
  /\ sys.early \/ UNION {Elems(Ins(d)) : d \in Component} \subseteq up
  /\ NextRound(c)
  /\ UNCHANGED <<tcp, rcv, round, hist>>

-----------------------------------------------------------------------------
(* icom_recv: from the last link to the first.                             *)

\* Mutants: link_autoSendAck never installs link_sendAck; or it acknowledges
\* at once.
RecvLinkUnarmed(c) ==
  /\ pc[c] = "recv"
  /\ Goto(c, "take", at[c])
  /\ UNCHANGED <<tcp, rcv, round, hist>>

RecvLinkEager(c) ==
  /\ pc[c] = "recv"
  /\ acks' = [acks EXCEPT ![InLink(c)] =
                @ + (IF sys.notify = "autonotify" THEN 1 ELSE 0)]
  /\ Goto(c, "take", at[c])
  /\ UNCHANGED <<up, connected, wire, rcv, round, hist>>

\* link_recvHandler up to its first read: with autonotify every call but the
\* first acknowledges the message before.
RecvLink(c) ==
  /\ pc[c] = "recv"
  /\ IF sys.notify = "autonotify"
     THEN /\ armed' = armed \cup {InLink(c)}
          /\ acks'  = [acks EXCEPT ![InLink(c)] =
                         @ + (IF InLink(c) \in armed THEN 1 ELSE 0)]
     ELSE UNCHANGED <<armed, acks>>
  /\ Goto(c, "take", at[c])
  /\ UNCHANGED <<up, connected, wire, recvBuf, cur, seen, round, hist>>

\* The message is there; behind link 0 icom_recv returns.
Take(c) ==
  /\ pc[c] = "take"
  /\ wire[InLink(c)] # <<>>
  /\ recvBuf' = [recvBuf EXCEPT ![InLink(c)] = Head(wire[InLink(c)])]
  /\ wire'    = [wire EXCEPT ![InLink(c)] = Tail(@)]
  /\ IF at[c] > 1
     THEN Goto(c, "recv", at[c] - 1) /\ UNCHANGED <<cur, seen>>
     ELSE /\ Goto(c, "visit", 1)
          /\ cur'  = [cur EXCEPT ![c] = NULL]
          /\ seen' = [seen EXCEPT ![c] = Append(@, <<>>)]
  /\ UNCHANGED <<up, connected, acks, armed, round, hist>>

-----------------------------------------------------------------------------
(* icom_nextBuffer.                                                        *)

\* The address it returns for link i: the link's own buffer, or, for zero-copy,
\* the buffer of the component that sent the pointer.
BufferOf(c, i) == IF sys.zero THEN recvBuf[Ins(c)[i]] ELSE Ins(c)[i]

\* What a component reads there: its message, or what the sender's buffer
\* holds by now.
Data(b) == IF b \in Component THEN round[b] ELSE recvBuf[b]

\* The indices under which it looks for the buffer it has been given.  Own
\* buffers are found by the link address in front of them, pointers by
\* comparison with all but the last.
Found(c, b) ==
  IF sys.zero THEN {i \in 1..(Len(Ins(c)) - 1) : BufferOf(c, i) = b}
              ELSE {i \in 1..Len(Ins(c)) : Ins(c)[i] = b}

First(S) == CHOOSE i \in S : \A j \in S : i <= j

\* Mutant: a pointer on the last link but one is not found.
NextBufferShort(c, b) ==
  LET found == Found(c, b) \ {Len(Ins(c)) - 1}
  IN  IF b = NULL THEN BufferOf(c, 1)
      ELSE IF found = {} \/ First(found) = Len(Ins(c)) THEN NULL
      ELSE BufferOf(c, First(found) + 1)

NextBuffer(c, b) ==
  LET found == Found(c, b)
  IN  IF b = NULL THEN BufferOf(c, 1)
      ELSE IF found = {} \/ First(found) = Len(Ins(c)) THEN NULL
      ELSE BufferOf(c, First(found) + 1)

\* while(icom_nextBuffer(icom, &buf, &size)): at the end *buf stays as it is.
Visit(c) ==
  LET b == NextBuffer(c, cur[c])
  IN
  /\ pc[c] = "visit"
  /\ IF b # NULL
     THEN /\ cur'  = [cur EXCEPT ![c] = b]
          /\ seen' = [seen EXCEPT ![c][Len(seen[c])] = Append(@, Data(b))]
          /\ Goto(c, "visit", 1)
     ELSE /\ IF sys.notify = "notify" THEN Goto(c, "notifySend", Len(Ins(c)))
             ELSE IF Outs(c) # <<>>   THEN Goto(c, "write", 1)
             ELSE NextRound(c)
          /\ UNCHANGED <<cur, seen>>
  /\ UNCHANGED <<tcp, armed, recvBuf, round, hist>>

\* icom_notify_send: from the last link to the first.
NotifySend(c) ==
  /\ pc[c] = "notifySend"
  /\ acks' = [acks EXCEPT ![InLink(c)] = @ + 1]
  /\ IF at[c] > 1           THEN Goto(c, "notifySend", at[c] - 1)
     ELSE IF Outs(c) # <<>> THEN Goto(c, "write", 1)
     ELSE NextRound(c)
  /\ UNCHANGED <<up, connected, wire, rcv, round, hist>>

-----------------------------------------------------------------------------
(* icom_send: from the first link to the last.                             *)

\* The component overwrites its one buffer, whatever the last call returned.
Write(c) ==
  /\ pc[c] = "write"
  /\ round[c] < MaxRounds
  /\ round' = [round EXCEPT ![c] = @ + 1]
  /\ Goto(c, "send", 1)
  /\ UNCHANGED <<tcp, rcv, hist>>

\* The handler of one link has returned, whatever its status: on to the next
\* link, behind the last one to icom_notify_recv.
Served(c) ==
  IF at[c] < Len(Outs(c))       THEN Goto(c, "send", at[c] + 1)
  ELSE IF sys.notify = "notify" THEN Goto(c, "notifyRecv", Len(Outs(c)))
  ELSE NextRound(c)

\* link_connect and the beginning of link_sendHandler.
SendLink(c) ==
  LET l == OutLink(c)
  IN
  /\ pc[c] = "send"
  /\ IF l \in connected \cup up
     THEN /\ connected' = connected \cup {l}
          /\ wire' = [wire EXCEPT ![l] = Append(@, IF sys.zero THEN c ELSE round[c])]
          /\ put'  = [put EXCEPT ![l] = @ + 1]
          /\ Goto(c, "sent", at[c])
          /\ UNCHANGED refused
     ELSE /\ refused' = [refused EXCEPT ![l] = @ + 1]
          /\ Served(c)
          /\ UNCHANGED <<connected, wire, put>>
  /\ UNCHANGED <<up, acks, rcv, round>>

\* Mutant: link_sendHandler does not wait for the acknowledgement.
SendReturnsUnacked(c) ==
  LET l == OutLink(c)
  IN
  /\ pc[c] = "sent"
  /\ Len(wire[l]) <= sys.cap
  /\ Served(c)
  /\ UNCHANGED <<tcp, rcv, round, hist>>

\* send() has been rid of the message; with autonotify it has been
\* acknowledged as well.
SendReturns(c) ==
  LET l == OutLink(c)
  IN
  /\ pc[c] = "sent"
  /\ Len(wire[l]) <= sys.cap
  /\ IF sys.notify = "autonotify"
     THEN acks[l] > 0 /\ acks' = [acks EXCEPT ![l] = @ - 1]
     ELSE UNCHANGED acks
  /\ Served(c)
  /\ UNCHANGED <<up, connected, wire, rcv, round, hist>>

\* Mutant: link_recvAck does not wait for the notification.
NotifyRecvEager(c) ==
  LET l == OutLink(c)
  IN
  /\ pc[c] = "notifyRecv"
  /\ acks' = [acks EXCEPT ![l] = @ - (IF l \in connected THEN 1 ELSE 0)]
  /\ IF at[c] > 1 THEN Goto(c, "notifyRecv", at[c] - 1) ELSE NextRound(c)
  /\ UNCHANGED <<up, connected, wire, rcv, round, hist>>

\* icom_notify_recv: from the last link to the first; an error at once on a
\* link that is not connected.
NotifyRecv(c) ==
  LET l == OutLink(c)
  IN
  /\ pc[c] = "notifyRecv"
  /\ IF l \in connected
     THEN acks[l] > 0 /\ acks' = [acks EXCEPT ![l] = @ - 1]
     ELSE UNCHANGED acks
  /\ IF at[c] > 1 THEN Goto(c, "notifyRecv", at[c] - 1) ELSE NextRound(c)
  /\ UNCHANGED <<up, connected, wire, rcv, round, hist>>

-----------------------------------------------------------------------------
Step(c) ==
  \/ Listen(c) \/ Begin(c)
  \/ RecvLink(c) \/ Take(c) \/ Visit(c) \/ NotifySend(c)
  \/ Write(c) \/ SendLink(c) \/ SendReturns(c) \/ NotifyRecv(c)

Next == \E c \in Component : Step(c)

Spec == Init /\ [][Next]_vars

\* Every thread is scheduled, and its application goes on with its loop.
FairSpec == Spec /\ \A c \in Component : WF_vars(Step(c))

-----------------------------------------------------------------------------
(* Properties.                                                             *)

TypeOK ==
  /\ sys       \in Systems
  /\ pc        \in [Component -> Pc]
  /\ at        \in [Component -> Nat]
  /\ up        \subseteq Link
  /\ connected \subseteq Link
  /\ armed     \subseteq Link
  /\ wire      \in [Link -> Seq(Nat \cup Component)]
  /\ acks      \in [Link -> Nat]
  /\ recvBuf   \in [Link -> Nat \cup Component \cup {NULL}]
  /\ round     \in [Component -> 0..MaxRounds]
  /\ cur       \in [Component -> Component \cup Link \cup {NULL}]
  /\ seen      \in [Component -> Seq(Seq(Nat))]
  /\ put       \in [Link -> Nat]
  /\ refused   \in [Link -> Nat]

\* What c's k-th traversal is to read: for each link in turn the round its
\* source has sent there as the k-th message.
Expected(c, k) == [i \in DOMAIN Ins(c) |-> refused[Ins(c)[i]] + k]

\* The traversal behind an icom_recv visits the buffer of every link once, in
\* the order of the links, and reads the round that this icom_recv received
\* from each: links never get out of step with each other, and with zero-copy
\* and notifications no source has overwritten its buffer by then (README.md,
\* "Zero-copy and buffer overwrites").
Gathered ==
  ~sys.zero \/ sys.notify # "none" =>
  \A c \in Component : \A k \in DOMAIN seen[c] :
    IF k = Len(seen[c]) /\ pc[c] = "visit"
    THEN \E n \in 0..Len(Ins(c)) : seen[c][k] = SubSeq(Expected(c, k), 1, n)
    ELSE seen[c][k] = Expected(c, k)

\* With notifications there is a message on a link, or the acknowledgement of
\* one, never two of them: no acknowledgement is given or used twice.
OneInFlight ==
  sys.notify # "none" => \A l \in Link : Len(wire[l]) + acks[l] <= 1

\* A component sends the same data to all its destinations (README.md,
\* "Sending"): when an icom_send is over, whatever it has sent over link 0, whose
\* status it returns, it has sent over the others.
SentToAll ==
  \A c \in Component :
    pc[c] \notin {"send", "sent"} =>
      \A i \in DOMAIN Outs(c) : put[Outs(c)[i]] >= put[Outs(c)[1]]

\* Every destination is a receiver, and all of them listen before anyone sends.
InTime ==
  /\ ~sys.early
  /\ UNION {Elems(Outs(c)) : c \in Component} \subseteq UNION {Elems(Ins(d)) : d \in Component}

\* The objects as the components see them.
Flow == INSTANCE Dataflow WITH
  Components <- Component,
  Links      <- Link,
  sources    <- [c \in Component |-> Elems(Ins(c))],
  sinks      <- [c \in Component |-> Elems(Outs(c))],
  begun      <- round,
  served     <- put,
  gathered   <- [c \in Component |-> Len(seen[c])]

\* The objects send every round to every destination, and icom_send and
\* icom_recv return, although the two sides serve their links in opposite orders
\* and each call blocks on one link at a time: with these plans and flags no
\* circle of components waits for each other.  A system stays what it is, so
\* that InTime chooses behaviours: of those it holds of, this is FlowSpec.
IsADataflow ==
  /\ InTime => Flow!FlowInit
  /\ [][InTime => Flow!FlowNext]_(Flow!flowVars)
  /\ InTime => Flow!FlowFairness
=============================================================================
