---------------------- MODULE SocketLinkChannelProofs ----------------------
(* What the applications may rely on: a link implements the safety part of  *)
(* MsgChannel, and what was sent before an orderly close has been read when *)
(* the receive loop meets the end of the stream.                            *)
EXTENDS SocketLinkFramingProofs

SizesOf(s) == [k \in DOMAIN s |-> s[k].size]

LEMMA SizesOfAppend ==
  ASSUME NEW S, NEW s \in Seq(S), NEW x \in S
  PROVE  SizesOf(Append(s, x)) = Append(SizesOf(s), x.size)
<1>1. PICK n \in Nat : n = Len(s)
  BY LenProperties
<1>2. DOMAIN s = 1..n /\ Append(s, x) \in Seq(S)
  BY <1>1, LenProperties, AppendProperties
<1>3. /\ DOMAIN Append(s, x) = 1..n + 1
      /\ \A k \in 1..n : Append(s, x)[k] = s[k]
      /\ Append(s, x)[n + 1] = x
  BY <1>1, AppendProperties
<1>4. SizesOf(s) = [k \in 1..n |-> s[k].size]
  BY <1>2 DEF SizesOf
<1>5. SizesOf(Append(s, x)) = [k \in 1..n + 1 |-> Append(s, x)[k].size]
  BY <1>3 DEF SizesOf
<1> DEFINE T == {s[k].size : k \in 1..n} \cup {x.size}
<1>6. SizesOf(s) \in Seq(T) /\ Len(SizesOf(s)) = n
  BY <1>4, <1>1, LenProperties
<1>7. Append(SizesOf(s), x.size) = [k \in 1..n + 1 |-> IF k = n + 1 THEN x.size ELSE s[k].size]
  BY <1>4, <1>6
<1> QED
  BY <1>3, <1>5, <1>7

LEMMA SizesLen ==
  ASSUME NEW S, NEW s \in Seq(S)
  PROVE  /\ Len(SizesOf(s)) = Len(s)
         /\ \A k \in 1..Len(s) : SizesOf(s)[k] = s[k].size
<1>1. PICK n \in Nat : n = Len(s)
  BY LenProperties
<1>2. SizesOf(s) = [k \in 1..n |-> s[k].size]
  BY <1>1, LenProperties DEF SizesOf
<1> DEFINE T == {s[k].size : k \in 1..n}
<1>3. SizesOf(s) \in Seq(T) /\ Len(SizesOf(s)) = n
  BY <1>2, LenProperties
<1> QED
  BY <1>1, <1>2, <1>3

-----------------------------------------------------------------------------
(* The end of the stream.                                                  *)

LEMMA EofInit == Init => EofInv
  BY DEF Init, EofInv

\* Of an end that is no longer open the wire only shrinks.
LEMMA WireShrinks ==
  ASSUME TypeInv, FramingInv, [Next]_vars, NEW s \in End, sock[s] \notin {"new", "open"},
         wire[s] = <<>>
  PROVE  wire'[s] = <<>> /\ sock'[s] # "open"
<1>1. CASE UNCHANGED vars
  BY <1>1 DEF vars, tcp
<1>2. ASSUME NEW e \in End, Progress(e)
      PROVE  wire'[s] = <<>> /\ sock'[s] # "open"
  <2>1. CASE Push(e)
    <3>1. e # s
      BY <2>1 DEF Push, FramingInv, Roles, Role, Sending
    <3> QED
      BY <2>1, <3>1 DEF Push, TypeInv, TypeOK
  <2>2. CASE Pull(e)
    BY <2>2, PeerType DEF Pull, TypeInv, TypeOK
  <2>3. CASE RecvReset(e) \/ SendToClosed(e) \/ SendReset(e)
    <3>1. \/ UNCHANGED sock
          \/ \E x \in {"reset", "gone"} : sock' = [sock EXCEPT ![Peer(e)] = x]
      BY <2>3 DEF RecvReset, SendToClosed, SendReset
    <3>2. UNCHANGED wire
      BY <2>3 DEF RecvReset, SendToClosed, SendReset
    <3> QED
      BY <3>1, <3>2 DEF TypeInv, TypeOK
  <2>4. CASE \/ HeaderSent(e) \/ DataSent(e) \/ Accept(e) \/ HeaderReceived(e)
             \/ DataReceived(e) \/ AckSent(e) \/ AckReceived(e) \/ PeerClosed(e)
             \/ SendTimesOut(e) \/ RecvTimesOut(e) \/ AcceptTimesOut(e)
    BY <2>4 DEF HeaderSent, DataSent, Accept, HeaderReceived, DataReceived, AckSent,
                AckReceived, PeerClosed, SendTimesOut, RecvTimesOut, AcceptTimesOut, tcp
  <2> QED
    BY <1>2, <2>1, <2>2, <2>3, <2>4 DEF Progress, Works
<1>3. ASSUME NEW e \in End, Call(e)
      PROVE  wire'[s] = <<>> /\ sock'[s] # "open"
  <2>1. CASE InitSocket(e)
    BY <2>1 DEF InitSocket, TypeInv, TypeOK
  <2>2. CASE Deinit(e)
    <3>1. e # s /\ s = Peer(e)
      BY <2>2 DEF Deinit, End, Peer
    <3>2. sock'[s] = sock[s]
      BY <2>2, <3>1 DEF Deinit, TypeInv, TypeOK
    <3>3. wire'[s] = <<>>
      BY <2>2, <3>1 DEF Deinit, TypeInv, TypeOK
    <3> QED
      BY <3>2, <3>3
  <2>3. CASE Recv(e) \/ NotifySend(e) \/ NotifyRecv(e) \/ \E n \in Sizes : Send(e, n)
    BY <2>3 DEF Recv, NotifySend, NotifyRecv, Send, tcp
  <2> QED
    BY <1>3, <2>1, <2>2, <2>3 DEF Call
<1> QED
  BY <1>1, <1>2, <1>3 DEF Next

\* Only PeerClosed enters the loop that spins, and nothing leaves it.
LEMMA SpinEntered ==
  ASSUME TypeInv, [Next]_vars, NEW d \in End, pc'[d] = "spin"
  PROVE  pc[d] = "spin" \/ PeerClosed(d)
<1>1. CASE UNCHANGED vars
  BY <1>1 DEF vars, thread
<1>2. ASSUME NEW e \in End, Progress(e), ~PeerClosed(e)
      PROVE  pc[d] = "spin"
  <2>1. \/ UNCHANGED pc
        \/ \E p \in Pc \ {"spin"} : pc' = [pc EXCEPT ![e] = p]
    <3>1. CASE Push(e) \/ Pull(e) \/ HeaderSent(e) \/ DataSent(e) \/ SendToClosed(e)
      BY <3>1 DEF Push, Pull, HeaderSent, DataSent, SendToClosed, Enter, Return,
                  Pc, Sending, Receiving
    <3>2. CASE Accept(e) \/ HeaderReceived(e) \/ AckSent(e) \/ AckReceived(e)
      BY <3>2 DEF Accept, AutoSendAck, HeaderReceived, AckSent, AckReceived, Enter, Return,
                  Pc, Sending, Receiving
    <3>3. CASE DataReceived(e) \/ RecvTimesOut(e) \/ AcceptTimesOut(e) \/ RecvReset(e)
      BY <3>3 DEF DataReceived, RecvTimesOut, AcceptTimesOut, RecvReset, Return, Pc
    <3>4. CASE SendTimesOut(e)
      <4>1. done[e] \in Nat /\ pc[e] \in {"sendHeader", "sendData", "sendAck", "notifySend"}
        BY <3>4 DEF SendTimesOut, Sending, TypeInv, TypeOK
      <4>2. \/ \E p \in {"sendData", "recvHeader"} : Enter(e, p)
            \/ \E x \in {"TIMEOUT", "PARTIAL", "SUCCESS"} : Return(e, x)
        <5>1. CASE done[e] = 0
          BY <3>4, <4>1, <5>1 DEF SendTimesOut
        <5>2. CASE done[e] > 0
          BY <3>4, <4>1, <5>2 DEF SendTimesOut
        <5> QED
          BY <4>1, <5>1, <5>2
      <4> QED
        BY <4>2 DEF Enter, Return, Pc, Sending, Receiving
    <3>5. CASE SendReset(e)
      BY <3>5 DEF SendReset, Return, Pc
    <3> QED
      BY <1>2, <3>1, <3>2, <3>3, <3>4, <3>5 DEF Progress, Works
  <2> QED
    BY <2>1 DEF TypeInv, TypeOK
<1>3. ASSUME NEW e \in End, Call(e)
      PROVE  pc[d] = "spin"
  <2>1. \/ UNCHANGED pc
        \/ \E p \in Pc \ {"spin"} : pc' = [pc EXCEPT ![e] = p]
    <3>1. CASE InitSocket(e) \/ Deinit(e)
      BY <3>1 DEF InitSocket, Deinit, thread
    <3>2. CASE Recv(e) \/ NotifySend(e) \/ NotifyRecv(e)
      BY <3>2 DEF Recv, AutoSendAck, NotifySend, NotifyRecv, Enter, Return,
                  Pc, Sending, Receiving
    <3>3. CASE \E n \in Sizes : Send(e, n)
      BY <3>3 DEF Send, Enter, Return, Pc, Sending, Receiving
    <3> QED
      BY <1>3, <3>1, <3>2, <3>3 DEF Call
  <2> QED
    BY <2>1 DEF TypeInv, TypeOK
<1>4. ASSUME NEW e \in End, PeerClosed(e)
      PROVE  pc[d] = "spin" \/ PeerClosed(d)
  <2>1. CASE e = d
    BY <1>4, <2>1
  <2>2. CASE e # d
    BY <1>4, <2>2 DEF PeerClosed, TypeInv, TypeOK
  <2> QED
    BY <2>1, <2>2
<1> QED
  BY <1>1, <1>2, <1>3, <1>4 DEF Next

LEMMA EofStep ==
  ASSUME TypeInv, FramingInv, EofInv, [Next]_vars
  PROVE  EofInv'
<1> SUFFICES ASSUME NEW d \in End, pc'[d] = "spin"
             PROVE  wire'[Peer(d)] = <<>> /\ sock'[Peer(d)] # "open"
  BY DEF EofInv
<1>1. Peer(d) \in End
  BY PeerType
<1>2. CASE pc[d] = "spin"
  <2>1. wire[Peer(d)] = <<>> /\ sock[Peer(d)] # "open"
    BY <1>2 DEF EofInv
  <2>2. sock[Peer(d)] # "new"
    BY <1>1, <1>2 DEF FramingInv, Pristine
  <2> QED
    BY <1>1, <2>1, <2>2, WireShrinks
<1>3. CASE PeerClosed(d)
  BY <1>3 DEF PeerClosed, tcp
<1> QED
  BY <1>2, <1>3, SpinEntered

\* Behind an orderly close nothing is left to read.
LEMMA DrainedByFraming ==
  ASSUME Compatible, TypeInv, FramingInv, EofInv
  PROVE  DrainedAtEof
<1> SUFFICES ASSUME NEW e \in End, pc[e] = "spin", sock[Peer(e)] = "closed"
             PROVE  Len(got[e]) = Len(msgs[Peer(e)])
  BY DEF DrainedAtEof
<1>1. PICK s \in End : s = Peer(e) /\ Peer(s) = e
  BY PeerType
<1>2. wire[s] = <<>> /\ sock[e] = "open" /\ pc[s] = "idle"
  BY <1>1 DEF EofInv, FramingInv, Roles, Role
<1>3. CASE FrameDir(s)
  <2>1. SenderAt(s) = WireAt(s, 0)
    BY <1>1, <1>2, <1>3 DEF FramingInv, UpToSender
  <2>2. SenderAt(s) = <<Len(msgs[s]), 0>> /\ WireAt(s, 0) = <<Len(got[e]), 0>>
    BY <1>1, <1>2 DEF SenderAt, ReceiverAt, WireAt
  <2> QED
    BY <1>1, <2>1, <2>2
<1>4. CASE ~FrameDir(s)
  <2>1. msgs[s] = <<>>
    BY <1>4 DEF Compatible, FramingInv, Roles, Role, SendHandlerSet, FrameDir, End
  <2>2. Len(got[e]) \in Nat /\ Len(got[e]) <= Len(msgs[s]) /\ Len(msgs[s]) = 0
    BY <1>1, <2>1, TypeFacts DEF FramingInv, Delivery
  <2> QED
    BY <1>1, <2>2
<1> QED
  BY <1>3, <1>4

\* After an orderly close of the peer the receive loop meets the end of the
\* stream only when every message has been returned (icom_deinitSocket against
\* link_recvHeader and link_recvData).
THEOREM DrainedCorrect ==
  ASSUME Compatible
  PROVE  TimelySpec => []DrainedAtEof
<1>1. Init => TypeInv /\ FramingInv /\ EofInv
  BY TypeInit, FramingInit, EofInit
<1>2. TypeInv /\ FramingInv /\ EofInv /\ [TimelyNext]_vars
        => (TypeInv /\ FramingInv /\ EofInv)'
  BY TimelyStep, TypeStep, FramingStep, EofStep
<1>3. TypeInv /\ FramingInv /\ EofInv => DrainedAtEof
  BY DrainedByFraming
<1> QED
  BY <1>1, <1>2, <1>3, PTL DEF TimelySpec

-----------------------------------------------------------------------------
(* The refinement of MsgChannel.                                           *)

SentNow     == [e \in End |-> SizesOf(msgs[e])]
ReceivedNow == [e \in End |-> SizesOf(got[e])]

LEMMA ChannelInit == Init => Channel!ChanInit
<1> SUFFICES ASSUME Init PROVE Channel!ChanInit
  OBVIOUS
<1>1. \A e \in End : msgs[e] = <<>> /\ got[e] = <<>>
  BY DEF Init
<1> QED
  BY <1>1 DEF Channel!ChanInit

\* icom_send hands over one message.
LEMMA ChannelTransmit ==
  ASSUME TypeInv, NEW e \in End, NEW n \in Sizes, Send(e, n), msgs' # msgs
  PROVE  Channel!Transmit(e)
<1>1. PICK m \in Message : m = [size |-> n, zero |-> zero[e]]
  BY DEF TypeInv, TypeOK, Message
<1>2. msgs' = [msgs EXCEPT ![e] = Append(@, m)] /\ got' = got
  BY <1>1 DEF Send, hist
<1>3. \A d \in End : SizesOf(msgs'[d]) = IF d = e THEN Append(SizesOf(msgs[e]), n)
                                         ELSE SizesOf(msgs[d])
  <2>1. SizesOf(Append(msgs[e], m)) = Append(SizesOf(msgs[e]), m.size)
    BY TypeFacts, SizesOfAppend
  <2> QED
    BY <1>2, <1>1, <2>1 DEF TypeInv, TypeOK
<1>4. SentNow' = [SentNow EXCEPT ![e] = Append(@, n)] /\ ReceivedNow' = ReceivedNow
  BY <1>2, <1>3 DEF SentNow, ReceivedNow
<1> QED
  BY <1>4 DEF Channel!Transmit, SentNow, ReceivedNow, SizesOf

\* icom_recv returns the next message the peer has sent.
LEMMA ChannelDeliver ==
  ASSUME TypeInv, FramingInv, Compatible, NEW e \in End, DataReceived(e)
  PROVE  Channel!Deliver(e)
<1>1. PICK s \in End : s = Peer(e)
  BY PeerType
<1>2. PICK k \in Nat : k = Len(got[e]) + 1
  BY TypeFacts
<1>3. /\ k \in 1..Len(msgs[s]) /\ msgs' = msgs
      /\ got' = [got EXCEPT ![e] = Append(@, Returned(e, k))]
  BY <1>1, <1>2, NextDelivered DEF DataReceived
<1>4. Returned(e, k) \in Result /\ Returned(e, k).size = msgs[s][k].size
  <2>1. SendSize(msgs[s][k]) \in Nat /\ msgs[s][k] \in Message
    BY <1>3, FrameFacts, TypeFacts, ElementOfSeq
  <2> QED
    BY <1>1, <2>1 DEF Returned, Result, Message
<1>5. PICK x \in Result : x = Returned(e, k)
  BY <1>4
<1>6. \A d \in End : SizesOf(got'[d]) = IF d = e THEN Append(SizesOf(got[e]), msgs[s][k].size)
                                        ELSE SizesOf(got[d])
  <2>1. SizesOf(Append(got[e], x)) = Append(SizesOf(got[e]), x.size)
    BY TypeFacts, SizesOfAppend
  <2> QED
    BY <1>3, <1>4, <1>5, <2>1 DEF TypeInv, TypeOK
<1>7. /\ Len(SizesOf(got[e])) = k - 1 /\ Len(SizesOf(msgs[s])) = Len(msgs[s])
      /\ SizesOf(msgs[s])[k] = msgs[s][k].size
  BY <1>3, <1>2, TypeFacts, SizesLen
<1>8. /\ ReceivedNow' = [ReceivedNow EXCEPT ![e] = Append(@, SentNow[Peer(e)][Len(@) + 1])]
      /\ SentNow' = SentNow /\ Len(ReceivedNow[e]) < Len(SentNow[Peer(e)])
  <2>1. /\ SentNow[s] = SizesOf(msgs[s]) /\ ReceivedNow[e] = SizesOf(got[e])
        /\ Len(ReceivedNow[e]) + 1 = k
    BY <1>7, <1>2 DEF SentNow, ReceivedNow
  <2>2. Append(ReceivedNow[e], SentNow[s][Len(ReceivedNow[e]) + 1])
          = Append(SizesOf(got[e]), msgs[s][k].size)
    BY <1>7, <2>1
  <2>3. ReceivedNow' = [ReceivedNow EXCEPT ![e] = Append(SizesOf(got[e]), msgs[s][k].size)]
    BY <1>6 DEF ReceivedNow
  <2>4. SentNow' = SentNow
    BY <1>3 DEF SentNow
  <2>5. Len(ReceivedNow[e]) < Len(SentNow[s])
    BY <1>3, <1>7, <1>2, <2>1, TypeFacts
  <2> QED
    BY <1>1, <2>2, <2>3, <2>4, <2>5
<1> QED
  BY <1>8 DEF Channel!Deliver, SentNow, ReceivedNow, SizesOf

\* No other step hands over a message or returns one.
LEMMA ChannelStutter ==
  ASSUME NEW e \in End, Progress(e) \/ Call(e), ~DataReceived(e),
         ~\E n \in Sizes : Send(e, n)
  PROVE  UNCHANGED <<msgs, got>>
<1>1. CASE Progress(e)
  BY <1>1 DEF Progress, Works, Push, Pull, HeaderSent, DataSent, Accept, HeaderReceived,
              AckSent, AckReceived, SendTimesOut, RecvTimesOut, AcceptTimesOut, PeerClosed,
              RecvReset, SendToClosed, SendReset, hist
<1>2. CASE Call(e)
  BY <1>2 DEF Call, InitSocket, Deinit, Recv, NotifySend, NotifyRecv, hist
<1> QED
  BY <1>1, <1>2

LEMMA ChannelStep ==
  ASSUME Compatible, TypeInv, FramingInv, [Next]_vars
  PROVE  [Channel!ChanNext]_(Channel!chanVars)
<1>1. ASSUME UNCHANGED <<msgs, got>>
      PROVE  UNCHANGED Channel!chanVars
  BY <1>1 DEF Channel!chanVars
<1>2. CASE UNCHANGED vars
  BY <1>1, <1>2 DEF vars, hist
<1>3. ASSUME NEW e \in End, Progress(e) \/ Call(e)
      PROVE  [Channel!ChanNext]_(Channel!chanVars)
  <2>1. CASE DataReceived(e)
    BY <2>1, ChannelDeliver DEF Channel!ChanNext
  <2>2. ASSUME NEW n \in Sizes, Send(e, n)
        PROVE  [Channel!ChanNext]_(Channel!chanVars)
    <3>1. CASE msgs' # msgs
      BY <2>2, <3>1, ChannelTransmit DEF Channel!ChanNext
    <3>2. CASE msgs' = msgs
      BY <1>1, <2>2, <3>2 DEF Send, hist
    <3> QED
      BY <3>1, <3>2
  <2> QED
    BY <1>1, <1>3, <2>1, <2>2, ChannelStutter
<1> QED
  BY <1>2, <1>3 DEF Next

\* A link is a channel: what the two applications see of all handlers of
\* link_socket.c together is that messages are handed over and come out at the
\* other end once, whole and in order (the safety part of IsAChannel).
THEOREM ChannelCorrect ==
  ASSUME Compatible
  PROVE  TimelySpec => Channel!ChanSpec
<1>1. Init => TypeInv /\ FramingInv /\ Channel!ChanInit
  BY TypeInit, FramingInit, ChannelInit
<1>2. TypeInv /\ FramingInv /\ [TimelyNext]_vars
        => (TypeInv /\ FramingInv)' /\ [Channel!ChanNext]_(Channel!chanVars)
  BY TimelyStep, TypeStep, FramingStep, ChannelStep
<1> QED
  BY <1>1, <1>2, PTL DEF TimelySpec, Channel!ChanSpec
=============================================================================
