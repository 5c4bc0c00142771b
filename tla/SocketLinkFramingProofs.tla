----------------------- MODULE SocketLinkFramingProofs -----------------------
(* FramingInv is an invariant of SocketLink, and with it Delivery.          *)
EXTENDS SocketLinkFraming, SocketLinkProofs

\* The step is no timeout inside a message.
Timely ==
  \A e \in End :
    /\ ~SendTimesOut(e)
    /\ RecvTimesOut(e) => done[e] = 0 /\ pc[e] # "recvData"

Framed(s) == Contiguous(s) /\ UpToSender(s) /\ InMessage(s)

LEMMA TypeFacts ==
  ASSUME TypeInv, NEW e \in End
  PROVE  /\ Peer(e) \in End /\ Peer(e) # e /\ Peer(Peer(e)) = e
         /\ done[e] \in Nat /\ frame[e] \in Nat
         /\ msgs[e] \in Seq(Message) /\ Len(msgs[e]) \in Nat
         /\ got[e] \in Seq(Result) /\ Len(got[e]) \in Nat
         /\ wire[e] \in Seq(Unit) /\ Len(wire[e]) \in Nat
         /\ HeaderLen \in Nat \ {0}
         /\ pc[e] \in {"sendHeader", "sendData"} => Len(msgs[e]) > 0
<1>1. /\ msgs[e] \in Seq(Message) /\ got[e] \in Seq(Result) /\ wire[e] \in Seq(Unit)
      /\ done[e] \in Nat /\ frame[e] \in Nat
  BY DEF TypeInv, TypeOK
<1>2. Len(msgs[e]) \in Nat /\ Len(got[e]) \in Nat /\ Len(wire[e]) \in Nat
  BY <1>1, LenProperties
<1>3. pc[e] \in {"sendHeader", "sendData"} => Len(msgs[e]) > 0
  BY <1>1, <1>2, EmptySeq DEF TypeInv, SendingHasMsg
<1> QED
  BY <1>1, <1>2, <1>3, PeerType, LinkAssumption

LEMMA FrameFacts ==
  ASSUME TypeInv, NEW s \in End, NEW k \in 1..Len(msgs[s])
  PROVE  /\ SendSize(msgs[s][k]) \in Nat
         /\ FrameLen(s, k) \in Nat /\ FrameLen(s, k) = HeaderLen + SendSize(msgs[s][k])
         /\ FrameLen(s, k) >= HeaderLen
<1>1. msgs[s][k] \in Message
  BY TypeFacts, ElementOfSeq
<1>2. SendSize(msgs[s][k]) \in Nat
  BY <1>1, LinkAssumption DEF Message, SendSize
<1> QED
  BY <1>2, LinkAssumption DEF FrameLen

LEMMA UnitFacts ==
  ASSUME TypeInv, NEW s \in End, Contiguous(s), NEW i \in 1..Len(wire[s])
  PROVE  /\ wire[s][i].kind = "frame"
         /\ wire[s][i].id \in 1..Len(msgs[s])
         /\ wire[s][i].off \in 1..FrameLen(s, wire[s][i].id)
         /\ <<wire[s][i].id - 1, wire[s][i].off - 1>> = WireAt(s, i - 1)
  BY DEF Contiguous, WireIds, TypeInv

\* A step that leaves the wire of s alone and moves neither end's position in
\* the stream (or finds it broken off) keeps the stream in step.
LEMMA Keep ==
  ASSUME TypeInv, TypeInv', NEW s \in End, Contiguous(s), UpToSender(s),
         wire'[s] = wire[s],
         \A k \in 1..Len(msgs[s]) : msgs'[s][k] = msgs[s][k],
         wire[s] = <<>> \/ ReceiverAt(s)' = ReceiverAt(s),
         sock'[s] \in {"open", "closed"} /\ sock'[Peer(s)] = "open" =>
           /\ sock[s] \in {"open", "closed"} /\ sock[Peer(s)] = "open"
           /\ SenderAt(s)' = SenderAt(s) /\ ReceiverAt(s)' = ReceiverAt(s)
  PROVE  Contiguous(s)' /\ UpToSender(s)'
<1>1. ASSUME NEW i \in 1..Len(wire[s])
      PROVE  /\ wire'[s][i] = wire[s][i]
             /\ FrameLen(s, wire[s][i].id)' = FrameLen(s, wire[s][i].id)
             /\ BehindUnit(s, wire[s][i])' = BehindUnit(s, wire[s][i])
  BY <1>1, UnitFacts DEF FrameLen, BehindUnit
<1>2. \A i \in 1..Len(wire[s]) : WireAt(s, i)' = WireAt(s, i)
  BY <1>1, TypeFacts DEF WireAt
<1>3. wire[s] # <<>> => WireAt(s, 0)' = WireAt(s, 0)
  BY DEF WireAt
<1>4. Contiguous(s)'
  <2> SUFFICES ASSUME NEW i \in 1..Len(wire[s])
               PROVE  /\ wire[s][i].kind = "frame"
                      /\ wire[s][i].off \in 1..FrameLen(s, wire[s][i].id)'
                      /\ <<wire[s][i].id - 1, wire[s][i].off - 1>> = WireAt(s, i - 1)'
    BY DEF Contiguous
  <2>1. wire[s] # <<>>
    BY TypeFacts, EmptySeq
  <2>2. i - 1 = 0 \/ i - 1 \in 1..Len(wire[s])
    BY TypeFacts
  <2>3. WireAt(s, i - 1)' = WireAt(s, i - 1)
    BY <1>2, <1>3, <2>1, <2>2
  <2> QED
    BY <1>1, <2>3, UnitFacts
<1>5. UpToSender(s)'
  <2> SUFFICES ASSUME sock'[s] \in {"open", "closed"}, sock'[Peer(s)] = "open"
               PROVE  SenderAt(s)' = WireAt(s, Len(wire[s]))'
    BY DEF UpToSender
  <2>1. SenderAt(s) = WireAt(s, Len(wire[s]))
    BY DEF UpToSender
  <2>2. WireAt(s, 0)' = WireAt(s, 0)
    BY DEF WireAt
  <2>3. Len(wire[s]) = 0 \/ Len(wire[s]) \in 1..Len(wire[s])
    BY TypeFacts
  <2> QED
    BY <1>2, <2>1, <2>2, <2>3
<1> QED
  BY <1>4, <1>5

\* A frame direction never carries acknowledgements.
LEMMA NoAcks ==
  ASSUME FramingInv, Compatible, NEW s \in End, FrameDir(s)
  PROVE  /\ pc[s] \notin {"sendAck", "notifySend"}
         /\ pc[Peer(s)] \notin {"recvAck", "notifyRecv"}
  BY PeerType DEF FramingInv, Compatible, FrameDir, Roles, Role, End

LEMMA OnlyFrameDir ==
  ASSUME FramingInv, Compatible, NEW e \in End
  PROVE  /\ pc[e] \in {"sendHeader", "sendData"} => FrameDir(e)
         /\ pc[e] \in {"recvHeader", "recvData"} => FrameDir(Peer(e))
  BY DEF FramingInv, Compatible, FrameDir, Roles, Role, End, SendHandlerSet, RecvHandlerSet, Peer

\* No empty message is announced in zero-copy mode.
LEMMA NoEmptyZero ==
  ASSUME Compatible, NEW s \in End, FrameDir(s)
  PROVE  Zero[s] => 0 \notin Sizes
  BY DEF Compatible, End, FrameDir

\* Push extends the wire where the sender stands.
LEMMA FramedPush ==
  ASSUME TypeInv, TypeInv', FramingInv, Compatible, NEW e \in End, Push(e),
         NEW s \in End, FrameDir(s)
  PROVE  Framed(s)'
<1>1. PICK u : u = OutUnit(e)
  OBVIOUS
<1>2. PICK n : n = Len(msgs[e])
  OBVIOUS
<1>3. /\ UNCHANGED <<pc, msgs, got, frame, sock, recvBufSize, recvSize>>
      /\ wire' = [wire EXCEPT ![e] = Append(@, u)]
      /\ done' = [done EXCEPT ![e] = @ + 1]
  BY <1>1 DEF Push, link, hist
<1>4. pc[e] \in Sending /\ done[e] < OutLen(e) /\ sock[Peer(e)] = "open" /\ sock[e] = "open"
  BY DEF Push, FramingInv, Roles, Role, Sending
<1>5. Contiguous(s) /\ UpToSender(s) /\ InMessage(s)
  BY DEF FramingInv
<1>6. CASE s = e
  <2>1. pc[e] \in {"sendHeader", "sendData"}
    BY <1>4, <1>6, NoAcks DEF Sending
  <2>2. n \in Nat /\ n > 0 /\ n \in 1..n
    BY <2>1, <1>2, TypeFacts
  <2>3. PICK o : o = IF pc[e] = "sendData" THEN HeaderLen + done[e] ELSE done[e]
    OBVIOUS
  <2>4. u = [kind |-> "frame", id |-> n, off |-> o + 1]
    BY <2>1, <2>3, <1>1, <1>2, TypeFacts DEF OutUnit
  <2>5. /\ OutMsg(e) = msgs[e][n] /\ SendSize(OutMsg(e)) \in Nat
        /\ FrameLen(e, n) = HeaderLen + SendSize(OutMsg(e))
        /\ FrameLen(e, n) \in Nat /\ FrameLen(e, n) >= HeaderLen
    BY <1>2, <2>2, FrameFacts DEF OutMsg
  <2>6. o \in Nat /\ o < FrameLen(e, n)
    BY <1>4, <2>3, <2>5, <2>1, TypeFacts DEF OutLen
  <2>7. SenderAt(e) = <<n - 1, o>>
    BY <1>2, <2>3, <2>1, <2>6, TypeFacts DEF SenderAt, At
  <2>8. SenderAt(e)' = BehindUnit(e, u)
    <3>1. FrameLen(e, n)' = FrameLen(e, n)
      BY <1>3 DEF FrameLen
    <3>2. done'[e] = done[e] + 1 /\ msgs'[e] = msgs[e] /\ pc'[e] = pc[e]
      BY <1>3, <1>6 DEF TypeInv, TypeOK
    <3> QED
      BY <1>2, <2>3, <2>1, <2>4, <3>1, <3>2, TypeFacts DEF SenderAt, BehindUnit
  <2>9. /\ wire'[e] \in Seq(Unit) /\ Len(wire'[e]) = Len(wire[e]) + 1
        /\ wire'[e][Len(wire[e]) + 1] = u
        /\ \A i \in 1..Len(wire[e]) : wire'[e][i] = wire[e][i]
    <3>1. wire'[e] = Append(wire[e], u)
      BY <1>3 DEF TypeInv, TypeOK
    <3>2. u \in Unit
      BY <1>1, Lengths
    <3> QED
      BY <3>1, <3>2, TypeFacts
  <2>10. ReceiverAt(e)' = ReceiverAt(e)
    <3>1. done'[Peer(e)] = done[Peer(e)]
      BY <1>3, PeerType DEF TypeInv, TypeOK
    <3> QED
      BY <1>3, <3>1 DEF ReceiverAt, FrameLen
  <2>11. \A i \in 0..Len(wire[e]) : WireAt(e, i)' = WireAt(e, i)
    BY <1>3, <2>9, <2>10, TypeFacts DEF WireAt, BehindUnit, FrameLen
  <2>12. Contiguous(e)'
    <3> SUFFICES ASSUME NEW i \in 1..Len(wire[e]) + 1
                 PROVE  /\ wire'[e][i].kind = "frame"
                        /\ wire'[e][i].off \in 1..FrameLen(e, wire[e][i].id)'
                        /\ <<wire'[e][i].id - 1, wire'[e][i].off - 1>> = WireAt(e, i - 1)'
      BY <2>9 DEF Contiguous
    <3>1. i - 1 \in 0..Len(wire[e])
      BY TypeFacts
    <3>2. CASE i = Len(wire[e]) + 1
      <4>1. WireAt(e, i - 1)' = SenderAt(e)
        BY <3>1, <3>2, <2>11, <1>4, <1>5, <1>6, TypeFacts DEF UpToSender
      <4>2. wire'[e][i] = u
        BY <3>2, <2>9
      <4>3. FrameLen(e, u.id)' = FrameLen(e, n) /\ FrameLen(e, n) \in Nat
        BY <1>3, <2>4, <2>5 DEF FrameLen
      <4> QED
        BY <4>1, <4>2, <4>3, <2>2, <2>4, <2>6, <2>7
    <3>3. CASE i # Len(wire[e]) + 1
      <4>1. i \in 1..Len(wire[e])
        BY <3>3, TypeFacts
      <4>2. FrameLen(e, wire[e][i].id)' = FrameLen(e, wire[e][i].id)
        BY <1>3, <2>9, <4>1 DEF FrameLen
      <4> QED
        BY <4>1, <4>2, <3>1, <2>9, <2>11, <1>5, <1>6, UnitFacts
    <3> QED
      BY <3>2, <3>3
  <2>13. UpToSender(e)'
    <3>1. WireAt(e, Len(wire[e]))' = BehindUnit(e, u)'
      BY <2>9, TypeFacts DEF WireAt
    <3>2. BehindUnit(e, u)' = BehindUnit(e, u)
      BY <1>3, <2>4 DEF BehindUnit, FrameLen, OutUnit
    <3> QED
      BY <2>8, <2>9, <3>1, <3>2 DEF UpToSender
  <2>14. InMessage(e)'
    <3>1. done'[e] = done[e] + 1 /\ done'[Peer(e)] = done[Peer(e)]
      BY <1>3, PeerType DEF TypeInv, TypeOK
    <3>2. pc[e] = "sendHeader" => done'[e] <= HeaderLen
      BY <3>1, <1>4, TypeFacts DEF OutLen
    <3>3. pc[e] = "sendData" => done'[e] <= SendSize(OutMsg(e))
      BY <3>1, <1>4, <2>5, TypeFacts DEF OutLen
    <3> QED
      BY <1>3, <1>5, <1>6, <3>1, <3>2, <3>3 DEF InMessage, OutMsg
  <2> QED
    BY <1>6, <2>12, <2>13, <2>14 DEF Framed
<1>7. CASE s # e
  <2>1. Peer(s) = e
    BY <1>7 DEF End, Peer
  <2>2. wire'[s] = wire[s] /\ done'[s] = done[s]
    BY <1>3, <1>7 DEF TypeInv, TypeOK
  <2>3. ReceiverAt(s)' = ReceiverAt(s)
    BY <1>3, <1>4, <2>1 DEF ReceiverAt, Sending
  <2>4. SenderAt(s)' = SenderAt(s)
    BY <1>3, <2>2 DEF SenderAt, FrameLen
  <2>5. Contiguous(s)' /\ UpToSender(s)'
    BY <1>3, <1>5, <2>2, <2>3, <2>4, Keep
  <2>6. InMessage(s)'
    BY <1>3, <1>4, <1>5, <2>1, <2>2 DEF InMessage, OutMsg, Sending
  <2> QED
    BY <2>5, <2>6 DEF Framed
<1> QED
  BY <1>6, <1>7

\* Pull takes the unit the receiver stands before.
LEMMA FramedPull ==
  ASSUME TypeInv, TypeInv', FramingInv, Compatible, NEW e \in End, Pull(e),
         NEW s \in End, FrameDir(s)
  PROVE  Framed(s)'
<1>1. /\ UNCHANGED <<pc, msgs, got, sock, recvBufSize, recvSize>>
      /\ wire' = [wire EXCEPT ![Peer(e)] = Tail(@)]
      /\ done' = [done EXCEPT ![e] = @ + 1]
      /\ wire[Peer(e)] # <<>>
      /\ pc[e] \in Receiving /\ done[e] < InLen(e)
  BY DEF Pull, link
<1>2. Contiguous(s) /\ UpToSender(s) /\ InMessage(s)
  BY DEF FramingInv
<1>3. CASE s = Peer(e)
  <2>1. s # e /\ e = Peer(s) /\ pc[e] \in {"recvHeader", "recvData"}
    BY <1>1, <1>3, NoAcks, PeerType DEF Receiving
  <2>2. PICK u : u = Head(wire[s])
    OBVIOUS
  <2>3. PICK g : g = Len(got[e])
    OBVIOUS
  <2>4. PICK o : o = IF pc[e] = "recvData" THEN HeaderLen + done[e] ELSE done[e]
    OBVIOUS
  <2>5. /\ u = wire[s][1] /\ Len(wire[s]) \in Nat /\ Len(wire[s]) > 0
        /\ wire'[s] \in Seq(Unit) /\ Len(wire'[s]) = Len(wire[s]) - 1
        /\ \A i \in 1..Len(wire'[s]) : wire'[s][i] = wire[s][i + 1]
    <3>1. wire[s] \in Seq(Unit) /\ wire[s] # <<>>
      BY <1>1, <1>3, TypeFacts
    <3>2. wire'[s] = Tail(wire[s])
      BY <1>1, <1>3 DEF TypeInv, TypeOK
    <3> QED
      BY <2>2, <3>1, <3>2, HeadTailProperties, LenProperties, EmptySeq
  <2>6. /\ u.kind = "frame" /\ u.id \in 1..Len(msgs[s]) /\ u.off \in 1..FrameLen(s, u.id)
        /\ <<u.id - 1, u.off - 1>> = ReceiverAt(s)
    <3>1. 1 \in 1..Len(wire[s])
      BY <2>5
    <3>2. WireAt(s, 1 - 1) = ReceiverAt(s)
      BY DEF WireAt
    <3> QED
      BY <1>2, <2>5, <3>1, <3>2, UnitFacts
  <2>7. g \in Nat /\ done[e] \in Nat /\ HeaderLen \in Nat /\ HeaderLen > 0 /\ o \in Nat
    BY <2>3, <2>4, TypeFacts
  <2>8. ReceiverAt(s) = <<g, o>>
    <3>1. CASE pc[e] = "recvHeader" /\ done[e] = 0
      BY <2>1, <2>7, <2>3, <2>4, <3>1 DEF ReceiverAt, At
    <3>2. CASE pc[e] = "recvHeader" /\ done[e] > 0
      <4>1. g + 1 \in 1..Len(msgs[s])
        BY <1>2, <2>1, <2>3, <3>2 DEF InMessage
      <4>2. FrameLen(s, g + 1) >= HeaderLen /\ FrameLen(s, g + 1) \in Nat
        BY <4>1, FrameFacts
      <4> QED
        BY <1>1, <2>1, <2>7, <2>3, <2>4, <3>2, <4>2 DEF ReceiverAt, At, InLen
    <3>3. CASE pc[e] = "recvData"
      <4>1. g + 1 \in 1..Len(msgs[s]) /\ recvSize[e] = SendSize(msgs[s][g + 1])
        BY <1>2, <2>1, <2>3, <3>3 DEF InMessage
      <4>2. FrameLen(s, g + 1) = HeaderLen + recvSize[e] /\ recvSize[e] \in Nat
        BY <4>1, FrameFacts
      <4> QED
        BY <1>1, <2>1, <2>7, <2>3, <2>4, <3>3, <4>2 DEF ReceiverAt, At, InLen
    <3> QED
      BY <2>1, <2>7, <3>1, <3>2, <3>3
  <2>9. u.id = g + 1 /\ u.off = o + 1 /\ u.id \in Nat /\ u.off \in Nat
    <3>1. u.id \in Nat /\ u.off \in Nat
      <4>1. Len(msgs[s]) \in Nat /\ FrameLen(s, u.id) \in Nat
        BY <2>6, TypeFacts, FrameFacts
      <4> QED
        BY <2>6, <4>1
    <3> QED
      BY <2>6, <2>7, <2>8, <3>1
  <2>10. frame' = [frame EXCEPT ![e] = g + 1]
    <3>1. u.off = 1 \/ frame[e] = g + 1
      BY <1>2, <2>1, <2>7, <2>9, <2>3, <2>4 DEF InMessage
    <3>2. Continues(e, u)
      <4>1. CASE pc[e] = "recvHeader"
        BY <4>1, <2>6, <2>7, <2>9, <2>4, <3>1 DEF Continues
      <4>2. CASE pc[e] = "recvData"
        BY <4>2, <2>6, <2>7, <2>9, <2>4, <3>1 DEF Continues
      <4> QED
        BY <2>1, <4>1, <4>2
    <3> QED
      BY <1>3, <2>9, <2>2, <3>2 DEF Pull
  <2>11. /\ done'[e] = done[e] + 1 /\ frame'[e] = g + 1 /\ done'[s] = done[s]
         /\ pc'[e] = pc[e]
    BY <1>1, <2>1, <2>10 DEF TypeInv, TypeOK
  <2>12. \A k : FrameLen(s, k)' = FrameLen(s, k)
    BY <1>1 DEF FrameLen
  <2>13. ReceiverAt(s)' = BehindUnit(s, u)
    BY <1>1, <2>1, <2>7, <2>9, <2>11, <2>12, <2>3, <2>4 DEF ReceiverAt, BehindUnit
  <2>14. ASSUME NEW i \in 0..Len(wire[s]) - 1
         PROVE  WireAt(s, i)' = WireAt(s, i + 1)
    <3>1. CASE i = 0
      BY <3>1, <2>5, <2>13 DEF WireAt
    <3>2. CASE i # 0
      BY <3>2, <2>5, <2>12 DEF WireAt, BehindUnit
    <3> QED
      BY <3>1, <3>2
  <2>15. Contiguous(s)'
    <3> SUFFICES ASSUME NEW i \in 1..Len(wire'[s])
                 PROVE  /\ wire'[s][i].kind = "frame"
                        /\ wire'[s][i].off \in 1..FrameLen(s, wire[s][i].id)'
                        /\ <<wire'[s][i].id - 1, wire'[s][i].off - 1>> = WireAt(s, i - 1)'
      BY DEF Contiguous
    <3>1. /\ i + 1 \in 1..Len(wire[s]) /\ i - 1 \in 0..Len(wire[s]) - 1
          /\ (i - 1) + 1 = i /\ (i + 1) - 1 = i
      BY <2>5
    <3>2. WireAt(s, i - 1)' = WireAt(s, i)
      BY <3>1, <2>14
    <3>3. wire'[s][i] = wire[s][i + 1]
      BY <2>5
    <3>4. FrameLen(s, wire[s][i].id)' = FrameLen(s, wire[s][i + 1].id)
      BY <1>1, <3>3 DEF FrameLen
    <3>5. /\ wire[s][i + 1].kind = "frame"
          /\ wire[s][i + 1].off \in 1..FrameLen(s, wire[s][i + 1].id)
          /\ <<wire[s][i + 1].id - 1, wire[s][i + 1].off - 1>> = WireAt(s, i)
      BY <1>2, <3>1, UnitFacts
    <3> QED
      BY <3>2, <3>3, <3>4, <3>5
  <2>16. UpToSender(s)'
    <3>1. SenderAt(s)' = SenderAt(s)
      BY <1>1, <2>11 DEF SenderAt, FrameLen
    <3>2. Len(wire[s]) - 1 \in 0..Len(wire[s]) - 1
      BY <2>5
    <3>3. WireAt(s, Len(wire[s]))' = WireAt(s, Len(wire[s]))
      <4>1. PICK n : n = Len(wire[s]) - 1
        OBVIOUS
      <4>2. WireAt(s, n)' = WireAt(s, n + 1)
        BY <2>14, <3>2, <4>1
      <4>3. n + 1 = Len(wire[s]) /\ Len(wire'[s]) = n
        BY <2>5, <4>1
      <4> QED
        BY <4>2, <4>3
    <3> QED
      BY <1>1, <1>2, <3>1, <3>3 DEF UpToSender
  <2>17. InMessage(s)'
    <3>1. pc[e] = "recvHeader" => done'[e] <= HeaderLen
      BY <1>1, <2>7, <2>11 DEF InLen
    <3>2. pc[e] = "recvData" => done'[e] <= recvSize[e]
      <4>1. pc[e] = "recvData" => recvSize[e] \in Nat
        BY <1>2, <2>1, FrameFacts DEF InMessage
      <4> QED
        BY <1>1, <2>7, <2>11, <4>1 DEF InLen
    <3>3. frame'[e] \in 1..Len(msgs[s])
      BY <2>6, <2>9, <2>11
    <3>4. pc[e] = "recvData" => frame[e] = g + 1
      BY <1>2, <2>1, <2>3 DEF InMessage
    <3> QED
      BY <1>1, <1>2, <2>1, <2>11, <2>3, <3>1, <3>2, <3>3, <3>4 DEF InMessage, OutMsg
  <2> QED
    BY <2>15, <2>16, <2>17 DEF Framed
<1>4. CASE s # Peer(e)
  <2>1. s = e
    BY <1>4 DEF End, Peer
  <2>2. wire'[s] = wire[s] /\ done'[Peer(s)] = done[Peer(s)] /\ frame'[Peer(s)] = frame[Peer(s)]
    BY <1>1, <2>1, PeerType DEF Pull, TypeInv, TypeOK
  <2>3. SenderAt(s)' = SenderAt(s)
    BY <1>1, <2>1 DEF SenderAt, Receiving
  <2>4. ReceiverAt(s)' = ReceiverAt(s)
    BY <1>1, <2>2 DEF ReceiverAt, FrameLen
  <2>5. Contiguous(s)' /\ UpToSender(s)'
    BY <1>1, <1>2, <2>2, <2>3, <2>4, Keep
  <2>6. InMessage(s)'
    BY <1>1, <1>2, <2>1, <2>2 DEF InMessage, OutMsg, Receiving
  <2> QED
    BY <2>5, <2>6 DEF Framed
<1> QED
  BY <1>3, <1>4

(***************************************************************************)
(* Steps of one thread that leave the wires and the sockets alone.         *)
(***************************************************************************)
SendPart(s) ==
  /\ pc[s] = "sendHeader" => done[s] <= HeaderLen
  /\ pc[s] = "sendData" => done[s] <= SendSize(OutMsg(s))

RecvPart(s) ==
  LET r == Peer(s)
  IN  /\ pc[r] = "recvHeader" /\ done[r] > 0 =>
           /\ done[r] <= HeaderLen
           /\ frame[r] = Len(got[r]) + 1
           /\ frame[r] \in 1..Len(msgs[s])
      /\ pc[r] = "recvData" =>
           /\ frame[r] = Len(got[r]) + 1
           /\ frame[r] \in 1..Len(msgs[s])
           /\ recvBufSize[r] = msgs[s][frame[r]].size
           /\ recvSize[r] = SendSize(msgs[s][frame[r]])
           /\ done[r] <= recvSize[r]

PeerKept(e) ==
  LET d == Peer(e)
  IN  /\ pc'[d] = pc[d] /\ done'[d] = done[d]
      /\ got'[d] = got[d] /\ frame'[d] = frame[d]
      /\ recvBufSize'[d] = recvBufSize[d] /\ recvSize'[d] = recvSize[d]

LEMMA FramedMove ==
  ASSUME TypeInv, TypeInv', FramingInv, NEW e \in End,
         UNCHANGED <<wire, msgs, sock>>, PeerKept(e),
         FrameDir(e) => SenderAt(e)' = SenderAt(e) /\ SendPart(e)',
         FrameDir(Peer(e)) =>
           ReceiverAt(Peer(e))' = ReceiverAt(Peer(e)) /\ RecvPart(Peer(e))'
  PROVE  \A s \in End : FrameDir(s) => Framed(s)'
<1> SUFFICES ASSUME NEW s \in End, FrameDir(s) PROVE Framed(s)'
  OBVIOUS
<1>1. Contiguous(s) /\ UpToSender(s) /\ InMessage(s)
  BY DEF FramingInv
<1>2. CASE s = e
  <2>1. ReceiverAt(e)' = ReceiverAt(e)
    BY DEF PeerKept, ReceiverAt, FrameLen
  <2>2. InMessage(e)'
    BY <1>1, <1>2 DEF PeerKept, InMessage, SendPart
  <2> QED
    BY <1>1, <1>2, <2>1, <2>2, Keep DEF Framed
<1>3. CASE s = Peer(e)
  <2>0. Peer(s) = e
    BY <1>3, PeerType
  <2>1. pc'[s] = pc[s] /\ done'[s] = done[s]
    BY <1>3 DEF PeerKept
  <2>2. SenderAt(s)' = SenderAt(s)
    BY <2>1 DEF SenderAt, FrameLen
  <2>3. InMessage(s)'
    BY <1>1, <1>3, <2>0, <2>1 DEF InMessage, RecvPart, OutMsg
  <2> QED
    BY <1>1, <1>3, <2>2, <2>3, Keep DEF Framed
<1> QED
  BY <1>2, <1>3 DEF End, Peer

\* The thread is between messages before and after the step.
LEMMA FramedQuiet ==
  ASSUME TypeInv, TypeInv', FramingInv, NEW e \in End,
         UNCHANGED <<wire, msgs, sock, got>>, PeerKept(e),
         pc[e] \notin {"sendHeader", "sendData", "recvData"},
         pc[e] = "recvHeader" => done[e] = 0,
         pc'[e] \notin {"sendHeader", "sendData", "recvData"},
         pc'[e] = "recvHeader" => done'[e] = 0
  PROVE  \A s \in End : FrameDir(s) => Framed(s)'
<1>1. SenderAt(e)' = SenderAt(e) /\ SendPart(e)'
  BY DEF SenderAt, SendPart
<1>2. Peer(Peer(e)) = e
  BY PeerType
<1>3. ReceiverAt(Peer(e)) = <<Len(got[e]), 0>>
  BY <1>2 DEF ReceiverAt, At
<1>4. ReceiverAt(Peer(e))' = <<Len(got[e]), 0>>
  BY <1>2 DEF ReceiverAt, At
<1>5. RecvPart(Peer(e))'
  BY <1>2 DEF RecvPart
<1> QED
  BY <1>1, <1>3, <1>4, <1>5, FramedMove

LEMMA FramedHeaderSent ==
  ASSUME TypeInv, TypeInv', FramingInv, NEW e \in End, HeaderSent(e)
  PROVE  \A s \in End : FrameDir(s) => Framed(s)'
<1>1. /\ pc[e] = "sendHeader" /\ done[e] = HeaderLen
      /\ pc'[e] = "sendData" /\ done'[e] = 0
      /\ UNCHANGED <<wire, msgs, sock, got, frame, recvBufSize, recvSize>> /\ PeerKept(e)
  BY PeerType DEF HeaderSent, OutLen, Enter, PeerKept, tcp, link, hist, TypeInv, TypeOK
<1>2. Len(msgs[e]) \in 1..Len(msgs[e])
  BY <1>1, TypeFacts
<1>3. SenderAt(e)' = SenderAt(e)
  BY <1>1, TypeFacts DEF SenderAt, FrameLen
<1>4. SendPart(e)'
  BY <1>1, <1>2, FrameFacts DEF SendPart, OutMsg
<1>5. Peer(Peer(e)) = e
  BY PeerType
<1>6. ReceiverAt(Peer(e))' = ReceiverAt(Peer(e)) /\ RecvPart(Peer(e))'
  BY <1>1, <1>5 DEF ReceiverAt, RecvPart
<1> QED
  BY <1>1, <1>3, <1>4, <1>6, FramedMove

LEMMA FramedDataSent ==
  ASSUME TypeInv, TypeInv', FramingInv, NEW e \in End, DataSent(e)
  PROVE  \A s \in End : FrameDir(s) => Framed(s)'
<1>1. /\ pc[e] = "sendData" /\ done[e] = SendSize(OutMsg(e))
      /\ pc'[e] \in {"recvAck", "idle"}
      /\ UNCHANGED <<wire, msgs, sock, got, frame, recvBufSize, recvSize>> /\ PeerKept(e)
  BY PeerType DEF DataSent, OutLen, Enter, Return, PeerKept, tcp, link, hist, TypeInv, TypeOK
<1>2. Len(msgs[e]) \in 1..Len(msgs[e]) /\ Len(msgs[e]) \in Nat
  BY <1>1, TypeFacts
<1>3. SenderAt(e) = <<Len(msgs[e]), 0>>
  <2>1. /\ FrameLen(e, Len(msgs[e])) = HeaderLen + done[e]
        /\ HeaderLen + done[e] \in Nat /\ HeaderLen + done[e] > 0
    <3>1. /\ SendSize(msgs[e][Len(msgs[e])]) \in Nat
          /\ FrameLen(e, Len(msgs[e])) = HeaderLen + SendSize(msgs[e][Len(msgs[e])])
      BY <1>2, FrameFacts
    <3>2. done[e] = SendSize(msgs[e][Len(msgs[e])])
      BY <1>1 DEF OutMsg
    <3> QED
      BY <3>1, <3>2, LinkAssumption
  <2> QED
    BY <1>1, <1>2, <2>1 DEF SenderAt, At
<1>4. SenderAt(e)' = SenderAt(e) /\ SendPart(e)'
  BY <1>1, <1>3 DEF SenderAt, SendPart
<1>5. Peer(Peer(e)) = e
  BY PeerType
<1>6. ReceiverAt(Peer(e))' = ReceiverAt(Peer(e)) /\ RecvPart(Peer(e))'
  BY <1>1, <1>5 DEF ReceiverAt, RecvPart
<1> QED
  BY <1>1, <1>4, <1>6, FramedMove

\* link_recvHeader has read the header of the next message.
LEMMA NextHeader ==
  ASSUME TypeInv, FramingInv, Compatible, NEW e \in End, HeaderReceived(e)
  PROVE  /\ FrameDir(Peer(e))
         /\ frame[e] = Len(got[e]) + 1 /\ frame[e] \in 1..Len(msgs[Peer(e)])
         /\ \E m \in Message :
              /\ m = msgs[Peer(e)][frame[e]] /\ m.zero = Zero[Peer(e)]
              /\ IF recvBufSize[e] # m.size
                 THEN /\ recvBufSize' = [recvBufSize EXCEPT ![e] = m.size]
                      /\ recvSize'    = [recvSize EXCEPT ![e] = RecvSize(m)]
                      /\ zero'        = [zero EXCEPT ![e] = m.zero]
                 ELSE UNCHANGED <<recvBufSize, recvSize, zero>>
<1> DEFINE s == Peer(e)
           k == frame[e]
<1>0. s \in End /\ Peer(s) = e /\ s # e
  BY PeerType
<1>1. pc[e] = "recvHeader" /\ done[e] = HeaderLen /\ done[e] > 0
  BY LinkAssumption DEF HeaderReceived, InLen
<1>2. FrameDir(s) /\ InMessage(s)
  BY <1>0, <1>1, OnlyFrameDir DEF FramingInv
<1>3. k = Len(got[e]) + 1 /\ k \in 1..Len(msgs[s]) /\ k # 0
  BY <1>0, <1>1, <1>2, TypeFacts DEF InMessage
<1>4. PICK m \in HeaderRead(e) :
        IF recvBufSize[e] # m.size
        THEN /\ recvBufSize' = [recvBufSize EXCEPT ![e] = m.size]
             /\ recvSize'    = [recvSize EXCEPT ![e] = RecvSize(m)]
             /\ zero'        = [zero EXCEPT ![e] = m.zero]
        ELSE UNCHANGED <<recvBufSize, recvSize, zero>>
  BY DEF HeaderReceived
<1>5. m = msgs[s][k]
  BY <1>3, <1>4 DEF HeaderRead
<1>6. m \in Message
  BY <1>0, <1>3, <1>5, TypeFacts, ElementOfSeq
<1>7. m.zero = Zero[s]
  BY <1>0, <1>2, <1>3, <1>5 DEF FramingInv, ZeroKept
<1> QED
  BY <1>2, <1>3, <1>4, <1>5, <1>6, <1>7

\* link_recvHeader leaves size, mode and buffer as the header says, changed or
\* not.
LEMMA FramedHeaderReceived ==
  ASSUME TypeInv, TypeInv', FramingInv, Compatible, NEW e \in End, HeaderReceived(e)
  PROVE  \A s \in End : FrameDir(s) => Framed(s)'
<1> DEFINE s == Peer(e)
           k == frame[e]
<1>0. s \in End /\ Peer(s) = e /\ s # e
  BY PeerType
<1>1. /\ pc[e] = "recvHeader" /\ done[e] = HeaderLen /\ done[e] > 0
      /\ pc'[e] = "recvData" /\ done'[e] = 0
      /\ UNCHANGED <<wire, msgs, sock, got, frame>>
  BY LinkAssumption DEF HeaderReceived, InLen, Enter, tcp, hist, TypeInv, TypeOK
<1>2. FrameDir(s)
  BY NextHeader
<1>3. k = Len(got[e]) + 1 /\ k \in 1..Len(msgs[s])
  BY NextHeader
<1>4. PICK m \in Message :
        /\ m = msgs[s][k] /\ m.zero = Zero[s]
        /\ IF recvBufSize[e] # m.size
           THEN /\ recvBufSize' = [recvBufSize EXCEPT ![e] = m.size]
                /\ recvSize'    = [recvSize EXCEPT ![e] = RecvSize(m)]
                /\ zero'        = [zero EXCEPT ![e] = m.zero]
           ELSE UNCHANGED <<recvBufSize, recvSize, zero>>
  BY NextHeader
<1>5. m = msgs[s][k]
  BY <1>4
<1>6. PeerKept(e)
  BY <1>0, <1>1, <1>4 DEF HeaderReceived, Enter, PeerKept, TypeInv, TypeOK
<1>7. m \in Message /\ m.zero = Zero[s]
  BY <1>4
<1>8. recvBufSize'[e] = m.size /\ recvSize'[e] = SendSize(m)
  <2>1. CASE recvBufSize[e] # m.size
    BY <1>4, <2>1 DEF RecvSize, SendSize, TypeInv, TypeOK
  <2>2. CASE recvBufSize[e] = m.size
    <3>1. m.size \in Sizes
      BY <1>7 DEF Message
    <3>2. ~(m.size = 0 /\ Zero[s])
      <4>1. Zero[s] => 0 \notin Sizes
        BY <1>0, <1>2, NoEmptyZero
      <4> QED
        BY <3>1, <4>1
    <3>3. \/ recvBufSize[e] = 0 /\ recvSize[e] = 0
          \/ recvSize[e] = IF Zero[s] THEN PtrLen ELSE recvBufSize[e]
      BY <1>0, <1>2 DEF FramingInv, BufferKept
    <3>4. recvSize[e] = SendSize(m)
      BY <2>2, <3>2, <3>3, <1>7 DEF SendSize
    <3> QED
      BY <1>4, <2>2, <3>4
  <2> QED
    BY <2>1, <2>2
<1>9. RecvPart(s)'
  <2>1. SendSize(m) \in Nat
    BY <1>0, <1>3, <1>5, FrameFacts
  <2> QED
    BY <1>0, <1>1, <1>3, <1>5, <1>8, <2>1 DEF RecvPart
<1>10. ReceiverAt(s)' = ReceiverAt(s)
  BY <1>0, <1>1, TypeFacts DEF ReceiverAt, FrameLen
<1>11. SenderAt(e)' = SenderAt(e) /\ SendPart(e)'
  BY <1>1 DEF SenderAt, SendPart
<1> QED
  BY <1>1, <1>6, <1>9, <1>10, <1>11, FramedMove

\* link_recvData returns exactly the message whose header was read.
LEMMA NextDelivered ==
  ASSUME TypeInv, FramingInv, Compatible, NEW e \in End, DataReceived(e)
  PROVE  /\ FrameDir(Peer(e))
         /\ frame[e] = Len(got[e]) + 1 /\ frame[e] \in 1..Len(msgs[Peer(e)])
         /\ done[e] = SendSize(msgs[Peer(e)][frame[e]])
         /\ got' = [got EXCEPT ![e] = Append(@, Returned(e, frame[e]))]
         /\ pc'[e] = "idle"
<1> DEFINE s == Peer(e)
           k == frame[e]
<1>1. s \in End /\ Peer(s) = e
  BY PeerType
<1>2. pc[e] = "recvData" /\ done[e] = recvSize[e] /\ sock[e] = "open"
  BY DEF DataReceived, InLen, FramingInv, Roles, Role
<1>3. FrameDir(s) /\ InMessage(s)
  BY <1>1, <1>2, OnlyFrameDir DEF FramingInv
<1>4. /\ k = Len(got[e]) + 1 /\ k \in 1..Len(msgs[s])
      /\ done[e] = SendSize(msgs[s][k]) /\ recvBufSize[e] = msgs[s][k].size
  BY <1>1, <1>2, <1>3 DEF InMessage
<1>5. msgs[s][k].zero = Zero[s]
  BY <1>1, <1>3, <1>4 DEF FramingInv, ZeroKept
<1>6. done[e] = recvBufSize[e] \/ zero[e] = msgs[s][k].zero
  BY <1>1, <1>2, <1>3, <1>5 DEF FramingInv, BufferKept
<1>7. ~(~zero[e] /\ done[e] # recvBufSize[e])
  BY <1>4, <1>6 DEF SendSize
<1>8. got' = [got EXCEPT ![e] = Append(@,
                [id   |-> frame[e],
                 size |-> IF zero[e] THEN recvBufSize[e] ELSE done[e],
                 len  |-> done[e]])]
  BY <1>7 DEF DataReceived
<1>9. (IF zero[e] THEN recvBufSize[e] ELSE done[e]) = msgs[s][k].size
  BY <1>4, <1>7
<1>10. [id   |-> frame[e],
        size |-> IF zero[e] THEN recvBufSize[e] ELSE done[e],
        len  |-> done[e]] = Returned(e, k)
  BY <1>4, <1>9 DEF Returned
<1>11. pc'[e] = "idle"
  BY DEF DataReceived, Return, TypeInv, TypeOK
<1> QED
  BY <1>3, <1>4, <1>8, <1>10, <1>11

LEMMA FramedDataReceived ==
  ASSUME TypeInv, TypeInv', FramingInv, Compatible, NEW e \in End, DataReceived(e)
  PROVE  \A s \in End : FrameDir(s) => Framed(s)'
<1> DEFINE s == Peer(e)
<1>0. s \in End /\ Peer(s) = e /\ s # e
  BY PeerType
<1>1. /\ pc[e] = "recvData" /\ pc'[e] = "idle" /\ done[e] = recvSize[e]
      /\ UNCHANGED <<wire, msgs, sock, frame, recvBufSize, recvSize>>
  BY NextDelivered DEF DataReceived, InLen, tcp, link
<1>2. PeerKept(e)
  <2>0. \A d \in End : d # e => got'[d] = got[d] /\ pc'[d] = pc[d] /\ done'[d] = done[d]
    <3>1. /\ pc \in [End -> Pc] /\ done \in [End -> Nat] /\ got \in [End -> Seq(Result)]
          /\ pc' = [pc EXCEPT ![e] = "idle"] /\ done' = [done EXCEPT ![e] = 0]
          /\ got' = [got EXCEPT ![e] = Append(@, Returned(e, frame[e]))]
      BY NextDelivered DEF DataReceived, Return, TypeInv, TypeOK
    <3> QED
      BY <3>1
  <2>1. s \in End /\ s # e
    BY <1>0
  <2> HIDE DEF s
  <2>2. got'[s] = got[s] /\ pc'[s] = pc[s] /\ done'[s] = done[s]
    BY <2>0, <2>1
  <2> QED
    BY <1>1, <2>2 DEF PeerKept, s
<1>3. Len(got'[e]) = Len(got[e]) + 1 /\ Len(got[e]) \in Nat
  <2>1. got'[e] = Append(got[e], Returned(e, frame[e]))
    BY NextDelivered DEF TypeInv, TypeOK
  <2> HIDE DEF s
  <2> QED
    BY <2>1, TypeFacts
<1>4. ReceiverAt(s) = <<Len(got[e]) + 1, 0>>
  <2>1. /\ FrameLen(s, Len(got[e]) + 1) = HeaderLen + done[e]
        /\ HeaderLen + done[e] > 0
    <3>1. /\ frame[e] = Len(got[e]) + 1 /\ frame[e] \in 1..Len(msgs[s])
          /\ done[e] = SendSize(msgs[s][frame[e]])
      BY NextDelivered
    <3>2. /\ SendSize(msgs[s][frame[e]]) \in Nat
          /\ FrameLen(s, frame[e]) = HeaderLen + SendSize(msgs[s][frame[e]])
      BY <1>0, <3>1, FrameFacts
    <3> QED
      BY <3>1, <3>2, LinkAssumption
  <2> QED
    BY <1>0, <1>1, <2>1 DEF ReceiverAt, At
<1>5. ReceiverAt(s)' = ReceiverAt(s) /\ RecvPart(s)'
  BY <1>0, <1>1, <1>3, <1>4 DEF ReceiverAt, RecvPart
<1>6. SenderAt(e)' = SenderAt(e) /\ SendPart(e)'
  BY <1>1 DEF SenderAt, SendPart
<1> QED
  BY <1>1, <1>2, <1>5, <1>6, FramedMove

\* The calls and steps that start or end between two messages.
LEMMA FramedQuietSteps ==
  ASSUME TypeInv, TypeInv', FramingInv, NEW e \in End,
         \/ Recv(e) \/ Accept(e) \/ AckSent(e) \/ AckReceived(e)
         \/ NotifySend(e) \/ NotifyRecv(e)
  PROVE  \A s \in End : FrameDir(s) => Framed(s)'
<1>1. /\ pc[e] \in {"idle", "accept", "sendAck", "notifySend", "recvAck", "notifyRecv"}
      /\ UNCHANGED <<wire, msgs, sock, got, frame, recvBufSize, recvSize>>
  BY DEF Recv, CanCall, Accept, AckSent, AckReceived, NotifySend, NotifyRecv, tcp, link, hist
<1>2. \/ \E p \in {"accept", "sendAck", "recvHeader", "notifySend", "notifyRecv"} : Enter(e, p)
      \/ \E r \in {"SUCCESS", "ERROR"} : Return(e, r)
  BY DEF Recv, Accept, AutoSendAck, AckSent, AckReceived, NotifySend, NotifyRecv
<1>3. /\ pc'[e] \in {"idle", "accept", "sendAck", "recvHeader", "notifySend", "notifyRecv"}
      /\ done'[e] = 0 /\ pc'[Peer(e)] = pc[Peer(e)] /\ done'[Peer(e)] = done[Peer(e)]
  BY <1>2, PeerType DEF Enter, Return, TypeInv, TypeOK
<1>4. PeerKept(e)
  BY <1>1, <1>3 DEF PeerKept
<1> QED
  BY <1>1, <1>3, <1>4, FramedQuiet

\* A timeout between two messages ends the call where the next one begins.
LEMMA FramedTimesOut ==
  ASSUME TypeInv, TypeInv', FramingInv, Timely, NEW e \in End,
         RecvTimesOut(e) \/ AcceptTimesOut(e)
  PROVE  \A s \in End : FrameDir(s) => Framed(s)'
<1>1. /\ pc[e] \in {"accept", "recvHeader", "recvAck", "notifyRecv"}
      /\ pc[e] = "recvHeader" => done[e] = 0
      /\ UNCHANGED <<wire, msgs, sock, got, frame, recvBufSize, recvSize>>
      /\ Return(e, "TIMEOUT")
  BY DEF Timely, RecvTimesOut, AcceptTimesOut, Receiving, tcp, link, hist
<1>2. /\ pc'[e] = "idle"
      /\ pc'[Peer(e)] = pc[Peer(e)] /\ done'[Peer(e)] = done[Peer(e)]
  BY <1>1, PeerType DEF Return, TypeInv, TypeOK
<1>3. PeerKept(e)
  BY <1>1, <1>2 DEF PeerKept
<1> QED
  BY <1>1, <1>2, <1>3, FramedQuiet

LEMMA FramedSend ==
  ASSUME TypeInv, TypeInv', FramingInv, Compatible, NEW e \in End, NEW n \in Sizes, Send(e, n)
  PROVE  \A s \in End : FrameDir(s) => Framed(s)'
<1> DEFINE result == IF SendHandlerSet(e) THEN ConnectResult(e) ELSE "ERROR"
           m == [size |-> n, zero |-> zero[e]]
<1>0. pc[e] = "idle" /\ Peer(e) \in End /\ Peer(e) # e /\ Peer(Peer(e)) = e
  BY PeerType DEF Send, CanCall
<1>1. CASE result = "SUCCESS"
  <2>1. /\ msgs' = [msgs EXCEPT ![e] = Append(@, m)]
        /\ Enter(e, "sendHeader")
        /\ UNCHANGED <<sock, wire, zero, recvSize, recvBufSize, ackArmed, acks, frame, got>>
    BY <1>1 DEF Send, tcp
  <2>2. /\ msgs'[e] = Append(msgs[e], m) /\ msgs'[Peer(e)] = msgs[Peer(e)]
        /\ pc'[e] = "sendHeader" /\ done'[e] = 0
        /\ pc'[Peer(e)] = pc[Peer(e)] /\ done'[Peer(e)] = done[Peer(e)]
    BY <1>0, <2>1 DEF Enter, TypeInv, TypeOK
  <2>3. m \in Message
    BY DEF Message, TypeInv, TypeOK
  <2>4. /\ Len(msgs'[e]) = Len(msgs[e]) + 1
        /\ \A k \in 1..Len(msgs[e]) : msgs'[e][k] = msgs[e][k]
    <3> HIDE DEF m
    <3> QED
      BY <2>2, <2>3, TypeFacts
  <2> SUFFICES ASSUME NEW s \in End, FrameDir(s) PROVE Framed(s)'
    OBVIOUS
  <2>5. Contiguous(s) /\ UpToSender(s) /\ InMessage(s)
    BY DEF FramingInv
  <2>6. CASE s = e
    <3> DEFINE r == Peer(e)
               g == Len(got[r])
    <3>1. SenderAt(e)' = SenderAt(e)
      BY <1>0, <2>2, <2>4, TypeFacts, LinkAssumption DEF SenderAt, At
    <3>2. ReceiverAt(e)' = ReceiverAt(e)
      <4>1. CASE pc[r] = "recvHeader" /\ done[r] = 0
        BY <2>1, <2>2, <4>1 DEF ReceiverAt, At
      <4>2. CASE (pc[r] = "recvHeader" /\ done[r] # 0) \/ pc[r] = "recvData"
        <5>1. g + 1 \in 1..Len(msgs[e])
          BY <1>0, <2>5, <2>6, <4>2, TypeFacts DEF InMessage
        <5>2. PICK j : j = g + 1
          OBVIOUS
        <5>3. FrameLen(e, j)' = FrameLen(e, j)
          BY <2>4, <5>1, <5>2 DEF FrameLen
        <5>4. got'[r] = got[r] /\ pc'[r] = pc[r] /\ done'[r] = done[r]
          BY <2>1, <2>2
        <5>5. Len(got'[r]) + 1 = j
          BY <5>2, <5>4
        <5>6. ReceiverAt(e) = At(g, IF pc[r] = "recvHeader" THEN done[r] ELSE HeaderLen + done[r],
                                 FrameLen(e, j))
          BY <4>2, <5>2 DEF ReceiverAt
        <5>7. ReceiverAt(e)' = At(g, IF pc[r] = "recvHeader" THEN done[r] ELSE HeaderLen + done[r],
                                  FrameLen(e, j)')
          BY <4>2, <5>4, <5>5 DEF ReceiverAt
        <5> QED
          BY <5>3, <5>6, <5>7
      <4>3. CASE pc[r] \notin {"recvHeader", "recvData"}
        BY <2>1, <2>2, <4>3 DEF ReceiverAt
      <4> QED
        BY <4>1, <4>2, <4>3
    <3>3. Contiguous(e)' /\ UpToSender(e)'
      BY <2>1, <2>4, <2>5, <2>6, <3>1, <3>2, Keep
    <3>4. InMessage(e)'
      <4>1. RecvPart(e)'
        <5>1. Len(msgs[e]) \in Nat
          BY TypeFacts
        <5>2. frame[r] \in 1..Len(msgs[e]) => /\ frame[r] \in 1..Len(msgs'[e])
                                              /\ msgs'[e][frame[r]] = msgs[e][frame[r]]
          BY <2>4, <5>1
        <5> QED
          BY <2>1, <2>2, <2>5, <2>6, <5>2 DEF InMessage, RecvPart
      <4>2. SendPart(e)'
        BY <2>2, LinkAssumption DEF SendPart
      <4> QED
        BY <4>1, <4>2 DEF InMessage, SendPart, RecvPart
    <3> QED
      BY <2>6, <3>3, <3>4 DEF Framed
  <2>7. CASE s = Peer(e)
    <3>1. SenderAt(s)' = SenderAt(s) /\ ReceiverAt(s)' = ReceiverAt(s)
      BY <1>0, <2>1, <2>2, <2>7 DEF SenderAt, ReceiverAt, FrameLen
    <3>2. InMessage(s)'
      BY <1>0, <2>1, <2>2, <2>5, <2>7 DEF InMessage, OutMsg
    <3> QED
      BY <2>1, <2>2, <2>5, <2>7, <3>1, <3>2, Keep DEF Framed
  <2> QED
    BY <2>6, <2>7 DEF End, Peer
<1>2. CASE result # "SUCCESS"
  <2>1. Return(e, result) /\ UNCHANGED <<tcp, link, hist>>
    BY <1>2 DEF Send
  <2>2. /\ pc'[e] = "idle" /\ PeerKept(e)
        /\ UNCHANGED <<wire, msgs, sock, got>>
    BY <1>0, <2>1 DEF Return, PeerKept, TypeInv, TypeOK, tcp, link, hist
  <2> QED
    BY <1>0, <2>2, FramedQuiet
<1> QED
  BY <1>1, <1>2

LEMMA FramedInitSocket ==
  ASSUME TypeInv, TypeInv', FramingInv, NEW e \in End, InitSocket(e)
  PROVE  \A s \in End : FrameDir(s) => Framed(s)'
<1> SUFFICES ASSUME NEW s \in End PROVE Framed(s)'
  OBVIOUS
<1>1. Peer(s) \in End
  BY PeerType
<1>2. /\ pc[s] \in {"idle", "accept"} /\ pc[Peer(s)] \in {"idle", "accept"}
      /\ msgs[s] = <<>> /\ got[Peer(s)] = <<>> /\ wire[s] = <<>>
  BY <1>1 DEF InitSocket, FramingInv, Pristine
<1>3. UNCHANGED <<pc, done, wire, msgs, got>>
  BY DEF InitSocket, thread, hist
<1>4. Contiguous(s)'
  BY <1>2, <1>3 DEF Contiguous
<1>5. UpToSender(s)'
  BY <1>2, <1>3 DEF UpToSender, SenderAt, ReceiverAt, WireAt
<1>6. InMessage(s)'
  BY <1>2, <1>3 DEF InMessage
<1> QED
  BY <1>4, <1>5, <1>6 DEF Framed

(* Steps after which one end is closed: nothing more is pushed either way. *)

\* A receiver that waits for more and stands at the end of a message has begun
\* no other.
LEMMA BrokenOff ==
  ASSUME TypeInv, NEW s \in End, InMessage(s), NEW n \in Nat,
         pc[Peer(s)] \in Receiving, done[Peer(s)] < InLen(Peer(s)),
         ReceiverAt(s) = <<n, 0>>
  PROVE  n = Len(got[Peer(s)])
<1>1. PICK r : r = Peer(s)
  OBVIOUS
<1>2. PICK g : g = Len(got[r])
  OBVIOUS
<1>3. r \in End /\ done[r] \in Nat /\ g \in Nat /\ HeaderLen \in Nat \ {0}
  BY <1>1, <1>2, TypeFacts
<1>4. CASE pc[r] = "recvHeader" /\ done[r] > 0
  <2>1. g + 1 \in 1..Len(msgs[s])
    BY <1>1, <1>2, <1>4 DEF InMessage
  <2>2. done[r] < HeaderLen /\ HeaderLen <= FrameLen(s, g + 1) /\ FrameLen(s, g + 1) \in Nat
    BY <1>1, <1>4, <2>1, FrameFacts DEF InLen
  <2> QED
    BY <1>1, <1>2, <1>3, <1>4, <2>2 DEF ReceiverAt, At
<1>5. CASE pc[r] = "recvData"
  <2>1. g + 1 \in 1..Len(msgs[s]) /\ recvSize[r] = SendSize(msgs[s][g + 1])
    BY <1>1, <1>2, <1>5 DEF InMessage
  <2>2. /\ FrameLen(s, g + 1) = HeaderLen + recvSize[r] /\ FrameLen(s, g + 1) \in Nat
        /\ recvSize[r] \in Nat
    BY <2>1, FrameFacts
  <2>3. done[r] < recvSize[r]
    BY <1>1, <1>5 DEF InLen
  <2> QED
    BY <1>1, <1>2, <1>3, <1>5, <2>2, <2>3 DEF ReceiverAt, At
<1>6. CASE pc[r] = "recvHeader" /\ done[r] = 0
  BY <1>1, <1>2, <1>6 DEF ReceiverAt, At
<1>7. CASE pc[r] \notin {"recvHeader", "recvData"}
  BY <1>1, <1>2, <1>7 DEF ReceiverAt
<1> QED
  BY <1>3, <1>4, <1>5, <1>6, <1>7

LEMMA FramedPeerGone ==
  ASSUME TypeInv, TypeInv', FramingInv, NEW e \in End,
         PeerClosed(e) \/ RecvReset(e) \/ SendToClosed(e) \/ SendReset(e)
  PROVE  \A s \in End : FrameDir(s) => Framed(s)'
<1>0. Peer(e) \in End /\ Peer(e) # e /\ Peer(Peer(e)) = e
  BY PeerType
<1>1. /\ UNCHANGED <<wire, msgs, got, frame, recvBufSize, recvSize>>
      /\ sock'[Peer(e)] # "open" /\ sock'[e] = sock[e]
      /\ sock'[Peer(e)] = "closed" =>
           sock[Peer(e)] = "closed" /\ (PeerClosed(e) \/ SendToClosed(e))
      /\ pc'[Peer(e)] = pc[Peer(e)] /\ done'[Peer(e)] = done[Peer(e)]
  <2>1. CASE PeerClosed(e)
    BY <1>0, <2>1 DEF PeerClosed, tcp, link, hist, TypeInv, TypeOK
  <2>2. CASE RecvReset(e)
    BY <1>0, <2>2 DEF RecvReset, Return, link, hist, TypeInv, TypeOK
  <2>3. CASE SendToClosed(e)
    BY <1>0, <2>3 DEF SendToClosed, link, hist, TypeInv, TypeOK
  <2>4. CASE SendReset(e)
    BY <1>0, <2>4 DEF SendReset, Return, link, hist, TypeInv, TypeOK
  <2> QED
    BY <2>1, <2>2, <2>3, <2>4
<1>2. \/ wire[Peer(e)] = <<>> /\ pc'[e] \in {"spin", "idle"}
      \/ pc[e] \in Sending /\ pc'[e] \in {"idle", "killed"}
      \/ pc[e] \in Sending /\ pc'[e] = pc[e] /\ done[e] < OutLen(e) /\ done'[e] = done[e] + 1
  BY DEF PeerClosed, RecvReset, SendToClosed, SendReset, Return, TypeInv, TypeOK
<1> SUFFICES ASSUME NEW s \in End, FrameDir(s) PROVE Framed(s)'
  OBVIOUS
<1>3. Contiguous(s) /\ UpToSender(s) /\ InMessage(s)
  BY DEF FramingInv
<1>4. CASE s = e
  <2>1. ReceiverAt(e)' = ReceiverAt(e)
    BY <1>1 DEF ReceiverAt, FrameLen
  <2>2. SendPart(e)'
    <3>1. CASE pc'[e] \in {"spin", "idle", "killed"}
      BY <3>1 DEF SendPart
    <3>2. CASE pc'[e] = pc[e] /\ done[e] < OutLen(e) /\ done'[e] = done[e] + 1
      <4>1. OutMsg(e)' = OutMsg(e)
        BY <1>1 DEF OutMsg
      <4>2. pc[e] = "sendData" => SendSize(OutMsg(e)) \in Nat
        BY Lengths DEF OutLen
      <4> QED
        BY <3>2, <4>1, <4>2, TypeFacts DEF SendPart, OutLen
    <3> QED
      BY <1>2, <3>1, <3>2
  <2>3. InMessage(e)'
    BY <1>1, <1>3, <1>4, <2>2 DEF InMessage, SendPart
  <2> QED
    BY <1>1, <1>3, <1>4, <2>1, <2>3, Keep DEF Framed
<1>5. CASE s = Peer(e)
  <2>1. wire[s] = <<>> \/ ReceiverAt(s)' = ReceiverAt(s)
    BY <1>0, <1>1, <1>2, <1>5 DEF ReceiverAt, Sending
  <2>2. InMessage(s)'
    BY <1>0, <1>1, <1>2, <1>3, <1>5 DEF InMessage, OutMsg, Sending
  <2>3. ASSUME sock'[s] = "closed", sock'[e] = "open"
        PROVE  SenderAt(s)' = SenderAt(s) /\ ReceiverAt(s)' = ReceiverAt(s)
    <3>1. sock[s] = "closed" /\ sock[e] = "open" /\ (PeerClosed(e) \/ SendToClosed(e))
      BY <1>1, <1>5, <2>3
    <3>2. pc[s] = "idle" /\ pc'[s] = "idle"
      BY <1>1, <1>5, <3>1 DEF FramingInv, Roles, Role
    <3>3. CASE SendToClosed(e)
      <4>1. pc[e] \in Sending /\ pc'[e] = pc[e]
        BY <3>3 DEF SendToClosed
      <4> QED
        BY <1>0, <1>1, <1>5, <3>2, <4>1 DEF SenderAt, ReceiverAt, Sending
    <3>4. CASE ~SendToClosed(e)
      <4>1. /\ pc[e] \in Receiving /\ done[e] < InLen(e) /\ wire[s] = <<>>
            /\ pc'[e] = "spin" /\ sock[s] = "closed"
        BY <1>5, <3>1, <3>4 DEF PeerClosed, TypeInv, TypeOK
      <4>2. ReceiverAt(s) = <<Len(msgs[s]), 0>>
        BY <1>0, <1>3, <1>5, <3>1, <3>2, <4>1 DEF UpToSender, SenderAt, WireAt
      <4>3. ReceiverAt(s) = <<Len(got[e]), 0>>
        BY <1>0, <1>3, <1>5, <4>1, <4>2, BrokenOff
      <4> QED
        BY <1>0, <1>1, <1>5, <3>2, <4>1, <4>3 DEF SenderAt, ReceiverAt
    <3> QED
      BY <3>3, <3>4
  <2> QED
    BY <1>0, <1>1, <1>3, <1>5, <2>1, <2>2, <2>3, Keep DEF Framed
<1> QED
  BY <1>4, <1>5 DEF End, Peer

LEMMA FramedDeinit ==
  ASSUME TypeInv, TypeInv', FramingInv, NEW e \in End, Deinit(e)
  PROVE  \A s \in End : FrameDir(s) => Framed(s)'
<1>0. Peer(e) \in End /\ Peer(e) # e /\ Peer(Peer(e)) = e
  BY PeerType
<1>1. UNCHANGED <<pc, done, msgs, got, frame, recvBufSize, recvSize>> /\ sock'[e] # "open"
  BY DEF Deinit, thread, link, hist, TypeInv, TypeOK
<1> SUFFICES ASSUME NEW s \in End, FrameDir(s) PROVE Framed(s)'
  OBVIOUS
<1>2. Contiguous(s) /\ UpToSender(s) /\ InMessage(s)
  BY DEF FramingInv
<1>3. ReceiverAt(s)' = ReceiverAt(s)
  BY <1>1 DEF ReceiverAt, FrameLen
<1>4. InMessage(s)'
  BY <1>1, <1>2 DEF InMessage, OutMsg
<1>5. UpToSender(s)'
  <2>1. CASE s = e /\ UNCHANGED wire
    <3>1. SenderAt(s)' = SenderAt(s) /\ WireAt(s, Len(wire[s]))' = WireAt(s, Len(wire[s]))
      BY <1>1, <1>3, <2>1 DEF SenderAt, WireAt, BehindUnit, FrameLen
    <3>2. sock'[Peer(s)] = sock[Peer(s)] /\ sock[s] = "open"
      BY <1>0, <2>1 DEF Deinit, TypeInv, TypeOK
    <3> QED
      BY <1>2, <2>1, <3>1, <3>2 DEF UpToSender
  <2>2. CASE s = e /\ ~UNCHANGED wire
    <3>1. sock'[e] = "reset"
      BY <2>2 DEF Deinit, TypeInv, TypeOK
    <3> QED
      BY <2>2, <3>1 DEF UpToSender
  <2>3. CASE s = Peer(e)
    BY <1>0, <1>1, <2>3 DEF UpToSender
  <2> QED
    BY <2>1, <2>2, <2>3 DEF End, Peer
<1>6. Contiguous(s)'
  <2>1. \/ wire'[s] = wire[s]
        \/ wire'[s] = <<>>
        \/ \E k \in 0..Len(wire[s]) : wire'[s] = SubSeq(wire[s], 1, k)
    <3>1. CASE UNCHANGED wire
      BY <3>1
    <3>2. CASE ~UNCHANGED wire
      <4>1. PICK k \in 0..Len(wire[e]) :
              wire' = [wire EXCEPT ![Peer(e)] = <<>>, ![e] = SubSeq(@, 1, k)]
        BY <3>2 DEF Deinit
      <4>2. wire'[e] = SubSeq(wire[e], 1, k) /\ wire'[Peer(e)] = <<>>
        BY <1>0, <4>1 DEF TypeInv, TypeOK
      <4>3. s = e \/ s = Peer(e)
        BY DEF End, Peer
      <4> QED
        BY <4>2, <4>3
    <3> QED
      BY <3>1, <3>2
  <2>2. CASE wire'[s] = wire[s]
    <3>1. ASSUME NEW i \in 1..Len(wire[s])
          PROVE  /\ FrameLen(s, wire[s][i].id)' = FrameLen(s, wire[s][i].id)
                 /\ WireAt(s, i - 1)' = WireAt(s, i - 1)
      BY <1>1, <1>3, <2>2 DEF FrameLen, WireAt, BehindUnit
    <3> QED
      BY <1>2, <2>2, <3>1 DEF Contiguous
  <2>3. CASE wire'[s] = <<>>
    BY <2>3 DEF Contiguous
  <2>4. CASE \E k \in 0..Len(wire[s]) : wire'[s] = SubSeq(wire[s], 1, k)
    <3>1. PICK k \in 0..Len(wire[s]) : wire'[s] = SubSeq(wire[s], 1, k)
      BY <2>4
    <3>2. Len(wire'[s]) = k /\ \A i \in 1..k : i \in 1..Len(wire[s]) /\ wire'[s][i] = wire[s][i]
      <4>1. wire[s] \in Seq(Unit) /\ Len(wire[s]) \in Nat
        BY TypeFacts
      <4>2. \A i \in 1..k : wire[s][i] \in Unit
        BY <4>1, ElementOfSeq
      <4> QED
        BY <3>1, <4>1, <4>2, SubSeqProperties
    <3> SUFFICES ASSUME NEW i \in 1..k
                 PROVE  /\ wire'[s][i].kind = "frame"
                        /\ wire'[s][i].off \in 1..FrameLen(s, wire[s][i].id)'
                        /\ <<wire'[s][i].id - 1, wire'[s][i].off - 1>> = WireAt(s, i - 1)'
      BY <3>2 DEF Contiguous
    <3>3. FrameLen(s, wire[s][i].id)' = FrameLen(s, wire[s][i].id)
      BY <1>1, <3>2 DEF FrameLen
    <3>4. WireAt(s, i - 1)' = WireAt(s, i - 1)
      <4>1. i - 1 = 0 \/ i - 1 \in 1..k
        BY TypeFacts
      <4>2. CASE i - 1 = 0
        BY <1>3, <4>2 DEF WireAt
      <4>3. CASE i - 1 # 0
        BY <1>1, <3>2, <4>1, <4>3 DEF WireAt, BehindUnit, FrameLen
      <4> QED
        BY <4>2, <4>3
    <3> QED
      BY <1>2, <3>2, <3>3, <3>4, UnitFacts
  <2> QED
    BY <2>1, <2>2, <2>3, <2>4
<1> QED
  BY <1>4, <1>5, <1>6 DEF Framed

(***************************************************************************)
(* The other parts of FramingInv.                                          *)
(***************************************************************************)
Rest == Roles /\ Pristine /\ ZeroKept /\ BufferKept /\ Delivery

\* A step of e after which e's handler still fits its flags.
LEMMA RolesKept ==
  ASSUME FramingInv, NEW e \in End, Role(e)',
         LET d == Peer(e)
         IN  /\ pc'[d] = pc[d] /\ msgs'[d] = msgs[d] /\ got'[d] = got[d]
             /\ sock[d] = "open" => sock'[d] = "open"
  PROVE  Roles'
<1>1. Role(Peer(e))'
  BY PeerType DEF FramingInv, Roles, Role, SendHandlerSet, RecvHandlerSet
<1> QED
  BY <1>1 DEF Roles, End, Peer

\* Once a handler is under way both objects have been initialised.
LEMMA PristineOver ==
  ASSUME FramingInv, NEW e \in End,
         pc[e] \notin {"idle", "accept"} \/ fdAccepted[e],
         \A d \in End : sock'[d] = "new" => sock[d] = "new"
  PROVE  Pristine'
  BY DEF FramingInv, Pristine

\* A step that leaves the link's fields and what was sent and returned alone.
LEMMA DataKept ==
  ASSUME FramingInv, UNCHANGED <<zero, recvSize, recvBufSize, msgs, got>>,
         \A d \in End : sock'[d] # "new" => sock[d] # "new"
  PROVE  ZeroKept' /\ BufferKept' /\ Delivery'
  BY DEF FramingInv, ZeroKept, BufferKept, FrameDir, Delivery, Returned

LEMMA RestMoves ==
  ASSUME TypeInv, FramingInv, NEW e \in End,
         \/ Push(e) \/ Pull(e) \/ HeaderSent(e) \/ DataSent(e) \/ AckSent(e) \/ AckReceived(e)
         \/ PeerClosed(e) \/ RecvReset(e) \/ SendToClosed(e) \/ SendReset(e) \/ RecvTimesOut(e)
  PROVE  Rest'
<1>0. Peer(e) \in End /\ Peer(e) # e
  BY PeerType
<1>1. /\ pc[e] \in Sending \cup Receiving
      /\ UNCHANGED <<zero, recvSize, recvBufSize, msgs, got>>
  BY DEF Push, Pull, HeaderSent, DataSent, AckSent, AckReceived, PeerClosed, RecvReset,
         SendToClosed, SendReset, RecvTimesOut, tcp, link, hist, Sending, Receiving
<1>2. /\ sock'[e] = sock[e]
      /\ \/ sock'[Peer(e)] = sock[Peer(e)]
         \/ /\ sock[Peer(e)] \in {"closed", "reset", "gone"}
            /\ sock'[Peer(e)] \in {"reset", "gone"}
  <2>1. \/ UNCHANGED sock
        \/ /\ sock[Peer(e)] \in {"closed", "reset", "gone"}
           /\ \E x \in {"reset", "gone"} : sock' = [sock EXCEPT ![Peer(e)] = x]
    BY DEF Push, Pull, HeaderSent, DataSent, AckSent, AckReceived, PeerClosed, RecvReset,
           SendToClosed, SendReset, RecvTimesOut, tcp
  <2>2. CASE UNCHANGED sock
    BY <2>2
  <2>3. CASE ~UNCHANGED sock
    <3>1. PICK x \in {"reset", "gone"} : sock' = [sock EXCEPT ![Peer(e)] = x]
      BY <2>1, <2>3
    <3>2. sock'[e] = sock[e] /\ sock'[Peer(e)] = x
      BY <1>0, <3>1 DEF TypeInv, TypeOK
    <3> QED
      BY <2>1, <2>3, <3>2
  <2> QED
    BY <2>2, <2>3
<1>3. \/ UNCHANGED pc
      \/ \E p \in {"idle", "spin", "killed"} : pc' = [pc EXCEPT ![e] = p]
      \/ pc[e] = "sendHeader" /\ pc' = [pc EXCEPT ![e] = "sendData"]
      \/ pc[e] = "sendAck" /\ pc' = [pc EXCEPT ![e] = "recvHeader"]
      \/ AutoRecvAckSet(e) /\ pc' = [pc EXCEPT ![e] = "recvAck"]
  BY DEF Push, Pull, HeaderSent, DataSent, AckSent, AckReceived, PeerClosed, RecvReset,
         SendToClosed, SendReset, RecvTimesOut, Enter, Return
<1>4. pc'[Peer(e)] = pc[Peer(e)]
  BY <1>0, <1>3 DEF TypeInv, TypeOK
<1>5. Role(e)'
  <2>1. Role(e)
    BY DEF FramingInv, Roles
  <2>2. pc[e] # "idle"
    BY <1>1 DEF Sending, Receiving
  <2>3. CASE UNCHANGED pc
    BY <1>1, <1>2, <2>1, <2>3 DEF Role, SendHandlerSet, RecvHandlerSet
  <2>4. CASE ~UNCHANGED pc
    <3>1. \/ pc'[e] \in {"idle", "spin", "killed"}
          \/ pc[e] = "sendHeader" /\ pc'[e] = "sendData"
          \/ pc[e] = "sendAck" /\ pc'[e] = "recvHeader"
          \/ AutoRecvAckSet(e) /\ pc'[e] = "recvAck"
      BY <1>3, <2>4 DEF TypeInv, TypeOK
    <3> QED
      BY <1>1, <1>2, <2>1, <2>2, <3>1 DEF Role, SendHandlerSet, RecvHandlerSet, AutoRecvAckSet
  <2> QED
    BY <2>3, <2>4
<1>6. Roles'
  BY <1>1, <1>2, <1>4, <1>5, RolesKept
<1>7. \A d \in End : sock'[d] = "new" <=> sock[d] = "new"
  BY <1>2 DEF End, Peer
<1>8. Pristine'
  <2>1. pc[e] \notin {"idle", "accept"}
    BY <1>1 DEF Sending, Receiving
  <2> QED
    BY <1>7, <2>1, PristineOver
<1>9. ZeroKept' /\ BufferKept' /\ Delivery'
  BY <1>1, <1>7, DataKept
<1> QED
  BY <1>6, <1>8, <1>9 DEF Rest

LEMMA RestHeaderReceived ==
  ASSUME TypeInv, FramingInv, Compatible, NEW e \in End, HeaderReceived(e)
  PROVE  Rest'
<1>1. Peer(e) \in End /\ Peer(e) # e
  BY PeerType
<1>2. /\ UNCHANGED <<sock, msgs, got>> /\ pc[e] = "recvHeader"
      /\ pc' = [pc EXCEPT ![e] = "recvData"]
  BY DEF HeaderReceived, Enter, tcp, hist
<1>3. FrameDir(Peer(e))
  BY NextHeader
<1>4. PICK m \in Message :
        /\ m.zero = Zero[Peer(e)]
        /\ IF recvBufSize[e] # m.size
           THEN /\ recvBufSize' = [recvBufSize EXCEPT ![e] = m.size]
                /\ recvSize'    = [recvSize EXCEPT ![e] = RecvSize(m)]
                /\ zero'        = [zero EXCEPT ![e] = m.zero]
           ELSE UNCHANGED <<recvBufSize, recvSize, zero>>
  BY NextHeader
<1>5. Roles'
  <2>1. pc'[e] = "recvData" /\ pc'[Peer(e)] = pc[Peer(e)]
    BY <1>1, <1>2 DEF TypeInv, TypeOK
  <2>2. Role(e)'
    BY <1>2, <2>1 DEF FramingInv, Roles, Role
  <2> QED
    BY <1>2, <2>1, <2>2, RolesKept
<1>6. Pristine'
  BY <1>2, PristineOver
<1>7. ZeroKept' /\ BufferKept'
  <2>1. CASE recvBufSize[e] # m.size
    <3>1. /\ recvBufSize' = [recvBufSize EXCEPT ![e] = m.size]
          /\ recvSize'    = [recvSize EXCEPT ![e] = RecvSize(m)]
          /\ zero'        = [zero EXCEPT ![e] = Zero[Peer(e)]]
      BY <1>4, <2>1
    <3>2. RecvSize(m) = IF Zero[Peer(e)] THEN PtrLen ELSE m.size
      BY <1>4 DEF RecvSize
    <3>3. ZeroKept'
      <4>1. FrameDir(e) => Zero[Peer(e)] = Zero[e]
        BY <1>3 DEF Compatible, FrameDir, End, Peer
      <4>2. \A d \in End : zero'[d] = IF d = e THEN Zero[Peer(e)] ELSE zero[d]
        BY <3>1 DEF TypeInv, TypeOK
      <4> QED
        BY <1>2, <4>1, <4>2 DEF FramingInv, ZeroKept, FrameDir
    <3>4. BufferKept'
      <4> SUFFICES ASSUME NEW s \in End, FrameDir(s)
                   PROVE  \/ recvBufSize'[Peer(s)] = 0 /\ recvSize'[Peer(s)] = 0
                          \/ /\ recvSize'[Peer(s)] = IF Zero[s] THEN PtrLen ELSE recvBufSize'[Peer(s)]
                             /\ zero'[Peer(s)] = Zero[s]
        BY DEF BufferKept, FrameDir
      <4>1. CASE s = Peer(e)
        <5>1. Peer(s) = e
          BY <4>1, PeerType
        <5>2. /\ recvBufSize'[e] = m.size /\ recvSize'[e] = RecvSize(m)
              /\ zero'[e] = Zero[Peer(e)]
          BY <3>1 DEF TypeInv, TypeOK
        <5> QED
          BY <3>2, <4>1, <5>1, <5>2
      <4>2. CASE s # Peer(e)
        <5>1. Peer(s) \in End /\ Peer(s) # e
          BY <4>2, PeerType
        <5>2. /\ recvBufSize'[Peer(s)] = recvBufSize[Peer(s)]
              /\ recvSize'[Peer(s)] = recvSize[Peer(s)]
              /\ zero'[Peer(s)] = zero[Peer(s)]
          BY <3>1, <5>1 DEF TypeInv, TypeOK
        <5> QED
          BY <5>2 DEF FramingInv, BufferKept
      <4> QED
        BY <4>1, <4>2
    <3> QED
      BY <3>3, <3>4
  <2>2. CASE recvBufSize[e] = m.size
    BY <1>2, <1>4, <2>2 DEF FramingInv, ZeroKept, BufferKept, FrameDir
  <2> QED
    BY <2>1, <2>2
<1>8. Delivery'
  BY <1>2 DEF FramingInv, Delivery, Returned
<1> QED
  BY <1>5, <1>6, <1>7, <1>8 DEF Rest

LEMMA RestDataReceived ==
  ASSUME TypeInv, FramingInv, Compatible, NEW e \in End, DataReceived(e)
  PROVE  Rest'
<1>1. Peer(e) \in End /\ Peer(e) # e
  BY PeerType
<1>2. /\ UNCHANGED <<sock, msgs, zero, recvSize, recvBufSize>>
      /\ pc[e] = "recvData" /\ pc' = [pc EXCEPT ![e] = "idle"]
  BY DEF DataReceived, Return, tcp, link
<1>3. /\ frame[e] = Len(got[e]) + 1 /\ frame[e] \in 1..Len(msgs[Peer(e)])
      /\ got' = [got EXCEPT ![e] = Append(@, Returned(e, frame[e]))]
  BY NextDelivered
<1>4. PICK r : r = Returned(e, frame[e])
  OBVIOUS
<1>5. got'[e] = Append(got[e], r) /\ got'[Peer(e)] = got[Peer(e)]
  BY <1>1, <1>3, <1>4 DEF TypeInv, TypeOK
<1>6. Roles'
  <2>1. pc'[e] = "idle" /\ pc'[Peer(e)] = pc[Peer(e)]
    BY <1>1, <1>2 DEF TypeInv, TypeOK
  <2>2. Role(e)'
    BY <1>2, <2>1 DEF FramingInv, Roles, Role, SendHandlerSet, RecvHandlerSet
  <2> QED
    BY <1>2, <1>5, <2>1, <2>2, RolesKept
<1>7. Pristine'
  BY <1>2, PristineOver
<1>8. ZeroKept' /\ BufferKept'
  BY <1>2 DEF FramingInv, ZeroKept, BufferKept, FrameDir
<1>9. Delivery'
  <2>1. /\ got[e] \in Seq(Result) /\ Len(got[e]) \in Nat /\ DOMAIN got[e] = 1..Len(got[e])
        /\ Len(msgs[Peer(e)]) \in Nat
    BY <1>1, TypeFacts
  <2>2. /\ Len(got'[e]) = Len(got[e]) + 1 /\ DOMAIN got'[e] = 1..Len(got[e]) + 1
        /\ got'[e][Len(got[e]) + 1] = r
        /\ \A k \in 1..Len(got[e]) : got'[e][k] = got[e][k]
    BY <1>5, <2>1, AppendProperties
  <2>3. ASSUME NEW k \in 1..Len(got[e]) + 1
        PROVE  got'[e][k] = Returned(e, k)'
    <3>1. CASE k \in 1..Len(got[e])
      BY <1>2, <2>1, <2>2, <3>1 DEF FramingInv, Delivery, Returned
    <3>2. CASE k = Len(got[e]) + 1
      <4>1. Returned(e, k)' = Returned(e, frame[e])
        BY <1>2, <1>3, <3>2 DEF Returned
      <4> QED
        BY <1>4, <2>2, <3>2, <4>1
    <3> QED
      BY <2>1, <3>1, <3>2
  <2>4. Len(got'[e]) <= Len(msgs'[Peer(e)])
    BY <1>2, <1>3, <2>1, <2>2
  <2>5. /\ Len(got'[Peer(e)]) <= Len(msgs'[e])
        /\ \A k \in DOMAIN got'[Peer(e)] : got'[Peer(e)][k] = Returned(Peer(e), k)'
    BY <1>1, <1>2, <1>5, PeerType DEF FramingInv, Delivery, Returned
  <2>6. \A d \in End : d = e \/ d = Peer(e)
    BY DEF End, Peer
  <2> QED
    BY <1>1, <2>2, <2>3, <2>4, <2>5, <2>6, PeerType DEF Delivery
<1> QED
  BY <1>6, <1>7, <1>8, <1>9 DEF Rest

\* The calls that touch neither what was sent nor what was returned.
LEMMA RestCalls ==
  ASSUME TypeInv, FramingInv, NEW e \in End,
         \/ Recv(e) \/ Accept(e) \/ NotifySend(e) \/ NotifyRecv(e) \/ Deinit(e)
         \/ AcceptTimesOut(e)
  PROVE  Rest'
<1>0. Peer(e) \in End /\ Peer(e) # e
  BY PeerType
<1>1. /\ pc[e] \in {"idle", "accept"} /\ sock[e] = "open"
      /\ UNCHANGED <<zero, recvSize, recvBufSize, msgs, got>>
      /\ \A d \in End : sock'[d] = "new" <=> sock[d] = "new"
      /\ sock'[Peer(e)] = sock[Peer(e)]
  <2>1. CASE Deinit(e)
    <3>1. PICK x \in {"closed", "reset"} : sock' = [sock EXCEPT ![e] = x]
      BY <2>1 DEF Deinit
    <3> QED
      BY <1>0, <2>1, <3>1 DEF Deinit, thread, link, hist, TypeInv, TypeOK
  <2>2. CASE ~Deinit(e)
    BY <2>2 DEF Recv, Accept, NotifySend, NotifyRecv, AcceptTimesOut, CanCall, tcp, link, hist,
                FramingInv, Roles, Role
  <2> QED
    BY <2>1, <2>2
<1>2. \/ UNCHANGED pc /\ pc[e] = "idle"
      \/ sock'[e] = "open" /\ \E p \in {"idle", "accept", "sendAck", "recvHeader", "notifySend", "notifyRecv"} :
           /\ pc' = [pc EXCEPT ![e] = p]
           /\ p \in {"accept", "sendAck", "recvHeader"} => RecvHandlerSet(e)
           /\ p = "sendAck" => AutoSendAckSet(e)
           /\ p = "notifySend" => NotifySendHandler(e) = "ack"
           /\ p = "notifyRecv" => NotifyRecvHandler(e) = "ack"
           /\ p \notin {"idle", "accept"} => (fdAccepted[e] \/ fdAccepted[Peer(e)])
  <2>1. CASE Deinit(e)
    BY <2>1 DEF Deinit, thread
  <2>2. CASE Recv(e)
    BY <2>2, <1>1 DEF Recv, AutoSendAck, Enter, Return, tcp
  <2>3. CASE Accept(e)
    BY <2>3, <1>1 DEF Accept, AutoSendAck, Enter, Return, tcp, FramingInv, Roles, Role
  <2>4. CASE NotifySend(e)
    BY <2>4, <1>1 DEF NotifySend, Enter, Return, tcp
  <2>5. CASE NotifyRecv(e)
    BY <2>5, <1>1 DEF NotifyRecv, Enter, Return, tcp
  <2>6. CASE AcceptTimesOut(e)
    BY <2>6, <1>1 DEF AcceptTimesOut, Return, tcp
  <2> QED
    BY <2>1, <2>2, <2>3, <2>4, <2>5, <2>6
<1>3. Roles'
  <2>1. pc'[Peer(e)] = pc[Peer(e)]
    BY <1>0, <1>2 DEF TypeInv, TypeOK
  <2>2. Role(e)'
    <3>1. Role(e)
      BY DEF FramingInv, Roles
    <3>2. CASE UNCHANGED pc /\ pc[e] = "idle"
      BY <1>1, <3>1, <3>2 DEF Role, SendHandlerSet, RecvHandlerSet
    <3>3. CASE ~(UNCHANGED pc /\ pc[e] = "idle")
      <4>1. /\ pc'[e] \in {"idle", "accept", "sendAck", "recvHeader", "notifySend", "notifyRecv"}
            /\ sock'[e] = "open"
            /\ pc'[e] \in {"accept", "sendAck", "recvHeader"} => RecvHandlerSet(e)
            /\ pc'[e] = "sendAck" => AutoSendAckSet(e)
            /\ pc'[e] = "notifySend" => NotifySendHandler(e) = "ack"
            /\ pc'[e] = "notifyRecv" => NotifyRecvHandler(e) = "ack"
        BY <1>2, <3>3 DEF TypeInv, TypeOK
      <4>2. pc'[e] = "sendAck" => e = "rx" /\ Notify[e] # "none"
        BY <4>1 DEF AutoSendAckSet
      <4>3. pc'[e] = "notifySend" => e = "rx" /\ Notify[e] # "none"
        BY <4>1, LinkAssumption DEF NotifySendHandler, End, Mode
      <4>4. pc'[e] = "notifyRecv" => e = "tx" /\ Notify[e] # "none"
        BY <4>1, LinkAssumption DEF NotifyRecvHandler, End, Mode
      <4> QED
        BY <1>1, <3>1, <4>1, <4>2, <4>3, <4>4 DEF Role, SendHandlerSet, RecvHandlerSet
    <3> QED
      BY <3>2, <3>3
  <2> QED
    BY <1>1, <2>1, <2>2, RolesKept
<1>4. Pristine'
  <2>1. CASE pc[e] \notin {"idle", "accept"} \/ fdAccepted[e] \/ fdAccepted[Peer(e)]
    BY <1>0, <1>1, <2>1, PristineOver
  <2>2. CASE ~fdAccepted[e] /\ ~fdAccepted[Peer(e)]
    <3> SUFFICES ASSUME \E d \in End : sock[d] = "new"
                 PROVE  \A d \in End :
                          /\ pc'[d] \in {"idle", "accept"} /\ ~fdAccepted'[d]
                          /\ msgs'[d] = <<>> /\ got'[d] = <<>> /\ wire'[d] = <<>>
      BY <1>1 DEF Pristine
    <3>1. \A d \in End : /\ pc[d] \in {"idle", "accept"} /\ ~fdAccepted[d]
                         /\ msgs[d] = <<>> /\ got[d] = <<>> /\ wire[d] = <<>>
      BY DEF FramingInv, Pristine
    <3>2. \A d \in End : pc'[d] \in {"idle", "accept"}
      BY <1>2, <2>2, <3>1 DEF TypeInv, TypeOK
    <3>3. UNCHANGED <<wire, fdAccepted>>
      BY <1>0, <2>2, <3>1 DEF Recv, Accept, NotifySend, NotifyRecv, Deinit, AcceptTimesOut, tcp, link
    <3> QED
      BY <1>1, <3>1, <3>2, <3>3
  <2> QED
    BY <2>1, <2>2
<1>5. ZeroKept' /\ BufferKept' /\ Delivery'
  BY <1>1, DataKept
<1> QED
  BY <1>3, <1>4, <1>5 DEF Rest

LEMMA RestSend ==
  ASSUME TypeInv, FramingInv, NEW e \in End, NEW n \in Sizes, Send(e, n)
  PROVE  Rest'
<1> DEFINE result == IF SendHandlerSet(e) THEN ConnectResult(e) ELSE "ERROR"
<1>0. /\ Peer(e) \in End /\ Peer(e) # e /\ Peer(Peer(e)) = e
      /\ pc[e] = "idle" /\ sock[e] = "open"
  BY PeerType DEF Send, CanCall
<1>1. CASE result = "SUCCESS"
  <2>1. PICK m : m = [size |-> n, zero |-> zero[e]]
    OBVIOUS
  <2>2. /\ msgs' = [msgs EXCEPT ![e] = Append(@, m)]
        /\ pc' = [pc EXCEPT ![e] = "sendHeader"]
        /\ UNCHANGED <<sock, zero, recvSize, recvBufSize, got>>
    BY <1>1, <2>1 DEF Send, Enter, tcp
  <2>3. SendHandlerSet(e) /\ (fdAccepted[e] \/ (e = "tx" /\ sock["rx"] = "open"))
    BY <1>1 DEF ConnectResult, End
  <2>4. /\ msgs'[e] = Append(msgs[e], m) /\ msgs'[Peer(e)] = msgs[Peer(e)]
        /\ pc'[e] = "sendHeader" /\ pc'[Peer(e)] = pc[Peer(e)]
    BY <1>0, <2>2 DEF TypeInv, TypeOK
  <2>5. /\ Len(msgs'[e]) = Len(msgs[e]) + 1 /\ Len(msgs[e]) \in Nat
        /\ msgs'[e][Len(msgs[e]) + 1] = m
        /\ \A k \in 1..Len(msgs[e]) : msgs'[e][k] = msgs[e][k]
    <3>1. m \in Message
      BY <2>1 DEF Message, TypeInv, TypeOK
    <3> QED
      BY <2>4, <3>1, TypeFacts
  <2>6. Roles'
    <3>1. Role(e)'
      BY <1>0, <2>2, <2>3, <2>4 DEF FramingInv, Roles, Role, SendHandlerSet, RecvHandlerSet
    <3> QED
      BY <2>2, <2>4, <3>1, RolesKept
  <2>7. Pristine'
    <3>1. CASE fdAccepted[e]
      BY <2>2, <3>1, PristineOver
    <3>2. CASE ~fdAccepted[e]
      BY <1>0, <2>2, <2>3, <3>2 DEF Pristine, End, Peer
    <3> QED
      BY <3>1, <3>2
  <2>8. ZeroKept'
    <3> SUFFICES ASSUME NEW d \in End, FrameDir(d)
                 PROVE  /\ sock'[d] # "new" => zero'[d] = Zero[d]
                        /\ \A k \in 1..Len(msgs'[d]) : msgs'[d][k].zero = Zero[d]
      BY DEF ZeroKept, FrameDir
    <3>1. /\ sock[d] # "new" => zero[d] = Zero[d]
          /\ \A k \in 1..Len(msgs[d]) : msgs[d][k].zero = Zero[d]
      BY DEF FramingInv, ZeroKept
    <3>2. CASE d = e
      <4>1. m.zero = Zero[e]
        BY <1>0, <2>1, <3>1, <3>2
      <4>2. ASSUME NEW k \in 1..Len(msgs'[e]) PROVE msgs'[e][k].zero = Zero[e]
        <5>1. k \in 1..Len(msgs[e]) \/ k = Len(msgs[e]) + 1
          BY <2>5
        <5> QED
          BY <2>5, <3>1, <3>2, <4>1, <5>1
      <4> QED
        BY <2>2, <3>1, <3>2, <4>2
    <3>3. CASE d = Peer(e)
      BY <2>2, <2>4, <3>1, <3>3
    <3> QED
      BY <3>2, <3>3 DEF End, Peer
  <2>9. BufferKept'
    BY <2>2 DEF FramingInv, BufferKept, FrameDir
  <2>10. Delivery'
    <3> SUFFICES ASSUME NEW d \in End
                 PROVE  /\ Len(got'[d]) <= Len(msgs'[Peer(d)])
                        /\ \A k \in DOMAIN got'[d] : got'[d][k] = Returned(d, k)'
      BY DEF Delivery
    <3>1. /\ Len(got[d]) <= Len(msgs[Peer(d)])
          /\ \A k \in DOMAIN got[d] : got[d][k] = Returned(d, k)
      BY DEF FramingInv, Delivery
    <3>2. CASE d = e
      BY <2>2, <2>4, <3>1, <3>2 DEF Returned
    <3>3. CASE d = Peer(e)
      <4>1. DOMAIN got[d] = 1..Len(got[d]) /\ Len(got[d]) \in Nat
        BY TypeFacts
      <4>2. \A k \in DOMAIN got[d] : k \in 1..Len(msgs[e])
        BY <1>0, <2>5, <3>1, <3>3, <4>1
      <4>3. \A k \in DOMAIN got[d] : Returned(d, k)' = Returned(d, k)
        BY <1>0, <2>5, <3>3, <4>2 DEF Returned
      <4> QED
        BY <1>0, <2>2, <2>5, <3>1, <3>3, <4>1, <4>3
    <3> QED
      BY <3>2, <3>3 DEF End, Peer
  <2> QED
    BY <2>6, <2>7, <2>8, <2>9, <2>10 DEF Rest
<1>2. CASE result # "SUCCESS"
  <2>1. /\ pc' = [pc EXCEPT ![e] = "idle"]
        /\ UNCHANGED <<sock, wire, fdAccepted, zero, recvSize, recvBufSize, msgs, got>>
    BY <1>2 DEF Send, Return, tcp, link, hist
  <2>2. UNCHANGED pc
    BY <1>0, <2>1 DEF TypeInv, TypeOK
  <2>3. Roles' /\ Pristine'
    BY <2>1, <2>2 DEF FramingInv, Roles, Role, Pristine, SendHandlerSet, RecvHandlerSet
  <2> QED
    BY <2>1, <2>3, DataKept DEF Rest
<1> QED
  BY <1>1, <1>2

LEMMA RestInitSocket ==
  ASSUME TypeInv, FramingInv, NEW e \in End, InitSocket(e)
  PROVE  Rest'
<1>1. /\ sock[e] = "new" /\ sock' = [sock EXCEPT ![e] = "open"]
      /\ fdAccepted' = [fdAccepted EXCEPT ![e] = FALSE]
      /\ zero' = [zero EXCEPT ![e] = Zero[e]]
      /\ recvSize' = [recvSize EXCEPT ![e] = 0]
      /\ recvBufSize' = [recvBufSize EXCEPT ![e] = 0]
      /\ UNCHANGED <<pc, msgs, got, wire>>
  BY DEF InitSocket, thread, hist
<1>2. \A d \in End : /\ pc[d] \in {"idle", "accept"} /\ ~fdAccepted[d]
                     /\ msgs[d] = <<>> /\ got[d] = <<>> /\ wire[d] = <<>>
  BY <1>1 DEF FramingInv, Pristine
<1>3. Roles'
  BY <1>1, <1>2 DEF FramingInv, Roles, Role, SendHandlerSet, RecvHandlerSet, TypeInv, TypeOK
<1>4. Pristine'
  BY <1>1, <1>2 DEF Pristine, TypeInv, TypeOK
<1>5. ZeroKept'
  <2>1. \A d \in End : /\ sock'[d] # "new" => d = e \/ sock[d] # "new"
                       /\ zero'[d] = IF d = e THEN Zero[e] ELSE zero[d]
    BY <1>1 DEF TypeInv, TypeOK
  <2> QED
    BY <1>1, <1>2, <2>1 DEF FramingInv, ZeroKept, FrameDir
<1>6. BufferKept'
  <2>1. \A d \in End : IF d = e THEN recvBufSize'[d] = 0 /\ recvSize'[d] = 0
                       ELSE /\ recvBufSize'[d] = recvBufSize[d]
                            /\ recvSize'[d] = recvSize[d] /\ zero'[d] = zero[d]
    BY <1>1 DEF TypeInv, TypeOK
  <2> QED
    BY <2>1, PeerType DEF FramingInv, BufferKept, FrameDir
<1>7. Delivery'
  BY <1>1, <1>2 DEF FramingInv, Delivery, Returned
<1> QED
  BY <1>3, <1>4, <1>5, <1>6, <1>7 DEF Rest

-----------------------------------------------------------------------------
LEMMA FramingInit == Init => FramingInv
<1> SUFFICES ASSUME Init PROVE FramingInv
  OBVIOUS
<1>1. \A e \in End : /\ pc[e] = "idle" /\ sock[e] = "new" /\ wire[e] = <<>> /\ done[e] = 0
                     /\ msgs[e] = <<>> /\ got[e] = <<>> /\ ~fdAccepted[e]
                     /\ recvSize[e] = 0 /\ recvBufSize[e] = 0
  BY DEF Init
<1>2. Roles /\ Pristine /\ ZeroKept /\ BufferKept
  BY <1>1, PeerType DEF Roles, Role, Pristine, ZeroKept, BufferKept
<1>3. \A s \in End : Contiguous(s) /\ UpToSender(s) /\ InMessage(s)
  BY <1>1, PeerType DEF Contiguous, UpToSender, InMessage
<1>4. Delivery
  BY <1>1, PeerType DEF Delivery
<1> QED
  BY <1>2, <1>3, <1>4 DEF FramingInv

LEMMA FramingStep ==
  ASSUME Compatible, TypeInv, TypeInv', FramingInv, [Next /\ Timely]_vars
  PROVE  FramingInv'
<1>0. (\A s \in End : FrameDir(s) => Framed(s)') /\ Rest' => FramingInv'
  BY DEF FramingInv, Framed, Rest, FrameDir
<1>1. CASE UNCHANGED vars
  <2>1. UNCHANGED <<pc, done, sock, wire, fdAccepted, zero, recvSize, recvBufSize, msgs, frame, got>>
    BY <1>1 DEF vars, thread, tcp, link, hist
  <2>2. Rest'
    BY <2>1 DEF FramingInv, Rest, Roles, Role, SendHandlerSet, RecvHandlerSet, Pristine,
                ZeroKept, BufferKept, FrameDir, Delivery, Returned
  <2>3. \A s \in End : FrameDir(s) => Framed(s)'
    <3> SUFFICES ASSUME NEW s \in End, FrameDir(s) PROVE Framed(s)'
      OBVIOUS
    <3>1. SenderAt(s)' = SenderAt(s) /\ ReceiverAt(s)' = ReceiverAt(s)
      BY <2>1 DEF SenderAt, ReceiverAt, FrameLen
    <3>2. Contiguous(s) /\ UpToSender(s) /\ InMessage(s)
      BY DEF FramingInv
    <3>3. Contiguous(s)' /\ UpToSender(s)'
      BY <2>1, <3>1, <3>2, Keep
    <3>4. InMessage(s)'
      BY <2>1, <3>2 DEF InMessage, OutMsg
    <3> QED
      BY <3>3, <3>4 DEF Framed
  <2> QED
    BY <1>0, <2>2, <2>3
<1>2. ASSUME NEW e \in End, Progress(e), Timely
      PROVE  (\A s \in End : FrameDir(s) => Framed(s)') /\ Rest'
  <2>0. ~SendTimesOut(e)
    BY <1>2 DEF Timely
  <2>1. CASE Push(e)
    BY <2>1, FramedPush, RestMoves
  <2>2. CASE Pull(e)
    BY <2>2, FramedPull, RestMoves
  <2>3. CASE HeaderSent(e)
    BY <2>3, FramedHeaderSent, RestMoves
  <2>4. CASE DataSent(e)
    BY <2>4, FramedDataSent, RestMoves
  <2>5. CASE AckSent(e) \/ AckReceived(e)
    BY <2>5, FramedQuietSteps, RestMoves
  <2>6. CASE Accept(e)
    BY <2>6, FramedQuietSteps, RestCalls
  <2>7. CASE HeaderReceived(e)
    BY <2>7, FramedHeaderReceived, RestHeaderReceived
  <2>8. CASE DataReceived(e)
    BY <2>8, FramedDataReceived, RestDataReceived
  <2>9. CASE PeerClosed(e) \/ RecvReset(e) \/ SendToClosed(e) \/ SendReset(e)
    BY <2>9, FramedPeerGone, RestMoves
  <2>10. CASE RecvTimesOut(e)
    BY <1>2, <2>10, FramedTimesOut, RestMoves
  <2>11. CASE AcceptTimesOut(e)
    BY <1>2, <2>11, FramedTimesOut, RestCalls
  <2> QED
    BY <1>2, <2>0, <2>1, <2>2, <2>3, <2>4, <2>5, <2>6, <2>7, <2>8, <2>9, <2>10, <2>11 DEF Progress, Works
<1>3. ASSUME NEW e \in End, Call(e)
      PROVE  (\A s \in End : FrameDir(s) => Framed(s)') /\ Rest'
  <2>1. CASE InitSocket(e)
    BY <2>1, FramedInitSocket, RestInitSocket
  <2>2. CASE Deinit(e)
    BY <2>2, FramedDeinit, RestCalls
  <2>3. CASE Recv(e) \/ NotifySend(e) \/ NotifyRecv(e)
    BY <2>3, FramedQuietSteps, RestCalls
  <2>4. ASSUME NEW n \in Sizes, Send(e, n)
        PROVE  (\A s \in End : FrameDir(s) => Framed(s)') /\ Rest'
    BY <2>4, FramedSend, RestSend
  <2> QED
    BY <1>3, <2>1, <2>2, <2>3, <2>4 DEF Call
<1> QED
  BY <1>0, <1>1, <1>2, <1>3 DEF Next

-----------------------------------------------------------------------------
\* A send loop whose timeout expires goes on behind the block or returns.
LEMMA GivesUpSending ==
  ASSUME TypeInv, NEW e \in End, SendTimesOut(e)
  PROVE  \E p \in {"idle", "sendData", "recvHeader"} :
           pc' = [pc EXCEPT ![e] = p] /\ pc[e] # p
<1>1. done[e] \in Nat /\ pc[e] \in {"sendHeader", "sendData", "sendAck", "notifySend"}
  BY DEF SendTimesOut, Sending, TypeInv, TypeOK
<1>2. \/ pc[e] = "sendHeader" /\ Enter(e, "sendData")
      \/ pc[e] = "sendAck" /\ Enter(e, "recvHeader")
      \/ \E x \in {"TIMEOUT", "PARTIAL", "SUCCESS"} : Return(e, x)
  <2>1. CASE done[e] = 0
    BY <1>1, <2>1 DEF SendTimesOut
  <2>2. CASE done[e] > 0
    BY <1>1, <2>2 DEF SendTimesOut
  <2> QED
    BY <1>1, <2>1, <2>2
<1> QED
  BY <1>1, <1>2 DEF Enter, Return

\* A step of an end leaves the place of the other one.
LEMMA PlaceKept ==
  ASSUME TypeInv, NEW e \in End, Progress(e) \/ Call(e), NEW d \in End, d # e
  PROVE  pc'[d] = pc[d]
<1>1. pc \in [End -> Pc]
  BY DEF TypeInv, TypeOK
<1>2. ASSUME NEW p, pc' = [pc EXCEPT ![e] = p] PROVE pc'[d] = pc[d]
  BY <1>1, <1>2
<1>3. CASE UNCHANGED pc
  BY <1>3
<1>4. ASSUME NEW p, Enter(e, p) PROVE pc'[d] = pc[d]
  BY <1>2, <1>4 DEF Enter
<1>5. ASSUME NEW r, Return(e, r) PROVE pc'[d] = pc[d]
  BY <1>2, <1>5 DEF Return
<1>6. CASE Push(e) \/ Pull(e) \/ SendToClosed(e) \/ InitSocket(e) \/ Deinit(e)
  BY <1>3, <1>6 DEF Push, Pull, SendToClosed, InitSocket, Deinit, thread
<1>7. CASE HeaderSent(e) \/ DataSent(e) \/ Accept(e) \/ HeaderReceived(e) \/ DataReceived(e)
  BY <1>4, <1>5, <1>7 DEF HeaderSent, DataSent, Accept, AutoSendAck, HeaderReceived, DataReceived
<1>8. CASE AckSent(e) \/ AckReceived(e) \/ RecvReset(e) \/ RecvTimesOut(e) \/ AcceptTimesOut(e)
  BY <1>4, <1>5, <1>8 DEF AckSent, AckReceived, RecvReset, RecvTimesOut, AcceptTimesOut
<1>9. CASE PeerClosed(e) \/ SendReset(e)
  BY <1>2, <1>5, <1>9 DEF PeerClosed, SendReset
<1>10. CASE SendTimesOut(e)
  BY <1>2, <1>10, GivesUpSending
<1>11. CASE Recv(e) \/ NotifySend(e) \/ NotifyRecv(e) \/ \E n \in Sizes : Send(e, n)
  BY <1>4, <1>5, <1>11 DEF Recv, AutoSendAck, NotifySend, NotifyRecv, Send
<1>12. CASE Progress(e)
  BY <1>6, <1>7, <1>8, <1>9, <1>10, <1>12, Zenon DEF Progress, Works
<1>13. CASE Call(e)
  BY <1>6, <1>11, <1>13, Zenon DEF Call
<1> QED
  BY <1>12, <1>13

\* What TimelySpec allows is no timeout inside a message.
LEMMA TimelyStep ==
  ASSUME TypeInv, [TimelyNext]_vars
  PROVE  [Next /\ Timely]_vars
<1> SUFFICES ASSUME NEW e \in End,
                    Works(e) \/ AcceptTimesOut(e) \/ TimesOutEarly(e) \/ Call(e)
             PROVE  Next /\ Timely
  BY DEF TimelyNext
<1>1. Progress(e) \/ Call(e)
  BY DEF Progress, TimesOutEarly
<1>2. pc \in [End -> Pc] /\ done \in [End -> Nat] /\ Peer(e) \in End
  BY PeerType DEF TypeInv, TypeOK
<1>3. ASSUME NEW d \in End, SendTimesOut(d) \/ RecvTimesOut(d) PROVE pc'[d] # pc[d]
  <2>1. CASE SendTimesOut(d)
    BY <1>2, <2>1, GivesUpSending
  <2>2. CASE RecvTimesOut(d)
    BY <1>2, <2>2 DEF RecvTimesOut, Return, Receiving
  <2> QED
    BY <1>3, <2>1, <2>2
<1>4. ASSUME NEW d \in End, SendTimesOut(d) \/ RecvTimesOut(d) PROVE d = e
  BY <1>1, <1>3, <1>4, PlaceKept
<1>5. ~SendTimesOut(e)
  <2> SUFFICES ASSUME SendTimesOut(e) PROVE FALSE
    OBVIOUS
  <2>1. /\ pc[e] \in Sending /\ done[e] < OutLen(e) /\ sock[Peer(e)] = "open"
        /\ Len(wire[e]) = SockBuf /\ pc'[e] # pc[e] /\ done[e] # OutLen(e)
    <3>1. /\ pc[e] \in Sending /\ done[e] < OutLen(e) /\ sock[Peer(e)] = "open"
          /\ Len(wire[e]) = SockBuf
      BY DEF SendTimesOut
    <3>2. OutLen(e) \in Nat /\ done[e] \in Nat
      BY <1>2, Lengths
    <3> QED
      BY <1>3, <3>1, <3>2
  <2>2. ~Call(e)
    BY <2>1 DEF Call, InitSocket, Deinit, Recv, NotifySend, NotifyRecv, Send, CanCall, thread, Sending
  <2>3. ~Push(e) /\ ~SendToClosed(e) /\ ~SendReset(e)
    BY <2>1 DEF Push, SendToClosed, SendReset
  <2>4. ~HeaderSent(e) /\ ~DataSent(e) /\ ~AckSent(e)
    BY <2>1 DEF HeaderSent, DataSent, AckSent
  <2>5. /\ ~Accept(e) /\ ~Pull(e) /\ ~HeaderReceived(e) /\ ~DataReceived(e) /\ ~AckReceived(e)
        /\ ~PeerClosed(e) /\ ~RecvReset(e) /\ ~AcceptTimesOut(e) /\ ~TimesOutEarly(e)
    BY <2>1 DEF Accept, Pull, HeaderReceived, DataReceived, AckReceived, PeerClosed, RecvReset,
                AcceptTimesOut, TimesOutEarly, RecvTimesOut, Sending, Receiving
  <2> QED
    BY <2>2, <2>3, <2>4, <2>5, Zenon DEF Works
<1>6. ASSUME RecvTimesOut(e) PROVE done[e] = 0 /\ pc[e] # "recvData"
  <2>1. /\ pc[e] \in Receiving /\ done[e] < InLen(e) /\ sock[Peer(e)] = "open"
        /\ wire[Peer(e)] = <<>> /\ pc'[e] # pc[e] /\ done[e] # InLen(e)
    BY <1>2, <1>3, <1>6 DEF RecvTimesOut
  <2>2. ~Call(e)
    BY <2>1 DEF Call, InitSocket, Deinit, Recv, NotifySend, NotifyRecv, Send, CanCall, thread, Receiving
  <2>3. ~Pull(e) /\ ~PeerClosed(e) /\ ~RecvReset(e)
    BY <2>1 DEF Pull, PeerClosed, RecvReset
  <2>4. ~HeaderReceived(e) /\ ~DataReceived(e) /\ ~AckReceived(e)
    BY <2>1 DEF HeaderReceived, DataReceived, AckReceived
  <2>5. /\ ~Accept(e) /\ ~Push(e) /\ ~HeaderSent(e) /\ ~DataSent(e) /\ ~AckSent(e)
        /\ ~SendToClosed(e) /\ ~SendReset(e) /\ ~AcceptTimesOut(e)
    BY <2>1 DEF Accept, Push, HeaderSent, DataSent, AckSent, SendToClosed, SendReset,
                AcceptTimesOut, Sending, Receiving
  <2>6. TimesOutEarly(e)
    BY <2>2, <2>3, <2>4, <2>5, Zenon DEF Works
  <2> QED
    BY <2>6 DEF TimesOutEarly
<1> QED
  BY <1>1, <1>4, <1>5, <1>6 DEF Next, Timely

\* Without ICOM_FLAG_TIMEOUT no timeout strikes at all: what is shown of
\* TimelySpec holds of Spec (SO_RCVTIMEO and SO_SNDTIMEO are set by that flag).
THEOREM UntimedIsTimely ==
  ASSUME Untimed
  PROVE  Spec => TimelySpec
<1>1. [Next]_vars => [TimelyNext]_vars
  <2>1. ASSUME NEW e \in End, Progress(e) PROVE Works(e) \/ AcceptTimesOut(e)
    BY <2>1 DEF Untimed, Progress, SendTimesOut, RecvTimesOut
  <2> QED
    BY <2>1 DEF Next, TimelyNext
<1> QED
  BY <1>1, PTL DEF Spec, TimelySpec

\* With compatible flags, and timeouts that strike between messages, the two
\* ends stay in step at every byte, whatever the sizes, the buffers of the
\* kernel, the calls the applications make and the moment an end is closed:
\* all send and receive handlers together.
THEOREM FramingCorrect ==
  ASSUME Compatible
  PROVE  TimelySpec => []FramingInv
<1>1. Init => TypeInv /\ FramingInv
  BY TypeInit, FramingInit
<1>2. TypeInv /\ FramingInv /\ [TimelyNext]_vars => (TypeInv /\ FramingInv)'
  BY TimelyStep, TypeStep, FramingStep
<1> QED
  BY <1>1, <1>2, PTL DEF TimelySpec

\* With compatible flags every icom_recv that succeeds returns the next
\* message of the peer, whole and once, however many receives have timed out
\* between two messages before it (link_recvHeader and link_recvData).
THEOREM DeliveryCorrect ==
  ASSUME Compatible
  PROVE  TimelySpec => []Delivery
<1>1. FramingInv => Delivery
  BY DEF FramingInv
<1> QED
  BY <1>1, FramingCorrect, PTL
=============================================================================
