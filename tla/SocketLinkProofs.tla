-------------------------- MODULE SocketLinkProofs --------------------------
(* Theorems about SocketLink, for all values of its constants. *)
EXTENDS SocketLink, SequenceTheorems, TLAPS

(***************************************************************************)
(* Type correctness.  HeaderReceived looks up the header it has read by    *)
(* the id the bytes on the wire carry, so the invariant also says that     *)
(* those ids are ids of headers the sender has begun to send.              *)
(***************************************************************************)
SendingHasMsg ==
  \A e \in End : pc[e] \in {"sendHeader", "sendData"} => msgs[e] # <<>>

WireIds ==
  \A e \in End : \A i \in 1..Len(wire[e]) :
    wire[e][i].kind = "frame" => wire[e][i].id \in 1..Len(msgs[e])

FrameIds ==
  \A e \in End : pc[e] = "recvHeader" /\ done[e] > 0 =>
    frame[e] \in 0..Len(msgs[Peer(e)])

TypeInv == TypeOK /\ SendingHasMsg /\ WireIds /\ FrameIds

LEMMA PeerType == \A e \in End : Peer(e) \in End /\ Peer(e) # e /\ Peer(Peer(e)) = e
  BY DEF End, Peer

LEMMA Lengths ==
  ASSUME TypeInv, NEW e \in End
  PROVE  OutLen(e) \in Nat /\ InLen(e) \in Nat /\ OutUnit(e) \in Unit
<1>1. pc[e] \in {"sendHeader", "sendData"} => OutMsg(e) \in Message
  BY ElementOfSeq, LenProperties, EmptySeq
     DEF TypeInv, TypeOK, SendingHasMsg, OutMsg
<1>2. OutLen(e) \in Nat
  BY <1>1, LinkAssumption DEF OutLen, SendSize, Message
<1>3. InLen(e) \in Nat
  <2>1. recvSize[e] \in Nat
    <3>1. recvSize[e] \in Sizes \cup {0, PtrLen}
      BY DEF TypeInv, TypeOK
    <3>2. (\A x \in Sizes : x \in Nat) /\ PtrLen \in Nat /\ 0 \in Nat
      BY LinkAssumption
    <3> QED
      BY <3>1, <3>2, Z3
  <2> QED
    BY <2>1, LinkAssumption DEF InLen
<1>4. OutUnit(e) \in Unit
  BY LinkAssumption DEF OutUnit, Unit, TypeInv, TypeOK
<1> QED
  BY <1>2, <1>3, <1>4

LEMMA TypeInit == Init => TypeInv
  BY LinkAssumption
     DEF Init, TypeInv, TypeOK, SendingHasMsg, WireIds, FrameIds, End, Pc,
         Status, SockState, Peer, Sending, Receiving

LEMMA TypeInitSocket ==
  ASSUME TypeInv, NEW e \in End, InitSocket(e)
  PROVE  TypeInv'
  BY LinkAssumption
     DEF InitSocket, TypeInv, TypeOK, SendingHasMsg, WireIds, FrameIds, thread, hist, SockState

LEMMA TypePush ==
  ASSUME TypeInv, NEW e \in End, Push(e)
  PROVE  TypeInv'
<1>1. OutUnit(e) \in Unit
  BY Lengths
<1>2. wire' \in [End -> Seq(Unit)]
  BY <1>1 DEF Push, TypeInv, TypeOK
<1>3. done' \in [End -> Nat]
  BY DEF Push, TypeInv, TypeOK
<1>4. TypeOK'
  BY <1>2, <1>3 DEF Push, TypeInv, TypeOK, link, hist
<1>5. WireIds'
  <2> SUFFICES ASSUME NEW d \in End, NEW i \in 1..Len(wire'[d]), wire'[d][i].kind = "frame"
               PROVE  wire'[d][i].id \in 1..Len(msgs[d])
    BY DEF WireIds, Push, hist
  <2>1. CASE d = e /\ i = Len(wire[e]) + 1
    <3>1. wire'[d][i] = OutUnit(e)
      BY <2>1 DEF Push, TypeInv, TypeOK
    <3>2. pc[e] \in {"sendHeader", "sendData"}
      BY <3>1 DEF OutUnit, Push, Sending
    <3>3. Len(msgs[e]) \in Nat \ {0}
      BY <3>2, EmptySeq, LenProperties DEF TypeInv, TypeOK, SendingHasMsg
    <3> QED
      BY <3>1, <3>2, <3>3, <2>1 DEF OutUnit
  <2>2. CASE ~(d = e /\ i = Len(wire[e]) + 1)
    <3>1. i \in 1..Len(wire[d]) /\ wire'[d][i] = wire[d][i]
      BY <2>2 DEF Push, TypeInv, TypeOK
    <3> QED
      BY <3>1 DEF WireIds, TypeInv
  <2> QED
    BY <2>1, <2>2
<1> QED
  BY <1>4, <1>5 DEF Push, TypeInv, TypeOK, SendingHasMsg, FrameIds, link, hist, Sending

LEMMA TypePull ==
  ASSUME TypeInv, NEW e \in End, Pull(e)
  PROVE  TypeInv'
<1> DEFINE s == Peer(e)
           u == Head(wire[s])
<1>1. s \in End /\ s # e /\ Peer(s) = e
  BY PeerType
<1>2. /\ u = wire[s][1] /\ u \in Unit
      /\ Len(wire[s]) \in Nat \ {0} /\ Tail(wire[s]) \in Seq(Unit)
      /\ Len(Tail(wire[s])) = Len(wire[s]) - 1
      /\ \A i \in 1..Len(Tail(wire[s])) : Tail(wire[s])[i] = wire[s][i+1]
  BY <1>1, HeadTailProperties, EmptySeq, LenProperties DEF Pull, TypeInv, TypeOK
<1>3. wire' = [wire EXCEPT ![s] = Tail(@)]
  BY DEF Pull
<1>4. wire' \in [End -> Seq(Unit)]
  BY <1>1, <1>2, <1>3 DEF TypeInv, TypeOK
<1>5. /\ done' = [done EXCEPT ![e] = @ + 1]
      /\ frame' = [frame EXCEPT ![e] = IF Continues(e, u) THEN u.id ELSE 0]
  BY DEF Pull
<1>6. frame' \in [End -> Nat] /\ done' \in [End -> Nat]
  <2>1. u.id \in Nat
    BY <1>2 DEF Unit
  <2>2. (IF Continues(e, u) THEN u.id ELSE 0) \in Nat
    BY <2>1
  <2>3. frame \in [End -> Nat] /\ done \in [End -> Nat]
    BY DEF TypeInv, TypeOK
  <2>4. frame' \in [End -> Nat]
    <3> DEFINE id == IF Continues(e, u) THEN u.id ELSE 0
    <3> HIDE DEF id, u
    <3>1. frame' = [frame EXCEPT ![e] = id] /\ id \in Nat
      BY <2>2, <1>5 DEF id
    <3> QED
      BY <3>1, <2>3
  <2>5. done' \in [End -> Nat]
    <3> HIDE DEF u
    <3>1. done' = [done EXCEPT ![e] = @ + 1]
      BY <1>5
    <3> QED
      BY <3>1, <2>3
  <2> QED
    BY <2>4, <2>5
<1>7. TypeOK'
  BY <1>4, <1>6 DEF Pull, TypeInv, TypeOK, link
<1>8. WireIds'
  <2> SUFFICES ASSUME NEW d \in End, NEW i \in 1..Len(wire'[d]), wire'[d][i].kind = "frame"
               PROVE  wire'[d][i].id \in 1..Len(msgs[d])
    BY DEF WireIds, Pull
  <2>1. CASE d = s
    <3>1. i+1 \in 1..Len(wire[s]) /\ wire'[d][i] = wire[s][i+1]
      BY <1>1, <1>2, <1>3, <2>1 DEF TypeInv, TypeOK
    <3> QED
      BY <3>1, <2>1 DEF WireIds, TypeInv
  <2>2. CASE d # s
    BY <2>2, <1>3 DEF WireIds, TypeInv, TypeOK
  <2> QED
    BY <2>1, <2>2
<1>9. FrameIds'
  <2>1. ASSUME NEW d \in End, pc'[d] = "recvHeader", done'[d] > 0
        PROVE  frame'[d] \in 0..Len(msgs[Peer(d)])
    <3>1. pc'[d] = pc[d]
      BY DEF Pull
    <3>2. CASE d = e
      <4>1. Continues(e, u) => u.kind = "frame"
        BY <2>1, <3>1, <3>2 DEF Continues
      <4>2. Continues(e, u) => u.id \in 1..Len(msgs[s])
        BY <4>1, <1>1, <1>2 DEF WireIds, TypeInv
      <4>3. Len(msgs[s]) \in Nat
        BY <1>1, LenProperties DEF TypeInv, TypeOK
      <4> QED
        BY <4>2, <4>3, <1>5, <3>2 DEF TypeInv, TypeOK
    <3>3. CASE d # e
      BY <3>3, <3>1, <2>1, <1>5 DEF FrameIds, TypeInv, TypeOK
    <3> QED
      BY <3>2, <3>3
  <2> QED
    BY <2>1 DEF FrameIds, Pull
<1> QED
  BY <1>7, <1>8, <1>9 DEF Pull, TypeInv, SendingHasMsg

(* Steps that move a thread from one handler to the next.                  *)

LEMMA TypeStay ==
  ASSUME TypeInv, NEW e \in End, NEW p \in Pc, Enter(e, p),
         UNCHANGED <<wire, msgs, frame>>,
         p \in {"sendHeader", "sendData"} => msgs[e] # <<>>
  PROVE  /\ pc' \in [End -> Pc] /\ done' \in [End -> Nat] /\ status' \in [End -> Status]
         /\ SendingHasMsg' /\ WireIds' /\ FrameIds'
<1>1. pc' \in [End -> Pc] /\ done' \in [End -> Nat] /\ status' \in [End -> Status]
  BY DEF Enter, TypeInv, TypeOK
<1>2. SendingHasMsg'
  BY DEF Enter, TypeInv, TypeOK, SendingHasMsg
<1>3. WireIds'
  BY DEF TypeInv, WireIds
<1>4. FrameIds'
  BY DEF Enter, TypeInv, TypeOK, FrameIds
<1> QED
  BY <1>1, <1>2, <1>3, <1>4

LEMMA TypeReturn ==
  ASSUME TypeInv, NEW e \in End, NEW r \in Status, Return(e, r),
         UNCHANGED <<wire, msgs, frame>>
  PROVE  /\ pc' \in [End -> Pc] /\ done' \in [End -> Nat] /\ status' \in [End -> Status]
         /\ SendingHasMsg' /\ WireIds' /\ FrameIds'
<1>1. pc' \in [End -> Pc] /\ done' \in [End -> Nat] /\ status' \in [End -> Status]
  BY DEF Return, TypeInv, TypeOK, Pc
<1>2. SendingHasMsg'
  BY DEF Return, TypeInv, TypeOK, SendingHasMsg
<1>3. WireIds'
  BY DEF TypeInv, WireIds
<1>4. FrameIds'
  BY DEF Return, TypeInv, TypeOK, FrameIds
<1> QED
  BY <1>1, <1>2, <1>3, <1>4

LEMMA TypeSend ==
  ASSUME TypeInv, NEW e \in End, NEW n \in Sizes, Send(e, n)
  PROVE  TypeInv'
<1> DEFINE m == [size |-> n, zero |-> zero[e]]
           result == IF SendHandlerSet(e) THEN ConnectResult(e) ELSE "ERROR"
<1>1. result \in {"SUCCESS", "ERROR", "ECONNREFUSED"}
  BY DEF ConnectResult, End, TypeInv, TypeOK
<1>2. CASE result = "SUCCESS"
  <2>1. /\ fdAccepted' = [fdAccepted EXCEPT ![e] = TRUE]
        /\ msgs' = [msgs EXCEPT ![e] = Append(@, m)]
        /\ Enter(e, "sendHeader")
        /\ UNCHANGED <<sock, wire, zero, recvSize, recvBufSize, ackArmed, acks, frame, got>>
    BY <1>2 DEF Send, tcp
  <2>2. m \in Message
    BY DEF Message, TypeInv, TypeOK
  <2>3. /\ msgs' \in [End -> Seq(Message)]
        /\ msgs'[e] # <<>>
        /\ \A d \in End : Len(msgs[d]) \in Nat /\ Len(msgs'[d]) >= Len(msgs[d])
                         /\ Len(msgs'[d]) \in Nat
    <3> HIDE DEF m
    <3>1. msgs \in [End -> Seq(Message)]
      BY DEF TypeInv, TypeOK
    <3>2. Append(msgs[e], m) \in Seq(Message) /\ Len(Append(msgs[e], m)) = Len(msgs[e]) + 1
      BY <3>1, <2>2
    <3>3. \A d \in End : Len(msgs[d]) \in Nat
      BY <3>1, LenProperties
    <3> QED
      BY <2>1, <3>1, <3>2, <3>3, EmptySeq
  <2>4. pc' \in [End -> Pc] /\ done' \in [End -> Nat] /\ UNCHANGED status
    BY <2>1 DEF Enter, TypeInv, TypeOK, Pc, Sending
  <2>5. TypeOK'
    BY <2>1, <2>3, <2>4 DEF TypeInv, TypeOK
  <2>6. SendingHasMsg'
    BY <2>1, <2>3 DEF Enter, SendingHasMsg, TypeInv, TypeOK
  <2>7. WireIds'
    BY <2>1, <2>3 DEF WireIds, TypeInv
  <2>8. FrameIds'
    BY <2>1, <2>3, PeerType DEF Enter, FrameIds, TypeInv, TypeOK
  <2> QED
    BY <2>5, <2>6, <2>7, <2>8 DEF TypeInv
<1>3. CASE result # "SUCCESS"
  <2>1. Return(e, result) /\ UNCHANGED <<tcp, link, hist>>
    BY <1>3 DEF Send
  <2>2. result \in Status
    BY <1>1 DEF Status
  <2> HIDE DEF result
  <2> QED
    BY <2>1, <2>2, TypeReturn DEF TypeInv, TypeOK, tcp, link, hist
<1> QED
  BY <1>2, <1>3

LEMMA TypeEnterOnly ==
  ASSUME TypeInv, NEW e \in End, NEW p \in Pc, Enter(e, p),
         p \in {"sendHeader", "sendData"} => msgs[e] # <<>>,
         UNCHANGED <<tcp, link, hist>>
  PROVE  TypeInv'
  BY TypeStay DEF TypeInv, TypeOK, tcp, link, hist

LEMMA TypeReturnOnly ==
  ASSUME TypeInv, NEW e \in End, NEW r \in Status, Return(e, r),
         UNCHANGED <<tcp, link, hist>>
  PROVE  TypeInv'
  BY TypeReturn DEF TypeInv, TypeOK, tcp, link, hist

LEMMA TypeAutoSendAck ==
  ASSUME TypeInv, NEW e \in End, AutoSendAck(e),
         UNCHANGED <<wire, msgs, frame>>
  PROVE  /\ pc' \in [End -> Pc] /\ done' \in [End -> Nat] /\ status' \in [End -> Status]
         /\ ackArmed' \in [End -> BOOLEAN] /\ acks' \in [End -> Nat]
         /\ SendingHasMsg' /\ WireIds' /\ FrameIds'
<1>1. PICK p \in {"sendAck", "recvHeader"} : Enter(e, p)
  BY DEF AutoSendAck
<1>2. p \in Pc /\ p \notin {"sendHeader", "sendData"}
  BY DEF Pc, Sending, Receiving
<1>3. ackArmed' \in [End -> BOOLEAN] /\ acks' \in [End -> Nat]
  <2>1. AutoSendAckSet(e) \in BOOLEAN
    BY DEF AutoSendAckSet
  <2>2. CASE AutoSendAckSet(e) /\ ackArmed[e]
    BY <2>2 DEF AutoSendAck, TypeInv, TypeOK
  <2>3. CASE ~(AutoSendAckSet(e) /\ ackArmed[e])
    <3>1. ackArmed' = [ackArmed EXCEPT ![e] = AutoSendAckSet(e)] /\ UNCHANGED acks
      BY <2>3 DEF AutoSendAck
    <3> QED
      BY <3>1, <2>1 DEF TypeInv, TypeOK
  <2> QED
    BY <2>2, <2>3
<1> QED
  BY <1>1, <1>2, <1>3, TypeStay

LEMMA TypeRecv ==
  ASSUME TypeInv, NEW e \in End, Recv(e)
  PROVE  TypeInv'
<1>1. CASE AutoSendAck(e) /\ UNCHANGED <<tcp, fdAccepted, zero, recvSize, recvBufSize,
                                        msgs, frame, got>>
  BY <1>1, TypeAutoSendAck DEF TypeInv, TypeOK, tcp
<1>2. CASE Enter(e, "accept") /\ UNCHANGED <<tcp, link, hist>>
  BY <1>2, TypeEnterOnly DEF Pc
<1>3. CASE Return(e, "ERROR") /\ UNCHANGED <<tcp, link, hist>>
  BY <1>3, TypeReturnOnly DEF Status
<1> QED
  BY <1>1, <1>2, <1>3 DEF Recv

LEMMA TypeAccept ==
  ASSUME TypeInv, NEW e \in End, Accept(e)
  PROVE  TypeInv'
  BY TypeAutoSendAck DEF Accept, TypeInv, TypeOK, tcp

LEMMA TypeHeaderReceived ==
  ASSUME TypeInv, NEW e \in End, HeaderReceived(e)
  PROVE  TypeInv'
<1>1. PICK m \in HeaderRead(e) :
        IF recvBufSize[e] # m.size
        THEN /\ recvBufSize' = [recvBufSize EXCEPT ![e] = m.size]
             /\ recvSize'    = [recvSize EXCEPT ![e] = RecvSize(m)]
             /\ zero'        = [zero EXCEPT ![e] = m.zero]
        ELSE UNCHANGED <<recvBufSize, recvSize, zero>>
  BY DEF HeaderReceived
<1>2. m \in Message
  <2>1. CASE frame[e] = 0
    BY <2>1 DEF HeaderRead
  <2>2. CASE frame[e] # 0
    <3>1. done[e] = HeaderLen /\ HeaderLen > 0 /\ pc[e] = "recvHeader"
      BY LinkAssumption DEF HeaderReceived, InLen
    <3>2. frame[e] \in 1..Len(msgs[Peer(e)])
      BY <3>1, <2>2 DEF FrameIds, TypeInv
    <3> QED
      BY <2>2, <3>2, PeerType, ElementOfSeq DEF HeaderRead, TypeInv, TypeOK
  <2> QED
    BY <2>1, <2>2
<1>3. m.size \in Sizes /\ m.zero \in BOOLEAN /\ RecvSize(m) \in Sizes \cup {0, PtrLen}
  BY <1>2 DEF Message, RecvSize
<1>4. /\ recvBufSize' \in [End -> Sizes \cup {0}]
      /\ recvSize' \in [End -> Sizes \cup {0, PtrLen}]
      /\ zero' \in [End -> BOOLEAN]
  BY <1>1, <1>3 DEF TypeInv, TypeOK
<1>5. "recvData" \in Pc
  BY DEF Pc, Receiving
<1> QED
  BY <1>4, <1>5, TypeStay DEF HeaderReceived, TypeInv, TypeOK, tcp, hist

LEMMA TypeDataReceived ==
  ASSUME TypeInv, NEW e \in End, DataReceived(e)
  PROVE  TypeInv'
<1>1. PICK r \in {"PARTIAL", "SUCCESS"} : Return(e, r)
  BY DEF DataReceived
<1>2. r \in Status
  BY DEF Status
<1> DEFINE size == IF zero[e] THEN recvBufSize[e] ELSE done[e]
           item == [id |-> frame[e], size |-> size, len |-> done[e]]
<1>3. CASE UNCHANGED got
  BY <1>1, <1>2, <1>3, TypeReturn DEF DataReceived, TypeInv, TypeOK, tcp, link
<1>4. CASE got' # got
  <2>1. ~(~zero[e] /\ done[e] # recvBufSize[e]) /\ got' = [got EXCEPT ![e] = Append(@, item)]
    BY <1>4 DEF DataReceived
  <2>2. size \in Sizes \cup {0} /\ frame[e] \in Nat /\ done[e] \in Nat
    BY <2>1 DEF TypeInv, TypeOK
  <2>3. item \in Result
    <3> HIDE DEF size
    <3> QED
      BY <2>2, Zenon DEF Result
  <2>4. got' \in [End -> Seq(Result)]
    <3> HIDE DEF item
    <3> QED
      BY <2>1, <2>3 DEF TypeInv, TypeOK
  <2> QED
    BY <1>1, <1>2, <2>4, TypeReturn DEF DataReceived, TypeInv, TypeOK, tcp, link
<1> QED
  BY <1>3, <1>4

LEMMA TypeNotify ==
  ASSUME TypeInv, NEW e \in End, NotifySend(e) \/ NotifyRecv(e)
  PROVE  TypeInv'
<1> DEFINE nop(h) == IF h = "nop" THEN "SUCCESS" ELSE "ERROR"
<1>1. \A h : nop(h) \in Status
  BY DEF Status
<1> HIDE DEF nop
<1>2. CASE NotifySend(e)
  <2>1. CASE NotifySendHandler(e) = "ack" /\ fdAccepted[e]
    <3>1. Enter(e, "notifySend") /\ acks' = [acks EXCEPT ![e] = @ + 1]
      BY <1>2, <2>1 DEF NotifySend
    <3>2. acks' \in [End -> Nat] /\ "notifySend" \in Pc
      BY <3>1 DEF TypeInv, TypeOK, Pc, Sending
    <3> QED
      BY <1>2, <3>1, <3>2, TypeStay DEF NotifySend, TypeInv, TypeOK, tcp, link
  <2>2. CASE ~(NotifySendHandler(e) = "ack" /\ fdAccepted[e])
    <3>1. Return(e, nop(NotifySendHandler(e))) /\ UNCHANGED <<tcp, link, hist>>
      BY <1>2, <2>2 DEF NotifySend, nop, hist
    <3> QED
      BY <3>1, <1>1, TypeReturnOnly
  <2> QED
    BY <2>1, <2>2
<1>3. CASE NotifyRecv(e)
  <2>1. CASE Enter(e, "notifyRecv")
    BY <1>3, <2>1, TypeEnterOnly DEF NotifyRecv, Pc, Receiving
  <2>2. CASE Return(e, nop(NotifyRecvHandler(e)))
    BY <1>1, <1>3, <2>2, TypeReturnOnly DEF NotifyRecv
  <2> QED
    BY <1>3, <2>1, <2>2 DEF NotifyRecv, nop
<1> QED
  BY <1>2, <1>3

\* The steps that only change the thread: what is moved on, and to where.
LEMMA TypeThreadSteps ==
  ASSUME TypeInv, NEW e \in End,
         \/ HeaderSent(e) \/ DataSent(e) \/ AckSent(e) \/ AckReceived(e)
         \/ SendTimesOut(e) \/ RecvTimesOut(e) \/ AcceptTimesOut(e)
  PROVE  TypeInv'
<1>1. UNCHANGED <<tcp, link, hist>>
  BY DEF HeaderSent, DataSent, AckSent, AckReceived, SendTimesOut, RecvTimesOut, AcceptTimesOut
<1>2. \/ pc[e] \in {"sendHeader", "sendData"} /\ Enter(e, "sendData")
      \/ \E p \in {"recvAck", "recvHeader"} : Enter(e, p)
      \/ \E r \in {"SUCCESS", "ERROR", "TIMEOUT", "PARTIAL"} : Return(e, r)
  <2>1. CASE HeaderSent(e)
    BY <2>1 DEF HeaderSent
  <2>2. CASE DataSent(e)
    BY <2>2 DEF DataSent
  <2>3. CASE AckSent(e)
    BY <2>3 DEF AckSent
  <2>4. CASE AckReceived(e)
    BY <2>4 DEF AckReceived
  <2>5. CASE SendTimesOut(e)
    <3>1. done[e] \in Nat /\ pc[e] \in {"sendHeader", "sendData", "sendAck", "notifySend"}
      BY <2>5 DEF SendTimesOut, Sending, TypeInv, TypeOK
    <3>2. CASE done[e] = 0
      BY <2>5, <3>1, <3>2 DEF SendTimesOut
    <3>3. CASE done[e] > 0
      BY <2>5, <3>1, <3>3 DEF SendTimesOut
    <3> QED
      BY <3>1, <3>2, <3>3
  <2>6. CASE RecvTimesOut(e) \/ AcceptTimesOut(e)
    BY <2>6 DEF RecvTimesOut, AcceptTimesOut
  <2> QED
    BY <2>1, <2>2, <2>3, <2>4, <2>5, <2>6
<1>3. \A p \in {"sendData", "recvAck", "recvHeader"} : p \in Pc
  BY DEF Pc, Sending, Receiving
<1>4. \A r \in {"SUCCESS", "ERROR", "TIMEOUT", "PARTIAL"} : r \in Status
  BY DEF Status
<1>5. pc[e] \in {"sendHeader", "sendData"} => msgs[e] # <<>>
  BY DEF TypeInv, SendingHasMsg
<1> QED
  BY <1>1, <1>2, <1>3, <1>4, <1>5, TypeEnterOnly, TypeReturnOnly

LEMMA TypeDeinit ==
  ASSUME TypeInv, NEW e \in End, Deinit(e)
  PROVE  TypeInv'
<1>1. sock' \in [End -> SockState] /\ UNCHANGED <<thread, link, hist>>
  BY DEF Deinit, TypeInv, TypeOK, SockState
<1>2. CASE UNCHANGED wire
  BY <1>1, <1>2 DEF TypeInv, TypeOK, SendingHasMsg, WireIds, FrameIds, thread, link, hist
<1>3. CASE ~UNCHANGED wire
  <2>1. PICK k \in 0..Len(wire[e]) :
          wire' = [wire EXCEPT ![Peer(e)] = <<>>, ![e] = SubSeq(@, 1, k)]
    BY <1>3 DEF Deinit
  <2>2. wire[e] \in Seq(Unit) /\ Len(wire[e]) \in Nat
    BY LenProperties DEF TypeInv, TypeOK
  <2>3. /\ SubSeq(wire[e], 1, k) \in Seq(Unit)
        /\ Len(SubSeq(wire[e], 1, k)) = k
        /\ \A i \in 1..k : SubSeq(wire[e], 1, k)[i] = wire[e][i]
    <3>1. \A i \in 1..k : wire[e][i] \in Unit
      BY <2>2, ElementOfSeq
    <3> QED
      BY <2>2, <3>1, SubSeqProperties
  <2>4. wire'[e] = SubSeq(wire[e], 1, k) /\ wire'[Peer(e)] = <<>>
    BY <2>1, PeerType DEF TypeInv, TypeOK
  <2>5. \A d \in End : d = e \/ d = Peer(e)
    BY DEF End, Peer
  <2>6. wire' \in [End -> Seq(Unit)]
    <3>1. \A d \in End : wire'[d] \in Seq(Unit)
      BY <2>3, <2>4, <2>5, EmptySeq
    <3> QED
      BY <3>1, <2>1 DEF TypeInv, TypeOK
  <2>7. WireIds'
    <3> SUFFICES ASSUME NEW d \in End, NEW i \in 1..Len(wire'[d]), wire'[d][i].kind = "frame"
                 PROVE  wire'[d][i].id \in 1..Len(msgs[d])
      BY <1>1 DEF WireIds, hist
    <3>1. d = e
      BY <2>4, <2>5
    <3>2. i \in 1..Len(wire[e]) /\ wire'[e][i] = wire[e][i]
      BY <3>1, <2>2, <2>3, <2>4
    <3> QED
      BY <3>1, <3>2 DEF WireIds, TypeInv
  <2> QED
    BY <1>1, <2>6, <2>7 DEF TypeInv, TypeOK, SendingHasMsg, FrameIds, thread, link, hist
<1> QED
  BY <1>2, <1>3

LEMMA TypePeerGone ==
  ASSUME TypeInv, NEW e \in End,
         PeerClosed(e) \/ RecvReset(e) \/ SendToClosed(e) \/ SendReset(e)
  PROVE  TypeInv'
<1>1. CASE PeerClosed(e)
  BY <1>1 DEF PeerClosed, TypeInv, TypeOK, SendingHasMsg, WireIds, FrameIds,
              tcp, link, hist, Pc
<1>2. CASE RecvReset(e)
  <2>1. sock' \in [End -> SockState]
    BY <1>2 DEF RecvReset, TypeInv, TypeOK, SockState
  <2> QED
    BY <1>2, <2>1, TypeReturn DEF RecvReset, TypeInv, TypeOK, Status, link, hist
<1>3. CASE SendToClosed(e)
  <2>1. sock' \in [End -> SockState] /\ done' \in [End -> Nat]
    <3>1. /\ sock' = [sock EXCEPT ![Peer(e)] = "reset"] \/ UNCHANGED sock
          /\ done' = [done EXCEPT ![e] = @ + 1]
      BY <1>3 DEF SendToClosed
    <3>2. sock' \in [End -> SockState]
      BY <3>1 DEF TypeInv, TypeOK, SockState
    <3>3. done' \in [End -> Nat]
      BY <3>1 DEF TypeInv, TypeOK
    <3> QED
      BY <3>2, <3>3
  <2>2. TypeOK' /\ SendingHasMsg' /\ WireIds'
    BY <1>3, <2>1 DEF SendToClosed, TypeInv, TypeOK, SendingHasMsg, WireIds, link, hist
  <2>3. FrameIds'
    BY <1>3 DEF SendToClosed, TypeInv, TypeOK, FrameIds, hist, Sending
  <2> QED
    BY <2>2, <2>3 DEF TypeInv
<1>4. CASE SendReset(e)
  <2>1. CASE Return(e, "ERROR") /\ sock' = [sock EXCEPT ![Peer(e)] = "gone"]
    <3>1. sock' \in [End -> SockState]
      BY <2>1 DEF TypeInv, TypeOK, SockState
    <3> QED
      BY <1>4, <2>1, <3>1, TypeReturn DEF SendReset, TypeInv, TypeOK, Status, link, hist
  <2>2. CASE pc' = [pc EXCEPT ![e] = "killed"] /\ UNCHANGED <<done, status, sock>>
    BY <1>4, <2>2 DEF SendReset, TypeInv, TypeOK, SendingHasMsg, WireIds, FrameIds,
                      link, hist, Pc
  <2> QED
    BY <1>4, <2>1, <2>2 DEF SendReset
<1> QED
  BY <1>1, <1>2, <1>3, <1>4

LEMMA TypeStep == TypeInv /\ [Next]_vars => TypeInv'
<1> SUFFICES ASSUME TypeInv, [Next]_vars PROVE TypeInv'
  OBVIOUS
<1>1. CASE UNCHANGED vars
  BY <1>1 DEF vars, thread, tcp, link, hist, TypeInv, TypeOK, SendingHasMsg,
              WireIds, FrameIds
<1>2. ASSUME NEW e \in End, Progress(e) PROVE TypeInv'
  BY <1>2, TypePush, TypePull, TypeAccept, TypeHeaderReceived, TypeDataReceived,
     TypeThreadSteps, TypePeerGone DEF Progress, Works
<1>3. ASSUME NEW e \in End, Call(e) PROVE TypeInv'
  BY <1>3, TypeInitSocket, TypeDeinit, TypeRecv, TypeNotify, TypeSend DEF Call
<1> QED
  BY <1>1, <1>2, <1>3 DEF Next

(* Every variable keeps its type, whatever the flags, the timeouts and the *)
(* moments at which the ends are closed (SocketLink!Spec).                 *)
THEOREM TypeCorrect == Spec => []TypeOK
<1>1. Init => TypeInv
  BY TypeInit
<1>2. TypeInv /\ [Next]_vars => TypeInv'
  BY TypeStep
<1>3. TypeInv => TypeOK
  BY DEF TypeInv
<1> QED
  BY <1>1, <1>2, <1>3, PTL DEF Spec
=============================================================================
