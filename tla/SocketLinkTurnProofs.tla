------------------------ MODULE SocketLinkTurnProofs ------------------------
(* Autonotify at both ends: the two threads take turns until one of them    *)
(* closes its end (TurnInv), and with that StopAndWait, AckedIsTaken,       *)
(* NoCircularWait and ClosesInOrder.                                        *)
EXTENDS SocketLinkAckProofs

LEMMA UntimedStep ==
  ASSUME Untimed
  PROVE  Timely
  BY DEF Untimed, Timely, SendTimesOut, RecvTimesOut

-----------------------------------------------------------------------------
(* The connection, and what is on the wire. *)

\* A message that has been begun stays begun.
LEMMA MsgsGrow ==
  ASSUME TypeInv, Timely, NEW e \in End, Progress(e) \/ Call(e)
  PROVE  /\ Len(msgs["tx"]) <= Len(msgs'["tx"])
         /\ msgs["tx"] # <<>> => msgs'["tx"] # <<>>
<1>0. "tx" \in End /\ msgs \in [End -> Seq(Message)] /\ Len(msgs["tx"]) \in Nat
  BY TypeFacts DEF TypeInv, TypeOK, End
<1>1. CASE UNCHANGED msgs
  BY <1>0, <1>1
<1>2. ASSUME NEW n \in Sizes, Send(e, n), ~UNCHANGED msgs
      PROVE  /\ Len(msgs["tx"]) <= Len(msgs'["tx"])
             /\ msgs["tx"] # <<>> => msgs'["tx"] # <<>>
  <2>1. PICK m : m = [size |-> n, zero |-> zero[e]]
    OBVIOUS
  <2>2. msgs' = [msgs EXCEPT ![e] = Append(@, m)]
    BY <1>2, <2>1 DEF Send, hist
  <2>3. m \in Message
    BY <2>1 DEF Message, TypeInv, TypeOK
  <2>4. msgs'["tx"] = msgs["tx"] \/ msgs'["tx"] = Append(msgs["tx"], m)
    BY <1>0, <2>2
  <2>5. Len(Append(msgs["tx"], m)) = Len(msgs["tx"]) + 1 /\ Append(msgs["tx"], m) # <<>>
    BY <1>0, <2>3, AppendProperties
  <2> QED
    BY <1>0, <2>4, <2>5
<1>3. CASE Progress(e)
  BY <1>1, <1>3 DEF Progress, Works, Push, Pull, HeaderSent, DataSent, Accept, HeaderReceived, DataReceived,
              AckSent, AckReceived, SendTimesOut, RecvTimesOut, AcceptTimesOut, PeerClosed,
              RecvReset, SendToClosed, SendReset, hist
<1>4. CASE Call(e) /\ ~\E n \in Sizes : Send(e, n)
  BY <1>1, <1>4 DEF Call, InitSocket, Deinit, Recv, NotifySend, NotifyRecv, hist
<1> QED
  BY <1>1, <1>2, <1>3, <1>4

\* What a step of e does to the connection of e.
Connects(e) ==
  /\ pc'[e] \in Sending \cup Receiving => fdAccepted'[e]
  /\ fdAccepted[e] => fdAccepted'[e]
  /\ fdAccepted'[e] /\ ~fdAccepted[e] =>
       IF e = "tx" THEN msgs'["tx"] # <<>> ELSE fdAccepted["tx"]
  /\ e = "tx" => pc'[e] # "accept"

LEMMA ConnectsStep ==
  ASSUME TypeInv, FramingInv, Timely, Connected, NEW e \in End, Progress(e) \/ Call(e)
  PROVE  Connects(e)
<1>0. /\ Peer(e) \in End /\ e \in {"tx", "rx"} /\ "tx" \in End
      /\ pc \in [End -> Pc] /\ fdAccepted \in [End -> BOOLEAN]
      /\ msgs \in [End -> Seq(Message)]
  BY DEF End, Peer, TypeInv, TypeOK
<1>1. /\ pc["tx"] # "accept"
      /\ pc[e] \in Sending \cup Receiving => fdAccepted[e]
  BY DEF Connected
\* the handler goes on, or the call ends
<1>2. ASSUME fdAccepted' = fdAccepted, pc[e] \in Sending \cup Receiving, pc'[e] # "accept"
      PROVE  Connects(e)
  BY <1>1, <1>2 DEF Connects
<1>3. ASSUME fdAccepted' = fdAccepted, pc'[e] \notin Sending \cup Receiving \cup {"accept"}
      PROVE  Connects(e)
  BY <1>3 DEF Connects
<1>4. CASE Push(e) \/ Pull(e)
  BY <1>2, <1>4 DEF Push, Pull, link, Sending, Receiving
<1>5. CASE HeaderSent(e) \/ DataSent(e) \/ AckSent(e) \/ AckReceived(e)
  <2>1. fdAccepted' = fdAccepted /\ pc[e] \in Sending \cup Receiving
    BY <1>5 DEF HeaderSent, DataSent, AckSent, AckReceived, link, Sending, Receiving
  <2>2. pc'[e] \in {"sendData", "recvAck", "recvHeader", "idle"}
    BY <1>0, <1>5 DEF HeaderSent, DataSent, AckSent, AckReceived, Enter, Return
  <2> QED
    BY <1>2, <2>1, <2>2
<1>6. CASE HeaderReceived(e) \/ DataReceived(e)
  <2>1. fdAccepted' = fdAccepted /\ pc[e] \in Sending \cup Receiving
    BY <1>6 DEF HeaderReceived, DataReceived, link, Receiving
  <2>2. pc'[e] \in {"recvData", "idle"}
    BY <1>0, <1>6 DEF HeaderReceived, DataReceived, Enter, Return
  <2> QED
    BY <1>2, <2>1, <2>2
<1>7. CASE RecvTimesOut(e) \/ AcceptTimesOut(e)
  <2>1. fdAccepted' = fdAccepted /\ pc'[e] = "idle"
    BY <1>0, <1>7 DEF RecvTimesOut, AcceptTimesOut, Return, link
  <2> QED
    BY <1>3, <2>1 DEF Sending, Receiving
<1>8. CASE PeerClosed(e) \/ RecvReset(e) \/ SendToClosed(e) \/ SendReset(e)
  <2>1. fdAccepted' = fdAccepted /\ pc[e] \in Sending \cup Receiving
    BY <1>8 DEF PeerClosed, RecvReset, SendToClosed, SendReset, link
  <2>2. pc'[e] = pc[e] \/ pc'[e] \in {"idle", "spin", "killed"}
    BY <1>0, <1>8 DEF PeerClosed, RecvReset, SendToClosed, SendReset, Return
  <2> QED
    BY <1>2, <2>1, <2>2 DEF Sending, Receiving
<1>9. CASE Accept(e)
  <2>1. e = "rx" /\ fdAccepted["tx"]
    BY <1>0, <1>1, <1>9 DEF Accept, Peer
  <2>2. fdAccepted'[e]
    BY <1>0, <1>9 DEF Accept
  <2> QED
    BY <2>1, <2>2 DEF Connects
<1>10. CASE InitSocket(e)
  <2>1. pc' = pc /\ pc[e] \in {"idle", "accept"} /\ ~fdAccepted[e] /\ ~fdAccepted'[e]
    BY <1>0, <1>10 DEF InitSocket, thread, FramingInv, Pristine
  <2> QED
    BY <1>1, <2>1 DEF Connects, Sending, Receiving
<1>11. CASE Deinit(e)
  BY <1>3, <1>11 DEF Deinit, thread, link, Sending, Receiving
<1>12. CASE Recv(e)
  <2>1. fdAccepted' = fdAccepted /\ pc[e] = "idle"
    BY <1>12 DEF Recv, CanCall, link
  <2>2. CASE fdAccepted[e] /\ AutoSendAck(e)
    <3>1. pc'[e] \in {"sendAck", "recvHeader"}
      BY <1>0, <2>2 DEF AutoSendAck, Enter
    <3> QED
      BY <2>1, <2>2, <3>1 DEF Connects
  <2>3. CASE e = "rx" /\ Enter(e, "accept")
    <3>1. pc'[e] = "accept"
      BY <1>0, <2>3 DEF Enter
    <3> QED
      BY <2>1, <2>3, <3>1 DEF Connects, Sending, Receiving
  <2>4. CASE Return(e, "ERROR")
    <3>1. pc'[e] = "idle"
      BY <1>0, <2>4 DEF Return
    <3> QED
      BY <1>3, <2>1, <3>1 DEF Sending, Receiving
  <2> QED
    BY <1>12, <2>2, <2>3, <2>4 DEF Recv
<1>13. CASE NotifySend(e) \/ NotifyRecv(e)
  <2>1. fdAccepted' = fdAccepted
    BY <1>13 DEF NotifySend, NotifyRecv, link
  <2>2. \/ fdAccepted[e] /\ (Enter(e, "notifySend") \/ Enter(e, "notifyRecv"))
        \/ \E q : Return(e, q)
    BY <1>13, Zenon DEF NotifySend, NotifyRecv
  <2>3. \/ fdAccepted[e] /\ pc'[e] \in {"notifySend", "notifyRecv"}
        \/ pc'[e] = "idle"
    BY <1>0, <2>2 DEF Enter, Return
  <2> QED
    BY <2>1, <2>3 DEF Connects, Sending, Receiving
<1>14. ASSUME NEW n \in Sizes, Send(e, n) PROVE Connects(e)
  <2>1. CASE \E q : Return(e, q) /\ fdAccepted' = fdAccepted
    <3>1. pc'[e] = "idle"
      BY <1>0, <2>1 DEF Return
    <3> QED
      BY <1>3, <2>1, <3>1 DEF Sending, Receiving
  <2>2. CASE /\ ConnectResult(e) = "SUCCESS"
             /\ fdAccepted' = [fdAccepted EXCEPT ![e] = TRUE]
             /\ msgs' = [msgs EXCEPT ![e] = Append(@, [size |-> n, zero |-> zero[e]])]
             /\ Enter(e, "sendHeader")
    <3>1. pc'[e] = "sendHeader" /\ fdAccepted'[e]
      BY <1>0, <2>2 DEF Enter
    <3>2. fdAccepted[e] \/ e = "tx"
      BY <1>0, <2>2 DEF ConnectResult
    <3>3. e = "tx" => msgs'["tx"] # <<>>
      <4>1. PICK m : m = [size |-> n, zero |-> zero[e]]
        OBVIOUS
      <4>2. m \in Message
        BY <4>1 DEF Message, TypeInv, TypeOK
      <4>3. Append(msgs["tx"], m) # <<>>
        BY <1>0, <4>2, AppendProperties
      <4> QED
        BY <1>0, <2>2, <4>1, <4>3
    <3> QED
      BY <1>0, <3>1, <3>2, <3>3 DEF Connects
  <2> QED
    BY <1>14, <2>1, <2>2 DEF Send, link
<1>15. ~SendTimesOut(e)
  BY DEF Timely
<1>16. CASE Progress(e)
  BY <1>4, <1>5, <1>6, <1>7, <1>8, <1>9, <1>15, <1>16, Zenon DEF Progress, Works
<1>17. CASE Call(e)
  BY <1>10, <1>11, <1>12, <1>13, <1>14, <1>17, Zenon DEF Call
<1> QED
  BY <1>16, <1>17

LEMMA ConnectedStep ==
  ASSUME TypeInv, FramingInv, Timely, Connected, NEW e \in End, Progress(e) \/ Call(e)
  PROVE  Connected'
<1>1. Connects(e)
  BY ConnectsStep
<1>2. PeerUntouched(e)
  BY PeerKeeps
<1>3. msgs["tx"] # <<>> => msgs'["tx"] # <<>>
  BY MsgsGrow
<1>4. CASE e = "tx"
  BY <1>1, <1>2, <1>3, <1>4 DEF Connects, PeerUntouched, Peer, Connected, End
<1>5. CASE e = "rx"
  BY <1>1, <1>2, <1>3, <1>5 DEF Connects, PeerUntouched, Peer, Connected, End
<1> QED
  BY <1>4, <1>5 DEF End

\* What a step does to what tx has on the wire.
TxWire ==
  \/ wire'["tx"] = wire["tx"]
  \/ wire'["tx"] = Append(wire["tx"], OutUnit("tx")) /\ pc["tx"] \in Sending
  \/ wire["tx"] # <<>> /\ wire'["tx"] = Tail(wire["tx"])
  \/ wire'["tx"] = <<>>
  \/ \E k \in 0..Len(wire["tx"]) : wire'["tx"] = SubSeq(wire["tx"], 1, k)

LEMMA TxWireStep ==
  ASSUME TypeInv, NEW e \in End, Progress(e) \/ Call(e)
  PROVE  TxWire
<1>0. /\ Peer(e) \in End /\ "tx" \in End /\ wire \in [End -> Seq(Unit)]
      /\ e = "tx" \/ (e = "rx" /\ Peer(e) = "tx")
  BY DEF End, Peer, TypeInv, TypeOK
<1>1. CASE Push(e)
  BY <1>0, <1>1 DEF Push, TxWire
<1>2. CASE Pull(e)
  BY <1>0, <1>2 DEF Pull, TxWire
<1>3. CASE Deinit(e)
  <2>1. CASE UNCHANGED wire
    BY <2>1 DEF TxWire
  <2>2. CASE ~UNCHANGED wire
    <3>1. PICK k \in 0..Len(wire[e]) :
            wire' = [wire EXCEPT ![Peer(e)] = <<>>, ![e] = SubSeq(@, 1, k)]
      BY <1>3, <2>2 DEF Deinit
    <3>2. wire'[e] = SubSeq(wire[e], 1, k) /\ wire'[Peer(e)] = <<>>
      BY <1>0, <3>1 DEF End, Peer
    <3> QED
      BY <1>0, <3>2 DEF TxWire
  <2> QED
    BY <2>1, <2>2
<1>4. CASE UNCHANGED wire
  BY <1>4 DEF TxWire
<1>5. CASE Progress(e)
  BY <1>1, <1>2, <1>4, <1>5
     DEF Progress, Works, HeaderSent, DataSent, Accept, HeaderReceived, DataReceived,
         AckSent, AckReceived, SendTimesOut, RecvTimesOut, AcceptTimesOut, PeerClosed,
         RecvReset, SendToClosed, SendReset, tcp
<1>6. CASE Call(e)
  BY <1>3, <1>4, <1>6 DEF Call, InitSocket, Recv, NotifySend, NotifyRecv, Send, tcp
<1> QED
  BY <1>5, <1>6

LEMMA UnitsBegunStep ==
  ASSUME TypeInv, TypeInv', Timely, UnitsBegun, NEW e \in End, Progress(e) \/ Call(e)
  PROVE  UnitsBegun'
<1>1. PICK w : w = wire["tx"]
  OBVIOUS
<1>2. PICK v : v = wire'["tx"]
  OBVIOUS
<1>3. PICK n : n = Len(msgs["tx"])
  OBVIOUS
<1>4. /\ w \in Seq(Unit) /\ Len(w) \in Nat /\ n \in Nat /\ Len(msgs'["tx"]) \in Nat
      /\ n <= Len(msgs'["tx"])
  BY <1>1, <1>3, TypeFacts, MsgsGrow, LenProperties DEF TypeInv, TypeOK, End
<1>5. \A i \in 1..Len(w) : w[i].kind = "frame" => w[i].id <= n
  BY <1>1, <1>3 DEF UnitsBegun
<1>6. \A i \in 1..Len(w) : w[i] \in Unit
  BY <1>4, ElementOfSeq
<1>7. PICK u : u = OutUnit("tx")
  OBVIOUS
<1>8. /\ pc["tx"] \in Sending => u \in Unit
      /\ u.kind = "frame" => u.id = n
  <2>1. acks["tx"] \in Nat /\ done["tx"] \in Nat /\ HeaderLen \in Nat
    BY LinkAssumption DEF TypeInv, TypeOK, End
  <2> QED
    BY <1>3, <1>4, <1>7, <2>1 DEF OutUnit, Unit
<1>9. \A i \in 1..Len(v) : v[i].kind = "frame" => v[i].id <= n
  <2>1. CASE v = w
    BY <1>5, <2>1
  <2>2. CASE v = Append(w, u) /\ pc["tx"] \in Sending
    <3>1. /\ Len(v) = Len(w) + 1 /\ v[Len(w) + 1] = u
          /\ \A i \in 1..Len(w) : v[i] = w[i]
      BY <1>4, <1>8, <2>2, AppendProperties
    <3> SUFFICES ASSUME NEW i \in 1..Len(v), v[i].kind = "frame" PROVE v[i].id <= n
      OBVIOUS
    <3>2. i = Len(w) + 1 \/ i \in 1..Len(w)
      BY <1>4, <3>1
    <3> QED
      BY <1>4, <1>5, <1>8, <3>1, <3>2
  <2>3. CASE w # <<>> /\ v = Tail(w)
    <3>1. Len(v) = Len(w) - 1 /\ \A i \in 1..Len(v) : v[i] = w[i + 1]
      BY <1>4, <2>3, HeadTailProperties
    <3>2. \A i \in 1..Len(v) : i + 1 \in 1..Len(w)
      BY <1>4, <3>1
    <3> QED
      BY <1>5, <3>1, <3>2
  <2>4. CASE v = <<>>
    BY <2>4
  <2>5. ASSUME NEW k \in 0..Len(w), v = SubSeq(w, 1, k)
        PROVE  \A i \in 1..Len(v) : v[i].kind = "frame" => v[i].id <= n
    <3>1. \A i \in 1..k : i \in 1..Len(w)
      BY <1>4
    <3>2. Len(v) = k /\ \A i \in 1..k : v[i] = w[i]
      BY <1>4, <1>6, <2>5, <3>1, SubSeqProperties
    <3> QED
      BY <1>5, <3>1, <3>2
  <2> QED
    BY <1>1, <1>2, <1>7, <2>1, <2>2, <2>3, <2>4, <2>5, TxWireStep DEF TxWire
<1>10. \A i \in 1..Len(v) : v[i].kind = "frame" => v[i].id \in Nat
  <2>1. v \in Seq(Unit)
    BY <1>2 DEF TypeInv, TypeOK, End
  <2>2. \A i \in 1..Len(v) : v[i] \in Unit
    BY <2>1, ElementOfSeq
  <2> QED
    BY <2>2 DEF Unit
<1> QED
  BY <1>2, <1>4, <1>9, <1>10 DEF UnitsBegun

-----------------------------------------------------------------------------
(* The two threads. *)

LEMMA AutoFacts ==
  ASSUME Autonotify, Compatible, FramingInv
  PROVE  /\ Notify["tx"] = "autonotify" /\ Notify["rx"] = "autonotify"
         /\ AutoRecvAckSet("tx") /\ AutoSendAckSet("rx")
         /\ ~SendHandlerSet("rx") /\ SendHandlerSet("tx")
         /\ RecvHandlerSet("rx") /\ ~RecvHandlerSet("tx")
         /\ NotifyRecvHandler("tx") = "nop" /\ NotifySendHandler("tx") = "error"
         /\ NotifyRecvHandler("rx") = "error" /\ NotifySendHandler("rx") = "nop"
<1>1. Notify["tx"] = "autonotify" /\ Notify["rx"] = "autonotify"
  BY DEF Autonotify, End
<1>2. AutoRecvAckSet("tx") /\ AutoSendAckSet("rx") /\ ~SendHandlerSet("rx") /\ SendHandlerSet("tx")
      /\ RecvHandlerSet("rx") /\ ~RecvHandlerSet("tx")
  BY <1>1 DEF AutoRecvAckSet, AutoSendAckSet, SendHandlerSet, RecvHandlerSet
<1>3. NotifyRecvHandler("tx") = "nop" /\ NotifySendHandler("tx") = "error"
      /\ NotifyRecvHandler("rx") = "error" /\ NotifySendHandler("rx") = "nop"
  BY <1>1 DEF NotifyRecvHandler, NotifySendHandler
<1> QED
  BY <1>1, <1>2, <1>3

\* A step that finds the other end closed.
FindsClosed(e) ==
  PeerClosed(e) \/ RecvReset(e) \/ SendToClosed(e) \/ SendReset(e)

\* Only icom_deinit closes an end that is not closed.
LEMMA LiveStep ==
  ASSUME TypeInv, NEW e \in End, Progress(e) \/ Call(e), NEW d \in End
  PROVE  /\ sock'[d] \in {"new", "open"} => sock[d] \in {"new", "open"}
         /\ sock[d] \in {"new", "open"} /\ ~(e = d /\ Deinit(e)) => sock'[d] \in {"new", "open"}
         /\ sock[Peer(e)] \in {"new", "open"} => ~FindsClosed(e)
<1>0. Peer(e) \in End /\ sock \in [End -> SockState]
  BY DEF End, Peer, TypeInv, TypeOK
<1>1. sock[Peer(e)] \in {"new", "open"} => ~FindsClosed(e)
  BY DEF FindsClosed, PeerClosed, RecvReset, SendToClosed, SendReset
<1> DEFINE Kept == /\ sock'[d] \in {"new", "open"} => sock[d] \in {"new", "open"}
                   /\ sock[d] \in {"new", "open"} /\ ~(e = d /\ Deinit(e))
                        => sock'[d] \in {"new", "open"}
<1> SUFFICES Kept
  BY <1>1
<1>2. CASE UNCHANGED sock
  BY <1>2
<1>3. CASE InitSocket(e)
  BY <1>0, <1>3 DEF InitSocket
<1>4. CASE Deinit(e)
  <2>1. PICK x \in {"closed", "reset"} : sock' = [sock EXCEPT ![e] = x]
    BY <1>4 DEF Deinit
  <2> QED
    BY <1>0, <1>4, <2>1
<1>5. CASE FindsClosed(e)
  <2>1. \/ UNCHANGED sock
        \/ /\ sock[Peer(e)] \in {"closed", "reset", "gone"}
           /\ \E x \in {"reset", "gone"} : sock' = [sock EXCEPT ![Peer(e)] = x]
    BY <1>5 DEF FindsClosed, PeerClosed, RecvReset, SendToClosed, SendReset, tcp
  <2> QED
    BY <1>0, <1>2, <2>1
<1>6. CASE Progress(e)
  BY <1>2, <1>5, <1>6
     DEF Progress, Works, Push, Pull, HeaderSent, DataSent, Accept, HeaderReceived, DataReceived,
         AckSent, AckReceived, SendTimesOut, RecvTimesOut, AcceptTimesOut, FindsClosed, tcp
<1>7. CASE Call(e)
  BY <1>2, <1>3, <1>4, <1>7 DEF Call, Recv, NotifySend, NotifyRecv, Send, tcp
<1> QED
  BY <1>6, <1>7

LEMMA TxTurnStep ==
  ASSUME TypeInv, TypeInv', FramingInv, Compatible, Untimed, Autonotify, AcksInOrder, TxTurn,
         Progress("tx") \/ Call("tx"), ~Deinit("tx"), ~FindsClosed("tx")
  PROVE  TxTurn'
<1>1. "rx" \in End /\ "tx" \in End /\ Peer("tx") = "rx" /\ "tx" # "rx"
  BY DEF End, Peer
<1>2. /\ ~Deinit("tx") /\ ~PeerClosed("tx") /\ ~RecvReset("tx")
      /\ ~SendToClosed("tx") /\ ~SendReset("tx")
  BY DEF FindsClosed
<1>3. /\ pc["tx"] \in {"idle", "sendHeader", "sendData", "recvAck"}
      /\ frame["tx"] =
           IF pc["tx"] = "idle" \/ AckReading THEN Len(msgs["tx"]) ELSE Len(msgs["tx"]) - 1
  BY DEF TxTurn
<1>4. Notify["tx"] # "none"
  BY <1>1 DEF Autonotify
<1>5. /\ Len(msgs["tx"]) \in Nat /\ done["tx"] \in Nat /\ frame["tx"] \in Nat
      /\ AckLen \in Nat /\ AckLen > 0 /\ msgs["tx"] \in Seq(Message)
  BY <1>1, TypeFacts, AckFacts
<1>6. ASSUME UNCHANGED <<msgs, frame>>, pc["tx"] = "idle", pc'["tx"] = "idle"
      PROVE  TxTurn'
  BY <1>6, <1>3 DEF TxTurn, AckReading
<1>7. CASE Push("tx")
  <2>1. UNCHANGED <<pc, msgs, frame>> /\ pc["tx"] \in {"sendHeader", "sendData"}
    BY <1>7, <1>3 DEF Push, Sending, hist
  <2> QED
    BY <1>3, <2>1 DEF TxTurn, AckReading
<1>8. CASE Pull("tx")
  <2>1. UNCHANGED <<pc, msgs>> /\ pc["tx"] = "recvAck" /\ done'["tx"] = done["tx"] + 1
    BY <1>1, <1>8, <1>3 DEF Pull, Receiving, TypeInv, TypeOK
  <2>2. frame'["tx"] = IF done["tx"] = 0 THEN frame["tx"] + 1 ELSE frame["tx"]
    BY <1>8, <1>4, AckPull
  <2>3. AckReading' /\ (AckReading <=> done["tx"] # 0)
    BY <1>5, <2>1 DEF AckReading
  <2>4. frame'["tx"] = Len(msgs["tx"])
    BY <1>3, <1>5, <2>1, <2>2, <2>3
  <2> QED
    BY <2>1, <2>3, <2>4 DEF TxTurn
<1>9. CASE HeaderSent("tx")
  <2>1. UNCHANGED <<msgs, frame>> /\ pc["tx"] = "sendHeader" /\ pc'["tx"] = "sendData"
    BY <1>1, <1>9 DEF HeaderSent, Enter, hist, TypeInv, TypeOK
  <2> QED
    BY <1>3, <2>1 DEF TxTurn, AckReading
<1>10. CASE DataSent("tx")
  <2>1. /\ UNCHANGED <<msgs, frame>> /\ pc["tx"] = "sendData"
        /\ pc'["tx"] = "recvAck" /\ done'["tx"] = 0
    BY <1>1, <1>10, AutoFacts DEF DataSent, Enter, hist, TypeInv, TypeOK
  <2> QED
    BY <1>3, <2>1 DEF TxTurn, AckReading
<1>11. CASE AckReceived("tx")
  <2>1. UNCHANGED <<msgs, frame>> /\ pc["tx"] = "recvAck" /\ done["tx"] = AckLen
    BY <1>11, <1>3 DEF AckReceived, InLen, hist
  <2>2. pc'["tx"] = "idle"
    BY <1>1, <1>11 DEF AckReceived, Return, TypeInv, TypeOK
  <2> QED
    BY <1>3, <1>5, <2>1, <2>2 DEF TxTurn, AckReading
<1>12. CASE Accept("tx") \/ HeaderReceived("tx") \/ DataReceived("tx") \/ AckSent("tx")
  BY <1>12, <1>3 DEF Accept, HeaderReceived, DataReceived, AckSent
<1>13. CASE SendTimesOut("tx") \/ RecvTimesOut("tx") \/ AcceptTimesOut("tx")
  BY <1>1, <1>13 DEF Untimed, SendTimesOut, RecvTimesOut, AcceptTimesOut
<1>14. CASE InitSocket("tx")
  <2>1. UNCHANGED <<pc, done, msgs, frame>>
    BY <1>14 DEF InitSocket, thread, hist
  <2> QED
    BY <1>3, <2>1 DEF TxTurn, AckReading
<1>15. CASE Recv("tx") \/ NotifySend("tx") \/ NotifyRecv("tx")
  <2>1. pc["tx"] = "idle" /\ UNCHANGED <<msgs, frame>>
    BY <1>15 DEF Recv, NotifySend, NotifyRecv, CanCall, hist
  <2>2. \E q : Return("tx", q)
    BY <1>15, AutoFacts, Zenon DEF Recv, NotifySend, NotifyRecv
  <2>3. pc'["tx"] = "idle"
    BY <1>1, <2>2 DEF Return, TypeInv, TypeOK
  <2> QED
    BY <1>6, <2>1, <2>3
<1>16. ASSUME NEW n \in Sizes, Send("tx", n) PROVE TxTurn'
  <2>1. pc["tx"] = "idle" /\ frame' = frame
    BY <1>16 DEF Send, CanCall, hist
  <2>2. CASE UNCHANGED msgs /\ \E q : Return("tx", q)
    <3>1. pc'["tx"] = "idle"
      BY <1>1, <2>2 DEF Return, TypeInv, TypeOK
    <3> QED
      BY <1>6, <2>1, <2>2, <3>1
  <2>3. CASE /\ msgs' = [msgs EXCEPT !["tx"] = Append(@, [size |-> n, zero |-> zero["tx"]])]
             /\ Enter("tx", "sendHeader")
    <3>1. pc'["tx"] = "sendHeader"
      BY <1>1, <2>3 DEF Enter, TypeInv, TypeOK
    <3>2. msgs'["tx"] = Append(msgs["tx"], [size |-> n, zero |-> zero["tx"]])
      BY <1>1, <2>3 DEF TypeInv, TypeOK
    <3>3. Len(msgs'["tx"]) = Len(msgs["tx"]) + 1
      BY <1>5, <3>2
    <3> QED
      BY <1>3, <1>5, <2>1, <3>1, <3>3 DEF TxTurn, AckReading
  <2> QED
    BY <1>16, <2>2, <2>3 DEF Send, hist
<1>17. CASE Progress("tx")
  BY <1>7, <1>8, <1>9, <1>10, <1>11, <1>12, <1>13, <1>2, <1>17, Zenon DEF Progress, Works
<1>18. CASE Call("tx")
  BY <1>14, <1>15, <1>16, <1>2, <1>18, Zenon DEF Call
<1> QED
  BY <1>17, <1>18

LEMMA RxTurnStep ==
  ASSUME TypeInv, TypeInv', FramingInv, Compatible, Untimed, Autonotify, Connected, RxTurn,
         Progress("rx") \/ Call("rx"), ~Deinit("rx"), ~FindsClosed("rx")
  PROVE  RxTurn'
<1>1. "rx" \in End /\ "tx" \in End /\ Peer("rx") = "tx" /\ "tx" # "rx"
  BY DEF End, Peer
<1>2. /\ ~Deinit("rx") /\ ~PeerClosed("rx") /\ ~RecvReset("rx")
      /\ ~SendToClosed("rx") /\ ~SendReset("rx")
  BY DEF FindsClosed
<1>3. /\ pc["rx"] \in {"idle", "accept", "sendAck", "recvHeader", "recvData"}
      /\ ackArmed["rx"] <=> fdAccepted["rx"]
      /\ pc["rx"] = "accept" => ~fdAccepted["rx"]
      /\ pc["rx"] \in {"sendAck", "recvHeader", "recvData"} => fdAccepted["rx"]
      /\ ~fdAccepted["rx"] => acks["rx"] = 0 /\ Len(got["rx"]) = 0
      /\ fdAccepted["rx"] =>
           Len(got["rx"]) = IF pc["rx"] = "idle" THEN acks["rx"] + 1 ELSE acks["rx"]
  BY <1>1 DEF RxTurn, Connected, Sending, Receiving
<1>4. /\ Len(got["rx"]) \in Nat /\ acks["rx"] \in Nat
  BY <1>1, TypeFacts, AckFacts
<1>5. ASSUME UNCHANGED <<ackArmed, fdAccepted, acks, got>>, pc'["rx"] = pc["rx"]
      PROVE  RxTurn'
  BY <1>5, <1>3 DEF RxTurn
<1>6. CASE Push("rx") \/ Pull("rx")
  BY <1>6, <1>5 DEF Push, Pull, link, hist
<1>7. CASE AckSent("rx")
  <2>1. UNCHANGED <<ackArmed, fdAccepted, acks, got>> /\ pc["rx"] = "sendAck"
    BY <1>7, <1>3 DEF AckSent, link, hist
  <2>2. pc'["rx"] = "recvHeader"
    BY <1>1, <1>7, <2>1 DEF AckSent, Enter, TypeInv, TypeOK
  <2> QED
    BY <1>3, <2>1, <2>2 DEF RxTurn
<1>8. CASE HeaderReceived("rx")
  <2>1. UNCHANGED <<ackArmed, fdAccepted, acks, got>> /\ pc["rx"] = "recvHeader"
    BY <1>8 DEF HeaderReceived, hist
  <2>2. pc'["rx"] = "recvData"
    BY <1>1, <1>8 DEF HeaderReceived, Enter, TypeInv, TypeOK
  <2> QED
    BY <1>3, <2>1, <2>2 DEF RxTurn
<1>9. CASE DataReceived("rx")
  <2>1. /\ UNCHANGED <<ackArmed, fdAccepted, acks>> /\ pc["rx"] = "recvData" /\ pc'["rx"] = "idle"
        /\ got'["rx"] = Append(got["rx"], Returned("rx", frame["rx"]))
    <3>1. UNCHANGED <<ackArmed, fdAccepted, acks>> /\ pc["rx"] = "recvData"
      BY <1>9 DEF DataReceived, link
    <3>2. pc'["rx"] = "idle" /\ got' = [got EXCEPT !["rx"] = Append(@, Returned("rx", frame["rx"]))]
      BY <1>1, <1>9, NextDelivered
    <3>3. got \in [End -> Seq(Result)]
      BY DEF TypeInv, TypeOK
    <3> QED
      BY <1>1, <3>1, <3>2, <3>3
  <2>2. Len(got'["rx"]) = Len(got["rx"]) + 1
    BY <1>1, <2>1, TypeFacts
  <2> QED
    BY <1>3, <1>4, <2>1, <2>2 DEF RxTurn
<1>10. CASE HeaderSent("rx") \/ DataSent("rx") \/ AckReceived("rx")
  BY <1>10, <1>3 DEF HeaderSent, DataSent, AckReceived
<1>11. CASE SendTimesOut("rx") \/ RecvTimesOut("rx") \/ AcceptTimesOut("rx")
  BY <1>1, <1>11 DEF Untimed, SendTimesOut, RecvTimesOut, AcceptTimesOut
<1>12. CASE Accept("rx")
  <2>1. /\ pc["rx"] = "accept" /\ fdAccepted' = [fdAccepted EXCEPT !["rx"] = TRUE] /\ got' = got
        /\ AutoSendAck("rx")
    BY <1>12 DEF Accept
  <2>2. ~fdAccepted["rx"] /\ ~ackArmed["rx"] /\ acks["rx"] = 0 /\ Len(got["rx"]) = 0
    BY <1>3, <2>1
  <2>3. /\ pc'["rx"] = "recvHeader" /\ ackArmed'["rx"] /\ acks' = acks
    BY <1>1, <2>1, <2>2, AutoFacts DEF AutoSendAck, Enter, TypeInv, TypeOK
  <2>4. fdAccepted'["rx"]
    BY <1>1, <2>1 DEF TypeInv, TypeOK
  <2> QED
    BY <2>1, <2>2, <2>3, <2>4 DEF RxTurn
<1>13. CASE InitSocket("rx")
  <2>1. /\ UNCHANGED <<pc, acks, got>> /\ sock["rx"] = "new"
        /\ ~fdAccepted'["rx"] /\ ~ackArmed'["rx"]
    BY <1>1, <1>13 DEF InitSocket, thread, hist, TypeInv, TypeOK
  <2>2. ~fdAccepted["rx"] /\ pc["rx"] \in {"idle", "accept"}
    BY <1>1, <2>1 DEF FramingInv, Pristine
  <2> QED
    BY <1>3, <2>1, <2>2 DEF RxTurn
<1>14. CASE Recv("rx")
  <2>1. pc["rx"] = "idle" /\ UNCHANGED <<got, fdAccepted>>
    BY <1>14 DEF Recv, CanCall, hist, link
  <2>2. CASE fdAccepted["rx"]
    <3>1. AutoSendAck("rx") /\ ackArmed["rx"]
      BY <1>14, <1>3, <2>2, AutoFacts DEF Recv
    <3>2. /\ pc'["rx"] = "sendAck" /\ acks'["rx"] = acks["rx"] + 1 /\ ackArmed' = ackArmed
      BY <1>1, <3>1, AutoFacts DEF AutoSendAck, Enter, TypeInv, TypeOK
    <3> QED
      BY <1>3, <2>1, <2>2, <3>1, <3>2 DEF RxTurn
  <2>3. CASE ~fdAccepted["rx"]
    <3>1. UNCHANGED <<ackArmed, acks>> /\ Enter("rx", "accept")
      BY <1>1, <1>14, <2>3, AutoFacts DEF Recv, link, hist
    <3>2. pc'["rx"] = "accept"
      BY <1>1, <3>1 DEF Enter, TypeInv, TypeOK
    <3> QED
      BY <1>3, <2>1, <2>3, <3>1, <3>2 DEF RxTurn
  <2> QED
    BY <2>2, <2>3
<1>15. CASE NotifySend("rx") \/ NotifyRecv("rx") \/ \E n \in Sizes : Send("rx", n)
  <2>1. pc["rx"] = "idle"
    BY <1>15, Zenon DEF NotifySend, NotifyRecv, Send, CanCall
  <2>2. UNCHANGED <<ackArmed, fdAccepted, acks, got>> /\ \E q : Return("rx", q)
    <3>1. CASE NotifySend("rx")
      BY <3>1, AutoFacts, Zenon DEF NotifySend, link
    <3>2. CASE NotifyRecv("rx")
      BY <3>2, AutoFacts, Zenon DEF NotifyRecv, link, hist
    <3>3. CASE \E n \in Sizes : Send("rx", n)
      BY <3>3, AutoFacts DEF Send, link, hist
    <3> QED
      BY <1>15, <3>1, <3>2, <3>3
  <2>3. pc'["rx"] = "idle"
    BY <1>1, <2>2 DEF Return, TypeInv, TypeOK
  <2> QED
    BY <1>5, <2>1, <2>2, <2>3
<1>16. CASE Progress("rx")
  BY <1>6, <1>7, <1>8, <1>9, <1>10, <1>11, <1>12, <1>2, <1>16, Zenon DEF Progress, Works
<1>17. CASE Call("rx")
  BY <1>13, <1>14, <1>15, <1>2, <1>17, Zenon DEF Call
<1> QED
  BY <1>16, <1>17

-----------------------------------------------------------------------------
(* The sender closes its end. *)

\* A receiver that has returned every message is in front of the next one, and
\* nothing is on the wire.
LEMMA AllReturned ==
  ASSUME TypeInv, FramingInv, UnitsBegun, Len(got["rx"]) = Len(msgs["tx"])
  PROVE  /\ pc["rx"] # "recvData"
         /\ pc["rx"] = "recvHeader" => done["rx"] = 0
         /\ ReceiverAt("tx") = <<Len(msgs["tx"]), 0>>
         /\ wire["tx"] = <<>>
<1>0. "tx" \in End /\ "rx" \in End /\ Peer("tx") = "rx" /\ FrameDir("tx")
  BY DEF End, Peer, FrameDir
<1>1. PICK n : n = Len(msgs["tx"])
  OBVIOUS
<1>2. n \in Nat /\ done["rx"] \in Nat /\ Len(wire["tx"]) \in Nat /\ wire["tx"] \in Seq(Unit)
  BY <1>0, <1>1, TypeFacts, LenProperties DEF TypeInv, TypeOK
<1>3. InMessage("tx") /\ Contiguous("tx")
  BY <1>0 DEF FramingInv
<1>4. /\ pc["rx"] # "recvData"
      /\ pc["rx"] = "recvHeader" => done["rx"] = 0
  BY <1>0, <1>1, <1>2, <1>3 DEF InMessage
<1>5. ReceiverAt("tx") = <<n, 0>>
  BY <1>0, <1>1, <1>4 DEF ReceiverAt, At
<1>6. ASSUME wire["tx"] # <<>> PROVE FALSE
  <2>1. 1 \in 1..Len(wire["tx"]) /\ 1 - 1 = 0
    BY <1>2, <1>6, EmptySeq
  <2>2. PICK u : u = wire["tx"][1]
    OBVIOUS
  <2>3. u.kind = "frame" /\ <<u.id - 1, u.off - 1>> = <<n, 0>>
    BY <1>3, <1>5, <2>1, <2>2 DEF Contiguous, WireAt
  <2>4. u.id <= n
    BY <1>1, <2>1, <2>2, <2>3 DEF UnitsBegun
  <2>5. u \in Unit
    BY <1>2, <2>1, <2>2, ElementOfSeq
  <2> QED
    BY <1>2, <2>3, <2>4, <2>5 DEF Unit
<1> QED
  BY <1>1, <1>4, <1>5, <1>6

\* A sender that has read every acknowledgement finds nothing on the wire.
LEMMA AllAcksRead ==
  ASSUME TypeInv, AcksInOrder, AckReaderAt = <<acks["rx"], 0>>
  PROVE  wire["rx"] = <<>>
<1>1. PICK a : a = acks["rx"]
  OBVIOUS
<1>2. a \in Nat /\ Len(wire["rx"]) \in Nat /\ wire["rx"] \in Seq(Unit)
  BY <1>1, AckFacts
<1> SUFFICES ASSUME wire["rx"] # <<>> PROVE FALSE
  OBVIOUS
<1>3. 1 \in 1..Len(wire["rx"]) /\ 1 - 1 = 0
  BY <1>2, EmptySeq
<1>4. PICK u : u = wire["rx"][1]
  OBVIOUS
<1>5. u.id \in 1..a /\ <<u.id - 1, u.off - 1>> = <<a, 0>>
  BY <1>1, <1>3, <1>4 DEF AcksInOrder, AcksContiguous, AckAt
<1> QED
  BY <1>2, <1>5

\* Where the two threads stand bounds what they have done.
LEMMA TurnsCount ==
  ASSUME TypeInv, FramingInv, AcksInOrder, TxTurn, RxTurn
  PROVE  /\ StopAndWait
         /\ pc["tx"] = "idle" =>
              /\ Len(got["rx"]) = Len(msgs["tx"])
              /\ acks["rx"] = Len(msgs["tx"])
              /\ frame["tx"] = Len(msgs["tx"])
<1>0. "rx" \in End /\ "tx" \in End /\ Peer("rx") = "tx"
  BY DEF End, Peer
<1>1. /\ Len(msgs["tx"]) \in Nat /\ Len(got["rx"]) \in Nat
      /\ acks["rx"] \in Nat /\ frame["tx"] \in Nat
  BY <1>0, TypeFacts, AckFacts
<1>2. Len(got["rx"]) <= Len(msgs["tx"])
  BY <1>0 DEF FramingInv, Delivery
<1>3. frame["tx"] <= acks["rx"]
  BY DEF AcksInOrder, InAck
<1>4. acks["rx"] <= Len(got["rx"])
  BY <1>1 DEF RxTurn
<1>5. /\ Len(msgs["tx"]) <= frame["tx"] + 1
      /\ pc["tx"] = "idle" => Len(msgs["tx"]) = frame["tx"]
  BY <1>1 DEF TxTurn
<1> QED
  BY <1>1, <1>2, <1>3, <1>4, <1>5 DEF StopAndWait

\* icom_deinit of the sender: between two sends it finds every message taken
\* and every acknowledgement read.
LEMMA TxCloses ==
  ASSUME TypeInv, TypeInv', FramingInv, AcksInOrder, Connected, UnitsBegun,
         TxTurn, RxTurn, RxLive, Deinit("tx")
  PROVE  TxOver'
<1>0. "rx" \in End /\ "tx" \in End /\ Peer("tx") = "rx" /\ "tx" # "rx"
  BY DEF End, Peer
<1>1. pc["tx"] = "idle" /\ sock["tx"] = "open" /\ UNCHANGED <<thread, link, hist>>
  BY DEF Deinit
<1>2. PICK n : n = Len(msgs["tx"])
  OBVIOUS
<1>3. Len(got["rx"]) = n /\ acks["rx"] = n /\ frame["tx"] = n /\ n \in Nat
  BY <1>0, <1>1, <1>2, TurnsCount, TypeFacts
<1>4. /\ pc["rx"] # "recvData"
      /\ pc["rx"] = "recvHeader" => done["rx"] = 0
      /\ wire["tx"] = <<>>
  BY <1>2, <1>3, AllReturned
<1>5. AckReaderAt = <<n, 0>>
  BY <1>1, <1>3 DEF AckReaderAt, AckReading
<1>6. wire["rx"] = <<>>
  BY <1>3, <1>5, AllAcksRead
<1>7. sock' = [sock EXCEPT !["tx"] = "closed"] /\ UNCHANGED wire
  BY <1>0, <1>6 DEF Deinit, Connected
<1>8. \/ pc["rx"] \in {"idle", "accept"} /\ ~fdAccepted["tx"]
      \/ pc["rx"] = "sendAck" /\ done["rx"] = AckLen
      \/ pc["rx"] \in {"recvHeader", "spin"} /\ done["rx"] = 0
  <2>1. pc["rx"] \in {"idle", "accept", "sendAck", "recvHeader"}
    BY <1>4 DEF RxTurn
  <2>2. CASE pc["rx"] \in {"idle", "accept"}
    <3>1. ~fdAccepted["rx"]
      BY <1>3, <2>2 DEF RxTurn
    <3>2. n = 0
      BY <1>3, <3>1 DEF RxTurn
    <3>3. msgs["tx"] = <<>>
      BY <1>0, <1>2, <3>2, EmptySeq DEF TypeInv, TypeOK
    <3> QED
      BY <2>2, <3>3 DEF Connected
  <2>3. CASE pc["rx"] = "sendAck"
    <3>1. sock["rx"] = "open"
      BY <1>0, <2>3 DEF FramingInv, Roles, Role
    <3>2. Len(wire["rx"]) = 0
      BY <1>6
    <3>3. AckSenderAt = <<n, 0>>
      BY <1>1, <1>5, <3>1, <3>2 DEF AcksInOrder, AcksUpToSender, AckAt
    <3>4. AckSenderAt = At(n - 1, done["rx"], AckLen)
      BY <1>3, <2>3 DEF AckSenderAt, AckSending
    <3>5. done["rx"] = AckLen
      BY <1>3, <3>3, <3>4, AckFacts DEF At
    <3> QED
      BY <2>3, <3>5
  <2>4. CASE pc["rx"] = "recvHeader"
    BY <1>4, <2>4
  <2> QED
    BY <2>1, <2>2, <2>3, <2>4
<1>9. sock'["tx"] = "closed"
  BY <1>0, <1>7 DEF TypeInv, TypeOK
<1>10. UNCHANGED <<pc, done, wire, msgs, acks, got, fdAccepted>>
  BY <1>1, <1>7 DEF thread, link, hist
<1> QED
  BY <1>1, <1>2, <1>3, <1>4, <1>6, <1>8, <1>9, <1>10 DEF TxOver

\* After that tx is done, and rx can only ask and wait.
LEMMA OverStep ==
  ASSUME TypeInv, FramingInv, Compatible, Untimed, Autonotify, Connected, TxOver,
         NEW e \in End, Progress(e) \/ Call(e), ~(e = "rx" /\ Deinit(e))
  PROVE  TxOver'
<1>0. /\ "rx" \in End /\ "tx" \in End /\ Peer("rx") = "tx" /\ "tx" # "rx"
      /\ HeaderLen \in Nat /\ HeaderLen > 0 /\ AckLen \in Nat
      /\ pc \in [End -> Pc] /\ done \in [End -> Nat]
  BY LinkAssumption DEF End, Peer, TypeInv, TypeOK
<1>1. /\ sock["tx"] = "closed" /\ pc["tx"] = "idle"
      /\ wire["tx"] = <<>> /\ wire["rx"] = <<>>
      /\ acks["rx"] = Len(msgs["tx"]) /\ Len(got["rx"]) = Len(msgs["tx"])
  BY DEF TxOver
<1>2. \/ pc["rx"] \in {"idle", "accept"} /\ ~fdAccepted["tx"]
      \/ pc["rx"] = "sendAck" /\ done["rx"] = AckLen
      \/ pc["rx"] \in {"recvHeader", "spin"} /\ done["rx"] = 0
  BY DEF TxOver
<1>3. e = "rx"
  <2> SUFFICES ASSUME e = "tx" PROVE FALSE
    BY DEF End
  <2>1. ~Call("tx")
    BY <1>1 DEF Call, InitSocket, Deinit, Recv, NotifySend, NotifyRecv, Send, CanCall
  <2>2. Progress("tx")
    BY <2>1
  <2> QED
    BY <1>1, <2>2
       DEF Progress, Works, Push, Pull, HeaderSent, DataSent, Accept, HeaderReceived, DataReceived,
           AckSent, AckReceived, SendTimesOut, RecvTimesOut, AcceptTimesOut, PeerClosed,
           RecvReset, SendToClosed, SendReset, Sending, Receiving
\* all that such a step may do
<1> DEFINE Asks ==
      /\ UNCHANGED <<wire, msgs, got, acks>> /\ sock'["tx"] = sock["tx"]
      /\ pc'["tx"] = pc["tx"] /\ fdAccepted'["tx"] = fdAccepted["tx"]
      /\ \/ pc'["rx"] = pc["rx"] /\ done'["rx"] = done["rx"]
         \/ pc["rx"] \in {"idle", "accept"} /\ pc'["rx"] \in {"idle", "accept"}
         \/ pc["rx"] \in {"sendAck", "recvHeader"} /\ pc'["rx"] \in {"recvHeader", "spin"}
            /\ done'["rx"] = 0
<1>4. ASSUME Asks PROVE TxOver'
  <2>1. \/ pc'["rx"] \in {"idle", "accept"} /\ ~fdAccepted'["tx"]
        \/ pc'["rx"] = "sendAck" /\ done'["rx"] = AckLen
        \/ pc'["rx"] \in {"recvHeader", "spin"} /\ done'["rx"] = 0
    BY <1>2, <1>4
  <2> QED
    BY <1>1, <1>4, <2>1 DEF TxOver
<1>5. CASE Call("rx")
  <2>1. CASE InitSocket("rx")
    BY <1>0, <1>4, <2>1 DEF InitSocket, thread, hist, TypeInv, TypeOK
  <2>2. (pc["rx"] = "idle" /\ ~fdAccepted["rx"]) \/ InitSocket("rx")
    <3>1. pc["rx"] = "idle" \/ InitSocket("rx") \/ Deinit("rx")
      BY <1>5, Zenon DEF Call, Recv, NotifySend, NotifyRecv, Send, CanCall
    <3>2. pc["rx"] = "idle" => ~fdAccepted["rx"]
      BY <1>2 DEF Connected
    <3> QED
      BY <1>3, <3>1, <3>2
  <2>3. CASE Recv("rx") /\ ~fdAccepted["rx"]
    <3>1. Enter("rx", "accept") /\ UNCHANGED <<tcp, link, hist>>
      BY <1>0, <2>3, AutoFacts DEF Recv
    <3>2. pc'["rx"] = "accept" /\ pc'["tx"] = pc["tx"]
      BY <1>0, <3>1 DEF Enter
    <3> QED
      BY <1>4, <2>2, <2>3, <3>1, <3>2 DEF tcp, link, hist, Recv, CanCall
  <2>4. CASE NotifySend("rx") \/ NotifyRecv("rx") \/ \E n \in Sizes : Send("rx", n)
    <3>1. (\E q : Return("rx", q)) /\ UNCHANGED <<tcp, link, msgs, got, acks>>
      <4>1. CASE NotifySend("rx")
        BY <4>1, AutoFacts, Zenon DEF NotifySend
      <4>2. CASE NotifyRecv("rx")
        BY <4>2, AutoFacts, Zenon DEF NotifyRecv, hist
      <4>3. CASE \E n \in Sizes : Send("rx", n)
        BY <4>3, AutoFacts DEF Send, hist
      <4> QED
        BY <2>4, <4>1, <4>2, <4>3
    <3>2. pc'["rx"] = "idle" /\ pc'["tx"] = pc["tx"]
      BY <1>0, <3>1 DEF Return
    <3>3. pc["rx"] = "idle"
      BY <2>4, Zenon DEF NotifySend, NotifyRecv, Send, CanCall
    <3> QED
      BY <1>4, <3>1, <3>2, <3>3 DEF tcp, link
  <2>5. ~InitSocket("rx") /\ Recv("rx") => ~fdAccepted["rx"]
    BY <2>2
  <2> QED
    BY <1>3, <1>5, <2>1, <2>3, <2>4, <2>5, Zenon DEF Call
<1>6. CASE Progress("rx")
  <2>1. ~fdAccepted["tx"] \/ pc["rx"] \notin {"idle", "accept"}
    BY <1>2
  <2>2. CASE AckSent("rx")
    <3>1. Enter("rx", "recvHeader") /\ UNCHANGED <<tcp, link, hist>> /\ pc["rx"] = "sendAck"
      BY <1>2, <2>2 DEF AckSent
    <3>2. pc'["rx"] = "recvHeader" /\ pc'["tx"] = pc["tx"] /\ done'["rx"] = 0
      BY <1>0, <3>1 DEF Enter
    <3> QED
      BY <1>4, <3>1, <3>2 DEF tcp, link, hist
  <2>3. CASE PeerClosed("rx")
    <3>1. /\ UNCHANGED <<done, tcp, link, hist>>
          /\ pc' = [pc EXCEPT !["rx"] = "spin"] /\ pc["rx"] \in Receiving
      BY <2>3 DEF PeerClosed
    <3>2. pc["rx"] = "recvHeader" /\ done["rx"] = 0
      BY <1>2, <3>1 DEF Receiving
    <3>3. pc'["rx"] = "spin" /\ pc'["tx"] = pc["tx"]
      BY <1>0, <3>1
    <3> QED
      BY <1>4, <3>1, <3>2, <3>3 DEF tcp, link, hist
  <2>4. ~Push("rx") /\ ~Pull("rx") /\ ~SendToClosed("rx") /\ ~SendReset("rx") /\ ~RecvReset("rx")
    <3>1. pc["rx"] \in Sending => done["rx"] = OutLen("rx")
      BY <1>2 DEF Sending, OutLen
    <3>2. ~(done["rx"] < done["rx"])
      BY <1>0
    <3>3. ~Push("rx") /\ ~SendToClosed("rx")
      BY <3>1, <3>2 DEF Push, SendToClosed
    <3>4. ~Pull("rx") /\ ~SendReset("rx") /\ ~RecvReset("rx")
      BY <1>0, <1>1 DEF Pull, SendReset, RecvReset
    <3> QED
      BY <3>3, <3>4
  <2>5. ~HeaderSent("rx") /\ ~DataSent("rx") /\ ~HeaderReceived("rx") /\ ~DataReceived("rx")
        /\ ~AckReceived("rx")
    BY <1>0, <1>2 DEF HeaderSent, DataSent, HeaderReceived, DataReceived, AckReceived, InLen
  <2>6. ~Accept("rx")
    BY <1>0, <2>1 DEF Accept
  <2>7. ~SendTimesOut("rx") /\ ~RecvTimesOut("rx") /\ ~AcceptTimesOut("rx")
    BY <1>0 DEF Untimed, SendTimesOut, RecvTimesOut, AcceptTimesOut
  <2> QED
    BY <1>6, <2>2, <2>3, <2>4, <2>5, <2>6, <2>7, Zenon DEF Progress, Works
<1> QED
  BY <1>3, <1>5, <1>6

-----------------------------------------------------------------------------
(* The receiver closes its end. *)

\* icom_deinit of the receiver, between two receives: whatever it has sent and
\* tx has not read, tx is waiting for.
LEMMA RxCloses ==
  ASSUME TypeInv, TypeInv', FramingInv, AcksInOrder, RxLive, Deinit("rx"),
         sock["tx"] \in {"new", "open"} => TxTurn /\ RxTurn,
         sock["tx"] \notin {"new", "open"} => TxOver
  PROVE  RxOver'
<1>0. "rx" \in End /\ "tx" \in End /\ Peer("rx") = "tx" /\ "tx" # "rx"
  BY DEF End, Peer
<1>1. pc["rx"] = "idle" /\ UNCHANGED <<pc, done, acks, frame>>
  BY DEF Deinit, thread, hist
<1>2. sock'["tx"] = sock["tx"]
  BY <1>0 DEF Deinit, TypeInv, TypeOK
<1>3. CASE sock["tx"] \notin {"new", "open"}
  <2>1. sock["tx"] = "closed"
    BY <1>3 DEF TxOver
  <2> QED
    BY <1>1, <1>2, <2>1 DEF RxOver
<1>4. CASE sock["tx"] \in {"new", "open"}
  <2>1. TxTurn /\ RxTurn
    BY <1>4
  <2>2. PICK n : n = Len(msgs["tx"])
    OBVIOUS
  <2>3. PICK a : a = acks["rx"]
    OBVIOUS
  <2>4. PICK f : f = frame["tx"]
    OBVIOUS
  <2>5. n \in Nat /\ a \in Nat /\ f \in Nat /\ Len(wire["rx"]) \in Nat
    BY <1>0, <2>2, <2>3, <2>4, TypeFacts, AckFacts
  <2>6. /\ pc["tx"] \in {"idle", "sendHeader", "sendData", "recvAck"}
        /\ f = IF pc["tx"] = "idle" \/ AckReading THEN n ELSE n - 1
    BY <2>1, <2>2, <2>4 DEF TxTurn
  \* rx is idle, so that the acknowledgement of its last message is not sent
  <2>7. a <= n /\ (a = 0 \/ a <= n - 1) /\ f <= a
    <3>1. PICK g : g = Len(got["rx"])
      OBVIOUS
    <3>2. g \in Nat /\ g <= n
      BY <1>0, <2>2, <3>1, TypeFacts DEF FramingInv, Delivery
    <3>3. a = 0 \/ g = a + 1
      BY <1>1, <2>1, <2>3, <3>1 DEF RxTurn
    <3>4. f <= a
      BY <2>3, <2>4 DEF AcksInOrder, InAck
    <3>5. CASE a = 0
      BY <2>5, <3>4, <3>5
    <3>6. CASE g = a + 1
      BY <2>5, <3>2, <3>4, <3>6
    <3> QED
      BY <3>3, <3>5, <3>6
  <2>8. a <= IF AckReading THEN f ELSE f + 1
    BY <2>5, <2>6, <2>7
  <2>9. ASSUME pc["tx"] # "recvAck" PROVE wire["rx"] = <<>>
    <3>1. f = a
      BY <2>5, <2>6, <2>7, <2>9 DEF AckReading
    <3>2. ~AckReading
      BY <2>6, <2>9 DEF AckReading
    <3>3. AckReaderAt = <<acks["rx"], 0>>
      BY <2>3, <2>4, <3>1, <3>2 DEF AckReaderAt
    <3> QED
      BY <3>3, AllAcksRead
  <2>10. ASSUME wire["rx"] = <<>> PROVE wire'["rx"] = <<>>
    <3>1. CASE UNCHANGED wire
      BY <2>10, <3>1
    <3>2. CASE ~UNCHANGED wire
      <4>1. PICK k \in 0..Len(wire["rx"]) :
              wire' = [wire EXCEPT !["tx"] = <<>>, !["rx"] = SubSeq(@, 1, k)]
        BY <1>0, <3>2 DEF Deinit
      <4>2. k = 0
        BY <2>10
      <4>3. wire'["rx"] = SubSeq(wire["rx"], 1, 0)
        BY <1>0, <4>1, <4>2 DEF TypeInv, TypeOK
      <4> QED
        BY <2>10, <4>3
    <3> QED
      BY <3>1, <3>2
  <2>11. AckReading' <=> AckReading
    BY <1>1 DEF AckReading
  <2>12. acks'["rx"] <= IF AckReading' THEN frame'["tx"] ELSE frame'["tx"] + 1
    BY <1>1, <2>3, <2>4, <2>8, <2>11
  <2>13. pc'["tx"] # "recvAck" => wire'["rx"] = <<>>
    BY <1>1, <2>9, <2>10
  <2> QED
    BY <1>1, <1>2, <1>4, <2>6, <2>12, <2>13 DEF RxOver
<1> QED
  BY <1>3, <1>4

\* A step of tx, seen from what is left of the acknowledgements.
GoesOn ==
  /\ pc'["tx"] \in {"idle", "sendHeader", "sendData", "recvAck", "spin", "killed"}
  /\ frame'["tx"] = frame["tx"] /\ wire'["rx"] = wire["rx"]
  /\ AckReading' => AckReading
  /\ pc'["tx"] # "recvAck" => pc["tx"] # "recvAck" \/ wire["rx"] = <<>>

LEMMA GoesOnStep ==
  ASSUME TypeInv, TypeInv', FramingInv, Compatible, Untimed, Autonotify, AcksInOrder,
         pc["tx"] \in {"idle", "sendHeader", "sendData", "recvAck", "spin", "killed"},
         acks["rx"] <= IF AckReading THEN frame["tx"] ELSE frame["tx"] + 1,
         Progress("tx") \/ Call("tx"), ~Deinit("tx"), ~Pull("tx")
  PROVE  GoesOn
<1>0. /\ "rx" \in End /\ "tx" \in End /\ Peer("tx") = "rx" /\ "tx" # "rx"
      /\ pc \in [End -> Pc] /\ done \in [End -> Nat] /\ wire \in [End -> Seq(Unit)]
  BY DEF End, Peer, TypeInv, TypeOK
<1>1. ASSUME UNCHANGED <<frame, wire>>, pc["tx"] # "recvAck",
             \/ pc'["tx"] \in {"idle", "sendHeader", "sendData", "spin", "killed"}
             \/ pc'["tx"] = "recvAck" /\ done'["tx"] = 0
      PROVE  GoesOn
  <2>1. ~AckReading'
    <3>1. CASE pc'["tx"] = "recvAck" /\ done'["tx"] = 0
      BY <3>1 DEF AckReading
    <3>2. CASE pc'["tx"] \in {"idle", "sendHeader", "sendData", "spin", "killed"}
      BY <3>2 DEF AckReading
    <3> QED
      BY <1>1, <3>1, <3>2
  <2> QED
    BY <1>1, <2>1 DEF GoesOn
<1>2. ASSUME UNCHANGED <<frame, wire>>, wire["rx"] = <<>>, pc'["tx"] \in {"idle", "spin", "killed"}
      PROVE  GoesOn
  <2>1. ~AckReading'
    BY <1>2 DEF AckReading
  <2> QED
    BY <1>2, <2>1 DEF GoesOn
<1>3. CASE Push("tx") \/ SendToClosed("tx")
  <2>1. pc["tx"] \in {"sendHeader", "sendData"} /\ UNCHANGED <<pc, frame>>
    BY <1>3 DEF Push, SendToClosed, Sending, hist
  <2>2. wire'["rx"] = wire["rx"]
    BY <1>0, <1>3 DEF Push, SendToClosed
  <2>3. ~AckReading'
    BY <2>1 DEF AckReading
  <2> QED
    BY <2>1, <2>2, <2>3 DEF GoesOn
<1>4. CASE HeaderSent("tx")
  <2>1. UNCHANGED <<frame, wire>> /\ pc["tx"] = "sendHeader" /\ pc'["tx"] = "sendData"
    BY <1>0, <1>4 DEF HeaderSent, Enter, hist, tcp
  <2> QED
    BY <1>1, <2>1
<1>5. CASE DataSent("tx")
  <2>1. /\ UNCHANGED <<frame, wire>> /\ pc["tx"] = "sendData"
        /\ pc'["tx"] = "recvAck" /\ done'["tx"] = 0
    BY <1>0, <1>5, AutoFacts DEF DataSent, Enter, hist, tcp
  <2> QED
    BY <1>1, <2>1
<1>6. CASE AckReceived("tx")
  <2>1. /\ UNCHANGED <<frame, wire>> /\ pc["tx"] = "recvAck" /\ done["tx"] = AckLen
        /\ pc'["tx"] = "idle"
    BY <1>0, <1>6 DEF AckReceived, InLen, hist, tcp, Return
  <2>2. AckReading
    BY <2>1, AckFacts DEF AckReading
  <2>3. PICK a : a = acks["rx"]
    OBVIOUS
  <2>4. PICK f : f = frame["tx"]
    OBVIOUS
  <2>5. a <= f /\ f <= a /\ a \in Nat /\ f \in Nat
    BY <2>2, <2>3, <2>4, AckFacts DEF AcksInOrder, InAck
  <2>6. AckReaderAt = At(f - 1, AckLen, AckLen)
    BY <2>1, <2>2, <2>4 DEF AckReaderAt
  <2>7. At(f - 1, AckLen, AckLen) = <<f, 0>>
    BY <2>5, AckFacts DEF At
  <2>8. AckReaderAt = <<acks["rx"], 0>>
    BY <2>3, <2>5, <2>6, <2>7
  <2>9. wire["rx"] = <<>>
    BY <2>8, AllAcksRead
  <2> QED
    BY <1>2, <2>1, <2>9
<1>7. CASE PeerClosed("tx") \/ RecvReset("tx")
  <2>1. /\ UNCHANGED <<frame, wire>> /\ wire["rx"] = <<>>
    BY <1>0, <1>7 DEF PeerClosed, RecvReset, hist, tcp
  <2>2. pc'["tx"] \in {"idle", "spin"}
    BY <1>0, <1>7 DEF PeerClosed, RecvReset, Return
  <2> QED
    BY <1>2, <2>1, <2>2
<1>8. CASE SendReset("tx")
  <2>1. UNCHANGED <<frame, wire>> /\ pc["tx"] # "recvAck"
    BY <1>8 DEF SendReset, Sending, hist
  <2>2. pc'["tx"] \in {"idle", "killed"}
    BY <1>0, <1>8 DEF SendReset, Return
  <2> QED
    BY <1>1, <2>1, <2>2
<1>9. CASE \/ Accept("tx") \/ HeaderReceived("tx") \/ DataReceived("tx") \/ AckSent("tx")
           \/ SendTimesOut("tx") \/ RecvTimesOut("tx") \/ AcceptTimesOut("tx")
  BY <1>0, <1>9 DEF Accept, HeaderReceived, DataReceived, AckSent,
                    Untimed, SendTimesOut, RecvTimesOut, AcceptTimesOut
<1>10. CASE InitSocket("tx")
  <2>1. UNCHANGED <<pc, done, frame, wire>>
    BY <1>10 DEF InitSocket, thread, hist
  <2> QED
    BY <2>1 DEF GoesOn, AckReading
<1>11. CASE Recv("tx") \/ NotifySend("tx") \/ NotifyRecv("tx")
  <2>1. pc["tx"] = "idle" /\ UNCHANGED <<frame, wire>>
    BY <1>11, AutoFacts DEF Recv, NotifySend, NotifyRecv, CanCall, hist, tcp
  <2>2. \E q : Return("tx", q)
    BY <1>11, AutoFacts, Zenon DEF Recv, NotifySend, NotifyRecv
  <2>3. pc'["tx"] = "idle"
    BY <1>0, <2>2 DEF Return
  <2> QED
    BY <1>1, <2>1, <2>3
<1>12. ASSUME NEW n \in Sizes, Send("tx", n) PROVE GoesOn
  <2>1. pc["tx"] = "idle" /\ UNCHANGED <<frame, wire>>
    BY <1>12 DEF Send, CanCall, hist, tcp
  <2>2. Enter("tx", "sendHeader") \/ \E q : Return("tx", q)
    BY <1>12 DEF Send
  <2>3. pc'["tx"] \in {"idle", "sendHeader"}
    BY <1>0, <2>2 DEF Return, Enter
  <2> QED
    BY <1>1, <2>1, <2>3
<1>13. CASE Progress("tx")
  BY <1>3, <1>4, <1>5, <1>6, <1>7, <1>8, <1>9, <1>13, Zenon DEF Progress, Works
<1>14. CASE Call("tx")
  BY <1>10, <1>11, <1>12, <1>14, Zenon DEF Call
<1> QED
  BY <1>13, <1>14

\* After that rx is done, and tx reads at most the acknowledgement it waits for.
LEMMA RxOverStep ==
  ASSUME TypeInv, TypeInv', FramingInv, Compatible, Untimed, Autonotify, AcksInOrder,
         Connected, ~RxLive, RxOver, NEW e \in End, Progress(e) \/ Call(e)
  PROVE  RxOver'
<1>0. "rx" \in End /\ "tx" \in End /\ Peer("tx") = "rx" /\ "tx" # "rx"
  BY DEF End, Peer
<1>1. e = "tx"
  <2> SUFFICES ASSUME e = "rx" PROVE FALSE
    BY DEF End
  <2>1. ~Call("rx")
    BY DEF RxLive, Call, InitSocket, Deinit, Recv, NotifySend, NotifyRecv, Send, CanCall
  <2>2. Progress("rx") /\ pc["rx"] = "idle"
    BY <2>1 DEF RxOver
  <2> QED
    BY <2>2
       DEF Progress, Works, Push, Pull, HeaderSent, DataSent, Accept, HeaderReceived, DataReceived,
           AckSent, AckReceived, SendTimesOut, RecvTimesOut, AcceptTimesOut, PeerClosed,
           RecvReset, SendToClosed, SendReset, Sending, Receiving
<1>2. pc'["rx"] = "idle" /\ acks'["rx"] = acks["rx"]
  <2>1. PeerUntouched("tx")
    BY <1>0, <1>1, UntimedStep, PeerKeeps
  <2> QED
    BY <1>0, <2>1 DEF PeerUntouched, RxOver
<1>3. CASE Deinit("tx")
  <2>1. sock["tx"] = "open" /\ pc["tx"] = "idle"
    BY <1>3 DEF Deinit
  <2>2. wire["rx"] = <<>>
    BY <2>1 DEF RxOver
  <2>3. sock' = [sock EXCEPT !["tx"] = "closed"]
    BY <1>0, <1>3, <2>2 DEF Deinit, Connected
  <2>4. sock'["tx"] = "closed"
    BY <1>0, <2>3 DEF TypeInv, TypeOK
  <2> QED
    BY <1>2, <2>4 DEF RxOver
<1>4. CASE ~Deinit("tx")
  <2>1. \/ sock'["tx"] = sock["tx"]
        \/ sock["tx"] = "new" /\ sock'["tx"] = "open"
    <3>1. CASE Progress("tx")
      <4>1. CASE FindsClosed("tx")
        <5>1. UNCHANGED sock \/ \E x \in {"reset", "gone"} : sock' = [sock EXCEPT !["rx"] = x]
          BY <1>0, <4>1 DEF FindsClosed, PeerClosed, RecvReset, SendToClosed, SendReset, tcp
        <5> QED
          BY <1>0, <5>1 DEF TypeInv, TypeOK
      <4>2. CASE ~FindsClosed("tx")
        BY <3>1, <4>2
           DEF Progress, Works, Push, Pull, HeaderSent, DataSent, Accept, HeaderReceived, DataReceived,
               AckSent, AckReceived, SendTimesOut, RecvTimesOut, AcceptTimesOut, FindsClosed, tcp
      <4> QED
        BY <4>1, <4>2
    <3>2. CASE InitSocket("tx")
      BY <1>0, <3>2 DEF InitSocket, TypeInv, TypeOK
    <3>3. CASE Call("tx") /\ ~InitSocket("tx")
      BY <1>4, <3>3 DEF Call, Recv, NotifySend, NotifyRecv, Send, tcp
    <3> QED
      BY <1>1, <3>1, <3>2, <3>3
  <2>2. CASE sock["tx"] = "closed"
    BY <1>2, <2>1, <2>2 DEF RxOver
  <2>3. CASE sock["tx"] # "closed"
    <3>1. /\ pc["tx"] \in {"idle", "sendHeader", "sendData", "recvAck", "spin", "killed"}
          /\ acks["rx"] <= IF AckReading THEN frame["tx"] ELSE frame["tx"] + 1
          /\ pc["tx"] # "recvAck" => wire["rx"] = <<>>
          /\ sock'["tx"] \in {"new", "open"}
      BY <2>1, <2>3 DEF RxOver
    <3>2. acks["rx"] \in Nat /\ frame["tx"] \in Nat /\ done["tx"] \in Nat
      BY AckFacts
    <3>3. CASE Pull("tx")
      <4>1. pc["tx"] = "recvAck" /\ UNCHANGED pc /\ done'["tx"] = done["tx"] + 1
        BY <1>0, <3>1, <3>3 DEF Pull, Receiving, TypeInv, TypeOK
      <4>2. frame'["tx"] = IF done["tx"] = 0 THEN frame["tx"] + 1 ELSE frame["tx"]
        BY <1>0, <3>3, AckPull DEF Autonotify
      <4>3. AckReading' /\ (AckReading <=> done["tx"] # 0)
        BY <3>2, <4>1 DEF AckReading
      <4>4. acks["rx"] <= frame'["tx"]
        BY <3>1, <3>2, <4>2, <4>3
      <4> QED
        BY <1>2, <3>1, <4>1, <4>3, <4>4 DEF RxOver
    <3>4. CASE ~Pull("tx")
      <4>1. GoesOn
        BY <1>1, <1>4, <3>1, <3>4, GoesOnStep
      <4>2. acks["rx"] <= IF AckReading' THEN frame'["tx"] ELSE frame'["tx"] + 1
        BY <3>1, <3>2, <4>1 DEF GoesOn
      <4>3. pc'["tx"] # "recvAck" => wire'["rx"] = <<>>
        BY <3>1, <4>1 DEF GoesOn
      <4>4. pc'["tx"] \in {"idle", "sendHeader", "sendData", "recvAck", "spin", "killed"}
        BY <4>1 DEF GoesOn
      <4> QED
        BY <1>2, <3>1, <4>2, <4>3, <4>4 DEF RxOver
    <3> QED
      BY <3>3, <3>4
  <2> QED
    BY <2>2, <2>3
<1> QED
  BY <1>3, <1>4

-----------------------------------------------------------------------------
LEMMA TurnInit == Init => TurnInv
<1> SUFFICES ASSUME Init
             PROVE  /\ Connected /\ UnitsBegun /\ TxTurn /\ RxTurn
                    /\ sock["tx"] = "new" /\ sock["rx"] = "new"
  BY DEF TurnInv, RxLive
<1>1. /\ pc["tx"] = "idle" /\ frame["tx"] = 0 /\ msgs["tx"] = <<>>
      /\ sock["tx"] = "new" /\ sock["rx"] = "new"
      /\ pc["rx"] = "idle" /\ ~ackArmed["rx"] /\ ~fdAccepted["rx"] /\ ~fdAccepted["tx"]
      /\ acks["rx"] = 0 /\ got["rx"] = <<>> /\ wire["tx"] = <<>>
  BY DEF Init, End
<1> QED
  BY <1>1 DEF TxTurn, RxTurn, Connected, UnitsBegun, Sending, Receiving, End

LEMMA TurnStep ==
  ASSUME Compatible, Untimed, TypeInv, TypeInv', FramingInv, AckInv, TurnInv, [Next]_vars
  PROVE  TurnInv'
<1>1. CASE UNCHANGED vars
  <2>1. UNCHANGED <<pc, done, sock, wire, fdAccepted, ackArmed, msgs, acks, frame, got>>
    BY <1>1 DEF vars, thread, tcp, link, hist
  <2> QED
    BY <2>1 DEF TurnInv, Connected, UnitsBegun, RxLive, TxTurn, RxTurn, TxOver, RxOver, AckReading,
                Autonotify
<1>2. ASSUME NEW e \in End, Progress(e) \/ Call(e) PROVE TurnInv'
  <2>1. Timely
    BY UntimedStep
  <2>2. Connected' /\ UnitsBegun'
    BY <1>2, <2>1, ConnectedStep, UnitsBegunStep DEF TurnInv
  <2> SUFFICES ASSUME Autonotify
               PROVE  IF ~RxLive' THEN RxOver'
                      ELSE IF sock'["tx"] \in {"new", "open"} THEN TxTurn' /\ RxTurn' ELSE TxOver'
    BY <2>2 DEF TurnInv, Autonotify
  <2>3. AcksInOrder
    BY DEF AckInv, Autonotify, End
  <2>4. PeerUntouched(e)
    BY <1>2, <2>1, PeerKeeps
  <2>5. CASE ~RxLive
    <3>1. RxOver /\ Connected
      BY <2>5 DEF TurnInv
    <3>2. RxOver'
      BY <1>2, <2>3, <2>5, <3>1, RxOverStep
    <3>3. ~RxLive'
      BY <1>2, <2>5, LiveStep DEF RxLive, End
    <3> QED
      BY <3>2, <3>3
  <2>6. CASE RxLive /\ e = "rx" /\ Deinit(e)
    <3>1. /\ sock["tx"] \in {"new", "open"} => TxTurn /\ RxTurn
          /\ sock["tx"] \notin {"new", "open"} => TxOver
      BY <2>6 DEF TurnInv
    <3>2. RxOver'
      BY <2>3, <2>6, <3>1, RxCloses
    <3>3. sock'["rx"] \in {"closed", "reset"}
      BY <2>6 DEF Deinit, TypeInv, TypeOK, End
    <3> QED
      BY <3>2, <3>3 DEF RxLive
  <2>7. CASE RxLive /\ ~(e = "rx" /\ Deinit(e))
    <3>1. RxLive'
      BY <1>2, <2>7, LiveStep DEF RxLive, End
    <3>2. sock'["tx"] \in {"new", "open"} => sock["tx"] \in {"new", "open"}
      BY <1>2, LiveStep DEF End
    <3>3. CASE sock["tx"] \notin {"new", "open"}
      <4>1. TxOver
        BY <2>7, <3>3 DEF TurnInv
      <4>2. TxOver'
        BY <1>2, <2>7, <4>1, OverStep DEF TurnInv
      <4> QED
        BY <3>1, <3>2, <3>3, <4>2
    <3>4. CASE sock["tx"] \in {"new", "open"}
      <4>1. TxTurn /\ RxTurn /\ Connected /\ UnitsBegun
        BY <2>7, <3>4 DEF TurnInv
      <4>2. CASE e = "tx" /\ Deinit(e)
        <5>1. TxOver'
          BY <2>3, <2>7, <4>1, <4>2, TxCloses
        <5>2. sock'["tx"] = "closed"
          BY <5>1 DEF TxOver
        <5> QED
          BY <3>1, <5>1, <5>2
      <4>3. CASE ~(e = "tx" /\ Deinit(e))
        <5>1. sock'["tx"] \in {"new", "open"} /\ ~FindsClosed(e)
          BY <1>2, <2>7, <3>4, <4>3, LiveStep DEF RxLive, End, Peer
        <5>2. CASE e = "tx"
          <6>1. TxTurn'
            BY <1>2, <2>3, <4>1, <4>3, <5>1, <5>2, TxTurnStep
          <6>2. RxTurn'
            BY <2>4, <4>1, <5>2 DEF PeerUntouched, Peer, RxTurn
          <6> QED
            BY <3>1, <5>1, <6>1, <6>2
        <5>3. CASE e = "rx"
          <6>1. RxTurn'
            BY <1>2, <2>7, <4>1, <5>1, <5>3, RxTurnStep
          <6>2. TxTurn'
            BY <2>4, <4>1, <5>3 DEF PeerUntouched, Peer, TxTurn, AckReading
          <6> QED
            BY <3>1, <5>1, <6>1, <6>2
        <5> QED
          BY <5>2, <5>3 DEF End
      <4> QED
        BY <4>2, <4>3
    <3> QED
      BY <3>3, <3>4
  <2> QED
    BY <2>5, <2>6, <2>7
<1> QED
  BY <1>1, <1>2 DEF Next

LEMMA TurnsAlways ==
  ASSUME Compatible, Untimed
  PROVE  Spec => [](TypeInv /\ FramingInv /\ AckInv /\ TurnInv)
<1>1. Init => TypeInv /\ FramingInv /\ AckInv /\ TurnInv
  BY TypeInit, FramingInit, AckInit, TurnInit
<1>2. TypeInv /\ FramingInv /\ AckInv /\ TurnInv /\ [Next]_vars
        => (TypeInv /\ FramingInv /\ AckInv /\ TurnInv)'
  <2>1. Timely
    BY UntimedStep
  <2> QED
    BY <2>1, TypeStep, FramingStep, AckStep, TurnStep
<1> QED
  BY <1>1, <1>2, PTL DEF Spec

\* With autonotify at both ends the two threads take turns message by message
\* (DataSent waits for the acknowledgement that link_autoSendAck lets the next
\* icom_recv send).  When the sender closes its end nothing is under way in
\* either direction, and when the receiver does, at most the acknowledgement
\* the sender is waiting for.
THEOREM TurnCorrect ==
  ASSUME Compatible, Untimed
  PROVE  Spec => []TurnInv
<1> QED
  BY TurnsAlways, PTL

\* What the applications may rely on, from where the two threads stand.
LEMMA TurnsMean ==
  ASSUME TypeInv, FramingInv, AckInv, TurnInv, Autonotify
  PROVE  StopAndWait /\ AckedIsTaken /\ ClosesInOrder
<1>1. AcksInOrder
  BY DEF AckInv, Autonotify, End
<1>2. CASE RxLive /\ sock["tx"] \in {"new", "open"}
  <2>1. TxTurn /\ RxTurn
    BY <1>2 DEF TurnInv
  <2>2. StopAndWait /\ AckedIsTaken
    BY <1>1, <2>1, TurnsCount DEF AckedIsTaken
  <2> QED
    BY <1>2, <2>2 DEF ClosesInOrder
<1>3. CASE RxLive /\ sock["tx"] \notin {"new", "open"}
  <2>1. TxOver
    BY <1>3 DEF TurnInv
  <2>2. Len(msgs["tx"]) \in Nat
    BY TypeFacts DEF End
  <2> QED
    BY <2>1, <2>2 DEF TxOver, StopAndWait, AckedIsTaken, ClosesInOrder
<1>4. CASE ~RxLive
  <2>1. RxOver
    BY <1>4 DEF TurnInv
  <2> QED
    BY <1>4, <2>1 DEF RxOver, StopAndWait, AckedIsTaken, ClosesInOrder
<1> QED
  BY <1>2, <1>3, <1>4

\* With autonotify at both ends an acknowledgement stands for a message the
\* application has taken, and at most one message is not acknowledged yet
\* (link_autoSendAck against link_recvAck), until the receiver closes.
THEOREM StopAndWaitCorrect ==
  ASSUME Compatible, Untimed, Autonotify
  PROVE  Spec => []StopAndWait
<1>1. TypeInv /\ FramingInv /\ AckInv /\ TurnInv => StopAndWait
  BY TurnsMean
<1> QED
  BY <1>1, TurnsAlways, PTL

\* With autonotify at both ends, when icom_send has returned ICOM_SUCCESS the
\* receiving application has asked for the next message (link_sendData waits
\* in link->autoRecvAck).
THEOREM AckedIsTakenCorrect ==
  ASSUME Compatible, Untimed, Autonotify
  PROVE  Spec => []AckedIsTaken
<1>1. TypeInv /\ FramingInv /\ AckInv /\ TurnInv => AckedIsTaken
  BY TurnsMean
<1> QED
  BY <1>1, TurnsAlways, PTL

\* With autonotify at both ends icom_deinit of the sender never resets the
\* connection (icom_deinitSocket finds no unread acknowledgement, and rx sends
\* none to a closed end).
THEOREM ClosesInOrderCorrect ==
  ASSUME Compatible, Untimed, Autonotify
  PROVE  Spec => []ClosesInOrder
<1>1. TypeInv /\ FramingInv /\ AckInv /\ TurnInv => ClosesInOrder
  BY TurnsMean
<1> QED
  BY <1>1, TurnsAlways, PTL

-----------------------------------------------------------------------------
(* Waiting. *)

\* tx waits for room while rx waits for room: rx would be acknowledging a
\* message it cannot have read yet.
LEMMA NotBothFull ==
  ASSUME TypeInv, FramingInv, AcksInOrder, UnitsBegun, TxTurn, RxTurn, fdAccepted["rx"],
         pc["tx"] \in {"sendHeader", "sendData"}, pc["rx"] = "sendAck",
         wire["tx"] # <<>>, wire["rx"] # <<>>
  PROVE  FALSE
<1>0. "tx" \in End /\ "rx" \in End /\ Peer("rx") = "tx"
  BY DEF End, Peer
<1>1. PICK n : n = Len(msgs["tx"])
  OBVIOUS
<1>2. PICK g : g = Len(got["rx"])
  OBVIOUS
<1>3. /\ n \in Nat /\ g \in Nat /\ frame["tx"] = n - 1 /\ acks["rx"] = g /\ g <= n
      /\ AckReaderAt = <<n - 1, 0>>
  <2>1. frame["tx"] = n - 1 /\ AckReaderAt = <<n - 1, 0>>
    BY <1>1 DEF TxTurn, AckReaderAt, AckReading
  <2>2. acks["rx"] = g
    BY <1>2 DEF RxTurn
  <2>3. g <= n
    BY <1>0, <1>1, <1>2 DEF FramingInv, Delivery
  <2> QED
    BY <1>0, <1>1, <1>2, <2>1, <2>2, <2>3, TypeFacts
<1>4. PICK u : u = wire["rx"][1]
  OBVIOUS
<1>5. u.id \in 1..g /\ <<u.id - 1, u.off - 1>> = <<n - 1, 0>>
  <2>1. 1 \in 1..Len(wire["rx"]) /\ 1 - 1 = 0
    BY AckFacts, EmptySeq
  <2> QED
    BY <1>3, <1>4, <2>1 DEF AcksInOrder, AcksContiguous, AckAt
<1>6. g = n
  BY <1>3, <1>5
<1> QED
  BY <1>1, <1>2, <1>6, AllReturned

\* tx waits for an acknowledgement while rx waits for a message: rx has not
\* read all of the message that tx has sent.
LEMMA NotBothEmpty ==
  ASSUME TypeInv, FramingInv, AcksInOrder, TxTurn, RxTurn, fdAccepted["rx"],
         pc["tx"] = "recvAck", done["tx"] < AckLen,
         pc["rx"] \in {"recvHeader", "recvData"}, done["rx"] < InLen("rx"),
         wire["tx"] = <<>>, wire["rx"] = <<>>,
         \A e \in End : sock[e] = "open"
  PROVE  FALSE
<1>0. "tx" \in End /\ "rx" \in End /\ Peer("rx") = "tx" /\ Peer("tx") = "rx" /\ FrameDir("tx")
  BY DEF End, Peer, FrameDir
<1>1. PICK n : n = Len(msgs["tx"])
  OBVIOUS
<1>2. PICK g : g = Len(got["rx"])
  OBVIOUS
<1>3. PICK o : o = done["rx"]
  OBVIOUS
<1>4. /\ n \in Nat /\ g \in Nat /\ o \in Nat /\ HeaderLen \in Nat /\ HeaderLen > 0
      /\ frame["tx"] \in Nat /\ done["tx"] \in Nat /\ AckLen \in Nat
  BY <1>0, <1>1, <1>2, <1>3, TypeFacts, AckFacts, LinkAssumption
<1>5. acks["rx"] = g
  BY <1>2 DEF RxTurn
<1>6. AckReaderAt = <<g, 0>>
  <2>1. AckSenderAt = <<g, 0>>
    BY <1>5 DEF AckSenderAt, AckSending
  <2>2. Len(wire["rx"]) = 0
    OBVIOUS
  <2> QED
    BY <1>0, <2>1, <2>2 DEF AcksInOrder, AcksUpToSender, AckAt
<1>7. g = n - 1
  <2>1. CASE AckReading
    <3>1. AckReaderAt = At(n - 1, done["tx"], AckLen) /\ done["tx"] > 0
      BY <1>1, <2>1 DEF AckReaderAt, AckReading, TxTurn
    <3>2. AckReaderAt = <<n - 1, done["tx"]>>
      BY <1>4, <3>1 DEF At
    <3> QED
      BY <1>4, <1>6, <3>1, <3>2
  <2>2. CASE ~AckReading
    <3>1. AckReaderAt = <<n - 1, 0>>
      BY <1>1, <2>2 DEF AckReaderAt, TxTurn
    <3> QED
      BY <1>4, <1>6, <3>1
  <2> QED
    BY <2>1, <2>2
<1>8. ReceiverAt("tx") = <<n, 0>>
  <2>1. SenderAt("tx") = <<n, 0>>
    BY <1>1 DEF SenderAt
  <2>2. Len(wire["tx"]) = 0
    OBVIOUS
  <2> QED
    BY <1>0, <2>1, <2>2 DEF FramingInv, UpToSender, WireAt
<1>9. PICK x : x = SendSize(msgs["tx"][n])
  OBVIOUS
<1>10. x \in Nat /\ FrameLen("tx", n) = HeaderLen + x
  <2>1. n \in 1..Len(msgs["tx"])
    BY <1>1, <1>4, <1>7
  <2> QED
    BY <1>0, <1>9, <2>1, FrameFacts DEF FrameLen
<1>11. FrameLen("tx", g + 1) = HeaderLen + x
  <2>1. g + 1 = n
    BY <1>4, <1>7
  <2> QED
    BY <1>10, <2>1, Zenon
<1>12. CASE pc["rx"] = "recvHeader"
  <2>1. o < HeaderLen
    BY <1>3, <1>12 DEF InLen
  <2>2. ReceiverAt("tx") = At(g, o, HeaderLen + x)
    <3>1. ReceiverAt("tx") = At(Len(got["rx"]), done["rx"], FrameLen("tx", Len(got["rx"]) + 1))
      BY <1>0, <1>12, Zenon DEF ReceiverAt
    <3> QED
      BY <1>2, <1>3, <1>11, <3>1, Zenon
  <2>3. At(g, o, HeaderLen + x) = <<g, o>>
    BY <1>4, <1>10, <2>1 DEF At
  <2> QED
    BY <1>4, <1>7, <1>8, <2>2, <2>3
<1>13. CASE pc["rx"] = "recvData"
  <2>1. o < x
    <3>0. InMessage("tx")
      BY <1>0 DEF FramingInv
    <3>1. frame["rx"] = Len(got["rx"]) + 1 /\ recvSize["rx"] = SendSize(msgs["tx"][frame["rx"]])
      BY <1>0, <1>13, <3>0, Zenon DEF InMessage
    <3>2. frame["rx"] = n
      <4>1. g + 1 = n
        BY <1>4, <1>7
      <4> QED
        BY <1>2, <3>1, <4>1, Zenon
    <3>3. recvSize["rx"] = x
      BY <1>9, <3>1, <3>2, Zenon
    <3> QED
      BY <1>3, <1>13, <3>3 DEF InLen
  <2>2. ReceiverAt("tx") = At(g, HeaderLen + o, HeaderLen + x)
    <3>1. pc["rx"] # "recvHeader"
      BY <1>13
    <3>2. ReceiverAt("tx") =
            At(Len(got["rx"]), HeaderLen + done["rx"], FrameLen("tx", Len(got["rx"]) + 1))
      BY <1>0, <1>13, <3>1, Zenon DEF ReceiverAt
    <3> QED
      BY <1>2, <1>3, <1>11, <3>2, Zenon
  <2>3. At(g, HeaderLen + o, HeaderLen + x) = <<g, HeaderLen + o>>
    BY <1>4, <1>10, <2>1 DEF At
  <2> QED
    BY <1>4, <1>7, <1>8, <2>2, <2>3
<1> QED
  BY <1>12, <1>13

\* With autonotify at both ends the two threads never wait for each other,
\* whatever the sizes and however little the kernel holds (link_sendData and
\* link_recvAck against link_sendAck and link_recvHandler).
THEOREM NoCircularWaitCorrect ==
  ASSUME Compatible, Untimed, Autonotify
  PROVE  Spec => []NoCircularWait
<1>1. TypeInv /\ FramingInv /\ AckInv /\ TurnInv => NoCircularWait
  <2> SUFFICES ASSUME TypeInv, FramingInv, AckInv, TurnInv, Waiting("tx"), Waiting("rx")
               PROVE  FALSE
    BY DEF NoCircularWait
  <2>0. /\ "tx" \in End /\ "rx" \in End /\ Peer("tx") = "rx" /\ Peer("rx") = "tx"
        /\ SockBuf \in Nat /\ SockBuf > 0
    BY LinkAssumption DEF End, Peer
  <2>1. Connected /\ UnitsBegun /\ AcksInOrder
    BY <2>0 DEF TurnInv, AckInv, Autonotify
  <2>2. pc["tx"] \in Sending \cup Receiving /\ fdAccepted["tx"] /\ sock["rx"] = "open"
    BY <2>0, <2>1 DEF Waiting, Connected
  <2>3. sock["tx"] = "open"
    BY <2>0, <2>2 DEF FramingInv, Roles, Role, Sending, Receiving
  <2>4. TxTurn /\ RxTurn
    BY <2>2, <2>3 DEF TurnInv, RxLive
  <2>5. pc["rx"] \in Sending \cup Receiving /\ fdAccepted["rx"]
    BY <2>0, <2>1, <2>2 DEF Waiting, Connected
  <2>6. /\ pc["tx"] \in {"sendHeader", "sendData", "recvAck"}
        /\ pc["rx"] \in {"sendAck", "recvHeader", "recvData"}
    BY <2>2, <2>4, <2>5 DEF TxTurn, RxTurn, Sending, Receiving
  <2>7. \A e \in End : /\ pc[e] \in Sending /\ Waiting(e) => wire[e] # <<>>
                       /\ pc[e] \in Receiving /\ Waiting(e) =>
                            done[e] < InLen(e) /\ wire[Peer(e)] = <<>>
    BY <2>0 DEF Waiting, Sending, Receiving
  <2>8. CASE pc["tx"] \in {"sendHeader", "sendData"}
    <3>1. wire["tx"] # <<>>
      BY <2>0, <2>7, <2>8 DEF Sending
    <3>2. pc["rx"] = "sendAck"
      BY <2>0, <2>6, <2>7, <3>1 DEF Receiving
    <3>3. wire["rx"] # <<>>
      BY <2>0, <2>7, <3>2 DEF Sending
    <3> QED
      BY <2>1, <2>4, <2>5, <2>8, <3>1, <3>2, <3>3, NotBothFull
  <2>9. CASE pc["tx"] = "recvAck"
    <3>1. done["tx"] < AckLen /\ wire["rx"] = <<>>
      BY <2>0, <2>7, <2>9 DEF Receiving, InLen
    <3>2. pc["rx"] \in {"recvHeader", "recvData"}
      BY <2>0, <2>6, <2>7, <3>1 DEF Sending
    <3>3. done["rx"] < InLen("rx") /\ wire["tx"] = <<>>
      BY <2>0, <2>7, <3>2 DEF Receiving
    <3>4. \A e \in End : sock[e] = "open"
      BY <2>2, <2>3 DEF End
    <3> QED
      BY <2>1, <2>4, <2>5, <2>9, <3>1, <3>2, <3>3, <3>4, NotBothEmpty
  <2> QED
    BY <2>6, <2>8, <2>9
<1> QED
  BY <1>1, TurnsAlways, PTL
=============================================================================
