--------------------------- MODULE SocketLinkAcks ---------------------------
(***************************************************************************)
(* Why SocketLink's acknowledgements count messages: with notifications    *)
(* the direction from "rx" to "tx" carries acknowledgements only, and      *)
(* every unit on it continues what "tx" has read of them (AckInv).  With   *)
(* autonotify at both ends the two threads take turns (TurnInv).  TLC      *)
(* checks both invariants on the instances of MCSocketLink,                *)
(* SocketLinkAckProofs and SocketLinkTurnProofs prove them.                *)
(***************************************************************************)
EXTENDS SocketLinkFraming

AckSending == pc["rx"] \in {"sendAck", "notifySend"}
AckReading == pc["tx"] \in {"recvAck", "notifyRecv"} /\ done["tx"] > 0

\* Positions in the stream of acknowledgements, as in SocketLinkFraming.
AckSenderAt ==
  IF AckSending THEN At(acks["rx"] - 1, done["rx"], AckLen) ELSE <<acks["rx"], 0>>

AckReaderAt ==
  IF AckReading THEN At(frame["tx"] - 1, done["tx"], AckLen) ELSE <<frame["tx"], 0>>

AckAt(i) ==
  IF i = 0 THEN AckReaderAt
  ELSE At(wire["rx"][i].id - 1, wire["rx"][i].off, AckLen)

\* Each unit is the one behind what is in front of it.
AcksContiguous ==
  \A i \in 1..Len(wire["rx"]) :
    LET u == wire["rx"][i]
    IN  /\ u.kind = "ack"
        /\ u.id \in 1..acks["rx"]
        /\ u.off \in 1..AckLen
        /\ <<u.id - 1, u.off - 1>> = AckAt(i - 1)

AcksUpToSender ==
  sock["rx"] = "open" /\ sock["tx"] = "open" => AckSenderAt = AckAt(Len(wire["rx"]))

\* What the handlers know of the acknowledgement under way.
InAck ==
  /\ frame["tx"] <= acks["rx"]
  /\ (\E e \in End : sock[e] = "new") => acks["rx"] = 0
  /\ AckSending => acks["rx"] > 0 /\ done["rx"] <= AckLen
  /\ AckReading => frame["tx"] > 0 /\ done["tx"] <= AckLen

AcksInOrder == AcksContiguous /\ AcksUpToSender /\ InAck

AckInv == Notify["tx"] # "none" => AcksInOrder

-----------------------------------------------------------------------------
(* ICOM_FLAG_AUTONOTIFY at both ends.                                      *)

Autonotify == \A e \in End : Notify[e] = "autonotify"

\* tx connects, with its first message, and rx accepts; nobody sends or waits
\* for bytes before that.
Connected ==
  /\ pc["tx"] # "accept"
  /\ fdAccepted["tx"] => msgs["tx"] # <<>>
  /\ fdAccepted["rx"] => fdAccepted["tx"]
  /\ \A e \in End : pc[e] \in Sending \cup Receiving => fdAccepted[e]

\* No unit on the wire is of a message that has not been begun.
UnitsBegun ==
  \A i \in 1..Len(wire["tx"]) :
    wire["tx"][i].kind = "frame" => wire["tx"][i].id <= Len(msgs["tx"])

\* tx has read the acknowledgement of every message but the one under way.
TxTurn ==
  /\ pc["tx"] \in {"idle", "sendHeader", "sendData", "recvAck"}
  /\ frame["tx"] =
       IF pc["tx"] = "idle" \/ AckReading THEN Len(msgs["tx"]) ELSE Len(msgs["tx"]) - 1

\* rx has acknowledged every message it has returned, but for the last one
\* until it asks for the next; its first call only arms the acknowledgement.
RxTurn ==
  /\ pc["rx"] \in {"idle", "accept", "sendAck", "recvHeader", "recvData"}
  /\ ackArmed["rx"] <=> fdAccepted["rx"]
  /\ pc["rx"] = "accept" => ~fdAccepted["rx"]
  /\ ~fdAccepted["rx"] => acks["rx"] = 0 /\ Len(got["rx"]) = 0
  /\ fdAccepted["rx"] =>
       Len(got["rx"]) = IF pc["rx"] = "idle" THEN acks["rx"] + 1 ELSE acks["rx"]

\* tx has closed its end: everything it sent has been returned, everything
\* sent to it has been read, and rx is asking for a message that never comes.
TxOver ==
  /\ sock["tx"] = "closed"
  /\ pc["tx"] = "idle"
  /\ wire["tx"] = <<>> /\ wire["rx"] = <<>>
  /\ acks["rx"] = Len(msgs["tx"])
  /\ Len(got["rx"]) = Len(msgs["tx"])
  /\ \/ pc["rx"] \in {"idle", "accept"} /\ ~fdAccepted["tx"]
     \/ pc["rx"] = "sendAck" /\ done["rx"] = AckLen
     \/ pc["rx"] \in {"recvHeader", "spin"} /\ done["rx"] = 0

\* rx has closed its end: tx can still read the acknowledgement it is waiting
\* for, and there is no other.
RxOver ==
  /\ pc["rx"] = "idle"
  /\ sock["tx"] \in {"new", "open", "closed"}
  /\ sock["tx"] # "closed" =>
       /\ pc["tx"] \in {"idle", "sendHeader", "sendData", "recvAck", "spin", "killed"}
       /\ acks["rx"] <= IF AckReading THEN frame["tx"] ELSE frame["tx"] + 1
       /\ pc["tx"] # "recvAck" => wire["rx"] = <<>>

\* The two ends take turns until one of them closes.
TurnInv ==
  /\ Connected
  /\ UnitsBegun
  /\ Autonotify =>
       IF ~RxLive THEN RxOver
       ELSE IF sock["tx"] \in {"new", "open"} THEN TxTurn /\ RxTurn ELSE TxOver

-----------------------------------------------------------------------------
(* What follows for the applications.                                      *)

\* The thread is in a call and only the other end can move it on.
Waiting(e) ==
  \/ pc[e] = "accept" /\ ~fdAccepted[Peer(e)]
  \/ /\ pc[e] \in Receiving /\ done[e] < InLen(e)
     /\ wire[Peer(e)] = <<>> /\ sock[Peer(e)] = "open"
  \/ /\ pc[e] \in Sending /\ done[e] < OutLen(e)
     /\ Len(wire[e]) = SockBuf /\ sock[Peer(e)] = "open"

\* With autonotify at both ends the two threads never wait for each other: not
\* an icom_send for the acknowledgement (or for room) and an icom_recv for the
\* message behind it (link_sendData against link_recvHandler).
NoCircularWait == ~(Waiting("tx") /\ Waiting("rx"))

\* With autonotify at both ends icom_deinit of the sender never resets the
\* connection, whoever closes first: it leaves nothing unread that was sent to
\* it, and rx has nothing to send to a closed end.
ClosesInOrder == sock["tx"] \notin {"reset", "gone"}
=============================================================================
