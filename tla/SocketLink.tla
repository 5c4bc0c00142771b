----------------------------- MODULE SocketLink -----------------------------
(***************************************************************************)
(* One icom link over TCP (icom/src/link_socket.c): the connecting end     *)
(* "tx" (socket_tx) and the listening end "rx" (socket_rx), each driven by *)
(* one application thread.  An action is one system call of a handler, or  *)
(* one unit of a send()/recv() the kernel moves, so that the two threads   *)
(* interleave wherever the kernel lets them.  Bytes are counted in units;  *)
(* a unit on the wire remembers which frame or acknowledgement it is part  *)
(* of, and the payload itself is never looked at, as in the code.          *)
(***************************************************************************)
EXTENDS Naturals, Sequences

CONSTANTS
  Sizes,       \* buffer sizes the applications pass to icom_send
  HeaderLen,   \* units of icomMsgHeader_t
  PtrLen,      \* units of a void* (what a zero-copy message carries)
  AckLen,      \* units of the int that acknowledges a message
  SockBuf,     \* units the kernel holds per direction before send() blocks
  Zero,        \* [End -> BOOLEAN]  ICOM_FLAG_ZERO given to icom_init
  Notify,      \* [End -> Mode]     ICOM_FLAG_NOTIFY / ICOM_FLAG_AUTONOTIFY
  Timeout,     \* [End -> BOOLEAN]  ICOM_FLAG_TIMEOUT
  Calls,       \* [End -> SUBSET Api] the icom calls each application makes
  MayDeinit,   \* ends whose application may call icom_deinit
  MaxFrames,   \* bound: messages sent per end
  MaxAcks      \* bound: acknowledgements sent per end

End     == {"tx", "rx"}
Peer(e) == IF e = "tx" THEN "rx" ELSE "tx"
Mode    == {"none", "notify", "autonotify"}
Api     == {"send", "recv", "notify_send", "notify_recv"}

ASSUME LinkAssumption ==
  /\ Sizes \subseteq Nat
  /\ HeaderLen \in Nat \ {0}
  /\ PtrLen \in Nat \ {0}
  /\ AckLen \in Nat \ {0}
  /\ SockBuf \in Nat \ {0}
  /\ Zero \in [End -> BOOLEAN]
  /\ Notify \in [End -> Mode]
  /\ Timeout \in [End -> BOOLEAN]
  /\ Calls \in [End -> SUBSET Api]
  /\ MayDeinit \subseteq End
  /\ MaxFrames \in Nat
  /\ MaxAcks \in Nat

VARIABLES
  pc,          \* pc[e]: where e's thread is inside the icom call it makes
  done,        \* done[e]: units moved by the send()/recv() loop under way
  status,      \* status[e]: what e's last icom call returned
  sock,        \* sock[e]: e's socket, and how the peer sees it end: "closed"
               \* (FIN), "reset" (RST not yet reported), "gone" (reported)
  wire,        \* wire[e]: units sent by e that the peer has not read yet
  fdAccepted,  \* fdAccepted[e]: pdata->fdAccepted is set (# 0)
  zero,        \* zero[e]: link->flags & ICOM_FLAG_ZERO
  recvSize,    \* link->recvSize
  recvBufSize, \* link->recvBufSize
  ackArmed,    \* link->autoSendAck is link_sendAck, no longer link_autoSendAck
  msgs,        \* history: headers e has begun to put on the wire, in order
  acks,        \* history: acknowledgements e has begun to send
  frame,       \* frame (or ack) the units just read belong to; 0 = none
  got          \* history: what icom_recv returned with ICOM_SUCCESS

thread == <<pc, done, status>>
tcp    == <<sock, wire>>
link   == <<fdAccepted, zero, recvSize, recvBufSize, ackArmed>>
hist   == <<msgs, acks, frame, got>>
vars   == <<thread, tcp, link, hist>>

Sending   == {"sendHeader", "sendData", "sendAck", "notifySend"}
Receiving == {"recvHeader", "recvData", "recvAck", "notifyRecv"}
Pc        == {"idle", "accept", "spin", "killed"} \cup Sending \cup Receiving
Status    == {"none", "SUCCESS", "ERROR", "ECONNREFUSED", "PARTIAL", "TIMEOUT"}
SockState == {"new", "open", "closed", "reset", "gone"}
Message   == [size : Sizes, zero : BOOLEAN]
Result    == [id : Nat, size : Sizes \cup {0}, len : Nat]
Unit      == [kind : {"frame", "ack"}, id : Nat, off : Nat]

-----------------------------------------------------------------------------
(* The handler table icom_initSocketConnect/Bind fill in from the flags.   *)

SendHandlerSet(e)  == e = "tx" \/ Notify[e] = "none"
RecvHandlerAlways(e) == TRUE    \* mutant: line 353 sets link_recvHandler
RecvHandlerSet(e)  == e = "rx" \/ Notify[e] = "none"
AutoSendAckSet(e)  == e = "rx" /\ Notify[e] = "autonotify"
AutoRecvAckSet(e)  == e = "tx" /\ Notify[e] = "autonotify"

\* "nop", "error" or "ack" (link_sendAck, resp. link_recvAck)
NotifySendHandler(e) ==
  CASE Notify[e] = "none"                  -> "nop"
    [] Notify[e] # "none" /\ e = "tx"      -> "error"
    [] Notify[e] = "notify" /\ e = "rx"    -> "ack"
    [] Notify[e] = "autonotify" /\ e = "rx" -> "nop"

NotifyRecvHandler(e) ==
  CASE Notify[e] = "none"                  -> "nop"
    [] Notify[e] # "none" /\ e = "rx"      -> "error"
    [] Notify[e] = "notify" /\ e = "tx"    -> "ack"
    [] Notify[e] = "autonotify" /\ e = "tx" -> "nop"

-----------------------------------------------------------------------------
(* Moving a thread through its handlers.                                   *)

Enter(e, p) ==
  /\ pc'   = [pc EXCEPT ![e] = p]
  /\ done' = [done EXCEPT ![e] = 0]
  /\ UNCHANGED status

Return(e, s) ==
  /\ pc'     = [pc EXCEPT ![e] = "idle"]
  /\ done'   = [done EXCEPT ![e] = 0]
  /\ status' = [status EXCEPT ![e] = s]

\* The application's thread is free and may make the call.
CanCall(e, api) == pc[e] = "idle" /\ sock[e] = "open" /\ api \in Calls[e]

\* Mutant: the receiver expects one unit more than announced (a terminator).
RecvSizeTerminated(m) == IF m.zero THEN PtrLen ELSE m.size + 1

\* Units of payload the header m announces: what link_sendData puts on the
\* wire, and what link_recvHeader derives for link_recvData.
SendSize(m) == IF m.zero THEN PtrLen ELSE m.size
RecvSize(m) == IF m.zero THEN PtrLen ELSE m.size

OutMsg(e) == msgs[e][Len(msgs[e])]

\* What the thread sends, resp. waits for: header, payload or acknowledgement.
OutLen(e) ==
  IF pc[e] = "sendHeader" THEN HeaderLen
  ELSE IF pc[e] = "sendData" THEN SendSize(OutMsg(e))
  ELSE AckLen

InLen(e) ==
  IF pc[e] = "recvHeader" THEN HeaderLen
  ELSE IF pc[e] = "recvData" THEN recvSize[e]
  ELSE AckLen

-----------------------------------------------------------------------------
Init ==
  /\ pc          = [e \in End |-> "idle"]
  /\ done        = [e \in End |-> 0]
  /\ status      = [e \in End |-> "none"]
  /\ sock        = [e \in End |-> "new"]
  /\ wire        = [e \in End |-> <<>>]
  /\ fdAccepted  = [e \in End |-> FALSE]
  /\ zero        = [e \in End |-> FALSE]
  /\ recvSize    = [e \in End |-> 0]
  /\ recvBufSize = [e \in End |-> 0]
  /\ ackArmed    = [e \in End |-> FALSE]
  /\ msgs        = [e \in End |-> <<>>]
  /\ acks        = [e \in End |-> 0]
  /\ frame       = [e \in End |-> 0]
  /\ got         = [e \in End |-> <<>>]

\* icom_initSocketConnect / icom_initSocketBind: the socket exists (and rx
\* listens), nothing is connected, the receive buffer is empty.
InitSocket(e) ==
  /\ sock[e] = "new"
  /\ sock'        = [sock EXCEPT ![e] = "open"]
  /\ zero'        = [zero EXCEPT ![e] = Zero[e]]
  /\ fdAccepted'  = [fdAccepted EXCEPT ![e] = FALSE]
  /\ recvSize'    = [recvSize EXCEPT ![e] = 0]
  /\ recvBufSize' = [recvBufSize EXCEPT ![e] = 0]
  /\ ackArmed'    = [ackArmed EXCEPT ![e] = FALSE]
  /\ UNCHANGED <<thread, wire, hist>>

-----------------------------------------------------------------------------
(* The kernel side of send(): one unit enters the socket buffer.           *)

OutUnit(e) ==
  IF pc[e] \in {"sendAck", "notifySend"}
  THEN [kind |-> "ack", id |-> acks[e], off |-> done[e] + 1]
  ELSE [kind |-> "frame", id |-> Len(msgs[e]),
        off |-> done[e] + 1 + (IF pc[e] = "sendData" THEN HeaderLen ELSE 0)]

Push(e) ==
  /\ pc[e] \in Sending
  /\ done[e] < OutLen(e)
  /\ sock[Peer(e)] = "open"
  /\ Len(wire[e]) < SockBuf
  /\ wire' = [wire EXCEPT ![e] = Append(@, OutUnit(e))]
  /\ done' = [done EXCEPT ![e] = @ + 1]
  /\ UNCHANGED <<pc, status, sock, link, hist>>

(* The kernel side of recv(): one unit reaches the handler's buffer.       *)

\* The unit is the one that continues the header, payload or ack being read.
Continues(e, u) ==
  /\ u.kind = IF pc[e] \in {"recvAck", "notifyRecv"} THEN "ack" ELSE "frame"
  /\ u.off = done[e] + 1 + (IF pc[e] = "recvData" THEN HeaderLen ELSE 0)
  /\ u.off = 1 \/ u.id = frame[e]

Pull(e) ==
  /\ pc[e] \in Receiving
  /\ done[e] < InLen(e)
  /\ wire[Peer(e)] # <<>>
  /\ LET u == Head(wire[Peer(e)])
     IN  frame' = [frame EXCEPT ![e] = IF Continues(e, u) THEN u.id ELSE 0]
  /\ wire' = [wire EXCEPT ![Peer(e)] = Tail(@)]
  /\ done' = [done EXCEPT ![e] = @ + 1]
  /\ UNCHANGED <<pc, status, sock, link, msgs, acks, got>>

-----------------------------------------------------------------------------
(* icom_send: link_sendHandler.                                            *)

\* link_connect
ConnectResult(e) ==
  CASE fdAccepted[e]                                      -> "SUCCESS"
    [] ~fdAccepted[e] /\ e = "rx"                         -> "ERROR"
    [] ~fdAccepted[e] /\ e = "tx" /\ sock["rx"] = "open"  -> "SUCCESS"
    [] ~fdAccepted[e] /\ e = "tx" /\ sock["rx"] # "open"  -> "ECONNREFUSED"

Send(e, n) ==
  LET result == IF SendHandlerSet(e) THEN ConnectResult(e) ELSE "ERROR"
  IN
  /\ CanCall(e, "send")
  /\ Len(msgs[e]) < MaxFrames
  /\ \/ /\ result = "SUCCESS"
        /\ fdAccepted' = [fdAccepted EXCEPT ![e] = TRUE]
        /\ msgs' = [msgs EXCEPT ![e] = Append(@, [size |-> n, zero |-> zero[e]])]
        /\ Enter(e, "sendHeader")
        /\ UNCHANGED <<tcp, zero, recvSize, recvBufSize, ackArmed,
                       acks, frame, got>>
     \/ /\ result # "SUCCESS"
        /\ Return(e, result)
        /\ UNCHANGED <<tcp, link, hist>>

HeaderSent(e) ==
  /\ pc[e] = "sendHeader"
  /\ done[e] = OutLen(e)
  /\ Enter(e, "sendData")
  /\ UNCHANGED <<tcp, link, hist>>

\* Mutants: the wait for the ack is skipped; a short count is not noticed.
DataSentUnacked(e) ==
  /\ pc[e] = "sendData"
  /\ done[e] = OutLen(e)
  /\ Return(e, "SUCCESS")
  /\ UNCHANGED <<tcp, link, hist>>

DataSentShort(e) ==
  /\ pc[e] = "sendData"
  /\ done[e] \in {OutLen(e), 1}
  /\ IF AutoRecvAckSet(e) THEN Enter(e, "recvAck") ELSE Return(e, "SUCCESS")
  /\ UNCHANGED <<tcp, link, hist>>

\* After the payload link->autoRecvAck runs: link_nop, or a wait for the ack.
\* send() of no bytes still reports a reset.
DataSent(e) ==
  /\ pc[e] = "sendData"
  /\ done[e] = OutLen(e)
  /\ OutLen(e) = 0 => sock[Peer(e)] \notin {"reset", "gone"}
  /\ IF AutoRecvAckSet(e) THEN Enter(e, "recvAck") ELSE Return(e, "SUCCESS")
  /\ UNCHANGED <<tcp, link, hist>>

-----------------------------------------------------------------------------
(* icom_recv: link_recvHandler.                                            *)

\* Mutants: link_sendAck from the start (no link_autoSendAck before it), or
\* link_autoSendAck that never installs link_sendAck.
AutoSendAckEager(e) ==
  /\ UNCHANGED ackArmed
  /\ IF AutoSendAckSet(e)
     THEN Enter(e, "sendAck") /\ acks' = [acks EXCEPT ![e] = @ + 1]
     ELSE Enter(e, "recvHeader") /\ UNCHANGED acks

AutoSendAckNever(e) == Enter(e, "recvHeader") /\ UNCHANGED <<ackArmed, acks>>

\* link->autoSendAck: link_nop, link_autoSendAck (the first time only arms
\* the acknowledgement) or link_sendAck.
AutoSendAck(e) ==
  IF AutoSendAckSet(e) /\ ackArmed[e]
  THEN /\ Enter(e, "sendAck")
       /\ acks' = [acks EXCEPT ![e] = @ + 1]
       /\ UNCHANGED ackArmed
  ELSE /\ Enter(e, "recvHeader")
       /\ ackArmed' = [ackArmed EXCEPT ![e] = AutoSendAckSet(e)]
       /\ UNCHANGED acks

Recv(e) ==
  /\ CanCall(e, "recv")
  /\ AutoSendAckSet(e) => acks[e] < MaxAcks
  /\ \/ /\ RecvHandlerSet(e) /\ fdAccepted[e]
        /\ AutoSendAck(e)
        /\ UNCHANGED <<tcp, fdAccepted, zero, recvSize, recvBufSize,
                       msgs, frame, got>>
     \/ /\ RecvHandlerSet(e) /\ ~fdAccepted[e] /\ e = "rx"
        /\ Enter(e, "accept")
        /\ UNCHANGED <<tcp, link, hist>>
     \* link_error, or accept() on a socket that does not listen
     \/ /\ ~RecvHandlerSet(e) \/ (~fdAccepted[e] /\ e = "tx")
        /\ Return(e, "ERROR")
        /\ UNCHANGED <<tcp, link, hist>>

\* link_accept: the peer's connect() has completed.
Accept(e) ==
  /\ pc[e] = "accept"
  /\ fdAccepted[Peer(e)]
  /\ fdAccepted' = [fdAccepted EXCEPT ![e] = TRUE]
  /\ AutoSendAck(e)
  /\ UNCHANGED <<tcp, zero, recvSize, recvBufSize, msgs, frame, got>>

\* The header read: a header of the peer, or whatever the bytes happen to say.
HeaderRead(e) ==
  IF frame[e] # 0 THEN {msgs[Peer(e)][frame[e]]} ELSE Message

\* Mutants: link->flags stay as icom_init has set them; the buffer only ever
\* grows; the loop does not wait for all of the header.
HeaderReceivedOwnFlags(e) ==
  /\ pc[e] = "recvHeader"
  /\ done[e] = InLen(e)
  /\ \E m \in HeaderRead(e) :
       /\ recvBufSize' = [recvBufSize EXCEPT ![e] = m.size]
       /\ recvSize'    = [recvSize EXCEPT ![e] = RecvSize(m)]
  /\ Enter(e, "recvData")
  /\ UNCHANGED <<tcp, fdAccepted, zero, ackArmed, hist>>

HeaderReceivedGrow(e) ==
  /\ pc[e] = "recvHeader"
  /\ done[e] = InLen(e)
  /\ \E m \in HeaderRead(e) :
       IF recvBufSize[e] < m.size
       THEN /\ recvBufSize' = [recvBufSize EXCEPT ![e] = m.size]
            /\ recvSize'    = [recvSize EXCEPT ![e] = RecvSize(m)]
            /\ zero'        = [zero EXCEPT ![e] = m.zero]
       ELSE UNCHANGED <<recvBufSize, recvSize, zero>>
  /\ Enter(e, "recvData")
  /\ UNCHANGED <<tcp, fdAccepted, ackArmed, hist>>

HeaderReceivedShort(e) ==
  /\ pc[e] = "recvHeader"
  /\ done[e] = 1
  /\ \E m \in HeaderRead(e) :
       /\ recvBufSize' = [recvBufSize EXCEPT ![e] = m.size]
       /\ recvSize'    = [recvSize EXCEPT ![e] = RecvSize(m)]
       /\ zero'        = [zero EXCEPT ![e] = m.zero]
  /\ Enter(e, "recvData")
  /\ UNCHANGED <<tcp, fdAccepted, ackArmed, hist>>

\* link_recvHeader, lines 76-83: size, flags and buffer follow the header
\* only when the announced size differs from the one of the last message.
HeaderReceived(e) ==
  /\ pc[e] = "recvHeader"
  /\ done[e] = InLen(e)
  /\ \E m \in HeaderRead(e) :
       IF recvBufSize[e] # m.size
       THEN /\ recvBufSize' = [recvBufSize EXCEPT ![e] = m.size]
            /\ recvSize'    = [recvSize EXCEPT ![e] = RecvSize(m)]
            /\ zero'        = [zero EXCEPT ![e] = m.zero]
       ELSE UNCHANGED <<recvBufSize, recvSize, zero>>
  /\ Enter(e, "recvData")
  /\ UNCHANGED <<tcp, fdAccepted, ackArmed, hist>>

\* recv() asked for no bytes waits all the same: for something to read, for the
\* end of the stream, or for its timeout, and returns 0.
EmptyReadReturns(e) ==
  \/ wire[Peer(e)] # <<>>
  \/ sock[Peer(e)] \in {"closed", "gone"}
  \/ Timeout[e] /\ sock[Peer(e)] = "open"

DataReceived(e) ==
  /\ pc[e] = "recvData"
  /\ done[e] = InLen(e)
  /\ InLen(e) = 0 => EmptyReadReturns(e)
  /\ IF ~zero[e] /\ done[e] # recvBufSize[e]
     THEN Return(e, "PARTIAL") /\ UNCHANGED got
     ELSE /\ Return(e, "SUCCESS")
          /\ got' = [got EXCEPT ![e] = Append(@,
                       [id   |-> frame[e],
                        size |-> IF zero[e] THEN recvBufSize[e] ELSE done[e],
                        len  |-> done[e]])]
  /\ UNCHANGED <<tcp, link, msgs, acks, frame>>

-----------------------------------------------------------------------------
(* Acknowledgements: icom_notify_send, icom_notify_recv, and the ends of   *)
(* link_sendAck and link_recvAck in whatever call they run.                *)

\* Before accept() pdata->fdAccepted is 0, which is not a socket.
NotifySend(e) ==
  /\ CanCall(e, "notify_send")
  /\ acks[e] < MaxAcks
  /\ IF NotifySendHandler(e) = "ack" /\ fdAccepted[e]
     THEN /\ Enter(e, "notifySend")
          /\ acks' = [acks EXCEPT ![e] = @ + 1]
     ELSE /\ Return(e, IF NotifySendHandler(e) = "nop" THEN "SUCCESS" ELSE "ERROR")
          /\ UNCHANGED acks
  /\ UNCHANGED <<tcp, link, msgs, frame, got>>

NotifyRecv(e) ==
  /\ CanCall(e, "notify_recv")
  /\ IF NotifyRecvHandler(e) = "ack" /\ fdAccepted[e]
     THEN Enter(e, "notifyRecv")
     ELSE Return(e, IF NotifyRecvHandler(e) = "nop" THEN "SUCCESS" ELSE "ERROR")
  /\ UNCHANGED <<tcp, link, hist>>

AckSent(e) ==
  /\ pc[e] \in {"sendAck", "notifySend"}
  /\ done[e] = OutLen(e)
  /\ IF pc[e] = "sendAck" THEN Enter(e, "recvHeader") ELSE Return(e, "SUCCESS")
  /\ UNCHANGED <<tcp, link, hist>>

\* Mutant: a short count of recv() is not noticed.
AckReceivedShort(e) ==
  /\ pc[e] \in {"recvAck", "notifyRecv"}
  /\ done[e] \in {InLen(e), 1}
  /\ Return(e, "SUCCESS")
  /\ UNCHANGED <<tcp, link, hist>>

\* Bytes that are no acknowledgement may still read as the integer 1.
AckReceived(e) ==
  /\ pc[e] \in {"recvAck", "notifyRecv"}
  /\ done[e] = InLen(e)
  /\ \E s \in IF frame[e] # 0 THEN {"SUCCESS"} ELSE {"SUCCESS", "ERROR"} :
       Return(e, s)
  /\ UNCHANGED <<tcp, link, hist>>

-----------------------------------------------------------------------------
(* SO_SNDTIMEO and SO_RCVTIMEO.                                            *)

\* send() blocked on a full buffer: -1 when nothing was taken, else a short
\* count, which only link_sendData compares with the length it asked for.
SendTimesOut(e) ==
  /\ Timeout[e]
  /\ pc[e] \in Sending
  /\ done[e] < OutLen(e)
  /\ sock[Peer(e)] = "open"
  /\ Len(wire[e]) = SockBuf
  /\ CASE done[e] = 0                               -> Return(e, "TIMEOUT")
       [] done[e] > 0 /\ pc[e] = "sendHeader"       -> Enter(e, "sendData")
       [] done[e] > 0 /\ pc[e] = "sendData"         -> Return(e, "PARTIAL")
       [] done[e] > 0 /\ pc[e] = "sendAck"          -> Enter(e, "recvHeader")
       [] done[e] > 0 /\ pc[e] = "notifySend"       -> Return(e, "SUCCESS")
  /\ UNCHANGED <<tcp, link, hist>>

\* recv() found nothing in time; what the loop had read so far is forgotten.
RecvTimesOut(e) ==
  /\ Timeout[e]
  /\ pc[e] \in Receiving
  /\ done[e] < InLen(e)
  /\ wire[Peer(e)] = <<>>
  /\ sock[Peer(e)] = "open"
  /\ Return(e, "TIMEOUT")
  /\ UNCHANGED <<tcp, link, hist>>

\* Mutant: the listening socket was given no SO_RCVTIMEO.
AcceptNeverTimesOut(e) == FALSE /\ UNCHANGED vars

AcceptTimesOut(e) ==
  /\ Timeout[e]
  /\ pc[e] = "accept"
  /\ ~fdAccepted[Peer(e)]
  /\ Return(e, "TIMEOUT")
  /\ UNCHANGED <<tcp, link, hist>>

-----------------------------------------------------------------------------
(* icom_deinitSocket, and what TCP then tells the end that is left.        *)

\* Closing with unread or unaccepted input resets the connection, and the
\* kernel may drop what it still held of the closing end's own output.  The
\* shutdown() before it only announces the end of the stream first: what is sent
\* until the reset goes where nobody reads, as if sent just before, and a
\* receive loop that meets the end goes round, adding 0, until the reset is there.
Deinit(e) ==
  /\ e \in MayDeinit
  /\ pc[e] = "idle"
  /\ sock[e] = "open"
  /\ IF wire[Peer(e)] # <<>> \/ (fdAccepted[Peer(e)] /\ ~fdAccepted[e])
     THEN /\ sock' = [sock EXCEPT ![e] = "reset"]
          /\ \E k \in 0..Len(wire[e]) :
               wire' = [wire EXCEPT ![Peer(e)] = <<>>,
                                    ![e] = SubSeq(@, 1, k)]
     ELSE /\ sock' = [sock EXCEPT ![e] = "closed"]
          /\ UNCHANGED wire
  /\ UNCHANGED <<thread, link, hist>>

\* recv() returns 0 from now on: the do-while loops take it for progress.
PeerClosed(e) ==
  /\ pc[e] \in Receiving
  /\ done[e] < InLen(e)
  /\ wire[Peer(e)] = <<>>
  /\ sock[Peer(e)] \in {"closed", "gone"}
  /\ pc' = [pc EXCEPT ![e] = "spin"]
  /\ UNCHANGED <<done, status, tcp, link, hist>>

\* ECONNRESET, reported once.
RecvReset(e) ==
  /\ pc[e] \in Receiving
  /\ done[e] < InLen(e) \/ InLen(e) = 0
  /\ wire[Peer(e)] = <<>>
  /\ sock[Peer(e)] = "reset"
  /\ Return(e, "ERROR")
  /\ sock' = [sock EXCEPT ![Peer(e)] = "gone"]
  /\ UNCHANGED <<wire, link, hist>>

\* The kernel takes the unit, which nobody will read; the peer's reset is here
\* before the next one, or a send() may still take more, up to all of it.
SendToClosed(e) ==
  /\ pc[e] \in Sending
  /\ done[e] < OutLen(e)
  /\ sock[Peer(e)] = "closed"
  /\ done' = [done EXCEPT ![e] = @ + 1]
  /\ sock' = [sock EXCEPT ![Peer(e)] = "reset"] \/ UNCHANGED sock
  /\ UNCHANGED <<pc, status, wire, link, hist>>

\* ECONNRESET, or EPIPE with the SIGPIPE that no caller of send() masks.
SendReset(e) ==
  /\ pc[e] \in Sending
  /\ done[e] < OutLen(e) \/ OutLen(e) = 0
  /\ sock[Peer(e)] \in {"reset", "gone"}
  /\ \/ /\ sock[Peer(e)] = "reset"
        /\ Return(e, "ERROR")
        /\ sock' = [sock EXCEPT ![Peer(e)] = "gone"]
     \/ /\ pc' = [pc EXCEPT ![e] = "killed"]
        /\ UNCHANGED <<done, status, sock>>
  /\ UNCHANGED <<wire, link, hist>>

-----------------------------------------------------------------------------
\* What the library and the kernel do once a call has been made.
Works(e) ==
  \/ Push(e) \/ HeaderSent(e) \/ DataSent(e)
  \/ Accept(e) \/ Pull(e) \/ HeaderReceived(e) \/ DataReceived(e)
  \/ AckSent(e) \/ AckReceived(e)
  \/ PeerClosed(e) \/ RecvReset(e) \/ SendToClosed(e) \/ SendReset(e)

Progress(e) == Works(e) \/ SendTimesOut(e) \/ RecvTimesOut(e) \/ AcceptTimesOut(e)

\* What the applications do.
Call(e) ==
  \/ InitSocket(e) \/ Deinit(e)
  \/ Recv(e) \/ NotifySend(e) \/ NotifyRecv(e)
  \/ \E n \in Sizes : Send(e, n)

Next == \E e \in End : Progress(e) \/ Call(e)

Spec == Init /\ [][Next]_vars

\* Threads are scheduled, both objects get initialised, and the receiving
\* application calls icom_recv again after each return.
Fairness ==
  /\ \A e \in End : WF_vars(Progress(e)) /\ WF_vars(InitSocket(e))
  /\ WF_vars(Recv("rx"))

FairSpec == Spec /\ Fairness

-----------------------------------------------------------------------------
(* Properties.                                                             *)

\* The k-th message returned by e's icom_recv is the k-th one the peer sent.
Returned(e, k) ==
  [id   |-> k,
   size |-> msgs[Peer(e)][k].size,
   len  |-> SendSize(msgs[Peer(e)][k])]

TypeOK ==
  /\ pc          \in [End -> Pc]
  /\ done        \in [End -> Nat]
  /\ status      \in [End -> Status]
  /\ sock        \in [End -> SockState]
  /\ wire        \in [End -> Seq(Unit)]
  /\ fdAccepted  \in [End -> BOOLEAN]
  /\ zero        \in [End -> BOOLEAN]
  /\ recvSize    \in [End -> Sizes \cup {0, PtrLen}]
  /\ recvBufSize \in [End -> Sizes \cup {0}]
  /\ ackArmed    \in [End -> BOOLEAN]
  /\ msgs        \in [End -> Seq(Message)]
  /\ acks        \in [End -> Nat]
  /\ frame       \in [End -> Nat]
  /\ got         \in [End -> Seq(Result)]

\* Every icom_recv that returns ICOM_SUCCESS returns the next message of the
\* peer: in order, none lost, repeated or joined to another, with the size
\* given to icom_send and all of its payload (link_recvHeader and
\* link_recvData against link_sendHeader and link_sendData).
Delivery ==
  \A e \in End :
    /\ Len(got[e]) <= Len(msgs[Peer(e)])
    /\ \A k \in DOMAIN got[e] : got[e][k] = Returned(e, k)

\* A receive loop never reads bytes of one frame as part of another, of a
\* payload as a header, or of an acknowledgement as either: the two directions
\* carry headers, payloads and acks without any marker between them.
InStep ==
  \A e \in End : pc[e] \in Receiving /\ done[e] > 0 => frame[e] # 0

\* The receiving end has not been closed.
RxLive == sock["rx"] \in {"new", "open"}

\* link_autoSendAck skips exactly one acknowledgement: with autonotify at both
\* ends an ack is sent only for a message the application has taken, and until
\* the receiver closes at most one message is not acknowledged yet.
StopAndWait ==
  RxLive =>
    /\ acks["rx"] <= Len(got["rx"])
    /\ Len(got["rx"]) <= Len(msgs["tx"])
    /\ Len(msgs["tx"]) <= acks["rx"] + 1

\* With autonotify at both ends, once icom_send has returned ICOM_SUCCESS the
\* receiving application has asked for the next message, so that it is done
\* with this one and the sender may overwrite its buffer.
AckedIsTaken ==
  RxLive /\ pc["tx"] = "idle" /\ status["tx"] = "SUCCESS" =>
    /\ Len(got["rx"]) = Len(msgs["tx"])
    /\ acks["rx"] = Len(msgs["tx"])

\* recv() reports the end of the stream only behind the last byte: when the
\* peer closed its end in good order, every message it sent has been returned
\* before the receive loop meets the 0 that it cannot leave.
DrainedAtEof ==
  \A e \in End :
    pc[e] = "spin" /\ sock[Peer(e)] = "closed" =>
      Len(got[e]) = Len(msgs[Peer(e)])

\* ICOM_FLAG_TIMEOUT: an icom call of that end returns, whatever the peer does.
TimedCallsReturn ==
  \A e \in End : Timeout[e] => (pc[e] # "idle" ~> pc[e] = "idle")

\* icom_send returns as long as the receiving application keeps receiving.
SendReturns == pc["tx"] # "idle" ~> pc["tx"] = "idle" \/ ~RxLive

\* The link as the applications see it.
Channel == INSTANCE MsgChannel WITH
  Ends     <- End,
  Other    <- Peer,
  Payload  <- Sizes,
  sent     <- [e \in End |-> [k \in DOMAIN msgs[e] |-> msgs[e][k].size]],
  received <- [e \in End |-> [k \in DOMAIN got[e] |-> got[e][k].size]]

\* A message handed to icom_send comes out of the peer's icom_recv once, whole
\* and in order, and eventually, as long as the peer keeps receiving.
IsAChannel == Channel!FairChanSpec
=============================================================================
