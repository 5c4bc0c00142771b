------------------------- MODULE SocketLinkFraming -------------------------
(***************************************************************************)
(* Why SocketLink delivers: at every moment the units on the wire continue *)
(* exactly what the receiver has consumed, and the sender continues them.  *)
(* FramingInv is the inductive invariant SocketLinkFramingProofs proves; TLC *)
(* checks it on the instances of MCSocketLink.                             *)
(***************************************************************************)
EXTENDS SocketLink

\* Messages flow from s to its peer; acknowledgements do not.
FrameDir(s) == s = "tx" \/ Notify["tx"] = "none"

\* The flags under which icom's framing works: notifications at both ends or
\* at neither, the same ICOM_FLAG_ZERO at two ends that both send (a header
\* replaces the flags the receiver sends with), and no empty message in
\* zero-copy mode (its header is one link_recvHeader may not act upon).
Compatible ==
  /\ Notify["tx"] = "none" <=> Notify["rx"] = "none"
  /\ FrameDir("rx") => Zero["tx"] = Zero["rx"]
  /\ Zero["tx"] => 0 \notin Sizes

\* ICOM_FLAG_TIMEOUT at neither end.
Untimed == \A e \in End : ~Timeout[e]

\* The receive loop has read nothing yet of a header or an acknowledgement.
TimesOutEarly(e) == done[e] = 0 /\ pc[e] # "recvData" /\ RecvTimesOut(e)

\* A link whose timeouts strike between two messages, if at all: only accept()
\* and a receive loop that waits for a first byte give up.
TimelyNext ==
  \E e \in End : Works(e) \/ AcceptTimesOut(e) \/ TimesOutEarly(e) \/ Call(e)

TimelySpec == Init /\ [][TimelyNext]_vars

FrameLen(s, k) == HeaderLen + SendSize(msgs[s][k])

\* A position in a stream: <<k, o>> is behind k whole frames and o units of the
\* next one, of which there are len in all.
At(k, o, len) == IF o > 0 /\ o = len THEN <<k + 1, 0>> ELSE <<k, o>>

SenderAt(s) ==
  LET n == Len(msgs[s])
  IN  IF pc[s] = "sendHeader" THEN At(n - 1, done[s], FrameLen(s, n))
      ELSE IF pc[s] = "sendData" THEN At(n - 1, HeaderLen + done[s], FrameLen(s, n))
      ELSE <<n, 0>>

ReceiverAt(s) ==
  LET r == Peer(s)
      g == Len(got[r])
  IN  IF pc[r] = "recvHeader" THEN At(g, done[r], FrameLen(s, g + 1))
      ELSE IF pc[r] = "recvData" THEN At(g, HeaderLen + done[r], FrameLen(s, g + 1))
      ELSE <<g, 0>>

\* Behind the first i units on the wire.
BehindUnit(s, u) == At(u.id - 1, u.off, FrameLen(s, u.id))

WireAt(s, i) == IF i = 0 THEN ReceiverAt(s) ELSE BehindUnit(s, wire[s][i])

Contiguous(s) ==
  \A i \in 1..Len(wire[s]) :
    LET u == wire[s][i]
    IN  /\ u.kind = "frame"
        /\ u.off \in 1..FrameLen(s, u.id)
        /\ <<u.id - 1, u.off - 1>> = WireAt(s, i - 1)

\* An end that was closed in good order has sent all of its last message.
UpToSender(s) ==
  sock[s] \in {"open", "closed"} /\ sock[Peer(s)] = "open" =>
    SenderAt(s) = WireAt(s, Len(wire[s]))

\* What the handlers know of the message under way.
InMessage(s) ==
  LET r == Peer(s)
  IN  /\ pc[s] = "sendHeader" => done[s] <= HeaderLen
      /\ pc[s] = "sendData" => done[s] <= SendSize(OutMsg(s))
      /\ pc[r] = "recvHeader" /\ done[r] > 0 =>
           /\ done[r] <= HeaderLen
           /\ frame[r] = Len(got[r]) + 1
           /\ frame[r] \in 1..Len(msgs[s])
      /\ pc[r] = "recvData" =>
           /\ frame[r] = Len(got[r]) + 1
           /\ frame[r] \in 1..Len(msgs[s])
           /\ recvBufSize[r] = msgs[s][frame[r]].size
           /\ recvSize[r] = SendSize(msgs[s][frame[r]])
           /\ done[r] <= recvSize[r]

\* What s sends has the flags s was initialised with.
ZeroKept ==
  \A s \in End : FrameDir(s) =>
    /\ sock[s] # "new" => zero[s] = Zero[s]
    /\ \A k \in 1..Len(msgs[s]) : msgs[s][k].zero = Zero[s]

\* The end that reads it has a buffer and flags that fit, or no buffer yet.
BufferKept ==
  \A s \in End : FrameDir(s) =>
    LET r == Peer(s)
    IN  \/ recvBufSize[r] = 0 /\ recvSize[r] = 0
        \/ /\ recvSize[r] = IF Zero[s] THEN PtrLen ELSE recvBufSize[r]
           /\ zero[r] = Zero[s]

\* Which handlers an end can be in, by its flags.
Role(e) ==
  /\ pc[e] # "idle" => sock[e] = "open"
  /\ pc[e] \in {"sendHeader", "sendData"} => SendHandlerSet(e)
  /\ pc[e] \in {"accept", "recvHeader", "recvData"} => RecvHandlerSet(e)
  /\ pc[e] \in {"sendAck", "notifySend"} => e = "rx" /\ Notify[e] # "none"
  /\ pc[e] \in {"recvAck", "notifyRecv"} => e = "tx" /\ Notify[e] # "none"
  /\ msgs[e] # <<>> => SendHandlerSet(e)
  /\ got[e] # <<>> => RecvHandlerSet(e)

Roles == \A e \in End : Role(e)

\* Until both objects are initialised nothing is connected.
Pristine ==
  (\E e \in End : sock[e] = "new") =>
    \A e \in End :
      /\ pc[e] \in {"idle", "accept"}
      /\ ~fdAccepted[e]
      /\ msgs[e] = <<>> /\ got[e] = <<>> /\ wire[e] = <<>>

\* The stream between the two ends is in step, and what was returned is what
\* was sent (all handlers of link_socket.c together).
FramingInv ==
  /\ Roles
  /\ Pristine
  /\ ZeroKept
  /\ BufferKept
  /\ \A s \in End : FrameDir(s) => Contiguous(s) /\ UpToSender(s) /\ InMessage(s)
  /\ Delivery

\* A receive loop that met the end of the stream has nothing more to read, and
\* never will: what DrainedAtEof adds to FramingInv.
EofInv ==
  \A e \in End : pc[e] = "spin" => wire[Peer(e)] = <<>> /\ sock[Peer(e)] # "open"
=============================================================================
