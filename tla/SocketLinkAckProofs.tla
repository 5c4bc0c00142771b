------------------------ MODULE SocketLinkAckProofs ------------------------
(* The acknowledgements of a link with notifications: AckInv is an invariant *)
(* of SocketLink, and with it InStep.                                       *)
EXTENDS SocketLinkAcks, SocketLinkFramingProofs

LEMMA AckFacts ==
  ASSUME TypeInv
  PROVE  /\ acks["rx"] \in Nat /\ frame["tx"] \in Nat
         /\ done["tx"] \in Nat /\ done["rx"] \in Nat
         /\ wire["rx"] \in Seq(Unit) /\ Len(wire["rx"]) \in Nat
         /\ AckLen \in Nat /\ AckLen > 0
<1>1. "tx" \in End /\ "rx" \in End
  BY DEF End
<1> QED
  BY <1>1, LinkAssumption, LenProperties DEF TypeInv, TypeOK

\* With notifications each end runs the handlers of its own side only.
LEMMA AckRoles ==
  ASSUME FramingInv, Compatible, Notify["tx"] # "none"
  PROVE  /\ Notify["rx"] # "none"
         /\ pc["tx"] \notin {"accept", "recvHeader", "recvData", "sendAck", "notifySend"}
         /\ pc["rx"] \notin {"sendHeader", "sendData", "recvAck", "notifyRecv"}
  BY DEF FramingInv, Compatible, Roles, Role, End, SendHandlerSet, RecvHandlerSet

\* A step that leaves the wire alone and moves neither end's position in the
\* stream (or finds it broken off).
LEMMA AckKeep ==
  ASSUME TypeInv, TypeInv', AcksContiguous, AcksUpToSender,
         wire'["rx"] = wire["rx"], acks["rx"] <= acks'["rx"],
         wire["rx"] = <<>> \/ AckReaderAt' = AckReaderAt,
         sock'["tx"] = "open" /\ sock'["rx"] = "open" =>
           /\ sock["tx"] = "open" /\ sock["rx"] = "open"
           /\ AckSenderAt' = AckSenderAt /\ AckReaderAt' = AckReaderAt
  PROVE  AcksContiguous' /\ AcksUpToSender'
<1>1. Len(wire["rx"]) \in Nat /\ acks["rx"] \in Nat /\ acks'["rx"] \in Nat
  BY AckFacts DEF TypeInv, TypeOK, End
<1>2. \A i \in 1..Len(wire["rx"]) : AckAt(i)' = AckAt(i)
  BY <1>1 DEF AckAt, At
<1>3. AckReaderAt' = AckReaderAt => AckAt(0)' = AckAt(0)
  BY DEF AckAt
<1>4. AcksContiguous'
  <2> SUFFICES ASSUME NEW i \in 1..Len(wire["rx"])
               PROVE  LET u == wire["rx"][i]
                      IN  /\ u.kind = "ack"
                          /\ u.id \in 1..acks'["rx"]
                          /\ u.off \in 1..AckLen
                          /\ <<u.id - 1, u.off - 1>> = AckAt(i - 1)'
    BY DEF AcksContiguous
  <2>1. wire["rx"] # <<>>
    BY <1>1, AckFacts, EmptySeq
  <2>2. i - 1 = 0 \/ i - 1 \in 1..Len(wire["rx"])
    BY <1>1
  <2>3. AckAt(i - 1)' = AckAt(i - 1)
    BY <1>2, <1>3, <2>1, <2>2
  <2>4. wire["rx"][i].id \in 1..acks'["rx"]
    BY <1>1 DEF AcksContiguous
  <2> QED
    BY <2>3, <2>4 DEF AcksContiguous
<1>5. AcksUpToSender'
  <2>1. Len(wire["rx"]) = 0 \/ Len(wire["rx"]) \in 1..Len(wire["rx"])
    BY <1>1
  <2> QED
    BY <1>2, <1>3, <2>1 DEF AcksUpToSender
<1> QED
  BY <1>4, <1>5

\* A step of tx that reads nothing.
LEMMA AckTxStep ==
  ASSUME TypeInv, TypeInv', AcksInOrder,
         acks'["rx"] = acks["rx"], wire'["rx"] = wire["rx"],
         pc'["rx"] = pc["rx"], done'["rx"] = done["rx"], frame'["tx"] = frame["tx"],
         \A d \in End : /\ sock'[d] = "open" => sock[d] = "open"
                        /\ sock'[d] = "new" => sock[d] = "new",
         ~AckReading',
         \/ ~AckReading
         \/ done["tx"] = AckLen
         \/ wire["rx"] = <<>> /\ sock'["rx"] # "open"
  PROVE  AcksInOrder'
<1>1. AckSenderAt' = AckSenderAt
  BY DEF AckSenderAt, AckSending
<1>2. AckReaderAt' = AckReaderAt \/ (wire["rx"] = <<>> /\ sock'["rx"] # "open")
  BY AckFacts DEF AckReaderAt, At
<1>3. AcksContiguous' /\ AcksUpToSender'
  BY <1>1, <1>2, AckKeep, AckFacts DEF AcksInOrder, End
<1>4. InAck'
  BY DEF AcksInOrder, InAck, AckSending
<1> QED
  BY <1>3, <1>4 DEF AcksInOrder

\* A step of rx that puts nothing on the wire; the acknowledgement it may
\* begin is the next one.
LEMMA AckRxStep ==
  ASSUME TypeInv, TypeInv', AcksInOrder,
         wire'["rx"] = wire["rx"],
         pc'["tx"] = pc["tx"], done'["tx"] = done["tx"], frame'["tx"] = frame["tx"],
         \A d \in End : /\ sock'[d] = "open" => sock[d] = "open"
                        /\ sock'[d] = "new" => sock[d] = "new",
         \/ /\ acks'["rx"] = acks["rx"]
            /\ ~AckSending'
            /\ ~AckSending \/ done["rx"] = AckLen \/ sock'["tx"] # "open"
         \/ /\ acks'["rx"] = acks["rx"]
            /\ AckSending /\ sock'["tx"] # "open" /\ done'["rx"] <= AckLen
         \/ /\ acks'["rx"] = acks["rx"] + 1
            /\ ~AckSending /\ AckSending' /\ done'["rx"] = 0
            /\ \A d \in End : sock[d] # "new"
  PROVE  AcksInOrder'
<1>1. AckReaderAt' = AckReaderAt
  BY DEF AckReaderAt, AckReading
<1>2. AckSenderAt' = AckSenderAt \/ sock'["tx"] # "open"
  <2>1. CASE /\ acks'["rx"] = acks["rx"]
             /\ ~AckSending'
             /\ ~AckSending \/ done["rx"] = AckLen
    <3>1. AckSenderAt' = <<acks["rx"], 0>>
      BY <2>1 DEF AckSenderAt
    <3>2. ASSUME done["rx"] = AckLen
          PROVE  At(acks["rx"] - 1, done["rx"], AckLen) = <<acks["rx"], 0>>
      BY <3>2, AckFacts DEF At
    <3> QED
      BY <2>1, <3>1, <3>2 DEF AckSenderAt
  <2>2. CASE acks'["rx"] = acks["rx"] + 1
    BY <2>2, AckFacts DEF AckSenderAt, At
  <2> QED
    BY <2>1, <2>2, AckFacts
<1>3. acks["rx"] <= acks'["rx"]
  BY AckFacts
<1>4. AcksContiguous' /\ AcksUpToSender'
  BY <1>1, <1>2, <1>3, AckKeep, AckFacts DEF AcksInOrder, End
<1>5. InAck'
  BY AckFacts DEF AcksInOrder, InAck, AckReading
<1> QED
  BY <1>4, <1>5 DEF AcksInOrder

\* Push by rx extends the wire where the acknowledgement stands.
LEMMA AckPush ==
  ASSUME TypeInv, TypeInv', FramingInv, Compatible, Notify["tx"] # "none",
         AcksInOrder, Push("rx")
  PROVE  AcksInOrder'
<1>1. PICK a : a = acks["rx"]
  OBVIOUS
<1>2. PICK o : o = done["rx"]
  OBVIOUS
<1>3. PICK n : n = Len(wire["rx"])
  OBVIOUS
<1>4. "rx" \in End /\ "tx" \in End /\ Peer("rx") = "tx" /\ "rx" # "tx"
  BY DEF End, Peer
<1>5. /\ AckSending /\ sock["tx"] = "open" /\ sock["rx"] = "open"
      /\ UNCHANGED <<pc, sock, acks, frame>>
      /\ o < AckLen
  <2>1. pc["rx"] \in {"sendAck", "notifySend"} /\ sock["rx"] = "open"
    BY <1>4, AckRoles DEF Push, Sending, FramingInv, Roles, Role
  <2> QED
    BY <1>4, <1>2, <2>1 DEF Push, AckSending, OutLen, hist
<1>6. a \in Nat /\ o \in Nat /\ n \in Nat /\ AckLen \in Nat
  BY <1>1, <1>2, <1>3, AckFacts
<1>7. PICK u : u = [kind |-> "ack", id |-> a, off |-> o + 1]
  OBVIOUS
<1>8. /\ Len(wire'["rx"]) = n + 1
      /\ wire'["rx"][n + 1] = u
      /\ \A i \in 1..n : wire'["rx"][i] = wire["rx"][i]
  <2>1. u = OutUnit("rx") /\ u \in Unit
    BY <1>5, <1>6, <1>1, <1>2, <1>7 DEF AckSending, OutUnit, Unit
  <2>2. wire'["rx"] = Append(wire["rx"], u) /\ wire["rx"] \in Seq(Unit)
    BY <1>4, <2>1 DEF Push, TypeInv, TypeOK
  <2> QED
    BY <1>3, <2>1, <2>2, AppendProperties
<1>9. done'["rx"] = o + 1 /\ done'["tx"] = done["tx"]
  BY <1>4, <1>2 DEF Push, TypeInv, TypeOK
<1>10. AckReaderAt' = AckReaderAt
  BY <1>5, <1>9 DEF AckReaderAt, AckReading
<1>11. \A i \in 0..n : AckAt(i)' = AckAt(i)
  BY <1>6, <1>8, <1>10 DEF AckAt, At
<1>12. AckSenderAt = <<a - 1, o>> /\ AckSenderAt = AckAt(n)
  <2>1. AckSenderAt = At(a - 1, o, AckLen)
    BY <1>5, <1>1, <1>2 DEF AckSenderAt
  <2>2. At(a - 1, o, AckLen) = <<a - 1, o>>
    BY <1>5, <1>6 DEF At
  <2> QED
    BY <1>5, <1>3, <2>1, <2>2 DEF AcksInOrder, AcksUpToSender
<1>13. AcksContiguous'
  <2> SUFFICES ASSUME NEW i \in 1..(n + 1)
               PROVE  LET v == wire'["rx"][i]
                      IN  /\ v.kind = "ack"
                          /\ v.id \in 1..acks'["rx"]
                          /\ v.off \in 1..AckLen
                          /\ <<v.id - 1, v.off - 1>> = AckAt(i - 1)'
    BY <1>8 DEF AcksContiguous
  <2>1. i - 1 \in 0..n
    BY <1>6
  <2>2. AckAt(i - 1)' = AckAt(i - 1)
    BY <1>11, <2>1
  <2>3. CASE i = n + 1
    <3>1. a > 0 /\ acks'["rx"] = a
      BY <1>5, <1>1 DEF AcksInOrder, InAck
    <3>2. u.kind = "ack" /\ u.id = a /\ u.off = o + 1
      BY <1>7
    <3>3. <<u.id - 1, u.off - 1>> = AckAt(n)
      BY <1>6, <1>12, <3>2
    <3>4. i - 1 = n
      BY <1>6, <2>3
    <3> QED
      BY <1>5, <1>6, <1>8, <2>2, <2>3, <3>1, <3>2, <3>3, <3>4
  <2>4. CASE i # n + 1
    <3>1. i \in 1..n
      BY <1>6, <2>4
    <3> QED
      BY <1>5, <1>8, <1>3, <2>2, <3>1 DEF AcksInOrder, AcksContiguous
  <2> QED
    BY <2>3, <2>4
<1>14. AcksUpToSender'
  <2>1. AckSenderAt' = At(a - 1, o + 1, AckLen)
    BY <1>5, <1>9, <1>1 DEF AckSenderAt, AckSending
  <2>2. AckAt(n + 1)' = At(a - 1, o + 1, AckLen)
    BY <1>6, <1>8, <1>7 DEF AckAt
  <2> QED
    BY <1>8, <2>1, <2>2 DEF AcksUpToSender
<1>15. InAck'
  BY <1>5, <1>6, <1>9, <1>2 DEF AcksInOrder, InAck, AckSending, AckReading
<1> QED
  BY <1>13, <1>14, <1>15 DEF AcksInOrder

\* Pull by tx reads the unit that continues what it has read.
LEMMA AckPull ==
  ASSUME TypeInv, TypeInv', FramingInv, Compatible, Notify["tx"] # "none",
         AcksInOrder, Pull("tx")
  PROVE  /\ AcksInOrder'
         /\ frame'["tx"] = IF done["tx"] = 0 THEN frame["tx"] + 1 ELSE frame["tx"]
<1>1. PICK u : u = wire["rx"][1]
  OBVIOUS
<1>2. PICK f : f = frame["tx"]
  OBVIOUS
<1>3. PICK o : o = done["tx"]
  OBVIOUS
<1>4. PICK n : n = Len(wire["rx"])
  OBVIOUS
<1>5. "rx" \in End /\ "tx" \in End /\ Peer("tx") = "rx" /\ "rx" # "tx"
  BY DEF End, Peer
<1>6. /\ pc["tx"] \in {"recvAck", "notifyRecv"} /\ o < AckLen
      /\ UNCHANGED <<pc, sock, acks>>
      /\ wire["rx"] # <<>>
      /\ done'["tx"] = o + 1 /\ done'["rx"] = done["rx"]
  BY <1>5, <1>3, AckRoles DEF Pull, Receiving, InLen, TypeInv, TypeOK
<1>7. f \in Nat /\ o \in Nat /\ n \in Nat /\ AckLen \in Nat /\ acks["rx"] \in Nat
  BY <1>2, <1>3, <1>4, AckFacts
<1>8. /\ n > 0 /\ u = Head(wire["rx"])
      /\ Len(wire'["rx"]) = n - 1
      /\ \A i \in 1..(n - 1) : wire'["rx"][i] = wire["rx"][i + 1]
  <2>1. wire'["rx"] = Tail(wire["rx"]) /\ wire["rx"] \in Seq(Unit)
    BY <1>5 DEF Pull, TypeInv, TypeOK
  <2> QED
    BY <1>6, <1>4, <1>1, <2>1, HeadTailProperties, LenProperties, EmptySeq
<1>9. /\ u.kind = "ack" /\ u.id \in 1..acks["rx"] /\ u.off \in 1..AckLen
      /\ <<u.id - 1, u.off - 1>> = AckReaderAt
  <2>1. 1 \in 1..n /\ 1 - 1 = 0
    BY <1>7, <1>8
  <2> QED
    BY <1>4, <1>1, <2>1 DEF AcksInOrder, AcksContiguous, AckAt
<1>10. /\ o = 0 => u.id = f + 1 /\ u.off = 1
       /\ o > 0 => u.id = f /\ u.off = o + 1
  <2>1. u.id \in Nat /\ u.off \in Nat
    BY <1>7, <1>9
  <2>2. CASE o = 0
    <3>1. AckReaderAt = <<f, 0>>
      BY <1>2, <1>3, <2>2 DEF AckReaderAt, AckReading
    <3> QED
      BY <1>7, <1>9, <2>1, <2>2, <3>1
  <2>3. CASE o > 0
    <3>1. AckReaderAt = At(f - 1, o, AckLen)
      BY <1>6, <1>2, <1>3, <2>3 DEF AckReaderAt, AckReading
    <3>2. At(f - 1, o, AckLen) = <<f - 1, o>>
      BY <1>6, <1>7 DEF At
    <3> QED
      BY <1>7, <1>9, <2>1, <2>3, <3>1, <3>2
  <2> QED
    BY <1>7, <2>2, <2>3
<1>11. frame'["tx"] = u.id
  <2>1. Continues("tx", u)
    BY <1>6, <1>7, <1>9, <1>10, <1>2, <1>3 DEF Continues
  <2> QED
    BY <1>5, <1>8, <2>1 DEF Pull, TypeInv, TypeOK
<1>12. AckReaderAt' = At(u.id - 1, u.off, AckLen)
  <2>1. AckReading' /\ u.off = o + 1
    BY <1>6, <1>7, <1>10 DEF AckReading
  <2> QED
    BY <1>6, <1>11, <2>1 DEF AckReaderAt
<1>13. \A i \in 0..(n - 1) : AckAt(i)' = AckAt(i + 1)
  <2> SUFFICES ASSUME NEW i \in 0..(n - 1) PROVE AckAt(i)' = AckAt(i + 1)
    OBVIOUS
  <2>1. CASE i = 0
    BY <1>12, <1>1, <2>1 DEF AckAt
  <2>2. CASE i # 0
    <3>1. i \in 1..(n - 1) /\ i + 1 # 0
      BY <1>7, <2>2
    <3>2. wire'["rx"][i] = wire["rx"][i + 1]
      BY <1>8, <3>1
    <3> QED
      BY <2>2, <3>1, <3>2 DEF AckAt
  <2> QED
    BY <2>1, <2>2
<1>14. AcksContiguous'
  <2> SUFFICES ASSUME NEW i \in 1..(n - 1)
               PROVE  LET v == wire'["rx"][i]
                      IN  /\ v.kind = "ack"
                          /\ v.id \in 1..acks'["rx"]
                          /\ v.off \in 1..AckLen
                          /\ <<v.id - 1, v.off - 1>> = AckAt(i - 1)'
    BY <1>8 DEF AcksContiguous
  <2>1. i + 1 \in 1..n /\ i - 1 \in 0..(n - 1) /\ (i - 1) + 1 = i /\ (i + 1) - 1 = i
    BY <1>7
  <2>2. AckAt(i - 1)' = AckAt(i)
    BY <1>13, <2>1
  <2>3. LET v == wire["rx"][i + 1]
        IN  /\ v.kind = "ack" /\ v.id \in 1..acks["rx"] /\ v.off \in 1..AckLen
            /\ <<v.id - 1, v.off - 1>> = AckAt(i)
    BY <1>4, <2>1 DEF AcksInOrder, AcksContiguous
  <2> QED
    BY <1>6, <1>8, <2>2, <2>3
<1>15. AcksUpToSender'
  <2>1. AckSenderAt' = AckSenderAt
    BY <1>6 DEF AckSenderAt, AckSending
  <2>2. n - 1 \in 0..(n - 1) /\ (n - 1) + 1 = n
    BY <1>7, <1>8
  <2>3. AckAt(n - 1)' = AckAt(n)
    BY <1>13, <2>2
  <2> QED
    BY <1>6, <1>8, <1>4, <2>1, <2>3 DEF AcksInOrder, AcksUpToSender
<1>16. InAck'
  BY <1>6, <1>7, <1>9, <1>11, <1>3 DEF AcksInOrder, InAck, AckSending, AckReading
<1> QED
  BY <1>7, <1>10, <1>11, <1>14, <1>15, <1>16, <1>2, <1>3 DEF AcksInOrder

LEMMA AckInitSocket ==
  ASSUME TypeInv, TypeInv', FramingInv, AcksInOrder, NEW e \in End, InitSocket(e)
  PROVE  AcksInOrder'
<1>0. "rx" \in End /\ "tx" \in End
  BY DEF End
<1>1. /\ UNCHANGED <<pc, done, wire, acks, frame>>
      /\ sock[e] = "new" /\ \A d \in End : sock'[d] = "new" => sock[d] = "new"
  BY DEF InitSocket, thread, hist, TypeInv, TypeOK
<1>2. /\ wire["rx"] = <<>>
      /\ pc["tx"] \in {"idle", "accept"} /\ pc["rx"] \in {"idle", "accept"}
  BY <1>0, <1>1 DEF FramingInv, Pristine
<1>3. acks["rx"] = 0 /\ frame["tx"] = 0
  BY <1>1, AckFacts DEF AcksInOrder, InAck
<1>4. AcksContiguous'
  BY <1>1, <1>2 DEF AcksContiguous
<1>5. AcksUpToSender'
  BY <1>1, <1>2, <1>3 DEF AcksUpToSender, AckSenderAt, AckSending, AckReaderAt, AckReading, AckAt
<1>6. InAck'
  BY <1>1, <1>2, <1>3 DEF AcksInOrder, InAck, AckSending, AckReading
<1> QED
  BY <1>4, <1>5, <1>6 DEF AcksInOrder

LEMMA AckDeinit ==
  ASSUME TypeInv, TypeInv', FramingInv, AcksInOrder, NEW e \in End, Deinit(e)
  PROVE  AcksInOrder'
<1>1. PICK n : n = Len(wire["rx"])
  OBVIOUS
<1>2. "rx" \in End /\ "tx" \in End /\ End = {"tx", "rx"}
  BY DEF End
<1>3. /\ UNCHANGED <<pc, done, acks, frame>>
      /\ sock'[e] # "open" /\ sock'[e] # "new" /\ \A d \in End \ {e} : sock'[d] = sock[d]
  BY DEF Deinit, thread, hist, TypeInv, TypeOK
<1>4. AcksUpToSender'
  BY <1>2, <1>3 DEF AcksUpToSender
<1>5. InAck'
  BY <1>3 DEF AcksInOrder, InAck, AckSending, AckReading
<1>6. AckReaderAt' = AckReaderAt
  BY <1>3 DEF AckReaderAt, AckReading
<1>7. n \in Nat
  BY <1>1, AckFacts
<1>8. PICK k \in 0..n : /\ Len(wire'["rx"]) = k
                        /\ \A i \in 1..k : wire'["rx"][i] = wire["rx"][i]
  <2>1. CASE UNCHANGED wire
    BY <1>7, <1>1, <2>1
  <2>2. CASE ~UNCHANGED wire
    <3>1. PICK k \in 0..Len(wire[e]) :
            wire' = [wire EXCEPT ![Peer(e)] = <<>>, ![e] = SubSeq(@, 1, k)]
      BY <2>2 DEF Deinit
    <3>2. CASE e = "rx"
      <4>1. wire'["rx"] = SubSeq(wire["rx"], 1, k) /\ k \in 0..n
        BY <1>1, <3>1, <3>2 DEF TypeInv, TypeOK
      <4>2. \A i \in 1..k : wire["rx"][i] \in Unit
        BY <1>7, <1>1, <4>1, AckFacts, ElementOfSeq
      <4>3. Len(wire'["rx"]) = k /\ \A i \in 1..k : wire'["rx"][i] = wire["rx"][i]
        BY <1>7, <1>1, <4>1, <4>2, AckFacts, SubSeqProperties
      <4> QED
        BY <4>1, <4>3
    <3>3. CASE e = "tx"
      <4>1. wire'["rx"] = <<>>
        BY <3>1, <3>3 DEF TypeInv, TypeOK, End, Peer
      <4> QED
        BY <1>7, <4>1
    <3> QED
      BY <1>2, <3>2, <3>3
  <2> QED
    BY <2>1, <2>2
<1>9. AcksContiguous'
  <2> SUFFICES ASSUME NEW i \in 1..k
               PROVE  LET v == wire'["rx"][i]
                      IN  /\ v.kind = "ack"
                          /\ v.id \in 1..acks'["rx"]
                          /\ v.off \in 1..AckLen
                          /\ <<v.id - 1, v.off - 1>> = AckAt(i - 1)'
    BY <1>8 DEF AcksContiguous
  <2>1. i \in 1..n /\ (i - 1 = 0 \/ i - 1 \in 1..k)
    BY <1>7, <1>8
  <2>2. AckAt(i - 1)' = AckAt(i - 1)
    BY <1>6, <1>8, <2>1 DEF AckAt, At
  <2> QED
    BY <1>3, <1>8, <1>1, <2>1, <2>2 DEF AcksInOrder, AcksContiguous
<1> QED
  BY <1>4, <1>5, <1>9 DEF AcksInOrder

-----------------------------------------------------------------------------
(* The other steps, by the end that takes them. *)

SockOnly == \A d \in End : /\ sock'[d] = "open" => sock[d] = "open"
                           /\ sock'[d] = "new" => sock[d] = "new"

\* A thread touches nothing of the other end's but its wire and its socket.
PeerUntouched(e) ==
  LET d == Peer(e)
  IN  /\ pc'[d] = pc[d] /\ done'[d] = done[d] /\ frame'[d] = frame[d]
      /\ msgs'[d] = msgs[d] /\ got'[d] = got[d] /\ acks'[d] = acks[d]
      /\ fdAccepted'[d] = fdAccepted[d] /\ ackArmed'[d] = ackArmed[d]

LEMMA PeerKeeps ==
  ASSUME TypeInv, Timely, NEW e \in End, Progress(e) \/ Call(e)
  PROVE  PeerUntouched(e)
<1>1. Peer(e) \in End /\ Peer(e) # e
  BY DEF End, Peer
<1>2. /\ pc \in [End -> Pc] /\ done \in [End -> Nat] /\ frame \in [End -> Nat]
      /\ msgs \in [End -> Seq(Message)] /\ got \in [End -> Seq(Result)]
      /\ acks \in [End -> Nat] /\ fdAccepted \in [End -> BOOLEAN]
      /\ ackArmed \in [End -> BOOLEAN]
  BY DEF TypeInv, TypeOK
<1>3. CASE Push(e) \/ Pull(e)
  BY <1>1, <1>2, <1>3 DEF Push, Pull, PeerUntouched, link, hist
<1>4. CASE HeaderSent(e) \/ DataSent(e) \/ AckSent(e) \/ AckReceived(e)
  BY <1>1, <1>2, <1>4 DEF HeaderSent, DataSent, AckSent, AckReceived, Enter, Return,
                          PeerUntouched, link, hist
<1>5. CASE Accept(e)
  BY <1>1, <1>2, <1>5 DEF Accept, AutoSendAck, Enter, PeerUntouched
<1>6. CASE HeaderReceived(e)
  BY <1>1, <1>2, <1>6 DEF HeaderReceived, Enter, PeerUntouched, hist
<1>7. CASE DataReceived(e)
  BY <1>1, <1>2, <1>7 DEF DataReceived, Return, PeerUntouched, link
<1>8. CASE SendTimesOut(e) \/ RecvTimesOut(e) \/ AcceptTimesOut(e)
  BY <1>1, <1>2, <1>8 DEF Timely, RecvTimesOut, AcceptTimesOut, Return, PeerUntouched, link, hist
<1>9. CASE PeerClosed(e) \/ RecvReset(e)
  BY <1>1, <1>2, <1>9 DEF PeerClosed, RecvReset, Return, PeerUntouched, link, hist
<1>10. CASE SendToClosed(e) \/ SendReset(e)
  BY <1>1, <1>2, <1>10 DEF SendToClosed, SendReset, Return, PeerUntouched, link, hist
<1>11. CASE Recv(e)
  BY <1>1, <1>2, <1>11 DEF Recv, AutoSendAck, Enter, Return, PeerUntouched, link, hist
<1>12. CASE NotifySend(e) \/ NotifyRecv(e)
  <2>1. /\ UNCHANGED <<frame, msgs, got, fdAccepted, ackArmed>>
        /\ acks' = acks \/ acks' = [acks EXCEPT ![e] = @ + 1]
        /\ \E p, s : (Enter(e, p) \/ Return(e, s))
    BY <1>12, Zenon DEF NotifySend, NotifyRecv, link, hist
  <2>2. acks'[Peer(e)] = acks[Peer(e)]
    BY <1>1, <1>2, <2>1
  <2>3. pc'[Peer(e)] = pc[Peer(e)] /\ done'[Peer(e)] = done[Peer(e)]
    BY <1>1, <1>2, <2>1 DEF Enter, Return
  <2> QED
    BY <2>1, <2>2, <2>3 DEF PeerUntouched
<1>13. ASSUME NEW n \in Sizes, Send(e, n) PROVE PeerUntouched(e)
  BY <1>1, <1>2, <1>13 DEF Send, Enter, Return, PeerUntouched, link, hist
<1>14. CASE InitSocket(e) \/ Deinit(e)
  BY <1>1, <1>2, <1>14 DEF InitSocket, Deinit, PeerUntouched, thread, link, hist
<1>15. CASE Progress(e)
  BY <1>3, <1>4, <1>5, <1>6, <1>7, <1>8, <1>9, <1>10, <1>15, Zenon DEF Progress, Works
<1>16. CASE Call(e)
  BY <1>11, <1>12, <1>13, <1>14, <1>16, Zenon DEF Call
<1> QED
  BY <1>15, <1>16

\* The steps that move no unit of an acknowledgement and open no socket.
LEMMA AckWireKept ==
  ASSUME TypeInv, NEW e \in End,
         Progress(e) \/ Call(e),
         ~(Push(e) /\ e = "rx"), ~(Pull(e) /\ e = "tx"), ~InitSocket(e), ~Deinit(e)
  PROVE  wire'["rx"] = wire["rx"] /\ SockOnly
<1>0. Peer(e) \in End /\ Peer(e) # e /\ "rx" \in End
  BY DEF End, Peer
<1>1. CASE Push(e)
  BY <1>0, <1>1 DEF Push, SockOnly, TypeInv, TypeOK
<1>2. CASE Pull(e)
  BY <1>0, <1>2 DEF Pull, SockOnly, TypeInv, TypeOK, End, Peer
<1>3. CASE UNCHANGED <<sock, wire>>
  BY <1>3 DEF SockOnly
<1>4. CASE RecvReset(e) \/ SendToClosed(e) \/ SendReset(e)
  BY <1>0, <1>4 DEF RecvReset, SendToClosed, SendReset, SockOnly, TypeInv, TypeOK
<1>5. CASE \/ HeaderSent(e) \/ DataSent(e) \/ AckSent(e) \/ AckReceived(e) \/ Accept(e)
           \/ HeaderReceived(e) \/ DataReceived(e) \/ PeerClosed(e)
           \/ SendTimesOut(e) \/ RecvTimesOut(e) \/ AcceptTimesOut(e)
  BY <1>3, <1>5 DEF HeaderSent, DataSent, AckSent, AckReceived, Accept, HeaderReceived,
       DataReceived, PeerClosed, SendTimesOut, RecvTimesOut, AcceptTimesOut, tcp
<1>6. CASE Recv(e) \/ NotifySend(e) \/ NotifyRecv(e) \/ \E n \in Sizes : Send(e, n)
  BY <1>3, <1>6, Zenon DEF Recv, NotifySend, NotifyRecv, Send, tcp
<1>7. CASE Progress(e)
  BY <1>1, <1>2, <1>4, <1>5, <1>7, Zenon DEF Progress, Works
<1>8. CASE Call(e)
  BY <1>6, <1>8, Zenon DEF Call
<1> QED
  BY <1>7, <1>8

LEMMA AckTxMoves ==
  ASSUME TypeInv, FramingInv, Compatible, Timely, Notify["tx"] # "none",
         Progress("tx") \/ Call("tx"), ~Pull("tx"), ~InitSocket("tx"), ~Deinit("tx")
  PROVE  /\ frame'["tx"] = frame["tx"]
         /\ ~AckReading'
         /\ \/ ~AckReading
            \/ done["tx"] = AckLen
            \/ wire["rx"] = <<>> /\ sock'["rx"] # "open"
<1> DEFINE Goal == /\ frame'["tx"] = frame["tx"]
                   /\ ~AckReading'
                   /\ \/ ~AckReading
                      \/ done["tx"] = AckLen
                      \/ wire["rx"] = <<>> /\ sock'["rx"] # "open"
<1>1. "rx" \in End /\ "tx" \in End /\ Peer("tx") = "rx" /\ "tx" # "rx"
  BY DEF End, Peer
<1>2. pc["tx"] \notin {"accept", "recvHeader", "recvData", "sendAck", "notifySend"}
  BY AckRoles
\* the thread stays out of the acknowledgement, or enters it anew
<1>3. ASSUME ~AckReading, frame' = frame, NEW p, NEW q, Enter("tx", p) \/ Return("tx", q)
      PROVE  Goal
  BY <1>1, <1>3 DEF Enter, Return, AckReading, TypeInv, TypeOK
<1>4. CASE Push("tx")
  BY <1>4, <1>2 DEF Push, Sending, AckReading, hist
<1>5. CASE HeaderSent("tx") \/ DataSent("tx")
  <2>1. ~AckReading /\ frame' = frame
    BY <1>5 DEF HeaderSent, DataSent, AckReading, hist
  <2>2. \E p, q : Enter("tx", p) \/ Return("tx", q)
    BY <1>5, Zenon DEF HeaderSent, DataSent
  <2> QED
    BY <1>3, <2>1, <2>2
<1>6. CASE AckReceived("tx")
  <2>1. done["tx"] = AckLen /\ frame' = frame
    BY <1>6 DEF AckReceived, InLen, hist
  <2>2. pc'["tx"] = "idle"
    BY <1>1, <1>6 DEF AckReceived, Return, TypeInv, TypeOK
  <2> QED
    BY <2>1, <2>2 DEF AckReading
<1>7. CASE PeerClosed("tx")
  BY <1>1, <1>7 DEF PeerClosed, tcp, hist, AckReading, TypeInv, TypeOK
<1>8. CASE RecvReset("tx")
  BY <1>1, <1>8 DEF RecvReset, Return, hist, AckReading, TypeInv, TypeOK
<1>9. CASE SendToClosed("tx") \/ SendReset("tx")
  BY <1>1, <1>9, <1>2 DEF SendToClosed, SendReset, Return, Sending, hist, AckReading, TypeInv, TypeOK
<1>10. CASE Accept("tx") \/ HeaderReceived("tx") \/ DataReceived("tx") \/ AckSent("tx")
  BY <1>10, <1>2 DEF Accept, HeaderReceived, DataReceived, AckSent
<1>11. CASE SendTimesOut("tx") \/ RecvTimesOut("tx") \/ AcceptTimesOut("tx")
  <2>1. RecvTimesOut("tx")
    BY <1>1, <1>2, <1>11 DEF Timely, AcceptTimesOut
  <2>2. done["tx"] = 0 /\ frame' = frame /\ Return("tx", "TIMEOUT")
    BY <1>1, <2>1 DEF Timely, RecvTimesOut, hist
  <2>3. ~AckReading
    BY <2>2 DEF AckReading
  <2> QED
    BY <1>3, <2>2, <2>3
<1>12. CASE Call("tx")
  <2>1. \/ Recv("tx") \/ NotifySend("tx") \/ NotifyRecv("tx")
        \/ \E n \in Sizes : Send("tx", n)
    BY <1>12, Zenon DEF Call
  <2>2. pc["tx"] = "idle"
    BY <2>1, Zenon DEF Recv, NotifySend, NotifyRecv, Send, CanCall
  <2>3. ~AckReading
    BY <2>2 DEF AckReading
  <2>4. frame' = frame
    BY <2>1 DEF Recv, NotifySend, NotifyRecv, Send, hist
  <2>5. \E p, q : Enter("tx", p) \/ Return("tx", q)
    BY <2>1, Zenon DEF Recv, AutoSendAck, NotifySend, NotifyRecv, Send
  <2> QED
    BY <1>3, <2>3, <2>4, <2>5
<1>13. CASE Progress("tx")
  BY <1>4, <1>5, <1>6, <1>7, <1>8, <1>9, <1>10, <1>11, <1>13, Zenon DEF Progress, Works
<1> QED
  BY <1>12, <1>13

LEMMA AckRxMoves ==
  ASSUME TypeInv, FramingInv, Compatible, Timely, Notify["tx"] # "none", InAck,
         Progress("rx") \/ Call("rx"), ~Push("rx"), ~InitSocket("rx"), ~Deinit("rx")
  PROVE  \/ /\ acks'["rx"] = acks["rx"]
            /\ ~AckSending'
            /\ ~AckSending \/ done["rx"] = AckLen \/ sock'["tx"] # "open"
         \/ /\ acks'["rx"] = acks["rx"]
            /\ AckSending /\ sock'["tx"] # "open" /\ done'["rx"] <= AckLen
         \/ /\ acks'["rx"] = acks["rx"] + 1
            /\ ~AckSending /\ AckSending' /\ done'["rx"] = 0
            /\ \A d \in End : sock[d] # "new"
<1> DEFINE Stays == /\ acks'["rx"] = acks["rx"]
                    /\ ~AckSending'
                    /\ ~AckSending \/ done["rx"] = AckLen \/ sock'["tx"] # "open"
           Fails == /\ acks'["rx"] = acks["rx"]
                    /\ AckSending /\ sock'["tx"] # "open" /\ done'["rx"] <= AckLen
           Begins == /\ acks'["rx"] = acks["rx"] + 1
                     /\ ~AckSending /\ AckSending' /\ done'["rx"] = 0
                     /\ \A d \in End : sock[d] # "new"
<1>1. "rx" \in End /\ "tx" \in End /\ Peer("rx") = "tx" /\ "tx" # "rx"
  BY DEF End, Peer
<1>2. pc["rx"] \notin {"sendHeader", "sendData", "recvAck", "notifyRecv"}
  BY AckRoles
<1>3. fdAccepted["rx"] \/ fdAccepted["tx"] => \A d \in End : sock[d] # "new"
  BY <1>1 DEF FramingInv, Pristine
<1>4. ASSUME ~AckSending, acks' = acks, NEW p \in {"idle", "accept", "spin", "killed", "recvHeader", "recvData"},
             pc'["rx"] = p
      PROVE  Stays
  BY <1>4 DEF AckSending
<1>5. ASSUME ~AckSending, NEW p \in {"sendAck", "notifySend"}, Enter("rx", p),
             acks' = [acks EXCEPT !["rx"] = @ + 1], fdAccepted["rx"] \/ fdAccepted["tx"]
      PROVE  Begins
  BY <1>1, <1>5, <1>3 DEF Enter, AckSending, TypeInv, TypeOK
<1>6. CASE Pull("rx")
  <2>1. pc' = pc /\ acks' = acks /\ pc["rx"] \in {"recvHeader", "recvData"}
    BY <1>6, <1>2 DEF Pull, Receiving
  <2> QED
    BY <2>1 DEF AckSending
<1>7. CASE AckSent("rx")
  BY <1>1, <1>7 DEF AckSent, OutLen, Enter, Return, hist, AckSending, TypeInv, TypeOK
<1>8. CASE HeaderReceived("rx") \/ DataReceived("rx")
  <2>1. ~AckSending /\ acks' = acks
    BY <1>8 DEF HeaderReceived, DataReceived, AckSending, hist
  <2>2. pc'["rx"] \in {"idle", "recvData"}
    BY <1>1, <1>8 DEF HeaderReceived, DataReceived, Enter, Return, TypeInv, TypeOK
  <2> QED
    BY <1>4, <2>1, <2>2
<1>9. CASE PeerClosed("rx") \/ RecvReset("rx")
  <2>1. ~AckSending /\ acks' = acks
    BY <1>9, <1>2 DEF PeerClosed, RecvReset, Receiving, AckSending, hist
  <2>2. pc'["rx"] \in {"idle", "spin"}
    BY <1>1, <1>9 DEF PeerClosed, RecvReset, Return, TypeInv, TypeOK
  <2> QED
    BY <1>4, <2>1, <2>2
<1>10. CASE SendToClosed("rx")
  <2>1. /\ AckSending /\ acks' = acks /\ done["rx"] < AckLen
        /\ done'["rx"] = done["rx"] + 1 /\ sock'["tx"] \in {"closed", "reset"}
    BY <1>1, <1>10, <1>2 DEF SendToClosed, Sending, OutLen, hist, AckSending, TypeInv, TypeOK
  <2> QED
    BY <2>1, AckFacts
<1>11. CASE SendReset("rx")
  BY <1>1, <1>11, <1>2 DEF SendReset, Return, Sending, hist, AckSending, TypeInv, TypeOK
<1>12. CASE HeaderSent("rx") \/ DataSent("rx") \/ AckReceived("rx")
  BY <1>12, <1>2 DEF HeaderSent, DataSent, AckReceived
<1>13. CASE SendTimesOut("rx") \/ RecvTimesOut("rx") \/ AcceptTimesOut("rx")
  <2>1. RecvTimesOut("rx") \/ AcceptTimesOut("rx")
    BY <1>1, <1>13 DEF Timely
  <2>2. ~AckSending /\ acks' = acks /\ Return("rx", "TIMEOUT")
    BY <2>1, <1>2 DEF RecvTimesOut, AcceptTimesOut, Receiving, AckSending, hist
  <2>3. pc'["rx"] = "idle"
    BY <1>1, <2>2 DEF Return, TypeInv, TypeOK
  <2> QED
    BY <1>4, <2>2, <2>3
<1>14. ASSUME AutoSendAck("rx"), ~AckSending, fdAccepted["rx"] \/ fdAccepted["tx"]
       PROVE  Stays \/ Begins
  <2>1. CASE AutoSendAckSet("rx") /\ ackArmed["rx"]
    BY <1>5, <1>14, <2>1 DEF AutoSendAck
  <2>2. CASE ~(AutoSendAckSet("rx") /\ ackArmed["rx"])
    <3>1. Enter("rx", "recvHeader") /\ acks' = acks
      BY <1>14, <2>2 DEF AutoSendAck
    <3>2. pc'["rx"] = "recvHeader"
      BY <1>1, <3>1 DEF Enter, TypeInv, TypeOK
    <3> QED
      BY <1>4, <1>14, <3>1, <3>2
  <2> QED
    BY <2>1, <2>2
<1>15. CASE Accept("rx")
  BY <1>1, <1>15, <1>14 DEF Accept, AckSending
<1>16. CASE Recv("rx")
  <2>1. ~AckSending
    BY <1>16 DEF Recv, CanCall, AckSending
  <2>2. CASE fdAccepted["rx"] /\ AutoSendAck("rx")
    BY <1>14, <2>1, <2>2
  <2>3. CASE acks' = acks /\ (Enter("rx", "accept") \/ Return("rx", "ERROR"))
    <3>1. pc'["rx"] \in {"accept", "idle"}
      BY <1>1, <2>3 DEF Enter, Return, TypeInv, TypeOK
    <3> QED
      BY <1>4, <2>1, <2>3, <3>1
  <2> QED
    BY <1>16, <2>2, <2>3 DEF Recv, hist
<1>17. CASE NotifySend("rx") \/ NotifyRecv("rx") \/ \E n \in Sizes : Send("rx", n)
  <2>1. ~AckSending
    BY <1>17 DEF NotifySend, NotifyRecv, Send, CanCall, AckSending
  <2>2. CASE /\ NotifySend("rx") /\ NotifySendHandler("rx") = "ack" /\ fdAccepted["rx"]
    BY <1>5, <2>1, <2>2 DEF NotifySend
  <2>3. CASE acks' = acks /\ \E q : Return("rx", q)
    <3>1. pc'["rx"] = "idle"
      BY <1>1, <2>3 DEF Return, TypeInv, TypeOK
    <3> QED
      BY <1>4, <2>1, <2>3, <3>1
  <2>4. ~SendHandlerSet("rx") /\ NotifyRecvHandler("rx") # "ack"
    BY AckRoles DEF SendHandlerSet, NotifyRecvHandler
  <2>5. CASE \E n \in Sizes : Send("rx", n)
    BY <2>3, <2>4, <2>5 DEF Send, hist
  <2>6. CASE NotifyRecv("rx")
    BY <2>3, <2>4, <2>6, Zenon DEF NotifyRecv, hist
  <2>7. CASE NotifySend("rx") /\ ~(NotifySendHandler("rx") = "ack" /\ fdAccepted["rx"])
    BY <2>3, <2>7, Zenon DEF NotifySend
  <2> QED
    BY <1>17, <2>2, <2>5, <2>6, <2>7
<1>18. CASE Progress("rx")
  BY <1>6, <1>7, <1>8, <1>9, <1>10, <1>11, <1>12, <1>13, <1>15, <1>18, Zenon DEF Progress, Works
<1>19. CASE Call("rx")
  BY <1>16, <1>17, <1>19, Zenon DEF Call
<1> QED
  BY <1>18, <1>19

LEMMA AckInit == Init => AckInv
  BY LinkAssumption
     DEF Init, AckInv, AcksInOrder, AcksContiguous, AcksUpToSender, InAck, AckSending, AckReading,
         AckSenderAt, AckReaderAt, AckAt, End

LEMMA AckStep ==
  ASSUME Compatible, TypeInv, TypeInv', FramingInv, AckInv, [Next /\ Timely]_vars
  PROVE  AckInv'
<1> SUFFICES ASSUME Notify["tx"] # "none", AcksInOrder PROVE AcksInOrder'
  BY DEF AckInv
<1>1. CASE UNCHANGED vars
  <2>1. UNCHANGED <<pc, done, sock, wire, acks, frame>>
    BY <1>1 DEF vars, thread, tcp, hist
  <2> QED
    BY <2>1 DEF AcksInOrder, AcksContiguous, AcksUpToSender, InAck, AckSending, AckReading,
                AckSenderAt, AckReaderAt, AckAt
<1>2. ASSUME NEW e \in End, Progress(e) \/ Call(e), Timely PROVE AcksInOrder'
  <2>1. CASE InitSocket(e)
    BY <2>1, AckInitSocket
  <2>2. CASE Deinit(e)
    BY <2>2, AckDeinit
  <2>3. CASE Push(e) /\ e = "rx"
    BY <2>3, AckPush
  <2>4. CASE Pull(e) /\ e = "tx"
    BY <2>4, AckPull
  <2>5. CASE ~InitSocket(e) /\ ~Deinit(e) /\ ~(Push(e) /\ e = "rx") /\ ~(Pull(e) /\ e = "tx")
    <3>1. PeerUntouched(e) /\ wire'["rx"] = wire["rx"] /\ SockOnly
      BY <1>2, <2>5, PeerKeeps, AckWireKept
    <3>2. CASE e = "tx"
      <4>1. /\ pc'["rx"] = pc["rx"] /\ done'["rx"] = done["rx"] /\ acks'["rx"] = acks["rx"]
        BY <3>1, <3>2 DEF PeerUntouched, Peer
      <4>2. /\ frame'["tx"] = frame["tx"]
            /\ ~AckReading'
            /\ ~AckReading \/ done["tx"] = AckLen \/ (wire["rx"] = <<>> /\ sock'["rx"] # "open")
        BY <1>2, <2>5, <3>2, AckTxMoves
      <4> QED
        BY <3>1, <4>1, <4>2, AckTxStep DEF SockOnly
    <3>3. CASE e = "rx"
      <4>1. /\ pc'["tx"] = pc["tx"] /\ done'["tx"] = done["tx"] /\ frame'["tx"] = frame["tx"]
        BY <3>1, <3>3 DEF PeerUntouched, Peer
      <4>2. InAck
        BY DEF AcksInOrder
      <4> QED
        BY <1>2, <2>5, <3>1, <3>3, <4>1, <4>2, AckRxMoves, AckRxStep DEF SockOnly
    <3> QED
      BY <3>2, <3>3 DEF End
  <2> QED
    BY <2>1, <2>2, <2>3, <2>4, <2>5
<1> QED
  BY <1>1, <1>2 DEF Next

LEMMA InOrder ==
  ASSUME Compatible
  PROVE  TimelySpec => [](TypeInv /\ FramingInv /\ AckInv)
<1>1. Init => TypeInv /\ FramingInv /\ AckInv
  BY TypeInit, FramingInit, AckInit
<1>2. TypeInv /\ FramingInv /\ AckInv /\ [TimelyNext]_vars => (TypeInv /\ FramingInv /\ AckInv)'
  BY TimelyStep, TypeStep, FramingStep, AckStep
<1> QED
  BY <1>1, <1>2, PTL DEF TimelySpec

\* With compatible flags every unit of an acknowledgement continues what the
\* connecting end has read of them, up to where the listening end stands
\* (link_sendAck against link_recvAck), whatever calls the applications make,
\* whenever they close, and whichever waits between two messages time out.
THEOREM AckCorrect ==
  ASSUME Compatible
  PROVE  TimelySpec => []AckInv
<1> QED
  BY InOrder, PTL

\* With compatible flags no receive loop takes a byte for what it is not: not
\* of a header, a payload or an acknowledgement (link_recvHeader,
\* link_recvData and link_recvAck read unmarked bytes off one socket).
THEOREM InStepCorrect ==
  ASSUME Compatible
  PROVE  TimelySpec => []InStep
<1>1. TypeInv /\ FramingInv /\ AckInv => InStep
  <2> SUFFICES ASSUME TypeInv, FramingInv, AckInv, NEW e \in End,
                      pc[e] \in Receiving, done[e] > 0
               PROVE  frame[e] # 0
    BY DEF InStep
  <2>1. CASE pc[e] \in {"recvHeader", "recvData"}
    <3>1. Peer(e) \in End /\ Peer(Peer(e)) = e /\ FrameDir(Peer(e))
      BY <2>1, OnlyFrameDir, PeerType
    <3>2. InMessage(Peer(e))
      BY <3>1 DEF FramingInv
    <3>3. frame[e] = Len(got[e]) + 1
      BY <2>1, <3>1, <3>2 DEF InMessage
    <3> QED
      BY <3>3, TypeFacts
  <2>2. CASE pc[e] \in {"recvAck", "notifyRecv"}
    <3>1. e = "tx" /\ Notify["tx"] # "none"
      BY <2>2 DEF FramingInv, Roles, Role
    <3>2. AckReading
      BY <2>2, <3>1 DEF AckReading
    <3> QED
      BY <3>1, <3>2, AckFacts DEF AckInv, AcksInOrder, InAck
  <2> QED
    BY <2>1, <2>2 DEF Receiving
<1> QED
  BY <1>1, InOrder, PTL
=============================================================================
