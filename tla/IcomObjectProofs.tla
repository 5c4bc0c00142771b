-------------------------- MODULE IcomObjectProofs --------------------------
(* RoundsInv is an invariant of IcomObject, and with it Gathered and        *)
(* OneInFlight; objects implement the safety part of Dataflow.              *)
EXTENDS IcomObjectRounds, SequenceTheorems, WellFoundedInduction, TLAPS

(***************************************************************************)
(* The systems.                                                            *)
(***************************************************************************)

LEMMA Links ==
  ASSUME TypeOK, NEW c \in Component
  PROVE  /\ Ins(c) \in Seq(Link) /\ Outs(c) \in Seq(Link)
         /\ Len(Ins(c)) \in Nat /\ Len(Outs(c)) \in Nat
         /\ DOMAIN Ins(c) = 1..Len(Ins(c)) /\ DOMAIN Outs(c) = 1..Len(Outs(c))
         /\ \A j \in DOMAIN Ins(c) : Ins(c)[j] \in Link
         /\ \A i \in DOMAIN Outs(c) : Outs(c)[i] \in Link
         /\ Ins(c) = <<>> <=> Len(Ins(c)) = 0
         /\ Outs(c) = <<>> <=> Len(Outs(c)) = 0
<1>1. sys \in System
  BY ObjectAssumption DEF TypeOK
<1>2. Ins(c) \in Seq(Link) /\ Outs(c) \in Seq(Link)
  BY <1>1 DEF System, Ins, Outs
<1> QED
  BY <1>2, LenProperties, ElementOfSeq, EmptySeq

LEMMA Flags ==
  ASSUME TypeOK
  PROVE  sys.zero \in BOOLEAN /\ sys.notify \in {"none", "notify", "autonotify"}
  BY ObjectAssumption DEF TypeOK, System

\* A link is read by one component under one index, and written likewise.
LEMMA OneReader ==
  ASSUME TypeOK, NEW c \in Component, NEW d \in Component,
         NEW i \in DOMAIN Ins(c), NEW j \in DOMAIN Ins(d), Ins(c)[i] = Ins(d)[j]
  PROVE  c = d /\ i = j
  BY ObjectAssumption DEF TypeOK, OneEnd, Ins

LEMMA OneWriter ==
  ASSUME TypeOK, NEW c \in Component, NEW d \in Component,
         NEW i \in DOMAIN Outs(c), NEW j \in DOMAIN Outs(d), Outs(c)[i] = Outs(d)[j]
  PROVE  c = d /\ i = j
  BY ObjectAssumption DEF TypeOK, OneEnd, Outs

LEMMA Fields ==
  ASSUME TypeOK, NEW c \in Component
  PROVE  /\ pc[c] \in Pc /\ at[c] \in Nat /\ round[c] \in Nat
         /\ seen[c] \in Seq(Seq(Nat)) /\ Len(seen[c]) \in Nat
         /\ seen[c] = <<>> <=> Len(seen[c]) = 0
<1>1. seen[c] \in Seq(Seq(Nat))
  BY DEF TypeOK
<1> QED
  BY <1>1, LenProperties, EmptySeq, ObjectAssumption DEF TypeOK

LEMMA Wires ==
  ASSUME TypeOK, NEW l \in Link
  PROVE  /\ wire[l] \in Seq(Nat \cup Component) /\ Len(wire[l]) \in Nat
         /\ wire[l] = <<>> <=> Len(wire[l]) = 0
         /\ acks[l] \in Nat /\ put[l] \in Nat /\ refused[l] \in Nat
<1>1. wire[l] \in Seq(Nat \cup Component)
  BY DEF TypeOK
<1> QED
  BY <1>1, LenProperties, EmptySeq DEF TypeOK

LEMMA ServedLink ==
  ASSUME TypeOK, Placed, NEW c \in Component
  PROVE  /\ pc[c] \in {"recv", "take", "notifySend"} =>
              at[c] \in DOMAIN Ins(c) /\ InLink(c) \in Link /\ InLink(c) = Ins(c)[at[c]]
         /\ pc[c] \in {"send", "sent", "notifyRecv"} =>
              at[c] \in DOMAIN Outs(c) /\ OutLink(c) \in Link /\ OutLink(c) = Outs(c)[at[c]]
<1>1. at[c] \in Nat /\ at[c] >= 1
  BY Fields DEF Placed, PlacedAt
<1> QED
  BY <1>1, Links DEF Placed, PlacedAt, InLink, OutLink

\* The plan never changes.
LEMMA SamePlan ==
  ASSUME sys' = sys
  PROVE  \A c : /\ Ins(c)' = Ins(c) /\ Outs(c)' = Outs(c)
                /\ Elems(Ins(c))' = Elems(Ins(c)) /\ Elems(Outs(c))' = Elems(Outs(c))
  BY DEF Ins, Outs, Elems

LEMMA Moved ==
  ASSUME TypeOK, NEW x \in Component, NEW p, NEW i, Goto(x, p, i)
  PROVE  /\ sys' = sys /\ pc'[x] = p /\ at'[x] = i
         /\ \A c \in Component : c # x => pc'[c] = pc[c] /\ at'[c] = at[c]
  BY DEF Goto, TypeOK

\* Where a component may be sent to.
LEMMA Destination ==
  ASSUME TypeOK, Placed, NEW x \in Component, Step(x)
  PROVE  \E p \in Pc, i \in Nat : Goto(x, p, i)
<1>1. /\ at[x] \in Nat /\ at[x] >= 1 /\ pc[x] \in Pc
      /\ Len(Ins(x)) \in Nat /\ Len(Outs(x)) \in Nat
  BY Fields, Links DEF Placed, PlacedAt
<1>2. 1 \in Nat /\ at[x] + 1 \in Nat /\ at[x] - 1 \in Nat
  BY <1>1
<1>3. ASSUME NextRound(x)
      PROVE  \E p \in Pc, i \in Nat : Goto(x, p, i)
  BY <1>1, <1>3 DEF NextRound, Pc
<1>4. ASSUME Served(x)
      PROVE  \E p \in Pc, i \in Nat : Goto(x, p, i)
  BY <1>1, <1>2, <1>3, <1>4 DEF Served, Pc
<1>5. CASE Listen(x) \/ Begin(x)
  BY <1>1, <1>2, <1>3, <1>5 DEF Listen, Begin, Pc
<1>6. CASE RecvLink(x) \/ Take(x)
  BY <1>1, <1>2, <1>6 DEF RecvLink, Take, Pc
<1>7. CASE Visit(x)
  BY <1>1, <1>2, <1>3, <1>7 DEF Visit, Pc
<1>8. CASE NotifySend(x) \/ NotifyRecv(x)
  BY <1>1, <1>2, <1>3, <1>8 DEF NotifySend, NotifyRecv, Pc
<1>9. CASE Write(x) \/ SendLink(x) \/ SendReturns(x)
  BY <1>1, <1>2, <1>4, <1>9 DEF Write, SendLink, SendReturns, Pc
<1> QED
  BY <1>5, <1>6, <1>7, <1>8, <1>9 DEF Step

\* A step of x is a step of x only.
LEMMA OnlyOwn ==
  ASSUME TypeOK, Placed, NEW x \in Component, Step(x)
  PROVE  /\ sys' = sys /\ pc'[x] \in Pc /\ at'[x] \in Nat
         /\ \A c \in Component : c # x =>
              /\ pc'[c] = pc[c] /\ at'[c] = at[c] /\ round'[c] = round[c]
              /\ cur'[c] = cur[c] /\ seen'[c] = seen[c]
<1>1. PICK p \in Pc, i \in Nat : Goto(x, p, i)
  BY Destination
<1>2. /\ UNCHANGED round \/ round' = [round EXCEPT ![x] = @ + 1]
      /\ UNCHANGED cur \/ \E b : cur' = [cur EXCEPT ![x] = b]
      /\ UNCHANGED seen \/ \E s : seen' = [seen EXCEPT ![x] = s]
  <2>1. CASE Visit(x)
    BY <2>1 DEF Visit
  <2>2. CASE Take(x)
    BY <2>2 DEF Take
  <2>3. CASE ~Visit(x) /\ ~Take(x)
    BY <2>3 DEF Step, Listen, Begin, RecvLink, NotifySend, Write, SendLink, SendReturns,
                NotifyRecv, rcv
  <2> QED
    BY <2>1, <2>2, <2>3
<1> QED
  BY <1>1, <1>2, Moved DEF TypeOK

-----------------------------------------------------------------------------
(* icom_nextBuffer.                                                        *)

\* Every non-empty set of naturals has a first element.
LEMMA FirstIsFirst ==
  ASSUME NEW S \in SUBSET Nat, S # {}
  PROVE  First(S) \in S /\ \A j \in S : First(S) <= j
<1>1. PICK x \in S : \A y \in S : ~(<<y, x>> \in OpToRel(<, Nat))
  BY NatLessThanWellFounded, WFMin
<1>2. \A y \in S : ~(y < x)
  BY <1>1 DEF OpToRel
<1>3. \A y \in S : x <= y
  BY <1>2
<1> QED
  BY <1>3 DEF First

\* The buffer of a link that icom_recv has served, and what is read there.
LEMMA BufferRead ==
  ASSUME TypeOK, InOrder, NEW c \in Component, NEW j \in DOMAIN Ins(c), Taken(c, j) > 0
  PROVE  /\ BufferOf(c, j) # NULL /\ BufferOf(c, j) \in Component \cup Link
         /\ Data(BufferOf(c, j)) \in Nat
         /\ ~sys.zero => Data(BufferOf(c, j)) = refused[Ins(c)[j]] + Taken(c, j)
         /\ sys.zero => /\ BufferOf(c, j) \in Component
                        /\ Ins(c)[j] \in Elems(Outs(BufferOf(c, j)))
                        /\ Data(BufferOf(c, j)) = round[BufferOf(c, j)]
<1>1. PICK l \in Link : l = Ins(c)[j]
  BY Links
<1>2. PICK n \in Nat : n = Taken(c, j)
  <2>1. Len(seen[c]) \in Nat
    BY Fields
  <2>2. Taken(c, j) \in Nat
    BY <2>1 DEF Taken
  <2> QED
    BY <2>2
<1>3. Carries(l, n, recvBuf[l])
  BY <1>1, <1>2 DEF InOrder
<1>4. PICK s \in Component : l \in Elems(Outs(s)) /\ recvBuf[l] = IF sys.zero THEN s ELSE refused[l] + n
  BY <1>3 DEF Carries
<1>5. refused[l] \in Nat /\ round[s] \in Nat
  BY Wires, Fields
<1>6. CASE sys.zero
  <2>1. BufferOf(c, j) = s
    BY <1>4, <1>6, <1>1 DEF BufferOf
  <2> QED
    BY <1>4, <1>5, <1>6, <1>1, <2>1, ObjectAssumption DEF Data
<1>7. CASE ~sys.zero
  <2>1. BufferOf(c, j) = l
    BY <1>7, <1>1 DEF BufferOf
  <2>2. Data(l) = refused[l] + n
    BY <1>4, <1>7, ObjectAssumption DEF Data
  <2> QED
    BY <1>5, <1>7, <1>1, <1>2, <2>1, <2>2, ObjectAssumption
<1> QED
  BY <1>6, <1>7

\* Behind any buffer comes no buffer or that of one of the object's links.
LEMMA NextIsALink ==
  ASSUME TypeOK, NEW c \in Component, Ins(c) # <<>>, NEW b, NextBuffer(c, b) # NULL
  PROVE  \E j \in DOMAIN Ins(c) : NextBuffer(c, b) = BufferOf(c, j)
<1>1. PICK n \in Nat : n = Len(Ins(c)) /\ n > 0 /\ DOMAIN Ins(c) = 1..n
  BY Links
<1>2. CASE b = NULL
  BY <1>1, <1>2 DEF NextBuffer
<1>3. CASE b # NULL
  <2>1. PICK found : found = Found(c, b)
    OBVIOUS
  <2>2. found \in SUBSET (1..n) /\ found \in SUBSET Nat
    BY <1>1, <2>1 DEF Found
  <2>3. /\ found # {} /\ First(found) # n
        /\ NextBuffer(c, b) = BufferOf(c, First(found) + 1)
    BY <1>3, <1>1, <2>1 DEF NextBuffer
  <2>4. First(found) \in 1..n
    BY <2>2, <2>3, FirstIsFirst
  <2> QED
    BY <1>1, <2>3, <2>4
<1> QED
  BY <1>2, <1>3

LEMMA VisitTaken ==
  ASSUME TypeOK, Placed, NEW c \in Component, NEW j, pc[c] \in {"visit", "notifySend"}
  PROVE  Taken(c, j) = Len(seen[c])
  BY Fields DEF Taken, Ahead

-----------------------------------------------------------------------------
(* Types.                                                                  *)

LEMMA TypeVisit ==
  ASSUME RoundsInv, NEW x \in Component, Visit(x)
  PROVE  /\ cur' \in [Component -> Component \cup Link \cup {NULL}]
         /\ seen' \in [Component -> Seq(Seq(Nat))]
<1>1. PICK b : b = NextBuffer(x, cur[x])
  OBVIOUS
<1>2. TypeOK /\ Placed /\ InOrder /\ pc[x] = "visit" /\ Ins(x) # <<>> /\ seen[x] # <<>>
  BY DEF Visit, RoundsInv, Placed, PlacedAt
<1>3. CASE b = NULL
  BY <1>2, <1>1, <1>3 DEF Visit, TypeOK
<1>4. CASE b # NULL
  <2>1. PICK j \in DOMAIN Ins(x) : b = BufferOf(x, j)
    BY <1>2, <1>1, <1>4, NextIsALink
  <2>2. Taken(x, j) > 0
    BY <1>2, VisitTaken, Fields
  <2>3. b \in Component \cup Link /\ Data(b) \in Nat
    BY <1>2, <2>1, <2>2, BufferRead
  <2>4. cur' = [cur EXCEPT ![x] = b]
    BY <1>1, <1>4 DEF Visit
  <2>5. seen' = [seen EXCEPT ![x] = [seen[x] EXCEPT ![Len(seen[x])] = Append(seen[x][Len(seen[x])], Data(b))]]
    BY <1>1, <1>4 DEF Visit
  <2>6. Len(seen[x]) \in 1..Len(seen[x]) /\ seen[x] \in Seq(Seq(Nat))
    BY <1>2, Fields
  <2>7. Append(seen[x][Len(seen[x])], Data(b)) \in Seq(Nat)
    BY <2>3, <2>6, ElementOfSeq, AppendProperties
  <2>8. [seen[x] EXCEPT ![Len(seen[x])] = Append(seen[x][Len(seen[x])], Data(b))] \in Seq(Seq(Nat))
    BY <2>6, <2>7, ExceptSeq
  <2> QED
    BY <1>2, <2>3, <2>4, <2>5, <2>8 DEF TypeOK
<1> QED
  BY <1>3, <1>4

LEMMA TypeStep ==
  ASSUME RoundsInv, NEW x \in Component, Step(x)
  PROVE  TypeOK'
<1>0. TypeOK /\ Placed
  BY DEF RoundsInv
<1>1. sys' \in Systems /\ pc' \in [Component -> Pc] /\ at' \in [Component -> Nat]
  <2>1. PICK p \in Pc, i \in Nat : Goto(x, p, i)
    BY <1>0, Destination
  <2> QED
    BY <1>0, <2>1 DEF Goto, TypeOK
<1>2. up' \subseteq Link /\ connected' \subseteq Link /\ armed' \subseteq Link
  <2>1. CASE Listen(x)
    <3>1. at[x] \in DOMAIN Ins(x)
      BY <1>0, <2>1, Links, Fields DEF Listen, Placed, PlacedAt
    <3>2. InLink(x) \in Link
      BY <1>0, <3>1, Links DEF InLink
    <3> QED
      BY <1>0, <2>1, <3>2 DEF Listen, TypeOK, rcv
  <2>2. CASE RecvLink(x)
    BY <1>0, <2>2, ServedLink DEF RecvLink, TypeOK
  <2>3. CASE SendLink(x)
    BY <1>0, <2>3, ServedLink DEF SendLink, TypeOK, rcv
  <2>4. CASE ~Listen(x) /\ ~RecvLink(x) /\ ~SendLink(x)
    BY <1>0, <2>4 DEF Step, Begin, Take, Visit, NotifySend, Write, SendReturns, NotifyRecv,
                      TypeOK, tcp, rcv
  <2> QED
    BY <2>1, <2>2, <2>3, <2>4
<1>3. wire' \in [Link -> Seq(Nat \cup Component)] /\ recvBuf' \in [Link -> Nat \cup Component \cup {NULL}]
  <2>1. CASE Take(x)
    <3>1. PICK l \in Link : l = InLink(x)
      BY <1>0, <2>1, ServedLink DEF Take
    <3>2. wire[l] # <<>> /\ wire[l] \in Seq(Nat \cup Component)
      BY <1>0, <2>1, <3>1, Wires DEF Take
    <3>3. Head(wire[l]) \in Nat \cup Component /\ Tail(wire[l]) \in Seq(Nat \cup Component)
      BY <3>2, HeadTailProperties
    <3>4. /\ recvBuf' = [recvBuf EXCEPT ![l] = Head(wire[l])]
          /\ wire' = [wire EXCEPT ![l] = Tail(wire[l])]
      BY <2>1, <3>1 DEF Take
    <3> QED
      BY <1>0, <3>3, <3>4 DEF TypeOK
  <2>2. CASE SendLink(x)
    <3>1. PICK l \in Link : l = OutLink(x)
      BY <1>0, <2>2, ServedLink DEF SendLink
    <3>2. PICK v \in Nat \cup Component : v = IF sys.zero THEN x ELSE round[x]
      BY <1>0, Fields
    <3>3. wire' = [wire EXCEPT ![l] = Append(@, v)] \/ wire' = wire
      BY <2>2, <3>1, <3>2 DEF SendLink
    <3>4. Append(wire[l], v) \in Seq(Nat \cup Component)
      BY <1>0, Wires, AppendProperties
    <3>5. recvBuf' = recvBuf
      BY <2>2 DEF SendLink, rcv
    <3> QED
      BY <1>0, <3>3, <3>4, <3>5 DEF TypeOK
  <2>3. CASE ~Take(x) /\ ~SendLink(x)
    BY <1>0, <2>3 DEF Step, Listen, Begin, RecvLink, Visit, NotifySend, Write, SendReturns,
                      NotifyRecv, TypeOK, tcp, rcv
  <2> QED
    BY <2>1, <2>2, <2>3
<1>4. acks' \in [Link -> Nat]
  <2>1. CASE RecvLink(x)
    <3>1. \E n \in {0, 1} : acks' = [acks EXCEPT ![InLink(x)] = @ + n]
      <4>1. CASE sys.notify = "autonotify"
        BY <2>1, <4>1 DEF RecvLink
      <4>2. CASE sys.notify # "autonotify"
        BY <1>0, <2>1, <4>2, ServedLink DEF RecvLink, TypeOK
      <4> QED
        BY <4>1, <4>2
    <3> QED
      BY <1>0, <2>1, <3>1, ServedLink DEF RecvLink, TypeOK
  <2>2. CASE NotifySend(x)
    BY <1>0, <2>2, ServedLink DEF NotifySend, TypeOK
  <2>3. CASE SendReturns(x)
    <3>1. PICK l \in Link : l = OutLink(x)
      BY <1>0, <2>3, ServedLink DEF SendReturns
    <3>2. UNCHANGED acks \/ (acks[l] > 0 /\ acks' = [acks EXCEPT ![l] = acks[l] - 1])
      BY <2>3, <3>1 DEF SendReturns
    <3>3. acks[l] > 0 => acks[l] - 1 \in Nat
      BY <1>0, Wires
    <3> QED
      BY <1>0, <3>2, <3>3 DEF TypeOK
  <2>4. CASE NotifyRecv(x)
    <3>1. PICK l \in Link : l = OutLink(x)
      BY <1>0, <2>4, ServedLink DEF NotifyRecv
    <3>2. UNCHANGED acks \/ (acks[l] > 0 /\ acks' = [acks EXCEPT ![l] = acks[l] - 1])
      BY <2>4, <3>1 DEF NotifyRecv
    <3>3. acks[l] > 0 => acks[l] - 1 \in Nat
      BY <1>0, Wires
    <3> QED
      BY <1>0, <3>2, <3>3 DEF TypeOK
  <2>5. CASE ~RecvLink(x) /\ ~NotifySend(x) /\ ~SendReturns(x) /\ ~NotifyRecv(x)
    BY <1>0, <2>5 DEF Step, Listen, Begin, Take, Visit, Write, SendLink, TypeOK, tcp
  <2> QED
    BY <2>1, <2>2, <2>3, <2>4, <2>5
<1>5. round' \in [Component -> 0..MaxRounds]
  <2>1. CASE Write(x)
    BY <1>0, <2>1, ObjectAssumption DEF Write, TypeOK
  <2>2. CASE ~Write(x)
    BY <1>0, <2>2 DEF Step, Listen, Begin, RecvLink, Take, Visit, NotifySend, SendLink,
                      SendReturns, NotifyRecv, TypeOK
  <2> QED
    BY <2>1, <2>2
<1>6. /\ cur' \in [Component -> Component \cup Link \cup {NULL}]
      /\ seen' \in [Component -> Seq(Seq(Nat))]
  <2>1. CASE Visit(x)
    BY <2>1, TypeVisit
  <2>2. CASE Take(x)
    <3>1. /\ UNCHANGED cur \/ cur' = [cur EXCEPT ![x] = NULL]
          /\ UNCHANGED seen \/ seen' = [seen EXCEPT ![x] = Append(@, <<>>)]
      BY <2>2 DEF Take
    <3>2. Append(seen[x], <<>>) \in Seq(Seq(Nat))
      <4>1. <<>> \in Seq(Nat)
        BY EmptySeq
      <4> QED
        BY <1>0, <4>1, Fields, AppendProperties
    <3> QED
      BY <1>0, <3>1, <3>2 DEF TypeOK
  <2>3. CASE ~Visit(x) /\ ~Take(x)
    BY <1>0, <2>3 DEF Step, Listen, Begin, RecvLink, NotifySend, Write, SendLink,
                      SendReturns, NotifyRecv, TypeOK, rcv
  <2> QED
    BY <2>1, <2>2, <2>3
<1>7. put' \in [Link -> Nat] /\ refused' \in [Link -> Nat]
  <2>1. CASE SendLink(x)
    <3>1. PICK l \in Link : l = OutLink(x)
      BY <1>0, <2>1, ServedLink DEF SendLink
    <3>2. /\ UNCHANGED put \/ put' = [put EXCEPT ![l] = put[l] + 1]
          /\ UNCHANGED refused \/ refused' = [refused EXCEPT ![l] = refused[l] + 1]
      BY <2>1, <3>1 DEF SendLink
    <3>3. put[l] + 1 \in Nat /\ refused[l] + 1 \in Nat
      BY <1>0, Wires
    <3> QED
      BY <1>0, <3>2, <3>3 DEF TypeOK
  <2>2. CASE ~SendLink(x)
    BY <1>0, <2>2 DEF Step, Listen, Begin, RecvLink, Take, Visit, NotifySend, Write,
                      SendReturns, NotifyRecv, TypeOK, hist
  <2> QED
    BY <2>1, <2>2
<1> QED
  BY <1>1, <1>2, <1>3, <1>4, <1>5, <1>6, <1>7 DEF TypeOK

-----------------------------------------------------------------------------
(* The loops.                                                              *)

LEMMA NextRoundGoes ==
  ASSUME TypeOK, NEW x \in Component, NextRound(x)
  PROVE  /\ sys' = sys
         /\ \/ Ins(x) # <<>> /\ pc'[x] = "recv" /\ at'[x] = Len(Ins(x))
            \/ Ins(x) = <<>> /\ pc'[x] = "write" /\ at'[x] = 1
  BY DEF NextRound, Goto, TypeOK

LEMMA ServedGoes ==
  ASSUME TypeOK, NEW x \in Component, Served(x)
  PROVE  /\ sys' = sys
         /\ \/ at[x] < Len(Outs(x)) /\ pc'[x] = "send" /\ at'[x] = at[x] + 1
            \/ /\ ~(at[x] < Len(Outs(x))) /\ sys.notify = "notify"
               /\ pc'[x] = "notifyRecv" /\ at'[x] = Len(Outs(x))
            \/ /\ ~(at[x] < Len(Outs(x))) /\ sys.notify # "notify"
               /\ \/ Ins(x) # <<>> /\ pc'[x] = "recv" /\ at'[x] = Len(Ins(x))
                  \/ Ins(x) = <<>> /\ pc'[x] = "write" /\ at'[x] = 1
  BY NextRoundGoes DEF Served, Goto, TypeOK

\* Only Take, on the first link, begins another traversal.
LEMMA Traversals ==
  ASSUME RoundsInv, NEW x \in Component, Step(x)
  PROVE  /\ Take(x) /\ at[x] = 1 =>
              /\ Len(seen'[x]) = Len(seen[x]) + 1
              /\ seen'[x][Len(seen[x]) + 1] = <<>>
              /\ \A k \in 1..Len(seen[x]) : seen'[x][k] = seen[x][k]
         /\ ~(Take(x) /\ at[x] = 1) => Len(seen'[x]) = Len(seen[x])
         /\ ~Take(x) /\ ~Visit(x) => seen' = seen
<1>0. TypeOK /\ seen[x] \in Seq(Seq(Nat)) /\ Len(seen[x]) \in Nat
  BY Fields DEF RoundsInv
<1>1. CASE Take(x)
  <2>1. CASE at[x] = 1
    <3>1. seen' = [seen EXCEPT ![x] = Append(@, <<>>)]
      BY <1>1, <2>1 DEF Take
    <3>2. <<>> \in Seq(Nat) /\ seen'[x] = Append(seen[x], <<>>)
      BY <1>0, <3>1, EmptySeq DEF TypeOK
    <3> QED
      BY <1>0, <2>1, <1>1, <3>2, AppendProperties
  <2>2. CASE at[x] # 1
    <3>1. at[x] > 1
      BY <1>0, <2>2, Fields DEF RoundsInv, Placed, PlacedAt
    <3> QED
      BY <1>1, <2>2, <3>1 DEF Take
  <2> QED
    BY <2>1, <2>2
<1>2. CASE Visit(x)
  <2>0. ~Take(x)
    BY <1>2 DEF Visit, Take
  <2>1. \/ UNCHANGED seen
        \/ \E s : seen' = [seen EXCEPT ![x] = [seen[x] EXCEPT ![Len(seen[x])] = s]]
    BY <1>2 DEF Visit
  <2>2. TypeOK'
    BY TypeStep
  <2>3. CASE UNCHANGED seen
    BY <1>2, <2>0, <2>3
  <2>4. CASE ~UNCHANGED seen
    <3>1. PICK s : seen'[x] = [seen[x] EXCEPT ![Len(seen[x])] = s]
      BY <1>0, <2>1, <2>4 DEF TypeOK
    <3>2. DOMAIN seen'[x] = DOMAIN seen[x]
      BY <3>1
    <3>3. seen'[x] \in Seq(Seq(Nat))
      BY <2>2 DEF TypeOK
    <3>4. DOMAIN seen'[x] = 1..Len(seen'[x]) /\ Len(seen'[x]) \in Nat
      BY <3>3, LenProperties
    <3>5. DOMAIN seen[x] = 1..Len(seen[x])
      BY <1>0, LenProperties
    <3>6. ASSUME NEW m \in Nat, NEW n \in Nat, 1..m = 1..n
          PROVE  m = n
      BY <3>6
    <3>7. Len(seen'[x]) = Len(seen[x])
      BY <1>0, <3>2, <3>4, <3>5, <3>6
    <3> QED
      BY <1>2, <2>0, <3>7
  <2> QED
    BY <2>3, <2>4
<1>3. CASE ~Take(x) /\ ~Visit(x)
  BY <1>3 DEF Step, Listen, Begin, RecvLink, NotifySend, Write, SendLink, SendReturns,
              NotifyRecv, rcv
<1> QED
  BY <1>1, <1>2, <1>3

\* Only Write begins another round of its own.
LEMMA OwnRound ==
  ASSUME TypeOK, NEW x \in Component, Step(x)
  PROVE  IF Write(x) THEN round'[x] = round[x] + 1 ELSE round' = round
<1>1. CASE Write(x)
  BY <1>1 DEF Write, TypeOK
<1>2. CASE ~Write(x)
  BY <1>2 DEF Step, Listen, Begin, RecvLink, Take, Visit, NotifySend, SendLink, SendReturns,
              NotifyRecv
<1> QED
  BY <1>1, <1>2

LEMMA PlacedStep ==
  ASSUME RoundsInv, NEW x \in Component, Step(x)
  PROVE  Placed'
<1>1. TypeOK /\ TypeOK' /\ Placed /\ sys' = sys /\ \A c : Ins(c)' = Ins(c) /\ Outs(c)' = Outs(c)
  BY TypeStep, OnlyOwn, SamePlan DEF RoundsInv
<1>2. ASSUME NEW c \in Component, c # x
      PROVE  PlacedAt(c)'
  BY <1>1, <1>2, OnlyOwn DEF Placed, PlacedAt
<1>3. PICK n \in Nat : n = Len(seen[x])
  BY <1>1, Fields
<1>4. PICK r \in Nat : r = round[x]
  BY <1>1, Fields
<1>5. /\ at[x] \in Nat /\ Len(Ins(x)) \in Nat /\ Len(Outs(x)) \in Nat
      /\ PlacedAt(x)
      /\ Ins(x) = <<>> <=> Len(Ins(x)) = 0
      /\ Outs(x) = <<>> <=> Len(Outs(x)) = 0
      /\ Len(seen'[x]) \in Nat
      /\ seen[x] = <<>> <=> n = 0
      /\ seen'[x] = <<>> <=> Len(seen'[x]) = 0
  <2>1. seen'[x] \in Seq(Seq(Nat))
    BY <1>1 DEF TypeOK
  <2> QED
    BY <1>1, <1>3, <2>1, Fields, Links, LenProperties, EmptySeq DEF Placed
<1>6. /\ Take(x) /\ at[x] = 1 => Len(seen'[x]) = n + 1
      /\ ~(Take(x) /\ at[x] = 1) => Len(seen'[x]) = n
      /\ Write(x) => round'[x] = r + 1
      /\ ~Write(x) => round'[x] = r
  BY <1>1, <1>3, <1>4, Traversals, OwnRound
<1>7. PlacedAt(x)'
  <2>1. CASE Listen(x)
    <3>1. pc[x] = "init" /\ pc'[x] = "init" /\ at'[x] = at[x] + 1 /\ ~Take(x) /\ ~Write(x)
      BY <1>1, <2>1, Moved DEF Listen, Take, Write
    <3> QED
      BY <1>1, <1>3, <1>4, <1>5, <1>6, <3>1 DEF PlacedAt
  <2>2. CASE Begin(x)
    <3>1. /\ pc[x] = "init" /\ ~Take(x) /\ ~Write(x) /\ NextRound(x)
          /\ Ins(x) # <<>> \/ Outs(x) # <<>>
      BY <2>2 DEF Begin, Take, Write
    <3> QED
      BY <1>1, <1>3, <1>4, <1>5, <1>6, <3>1, NextRoundGoes DEF PlacedAt
  <2>3. CASE RecvLink(x)
    <3>1. pc[x] = "recv" /\ pc'[x] = "take" /\ at'[x] = at[x] /\ ~Take(x) /\ ~Write(x)
      BY <1>1, <2>3, Moved DEF RecvLink, Take, Write
    <3> QED
      BY <1>1, <1>3, <1>4, <1>5, <1>6, <3>1 DEF PlacedAt
  <2>4. CASE Take(x)
    <3>1. /\ pc[x] = "take" /\ ~Write(x)
          /\ IF at[x] > 1 THEN pc'[x] = "recv" /\ at'[x] = at[x] - 1
                          ELSE pc'[x] = "visit" /\ at'[x] = 1
      BY <1>1, <2>4, Moved DEF Take, Write
    <3> QED
      BY <1>1, <1>3, <1>4, <1>5, <1>6, <2>4, <3>1 DEF PlacedAt
  <2>5. CASE Visit(x)
    <3>1. /\ pc[x] = "visit" /\ ~Take(x) /\ ~Write(x)
          /\ \/ pc'[x] = "visit" /\ at'[x] = 1
             \/ sys.notify = "notify" /\ pc'[x] = "notifySend" /\ at'[x] = Len(Ins(x))
             \/ Outs(x) # <<>> /\ pc'[x] = "write" /\ at'[x] = 1
             \/ Outs(x) = <<>> /\ pc'[x] = "recv" /\ at'[x] = Len(Ins(x))
      BY <1>1, <1>5, <2>5, Moved, NextRoundGoes DEF Visit, Take, Write, PlacedAt
    <3> QED
      BY <1>1, <1>3, <1>4, <1>5, <1>6, <3>1 DEF PlacedAt
  <2>6. CASE NotifySend(x)
    <3>1. /\ pc[x] = "notifySend" /\ ~Take(x) /\ ~Write(x)
          /\ \/ at[x] > 1 /\ pc'[x] = "notifySend" /\ at'[x] = at[x] - 1
             \/ Outs(x) # <<>> /\ pc'[x] = "write" /\ at'[x] = 1
             \/ Outs(x) = <<>> /\ pc'[x] = "recv" /\ at'[x] = Len(Ins(x))
      BY <1>1, <1>5, <2>6, Moved, NextRoundGoes DEF NotifySend, Take, Write, PlacedAt
    <3> QED
      BY <1>1, <1>3, <1>4, <1>5, <1>6, <3>1 DEF PlacedAt
  <2>7. CASE Write(x)
    <3>1. pc[x] = "write" /\ pc'[x] = "send" /\ at'[x] = 1 /\ ~Take(x)
      BY <1>1, <2>7, Moved DEF Write, Take
    <3> QED
      BY <1>1, <1>3, <1>4, <1>5, <1>6, <2>7, <3>1 DEF PlacedAt
  <2>8. CASE SendLink(x)
    <3>1. /\ pc[x] = "send" /\ ~Take(x) /\ ~Write(x)
          /\ (pc'[x] = "sent" /\ at'[x] = at[x]) \/ Served(x)
      BY <1>1, <2>8, Moved DEF SendLink, Take, Write
    <3> QED
      BY <1>1, <1>3, <1>4, <1>5, <1>6, <3>1, ServedGoes DEF PlacedAt
  <2>9. CASE SendReturns(x)
    <3>1. pc[x] = "sent" /\ ~Take(x) /\ ~Write(x) /\ Served(x)
      BY <2>9 DEF SendReturns, Take, Write
    <3> QED
      BY <1>1, <1>3, <1>4, <1>5, <1>6, <3>1, ServedGoes DEF PlacedAt
  <2>10. CASE NotifyRecv(x)
    <3>1. /\ pc[x] = "notifyRecv" /\ ~Take(x) /\ ~Write(x)
          /\ \/ at[x] > 1 /\ pc'[x] = "notifyRecv" /\ at'[x] = at[x] - 1
             \/ NextRound(x)
      BY <1>1, <2>10, Moved DEF NotifyRecv, Take, Write
    <3> QED
      BY <1>1, <1>3, <1>4, <1>5, <1>6, <3>1, NextRoundGoes DEF PlacedAt
  <2> QED
    BY <2>1, <2>2, <2>3, <2>4, <2>5, <2>6, <2>7, <2>8, <2>9, <2>10 DEF Step
<1> QED
  BY <1>2, <1>7 DEF Placed

\* Write begins a round that no link is served with; SendLink serves its own.
LEMMA ServeCount ==
  ASSUME RoundsInv, NEW x \in Component, Step(x), NEW c \in Component, NEW i \in DOMAIN Outs(c)
  PROVE  /\ c # x => (Unserved(c, i)' <=> Unserved(c, i))
         /\ c = x /\ Write(x) => Unserved(c, i)' /\ ~Unserved(c, i)
         /\ c = x /\ SendLink(x) => /\ Unserved(c, i)' <=> Unserved(c, i) /\ i # at[x]
                                    /\ Unserved(c, at[x])
         /\ c = x /\ ~Write(x) /\ ~SendLink(x) => (Unserved(c, i)' <=> Unserved(c, i))
<1>0. TypeOK /\ Placed
  BY DEF RoundsInv
<1>1. CASE c # x
  BY <1>0, <1>1, OnlyOwn DEF Unserved
<1>2. CASE c = x
  <2>0. i \in 1..Len(Outs(x)) /\ Len(Outs(x)) \in Nat /\ at[x] \in Nat /\ at[x] >= 1
    BY <1>0, <1>2, Links, Fields DEF Placed, PlacedAt
  <2>1. CASE Write(x)
    <3>1. pc[x] = "write" /\ pc'[x] = "send" /\ at'[x] = 1 /\ ~SendLink(x)
      BY <1>0, <2>1, Moved DEF Write, SendLink
    <3> QED
      BY <1>2, <2>0, <2>1, <3>1 DEF Unserved
  <2>2. CASE SendLink(x)
    <3>1. /\ pc[x] = "send" /\ ~Write(x)
          /\ (pc'[x] = "sent" /\ at'[x] = at[x]) \/ Served(x)
      BY <1>0, <2>2, Moved DEF SendLink, Write
    <3> QED
      BY <1>0, <1>2, <2>0, <2>2, <3>1, ServedGoes DEF Unserved
  <2>3. CASE SendReturns(x)
    <3>1. pc[x] = "sent" /\ ~Write(x) /\ ~SendLink(x) /\ Served(x)
      BY <2>3 DEF SendReturns, Write, SendLink
    <3> QED
      BY <1>0, <1>2, <2>0, <3>1, ServedGoes DEF Unserved
  <2>4. CASE ~Write(x) /\ ~SendLink(x) /\ ~SendReturns(x)
    <3>1. pc[x] \notin {"send", "sent"} /\ pc'[x] \notin {"send", "sent"}
      <4>1. CASE Listen(x) \/ Begin(x)
        BY <1>0, <4>1, Moved, NextRoundGoes DEF Listen, Begin
      <4>2. CASE RecvLink(x) \/ Take(x)
        BY <1>0, <4>2, Moved DEF RecvLink, Take
      <4>3. CASE Visit(x)
        BY <1>0, <4>3, Moved, NextRoundGoes DEF Visit
      <4>4. CASE NotifySend(x) \/ NotifyRecv(x)
        BY <1>0, <4>4, Moved, NextRoundGoes DEF NotifySend, NotifyRecv
      <4> QED
        BY <2>4, <4>1, <4>2, <4>3, <4>4 DEF Step
    <3> QED
      BY <1>2, <2>4, <3>1 DEF Unserved
  <2> QED
    BY <2>1, <2>2, <2>3, <2>4
<1> QED
  BY <1>1, <1>2

\* Take takes one message, from its own link.
LEMMA TakeCount ==
  ASSUME RoundsInv, NEW x \in Component, Step(x), NEW d \in Component, NEW j \in DOMAIN Ins(d)
  PROVE  /\ ~(d = x /\ Take(x) /\ j = at[x]) => Taken(d, j)' = Taken(d, j)
         /\ d = x /\ Take(x) /\ j = at[x] => Taken(d, j)' = Taken(d, j) + 1
         /\ Taken(d, j) \in Nat
<1>0. TypeOK /\ Placed
  BY DEF RoundsInv
<1>1. Len(seen[d]) \in Nat /\ Taken(d, j) \in Nat
  BY <1>0, Fields DEF Taken
<1>2. CASE d # x
  BY <1>0, <1>1, <1>2, OnlyOwn DEF Taken, Ahead
<1>3. CASE d = x
  <2>1. j \in 1..Len(Ins(x)) /\ Len(Ins(x)) \in Nat /\ at[x] \in Nat /\ at[x] >= 1
    BY <1>0, <1>3, Links, Fields DEF Placed, PlacedAt
  <2>2. /\ Take(x) /\ at[x] = 1 => Len(seen'[x]) = Len(seen[x]) + 1
        /\ ~(Take(x) /\ at[x] = 1) => Len(seen'[x]) = Len(seen[x])
    BY Traversals
  <2>3. CASE Take(x)
    <3>1. /\ pc[x] = "take"
          /\ IF at[x] > 1 THEN pc'[x] = "recv" /\ at'[x] = at[x] - 1
                          ELSE pc'[x] = "visit" /\ at'[x] = 1
      BY <1>0, <2>3, Moved DEF Take
    <3> QED
      BY <1>1, <1>3, <2>1, <2>2, <2>3, <3>1 DEF Taken, Ahead
  <2>4. CASE RecvLink(x)
    <3>1. pc[x] = "recv" /\ pc'[x] = "take" /\ at'[x] = at[x] /\ ~Take(x)
      BY <1>0, <2>4, Moved DEF RecvLink, Take
    <3> QED
      BY <1>1, <1>3, <2>1, <2>2, <3>1 DEF Taken, Ahead
  <2>5. CASE ~Take(x) /\ ~RecvLink(x)
    <3>1. /\ pc[x] \notin {"recv", "take"}
          /\ pc'[x] \notin {"recv", "take"} \/ at'[x] = Len(Ins(x))
      <4>1. CASE Listen(x) \/ Begin(x)
        BY <1>0, <4>1, Moved, NextRoundGoes DEF Listen, Begin
      <4>2. CASE Visit(x)
        BY <1>0, <4>2, Moved, NextRoundGoes DEF Visit
      <4>3. CASE NotifySend(x) \/ NotifyRecv(x)
        BY <1>0, <4>3, Moved, NextRoundGoes DEF NotifySend, NotifyRecv
      <4>4. CASE Write(x)
        BY <1>0, <4>4, Moved DEF Write
      <4>5. CASE SendLink(x)
        <5>1. pc[x] = "send" /\ (pc'[x] = "sent" \/ Served(x))
          BY <1>0, <4>5, Moved DEF SendLink
        <5> QED
          BY <1>0, <5>1, ServedGoes
      <4>6. CASE SendReturns(x)
        <5>1. pc[x] = "sent" /\ Served(x)
          BY <4>6 DEF SendReturns
        <5> QED
          BY <1>0, <5>1, ServedGoes
      <4> QED
        BY <2>5, <4>1, <4>2, <4>3, <4>4, <4>5, <4>6 DEF Step
    <3> QED
      BY <1>1, <1>3, <2>1, <2>2, <2>5, <3>1 DEF Taken, Ahead
  <2> QED
    BY <2>3, <2>4, <2>5
<1> QED
  BY <1>1, <1>2, <1>3

\* What the step does to the links.
LEMMA LinkMoves ==
  ASSUME RoundsInv, NEW x \in Component, Step(x)
  PROVE  /\ ~SendLink(x) => UNCHANGED <<put, refused, connected>>
         /\ ~SendLink(x) /\ ~Take(x) => UNCHANGED wire
         /\ ~Take(x) => UNCHANGED recvBuf
         /\ ~Listen(x) => UNCHANGED up
  BY DEF Step, Listen, Begin, RecvLink, Take, Visit, NotifySend, Write, SendLink, SendReturns,
         NotifyRecv, tcp, rcv, hist

LEMMA TakeMoves ==
  ASSUME RoundsInv, NEW x \in Component, Take(x)
  PROVE  \E l \in Link :
           /\ l = InLink(x) /\ at[x] \in DOMAIN Ins(x) /\ l = Ins(x)[at[x]]
           /\ wire[l] # <<>> /\ Len(wire[l]) > 0
           /\ wire' = [wire EXCEPT ![l] = Tail(wire[l])]
           /\ Len(wire'[l]) = Len(wire[l]) - 1
           /\ \A k \in 1..Len(wire[l]) - 1 : wire'[l][k] = wire[l][k + 1]
           /\ recvBuf' = [recvBuf EXCEPT ![l] = wire[l][1]]
<1>0. TypeOK /\ Placed
  BY DEF RoundsInv
<1>1. PICK l \in Link : l = InLink(x) /\ at[x] \in DOMAIN Ins(x) /\ l = Ins(x)[at[x]]
  BY <1>0, ServedLink DEF Take
<1>2. wire[l] # <<>> /\ wire[l] \in Seq(Nat \cup Component) /\ Len(wire[l]) \in Nat /\ Len(wire[l]) > 0
  BY <1>0, <1>1, Wires DEF Take
<1>3. /\ wire' = [wire EXCEPT ![l] = Tail(wire[l])]
      /\ recvBuf' = [recvBuf EXCEPT ![l] = Head(wire[l])]
  BY <1>1 DEF Take
<1>4. Head(wire[l]) = wire[l][1]
  BY <1>2
<1>5. wire'[l] = Tail(wire[l])
  BY <1>0, <1>3 DEF TypeOK
<1>6. /\ Len(Tail(wire[l])) = Len(wire[l]) - 1
      /\ \A k \in 1..Len(wire[l]) - 1 : Tail(wire[l])[k] = wire[l][k + 1]
  BY <1>2, HeadTailProperties
<1> QED
  BY <1>1, <1>2, <1>3, <1>4, <1>5, <1>6

LEMMA SendMoves ==
  ASSUME RoundsInv, NEW x \in Component, SendLink(x)
  PROVE  \E l \in Link :
           /\ l = OutLink(x) /\ at[x] \in DOMAIN Outs(x) /\ l = Outs(x)[at[x]]
           /\ \/ /\ l \in connected \cup up
                 /\ connected' = connected \cup {l}
                 /\ wire' = [wire EXCEPT ![l] = Append(wire[l], IF sys.zero THEN x ELSE round[x])]
                 /\ Len(wire'[l]) = Len(wire[l]) + 1
                 /\ wire'[l][Len(wire[l]) + 1] = IF sys.zero THEN x ELSE round[x]
                 /\ \A k \in 1..Len(wire[l]) : wire'[l][k] = wire[l][k]
                 /\ put' = [put EXCEPT ![l] = put[l] + 1]
                 /\ pc'[x] = "sent" /\ at'[x] = at[x]
                 /\ UNCHANGED refused
              \/ /\ l \notin connected \cup up
                 /\ refused' = [refused EXCEPT ![l] = refused[l] + 1]
                 /\ Served(x)
                 /\ UNCHANGED <<connected, wire, put>>
<1>0. TypeOK /\ Placed
  BY DEF RoundsInv
<1>1. PICK l \in Link : l = OutLink(x) /\ at[x] \in DOMAIN Outs(x) /\ l = Outs(x)[at[x]]
  BY <1>0, ServedLink DEF SendLink
<1>2. CASE l \in connected \cup up
  <2>1. PICK v \in Nat \cup Component : v = IF sys.zero THEN x ELSE round[x]
    BY <1>0, Fields
  <2>2. /\ connected' = connected \cup {l}
        /\ wire' = [wire EXCEPT ![l] = Append(wire[l], v)]
        /\ put' = [put EXCEPT ![l] = put[l] + 1]
        /\ pc'[x] = "sent" /\ at'[x] = at[x]
        /\ UNCHANGED refused
    BY <1>0, <1>1, <1>2, <2>1, Moved DEF SendLink
  <2>3. wire'[l] = Append(wire[l], v) /\ wire[l] \in Seq(Nat \cup Component)
    BY <1>0, <2>2 DEF TypeOK
  <2>4. /\ Len(wire'[l]) = Len(wire[l]) + 1 /\ wire'[l][Len(wire[l]) + 1] = v
        /\ \A k \in 1..Len(wire[l]) : wire'[l][k] = wire[l][k]
    BY <2>3, AppendProperties
  <2> QED
    BY <1>1, <1>2, <2>1, <2>2, <2>4
<1>3. CASE l \notin connected \cup up
  <2>1. /\ refused' = [refused EXCEPT ![l] = refused[l] + 1]
        /\ Served(x)
        /\ UNCHANGED <<connected, wire, put>>
    BY <1>1, <1>3 DEF SendLink
  <2> QED
    BY <1>1, <1>3, <2>1
<1> QED
  BY <1>2, <1>3

-----------------------------------------------------------------------------
(* What the links have carried.                                            *)

LEMMA InRoundStep ==
  ASSUME RoundsInv, NEW x \in Component, Step(x)
  PROVE  InRound'
<1>0. /\ TypeOK /\ TypeOK' /\ Placed /\ Placed' /\ sys' = sys
      /\ \A c : Ins(c)' = Ins(c) /\ Outs(c)' = Outs(c)
  BY TypeStep, PlacedStep, OnlyOwn, SamePlan DEF RoundsInv
<1>1. ASSUME NEW c \in Component, NEW i \in DOMAIN Outs(c)'
      PROVE  put'[Outs(c)[i]] + refused'[Outs(c)[i]] =
               IF Unserved(c, i)' THEN round'[c] - 1 ELSE round'[c]
  <2>1. i \in DOMAIN Outs(c)
    BY <1>0
  <2>2. PICK m \in Link : m = Outs(c)[i]
    BY <1>0, <2>1, Links
  <2>3. put[m] \in Nat /\ refused[m] \in Nat /\ round[c] \in Nat
    BY <1>0, Wires, Fields
  <2>4. put[m] + refused[m] = IF Unserved(c, i) THEN round[c] - 1 ELSE round[c]
    BY <2>1, <2>2 DEF RoundsInv, InRound
  <2>5. CASE ~SendLink(x)
    <3>1. put' = put /\ refused' = refused
      BY <2>5, LinkMoves
    <3>2. CASE c = x /\ Write(x)
      <4>1. Unserved(c, i)' /\ ~Unserved(c, i) /\ round'[c] = round[c] + 1
        BY <1>0, <2>1, <3>2, ServeCount, OwnRound
      <4> QED
        BY <2>2, <2>3, <2>4, <3>1, <4>1
    <3>3. CASE ~(c = x /\ Write(x))
      <4>1. Unserved(c, i)' <=> Unserved(c, i)
        BY <2>5, <2>1, <3>3, ServeCount
      <4>2. round'[c] = round[c]
        BY <1>0, <3>3, OnlyOwn, OwnRound
      <4> QED
        BY <2>2, <2>3, <2>4, <3>1, <4>1, <4>2
    <3> QED
      BY <3>2, <3>3
  <2>6. CASE SendLink(x)
    <3>1. PICK l \in Link :
            /\ at[x] \in DOMAIN Outs(x) /\ l = Outs(x)[at[x]]
            /\ \/ put' = [put EXCEPT ![l] = put[l] + 1] /\ UNCHANGED refused
               \/ refused' = [refused EXCEPT ![l] = refused[l] + 1] /\ UNCHANGED put
      BY <2>6, SendMoves
    <3>2. round' = round
      BY <2>6 DEF SendLink
    <3>3. CASE c = x /\ i = at[x]
      <4>1. m = l /\ Unserved(c, i) /\ ~Unserved(c, i)'
        BY <2>6, <2>1, <2>2, <3>1, <3>3, ServeCount
      <4>2. \/ put'[m] = put[m] + 1 /\ refused'[m] = refused[m]
            \/ put'[m] = put[m] /\ refused'[m] = refused[m] + 1
        BY <1>0, <3>1, <4>1 DEF TypeOK
      <4> QED
        BY <2>2, <2>3, <2>4, <3>2, <4>1, <4>2
    <3>4. CASE ~(c = x /\ i = at[x])
      <4>1. m # l
        BY <1>0, <2>1, <2>2, <3>1, <3>4, OneWriter
      <4>2. Unserved(c, i)' <=> Unserved(c, i)
        BY <2>6, <2>1, <3>4, ServeCount DEF Write, SendLink
      <4>3. put'[m] = put[m] /\ refused'[m] = refused[m]
        BY <1>0, <3>1, <4>1 DEF TypeOK
      <4> QED
        BY <2>2, <2>4, <3>2, <4>2, <4>3
    <3> QED
      BY <3>3, <3>4
  <2> QED
    BY <2>5, <2>6
<1>2. ASSUME NEW m \in Link
      PROVE  put'[m] > 0 <=> m \in connected'
  <2>0. put[m] \in Nat /\ (put[m] > 0 <=> m \in connected)
    BY <1>0, Wires DEF RoundsInv, InRound
  <2>1. CASE ~SendLink(x)
    BY <2>0, <2>1, LinkMoves
  <2>2. CASE SendLink(x)
    <3>1. PICK l \in Link :
            \/ put' = [put EXCEPT ![l] = put[l] + 1] /\ connected' = connected \cup {l}
            \/ UNCHANGED <<put, connected>>
      BY <2>2, SendMoves
    <3>2. \/ m # l /\ put'[m] = put[m] /\ (m \in connected' <=> m \in connected)
          \/ m = l /\ put'[m] = put[m] + 1 /\ m \in connected'
          \/ put'[m] = put[m] /\ (m \in connected' <=> m \in connected)
      BY <1>0, <3>1 DEF TypeOK
    <3> QED
      BY <2>0, <3>2
  <2> QED
    BY <2>1, <2>2
<1>3. ASSUME NEW c \in Component, pc'[c] = "sent"
      PROVE  OutLink(c)' \in connected'
  <2>1. connected \subseteq connected'
    <3>1. CASE SendLink(x)
      BY <3>1, SendMoves
    <3>2. CASE ~SendLink(x)
      BY <3>2, LinkMoves
    <3> QED
      BY <3>1, <3>2
  <2>2. CASE c # x
    <3>1. pc[c] = "sent" /\ at'[c] = at[c]
      BY <1>0, <1>3, <2>2, OnlyOwn
    <3> QED
      BY <1>0, <2>1, <3>1 DEF RoundsInv, InRound, OutLink
  <2>3. CASE c = x
    <3>1. CASE SendLink(x)
      <4>1. PICK l \in Link :
              /\ l = OutLink(x)
              /\ \/ connected' = connected \cup {l} /\ at'[x] = at[x]
                 \/ Served(x)
        BY <3>1, SendMoves
      <4>2. ~Served(x)
        BY <1>0, <1>3, <2>3, ServedGoes
      <4> QED
        BY <1>0, <2>3, <4>1, <4>2 DEF OutLink
    <3>2. CASE ~SendLink(x)
      <4>1. CASE Listen(x) \/ Begin(x)
        BY <1>0, <1>3, <2>3, <4>1, Moved, NextRoundGoes DEF Listen, Begin
      <4>2. CASE RecvLink(x) \/ Take(x) \/ Write(x)
        BY <1>0, <1>3, <2>3, <4>2, Moved DEF RecvLink, Take, Write
      <4>3. CASE Visit(x)
        BY <1>0, <1>3, <2>3, <4>3, Moved, NextRoundGoes DEF Visit
      <4>4. CASE NotifySend(x) \/ NotifyRecv(x)
        BY <1>0, <1>3, <2>3, <4>4, Moved, NextRoundGoes DEF NotifySend, NotifyRecv
      <4>5. CASE SendReturns(x)
        BY <1>0, <1>3, <2>3, <4>5, ServedGoes DEF SendReturns
      <4> QED
        BY <3>2, <4>1, <4>2, <4>3, <4>4, <4>5 DEF Step
    <3> QED
      BY <3>1, <3>2
  <2> QED
    BY <2>2, <2>3
<1> QED
  BY <1>0, <1>1, <1>2, <1>3 DEF InRound

LEMMA OnTheWayStep ==
  ASSUME RoundsInv, NEW x \in Component, Step(x)
  PROVE  OnTheWay'
<1>0. /\ TypeOK /\ TypeOK' /\ Placed /\ sys' = sys
      /\ \A c : Ins(c)' = Ins(c) /\ Elems(Ins(c))' = Elems(Ins(c))
  BY TypeStep, OnlyOwn, SamePlan DEF RoundsInv
<1>1. ASSUME NEW d \in Component, NEW j \in DOMAIN Ins(d)'
      PROVE  put'[Ins(d)[j]] = Len(wire'[Ins(d)[j]]) + Taken(d, j)'
  <2>1. j \in DOMAIN Ins(d)
    BY <1>0
  <2>2. PICK m \in Link : m = Ins(d)[j]
    BY <1>0, <2>1, Links
  <2>3. put[m] \in Nat /\ Len(wire[m]) \in Nat /\ Taken(d, j) \in Nat
    BY <1>0, <2>1, Wires, TakeCount
  <2>4. put[m] = Len(wire[m]) + Taken(d, j)
    BY <2>1, <2>2 DEF RoundsInv, OnTheWay
  <2>5. CASE Take(x)
    <3>1. PICK l \in Link :
            /\ at[x] \in DOMAIN Ins(x) /\ l = Ins(x)[at[x]]
            /\ wire' = [wire EXCEPT ![l] = Tail(wire[l])]
            /\ Len(wire'[l]) = Len(wire[l]) - 1
      BY <2>5, TakeMoves
    <3>2. put' = put
      BY <2>5 DEF Take, hist
    <3>3. CASE d = x /\ j = at[x]
      <4>1. m = l /\ Taken(d, j)' = Taken(d, j) + 1
        BY <2>5, <2>1, <2>2, <3>1, <3>3, TakeCount
      <4> QED
        BY <2>2, <2>3, <2>4, <3>1, <3>2, <4>1
    <3>4. CASE ~(d = x /\ j = at[x])
      <4>1. m # l
        BY <1>0, <2>1, <2>2, <3>1, <3>4, OneReader
      <4>2. wire'[m] = wire[m]
        BY <1>0, <3>1, <4>1 DEF TypeOK
      <4>3. Taken(d, j)' = Taken(d, j)
        BY <2>1, <3>4, TakeCount
      <4> QED
        BY <2>2, <2>4, <3>2, <4>2, <4>3
    <3> QED
      BY <3>3, <3>4
  <2>6. CASE SendLink(x)
    <3>1. PICK l \in Link :
            \/ /\ wire' = [wire EXCEPT ![l] = Append(wire[l], IF sys.zero THEN x ELSE round[x])]
               /\ Len(wire'[l]) = Len(wire[l]) + 1
               /\ put' = [put EXCEPT ![l] = put[l] + 1]
            \/ UNCHANGED <<wire, put>>
      BY <2>6, SendMoves
    <3>2. Taken(d, j)' = Taken(d, j)
      BY <2>6, <2>1, TakeCount DEF SendLink, Take
    <3>3. \/ Len(wire'[m]) = Len(wire[m]) + 1 /\ put'[m] = put[m] + 1
          \/ Len(wire'[m]) = Len(wire[m]) /\ put'[m] = put[m]
      <4>1. CASE m = l
        BY <1>0, <3>1, <4>1 DEF TypeOK
      <4>2. CASE m # l
        BY <1>0, <3>1, <4>2 DEF TypeOK
      <4> QED
        BY <4>1, <4>2
    <3> QED
      BY <2>2, <2>3, <2>4, <3>2, <3>3
  <2>7. CASE ~Take(x) /\ ~SendLink(x)
    <3>1. put' = put /\ wire' = wire
      BY <2>7, LinkMoves
    <3>2. Taken(d, j)' = Taken(d, j)
      BY <2>7, <2>1, TakeCount
    <3> QED
      BY <2>2, <2>4, <3>1, <3>2
  <2> QED
    BY <2>5, <2>6, <2>7
<1>2. ASSUME NEW l \in up' \cup connected'
      PROVE  \E d \in Component : l \in Elems(Ins(d))'
  <2>1. \A m \in up \cup connected : \E d \in Component : m \in Elems(Ins(d))
    BY DEF RoundsInv, OnTheWay
  <2>2. CASE l \in up \cup connected
    BY <1>0, <2>1, <2>2
  <2>3. CASE l \notin up \cup connected
    <3>1. connected' \subseteq up \cup connected
      <4>1. CASE SendLink(x)
        BY <4>1, SendMoves
      <4>2. CASE ~SendLink(x)
        BY <4>2, LinkMoves
      <4> QED
        BY <4>1, <4>2
    <3>2. Listen(x) /\ l = InLink(x)
      BY <1>2, <2>3, <3>1, LinkMoves DEF Listen
    <3>3. at[x] \in DOMAIN Ins(x)
      BY <1>0, <3>2, Links, Fields DEF Listen, Placed, PlacedAt
    <3> QED
      BY <1>0, <3>2, <3>3 DEF Elems, InLink
  <2> QED
    BY <2>2, <2>3
<1> QED
  BY <1>0, <1>1, <1>2 DEF OnTheWay

\* A refusal moves the rounds only of a link that has carried nothing.
LEMMA RefusedStays ==
  ASSUME RoundsInv, NEW x \in Component, Step(x), NEW d \in Component, NEW j \in DOMAIN Ins(d),
         Len(wire[Ins(d)[j]]) > 0 \/ Taken(d, j) > 0
  PROVE  refused'[Ins(d)[j]] = refused[Ins(d)[j]]
<1>1. TypeOK
  BY DEF RoundsInv
<1>2. PICK l \in Link : l = Ins(d)[j]
  BY <1>1, Links
<1>3. put[l] > 0
  <2>1. put[l] = Len(wire[l]) + Taken(d, j)
    BY <1>2 DEF RoundsInv, OnTheWay
  <2>2. put[l] \in Nat /\ Len(wire[l]) \in Nat /\ Taken(d, j) \in Nat
    BY <1>1, Wires, TakeCount
  <2> QED
    BY <1>2, <2>1, <2>2
<1>4. l \in connected
  BY <1>3 DEF RoundsInv, InRound
<1>5. CASE SendLink(x)
  <2>1. PICK m \in Link :
          UNCHANGED refused \/ (m \notin connected /\ refused' = [refused EXCEPT ![m] = refused[m] + 1])
    BY <1>5, SendMoves
  <2> QED
    BY <1>1, <1>2, <1>4, <2>1 DEF TypeOK
<1>6. CASE ~SendLink(x)
  BY <1>6, LinkMoves
<1> QED
  BY <1>5, <1>6

LEMMA CarriesOn ==
  ASSUME RoundsInv, NEW x \in Component, Step(x),
         NEW d \in Component, NEW j \in DOMAIN Ins(d), NEW n, NEW v,
         Len(wire[Ins(d)[j]]) > 0 \/ Taken(d, j) > 0, Carries(Ins(d)[j], n, v)
  PROVE  Carries(Ins(d)[j], n, v)'
<1>1. /\ TypeOK /\ Placed /\ sys' = sys /\ \A c : Elems(Outs(c))' = Elems(Outs(c))
      /\ \A c : Ins(c)' = Ins(c)
  BY OnlyOwn, SamePlan DEF RoundsInv
<1>2. PICK l \in Link : l = Ins(d)[j]
  BY <1>1, Links
<1>3. refused'[l] = refused[l]
  BY <1>2, RefusedStays
<1>4. PICK c \in Component : l \in Elems(Outs(c)) /\ v = IF sys.zero THEN c ELSE refused[l] + n
  BY <1>2 DEF Carries
<1> QED
  BY <1>1, <1>2, <1>3, <1>4 DEF Carries

LEMMA InOrderStep ==
  ASSUME RoundsInv, NEW x \in Component, Step(x)
  PROVE  InOrder'
<1>0. /\ TypeOK /\ TypeOK' /\ Placed /\ sys' = sys
      /\ \A c : Ins(c)' = Ins(c) /\ Outs(c)' = Outs(c) /\ Elems(Outs(c))' = Elems(Outs(c))
  BY TypeStep, OnlyOwn, SamePlan DEF RoundsInv
<1>1. ASSUME NEW d \in Component, NEW j \in DOMAIN Ins(d)'
      PROVE  /\ \A k \in 1..Len(wire'[Ins(d)[j]]) :
                  Carries(Ins(d)[j], Taken(d, j) + k, wire[Ins(d)[j]][k])'
             /\ Taken(d, j)' > 0 => Carries(Ins(d)[j], Taken(d, j), recvBuf[Ins(d)[j]])'
  <2>1. j \in DOMAIN Ins(d)
    BY <1>0
  <2>2. PICK m \in Link : m = Ins(d)[j] /\ m = Ins(d)'[j]
    BY <1>0, <2>1, Links
  <2>3. PICK t \in Nat : t = Taken(d, j)
    BY <2>1, TakeCount
  <2>4. PICK w \in Nat : w = Len(wire[m])
    BY <1>0, Wires
  <2>5. /\ \A k \in 1..w : Carries(m, t + k, wire[m][k])
        /\ t > 0 => Carries(m, t, recvBuf[m])
    BY <2>1, <2>2, <2>3, <2>4 DEF RoundsInv, InOrder
  <2>6. ASSUME w > 0 \/ t > 0, NEW n, NEW v, Carries(m, n, v)
        PROVE  Carries(m, n, v)'
    BY <2>6, <2>1, <2>2, <2>3, <2>4, CarriesOn
  <2>7. put[m] = w + t
    BY <2>1, <2>2, <2>3, <2>4 DEF RoundsInv, OnTheWay
  <2>8. PICK ws, rb, u : ws = wire'[m] /\ rb = recvBuf'[m] /\ u = Taken(d, j)'
    OBVIOUS
  <2> SUFFICES /\ \A k \in 1..Len(ws) : Carries(m, u + k, ws[k])'
               /\ u > 0 => Carries(m, u, rb)'
    BY <2>2, <2>8
  <2>9. CASE Take(x) /\ d = x /\ j = at[x]
    <3>1. /\ w > 0
          /\ Len(ws) = w - 1
          /\ \A k \in 1..w - 1 : ws[k] = wire[m][k + 1]
          /\ rb = wire[m][1]
      <4>1. PICK l \in Link :
              /\ l = Ins(x)[at[x]]
              /\ Len(wire[l]) > 0
              /\ Len(wire'[l]) = Len(wire[l]) - 1
              /\ \A k \in 1..Len(wire[l]) - 1 : wire'[l][k] = wire[l][k + 1]
              /\ recvBuf' = [recvBuf EXCEPT ![l] = wire[l][1]]
        BY <2>9, TakeMoves
      <4> QED
        BY <1>0, <2>9, <2>2, <2>4, <2>8, <4>1 DEF TypeOK
    <3>2. u = t + 1
      BY <2>9, <2>1, <2>3, <2>8, TakeCount
    <3>3. ASSUME NEW k \in 1..w - 1
          PROVE  Carries(m, t + 1 + k, ws[k])'
      <4>1. k + 1 \in 1..w /\ t + (k + 1) = t + 1 + k
        BY <2>3, <2>4
      <4>2. Carries(m, t + 1 + k, wire[m][k + 1])
        BY <2>5, <4>1
      <4>3. PICK v : v = wire[m][k + 1]
        OBVIOUS
      <4>4. Carries(m, t + 1 + k, v)'
        BY <2>6, <3>1, <4>2, <4>3
      <4> QED
        BY <3>1, <4>3, <4>4
    <3>4. Carries(m, t + 1, rb)'
      <4>1. Carries(m, t + 1, wire[m][1])
        BY <2>5, <2>4, <3>1
      <4>2. PICK v : v = wire[m][1]
        OBVIOUS
      <4>3. Carries(m, t + 1, v)'
        BY <2>6, <3>1, <4>1, <4>2
      <4> QED
        BY <3>1, <4>2, <4>3
    <3> QED
      BY <3>1, <3>2, <3>3, <3>4
  <2>10. CASE SendLink(x) /\ m = OutLink(x) /\ m \in connected \cup up
    <3>1. /\ at[x] \in DOMAIN Outs(x) /\ m = Outs(x)[at[x]]
          /\ Len(ws) = w + 1
          /\ ws[w + 1] = IF sys.zero THEN x ELSE round[x]
          /\ \A k \in 1..w : ws[k] = wire[m][k]
          /\ UNCHANGED refused
      BY <2>10, <2>4, <2>8, SendMoves
    <3>2. u = t /\ rb = recvBuf[m]
      BY <2>10, <2>8, <2>1, <2>3, TakeCount DEF SendLink, Take, rcv
    <3>3. refused[m] + (t + (w + 1)) = round[x]
      <4>1. put[m] + refused[m] = round[x] - 1
        BY <2>10, <3>1, ServeCount DEF RoundsInv, InRound
      <4>2. PICK rf \in Nat, r \in Nat : rf = refused[m] /\ r = round[x]
        BY <1>0, Wires, Fields
      <4>3. (w + t) + rf = r - 1
        BY <2>7, <4>1, <4>2
      <4>4. rf + (t + (w + 1)) = r
        BY <4>3
      <4> QED
        BY <4>2, <4>4
    <3>4. Carries(m, t + (w + 1), ws[w + 1])'
      <4>1. m \in Elems(Outs(x))
        BY <3>1 DEF Elems
      <4>2. m \in Elems(Outs(x))' /\ sys' = sys /\ refused'[m] = refused[m]
        BY <1>0, <3>1, <4>1
      <4>3. ws[w + 1] = IF sys'.zero THEN x ELSE refused'[m] + (t + (w + 1))
        BY <3>1, <3>3, <4>2
      <4> QED
        BY <4>2, <4>3 DEF Carries
    <3>5. ASSUME NEW k \in 1..w
          PROVE  Carries(m, t + k, ws[k])'
      <4>2. PICK v : v = wire[m][k]
        OBVIOUS
      <4>3. Carries(m, t + k, v)'
        BY <2>5, <2>6, <2>4, <4>2
      <4> QED
        BY <3>1, <4>2, <4>3
    <3>6. ASSUME t > 0
          PROVE  Carries(m, t, rb)'
      <4>2. PICK v : v = recvBuf[m]
        OBVIOUS
      <4>3. Carries(m, t, v)'
        BY <2>5, <2>6, <3>6, <4>2
      <4> QED
        BY <3>2, <4>2, <4>3
    <3>7. \A k \in 1..w + 1 : k \in 1..w \/ k = w + 1
      BY <2>4
    <3> QED
      BY <3>1, <3>2, <3>4, <3>5, <3>6, <3>7
  <2>11. CASE /\ ~(Take(x) /\ d = x /\ j = at[x])
              /\ ~(SendLink(x) /\ m = OutLink(x) /\ m \in connected \cup up)
    <3>1. ws = wire[m] /\ rb = recvBuf[m]
      <4>1. CASE Take(x)
        <5>1. PICK l \in Link :
                /\ at[x] \in DOMAIN Ins(x) /\ l = Ins(x)[at[x]]
                /\ wire' = [wire EXCEPT ![l] = Tail(wire[l])]
                /\ recvBuf' = [recvBuf EXCEPT ![l] = wire[l][1]]
          BY <4>1, TakeMoves
        <5>2. m # l
          BY <1>0, <2>11, <2>1, <2>2, <4>1, <5>1, OneReader
        <5> QED
          BY <1>0, <2>8, <5>1, <5>2 DEF TypeOK
      <4>2. CASE SendLink(x)
        <5>1. PICK l \in Link :
                /\ l = OutLink(x)
                /\ \/ /\ l \in connected \cup up
                      /\ wire' = [wire EXCEPT ![l] = Append(wire[l], IF sys.zero THEN x ELSE round[x])]
                   \/ UNCHANGED wire
          BY <4>2, SendMoves
        <5>2. recvBuf' = recvBuf
          BY <4>2 DEF SendLink, rcv
        <5> QED
          BY <1>0, <2>11, <2>8, <4>2, <5>1, <5>2 DEF TypeOK
      <4>3. CASE ~Take(x) /\ ~SendLink(x)
        BY <2>8, <4>3, LinkMoves
      <4> QED
        BY <4>1, <4>2, <4>3
    <3>2. u = t
      BY <2>11, <2>1, <2>3, <2>8, TakeCount
    <3>5. ASSUME NEW k \in 1..w
          PROVE  Carries(m, t + k, ws[k])'
      <4>2. PICK v : v = wire[m][k]
        OBVIOUS
      <4>3. Carries(m, t + k, v)'
        BY <2>5, <2>6, <2>4, <4>2
      <4> QED
        BY <3>1, <4>2, <4>3
    <3>6. ASSUME t > 0
          PROVE  Carries(m, t, rb)'
      <4>2. PICK v : v = recvBuf[m]
        OBVIOUS
      <4>3. Carries(m, t, v)'
        BY <2>5, <2>6, <3>6, <4>2
      <4> QED
        BY <3>1, <4>2, <4>3
    <3> QED
      BY <2>4, <3>1, <3>2, <3>5, <3>6
  <2> QED
    BY <2>9, <2>10, <2>11
<1> QED
  BY <1>0, <1>1 DEF InOrder

-----------------------------------------------------------------------------
(* Who holds the message of a link.                                        *)

LEMMA NotReceiving ==
  ASSUME RoundsInv, NEW x \in Component, Step(x), ~RecvLink(x), ~Take(x)
  PROVE  /\ armed' = armed
         /\ pc[x] \notin {"recv", "take"} /\ pc'[x] # "take"
         /\ pc'[x] = "recv" => at'[x] = Len(Ins(x))
<1>0. TypeOK
  BY DEF RoundsInv
<1>1. CASE Listen(x) \/ Begin(x)
  BY <1>0, <1>1, Moved, NextRoundGoes DEF Listen, Begin, rcv
<1>2. CASE Visit(x)
  BY <1>0, <1>2, Moved, NextRoundGoes DEF Visit
<1>3. CASE NotifySend(x) \/ NotifyRecv(x)
  BY <1>0, <1>3, Moved, NextRoundGoes DEF NotifySend, NotifyRecv, rcv
<1>4. CASE Write(x)
  BY <1>0, <1>4, Moved DEF Write, rcv
<1>5. CASE SendLink(x)
  <2>1. armed' = armed /\ pc[x] = "send" /\ (pc'[x] = "sent" \/ Served(x))
    BY <1>0, <1>5, Moved DEF SendLink, rcv
  <2> QED
    BY <1>0, <2>1, ServedGoes
<1>6. CASE SendReturns(x)
  <2>1. armed' = armed /\ pc[x] = "sent" /\ Served(x)
    BY <1>6 DEF SendReturns, rcv
  <2> QED
    BY <1>0, <2>1, ServedGoes
<1> QED
  BY <1>1, <1>2, <1>3, <1>4, <1>5, <1>6 DEF Step

LEMMA ArmedStep ==
  ASSUME RoundsInv, NEW x \in Component, Step(x)
  PROVE  Armed'
<1>1. /\ TypeOK /\ Placed /\ sys' = sys
      /\ \A c : Ins(c)' = Ins(c)
  BY OnlyOwn, SamePlan DEF RoundsInv
<1> SUFFICES ASSUME sys.notify = "autonotify", NEW d \in Component, NEW j \in DOMAIN Ins(d)
             PROVE  Taken(d, j)' > 0 \/ (pc'[d] = "take" /\ at'[d] = j) <=> Ins(d)[j] \in armed'
  BY <1>1 DEF Armed
<1>2. Taken(d, j) > 0 \/ (pc[d] = "take" /\ at[d] = j) <=> Ins(d)[j] \in armed
  BY DEF RoundsInv, Armed
<1>3. d # x => pc'[d] = pc[d] /\ at'[d] = at[d]
  BY <1>1, OnlyOwn
<1>4. CASE RecvLink(x)
  <2>1. /\ at[x] \in DOMAIN Ins(x) /\ InLink(x) = Ins(x)[at[x]]
        /\ pc[x] = "recv" /\ pc'[x] = "take" /\ at'[x] = at[x]
        /\ armed' = armed \cup {InLink(x)} /\ ~Take(x)
    BY <1>1, <1>4, ServedLink, Moved DEF RecvLink, Take
  <2>2. Taken(d, j)' = Taken(d, j)
    BY <2>1, TakeCount
  <2>3. CASE d = x /\ j = at[x]
    BY <2>1, <2>3
  <2>4. CASE ~(d = x /\ j = at[x])
    <3>1. Ins(d)[j] # InLink(x)
      BY <1>1, <2>1, <2>4, OneReader
    <3> QED
      BY <1>2, <1>3, <2>1, <2>2, <2>4, <3>1
  <2> QED
    BY <2>3, <2>4
<1>5. CASE Take(x)
  <2>1. pc[x] = "take" /\ pc'[x] # "take" /\ armed' = armed
    BY <1>1, <1>5, Moved DEF Take
  <2>2. CASE d = x /\ j = at[x]
    <3>1. Taken(d, j)' = Taken(d, j) + 1 /\ Taken(d, j) \in Nat
      BY <1>5, <2>2, TakeCount
    <3>2. Taken(d, j)' > 0
      BY <3>1
    <3> QED
      BY <1>2, <2>1, <2>2, <3>2
  <2>3. CASE ~(d = x /\ j = at[x])
    <3>1. Taken(d, j)' = Taken(d, j)
      BY <2>3, TakeCount
    <3> QED
      BY <1>2, <1>3, <2>1, <2>3, <3>1
  <2> QED
    BY <2>2, <2>3
<1>6. CASE ~RecvLink(x) /\ ~Take(x)
  BY <1>2, <1>3, <1>6, NotReceiving, TakeCount
<1> QED
  BY <1>4, <1>5, <1>6

\* A message is held from Take to the acknowledgement: icom_notify_send, or the
\* next icom_recv.
LEMMA HeldAtStep ==
  ASSUME RoundsInv, NEW x \in Component, Step(x), sys.notify # "none",
         NEW d \in Component, NEW j \in DOMAIN Ins(d)
  PROVE  /\ d = x /\ j = at[x] /\ Take(x) => ~HeldAt(d, j) /\ HeldAt(d, j)'
         /\ d = x /\ j = at[x] /\ NotifySend(x) => HeldAt(d, j) /\ ~HeldAt(d, j)'
         /\ d = x /\ j = at[x] /\ RecvLink(x) /\ sys.notify = "autonotify" =>
              (HeldAt(d, j) <=> Ins(d)[j] \in armed) /\ ~HeldAt(d, j)'
         /\ \/ HeldAt(d, j)' <=> HeldAt(d, j)
            \/ /\ d = x /\ j = at[x]
               /\ Take(x) \/ NotifySend(x) \/ (RecvLink(x) /\ sys.notify = "autonotify")
<1>1. /\ TypeOK /\ Placed /\ Placed' /\ sys' = sys
      /\ Ins(d)' = Ins(d)
  BY PlacedStep, OnlyOwn, SamePlan DEF RoundsInv
<1>2. sys.notify = "notify" \/ sys.notify = "autonotify"
  BY <1>1, Flags
<1>3. /\ j \in 1..Len(Ins(d)) /\ Len(Ins(d)) \in Nat /\ at[x] \in Nat /\ at[x] >= 1
      /\ pc[x] = "notifySend" => sys.notify = "notify"
  BY <1>1, Links, Fields DEF Placed, PlacedAt
<1>4. sys.notify = "notify" =>
        /\ HeldAt(d, j) <=> \/ pc[d] \in {"recv", "take"} /\ at[d] < j
                            \/ pc[d] = "visit"
                            \/ pc[d] = "notifySend" /\ at[d] >= j
        /\ HeldAt(d, j)' <=> \/ pc'[d] \in {"recv", "take"} /\ at'[d] < j
                             \/ pc'[d] = "visit"
                             \/ pc'[d] = "notifySend" /\ at'[d] >= j
  BY <1>1 DEF HeldAt, Ahead
<1>5. sys.notify = "autonotify" =>
        /\ HeldAt(d, j) <=> Ins(d)[j] \in armed /\ ~(pc[d] = "take" /\ at[d] = j)
        /\ HeldAt(d, j)' <=> Ins(d)[j] \in armed' /\ ~(pc'[d] = "take" /\ at'[d] = j)
  BY <1>1 DEF HeldAt
<1>6. CASE Take(x)
  <2>0. ~NotifySend(x) /\ ~RecvLink(x)
    BY <1>6 DEF Take, NotifySend, RecvLink
  <2>1. /\ pc[x] = "take" /\ armed' = armed
        /\ \/ at[x] > 1 /\ pc'[x] = "recv" /\ at'[x] = at[x] - 1
           \/ at[x] = 1 /\ pc'[x] = "visit" /\ at'[x] = 1
    BY <1>1, <1>6, <1>3, Moved DEF Take
  <2>2. CASE d # x
    BY <1>1, <1>2, <1>4, <1>5, <2>0, <2>2, <2>1, OnlyOwn
  <2>3. CASE d = x /\ sys.notify = "notify"
    BY <1>1, <1>6, <1>4, <1>5, <1>3, <2>0, <2>1, <2>3
  <2>4. CASE d = x /\ sys.notify = "autonotify"
    <3>1. j = at[x] => Ins(d)[j] \in armed
      BY <2>1, <2>4 DEF RoundsInv, Armed
    <3> QED
      BY <1>1, <1>6, <1>4, <1>5, <1>3, <2>0, <2>1, <2>4, <3>1
  <2> QED
    BY <1>2, <2>2, <2>3, <2>4
<1>7. CASE NotifySend(x)
  <2>0. ~Take(x) /\ ~RecvLink(x)
    BY <1>7 DEF Take, NotifySend, RecvLink
  <2>1. /\ pc[x] = "notifySend" /\ sys.notify = "notify"
        /\ \/ at[x] > 1 /\ pc'[x] = "notifySend" /\ at'[x] = at[x] - 1
           \/ at[x] = 1 /\ pc'[x] = "write"
           \/ at[x] = 1 /\ pc'[x] = "recv" /\ at'[x] = Len(Ins(x))
    BY <1>1, <1>7, <1>3, Moved, NextRoundGoes DEF NotifySend
  <2>2. CASE d # x
    BY <1>1, <1>2, <1>4, <1>5, <2>0, <2>2, <2>1, OnlyOwn
  <2>3. CASE d = x
    BY <1>1, <1>7, <1>4, <1>5, <1>3, <2>0, <2>1, <2>3
  <2> QED
    BY <2>2, <2>3
<1>8. CASE RecvLink(x)
  <2>0. ~Take(x) /\ ~NotifySend(x)
    BY <1>8 DEF Take, NotifySend, RecvLink
  <2>1. /\ pc[x] = "recv" /\ pc'[x] = "take" /\ at'[x] = at[x]
        /\ sys.notify = "autonotify" => armed' = armed \cup {InLink(x)}
        /\ at[x] \in DOMAIN Ins(x) /\ InLink(x) = Ins(x)[at[x]]
    BY <1>1, <1>8, Moved, ServedLink DEF RecvLink
  <2>2. CASE sys.notify = "notify"
    BY <1>1, <1>2, <1>4, <1>5, <2>0, <2>2, <2>1, OnlyOwn
  <2>3. CASE sys.notify = "autonotify"
    <3>1. CASE d = x /\ j = at[x]
      BY <1>1, <1>8, <1>5, <2>0, <2>1, <2>3, <3>1
    <3>2. CASE ~(d = x /\ j = at[x])
      <4>1. Ins(d)[j] # InLink(x)
        BY <1>1, <2>1, <3>2, OneReader
      <4> QED
        BY <1>1, <1>5, <2>0, <2>1, <2>3, <3>2, <4>1, OnlyOwn
    <3> QED
      BY <3>1, <3>2
  <2> QED
    BY <1>2, <2>2, <2>3
<1>9. CASE ~Take(x) /\ ~NotifySend(x) /\ ~RecvLink(x)
  <2>1. /\ armed' = armed
        /\ pc[x] \notin {"recv", "take"} /\ pc'[x] # "take"
        /\ pc'[x] = "recv" => at'[x] = Len(Ins(x))
    BY <1>9, NotReceiving
  <2>2. CASE d # x
    BY <1>1, <1>2, <1>4, <1>5, <1>9, <2>1, <2>2, OnlyOwn
  <2>3. CASE d = x /\ sys.notify = "autonotify"
    BY <1>1, <1>2, <1>4, <1>5, <1>9, <2>1, <2>3
  <2>4. CASE d = x /\ sys.notify = "notify"
    <3>1. CASE Visit(x)
      <4>1. /\ pc[x] = "visit"
            /\ pc'[x] = "visit" \/ (pc'[x] = "notifySend" /\ at'[x] = Len(Ins(x)))
        BY <1>1, <2>4, <3>1, Moved DEF Visit
      <4> QED
        BY <1>1, <1>4, <1>5, <1>3, <1>9, <2>4, <4>1
    <3>2. CASE ~Visit(x)
      <4>1. /\ pc[x] \notin {"visit", "notifySend"} /\ pc'[x] \notin {"visit", "notifySend"}
        <5>1. CASE Listen(x) \/ Begin(x)
          BY <1>1, <5>1, Moved, NextRoundGoes DEF Listen, Begin
        <5>2. CASE NotifyRecv(x)
          BY <1>1, <5>2, Moved, NextRoundGoes DEF NotifyRecv
        <5>3. CASE Write(x)
          BY <1>1, <5>3, Moved DEF Write
        <5>4. CASE SendLink(x)
          <6>1. pc[x] = "send" /\ (pc'[x] = "sent" \/ Served(x))
            BY <1>1, <5>4, Moved DEF SendLink
          <6> QED
            BY <1>1, <6>1, ServedGoes
        <5>5. CASE SendReturns(x)
          <6>1. pc[x] = "sent" /\ Served(x)
            BY <5>5 DEF SendReturns
          <6> QED
            BY <1>1, <6>1, ServedGoes
        <5> QED
          BY <1>9, <3>2, <5>1, <5>2, <5>3, <5>4, <5>5 DEF Step
      <4> QED
        BY <1>1, <1>4, <1>5, <1>3, <1>9, <2>1, <2>4, <4>1
    <3> QED
      BY <3>1, <3>2
  <2> QED
    BY <1>2, <2>2, <2>3, <2>4
<1> QED
  BY <1>6, <1>7, <1>8, <1>9

LEMMA NotSending ==
  ASSUME RoundsInv, NEW x \in Component, Step(x),
         ~SendLink(x), ~SendReturns(x), ~NotifyRecv(x), ~Write(x)
  PROVE  /\ pc[x] \notin {"send", "sent", "notifyRecv"}
         /\ pc'[x] \notin {"send", "sent", "notifyRecv"}
<1>0. TypeOK
  BY DEF RoundsInv
<1>1. CASE Listen(x) \/ Begin(x)
  BY <1>0, <1>1, Moved, NextRoundGoes DEF Listen, Begin
<1>2. CASE RecvLink(x) \/ Take(x)
  BY <1>0, <1>2, Moved DEF RecvLink, Take
<1>3. CASE Visit(x)
  BY <1>0, <1>3, Moved, NextRoundGoes DEF Visit
<1>4. CASE NotifySend(x)
  BY <1>0, <1>4, Moved, NextRoundGoes DEF NotifySend
<1> QED
  BY <1>1, <1>2, <1>3, <1>4 DEF Step

\* An acknowledgement is awaited from SendLink until icom_send (autonotify) or
\* icom_notify_recv has it.
LEMMA AwaitedAtStep ==
  ASSUME RoundsInv, NEW x \in Component, Step(x), sys.notify # "none",
         NEW c \in Component, NEW i \in DOMAIN Outs(c)
  PROVE  /\ c = x /\ i = at[x] /\ SendLink(x) =>
              ~AwaitedAt(c, i) /\ (AwaitedAt(c, i)' <=> OutLink(x) \in connected \cup up)
         /\ c = x /\ i = at[x] /\ SendReturns(x) /\ sys.notify = "autonotify" =>
              AwaitedAt(c, i) /\ ~AwaitedAt(c, i)'
         /\ c = x /\ i = at[x] /\ NotifyRecv(x) =>
              (AwaitedAt(c, i) <=> OutLink(x) \in connected) /\ ~AwaitedAt(c, i)'
         /\ \/ AwaitedAt(c, i)' <=> AwaitedAt(c, i)
            \/ /\ c = x /\ i = at[x]
               /\ \/ SendLink(x) \/ NotifyRecv(x)
                  \/ SendReturns(x) /\ sys.notify = "autonotify"
<1>1. /\ TypeOK /\ Placed /\ Placed' /\ sys' = sys
      /\ Outs(c)' = Outs(c)
  BY PlacedStep, OnlyOwn, SamePlan DEF RoundsInv
<1>2. sys.notify = "notify" \/ sys.notify = "autonotify"
  BY <1>1, Flags
<1>3. /\ i \in 1..Len(Outs(c)) /\ Len(Outs(c)) \in Nat /\ at[x] \in Nat /\ at[x] >= 1
      /\ pc[x] = "notifyRecv" => sys.notify = "notify"
      /\ c = x /\ pc[x] \in {"sent", "notifyRecv"} => at[x] <= Len(Outs(c))
  BY <1>1, Links, Fields DEF Placed, PlacedAt
<1>4. sys.notify = "notify" =>
        /\ AwaitedAt(c, i) <=> /\ Outs(c)[i] \in connected
                               /\ \/ pc[c] = "send" /\ at[c] > i
                                  \/ pc[c] \in {"sent", "notifyRecv"} /\ at[c] >= i
        /\ AwaitedAt(c, i)' <=> /\ Outs(c)[i] \in connected'
                                /\ \/ pc'[c] = "send" /\ at'[c] > i
                                   \/ pc'[c] \in {"sent", "notifyRecv"} /\ at'[c] >= i
  BY <1>1 DEF AwaitedAt
<1>5. sys.notify = "autonotify" =>
        /\ AwaitedAt(c, i) <=> pc[c] = "sent" /\ at[c] = i
        /\ AwaitedAt(c, i)' <=> pc'[c] = "sent" /\ at'[c] = i
  BY <1>1 DEF AwaitedAt
<1>6. c # x => pc'[c] = pc[c] /\ at'[c] = at[c]
  BY <1>1, OnlyOwn
<1>7. CASE SendLink(x)
  <2>0. ~NotifyRecv(x) /\ ~SendReturns(x) /\ pc[x] = "send"
    BY <1>7 DEF NotifyRecv, SendReturns, SendLink
  <2>1. PICK l \in Link :
          /\ l = OutLink(x) /\ at[x] \in DOMAIN Outs(x) /\ l = Outs(x)[at[x]]
          /\ \/ /\ l \in connected \cup up
                /\ connected' = connected \cup {l}
                /\ pc'[x] = "sent" /\ at'[x] = at[x]
             \/ /\ l \notin connected \cup up
                /\ Served(x)
                /\ UNCHANGED connected
    BY <1>7, SendMoves
  <2>2. CASE c = x /\ i = at[x]
    <3>1. CASE l \in connected \cup up
      BY <1>1, <1>2, <1>4, <1>5, <1>3, <1>7, <2>0, <2>1, <2>2, <3>1
    <3>2. CASE l \notin connected \cup up
      <4>1. UNCHANGED connected /\ pc'[x] # "sent"
        BY <1>1, <2>1, <3>2, ServedGoes
      <4> QED
        BY <1>2, <1>4, <1>5, <1>3, <1>7, <2>0, <2>1, <2>2, <3>2, <4>1
    <3> QED
      BY <3>1, <3>2
  <2>3. CASE ~(c = x /\ i = at[x])
    <3>1. Outs(c)[i] # l
      BY <1>1, <2>1, <2>3, OneWriter
    <3>2. Outs(c)[i] \in connected' <=> Outs(c)[i] \in connected
      BY <2>1, <3>1
    <3>3. CASE c # x
      BY <1>2, <1>4, <1>5, <1>6, <2>0, <3>2, <3>3
    <3>4. CASE c = x /\ i # at[x]
      <4>1. CASE Served(x)
        BY <1>1, <1>2, <1>4, <1>5, <1>3, <2>0, <3>2, <3>4, <4>1, ServedGoes
      <4>2. CASE pc'[x] = "sent" /\ at'[x] = at[x]
        BY <1>2, <1>4, <1>5, <1>3, <2>0, <3>2, <3>4, <4>2
      <4> QED
        BY <2>1, <4>1, <4>2
    <3> QED
      BY <2>3, <3>3, <3>4
  <2> QED
    BY <2>2, <2>3
<1>8. CASE SendReturns(x)
  <2>0. ~NotifyRecv(x) /\ ~SendLink(x) /\ pc[x] = "sent" /\ Served(x) /\ connected' = connected
    BY <1>8 DEF NotifyRecv, SendReturns, SendLink
  <2>1. CASE c # x
    BY <1>2, <1>4, <1>5, <1>6, <2>0, <2>1
  <2>2. CASE c = x /\ sys.notify = "notify"
    BY <1>1, <1>4, <1>3, <2>0, <2>2, ServedGoes
  <2>3. CASE c = x /\ sys.notify = "autonotify"
    BY <1>1, <1>5, <1>3, <1>8, <2>0, <2>3, ServedGoes
  <2> QED
    BY <1>2, <2>1, <2>2, <2>3
<1>9. CASE NotifyRecv(x)
  <2>0. ~SendReturns(x) /\ ~SendLink(x) /\ pc[x] = "notifyRecv" /\ connected' = connected
    BY <1>9 DEF NotifyRecv, SendReturns, SendLink
  <2>1. \/ at[x] > 1 /\ pc'[x] = "notifyRecv" /\ at'[x] = at[x] - 1
        \/ at[x] = 1 /\ pc'[x] \in {"recv", "write"}
    BY <1>1, <1>3, <1>9, Moved, NextRoundGoes DEF NotifyRecv
  <2>2. CASE c # x
    BY <1>2, <1>4, <1>5, <1>6, <2>0, <2>2
  <2>3. CASE c = x
    <3>1. OutLink(x) = Outs(x)[at[x]]
      BY DEF OutLink
    <3> QED
      BY <1>4, <1>3, <1>9, <2>0, <2>1, <2>3, <3>1
  <2> QED
    BY <2>2, <2>3
<1>10. CASE Write(x)
  <2>0. /\ ~SendReturns(x) /\ ~SendLink(x) /\ ~NotifyRecv(x) /\ connected' = connected
        /\ pc[x] = "write" /\ pc'[x] = "send" /\ at'[x] = 1
    BY <1>1, <1>10, Moved DEF NotifyRecv, SendReturns, SendLink, Write, tcp
  <2> QED
    BY <1>2, <1>4, <1>5, <1>3, <1>6, <2>0
<1>11. CASE ~SendLink(x) /\ ~SendReturns(x) /\ ~NotifyRecv(x) /\ ~Write(x)
  <2>1. connected' = connected
    BY <1>11, LinkMoves
  <2> QED
    BY <1>2, <1>4, <1>5, <1>6, <1>11, <2>1, NotSending
<1> QED
  BY <1>7, <1>8, <1>9, <1>10, <1>11

\* A link is held, and awaited, at its one reader and its one writer.
LEMMA HeldThere ==
  ASSUME TypeOK, sys' = sys, NEW d \in Component, NEW j \in DOMAIN Ins(d), NEW m, m = Ins(d)[j]
  PROVE  (Held(m) <=> HeldAt(d, j)) /\ (Held(m)' <=> HeldAt(d, j)')
<1>1. \A c \in Component : \A i \in DOMAIN Ins(c) : Ins(c)[i] = m => c = d /\ i = j
  BY OneReader
<1>2. \A c : Ins(c)' = Ins(c)
  BY SamePlan
<1>3. Held(m) <=> HeldAt(d, j)
  BY <1>1 DEF Held
<1>4. Held(m)' <=> HeldAt(d, j)'
  BY <1>1, <1>2 DEF Held
<1> QED
  BY <1>3, <1>4

LEMMA AwaitedThere ==
  ASSUME TypeOK, sys' = sys, NEW c \in Component, NEW i \in DOMAIN Outs(c), NEW m, m = Outs(c)[i]
  PROVE  (Awaited(m) <=> AwaitedAt(c, i)) /\ (Awaited(m)' <=> AwaitedAt(c, i)')
<1>1. \A d \in Component : \A j \in DOMAIN Outs(d) : Outs(d)[j] = m => d = c /\ j = i
  BY OneWriter
<1>2. \A d : Outs(d)' = Outs(d)
  BY SamePlan
<1>3. Awaited(m) <=> AwaitedAt(c, i)
  BY <1>1 DEF Awaited
<1>4. Awaited(m)' <=> AwaitedAt(c, i)'
  BY <1>1, <1>2 DEF Awaited
<1> QED
  BY <1>3, <1>4

LEMMA HeldStep ==
  ASSUME RoundsInv, NEW x \in Component, Step(x), sys.notify # "none", NEW m \in Link
  PROVE  /\ Take(x) /\ m = InLink(x) => ~Held(m) /\ Held(m)'
         /\ NotifySend(x) /\ m = InLink(x) => Held(m) /\ ~Held(m)'
         /\ RecvLink(x) /\ sys.notify = "autonotify" /\ m = InLink(x) =>
              (Held(m) <=> m \in armed) /\ ~Held(m)'
         /\ \/ Held(m)' <=> Held(m)
            \/ /\ m = InLink(x)
               /\ Take(x) \/ NotifySend(x) \/ (RecvLink(x) /\ sys.notify = "autonotify")
<1>0. TypeOK /\ Placed /\ sys' = sys /\ \A c : Ins(c)' = Ins(c)
  BY OnlyOwn, SamePlan DEF RoundsInv
<1>1. CASE m = InLink(x) /\ (Take(x) \/ NotifySend(x) \/ RecvLink(x))
  <2>1. at[x] \in DOMAIN Ins(x) /\ m = Ins(x)[at[x]]
    BY <1>0, <1>1, ServedLink DEF Take, NotifySend, RecvLink
  <2>2. (Held(m) <=> HeldAt(x, at[x])) /\ \E i : i = at[x] /\ (Held(m)' <=> HeldAt(x, i)')
    <3>1. PICK i : i = at[x]
      OBVIOUS
    <3>2. i \in DOMAIN Ins(x) /\ m = Ins(x)[i]
      BY <2>1, <3>1
    <3> QED
      BY <1>0, <3>1, <3>2, HeldThere
  <2>3. PICK i : i = at[x] /\ i \in DOMAIN Ins(x) /\ m = Ins(x)[i]
                 /\ (Held(m) <=> HeldAt(x, i)) /\ (Held(m)' <=> HeldAt(x, i)')
    BY <2>1, <2>2
  <2> QED
    BY <1>1, <2>3, HeldAtStep
<1>2. CASE ~(m = InLink(x) /\ (Take(x) \/ NotifySend(x) \/ RecvLink(x)))
  <2>1. ASSUME NEW d \in Component, NEW j \in DOMAIN Ins(d), m = Ins(d)[j]
        PROVE  Held(m)' <=> Held(m)
    <3>1. ~(d = x /\ j = at[x]) \/ ~(Take(x) \/ NotifySend(x) \/ RecvLink(x))
      BY <1>2, <2>1 DEF InLink
    <3>2. HeldAt(d, j)' <=> HeldAt(d, j)
      BY <3>1, HeldAtStep
    <3> QED
      BY <1>0, <2>1, <3>2, HeldThere
  <2>2. CASE \A d \in Component : \A j \in DOMAIN Ins(d) : m # Ins(d)[j]
    <3>1. ~Held(m) /\ ~Held(m)'
      BY <1>0, <2>2 DEF Held
    <3> QED
      BY <1>2, <3>1
  <2> QED
    BY <1>2, <2>1, <2>2
<1> QED
  BY <1>1, <1>2

LEMMA AwaitedStep ==
  ASSUME RoundsInv, NEW x \in Component, Step(x), sys.notify # "none", NEW m \in Link
  PROVE  /\ SendLink(x) /\ m = OutLink(x) =>
              ~Awaited(m) /\ (Awaited(m)' <=> m \in connected \cup up)
         /\ SendReturns(x) /\ sys.notify = "autonotify" /\ m = OutLink(x) =>
              Awaited(m) /\ ~Awaited(m)'
         /\ NotifyRecv(x) /\ m = OutLink(x) => (Awaited(m) <=> m \in connected) /\ ~Awaited(m)'
         /\ \/ Awaited(m)' <=> Awaited(m)
            \/ /\ m = OutLink(x)
               /\ \/ SendLink(x) \/ NotifyRecv(x)
                  \/ SendReturns(x) /\ sys.notify = "autonotify"
<1>0. TypeOK /\ Placed /\ sys' = sys /\ \A c : Outs(c)' = Outs(c)
  BY OnlyOwn, SamePlan DEF RoundsInv
<1>1. CASE m = OutLink(x) /\ (SendLink(x) \/ NotifyRecv(x) \/ SendReturns(x))
  <2>1. at[x] \in DOMAIN Outs(x) /\ m = Outs(x)[at[x]]
    BY <1>0, <1>1, ServedLink DEF SendLink, NotifyRecv, SendReturns
  <2>2. PICK i : i = at[x] /\ i \in DOMAIN Outs(x) /\ m = Outs(x)[i]
    BY <2>1
  <2>3. (Awaited(m) <=> AwaitedAt(x, i)) /\ (Awaited(m)' <=> AwaitedAt(x, i)')
    BY <1>0, <2>2, AwaitedThere
  <2> QED
    BY <1>1, <2>2, <2>3, AwaitedAtStep
<1>2. CASE ~(m = OutLink(x) /\ (SendLink(x) \/ NotifyRecv(x) \/ SendReturns(x)))
  <2>1. ASSUME NEW c \in Component, NEW i \in DOMAIN Outs(c), m = Outs(c)[i]
        PROVE  Awaited(m)' <=> Awaited(m)
    <3>1. ~(c = x /\ i = at[x]) \/ ~(SendLink(x) \/ NotifyRecv(x) \/ SendReturns(x))
      BY <1>2, <2>1 DEF OutLink
    <3>2. AwaitedAt(c, i)' <=> AwaitedAt(c, i)
      BY <3>1, AwaitedAtStep
    <3> QED
      BY <1>0, <2>1, <3>2, AwaitedThere
  <2>2. CASE \A c \in Component : \A i \in DOMAIN Outs(c) : m # Outs(c)[i]
    <3>1. ~Awaited(m) /\ ~Awaited(m)'
      BY <1>0, <2>2 DEF Awaited
    <3> QED
      BY <1>2, <3>1
  <2> QED
    BY <1>2, <2>1, <2>2
<1> QED
  BY <1>1, <1>2

\* What goes onto the links and back.
LEMMA AckMoves ==
  ASSUME RoundsInv, NEW x \in Component, Step(x), NEW m \in Link
  PROVE  /\ NotifySend(x) /\ m = InLink(x) => acks'[m] = acks[m] + 1
         /\ RecvLink(x) /\ sys.notify = "autonotify" /\ m = InLink(x) =>
              acks'[m] = acks[m] + (IF m \in armed THEN 1 ELSE 0)
         /\ SendReturns(x) /\ sys.notify = "autonotify" /\ m = OutLink(x) =>
              acks[m] > 0 /\ acks'[m] = acks[m] - 1
         /\ NotifyRecv(x) /\ m \in connected /\ m = OutLink(x) =>
              acks[m] > 0 /\ acks'[m] = acks[m] - 1
         /\ \/ acks'[m] = acks[m]
            \/ m = InLink(x) /\ (NotifySend(x) \/ (RecvLink(x) /\ sys.notify = "autonotify"))
            \/ /\ m = OutLink(x)
               /\ (SendReturns(x) /\ sys.notify = "autonotify") \/ (NotifyRecv(x) /\ m \in connected)
<1>0. TypeOK
  BY DEF RoundsInv
<1>1. CASE RecvLink(x)
  <2>1. ~NotifySend(x) /\ ~SendReturns(x) /\ ~NotifyRecv(x)
    BY <1>1 DEF RecvLink, NotifySend, SendReturns, NotifyRecv
  <2>2. IF sys.notify = "autonotify"
        THEN acks' = [acks EXCEPT ![InLink(x)] = @ + (IF InLink(x) \in armed THEN 1 ELSE 0)]
        ELSE acks' = acks
    BY <1>1 DEF RecvLink
  <2>3. acks \in [Link -> Nat]
    BY <1>0 DEF TypeOK
  <2> QED
    BY <1>1, <2>1, <2>2, <2>3
<1>2. CASE NotifySend(x)
  <2>1. ~RecvLink(x) /\ ~SendReturns(x) /\ ~NotifyRecv(x)
    BY <1>2 DEF RecvLink, NotifySend, SendReturns, NotifyRecv
  <2>2. acks' = [acks EXCEPT ![InLink(x)] = @ + 1] /\ acks \in [Link -> Nat]
    BY <1>0, <1>2 DEF NotifySend, TypeOK
  <2> QED
    BY <1>2, <2>1, <2>2
<1>3. CASE SendReturns(x)
  <2>1. ~RecvLink(x) /\ ~NotifySend(x) /\ ~NotifyRecv(x)
    BY <1>3 DEF RecvLink, NotifySend, SendReturns, NotifyRecv
  <2>2. /\ IF sys.notify = "autonotify"
           THEN acks[OutLink(x)] > 0 /\ acks' = [acks EXCEPT ![OutLink(x)] = @ - 1]
           ELSE acks' = acks
        /\ acks \in [Link -> Nat]
    BY <1>0, <1>3 DEF SendReturns, TypeOK
  <2> QED
    BY <1>3, <2>1, <2>2
<1>4. CASE NotifyRecv(x)
  <2>1. ~RecvLink(x) /\ ~NotifySend(x) /\ ~SendReturns(x)
    BY <1>4 DEF RecvLink, NotifySend, SendReturns, NotifyRecv
  <2>2. /\ IF OutLink(x) \in connected
           THEN acks[OutLink(x)] > 0 /\ acks' = [acks EXCEPT ![OutLink(x)] = @ - 1]
           ELSE acks' = acks
        /\ acks \in [Link -> Nat]
    BY <1>0, <1>4 DEF NotifyRecv, TypeOK
  <2> QED
    BY <1>4, <2>1, <2>2
<1>5. CASE ~RecvLink(x) /\ ~NotifySend(x) /\ ~SendReturns(x) /\ ~NotifyRecv(x)
  <2>1. acks' = acks
    BY <1>0, <1>5 DEF Step, Listen, Begin, Take, Visit, Write, SendLink, tcp
  <2> QED
    BY <1>5, <2>1
<1> QED
  BY <1>1, <1>2, <1>3, <1>4, <1>5

LEMMA WireMoves ==
  ASSUME RoundsInv, NEW x \in Component, Step(x), NEW m \in Link
  PROVE  /\ Take(x) /\ m = InLink(x) => Len(wire[m]) > 0 /\ Len(wire'[m]) = Len(wire[m]) - 1
         /\ SendLink(x) /\ m = OutLink(x) /\ m \in connected \cup up =>
              Len(wire'[m]) = Len(wire[m]) + 1
         /\ \/ wire'[m] = wire[m]
            \/ Take(x) /\ m = InLink(x)
            \/ SendLink(x) /\ m = OutLink(x) /\ m \in connected \cup up
<1>0. TypeOK
  BY DEF RoundsInv
<1>1. CASE Take(x)
  <2>1. ~SendLink(x)
    BY <1>1 DEF Take, SendLink
  <2>2. PICK l \in Link :
          /\ l = InLink(x) /\ Len(wire[l]) > 0
          /\ wire' = [wire EXCEPT ![l] = Tail(wire[l])]
          /\ Len(wire'[l]) = Len(wire[l]) - 1
    BY <1>1, TakeMoves
  <2> QED
    BY <1>0, <1>1, <2>1, <2>2 DEF TypeOK
<1>2. CASE SendLink(x)
  <2>1. ~Take(x)
    BY <1>2 DEF Take, SendLink
  <2>2. PICK l \in Link :
          /\ l = OutLink(x)
          /\ \/ /\ l \in connected \cup up
                /\ wire' = [wire EXCEPT ![l] = Append(wire[l], IF sys.zero THEN x ELSE round[x])]
                /\ Len(wire'[l]) = Len(wire[l]) + 1
             \/ l \notin connected \cup up /\ UNCHANGED wire
    BY <1>2, SendMoves
  <2> QED
    BY <1>0, <1>2, <2>1, <2>2 DEF TypeOK
<1>3. CASE ~Take(x) /\ ~SendLink(x)
  BY <1>3, LinkMoves
<1> QED
  BY <1>1, <1>2, <1>3

LEMMA TokenStep ==
  ASSUME RoundsInv, NEW x \in Component, Step(x)
  PROVE  Token'
<1>1. TypeOK /\ TypeOK' /\ Placed /\ sys' = sys
  BY TypeStep, OnlyOwn DEF RoundsInv
<1> SUFFICES ASSUME sys.notify # "none", NEW m \in Link
             PROVE  /\ Held(m)' => Awaited(m)'
                    /\ Len(wire'[m]) + acks'[m] = IF Awaited(m)' /\ ~Held(m)' THEN 1 ELSE 0
  BY <1>1 DEF Token
<1>2. /\ Held(m) => Awaited(m)
      /\ Len(wire[m]) + acks[m] = IF Awaited(m) /\ ~Held(m) THEN 1 ELSE 0
  BY DEF RoundsInv, Token
<1>3. Len(wire[m]) \in Nat /\ acks[m] \in Nat
  BY <1>1, Wires
<1>4. CASE Take(x) /\ m = InLink(x)
  <2>1. /\ ~NotifySend(x) /\ ~RecvLink(x) /\ ~SendReturns(x) /\ ~NotifyRecv(x) /\ ~SendLink(x)
    BY <1>4 DEF Take, NotifySend, RecvLink, SendReturns, NotifyRecv, SendLink
  <2>2. /\ ~Held(m) /\ Held(m)' /\ (Awaited(m)' <=> Awaited(m)) /\ acks'[m] = acks[m]
        /\ Len(wire[m]) > 0 /\ Len(wire'[m]) = Len(wire[m]) - 1
    BY <1>4, <2>1, HeldStep, AwaitedStep, AckMoves, WireMoves
  <2> QED
    BY <1>2, <1>3, <2>2
<1>5. CASE NotifySend(x) /\ m = InLink(x)
  <2>1. /\ ~Take(x) /\ ~RecvLink(x) /\ ~SendReturns(x) /\ ~NotifyRecv(x) /\ ~SendLink(x)
    BY <1>5 DEF Take, NotifySend, RecvLink, SendReturns, NotifyRecv, SendLink
  <2>2. /\ Held(m) /\ ~Held(m)' /\ (Awaited(m)' <=> Awaited(m)) /\ acks'[m] = acks[m] + 1
        /\ wire'[m] = wire[m]
    BY <1>5, <2>1, HeldStep, AwaitedStep, AckMoves, WireMoves
  <2> QED
    BY <1>2, <1>3, <2>2
<1>6. CASE RecvLink(x) /\ m = InLink(x) /\ sys.notify = "autonotify"
  <2>1. /\ ~Take(x) /\ ~NotifySend(x) /\ ~SendReturns(x) /\ ~NotifyRecv(x) /\ ~SendLink(x)
    BY <1>6 DEF Take, NotifySend, RecvLink, SendReturns, NotifyRecv, SendLink
  <2>2. /\ ~Held(m)' /\ (Awaited(m)' <=> Awaited(m))
        /\ acks'[m] = acks[m] + (IF Held(m) THEN 1 ELSE 0)
        /\ wire'[m] = wire[m]
    BY <1>6, <2>1, HeldStep, AwaitedStep, AckMoves, WireMoves
  <2> QED
    BY <1>2, <1>3, <2>2
<1>7. CASE SendLink(x) /\ m = OutLink(x)
  <2>1. /\ ~Take(x) /\ ~NotifySend(x) /\ ~SendReturns(x) /\ ~NotifyRecv(x) /\ ~RecvLink(x)
    BY <1>7 DEF Take, NotifySend, RecvLink, SendReturns, NotifyRecv, SendLink
  <2>2. /\ ~Awaited(m) /\ (Awaited(m)' <=> m \in connected \cup up)
        /\ (Held(m)' <=> Held(m))
        /\ acks'[m] = acks[m]
        /\ IF m \in connected \cup up THEN Len(wire'[m]) = Len(wire[m]) + 1 ELSE wire'[m] = wire[m]
    BY <1>7, <2>1, HeldStep, AwaitedStep, AckMoves, WireMoves
  <2> QED
    BY <1>2, <1>3, <2>2
<1>8. CASE SendReturns(x) /\ m = OutLink(x) /\ sys.notify = "autonotify"
  <2>1. /\ ~Take(x) /\ ~NotifySend(x) /\ ~SendLink(x) /\ ~NotifyRecv(x) /\ ~RecvLink(x)
    BY <1>8 DEF Take, NotifySend, RecvLink, SendReturns, NotifyRecv, SendLink
  <2>2. /\ Awaited(m) /\ ~Awaited(m)' /\ (Held(m)' <=> Held(m))
        /\ acks[m] > 0 /\ acks'[m] = acks[m] - 1 /\ wire'[m] = wire[m]
    BY <1>8, <2>1, HeldStep, AwaitedStep, AckMoves, WireMoves
  <2> QED
    BY <1>2, <1>3, <2>2
<1>9. CASE NotifyRecv(x) /\ m = OutLink(x)
  <2>1. /\ ~Take(x) /\ ~NotifySend(x) /\ ~SendLink(x) /\ ~SendReturns(x) /\ ~RecvLink(x)
    BY <1>9 DEF Take, NotifySend, RecvLink, SendReturns, NotifyRecv, SendLink
  <2>2. /\ (Awaited(m) <=> m \in connected) /\ ~Awaited(m)' /\ (Held(m)' <=> Held(m))
        /\ IF m \in connected THEN acks[m] > 0 /\ acks'[m] = acks[m] - 1 ELSE acks'[m] = acks[m]
        /\ wire'[m] = wire[m]
    BY <1>9, <2>1, HeldStep, AwaitedStep, AckMoves, WireMoves
  <2> QED
    BY <1>2, <1>3, <2>2
<1>10. CASE /\ ~(m = InLink(x) /\ \/ Take(x) \/ NotifySend(x)
                                  \/ RecvLink(x) /\ sys.notify = "autonotify")
            /\ ~(m = OutLink(x) /\ \/ SendLink(x) \/ NotifyRecv(x)
                                   \/ SendReturns(x) /\ sys.notify = "autonotify")
  <2>1. /\ Held(m)' <=> Held(m)
        /\ Awaited(m)' <=> Awaited(m)
        /\ acks'[m] = acks[m] /\ wire'[m] = wire[m]
    BY <1>10, HeldStep, AwaitedStep, AckMoves, WireMoves
  <2> QED
    BY <1>2, <2>1
<1> QED
  BY <1>4, <1>5, <1>6, <1>7, <1>8, <1>9, <1>10

-----------------------------------------------------------------------------
(* Receivers that listen in time.                                          *)

LEMMA SameInTime ==
  ASSUME sys' = sys
  PROVE  InTime' <=> InTime
<1>1. {Elems(Outs(c)) : c \in Component}' = {Elems(Outs(c)) : c \in Component}
  BY SamePlan
<1>2. {Elems(Ins(d)) : d \in Component}' = {Elems(Ins(d)) : d \in Component}
  BY SamePlan
<1> QED
  BY <1>1, <1>2 DEF InTime

\* A component that begins has waited for all listeners.
LEMMA BegunBehindListeners ==
  ASSUME RoundsInv, NEW x \in Component, Step(x), InTime, pc'[x] # "init", NEW d \in Component
  PROVE  Elems(Ins(d)) \subseteq up
<1>1. CASE pc[x] # "init"
  BY <1>1 DEF RoundsInv, NoneRefused
<1>2. CASE Listen(x)
  <2>1. Goto(x, "init", at[x] + 1)
    BY <1>2 DEF Listen
  <2> QED
    BY <2>1, Moved DEF RoundsInv
<1>3. CASE Begin(x)
  <2>1. UNION {Elems(Ins(e)) : e \in Component} \subseteq up
    BY <1>3 DEF Begin, InTime
  <2> QED
    BY <2>1
<1>4. CASE pc[x] = "init" /\ ~Listen(x) /\ ~Begin(x)
  BY <1>4 DEF Step, RecvLink, Take, Visit, NotifySend, Write, SendLink, SendReturns, NotifyRecv
<1> QED
  BY <1>1, <1>2, <1>3, <1>4

LEMMA NoneRefusedStep ==
  ASSUME RoundsInv, NEW x \in Component, Step(x)
  PROVE  NoneRefused'
<1> SUFFICES ASSUME InTime'
             PROVE  /\ \A c, d \in Component : pc'[c] # "init" => Elems(Ins(d))' \subseteq up'
                    /\ \A l \in Link : refused'[l] = 0
  BY DEF NoneRefused
<1>0. TypeOK /\ Placed /\ NoneRefused
  BY DEF RoundsInv
<1>1. sys' = sys /\ InTime
  BY <1>0, OnlyOwn, SameInTime
<1>2. up \subseteq up'
  BY LinkMoves DEF Listen
<1>3. ASSUME NEW c \in Component, NEW d \in Component, pc'[c] # "init"
      PROVE  Elems(Ins(d))' \subseteq up'
  <2>1. Elems(Ins(d)) \subseteq up
    <3>1. CASE c = x
      BY <1>1, <1>3, <3>1, BegunBehindListeners
    <3>2. CASE c # x
      <4>1. pc[c] # "init"
        BY <1>0, <1>3, <3>2, OnlyOwn
      <4> QED
        BY <1>0, <1>1, <4>1 DEF NoneRefused
    <3> QED
      BY <3>1, <3>2
  <2>2. Elems(Ins(d))' = Elems(Ins(d))
    BY <1>1, SamePlan
  <2> QED
    BY <1>2, <2>1, <2>2
<1>4. UNCHANGED refused
  <2>1. CASE SendLink(x)
    <3>1. PICK l \in Link :
            /\ at[x] \in DOMAIN Outs(x) /\ l = Outs(x)[at[x]]
            /\ UNCHANGED refused \/ l \notin connected \cup up
      BY <2>1, SendMoves
    <3>2. l \in UNION {Elems(Outs(c)) : c \in Component}
      BY <3>1 DEF Elems
    <3>3. PICK d \in Component : l \in Elems(Ins(d))
      BY <1>1, <3>2 DEF InTime
    <3>4. pc[x] # "init"
      BY <2>1 DEF SendLink
    <3>5. l \in up
      BY <1>0, <1>1, <3>3, <3>4 DEF NoneRefused
    <3> QED
      BY <3>1, <3>5
  <2>2. CASE ~SendLink(x)
    BY <2>2, LinkMoves
  <2> QED
    BY <2>1, <2>2
<1> QED
  BY <1>0, <1>1, <1>3, <1>4 DEF NoneRefused

-----------------------------------------------------------------------------
(* The invariant.                                                          *)

LEMMA RoundsInit ==
  ASSUME Init
  PROVE  RoundsInv
<1>1. TypeOK
  <2>1. <<>> \in Seq(Nat \cup Component) /\ <<>> \in Seq(Seq(Nat))
    BY EmptySeq
  <2> QED
    BY <2>1, ObjectAssumption DEF Init, TypeOK, Pc
<1>2. \A c \in Component : pc[c] = "init" /\ at[c] = 1 /\ round[c] = 0 /\ seen[c] = <<>>
  BY DEF Init
<1>3. \A l \in Link : wire[l] = <<>> /\ Len(wire[l]) = 0 /\ acks[l] = 0 /\ put[l] = 0 /\ refused[l] = 0
  BY EmptySeq DEF Init
<1>4. \A c \in Component : \A j : Taken(c, j) = 0 /\ ~Ahead(c, j) /\ ~Unserved(c, j)
  BY <1>2, EmptySeq DEF Taken, Ahead, Unserved
<1>5. Placed
  BY <1>2, EmptySeq DEF Placed, PlacedAt
<1>6. InRound
  <2>1. \A c \in Component : \A i \in DOMAIN Outs(c) : Outs(c)[i] \in Link
    BY <1>1, Links
  <2>2. connected = {}
    BY DEF Init
  <2> QED
    BY <1>2, <1>3, <1>4, <2>1, <2>2 DEF InRound
<1>11. NoneRefused
  BY <1>2, <1>3 DEF NoneRefused
<1>7. OnTheWay
  <2>1. \A c \in Component : \A i \in DOMAIN Ins(c) : Ins(c)[i] \in Link
    BY <1>1, Links
  <2>2. connected = {} /\ up = {}
    BY DEF Init
  <2> QED
    BY <1>3, <1>4, <2>1, <2>2 DEF OnTheWay
<1>8. InOrder
  <2>1. \A c \in Component : \A i \in DOMAIN Ins(c) : Ins(c)[i] \in Link
    BY <1>1, Links
  <2> QED
    BY <1>3, <1>4, <2>1 DEF InOrder
<1>9. Token
  <2>1. armed = {} /\ connected = {}
    BY DEF Init
  <2>2. \A l \in Link : ~Held(l) /\ ~Awaited(l)
    BY <1>2, <1>4, <2>1 DEF Held, Awaited, HeldAt, AwaitedAt
  <2> QED
    BY <1>3, <2>2 DEF Token
<1>10. Armed
  BY <1>2, <1>4 DEF Init, Armed
<1> QED
  BY <1>1, <1>5, <1>6, <1>7, <1>8, <1>9, <1>10, <1>11 DEF RoundsInv

LEMMA RoundsStep ==
  ASSUME RoundsInv, NEW x \in Component, Step(x)
  PROVE  RoundsInv'
  BY TypeStep, PlacedStep, InRoundStep, NoneRefusedStep, OnTheWayStep, InOrderStep, TokenStep, ArmedStep
     DEF RoundsInv

LEMMA RoundsStutter ==
  ASSUME RoundsInv, UNCHANGED vars
  PROVE  RoundsInv'
<1>0. /\ UNCHANGED <<sys, pc, at, up, connected, armed, wire, acks, recvBuf, round, cur, seen, put, refused>>
  BY DEF vars, prog, tcp, rcv, hist
<1>1. \A c : /\ Ins(c)' = Ins(c) /\ Outs(c)' = Outs(c)
             /\ Elems(Ins(c))' = Elems(Ins(c)) /\ Elems(Outs(c))' = Elems(Outs(c))
  BY <1>0, SamePlan
<1>2. ASSUME NEW c \in Component, NEW j
      PROVE  /\ Unserved(c, j)' <=> Unserved(c, j)
             /\ Ahead(c, j)' <=> Ahead(c, j)
             /\ Taken(c, j)' = Taken(c, j)
             /\ HeldAt(c, j)' <=> HeldAt(c, j)
             /\ AwaitedAt(c, j)' <=> AwaitedAt(c, j)
  <2>1. (Unserved(c, j)' <=> Unserved(c, j)) /\ (Ahead(c, j)' <=> Ahead(c, j))
    BY <1>0 DEF Unserved, Ahead
  <2>2. Taken(c, j)' = Taken(c, j)
    BY <1>0, <2>1 DEF Taken
  <2>3. HeldAt(c, j)' <=> HeldAt(c, j)
    BY <1>0, <1>1, <2>1 DEF HeldAt
  <2>4. AwaitedAt(c, j)' <=> AwaitedAt(c, j)
    BY <1>0, <1>1 DEF AwaitedAt
  <2> QED
    BY <2>1, <2>2, <2>3, <2>4
<1>3. ASSUME NEW l
      PROVE  (Held(l)' <=> Held(l)) /\ (Awaited(l)' <=> Awaited(l))
  BY <1>1, <1>2 DEF Held, Awaited
<1>4. ASSUME NEW l, NEW n, NEW v
      PROVE  Carries(l, n, v)' <=> Carries(l, n, v)
  BY <1>0, <1>1 DEF Carries
<1>5. TypeOK'
  BY <1>0 DEF RoundsInv, TypeOK
<1>6. Placed'
  BY <1>0, <1>1 DEF RoundsInv, Placed, PlacedAt
<1>7. InRound'
  BY <1>0, <1>1, <1>2 DEF RoundsInv, InRound, OutLink
<1>12. NoneRefused'
  BY <1>0, <1>1, SameInTime DEF RoundsInv, NoneRefused
<1>8. OnTheWay'
  BY <1>0, <1>1, <1>2 DEF RoundsInv, OnTheWay
<1>9. InOrder'
  BY <1>0, <1>1, <1>2, <1>4 DEF RoundsInv, InOrder
<1>10. Token'
  BY <1>0, <1>3 DEF RoundsInv, Token
<1>11. Armed'
  BY <1>0, <1>1, <1>2 DEF RoundsInv, Armed
<1> QED
  BY <1>5, <1>6, <1>7, <1>8, <1>9, <1>10, <1>11, <1>12 DEF RoundsInv

\* From any state of the objects: one step of one component, or none.
LEMMA RoundsNext ==
  ASSUME RoundsInv, [Next]_vars
  PROVE  RoundsInv'
  BY RoundsStep, RoundsStutter DEF Next

\* Where the components stand, what their links have carried and who holds the
\* message of each link agree at all times, in every system.
THEOREM RoundsCorrect == Spec => []RoundsInv
<1>1. Init => RoundsInv
  BY RoundsInit
<1>2. RoundsInv /\ [Next]_vars => RoundsInv'
  BY RoundsNext
<1> QED
  BY <1>1, <1>2, PTL DEF Spec

\* Every variable keeps its type, and the loops of icom_init, icom_send,
\* icom_recv, icom_notify_send and icom_notify_recv stay within the array of the
\* object's links wherever their handlers index it (Placed), for every system,
\* every number of components and links.
THEOREM ObjectTypeCorrect == Spec => [](TypeOK /\ Placed)
<1>1. RoundsInv => TypeOK /\ Placed
  BY DEF RoundsInv
<1> QED
  BY <1>1, RoundsCorrect, PTL

\* No acknowledgement is given twice or used twice (icom_notify_send and
\* icom_notify_recv, link_sendAck and link_recvAck behind every object).
THEOREM OneInFlightCorrect == Spec => []OneInFlight
<1>1. RoundsInv => OneInFlight
  BY DEF RoundsInv, Token, OneInFlight
<1> QED
  BY <1>1, RoundsCorrect, PTL

-----------------------------------------------------------------------------
(* What the traversals read.                                               *)

\* The beginning of a sequence, one element at a time.
LEMMA ReadOn ==
  ASSUME NEW s \in Seq(Nat), NEW n \in Nat, n <= Len(s)
  PROVE  /\ SubSeq(s, 1, 0) = <<>>
         /\ n = Len(s) => SubSeq(s, 1, n) = s
         /\ n < Len(s) => Append(SubSeq(s, 1, n), s[n + 1]) = SubSeq(s, 1, n + 1)
<1>0. Len(s) \in Nat
  BY LenProperties
<1>1. CASE n < Len(s)
  <2>1. \A i \in 1..n + 1 : s[i] \in Nat
    BY <1>0, <1>1, ElementOfSeq
  <2>2. /\ SubSeq(s, 1, n) \in Seq(Nat) /\ Len(SubSeq(s, 1, n)) = n
        /\ \A i \in 1..n : SubSeq(s, 1, n)[i] = s[i]
    <3>1. \A i \in 1..n : s[i] \in Nat
      BY <2>1
    <3> QED
      BY <3>1, SubSeqProperties
  <2>3. /\ SubSeq(s, 1, n + 1) \in Seq(Nat) /\ Len(SubSeq(s, 1, n + 1)) = n + 1
        /\ \A i \in 1..n + 1 : SubSeq(s, 1, n + 1)[i] = s[i]
    BY <2>1, SubSeqProperties
  <2>4. PICK t : t = Append(SubSeq(s, 1, n), s[n + 1])
    OBVIOUS
  <2>5. /\ t \in Seq(Nat) /\ Len(t) = n + 1
        /\ \A i \in 1..n : t[i] = s[i]
        /\ t[n + 1] = s[n + 1]
    BY <2>1, <2>2, <2>4, AppendProperties
  <2>6. t = SubSeq(s, 1, n + 1)
    <3>1. PICK v \in Seq(Nat) : v = SubSeq(s, 1, n + 1)
      BY <2>3
    <3>2. Len(v) = n + 1 /\ \A i \in 1..n + 1 : v[i] = s[i]
      BY <2>3, <3>1
    <3>3. \A i \in 1..n + 1 : t[i] = v[i]
      BY <2>5, <3>2
    <3> QED
      BY <2>5, <3>1, <3>2, <3>3, SeqEqual
  <2> QED
    BY <1>1, <2>4, <2>6, SubSeqEmpty
<1>2. CASE n = Len(s)
  BY <1>2, SubSeqFull, SubSeqEmpty
<1> QED
  BY <1>0, <1>1, <1>2

LEMMA ExpectedSeq ==
  ASSUME TypeOK, NEW c \in Component, NEW k \in Nat
  PROVE  /\ Expected(c, k) \in Seq(Nat) /\ Len(Expected(c, k)) = Len(Ins(c))
         /\ \A i \in DOMAIN Ins(c) : Expected(c, k)[i] = refused[Ins(c)[i]] + k
<1>1. PICK n \in Nat : n = Len(Ins(c)) /\ DOMAIN Ins(c) = 1..n
  BY Links
<1>2. \A i \in 1..n : refused[Ins(c)[i]] + k \in Nat
  BY <1>1, Links, Wires
<1>3. Expected(c, k) \in [1..n -> Nat]
  BY <1>1, <1>2 DEF Expected
<1>4. Expected(c, k) \in Seq(Nat) /\ Len(Expected(c, k)) = n
  BY <1>3
<1> QED
  BY <1>1, <1>4 DEF Expected

LEMMA ExpectedStays ==
  ASSUME RoundsInv, NEW x \in Component, Step(x), NEW c \in Component, NEW k,
         Len(seen[c]) > 0
  PROVE  Expected(c, k)' = Expected(c, k)
<1>0. TypeOK /\ Ins(c)' = Ins(c)
  BY OnlyOwn, SamePlan DEF RoundsInv
<1>1. \A i \in DOMAIN Ins(c) : refused'[Ins(c)[i]] = refused[Ins(c)[i]]
  <2>1. \A i \in DOMAIN Ins(c) : Taken(c, i) > 0
    BY <1>0, Fields DEF Taken
  <2> QED
    BY <2>1, RefusedStays
<1> QED
  BY <1>0, <1>1 DEF Expected

\* With zero-copy, while the receiver has a message it has not acknowledged the
\* sender is still in the round it sent with it.
LEMMA SourceWaits ==
  ASSUME RoundsInv, sys.notify # "none", NEW c \in Component, pc[c] = "visit",
         NEW j \in DOMAIN Ins(c), NEW s \in Component, Ins(c)[j] \in Elems(Outs(s)),
         Len(seen[c]) > 0
  PROVE  round[s] = refused[Ins(c)[j]] + Len(seen[c])
<1>1. TypeOK /\ Placed /\ Armed /\ InRound /\ OnTheWay /\ Token
  BY DEF RoundsInv
<1>2. sys.notify = "notify" \/ sys.notify = "autonotify"
  BY <1>1, Flags
<1>3. PICK l \in Link : l = Ins(c)[j]
  BY <1>1, Links
<1>4. PICK n \in Nat : n = Len(seen[c]) /\ n = Taken(c, j) /\ n > 0
  BY <1>1, Fields DEF Taken, Ahead
<1>5. HeldAt(c, j)
  <2>1. CASE sys.notify = "notify"
    BY <2>1 DEF HeldAt
  <2>2. CASE sys.notify = "autonotify"
    BY <1>1, <1>4, <2>2 DEF HeldAt, Armed
  <2> QED
    BY <1>2, <2>1, <2>2
<1>6. Held(l) /\ Awaited(l) /\ Len(wire[l]) + acks[l] = 0
  <2>1. Held(l)
    BY <1>3, <1>5 DEF Held
  <2> QED
    BY <1>1, <2>1 DEF Token
<1>7. PICK d \in Component : \E i \in DOMAIN Outs(d) : Outs(d)[i] = l /\ AwaitedAt(d, i)
  BY <1>6 DEF Awaited
<1>8. PICK i \in DOMAIN Outs(d) : Outs(d)[i] = l /\ AwaitedAt(d, i)
  BY <1>7
<1>9. d = s
  <2>1. PICK h \in DOMAIN Outs(s) : Outs(s)[h] = l
    BY <1>3 DEF Elems
  <2> QED
    BY <1>1, <1>8, <2>1, OneWriter
<1>10. ~Unserved(d, i)
  <2>1. i \in Nat /\ at[d] \in Nat
    BY <1>1, Links, Fields
  <2>2. CASE sys.notify = "notify"
    BY <1>8, <2>1, <2>2 DEF AwaitedAt, Unserved
  <2>3. CASE sys.notify = "autonotify"
    BY <1>8, <2>1, <2>3 DEF AwaitedAt, Unserved
  <2> QED
    BY <1>2, <2>2, <2>3
<1>11. put[l] + refused[l] = round[s]
  BY <1>1, <1>8, <1>9, <1>10 DEF InRound
<1>12. put[l] = Len(wire[l]) + n
  BY <1>1, <1>3, <1>4 DEF OnTheWay
<1>13. Len(wire[l]) \in Nat /\ acks[l] \in Nat /\ refused[l] \in Nat /\ put[l] \in Nat
  BY <1>1, Wires
<1>14. n + refused[l] = round[s]
  BY <1>6, <1>11, <1>12, <1>13
<1> QED
  BY <1>3, <1>4, <1>13, <1>14

\* icom_nextBuffer goes from link to link.
LEMMA NextBufferIsNext ==
  ASSUME RoundsInv, DistinctPointers, NEW c \in Component, pc[c] = "visit",
         NEW n \in 0..Len(Ins(c)), cur[c] = IF n = 0 THEN NULL ELSE BufferOf(c, n)
  PROVE  NextBuffer(c, cur[c]) = IF n = Len(Ins(c)) THEN NULL ELSE BufferOf(c, n + 1)
<1>1. TypeOK /\ Placed /\ InOrder
  BY DEF RoundsInv
<1>2. PICK p \in Nat : p = Len(Ins(c)) /\ p > 0 /\ DOMAIN Ins(c) = 1..p
  BY <1>1, Links DEF Placed, PlacedAt
<1>3. \A j \in 1..p : Taken(c, j) > 0
  BY <1>1, VisitTaken, Fields DEF Placed, PlacedAt
<1>4. CASE n = 0
  BY <1>2, <1>4 DEF NextBuffer
<1>5. CASE n > 0
  <2>0. n \in 1..p
    BY <1>2, <1>5
  <2>1. cur[c] = BufferOf(c, n) /\ cur[c] # NULL
    BY <1>1, <1>2, <1>3, <2>0, BufferRead
  <2>2. PICK found : found = Found(c, cur[c])
    OBVIOUS
  <2>3. CASE ~sys.zero
    <3>1. cur[c] = Ins(c)[n]
      BY <2>1, <2>3 DEF BufferOf
    <3>2. \A i \in 1..p : Ins(c)[i] = Ins(c)[n] => i = n
      BY <1>1, <1>2, <2>0, OneReader
    <3>3. found = {n}
      BY <1>2, <2>0, <2>2, <2>3, <3>1, <3>2 DEF Found
    <3>4. First(found) = n
      BY <2>0, <3>3, FirstIsFirst
    <3> QED
      BY <1>2, <2>1, <2>2, <3>3, <3>4 DEF NextBuffer
  <2>4. CASE sys.zero
    <3>1. \A i \in 1..p : BufferOf(c, i) = BufferOf(c, n) => i = n
      <4> SUFFICES ASSUME NEW i \in 1..p, BufferOf(c, i) = BufferOf(c, n)
                   PROVE  i = n
        OBVIOUS
      <4>1. PICK s \in Component : s = BufferOf(c, n) /\ Ins(c)[n] \in Elems(Outs(s))
        BY <1>1, <1>2, <1>3, <2>0, <2>4, BufferRead
      <4>2. Ins(c)[i] \in Elems(Outs(s))
        BY <1>1, <1>2, <1>3, <2>4, <4>1, BufferRead
      <4>3. PICK a \in DOMAIN Outs(s), b \in DOMAIN Outs(s) : Outs(s)[a] = Ins(c)[n] /\ Outs(s)[b] = Ins(c)[i]
        BY <4>1, <4>2 DEF Elems
      <4>4. Ins(c)[n] \in Elems(Ins(c)) /\ Ins(c)[i] \in Elems(Ins(c))
        BY <1>2, <2>0 DEF Elems
      <4>5. a = b
        BY <1>1, <2>4, <4>3, <4>4 DEF DistinctPointers, TypeOK, Ins, Outs
      <4> QED
        BY <1>1, <1>2, <2>0, <4>3, <4>5, OneReader
    <3>2. CASE n = p
      <4>1. found = {}
        BY <1>2, <2>1, <2>2, <2>4, <3>1, <3>2 DEF Found
      <4> QED
        BY <1>2, <2>1, <2>2, <3>2, <4>1 DEF NextBuffer
    <3>3. CASE n # p
      <4>1. found = {n}
        BY <1>2, <2>0, <2>1, <2>2, <2>4, <3>1, <3>3 DEF Found
      <4>2. First(found) = n
        BY <2>0, <4>1, FirstIsFirst
      <4> QED
        BY <1>2, <2>1, <2>2, <3>3, <4>1, <4>2 DEF NextBuffer
    <3> QED
      BY <3>2, <3>3
  <2> QED
    BY <2>3, <2>4
<1> QED
  BY <1>2, <1>4, <1>5

\* What c's own steps do to its traversal.
LEMMA ReadStep ==
  ASSUME RoundsInv, DistinctPointers, AllRead, ~sys.zero \/ sys.notify # "none",
         NEW x \in Component, Visit(x), Step(x)
  PROVE  /\ Len(seen[x]) > 0
         /\ \A k \in DOMAIN seen[x] : k # Len(seen[x]) => seen'[x][k] = seen[x][k]
         /\ IF pc'[x] = "visit"
            THEN \E n \in 0..Len(Ins(x)) :
                   /\ n > 0
                   /\ seen'[x][Len(seen[x])] = SubSeq(Expected(x, Len(seen[x])), 1, n)
                   /\ cur'[x] = BufferOf(x, n)
            ELSE seen'[x][Len(seen[x])] = Expected(x, Len(seen[x]))
<1>1. TypeOK /\ Placed /\ InOrder /\ pc[x] = "visit"
  BY DEF RoundsInv, Visit
<1>2. PICK k \in Nat : k = Len(seen[x]) /\ k > 0 /\ DOMAIN seen[x] = 1..k
  <2>1. seen[x] \in Seq(Seq(Nat)) /\ seen[x] # <<>>
    BY <1>1, Fields DEF Placed, PlacedAt
  <2> QED
    BY <1>1, <2>1, Fields, LenProperties
<1>3. PICK p \in Nat : p = Len(Ins(x)) /\ DOMAIN Ins(x) = 1..p
  BY <1>1, Links
<1>4. PICK e \in Seq(Nat) : e = Expected(x, k) /\ Len(e) = p /\ \A i \in 1..p : e[i] = refused[Ins(x)[i]] + k
  BY <1>1, <1>3, ExpectedSeq
<1>5. PICK n \in 0..p : seen[x][k] = SubSeq(e, 1, n) /\ cur[x] = IF n = 0 THEN NULL ELSE BufferOf(x, n)
  BY <1>1, <1>2, <1>3, <1>4 DEF AllRead, Reading
<1>6. PICK b : b = NextBuffer(x, cur[x])
  OBVIOUS
<1>7. b = IF n = p THEN NULL ELSE BufferOf(x, n + 1)
  BY <1>1, <1>3, <1>5, <1>6, NextBufferIsNext
<1>8. CASE n = p
  <2>1. UNCHANGED seen /\ pc'[x] # "visit"
    <3>1. b = NULL
      BY <1>7, <1>8
    <3>2. UNCHANGED seen
      BY <1>6, <3>1 DEF Visit
    <3>3. Goto(x, "notifySend", Len(Ins(x))) \/ Goto(x, "write", 1) \/ NextRound(x)
      BY <1>6, <3>1 DEF Visit
    <3> QED
      BY <1>1, <3>2, <3>3, Moved, NextRoundGoes
  <2>2. seen[x][k] = e
    BY <1>4, <1>5, <1>8, ReadOn
  <2> QED
    BY <1>2, <1>4, <2>1, <2>2
<1>9. CASE n # p
  <2>1. n + 1 \in 1..p /\ b = BufferOf(x, n + 1)
    BY <1>7, <1>9, <1>3
  <2>2. Taken(x, n + 1) = k
    BY <1>1, <1>2, VisitTaken
  <2>3. /\ b # NULL
        /\ ~sys.zero => Data(b) = e[n + 1]
        /\ sys.zero => /\ b \in Component
                       /\ Ins(x)[n + 1] \in Elems(Outs(b))
                       /\ Data(b) = round[b]
    BY <1>1, <1>2, <1>3, <1>4, <2>1, <2>2, BufferRead
  <2>4. Data(b) = e[n + 1]
    <3>1. CASE ~sys.zero
      BY <2>3, <3>1
    <3>2. CASE sys.zero
      BY <1>1, <1>2, <1>3, <1>4, <2>1, <2>3, <3>2, SourceWaits
    <3> QED
      BY <3>1, <3>2
  <2>5. /\ cur'[x] = b /\ pc'[x] = "visit"
        /\ seen'[x] = [seen[x] EXCEPT ![k] = Append(seen[x][k], Data(b))]
    <3>1. /\ cur' = [cur EXCEPT ![x] = b]
          /\ seen' = [seen EXCEPT ![x] = [seen[x] EXCEPT ![k] = Append(seen[x][k], Data(b))]]
          /\ Goto(x, "visit", 1)
      BY <1>6, <1>2, <2>3 DEF Visit
    <3> QED
      BY <1>1, <3>1, Moved DEF TypeOK
  <2>6. seen'[x][k] = SubSeq(e, 1, n + 1)
    <3>1. seen'[x][k] = Append(SubSeq(e, 1, n), e[n + 1])
      BY <1>2, <1>5, <2>4, <2>5
    <3> QED
      BY <1>4, <2>1, <3>1, ReadOn
  <2>7. \A i \in 1..k : i # k => seen'[x][i] = seen[x][i]
    BY <1>2, <2>5
  <2>8. n + 1 \in 0..p /\ n + 1 > 0
    BY <2>1
  <2> QED
    BY <1>2, <1>3, <1>4, <2>1, <2>5, <2>6, <2>7, <2>8
<1> QED
  BY <1>8, <1>9

LEMMA AllReadStep ==
  ASSUME RoundsInv, DistinctPointers, AllRead, NEW x \in Component, Step(x)
  PROVE  AllRead'
<1>1. /\ TypeOK /\ TypeOK' /\ Placed /\ sys' = sys
      /\ \A c : Ins(c)' = Ins(c)
  BY TypeStep, OnlyOwn, SamePlan DEF RoundsInv
<1> SUFFICES ASSUME ~sys.zero \/ sys.notify # "none", NEW c \in Component
             PROVE  /\ \A k \in DOMAIN seen'[c] :
                          (k = Len(seen'[c]) /\ pc'[c] = "visit") \/ seen'[c][k] = Expected(c, k)'
                    /\ pc'[c] = "visit" => Reading(c)'
  BY <1>1 DEF AllRead
<1>2. /\ \A k \in DOMAIN seen[c] :
           (k = Len(seen[c]) /\ pc[c] = "visit") \/ seen[c][k] = Expected(c, k)
      /\ pc[c] = "visit" => Reading(c)
  BY DEF AllRead
<1>3. PICK k \in Nat : k = Len(seen[c]) /\ DOMAIN seen[c] = 1..k
  <2>1. seen[c] \in Seq(Seq(Nat))
    BY <1>1, Fields
  <2> QED
    BY <2>1, LenProperties
<1>4. DOMAIN seen'[c] = 1..Len(seen'[c]) /\ Len(seen'[c]) \in Nat
  <2>1. seen'[c] \in Seq(Seq(Nat))
    BY <1>1 DEF TypeOK
  <2> QED
    BY <2>1, LenProperties
<1>5. k > 0 => \A i : Expected(c, i)' = Expected(c, i)
  BY <1>3, ExpectedStays
<1>6. CASE c # x
  <2>1. seen'[c] = seen[c] /\ pc'[c] = pc[c] /\ cur'[c] = cur[c]
    BY <1>1, <1>6, OnlyOwn
  <2>2. \A n \in DOMAIN Ins(c) : BufferOf(c, n)' = BufferOf(c, n)
    <3> SUFFICES ASSUME NEW n \in DOMAIN Ins(c)
                 PROVE  BufferOf(c, n)' = BufferOf(c, n)
      OBVIOUS
    <3>1. recvBuf'[Ins(c)[n]] = recvBuf[Ins(c)[n]]
      <4>1. CASE Take(x)
        <5>1. PICK l \in Link :
                /\ at[x] \in DOMAIN Ins(x) /\ l = Ins(x)[at[x]]
                /\ recvBuf' = [recvBuf EXCEPT ![l] = wire[l][1]]
          BY <4>1, TakeMoves
        <5>2. Ins(c)[n] # l
          BY <1>1, <1>6, <5>1, OneReader
        <5> QED
          BY <1>1, <5>1, <5>2, Links DEF TypeOK
      <4>2. CASE ~Take(x)
        BY <4>2, LinkMoves
      <4> QED
        BY <4>1, <4>2
    <3> QED
      BY <1>1, <3>1 DEF BufferOf
  <2>3. \A i \in 1..k : (i = k /\ pc'[c] = "visit") \/ seen'[c][i] = Expected(c, i)'
    BY <1>2, <1>3, <1>5, <2>1
  <2>4. pc'[c] = "visit" => Reading(c)'
    <3> SUFFICES ASSUME pc'[c] = "visit"
                 PROVE  Reading(c)'
      OBVIOUS
    <3>1. pc[c] = "visit" /\ k > 0
      BY <1>1, <1>3, <2>1, Fields DEF Placed, PlacedAt
    <3>2. PICK n \in 0..Len(Ins(c)) :
            /\ seen[c][k] = SubSeq(Expected(c, k), 1, n)
            /\ cur[c] = IF n = 0 THEN NULL ELSE BufferOf(c, n)
      BY <1>2, <1>3, <3>1 DEF Reading
    <3>3. n > 0 => n \in DOMAIN Ins(c)
      BY <1>1, Links
    <3>4. cur'[c] = IF n = 0 THEN NULL ELSE BufferOf(c, n)'
      BY <2>1, <2>2, <3>2, <3>3
    <3>5. Expected(c, k)' = Expected(c, k)
      BY <1>5, <3>1
    <3>6. Len(seen'[c]) = k
      BY <1>3, <2>1
    <3>7. seen'[c][k] = SubSeq(Expected(c, k)', 1, n)
      BY <2>1, <3>2, <3>5
    <3> QED
      BY <1>1, <3>4, <3>6, <3>7 DEF Reading
  <2> QED
    BY <1>3, <2>1, <2>3, <2>4
<1>7. CASE c = x /\ Visit(x)
  <2>1. /\ k > 0 /\ Len(seen'[c]) = k
        /\ \A i \in 1..k : i # k => seen'[c][i] = seen[c][i]
    <3>1. ~Take(x)
      BY <1>7 DEF Visit, Take
    <3> QED
      BY <1>7, <1>3, <3>1, ReadStep, Traversals
  <2>2. \A i \in 1..k : i # k => seen'[c][i] = Expected(c, i)'
    BY <1>2, <1>3, <1>5, <2>1
  <2>3. CASE pc'[c] = "visit"
    <3>1. PICK n \in 0..Len(Ins(c)) :
            /\ n > 0
            /\ seen'[c][k] = SubSeq(Expected(c, k), 1, n)
            /\ cur'[c] = BufferOf(c, n)
      BY <1>7, <1>3, <2>3, ReadStep
    <3>2. BufferOf(c, n)' = BufferOf(c, n)
      BY <1>1, <1>7 DEF BufferOf, Visit
    <3>3. n # 0
      BY <3>1
    <3>4. Reading(c)'
      BY <1>1, <1>5, <2>1, <3>1, <3>2, <3>3 DEF Reading
    <3> QED
      BY <1>4, <2>1, <2>2, <2>3, <3>4
  <2>4. CASE pc'[c] # "visit"
    <3>1. seen'[c][k] = Expected(c, k)
      BY <1>7, <1>3, <2>4, ReadStep
    <3> QED
      BY <1>4, <1>5, <2>1, <2>2, <2>4, <3>1
  <2> QED
    BY <2>3, <2>4
<1>8. CASE c = x /\ Take(x) /\ at[x] = 1
  <2>1. /\ pc[c] = "take" /\ pc'[c] = "visit" /\ cur'[c] = NULL
    <3>1. Goto(x, "visit", 1) /\ cur' = [cur EXCEPT ![x] = NULL] /\ pc[x] = "take"
      BY <1>8 DEF Take
    <3> QED
      BY <1>1, <1>8, <3>1, Moved DEF TypeOK
  <2>2. /\ Len(seen'[c]) = k + 1 /\ seen'[c][k + 1] = <<>>
        /\ \A i \in 1..k : seen'[c][i] = seen[c][i]
    BY <1>8, <1>3, Traversals
  <2>3. \A i \in 1..k : seen'[c][i] = Expected(c, i)'
    BY <1>2, <1>3, <1>5, <2>1, <2>2
  <2>4. Reading(c)'
    <3>1. SubSeq(Expected(c, k + 1)', 1, 0) = <<>>
      BY SubSeqEmpty
    <3>2. 0 \in 0..Len(Ins(c))
      BY <1>1, Links
    <3> QED
      BY <1>1, <2>1, <2>2, <3>1, <3>2 DEF Reading
  <2>5. \A i \in 1..k + 1 : i = k + 1 \/ i \in 1..k
    BY <1>3
  <2> QED
    BY <1>4, <2>1, <2>2, <2>3, <2>4, <2>5
<1>9. CASE c = x /\ ~Visit(x) /\ ~(Take(x) /\ at[x] = 1)
  <2>1. pc[c] # "visit" /\ pc'[c] # "visit" /\ seen'[c] = seen[c]
    <3>1. CASE Take(x)
      <4>1. at[x] > 1
        BY <1>1, <1>9, <3>1, Fields DEF Placed, PlacedAt
      <4>2. pc[x] = "take" /\ Goto(x, "recv", at[x] - 1) /\ UNCHANGED seen
        BY <3>1, <4>1 DEF Take
      <4> QED
        BY <1>1, <1>9, <4>2, Moved
    <3>2. CASE ~Take(x)
      <4>0. seen' = seen
        BY <1>9, <3>2, Traversals
      <4>1. CASE Listen(x) \/ Begin(x)
        BY <1>1, <1>9, <4>0, <4>1, Moved, NextRoundGoes DEF Listen, Begin
      <4>2. CASE RecvLink(x) \/ Write(x)
        BY <1>1, <1>9, <4>0, <4>2, Moved DEF RecvLink, Write
      <4>3. CASE NotifySend(x) \/ NotifyRecv(x)
        BY <1>1, <1>9, <4>0, <4>3, Moved, NextRoundGoes DEF NotifySend, NotifyRecv
      <4>4. CASE SendLink(x)
        <5>1. pc[x] = "send" /\ (pc'[x] = "sent" \/ Served(x))
          BY <1>1, <4>4, Moved DEF SendLink
        <5> QED
          BY <1>1, <1>9, <4>0, <5>1, ServedGoes
      <4>5. CASE SendReturns(x)
        <5>1. pc[x] = "sent" /\ Served(x)
          BY <4>5 DEF SendReturns
        <5> QED
          BY <1>1, <1>9, <4>0, <5>1, ServedGoes
      <4> QED
        BY <1>9, <3>2, <4>1, <4>2, <4>3, <4>4, <4>5 DEF Step
    <3> QED
      BY <3>1, <3>2
  <2> QED
    BY <1>2, <1>3, <1>4, <1>5, <2>1
<1> QED
  BY <1>6, <1>7, <1>8, <1>9

LEMMA AllReadStutter ==
  ASSUME AllRead, UNCHANGED vars
  PROVE  AllRead'
<1>0. /\ UNCHANGED <<sys, pc, recvBuf, cur, seen, refused>>
      /\ \A c : Ins(c)' = Ins(c)
  BY SamePlan DEF vars, prog, rcv, hist
<1>1. ASSUME NEW c
      PROVE  /\ \A k : Expected(c, k)' = Expected(c, k)
             /\ \A n : BufferOf(c, n)' = BufferOf(c, n)
  BY <1>0 DEF Expected, BufferOf
<1>2. ASSUME NEW c
      PROVE  Reading(c)' <=> Reading(c)
  BY <1>0, <1>1 DEF Reading
<1> QED
  BY <1>0, <1>1, <1>2 DEF AllRead

\* The traversal behind an icom_recv reads, link by link, the round that this
\* icom_recv received (icom_nextBuffer; README.md, "Zero-copy and buffer
\* overwrites"): without zero-copy always, with zero-copy when the sources are
\* acknowledged and no two links bring the same pointer.
THEOREM GatheredCorrect ==
  ASSUME DistinctPointers
  PROVE  Spec => []Gathered
<1>1. Init => RoundsInv /\ AllRead
  <2> SUFFICES ASSUME Init
               PROVE  RoundsInv /\ AllRead
    OBVIOUS
  <2>1. \A c \in Component : pc[c] = "init" /\ seen[c] = <<>>
    BY DEF Init
  <2>2. AllRead
    BY <2>1, EmptySeq DEF AllRead
  <2> QED
    BY <2>2, RoundsInit
<1>2. RoundsInv /\ AllRead /\ [Next]_vars => (RoundsInv /\ AllRead)'
  <2> SUFFICES ASSUME RoundsInv, AllRead, [Next]_vars
               PROVE  RoundsInv' /\ AllRead'
    OBVIOUS
  <2>1. CASE Next
    BY <2>1, RoundsNext, AllReadStep DEF Next
  <2>2. CASE UNCHANGED vars
    BY <2>2, RoundsNext, AllReadStutter
  <2> QED
    BY <2>1, <2>2
<1>3. RoundsInv /\ AllRead => Gathered
  <2> SUFFICES ASSUME RoundsInv, AllRead, ~sys.zero \/ sys.notify # "none",
                      NEW c \in Component, NEW k \in DOMAIN seen[c]
               PROVE  IF k = Len(seen[c]) /\ pc[c] = "visit"
                      THEN \E n \in 0..Len(Ins(c)) : seen[c][k] = SubSeq(Expected(c, k), 1, n)
                      ELSE seen[c][k] = Expected(c, k)
    BY DEF Gathered
  <2> QED
    BY DEF AllRead, Reading
<1> QED
  BY <1>1, <1>2, <1>3, PTL DEF Spec

-----------------------------------------------------------------------------
(* The objects as the components see them.                                 *)

LEMMA FlowInit ==
  ASSUME Init
  PROVE  Flow!FlowInit
<1>0. TypeOK
  BY RoundsInit DEF RoundsInv
<1>1. \A c \in Component : Elems(Ins(c)) \subseteq Link /\ Elems(Outs(c)) \subseteq Link
  BY <1>0, Links DEF Elems
<1>2. round = [c \in Component |-> 0] /\ put = [l \in Link |-> 0]
  BY DEF Init
<1>3. [c \in Component |-> Len(seen[c])] = [c \in Component |-> 0]
  BY EmptySeq DEF Init
<1> QED
  BY <1>1, <1>2, <1>3 DEF Flow!FlowInit

\* What a step leaves alone.
LEMMA FlowStays ==
  ASSUME RoundsInv, NEW x \in Component, Step(x)
  PROVE  /\ [c \in Component |-> Elems(Ins(c))]' = [c \in Component |-> Elems(Ins(c))]
         /\ [c \in Component |-> Elems(Outs(c))]' = [c \in Component |-> Elems(Outs(c))]
         /\ ~Write(x) => round' = round
         /\ ~SendLink(x) => put' = put
         /\ ~(Take(x) /\ at[x] = 1) =>
              [c \in Component |-> Len(seen[c])]' = [c \in Component |-> Len(seen[c])]
<1>0. TypeOK /\ Placed
  BY DEF RoundsInv
<1>1. /\ \A c : Elems(Ins(c))' = Elems(Ins(c))
      /\ \A c : Elems(Outs(c))' = Elems(Outs(c))
  BY <1>0, OnlyOwn, SamePlan
<1>2. ~Write(x) => round' = round
  BY <1>0, OwnRound
<1>3. ~SendLink(x) => put' = put
  BY LinkMoves
<1>4. ~(Take(x) /\ at[x] = 1) => \A c \in Component : Len(seen'[c]) = Len(seen[c])
  BY <1>0, OnlyOwn, Traversals
<1> QED
  BY <1>1, <1>2, <1>3, <1>4

\* Writing the buffer begins a round: all destinations have had the one before.
LEMMA WriteBegins ==
  ASSUME RoundsInv, InTime, NEW x \in Component, Step(x), Write(x)
  PROVE  Flow!BeginRound(x)
<1>0. /\ TypeOK /\ Placed /\ InRound /\ NoneRefused
      /\ pc[x] = "write" /\ ~SendLink(x) /\ ~Take(x)
  BY DEF RoundsInv, Write, SendLink, Take
<1>1. \A l \in Elems(Outs(x)) : l \in Link /\ put[l] = round[x]
  <2>1. \A i \in DOMAIN Outs(x) : ~Unserved(x, i) /\ Outs(x)[i] \in Link
    BY <1>0, Links DEF Unserved
  <2>2. \A i \in DOMAIN Outs(x) : put[Outs(x)[i]] + refused[Outs(x)[i]] = round[x]
    BY <1>0, <2>1 DEF InRound
  <2>3. \A i \in DOMAIN Outs(x) : refused[Outs(x)[i]] = 0 /\ put[Outs(x)[i]] \in Nat
    BY <1>0, <2>1, Wires DEF NoneRefused
  <2> QED
    BY <2>1, <2>2, <2>3 DEF Elems
<1>2. Elems(Outs(x)) # {}
  <2>1. Outs(x) # <<>>
    BY <1>0 DEF Placed, PlacedAt
  <2>2. 1 \in DOMAIN Outs(x)
    BY <1>0, <2>1, Links
  <2> QED
    BY <2>2 DEF Elems
<1>3. Elems(Ins(x)) # {} => round[x] < Len(seen[x])
  <2>1. Elems(Ins(x)) # {} => Ins(x) # <<>>
    BY <1>0, Links DEF Elems
  <2> QED
    BY <1>0, <2>1, Fields DEF Placed, PlacedAt
<1>4. round' = [round EXCEPT ![x] = @ + 1]
  BY DEF Write
<1> QED
  BY <1>0, <1>1, <1>2, <1>3, <1>4, FlowStays DEF Flow!BeginRound

\* icom_send comes to a destination: it is sent the round.
LEMMA SendServes ==
  ASSUME RoundsInv, InTime, NEW x \in Component, Step(x), SendLink(x)
  PROVE  \E l \in Link : Flow!Serve(x, l)
<1>0. TypeOK /\ Placed /\ InRound /\ NoneRefused /\ ~Write(x) /\ ~Take(x)
  BY DEF RoundsInv, Write, SendLink, Take
<1>1. PICK l \in Link :
        /\ l = OutLink(x) /\ at[x] \in DOMAIN Outs(x) /\ l = Outs(x)[at[x]]
        /\ \/ put' = [put EXCEPT ![l] = put[l] + 1]
           \/ refused' = [refused EXCEPT ![l] = refused[l] + 1]
  BY SendMoves
<1>2. l \in Elems(Outs(x))
  BY <1>1 DEF Elems
<1>3. put[l] \in Nat /\ round[x] \in Nat /\ refused[l] = 0
  BY <1>0, Wires, Fields DEF NoneRefused
<1>4. put[l] < round[x]
  <2>1. put[l] + refused[l] = round[x] - 1
    BY <1>0, <1>1, ServeCount DEF InRound
  <2> QED
    BY <1>3, <2>1
<1>5. put' = [put EXCEPT ![l] = put[l] + 1]
  <2>1. refused'[l] = 0
    <3>1. sys' = sys
      BY <1>0, OnlyOwn
    <3>2. InTime' /\ NoneRefused'
      BY <3>1, SameInTime, NoneRefusedStep
    <3> QED
      BY <3>2 DEF NoneRefused
  <2>2. refused' # [refused EXCEPT ![l] = refused[l] + 1]
    BY <1>0, <1>3, <2>1 DEF TypeOK
  <2> QED
    BY <1>1, <2>2
<1> QED
  BY <1>0, <1>2, <1>4, <1>5, FlowStays DEF Flow!Serve

\* icom_recv returns with the messages of all links.
LEMMA TakeGathers ==
  ASSUME RoundsInv, NEW x \in Component, Step(x), Take(x), at[x] = 1
  PROVE  Flow!Gather(x)
<1>0. TypeOK /\ Placed /\ OnTheWay /\ ~Write(x) /\ ~SendLink(x) /\ pc[x] = "take"
  BY DEF RoundsInv, Write, SendLink, Take
<1>1. PICK m \in Link : at[x] \in DOMAIN Ins(x) /\ m = Ins(x)[at[x]] /\ Len(wire[m]) > 0
  BY TakeMoves
<1>2. Elems(Ins(x)) # {}
  BY <1>1 DEF Elems
<1>3. ASSUME NEW l \in Elems(Ins(x))
      PROVE  l \in Link /\ Len(seen[x]) < put[l]
  <2>1. PICK j \in DOMAIN Ins(x) : l = Ins(x)[j] /\ l \in Link
    BY <1>0, Links DEF Elems
  <2>2. put[l] = Len(wire[l]) + Taken(x, j)
    BY <1>0, <2>1 DEF OnTheWay
  <2>3. PICK w \in Nat, n \in Nat : w = Len(wire[l]) /\ n = Len(seen[x])
    BY <1>0, <2>1, Wires, Fields
  <2>4. w + Taken(x, j) > n /\ Taken(x, j) \in Nat
    <3>0. j \in Nat /\ j >= 1
      BY <1>0, <2>1, Links
    <3>1. CASE j = 1
      <4>1. Taken(x, j) = n /\ w > 0
        BY <1>0, <1>1, <2>1, <2>3, <3>1 DEF Taken, Ahead
      <4> QED
        BY <4>1
    <3>2. CASE j # 1
      <4>1. Taken(x, j) = n + 1
        BY <1>0, <2>3, <3>0, <3>2 DEF Taken, Ahead
      <4> QED
        BY <4>1
    <3> QED
      BY <3>1, <3>2
  <2> QED
    BY <2>1, <2>2, <2>3, <2>4
<1>4. [c \in Component |-> Len(seen[c])]' = [[c \in Component |-> Len(seen[c])] EXCEPT ![x] = @ + 1]
  <2>1. Len(seen'[x]) = Len(seen[x]) + 1 /\ \A c \in Component : c # x => seen'[c] = seen[c]
    BY <1>0, OnlyOwn, Traversals
  <2> QED
    BY <2>1
<1> QED
  BY <1>0, <1>2, <1>3, <1>4, FlowStays DEF Flow!Gather

\* Where all receivers listen before anyone sends the objects implement the
\* safety part of Dataflow: every destination is sent every round once, and
\* nothing is gathered that was not sent (the safety half of IsADataflow).
THEOREM DataflowCorrect == Spec /\ InTime => Flow!FlowSafety
<1>1. Init => Flow!FlowInit
  BY FlowInit
<1>2. RoundsInv /\ InTime /\ [Next]_vars => [Flow!FlowNext]_(Flow!flowVars)
  <2> SUFFICES ASSUME RoundsInv, InTime, [Next]_vars
               PROVE  Flow!FlowNext \/ UNCHANGED Flow!flowVars
    OBVIOUS
  <2>1. ASSUME NEW x \in Component, Step(x)
        PROVE  Flow!FlowNext \/ UNCHANGED Flow!flowVars
    <3>1. CASE Write(x)
      BY <2>1, <3>1, WriteBegins DEF Flow!FlowNext
    <3>2. CASE SendLink(x)
      BY <2>1, <3>2, SendServes DEF Flow!FlowNext
    <3>3. CASE Take(x) /\ at[x] = 1
      BY <2>1, <3>3, TakeGathers DEF Flow!FlowNext
    <3>4. CASE ~Write(x) /\ ~SendLink(x) /\ ~(Take(x) /\ at[x] = 1)
      BY <2>1, <3>4, FlowStays DEF Flow!flowVars
    <3> QED
      BY <3>1, <3>2, <3>3, <3>4
  <2>2. CASE UNCHANGED vars
    <3>1. /\ UNCHANGED <<sys, round, put, seen>>
          /\ \A c : Elems(Ins(c))' = Elems(Ins(c))
          /\ \A c : Elems(Outs(c))' = Elems(Outs(c))
      BY <2>2, SamePlan DEF vars, rcv, hist
    <3> QED
      BY <3>1 DEF Flow!flowVars
  <2> QED
    BY <2>1, <2>2 DEF Next
<1>3. RoundsInv /\ InTime /\ [Next]_vars => InTime'
  <2> SUFFICES ASSUME RoundsInv, InTime, [Next]_vars
               PROVE  sys' = sys
    BY SameInTime
  <2>1. CASE Next
    BY <2>1, OnlyOwn DEF Next, RoundsInv
  <2>2. CASE UNCHANGED vars
    BY <2>2 DEF vars
  <2> QED
    BY <2>1, <2>2
<1> QED
  BY <1>1, <1>2, <1>3, RoundsCorrect, PTL DEF Spec, Flow!FlowSafety
=============================================================================
