------------------------- MODULE IcomLifecycleProofs -------------------------
(***************************************************************************)
(* Proofs about IcomLifecycle, for all users, configurations and bounds:   *)
(* a user holds exactly what its stage in icom_init or icom_deinit needs   *)
(* (HeldInv) and what the calls of icom_init have left behind (LeavesBy),  *)
(* and the kernel keeps the sockets of the links and no others.  How many  *)
(* links there are, and with which addresses, is what StringArrayProofs    *)
(* says of the parser.                                                     *)
(***************************************************************************)
EXTENDS IcomLifecycleStages, StringArrayProofs, FiniteSetTheorems

-----------------------------------------------------------------------------
(* Configurations.                                                         *)

\* What is used of a communication string.
LEMMA ConfigFacts ==
  ASSUME NEW u \in User, NEW c \in Configs[u]
  PROVE  /\ c.fields \in 1..3
         /\ FieldBlocks(c) \in Nat /\ FlagBlocks(c) \in Nat
         /\ c.type \in {"socket_tx", "socket_rx", "stub", "unknown"}
<1>1. c \in Config
  BY LifecycleAssumption
<1> QED
  BY <1>1 DEF Config, FieldBlocks, FlagBlocks

\* The strings users may pass are lists of well-formed entries, so the parser
\* agrees on them.
LEMMA ParserDoesAgree == ParserAgrees
<1> SUFFICES ASSUME NEW u \in User, NEW c \in Configs[u], Parsed(c)
             PROVE  AsListed(c)
  BY DEF ParserAgrees
<1>1. c \in Config /\ (\A i \in DOMAIN c.entries : WellFormed(c.entries[i])) /\ Port \subseteq Nat
  BY LifecycleAssumption
<1>2. PICK es : es = c.entries
  OBVIOUS
<1>3. Entries(es) /\ es # <<>>
  BY <1>1, <1>2 DEF Entries, Config, Parsed
<1>4. /\ InitStrArray(Text(es)) = Meant(es)
      /\ Meant(es) \in Seq(Address) \ {<<>>}
      /\ GetConnectionCount(Text(es)) = Len(Meant(es))
  BY <1>3, PassesAgree
<1> QED
  BY <1>2, <1>4 DEF AsListed, ComStrings, ComCount

\* A string that gets through the parser stands for at least one link.
LEMMA ParsedFacts ==
  ASSUME NEW u \in User, NEW c \in Configs[u], Parsed(c)
  PROVE  /\ ComCount(c) \in Nat \ {0}
         /\ StringBlocks(ComCount(c)) \in Nat
         /\ ComStrings(c) \in Seq(Address)
         /\ ComCount(c) = Len(ComStrings(c))
         /\ ComStrings(c) = Meant(c.entries)
<1>1. PICK s \in Seq(Address) \ {<<>>} :
         s = ComStrings(c) /\ ComCount(c) = Len(s) /\ s = Meant(c.entries)
  BY ParserDoesAgree DEF ParserAgrees, AsListed
<1>2. Len(s) \in Nat \ {0}
  BY <1>1
<1> QED
  BY <1>1, <1>2 DEF StringBlocks

LEMMA IntervalCount ==
  ASSUME NEW a \in Int, NEW b \in Int, b >= a - 1
  PROVE  /\ IsFiniteSet(a..b)
         /\ Cardinality(a..b) = b - a + 1
<1>1. /\ IsFiniteSet(a..b)
      /\ Cardinality(a..b) = IF a > b THEN 0 ELSE b - a + 1
  BY FS_Interval
<1> QED
  BY <1>1

\* There are as many ready links as the loop variable says.
LEMMA ReadyCount ==
  ASSUME NEW u \in User, NEW c \in Configs[u], NEW p, NEW i \in Nat,
         Stage(c, p, i)
  PROVE  /\ Ready(c, p, i) \in Nat
         /\ IsFiniteSet(ReadyLinks(c, p, i))
         /\ Cardinality(ReadyLinks(c, p, i)) = Ready(c, p, i)
         /\ ReadyLinks(c, p, i) \subseteq Nat
<1>1. CASE p \in Linking
  <2>1. PICK n \in Nat : n = i - 1
    BY <1>1, ParsedFacts DEF Stage, Linking
  <2>2. ReadyLinks(c, p, i) = 1..n /\ Ready(c, p, i) = n
    BY <1>1, <2>1 DEF ReadyLinks, Ready
  <2>3. IsFiniteSet(1..n) /\ Cardinality(1..n) = n - 1 + 1
    BY IntervalCount
  <2> QED
    BY <2>1, <2>2, <2>3
<1>2. CASE p = "unwind"
  <2>1. PICK n \in Nat : n = i
    OBVIOUS
  <2>2. ReadyLinks(c, p, i) = 1..n /\ Ready(c, p, i) = n
    BY <1>2, <2>1 DEF ReadyLinks, Ready, Linking
  <2>3. IsFiniteSet(1..n) /\ Cardinality(1..n) = n - 1 + 1
    BY IntervalCount
  <2> QED
    BY <2>2, <2>3
<1>3. CASE p = "object"
  <2>1. ComCount(c) \in Nat
    BY <1>3, ParsedFacts DEF Stage, Object
  <2>2. ReadyLinks(c, p, i) = 1..ComCount(c) /\ Ready(c, p, i) = ComCount(c)
    BY <1>3 DEF ReadyLinks, Ready, Linking
  <2>3. /\ IsFiniteSet(1..ComCount(c))
        /\ Cardinality(1..ComCount(c)) = ComCount(c) - 1 + 1
    BY <2>1, IntervalCount
  <2> QED
    BY <2>1, <2>2, <2>3
<1>4. CASE p = "deinit"
  <2>1. PICK n \in Nat : n = ComCount(c) /\ i \in 1..(n + 1)
    BY <1>4, ParsedFacts DEF Stage, Object
  <2>2. PICK m \in Nat : m = n - i + 1
    BY <2>1
  <2>3. ReadyLinks(c, p, i) = i..n /\ Ready(c, p, i) = m
    BY <1>4, <2>1, <2>2 DEF ReadyLinks, Ready, Linking
  <2>4. IsFiniteSet(i..n) /\ Cardinality(i..n) = m
    BY <2>1, <2>2, IntervalCount
  <2>5. i..n \subseteq Nat
    OBVIOUS
  <2> QED
    BY <2>3, <2>4, <2>5
<1>5. CASE p \notin Linking \cup {"unwind", "object", "deinit"}
  <2>1. ReadyLinks(c, p, i) = {} /\ Ready(c, p, i) = 0
    BY <1>5 DEF ReadyLinks, Ready
  <2> QED
    BY <2>1, FS_EmptySet
<1> QED
  BY <1>1, <1>2, <1>3, <1>4, <1>5

-----------------------------------------------------------------------------
(* The shapes the steps have.                                              *)

\* A step of u leaves what the other users have alone.
Untouched(u) ==
  \A v \in User : v # u =>
    /\ pc'[v] = pc[v] /\ cfg'[v] = cfg[v] /\ at'[v] = at[v] /\ heap'[v] = heap[v]
    /\ AcceptedBy(v)' = AcceptedBy(v) /\ SocksOf(v)' = SocksOf(v)

\* So the invariant is kept if it is kept for u.
LEMMA Combine ==
  ASSUME NEW u \in User, \A v \in User : KeptBy(v), Untouched(u), TypeOK', KeptBy(u)'
  PROVE  HeldInv'
<1>1. ASSUME NEW v \in User, v # u PROVE KeptBy(v)'
  <2>1. KeptBy(v)
    OBVIOUS
  <2> QED
    BY <1>1, <2>1 DEF Untouched, KeptBy
<1> QED
  BY <1>1 DEF HeldInv

LEMMA NetUntouched ==
  ASSUME UNCHANGED net, NEW v
  PROVE  AcceptedBy(v)' = AcceptedBy(v) /\ SocksOf(v)' = SocksOf(v)
BY DEF net, AcceptedBy, SocksOf

\* Only an object in use has accepted connections.
LEMMA NoneAccepted ==
  ASSUME NEW u, NEW c, NEW p, NEW i, NEW A, Entitled(u, c, p, i, A), p \notin Object
  PROVE  A = {} /\ Cardinality(A) = 0
BY FS_EmptySet DEF Entitled

\* The number of connections.
LEMMA AcceptedCount ==
  ASSUME NEW u, NEW c, NEW p, NEW i, NEW A, Entitled(u, c, p, i, A)
  PROVE  Cardinality(A) \in Nat
BY FS_CardinalityType DEF Entitled

\* The next statement of icom_init.
LEMMA StepKeeps ==
  ASSUME TypeOK, NEW u \in User, NEW p \in Pc, NEW h \in Heap, Step(u, p, h),
         \A v \in User : KeptBy(v),
         Kept(u, cfg[u], p, at[u], h, AcceptedBy(u), SocksOf(u))
  PROVE  HeldInv'
<1>1. TypeOK'
  BY DEF TypeOK, Step, Goto, net
<1>2. /\ pc'[u] = p /\ cfg'[u] = cfg[u] /\ at'[u] = at[u] /\ heap'[u] = h
      /\ AcceptedBy(u)' = AcceptedBy(u) /\ SocksOf(u)' = SocksOf(u)
  BY NetUntouched DEF TypeOK, Step, Goto
<1>3. KeptBy(u)'
  BY <1>2 DEF KeptBy
<1>4. Untouched(u)
  BY NetUntouched DEF TypeOK, Step, Goto, Untouched
<1> QED
  BY <1>1, <1>3, <1>4, Combine

\* The process is gone.
LEMMA CrashKeeps ==
  ASSUME TypeOK, NEW u \in User, Crash(u), faults' \in 0..MaxFaults,
         \A v \in User : KeptBy(v)
  PROVE  HeldInv'
<1>1. TypeOK'
  BY DEF TypeOK, Crash, Goto, Pc
<1>2. /\ pc'[u] = "crashed" /\ cfg'[u] = cfg[u] /\ at'[u] = at[u] /\ heap'[u] = heap[u]
      /\ AcceptedBy(u)' = {} /\ SocksOf(u)' = {}
  BY DEF TypeOK, Crash, Goto, AcceptedBy, SocksOf
<1>3. Kept(u, cfg[u], "crashed", at[u], heap[u], {}, {})
  BY FS_EmptySet DEF Kept, Stage, Entitled, Sockets, ReadyLinks, Linking, Object, HasFd
<1>4. KeptBy(u)'
  BY <1>2, <1>3 DEF KeptBy
<1>5. Untouched(u)
  BY DEF TypeOK, Crash, Goto, Untouched, AcceptedBy, SocksOf
<1> QED
  BY <1>1, <1>4, <1>5, Combine

-----------------------------------------------------------------------------
(* A failed icom_init frees what it has.                                   *)

\* The label that fits the stage.
Fits(label, p, i) ==
  \/ label = failure_initFields /\ p = "fields"
  \/ label = failure_initStrArray /\ p \in {"type", "flags", "strings"}
  \/ label = failure_malloc_connections /\ p = "links"
  \/ label = failure_initGeneric /\ p = "unwind" /\ i = 0

\* Nothing is left, and nothing is freed that is not held.
LEMMA FreedEmpty ==
  ASSUME NEW u \in User, NEW c \in Configs[u], NEW p, NEW i \in Nat,
         NEW h \in Heap, NEW label \in 1..4, Fits(label, p, i),
         Stage(c, p, i), Holds(c, p, i, h, 0), Buffers(c, p, i, h)
  PROVE  /\ Freed(h, c, label) \in Heap
         /\ Holds(c, "none", i, Freed(h, c, label), 0)
         /\ Buffers(c, "none", i, Freed(h, c, label))
<1> DEFINE g == Freed(h, c, label)
<1>1. FieldBlocks(c) \in Nat
  BY ConfigFacts
<1>2. p \in {"links", "unwind"} => StringBlocks(ComCount(c)) \in Nat
  BY ParsedFacts DEF Stage
<1>3. p \in {"fields", "type", "flags", "strings", "links", "unwind"}
  BY DEF Fits
<1>4. /\ h.pdata = 0 /\ h.ip = 0 /\ h.fd = 0 /\ h.icom = 1 /\ h.recvBuf \in Nat
      /\ h.flags \in Nat /\ h.lost \in Nat
      /\ h.fields = IF p = "fields" THEN 0 ELSE FieldBlocks(c)
      /\ h.strings = IF p \in {"links", "unwind"} THEN StringBlocks(ComCount(c)) ELSE 0
      /\ h.links = IF p = "unwind" THEN 1 ELSE 0
  BY <1>3 DEF Fits, Heap, Holds, Ready, Linking, Object, HasFd
<1>6. PICK fb \in Nat : fb = FieldBlocks(c)
  BY <1>1
<1>7. PICK sb : sb = StringBlocks(ComCount(c))
  OBVIOUS
<1>8. h = [icom |-> h.icom, fields |-> h.fields, flags |-> h.flags,
           strings |-> h.strings, lost |-> h.lost, links |-> h.links,
           pdata |-> h.pdata, ip |-> h.ip, recvBuf |-> h.recvBuf, fd |-> h.fd]
  BY DEF Heap
<1>9. PICK wi, wf, ws, wl :
        /\ wi = h.icom - 1
        /\ wf = h.fields - (IF label >= 2 THEN fb ELSE 0)
        /\ ws = h.strings - (IF label >= 3 THEN sb ELSE 0)
        /\ wl = h.links - (IF label >= 4 THEN 1 ELSE 0)
  OBVIOUS
<1>10. g = [h EXCEPT !.links = wl, !.strings = ws, !.fields = wf, !.icom = wi]
  BY <1>6, <1>7, <1>9
     DEF Freed, failure_initStrArray, failure_malloc_connections, failure_initGeneric
<1>11. g = [icom |-> wi, fields |-> wf, flags |-> h.flags, strings |-> ws,
            lost |-> h.lost, links |-> wl,
            pdata |-> h.pdata, ip |-> h.ip, recvBuf |-> h.recvBuf, fd |-> h.fd]
  BY <1>8, <1>10
<1>12. /\ g.pdata = 0 /\ g.ip = 0 /\ g.fd = 0 /\ g.icom = 0 /\ g.recvBuf = h.recvBuf
       /\ g.fields = 0 /\ g.strings = 0 /\ g.links = 0
       /\ g.flags = h.flags /\ g.lost = h.lost
       /\ g = [icom |-> g.icom, fields |-> g.fields, flags |-> g.flags,
               strings |-> g.strings, lost |-> g.lost, links |-> g.links,
               pdata |-> g.pdata, ip |-> g.ip, recvBuf |-> g.recvBuf, fd |-> g.fd]
  BY <1>2, <1>4, <1>6, <1>7, <1>9, <1>11
     DEF Fits, failure_initFields, failure_initStrArray,
         failure_malloc_connections, failure_initGeneric
<1>13. g \in Heap
  BY <1>4, <1>12 DEF Heap
<1> QED
  BY <1>4, <1>12, <1>13 DEF Holds, Buffers, Ready, Linking, Object, HasFd

\* Equal but for the blocks that nobody frees.
Alike(h, g) ==
  /\ h.icom = g.icom /\ h.fields = g.fields /\ h.strings = g.strings
  /\ h.links = g.links /\ h.pdata = g.pdata /\ h.ip = g.ip
  /\ h.recvBuf = g.recvBuf /\ h.fd = g.fd

LEMMA FailKeeps ==
  ASSUME TypeOK, NEW u \in User, NEW status \in Nat, NEW label \in 1..4,
         NEW h \in Heap, Alike(h, heap[u]),
         Fail(u, status, label, h), Fits(label, pc[u], at[u]), faults' \in 0..MaxFaults,
         \A v \in User : KeptBy(v)
  PROVE  HeldInv'
<1> DEFINE g == Freed(h, cfg[u], label)
<1>1. Kept(u, cfg[u], pc[u], at[u], heap[u], AcceptedBy(u), SocksOf(u))
  BY DEF KeptBy
<1>2. pc[u] \notin Object /\ pc[u] # "crashed"
  BY DEF Fits, Object
<1>3. AcceptedBy(u) = {} /\ Cardinality(AcceptedBy(u)) = 0
  BY <1>1, <1>2, NoneAccepted DEF Kept
<1>4. ReadyLinks(cfg[u], pc[u], at[u]) = {}
  BY DEF Fits, ReadyLinks, Linking
<1>5. SocksOf(u) = {}
  BY <1>1, <1>4 DEF Kept, Fits, Sockets
<1>6. /\ g \in Heap
      /\ Holds(cfg[u], "none", at[u], g, 0)
      /\ Buffers(cfg[u], "none", at[u], g)
  <2>1. Holds(cfg[u], pc[u], at[u], h, 0) /\ Buffers(cfg[u], pc[u], at[u], h)
    BY <1>1, <1>2, <1>3 DEF Kept, Holds, Buffers, Alike
  <2> QED
    BY <1>1, <2>1, FreedEmpty DEF Kept, TypeOK
<1>7. Kept(u, cfg[u], "none", at[u], g, {}, {})
  BY <1>6, FS_EmptySet
     DEF Kept, Stage, Entitled, Sockets, ReadyLinks, Linking, Object, HasFd
<1>8. TypeOK'
  BY <1>6 DEF TypeOK, Fail, Goto, Pc, net
<1>9. /\ pc'[u] = "none" /\ cfg'[u] = cfg[u] /\ at'[u] = at[u] /\ heap'[u] = g
      /\ AcceptedBy(u)' = {} /\ SocksOf(u)' = {}
  BY <1>3, <1>5, NetUntouched DEF TypeOK, Fail, Goto
<1>10. KeptBy(u)'
  BY <1>7, <1>9 DEF KeptBy
<1>11. Untouched(u)
  BY NetUntouched DEF TypeOK, Fail, Goto, Untouched
<1> QED
  BY <1>8, <1>10, <1>11, Combine

LEMMA FailAsIs ==
  ASSUME TypeOK, NEW u \in User, NEW status \in Nat, NEW label \in 1..4,
         Fail(u, status, label, heap[u]), Fits(label, pc[u], at[u]),
         faults' \in 0..MaxFaults, \A v \in User : KeptBy(v)
  PROVE  HeldInv'
<1>1. heap[u] \in Heap /\ Alike(heap[u], heap[u])
  BY DEF TypeOK, Alike
<1> QED
  BY <1>1, FailKeeps

-----------------------------------------------------------------------------
(* A link that fails.                                                      *)

\* The links before it stay ready, the socket of its own is gone.
LEMMA LinkFailsKeeps ==
  ASSUME TypeOK, NEW u \in User, NEW status \in Nat, NEW h \in Heap,
         LinkFails(u, status, h), pc[u] \in Linking, faults' \in 0..MaxFaults,
         UNCHANGED accepted, socks' \subseteq socks,
         SocksOf(u)' = Sockets(u, cfg[u], "link", at[u]),
         \A v \in User : v # u => SocksOf(v)' = SocksOf(v),
         Holds(cfg[u], "link", at[u], h, 0), Buffers(cfg[u], "link", at[u], h),
         \A v \in User : KeptBy(v)
  PROVE  HeldInv'
<1>1. Kept(u, cfg[u], pc[u], at[u], heap[u], AcceptedBy(u), SocksOf(u))
  BY DEF KeptBy
<1>2. /\ Parsed(cfg[u]) /\ at[u] \in 1..ComCount(cfg[u])
      /\ \A j \in 1..(at[u] - 1) : ComStrings(cfg[u])[j] \in Port
  BY <1>1 DEF Kept, Stage, ReadyLinks, Linking
<1>3. AcceptedBy(u) = {} /\ Cardinality(AcceptedBy(u)) = 0
  BY <1>1, NoneAccepted DEF Kept, Linking, Object
<1>4. ComCount(cfg[u]) \in Nat
  BY <1>2, ParsedFacts DEF TypeOK
<1>5. PICK i \in Nat : i = at[u] - 1 /\ i \in 0..(ComCount(cfg[u]) - 1)
  BY <1>2, <1>4
<1>6. /\ Ready(cfg[u], "link", at[u]) = i /\ Ready(cfg[u], "unwind", i) = i
      /\ ReadyLinks(cfg[u], "link", at[u]) = 1..i
      /\ ReadyLinks(cfg[u], "unwind", i) = 1..i
  BY <1>5 DEF Ready, ReadyLinks, Linking
<1>7. /\ Holds(cfg[u], "unwind", i, h, 0) /\ Buffers(cfg[u], "unwind", i, h)
      /\ SocksOf(u)' = Sockets(u, cfg[u], "unwind", i)
  BY <1>6 DEF Holds, Buffers, Sockets, Linking, Object, HasFd
<1>8. Stage(cfg[u], "unwind", i)
  BY <1>2, <1>5, <1>6 DEF Stage, Linking, Object, HasFd
<1>9. Kept(u, cfg[u], "unwind", i, h, {}, Sockets(u, cfg[u], "unwind", i))
  BY <1>7, <1>8, FS_EmptySet DEF Kept, Entitled
<1>10. TypeOK'
  BY <1>5 DEF TypeOK, LinkFails, Goto, Pc, UnwindFrom
<1>11. AcceptedBy(u)' = {} /\ \A v : AcceptedBy(v)' = AcceptedBy(v)
  BY <1>3 DEF AcceptedBy
<1>12. /\ pc'[u] = "unwind" /\ cfg'[u] = cfg[u] /\ at'[u] = i /\ heap'[u] = h
       /\ AcceptedBy(u)' = {} /\ SocksOf(u)' = Sockets(u, cfg[u], "unwind", i)
  BY <1>5, <1>7, <1>11 DEF TypeOK, LinkFails, Goto, UnwindFrom
<1>13. KeptBy(u)'
  BY <1>9, <1>12 DEF KeptBy
<1>14. Untouched(u)
  BY <1>11 DEF TypeOK, LinkFails, Goto, Untouched
<1> QED
  BY <1>10, <1>13, <1>14, Combine

-----------------------------------------------------------------------------
(* icom_init up to the links.                                              *)

\* What the invariant says of one user.
LEMMA UserFacts ==
  ASSUME HeldInv, NEW u \in User
  PROVE  /\ pc[u] \in Pc /\ cfg[u] \in Configs[u] /\ at[u] \in Nat
         /\ heap[u] \in Heap /\ ret[u] \in Nat
         /\ Kept(u, cfg[u], pc[u], at[u], heap[u], AcceptedBy(u), SocksOf(u))
BY DEF HeldInv, TypeOK, KeptBy

LEMMA HeapFields ==
  ASSUME NEW h \in Heap
  PROVE  /\ h.icom \in Nat /\ h.fields \in Nat /\ h.strings \in Nat /\ h.links \in Nat
         /\ h.pdata \in Nat /\ h.ip \in Nat /\ h.recvBuf \in Nat /\ h.fd \in Nat
         /\ h.flags \in Nat /\ h.lost \in Nat
BY DEF Heap

\* Blocks that nobody frees.
LEMMA FlaggedHeap ==
  ASSUME TypeOK, NEW u \in User
  PROVE  /\ Flagged(u) \in Heap /\ Alike(Flagged(u), heap[u])
         /\ Flagged(u).flags = heap[u].flags + FlagBlocks(cfg[u])
         /\ Flagged(u).lost = heap[u].lost
<1>1. heap[u] \in Heap /\ cfg[u] \in Configs[u]
  BY DEF TypeOK
<1>2. PICK fb \in Nat : fb = FlagBlocks(cfg[u])
  BY <1>1, ConfigFacts
<1>3. Flagged(u) = [heap[u] EXCEPT !.flags = heap[u].flags + fb]
  BY <1>2 DEF Flagged
<1> QED
  BY <1>1, <1>2, <1>3 DEF Heap, Alike

LEMMA LostFew ==
  ASSUME NEW c, NEW k \in LostStrings(c)
  PROVE  k \in {0, 2, 3}
BY DEF LostStrings

LEMMA LostHeap ==
  ASSUME TypeOK, NEW u \in User, NEW k \in Nat, NEW g,
         g = [heap[u] EXCEPT !.lost = @ + k]
  PROVE  /\ g \in Heap /\ Alike(g, heap[u])
         /\ g.flags = heap[u].flags /\ g.lost = heap[u].lost + k
<1>1. heap[u] \in Heap
  BY DEF TypeOK
<1> QED
  BY <1>1 DEF Heap, Alike

\* A link takes or gives back its structure and its descriptor.
Reopened(h, m, n) == [h EXCEPT !.pdata = m, !.fd = n]

LEMMA ReopenedHeap ==
  ASSUME NEW h \in Heap, NEW m \in Nat, NEW n \in Nat
  PROVE  LET g == Reopened(h, m, n)
         IN  /\ g \in Heap
             /\ g.icom = h.icom /\ g.fields = h.fields /\ g.strings = h.strings
             /\ g.links = h.links /\ g.pdata = m /\ g.ip = h.ip
             /\ g.recvBuf = h.recvBuf /\ g.fd = n
BY DEF Heap, Reopened

LEMMA FaultTyped ==
  ASSUME TypeOK, Fault
  PROVE  faults' \in 0..MaxFaults
BY LifecycleAssumption DEF TypeOK, Fault

LEMMA StartKeeps ==
  ASSUME HeldInv, NEW u \in User, Start(u)
  PROVE  HeldInv'
<1>1. PICK c \in Configs[u] : cfg' = [cfg EXCEPT ![u] = c]
  BY DEF Start
<1>2. /\ TypeOK /\ pc[u] = "none"
      /\ Kept(u, cfg[u], "none", at[u], heap[u], AcceptedBy(u), SocksOf(u))
  BY UserFacts DEF HeldInv, Start
<1>3. AcceptedBy(u) = {} /\ Cardinality(AcceptedBy(u)) = 0
  BY <1>2, NoneAccepted DEF Kept, Object
<1>4. SocksOf(u) = {}
  BY <1>2 DEF Kept, Sockets, ReadyLinks, Linking
<1>5. /\ heap[u] \in Heap
      /\ Holds(cfg[u], "none", at[u], heap[u], 0)
      /\ Buffers(cfg[u], "none", at[u], heap[u])
  BY <1>2, <1>3 DEF Kept, TypeOK
<1>6. /\ inits' \in [User -> 0..MaxInits] /\ cfg'[u] = c /\ at'[u] = at[u]
      /\ cfg' \in [User -> AnyConfig]
      /\ \A v \in User : cfg'[v] \in Configs[v]
      /\ AcceptedBy(u)' = {} /\ SocksOf(u)' = {}
  BY <1>1, <1>2, <1>3, <1>4, NetUntouched, LifecycleAssumption
     DEF TypeOK, Start, AnyConfig
<1>7. CASE Goto(u, "fields") /\ heap' = [heap EXCEPT ![u].icom = @ + 1]
           /\ UNCHANGED <<ret, faults>>
  <2> DEFINE g == [heap[u] EXCEPT !.icom = @ + 1]
  <2>1. /\ g.icom = heap[u].icom + 1 /\ g.fields = heap[u].fields
        /\ g.strings = heap[u].strings /\ g.links = heap[u].links
        /\ g.pdata = heap[u].pdata /\ g.ip = heap[u].ip
        /\ g.recvBuf = heap[u].recvBuf /\ g.fd = heap[u].fd /\ g \in Heap
    BY <1>5 DEF Heap
  <2>2. /\ Holds(c, "fields", at[u], g, 0) /\ Buffers(c, "fields", at[u], g)
    BY <1>5, <2>1 DEF Holds, Buffers, Ready, Linking, Object, HasFd, Heap
  <2>3. Kept(u, c, "fields", at[u], g, {}, {})
    BY <2>2, FS_EmptySet
       DEF Kept, Stage, Entitled, Sockets, ReadyLinks, Linking, Object, HasFd
  <2>4. heap'[u] = g /\ pc'[u] = "fields"
    BY <1>2, <1>7 DEF TypeOK, Goto
  <2>5. TypeOK'
    BY <1>2, <1>6, <1>7, <2>1 DEF TypeOK, Goto, Start, Pc, net
  <2>6. KeptBy(u)'
    BY <1>6, <2>3, <2>4 DEF KeptBy
  <2>7. Untouched(u)
    BY <1>1, <1>2, <1>7, NetUntouched DEF TypeOK, Goto, Start, Untouched
  <2> QED
    BY <2>5, <2>6, <2>7, Combine DEF HeldInv
<1>8. CASE Fault /\ ret' = [ret EXCEPT ![u] = ENOMEM] /\ UNCHANGED <<pc, heap>>
  <2>1. Holds(c, "none", at[u], heap[u], 0) /\ Buffers(c, "none", at[u], heap[u])
    BY <1>5 DEF Holds, Buffers, Ready, Linking, Object, HasFd, Heap
  <2>2. Kept(u, c, "none", at[u], heap[u], {}, {})
    BY <2>1, FS_EmptySet
       DEF Kept, Stage, Entitled, Sockets, ReadyLinks, Linking, Object, HasFd
  <2>3. TypeOK'
    BY <1>2, <1>6, <1>8, FaultTyped DEF TypeOK, Start, net, ENOMEM
  <2>4. KeptBy(u)'
    BY <1>2, <1>6, <1>8, <2>2 DEF KeptBy
  <2>5. Untouched(u)
    BY <1>1, <1>2, <1>8, NetUntouched DEF TypeOK, Start, Untouched
  <2> QED
    BY <2>3, <2>4, <2>5, Combine DEF HeldInv
<1> QED
  BY <1>7, <1>8 DEF Start

\* In the stages before the links there is nothing to lose but what fails.
LEMMA EarlyKept ==
  ASSUME NEW u \in User, NEW c \in Configs[u], NEW p, NEW q, NEW i \in Nat,
         NEW h \in Heap, NEW g \in Heap, NEW A, NEW S,
         Kept(u, c, p, i, h, A, S),
         p \in {"fields", "type", "flags", "strings"},
         q \in {"type", "flags", "strings", "links"},
         q = "links" => Parsed(c),
         g.icom = h.icom, g.links = h.links, g.pdata = h.pdata, g.ip = h.ip,
         g.recvBuf = h.recvBuf, g.fd = h.fd, g.fields = FieldBlocks(c),
         g.strings = IF q = "links" THEN StringBlocks(ComCount(c)) ELSE 0
  PROVE  Kept(u, c, q, i, g, A, S)
<1>1. A = {} /\ Cardinality(A) = 0
  BY NoneAccepted DEF Kept, Object
<1>2. Holds(c, p, i, h, 0) /\ Buffers(c, p, i, h) /\ S = Sockets(u, c, p, i)
  BY <1>1 DEF Kept
<1>3. Holds(c, q, i, g, 0) /\ Buffers(c, q, i, g)
  BY <1>2 DEF Holds, Buffers, Ready, Linking, Object, HasFd
<1>4. S = Sockets(u, c, q, i) /\ Stage(c, q, i)
  BY <1>2 DEF Sockets, ReadyLinks, Stage, Linking, Object, HasFd
<1>5. Entitled(u, c, q, i, A)
  BY <1>1, FS_EmptySet DEF Entitled
<1> QED
  BY <1>1, <1>3, <1>4, <1>5 DEF Kept

\* What a user holds before the links.
LEMMA EarlyHeap ==
  ASSUME HeldInv, NEW u \in User, pc[u] \in {"fields", "type", "flags", "strings"}
  PROVE  /\ heap[u].fields = IF pc[u] = "fields" THEN 0 ELSE FieldBlocks(cfg[u])
         /\ heap[u].strings = 0
<1>1. Kept(u, cfg[u], pc[u], at[u], heap[u], AcceptedBy(u), SocksOf(u))
  BY UserFacts
<1> QED
  BY <1>1 DEF Kept, Holds, Linking, Object

LEMMA InitFieldsKeeps ==
  ASSUME HeldInv, NEW u \in User, InitFields(u)
  PROVE  HeldInv'
<1>1. TypeOK /\ (\A v \in User : KeptBy(v)) /\ pc[u] = "fields"
  BY DEF HeldInv, InitFields
<1>2. ASSUME Step(u, "type", [heap[u] EXCEPT !.fields = @ + FieldBlocks(cfg[u])])
      PROVE  HeldInv'
  <2> DEFINE g == [heap[u] EXCEPT !.fields = @ + FieldBlocks(cfg[u])]
  <2>1. PICK fb \in Nat : fb = FieldBlocks(cfg[u])
    BY ConfigFacts, UserFacts
  <2>2. heap[u] \in Heap /\ heap[u].fields = 0 /\ heap[u].strings = 0
    BY <1>1, EarlyHeap, UserFacts
  <2>3. /\ g.icom = heap[u].icom /\ g.fields = fb
        /\ g.strings = heap[u].strings /\ g.links = heap[u].links
        /\ g.pdata = heap[u].pdata /\ g.ip = heap[u].ip
        /\ g.recvBuf = heap[u].recvBuf /\ g.fd = heap[u].fd /\ g \in Heap
    BY <2>1, <2>2 DEF Heap
  <2>4. /\ cfg[u] \in Configs[u] /\ at[u] \in Nat
        /\ Kept(u, cfg[u], "fields", at[u], heap[u], AcceptedBy(u), SocksOf(u))
    BY <1>1, UserFacts
  <2>5. PICK gg \in Heap :
          /\ gg = g
          /\ gg.icom = heap[u].icom /\ gg.links = heap[u].links
          /\ gg.pdata = heap[u].pdata /\ gg.ip = heap[u].ip
          /\ gg.recvBuf = heap[u].recvBuf /\ gg.fd = heap[u].fd
          /\ gg.fields = FieldBlocks(cfg[u])
          /\ gg.strings = IF "type" = "links" THEN StringBlocks(ComCount(cfg[u])) ELSE 0
    BY <2>1, <2>2, <2>3
  <2>6. Kept(u, cfg[u], "type", at[u], gg, AcceptedBy(u), SocksOf(u))
    <3>1. /\ "fields" \in {"fields", "type", "flags", "strings"}
          /\ "type" \in {"type", "flags", "strings", "links"}
          /\ "type" = "links" => Parsed(cfg[u])
      OBVIOUS
    <3> QED
      BY <2>2, <2>4, <2>5, <3>1, EarlyKept
  <2>7. Kept(u, cfg[u], "type", at[u], g, AcceptedBy(u), SocksOf(u))
    BY <2>5, <2>6
  <2> QED
    BY <1>1, <1>2, <2>3, <2>7, StepKeeps DEF Pc
<1>3. ASSUME Fault, Fail(u, EINVAL, failure_initFields, heap[u])
      PROVE  HeldInv'
  BY <1>1, <1>3, FaultTyped, FailAsIs DEF Fits, EINVAL, failure_initFields
<1> QED
  BY <1>2, <1>3 DEF InitFields

LEMMA StringToTypeKeeps ==
  ASSUME HeldInv, NEW u \in User, StringToType(u)
  PROVE  HeldInv'
<1>1. TypeOK /\ (\A v \in User : KeptBy(v)) /\ pc[u] = "type"
  BY DEF HeldInv, StringToType
<1>2. ASSUME Step(u, "flags", heap[u])
      PROVE  HeldInv'
  <2>1. Kept(u, cfg[u], "flags", at[u], heap[u], AcceptedBy(u), SocksOf(u))
    BY <1>1, EarlyHeap, EarlyKept, UserFacts
  <2> QED
    BY <1>1, <1>2, <2>1, StepKeeps, UserFacts DEF Pc
<1>3. ASSUME Fail(u, ELOOKUP, failure_initStrArray, heap[u]), UNCHANGED faults
      PROVE  HeldInv'
  BY <1>1, <1>3, FailAsIs DEF Fits, ELOOKUP, failure_initStrArray, TypeOK
<1> QED
  BY <1>2, <1>3 DEF StringToType

LEMMA StringToFlagsKeeps ==
  ASSUME HeldInv, NEW u \in User, StringToFlags(u)
  PROVE  HeldInv'
<1>1. TypeOK /\ (\A v \in User : KeptBy(v)) /\ pc[u] = "flags"
  BY DEF HeldInv, StringToFlags
<1>2. PICK g \in Heap : g = Flagged(u) /\ Alike(g, heap[u])
  BY <1>1, FlaggedHeap
<1>3. ASSUME Step(u, "strings", g)
      PROVE  HeldInv'
  <2>1. Kept(u, cfg[u], "strings", at[u], g, AcceptedBy(u), SocksOf(u))
    BY <1>1, <1>2, EarlyHeap, EarlyKept, UserFacts DEF Alike
  <2> QED
    BY <1>1, <1>3, <2>1, StepKeeps, UserFacts DEF Pc
<1>4. ASSUME faults' \in 0..MaxFaults,
             \/ Fail(u, ELOOKUP, failure_initStrArray, g)
             \/ Fail(u, ELOOKUP, failure_initStrArray, heap[u])
      PROVE  HeldInv'
  BY <1>1, <1>2, <1>4, FailKeeps, FailAsIs DEF Fits, ELOOKUP, failure_initStrArray
<1>5. ASSUME Crash(u), UNCHANGED faults
      PROVE  HeldInv'
  BY <1>1, <1>5, CrashKeeps DEF TypeOK
<1>6. UNCHANGED faults => faults' \in 0..MaxFaults
  BY <1>1 DEF TypeOK
<1> QED
  BY <1>1, <1>2, <1>3, <1>4, <1>5, <1>6, FaultTyped DEF StringToFlags

LEMMA InitStringsKeeps ==
  ASSUME HeldInv, NEW u \in User, InitStrings(u)
  PROVE  HeldInv'
<1> DEFINE sb == StringBlocks(Len(ComStrings(cfg[u])))
           g  == [heap[u] EXCEPT !.strings = @ + sb]
<1>1. TypeOK /\ (\A v \in User : KeptBy(v)) /\ pc[u] = "strings"
  BY DEF HeldInv, InitStrings
<1>2. ASSUME Parsed(cfg[u]), Step(u, "links", g)
      PROVE  HeldInv'
  <2>1. PICK n \in Nat : n = sb /\ n = StringBlocks(ComCount(cfg[u]))
    BY <1>2, ParsedFacts, UserFacts
  <2>2. /\ heap[u] \in Heap /\ heap[u].fields = FieldBlocks(cfg[u])
        /\ heap[u].strings = 0
    BY <1>1, EarlyHeap, UserFacts
  <2>3. /\ g.icom = heap[u].icom /\ g.fields = heap[u].fields
        /\ g.strings = n /\ g.links = heap[u].links
        /\ g.pdata = heap[u].pdata /\ g.ip = heap[u].ip
        /\ g.recvBuf = heap[u].recvBuf /\ g.fd = heap[u].fd /\ g \in Heap
    BY <2>1, <2>2 DEF Heap
  <2>4. /\ cfg[u] \in Configs[u] /\ at[u] \in Nat
        /\ Kept(u, cfg[u], "strings", at[u], heap[u], AcceptedBy(u), SocksOf(u))
    BY <1>1, UserFacts
  <2>5. PICK gg \in Heap :
          /\ gg = g
          /\ gg.icom = heap[u].icom /\ gg.links = heap[u].links
          /\ gg.pdata = heap[u].pdata /\ gg.ip = heap[u].ip
          /\ gg.recvBuf = heap[u].recvBuf /\ gg.fd = heap[u].fd
          /\ gg.fields = FieldBlocks(cfg[u])
          /\ gg.strings = StringBlocks(ComCount(cfg[u]))
    BY <2>1, <2>2, <2>3
  <2>6. Kept(u, cfg[u], "links", at[u], gg, AcceptedBy(u), SocksOf(u))
    BY <1>2, <2>2, <2>4, <2>5, EarlyKept
  <2>7. Kept(u, cfg[u], "links", at[u], g, AcceptedBy(u), SocksOf(u))
    BY <2>5, <2>6
  <2> QED
    BY <1>1, <1>2, <2>3, <2>7, StepKeeps DEF Pc
<1>3. ASSUME Fail(u, EINVAL, failure_initStrArray, heap[u]), faults' \in 0..MaxFaults
      PROVE  HeldInv'
  BY <1>1, <1>3, FailAsIs DEF Fits, EINVAL, failure_initStrArray
<1>4. ASSUME faults' \in 0..MaxFaults, NEW k \in LostStrings(cfg[u]),
             Fail(u, EINVAL, failure_initStrArray, [heap[u] EXCEPT !.lost = @ + k])
      PROVE  HeldInv'
  <2>1. PICK w \in Heap : w = [heap[u] EXCEPT !.lost = @ + k] /\ Alike(w, heap[u])
    <3>1. k \in Nat
      BY LostFew
    <3>2. PICK w : w = [heap[u] EXCEPT !.lost = @ + k]
      OBVIOUS
    <3>3. w \in Heap /\ Alike(w, heap[u])
      BY <1>1, <3>1, <3>2, LostHeap
    <3> QED
      BY <3>2, <3>3
  <2> QED
    BY <1>1, <1>4, <2>1, FailKeeps DEF Fits, EINVAL, failure_initStrArray
<1>5. ASSUME Crash(u), faults' \in 0..MaxFaults
      PROVE  HeldInv'
  BY <1>1, <1>5, CrashKeeps
<1>6. UNCHANGED faults => faults' \in 0..MaxFaults
  BY <1>1 DEF TypeOK
<1> QED
  BY <1>1, <1>2, <1>3, <1>4, <1>5, <1>6, FaultTyped DEF InitStrings, Parsed

LEMMA AllocLinksKeeps ==
  ASSUME HeldInv, NEW u \in User, AllocLinks(u)
  PROVE  HeldInv'
<1>1. /\ TypeOK /\ (\A v \in User : KeptBy(v)) /\ pc[u] = "links"
      /\ cfg[u] \in Configs[u] /\ at[u] \in Nat /\ heap[u] \in Heap
      /\ Kept(u, cfg[u], "links", at[u], heap[u], AcceptedBy(u), SocksOf(u))
  BY UserFacts DEF HeldInv, AllocLinks
<1>2. ASSUME Goto(u, "link"), heap' = [heap EXCEPT ![u].links = @ + 1],
             at' = [at EXCEPT ![u] = 1], UNCHANGED <<cfg, ret, net, inits, left, faults>>
      PROVE  HeldInv'
  <2>1. Parsed(cfg[u]) /\ ComCount(cfg[u]) \in Nat \ {0}
    BY <1>1, ParsedFacts DEF Kept, Stage
  <2>2. AcceptedBy(u) = {} /\ Cardinality(AcceptedBy(u)) = 0
    BY <1>1, NoneAccepted DEF Kept, Object
  <2>3. SocksOf(u) = {}
    BY <1>1 DEF Kept, Sockets, ReadyLinks, Linking
  <2>4. /\ Holds(cfg[u], "links", at[u], heap[u], 0)
        /\ Buffers(cfg[u], "links", at[u], heap[u])
    BY <1>1, <2>2 DEF Kept
  <2> DEFINE w == [heap[u] EXCEPT !.links = @ + 1]
  <2>5. /\ w.icom = heap[u].icom /\ w.links = heap[u].links + 1
        /\ w.pdata = heap[u].pdata /\ w.ip = heap[u].ip
        /\ w.recvBuf = heap[u].recvBuf /\ w.fd = heap[u].fd
        /\ w.fields = heap[u].fields /\ w.strings = heap[u].strings /\ w \in Heap
    BY <1>1 DEF Heap
  <2>6. PICK g \in Heap :
          /\ g = w
          /\ g.icom = heap[u].icom /\ g.links = heap[u].links + 1
          /\ g.pdata = heap[u].pdata /\ g.ip = heap[u].ip
          /\ g.recvBuf = heap[u].recvBuf /\ g.fd = heap[u].fd
          /\ g.fields = heap[u].fields /\ g.strings = heap[u].strings
    BY <2>5
  <2>7. Holds(cfg[u], "link", 1, g, 0) /\ Buffers(cfg[u], "link", 1, g)
    BY <2>4, <2>6 DEF Holds, Buffers, Ready, Linking, Object, HasFd
  <2>8. ReadyLinks(cfg[u], "link", 1) = {}
    BY DEF ReadyLinks, Linking
  <2>9. PICK n \in Nat \ {0} : n = ComCount(cfg[u])
    BY <2>1
  <2>10. 1 \in 1..n
    BY <2>9
  <2>11. Stage(cfg[u], "link", 1) /\ Sockets(u, cfg[u], "link", 1) = {}
    BY <2>1, <2>8, <2>9, <2>10 DEF Stage, Sockets, Linking, Object, HasFd
  <2>12. Kept(u, cfg[u], "link", 1, g, {}, {})
    BY <2>7, <2>11, FS_EmptySet DEF Kept, Entitled
  <2>13. /\ pc'[u] = "link" /\ cfg'[u] = cfg[u] /\ at'[u] = 1 /\ heap'[u] = g
         /\ AcceptedBy(u)' = {} /\ SocksOf(u)' = {}
    BY <1>1, <1>2, <2>2, <2>3, <2>6, NetUntouched DEF TypeOK, Goto
  <2>14. heap' = [heap EXCEPT ![u] = g]
    BY <1>2, <2>6
  <2>15. TypeOK'
    BY <1>1, <1>2, <2>14 DEF TypeOK, Goto, Pc, net
  <2>16. KeptBy(u)'
    BY <2>12, <2>13 DEF KeptBy
  <2>17. Untouched(u)
    BY <1>1, <1>2, <2>14, NetUntouched DEF TypeOK, Goto, Untouched
  <2> QED
    BY <1>1, <2>15, <2>16, <2>17, Combine
<1>3. ASSUME Fault, Fail(u, ENOMEM, failure_malloc_connections, heap[u])
      PROVE  HeldInv'
  BY <1>1, <1>3, FaultTyped, FailAsIs DEF Fits, ENOMEM, failure_malloc_connections
<1> QED
  BY <1>2, <1>3 DEF AllocLinks

-----------------------------------------------------------------------------
(* The links.                                                              *)

\* Before a link's descriptor is open, a failure takes nothing with it.
LEMMA FailsUnopened ==
  ASSUME HeldInv, NEW u \in User, NEW status \in Nat,
         LinkFails(u, status, heap[u]), pc[u] = "link", faults' \in 0..MaxFaults,
         UNCHANGED net
  PROVE  HeldInv'
<1>1. /\ TypeOK /\ (\A v \in User : KeptBy(v))
      /\ cfg[u] \in Configs[u] /\ at[u] \in Nat /\ heap[u] \in Heap
      /\ Kept(u, cfg[u], "link", at[u], heap[u], AcceptedBy(u), SocksOf(u))
  BY UserFacts DEF HeldInv
<1>2. AcceptedBy(u) = {} /\ Cardinality(AcceptedBy(u)) = 0
  BY <1>1, NoneAccepted DEF Kept, Object
<1>3. /\ Holds(cfg[u], "link", at[u], heap[u], 0)
      /\ Buffers(cfg[u], "link", at[u], heap[u])
      /\ SocksOf(u) = Sockets(u, cfg[u], "link", at[u])
  BY <1>1, <1>2 DEF Kept
<1>4. \A v : SocksOf(v)' = SocksOf(v)
  BY NetUntouched
<1>5. UNCHANGED accepted /\ socks' \subseteq socks
  BY DEF net
<1> QED
  BY <1>1, <1>3, <1>4, <1>5, LinkFailsKeeps DEF Linking

LEMMA InitStubKeeps ==
  ASSUME HeldInv, NEW u \in User, InitStub(u)
  PROVE  HeldInv'
<1>1. /\ LinkFails(u, NIMPL, heap[u]) /\ pc[u] = "link" /\ UNCHANGED net
      /\ faults' \in 0..MaxFaults
  BY DEF InitStub, HeldInv, TypeOK
<1> QED
  BY <1>1, FailsUnopened DEF NIMPL

\* A descriptor is opened for a link that has an address.
LEMMA OpenSocketKeeps ==
  ASSUME HeldInv, NEW u \in User, NEW next \in {"setup", "bind"},
         pc[u] = "link", next = "bind" <=> cfg[u].type = "socket_rx",
         OpenSocket(u, next)
  PROVE  HeldInv'
<1>1. /\ TypeOK /\ (\A v \in User : KeptBy(v))
      /\ cfg[u] \in Configs[u] /\ at[u] \in Nat /\ heap[u] \in Heap
      /\ Kept(u, cfg[u], "link", at[u], heap[u], AcceptedBy(u), SocksOf(u))
  BY UserFacts DEF HeldInv
<1>2. ASSUME AddressOf(u) \in Port,
             Step(u, next, [heap[u] EXCEPT !.pdata = @ + 1, !.fd = @ + 1])
      PROVE  HeldInv'
  <2>1. AcceptedBy(u) = {} /\ Cardinality(AcceptedBy(u)) = 0
    BY <1>1, NoneAccepted DEF Kept, Object
  <2>2. /\ Holds(cfg[u], "link", at[u], heap[u], 0)
        /\ Buffers(cfg[u], "link", at[u], heap[u])
        /\ SocksOf(u) = Sockets(u, cfg[u], "link", at[u])
        /\ Stage(cfg[u], "link", at[u])
    BY <1>1, <2>1 DEF Kept
  <2>3. PICK m \in Nat, k \in Nat : m = heap[u].pdata + 1 /\ k = heap[u].fd + 1
    BY <1>1, HeapFields
  <2>4. PICK g : g = Reopened(heap[u], m, k)
    OBVIOUS
  <2>5. /\ g \in Heap
        /\ g.icom = heap[u].icom /\ g.links = heap[u].links
        /\ g.pdata = heap[u].pdata + 1 /\ g.ip = heap[u].ip
        /\ g.recvBuf = heap[u].recvBuf /\ g.fd = heap[u].fd + 1
        /\ g.fields = heap[u].fields /\ g.strings = heap[u].strings
    <3>1. heap[u] \in Heap
      BY <1>1
    <3>2. LET f == Reopened(heap[u], m, k)
          IN  /\ f \in Heap
              /\ f.icom = heap[u].icom /\ f.fields = heap[u].fields
              /\ f.strings = heap[u].strings /\ f.links = heap[u].links
              /\ f.pdata = m /\ f.ip = heap[u].ip
              /\ f.recvBuf = heap[u].recvBuf /\ f.fd = k
      BY <3>1, ReopenedHeap
    <3> QED
      BY <2>3, <2>4, <3>2
  <2>6. g = [heap[u] EXCEPT !.pdata = @ + 1, !.fd = @ + 1]
    BY <2>3, <2>4 DEF Reopened
  <2>7. /\ ReadyLinks(cfg[u], next, at[u]) = ReadyLinks(cfg[u], "link", at[u])
        /\ Ready(cfg[u], next, at[u]) = Ready(cfg[u], "link", at[u])
    BY DEF ReadyLinks, Ready, Linking
  <2>8. PICK n \in Nat : n = Ready(cfg[u], "link", at[u])
    BY <1>1, <2>2, ReadyCount
  <2>9. Holds(cfg[u], next, at[u], g, 0) /\ Buffers(cfg[u], next, at[u], g)
    BY <2>2, <2>5, <2>7, <2>8 DEF Holds, Buffers, Linking, Object, HasFd
  <2>10. Stage(cfg[u], next, at[u])
    BY <1>2, <2>2, <2>7 DEF Stage, Linking, Object, HasFd, AddressOf
  <2>11. SocksOf(u) = Sockets(u, cfg[u], next, at[u])
    BY <2>2, <2>7 DEF Sockets
  <2>12. Kept(u, cfg[u], next, at[u], g, AcceptedBy(u), SocksOf(u))
    BY <2>1, <2>9, <2>10, <2>11, FS_EmptySet DEF Kept, Entitled
  <2> QED
    BY <1>1, <1>2, <2>6, <2>5, <2>12, StepKeeps DEF Pc
<1>3. ASSUME AddressOf(u) \notin Port, LinkFails(u, EINVAL, heap[u]),
             UNCHANGED <<net, faults>>
      PROVE  HeldInv'
  BY <1>1, <1>3, FailsUnopened DEF EINVAL, TypeOK
<1>4. ASSUME Fault, UNCHANGED net,
             LinkFails(u, ENOMEM, heap[u]) \/ LinkFails(u, EMFILE, heap[u])
      PROVE  HeldInv'
  BY <1>1, <1>4, FaultTyped, FailsUnopened DEF ENOMEM, EMFILE
<1> QED
  BY <1>2, <1>3, <1>4 DEF OpenSocket

LEMMA OpenConnectingKeeps ==
  ASSUME HeldInv, NEW u \in User, OpenConnecting(u)
  PROVE  HeldInv'
<1>1. "setup" = "bind" <=> cfg[u].type = "socket_rx"
  BY DEF OpenConnecting
<1> QED
  BY <1>1, OpenSocketKeeps DEF OpenConnecting

LEMMA OpenListeningKeeps ==
  ASSUME HeldInv, NEW u \in User, OpenListening(u)
  PROVE  HeldInv'
BY OpenSocketKeeps DEF OpenListening

\* failure_bind and failure_listen give back what the link had opened.
LEMMA ClosedHolds ==
  ASSUME NEW u \in User, NEW c \in Configs[u], NEW p \in {"bind", "listen"},
         NEW i \in Nat, NEW h \in Heap,
         Stage(c, p, i), Holds(c, p, i, h, 0), Buffers(c, p, i, h)
  PROVE  /\ Closed(h) \in Heap
         /\ Holds(c, "link", i, Closed(h), 0)
         /\ Buffers(c, "link", i, Closed(h))
<1>1. PICK n \in Nat : n = Ready(c, p, i) /\ n = Ready(c, "link", i)
  BY ReadyCount DEF Ready, Linking
<1>2. h.pdata = n + 1 /\ h.fd = n + 1 /\ h.ip = n
  BY <1>1 DEF Holds, HasFd
<1>3. PICK m \in Nat : m = h.pdata - 1 /\ m = h.fd - 1 /\ m = n
  BY <1>1, <1>2
<1>4. Closed(h) = Reopened(h, m, m)
  BY <1>3 DEF Closed, Reopened
<1>5. PICK g : g = Reopened(h, m, m)
  OBVIOUS
<1>6. /\ g \in Heap
      /\ g.icom = h.icom /\ g.fields = h.fields /\ g.strings = h.strings
      /\ g.links = h.links /\ g.pdata = m /\ g.ip = h.ip
      /\ g.recvBuf = h.recvBuf /\ g.fd = m
  BY <1>5, ReopenedHeap
<1>7. Holds(c, "link", i, g, 0) /\ Buffers(c, "link", i, g)
  BY <1>1, <1>2, <1>3, <1>6 DEF Holds, Buffers, Linking, Object, HasFd
<1> QED
  BY <1>4, <1>5, <1>6, <1>7

\* The links of a listening object have sockets that listen.
LEMMA ListeningSockets ==
  ASSUME NEW u, NEW c, NEW i, c.type = "socket_rx"
  PROVE  /\ Sockets(u, c, "bind", i) = Sockets(u, c, "link", i)
         /\ Sockets(u, c, "listen", i) = Sockets(u, c, "link", i) \cup {Bound(u, c, i)}
         /\ Sockets(u, c, "setup", i) = Sockets(u, c, "link", i) \cup {Listening(u, c, i)}
         /\ \A s \in Sockets(u, c, "link", i) : s.listening = TRUE
BY DEF Sockets, ReadyLinks, Linking, Bound, Listening

LEMMA SameSocks ==
  ASSUME UNCHANGED socks
  PROVE  \A v : SocksOf(v)' = SocksOf(v)
BY DEF SocksOf

LEMMA SameAccepted ==
  ASSUME UNCHANGED accepted
  PROVE  \A v : AcceptedBy(v)' = AcceptedBy(v)
BY DEF AcceptedBy

LEMMA BindKeeps ==
  ASSUME HeldInv, NEW u \in User, Bind(u)
  PROVE  HeldInv'
<1>1. /\ TypeOK /\ (\A v \in User : KeptBy(v)) /\ pc[u] = "bind"
      /\ cfg[u] \in Configs[u] /\ at[u] \in Nat /\ heap[u] \in Heap
      /\ Kept(u, cfg[u], "bind", at[u], heap[u], AcceptedBy(u), SocksOf(u))
  BY UserFacts DEF HeldInv, Bind
<1>2. AcceptedBy(u) = {} /\ Cardinality(AcceptedBy(u)) = 0
  BY <1>1, NoneAccepted DEF Kept, Object
<1>3. /\ Holds(cfg[u], "bind", at[u], heap[u], 0)
      /\ Buffers(cfg[u], "bind", at[u], heap[u])
      /\ Stage(cfg[u], "bind", at[u])
      /\ SocksOf(u) = Sockets(u, cfg[u], "bind", at[u])
  BY <1>1, <1>2 DEF Kept
<1>4. cfg[u].type = "socket_rx" /\ ComStrings(cfg[u])[at[u]] \in Port
  BY <1>3 DEF Stage, HasFd
<1>5. PICK b, l, L :
        /\ b = Bound(u, cfg[u], at[u]) /\ b.user = u /\ b.listening = FALSE
        /\ l = Listening(u, cfg[u], at[u]) /\ l.user = u
        /\ b \in [user : User, link : Nat, port : Port, listening : BOOLEAN]
        /\ l \in [user : User, link : Nat, port : Port, listening : BOOLEAN]
        /\ L = Sockets(u, cfg[u], "link", at[u])
  <2>1. PICK q \in Port : q = ComStrings(cfg[u])[at[u]]
    BY <1>4
  <2>2. PICK b : b = [user |-> u, link |-> at[u], port |-> q, listening |-> FALSE]
    OBVIOUS
  <2>3. PICK l : l = [user |-> u, link |-> at[u], port |-> q, listening |-> TRUE]
    OBVIOUS
  <2>4. /\ b = Bound(u, cfg[u], at[u]) /\ b.user = u /\ b.listening = FALSE
        /\ l = Listening(u, cfg[u], at[u]) /\ l.user = u
    BY <2>1, <2>2, <2>3 DEF Bound, Listening
  <2>5. /\ b \in [user : User, link : Nat, port : Port, listening : BOOLEAN]
        /\ l \in [user : User, link : Nat, port : Port, listening : BOOLEAN]
    BY <1>1, <2>1, <2>2, <2>3
  <2> QED
    BY <2>4, <2>5
<1>6. /\ Sockets(u, cfg[u], "bind", at[u]) = L
      /\ Sockets(u, cfg[u], "listen", at[u]) = L \cup {b}
      /\ Sockets(u, cfg[u], "setup", at[u]) = L \cup {l}
      /\ \A s \in L : s.listening = TRUE
  <2>1. /\ Sockets(u, cfg[u], "bind", at[u]) = Sockets(u, cfg[u], "link", at[u])
        /\ Sockets(u, cfg[u], "listen", at[u])
             = Sockets(u, cfg[u], "link", at[u]) \cup {Bound(u, cfg[u], at[u])}
        /\ Sockets(u, cfg[u], "setup", at[u])
             = Sockets(u, cfg[u], "link", at[u]) \cup {Listening(u, cfg[u], at[u])}
        /\ \A s \in Sockets(u, cfg[u], "link", at[u]) : s.listening = TRUE
    BY <1>4, ListeningSockets
  <2> QED
    BY <1>5, <2>1
<1>7. faults' \in 0..MaxFaults /\ UNCHANGED accepted
  BY <1>1 DEF Bind, TypeOK
<1>8. ASSUME LinkFails(u, EADDRINUSE, Closed(heap[u])), UNCHANGED socks
      PROVE  HeldInv'
  <2>1. /\ Closed(heap[u]) \in Heap
        /\ Holds(cfg[u], "link", at[u], Closed(heap[u]), 0)
        /\ Buffers(cfg[u], "link", at[u], Closed(heap[u]))
    BY <1>1, <1>3, ClosedHolds
  <2>2. /\ SocksOf(u)' = Sockets(u, cfg[u], "link", at[u])
        /\ \A v \in User : v # u => SocksOf(v)' = SocksOf(v)
    BY <1>3, <1>8, <1>5, <1>6, SameSocks
  <2> QED
    BY <1>1, <1>7, <1>8, <2>1, <2>2, LinkFailsKeeps DEF Linking, EADDRINUSE
<1>9. ASSUME Goto(u, "listen"), socks' = socks \cup {SockOf(u, FALSE)},
             UNCHANGED <<cfg, at, heap, ret, inits, left>>
      PROVE  HeldInv'
  <2>1. SockOf(u, FALSE) = b
    BY <1>5 DEF SockOf, Bound, AddressOf
  <2>2. /\ SocksOf(u)' = Sockets(u, cfg[u], "listen", at[u])
        /\ \A v : v # u => SocksOf(v)' = SocksOf(v)
    <3>1. socks' = socks \cup {b}
      BY <1>9, <2>1
    <3>2. SocksOf(u)' = SocksOf(u) \cup {b}
      BY <1>5, <3>1 DEF SocksOf
    <3>3. \A v : v # u => SocksOf(v)' = SocksOf(v)
      BY <1>5, <3>1 DEF SocksOf
    <3> QED
      BY <1>3, <1>6, <3>2, <3>3
  <2>3. /\ Ready(cfg[u], "listen", at[u]) = Ready(cfg[u], "bind", at[u])
        /\ ReadyLinks(cfg[u], "listen", at[u]) = ReadyLinks(cfg[u], "bind", at[u])
    BY DEF Ready, ReadyLinks, Linking
  <2>4. /\ Holds(cfg[u], "listen", at[u], heap[u], 0)
        /\ Buffers(cfg[u], "listen", at[u], heap[u])
        /\ Stage(cfg[u], "listen", at[u])
    BY <1>3, <2>3 DEF Holds, Buffers, Stage, Linking, Object, HasFd
  <2>5. Kept(u, cfg[u], "listen", at[u], heap[u], {}, Sockets(u, cfg[u], "listen", at[u]))
    BY <2>4, FS_EmptySet DEF Kept, Entitled
  <2>6. socks' \subseteq [user : User, link : Nat, port : Port, listening : BOOLEAN]
    BY <1>1, <1>9, <1>5, <2>1 DEF TypeOK
  <2>7. TypeOK'
    BY <1>1, <1>7, <1>9, <2>6 DEF TypeOK, Goto, Pc
  <2>8. /\ pc'[u] = "listen" /\ cfg'[u] = cfg[u] /\ at'[u] = at[u] /\ heap'[u] = heap[u]
        /\ AcceptedBy(u)' = {}
    BY <1>1, <1>2, <1>7, <1>9 DEF TypeOK, Goto, AcceptedBy
  <2>9. KeptBy(u)'
    BY <2>2, <2>5, <2>8 DEF KeptBy
  <2>10. Untouched(u)
    BY <1>1, <1>7, <1>9, <2>2, SameAccepted DEF TypeOK, Goto, Untouched
  <2> QED
    BY <1>1, <2>7, <2>9, <2>10, Combine
<1> QED
  BY <1>8, <1>9 DEF Bind

LEMMA ListenKeeps ==
  ASSUME HeldInv, NEW u \in User, Listen(u)
  PROVE  HeldInv'
<1>1. /\ TypeOK /\ (\A v \in User : KeptBy(v)) /\ pc[u] = "listen"
      /\ cfg[u] \in Configs[u] /\ at[u] \in Nat /\ heap[u] \in Heap
      /\ Kept(u, cfg[u], "listen", at[u], heap[u], AcceptedBy(u), SocksOf(u))
  BY UserFacts DEF HeldInv, Listen
<1>2. AcceptedBy(u) = {} /\ Cardinality(AcceptedBy(u)) = 0
  BY <1>1, NoneAccepted DEF Kept, Object
<1>3. /\ Holds(cfg[u], "listen", at[u], heap[u], 0)
      /\ Buffers(cfg[u], "listen", at[u], heap[u])
      /\ Stage(cfg[u], "listen", at[u])
      /\ SocksOf(u) = Sockets(u, cfg[u], "listen", at[u])
  BY <1>1, <1>2 DEF Kept
<1>4. cfg[u].type = "socket_rx" /\ ComStrings(cfg[u])[at[u]] \in Port
  BY <1>3 DEF Stage, HasFd
<1>5. PICK b, l, L :
        /\ b = Bound(u, cfg[u], at[u]) /\ b.user = u /\ b.listening = FALSE
        /\ l = Listening(u, cfg[u], at[u]) /\ l.user = u
        /\ b \in [user : User, link : Nat, port : Port, listening : BOOLEAN]
        /\ l \in [user : User, link : Nat, port : Port, listening : BOOLEAN]
        /\ L = Sockets(u, cfg[u], "link", at[u])
  <2>1. PICK q \in Port : q = ComStrings(cfg[u])[at[u]]
    BY <1>4
  <2>2. PICK b : b = [user |-> u, link |-> at[u], port |-> q, listening |-> FALSE]
    OBVIOUS
  <2>3. PICK l : l = [user |-> u, link |-> at[u], port |-> q, listening |-> TRUE]
    OBVIOUS
  <2>4. /\ b = Bound(u, cfg[u], at[u]) /\ b.user = u /\ b.listening = FALSE
        /\ l = Listening(u, cfg[u], at[u]) /\ l.user = u
    BY <2>1, <2>2, <2>3 DEF Bound, Listening
  <2>5. /\ b \in [user : User, link : Nat, port : Port, listening : BOOLEAN]
        /\ l \in [user : User, link : Nat, port : Port, listening : BOOLEAN]
    BY <1>1, <2>1, <2>2, <2>3
  <2> QED
    BY <2>4, <2>5
<1>6. /\ Sockets(u, cfg[u], "bind", at[u]) = L
      /\ Sockets(u, cfg[u], "listen", at[u]) = L \cup {b}
      /\ Sockets(u, cfg[u], "setup", at[u]) = L \cup {l}
      /\ \A s \in L : s.listening = TRUE
  <2>1. /\ Sockets(u, cfg[u], "bind", at[u]) = Sockets(u, cfg[u], "link", at[u])
        /\ Sockets(u, cfg[u], "listen", at[u])
             = Sockets(u, cfg[u], "link", at[u]) \cup {Bound(u, cfg[u], at[u])}
        /\ Sockets(u, cfg[u], "setup", at[u])
             = Sockets(u, cfg[u], "link", at[u]) \cup {Listening(u, cfg[u], at[u])}
        /\ \A s \in Sockets(u, cfg[u], "link", at[u]) : s.listening = TRUE
    BY <1>4, ListeningSockets
  <2> QED
    BY <1>5, <2>1
<1>7. faults' \in 0..MaxFaults /\ UNCHANGED accepted
  BY <1>1 DEF Listen, TypeOK
<1>8. SockOf(u, FALSE) = b /\ SockOf(u, TRUE) = l
  BY <1>5 DEF SockOf, Bound, Listening, AddressOf
<1>9. SocksOf(u) = L \cup {b} /\ b \notin L
  BY <1>3, <1>5, <1>6
<1>10. ASSUME LinkFails(u, EADDRINUSE, Closed(heap[u])), socks' = socks \ {SockOf(u, FALSE)}
       PROVE  HeldInv'
  <2>1. /\ Closed(heap[u]) \in Heap
        /\ Holds(cfg[u], "link", at[u], Closed(heap[u]), 0)
        /\ Buffers(cfg[u], "link", at[u], Closed(heap[u]))
    BY <1>1, <1>3, ClosedHolds
  <2>2. socks' = socks \ {b} /\ socks' \subseteq socks
    BY <1>8, <1>10
  <2>3. SocksOf(u)' = L
    <3>1. SocksOf(u)' = SocksOf(u) \ {b}
      BY <1>5, <2>2 DEF SocksOf
    <3> QED
      BY <1>9, <3>1
  <2>4. \A v \in User : v # u => SocksOf(v)' = SocksOf(v)
    BY <1>5, <2>2 DEF SocksOf
  <2> QED
    BY <1>1, <1>7, <1>10, <1>5, <2>1, <2>2, <2>3, <2>4, LinkFailsKeeps
       DEF Linking, EADDRINUSE
<1>11. ASSUME Goto(u, "setup"),
              socks' = (socks \ {SockOf(u, FALSE)}) \cup {SockOf(u, TRUE)},
              UNCHANGED <<cfg, at, heap, ret, inits, left>>
       PROVE  HeldInv'
  <2>1. /\ SocksOf(u)' = Sockets(u, cfg[u], "setup", at[u])
        /\ \A v : v # u => SocksOf(v)' = SocksOf(v)
    <3>1. socks' = (socks \ {b}) \cup {l}
      BY <1>8, <1>11
    <3>2. SocksOf(u)' = (SocksOf(u) \ {b}) \cup {l}
      BY <1>5, <3>1 DEF SocksOf
    <3>3. \A v : v # u => SocksOf(v)' = SocksOf(v)
      BY <1>5, <3>1 DEF SocksOf
    <3> QED
      BY <1>9, <1>6, <3>2, <3>3
  <2>2. /\ Ready(cfg[u], "setup", at[u]) = Ready(cfg[u], "listen", at[u])
        /\ ReadyLinks(cfg[u], "setup", at[u]) = ReadyLinks(cfg[u], "listen", at[u])
    BY DEF Ready, ReadyLinks, Linking
  <2>3. /\ Holds(cfg[u], "setup", at[u], heap[u], 0)
        /\ Buffers(cfg[u], "setup", at[u], heap[u])
        /\ Stage(cfg[u], "setup", at[u])
    BY <1>3, <2>2 DEF Holds, Buffers, Stage, Linking, Object, HasFd
  <2>4. Kept(u, cfg[u], "setup", at[u], heap[u], {}, Sockets(u, cfg[u], "setup", at[u]))
    BY <2>3, FS_EmptySet DEF Kept, Entitled
  <2>5. socks' \subseteq [user : User, link : Nat, port : Port, listening : BOOLEAN]
    BY <1>1, <1>8, <1>11, <1>5 DEF TypeOK
  <2>6. TypeOK'
    BY <1>1, <1>7, <1>11, <2>5 DEF TypeOK, Goto, Pc
  <2>7. /\ pc'[u] = "setup" /\ cfg'[u] = cfg[u] /\ at'[u] = at[u] /\ heap'[u] = heap[u]
        /\ AcceptedBy(u)' = {}
    BY <1>1, <1>2, <1>7, <1>11 DEF TypeOK, Goto, AcceptedBy
  <2>8. KeptBy(u)'
    BY <2>1, <2>4, <2>7 DEF KeptBy
  <2>9. Untouched(u)
    BY <1>1, <1>7, <1>11, <2>1, SameAccepted DEF TypeOK, Goto, Untouched
  <2> QED
    BY <1>1, <2>6, <2>8, <2>9, Combine
<1> QED
  BY <1>10, <1>11 DEF Listen

\* The link joins the ready ones; behind the last one there is an object.
LEMMA SetupKept ==
  ASSUME NEW u \in User, NEW c \in Configs[u], NEW i \in Nat,
         NEW h \in Heap, NEW g \in Heap, NEW q \in {"link", "object"},
         q = "object" <=> i = ComCount(c),
         Stage(c, "setup", i), Holds(c, "setup", i, h, 0), Buffers(c, "setup", i, h),
         g.icom = h.icom, g.strings = h.strings, g.links = h.links, g.pdata = h.pdata,
         g.fd = h.fd, g.ip = h.ip + 1, g.recvBuf = h.recvBuf + 1,
         g.fields = IF q = "object" THEN 0 ELSE h.fields
  PROVE  Kept(u, c, q, i + 1, g, {}, Sockets(u, c, "setup", i))
<1>1. PICK n \in Nat : n = ComCount(c)
  BY ParsedFacts DEF Stage, Linking
<1>2. i \in 1..n /\ Parsed(c) /\ ComStrings(c)[i] \in Port
  BY <1>1 DEF Stage, Linking, HasFd
<1>3. PICK m \in Nat : m = i - 1
  BY <1>2
<1>4. ReadyLinks(c, "setup", i) = 1..m /\ Ready(c, "setup", i) = m
  BY <1>3 DEF ReadyLinks, Ready, Linking
<1>5. PICK k \in Nat : k = i + 1
  OBVIOUS
<1>6. ReadyLinks(c, q, k) = 1..i /\ Ready(c, q, k) = i
  <2>1. CASE q = "link"
    BY <1>5, <2>1 DEF ReadyLinks, Ready, Linking
  <2>2. CASE q = "object"
    BY <2>2 DEF ReadyLinks, Ready, Linking
  <2> QED
    BY <2>1, <2>2
<1>7. 1..i = 1..m \cup {i}
  BY <1>2, <1>3
<1>8. Stage(c, q, k)
  <2>1. \A j \in 1..i : ComStrings(c)[j] \in Port
    BY <1>2, <1>4, <1>7 DEF Stage
  <2>2. q = "link" => k \in 1..n
    BY <1>1, <1>2, <1>5
  <2> QED
    BY <1>1, <1>2, <1>6, <2>1, <2>2 DEF Stage, Linking, Object, HasFd
<1>9. Sockets(u, c, q, k) = Sockets(u, c, "setup", i)
  <2>1. {Listening(u, c, j) : j \in 1..i} =
          {Listening(u, c, j) : j \in 1..m} \cup {Listening(u, c, i)}
    BY <1>7
  <2> QED
    BY <1>4, <1>6, <2>1 DEF Sockets
<1>10. Holds(c, q, k, g, 0)
  <2>1. /\ h.icom = 1 /\ h.fields = FieldBlocks(c) /\ h.links = 1
        /\ h.strings = StringBlocks(ComCount(c))
        /\ h.pdata = i /\ h.ip = m /\ h.fd = i
    BY <1>3, <1>4 DEF Holds, Linking, Object, HasFd
  <2> QED
    BY <1>3, <1>6, <2>1 DEF Holds, Linking, Object, HasFd
<1>11. Buffers(c, q, k, g)
  <2>1. PICK r \in Nat : r = h.recvBuf
    BY HeapFields
  <2> QED
    BY <1>3, <1>4, <1>6, <2>1 DEF Buffers
<1>12. Kept(u, c, q, k, g, {}, Sockets(u, c, q, k))
  BY <1>8, <1>10, <1>11, FS_EmptySet DEF Kept, Entitled
<1> QED
  BY <1>5, <1>9, <1>12

LEMMA SetupKeeps ==
  ASSUME HeldInv, NEW u \in User, Setup(u)
  PROVE  HeldInv'
<1> DEFINE last == at[u] = ComCount(cfg[u])
           h == [heap[u] EXCEPT !.ip = @ + 1, !.recvBuf = @ + 1]
           w == IF last THEN [h EXCEPT !.fields = @ - FieldBlocks(cfg[u])] ELSE h
<1>1. /\ TypeOK /\ (\A v \in User : KeptBy(v)) /\ pc[u] = "setup"
      /\ cfg[u] \in Configs[u] /\ at[u] \in Nat /\ heap[u] \in Heap
      /\ Kept(u, cfg[u], "setup", at[u], heap[u], AcceptedBy(u), SocksOf(u))
  BY UserFacts DEF HeldInv, Setup
<1>2. AcceptedBy(u) = {} /\ Cardinality(AcceptedBy(u)) = 0
  BY <1>1, NoneAccepted DEF Kept, Object
<1>3. /\ Holds(cfg[u], "setup", at[u], heap[u], 0)
      /\ Buffers(cfg[u], "setup", at[u], heap[u])
      /\ Stage(cfg[u], "setup", at[u])
      /\ SocksOf(u) = Sockets(u, cfg[u], "setup", at[u])
  BY <1>1, <1>2 DEF Kept
<1>4. ASSUME Goto(u, IF last THEN "object" ELSE "link"),
             at' = [at EXCEPT ![u] = @ + 1],
             ret' = [ret EXCEPT ![u] = IF last THEN Pointer ELSE @],
             heap' = [heap EXCEPT ![u] = w],
             UNCHANGED <<cfg, net, inits, left, faults>>
      PROVE  HeldInv'
  <2>1. PICK q : q = IF last THEN "object" ELSE "link"
    OBVIOUS
  <2>2. PICK x \in Nat, y \in Nat : x = heap[u].ip + 1 /\ y = heap[u].recvBuf + 1
    BY <1>1, HeapFields
  <2>3. PICK fb \in Nat : fb = FieldBlocks(cfg[u]) /\ heap[u].fields = fb
    BY <1>1, <1>3, ConfigFacts DEF Holds, Linking
  <2>4. PICK z \in Nat : z = IF last THEN 0 ELSE heap[u].fields
    BY <2>3
  <2>5. PICK g : g = [heap[u] EXCEPT !.ip = x, !.recvBuf = y, !.fields = z]
    OBVIOUS
  <2>6. /\ g.icom = heap[u].icom /\ g.strings = heap[u].strings
        /\ g.links = heap[u].links /\ g.pdata = heap[u].pdata /\ g.fd = heap[u].fd
        /\ g.ip = x /\ g.recvBuf = y /\ g.fields = z /\ g \in Heap
    BY <1>1, <2>5 DEF Heap
  <2>7. w = g
    <3>1. h = [heap[u] EXCEPT !.ip = x, !.recvBuf = y]
      BY <2>2
    <3>2. CASE last
      <4>1. z = h.fields - FieldBlocks(cfg[u])
        BY <1>1, <2>3, <2>4, <3>2 DEF Heap
      <4> QED
        BY <1>1, <2>5, <3>1, <3>2, <4>1 DEF Heap
    <3>3. CASE ~last
      BY <1>1, <2>4, <2>5, <3>1, <3>3 DEF Heap
    <3> QED
      BY <3>2, <3>3
  <2>8. Kept(u, cfg[u], q, at[u] + 1, g, {}, Sockets(u, cfg[u], "setup", at[u]))
    BY <1>1, <1>3, <2>1, <2>2, <2>4, <2>6, SetupKept
  <2>9. /\ pc'[u] = q /\ cfg'[u] = cfg[u] /\ at'[u] = at[u] + 1 /\ heap'[u] = g
        /\ AcceptedBy(u)' = {} /\ SocksOf(u)' = Sockets(u, cfg[u], "setup", at[u])
    BY <1>1, <1>2, <1>3, <1>4, <2>1, <2>7, NetUntouched DEF TypeOK, Goto
  <2>10. TypeOK'
    BY <1>1, <1>4, <2>6, <2>7 DEF TypeOK, Goto, Pc, net, Pointer
  <2>11. KeptBy(u)'
    BY <2>8, <2>9 DEF KeptBy
  <2>12. Untouched(u)
    BY <1>1, <1>4, NetUntouched DEF TypeOK, Goto, Untouched
  <2> QED
    BY <1>1, <2>10, <2>11, <2>12, Combine
<1>5. ASSUME Fault, Crash(u)
      PROVE  HeldInv'
  BY <1>1, <1>5, FaultTyped, CrashKeeps
<1> QED
  BY <1>4, <1>5 DEF Setup

-----------------------------------------------------------------------------
(* icom_deinitSocket, in a failed icom_init and in icom_deinit.            *)

\* The link that is released leaves the ready ones.
LEMMA ReadyLess ==
  ASSUME NEW u \in User, NEW c \in Configs[u],
         NEW p \in {"unwind", "deinit"}, NEW i \in Nat, NEW k \in Nat,
         k = IF p = "unwind" THEN i - 1 ELSE i + 1,
         Stage(c, p, i), i \in ReadyLinks(c, p, i)
  PROVE  /\ ReadyLinks(c, p, k) = ReadyLinks(c, p, i) \ {i}
         /\ Ready(c, p, i) = Ready(c, p, k) + 1
         /\ Ready(c, p, k) \in Nat
         /\ Stage(c, p, k)
<1>1. PICK n \in Nat : n = ComCount(c) /\ Parsed(c)
  BY ParsedFacts DEF Stage, Object
<1>2. CASE p = "unwind"
  <2>1. ReadyLinks(c, p, k) = 1..k /\ Ready(c, p, k) = k
    BY <1>2 DEF ReadyLinks, Ready, Linking
  <2>2. ReadyLinks(c, p, i) = 1..i /\ Ready(c, p, i) = i
    BY <1>2 DEF ReadyLinks, Ready, Linking
  <2>3. i = k + 1 /\ k \in 0..(n - 1)
    BY <1>1, <1>2 DEF Stage
  <2>4. 1..k = 1..i \ {i}
    BY <2>3
  <2>5. Stage(c, p, k)
    BY <1>1, <1>2, <2>1, <2>2, <2>3, <2>4 DEF Stage, Linking, Object, HasFd
  <2> QED
    BY <2>1, <2>2, <2>3, <2>4, <2>5
<1>3. CASE p = "deinit"
  <2>1. PICK m : m = n - k + 1
    OBVIOUS
  <2>2. ReadyLinks(c, p, i) = i..n /\ Ready(c, p, i) = n - i + 1
    BY <1>1, <1>3 DEF ReadyLinks, Ready, Linking
  <2>3. ReadyLinks(c, p, k) = k..n /\ Ready(c, p, k) = m
    BY <1>1, <1>3, <2>1 DEF ReadyLinks, Ready, Linking
  <2>4. k = i + 1 /\ i \in 1..n
    BY <1>3, <1>1, <2>2 DEF Stage
  <2>5. m \in Nat /\ n - i + 1 = m + 1 /\ k \in 1..(n + 1)
    BY <2>1, <2>4
  <2>6. k..n = i..n \ {i}
    BY <2>4
  <2>7. Stage(c, p, k)
    BY <1>1, <1>3, <2>2, <2>3, <2>5, <2>6 DEF Stage, Linking, Object, HasFd
  <2> QED
    BY <2>2, <2>3, <2>5, <2>6, <2>7
<1> QED
  BY <1>2, <1>3

\* Nothing is released that is not held.
LEMMA DeinitHeld ==
  ASSUME NEW u \in User, NEW c \in Configs[u],
         NEW p \in {"unwind", "deinit"}, NEW i \in Nat,
         i \in ReadyLinks(c, p, i), NEW h \in Heap, NEW A, NEW S,
         Kept(u, c, p, i, h, A, S)
  PROVE  /\ h.fd >= 1 /\ h.ip >= 1 /\ h.pdata >= 1
         /\ <<u, i>> \in A => h.fd >= 2
         /\ c.type = "socket_rx" => h.recvBuf >= 1
<1>1. /\ Stage(c, p, i) /\ Entitled(u, c, p, i, A)
      /\ Holds(c, p, i, h, Cardinality(A)) /\ Buffers(c, p, i, h)
  BY DEF Kept
<1>2. PICK n \in Nat : n = Ready(c, p, i) /\ n >= 1
  <2>1. /\ Ready(c, p, i) \in Nat /\ IsFiniteSet(ReadyLinks(c, p, i))
        /\ Cardinality(ReadyLinks(c, p, i)) = Ready(c, p, i)
    BY <1>1, ReadyCount
  <2>2. Ready(c, p, i) # 0
    BY <2>1, FS_EmptySet
  <2> QED
    BY <2>1, <2>2
<1>3. PICK m \in Nat : m = Cardinality(A) /\ (<<u, i>> \in A => m >= 1)
  <2>1. IsFiniteSet(A) /\ Cardinality(A) \in Nat
    BY <1>1, AcceptedCount DEF Entitled
  <2>2. <<u, i>> \in A => Cardinality(A) # 0
    BY <2>1, FS_EmptySet
  <2> QED
    BY <2>1, <2>2
<1>4. h.fd = n + m /\ h.ip = n /\ h.pdata = n
  BY <1>1, <1>2, <1>3 DEF Holds, HasFd
<1>5. c.type = "socket_rx" => h.recvBuf >= n
  BY <1>1, <1>2 DEF Buffers
<1>6. h.recvBuf \in Nat
  BY HeapFields
<1> QED
  BY <1>2, <1>3, <1>4, <1>5, <1>6

\* closed: the descriptors icom_deinitSocket closes, the link's and that of
\* an accepted connection.
LEMMA DeinitKept ==
  ASSUME NEW u \in User, NEW c \in Configs[u],
         NEW p \in {"unwind", "deinit"}, NEW i \in Nat, NEW k \in Nat,
         k = IF p = "unwind" THEN i - 1 ELSE i + 1,
         i \in ReadyLinks(c, p, i), NEW h \in Heap, NEW A, NEW S,
         Kept(u, c, p, i, h, A, S), NEW closed \in Nat,
         closed = IF <<u, i>> \in A THEN 2 ELSE 1,
         NEW buf \in Nat, buf = IF c.type = "socket_rx" THEN 1 ELSE 0
  PROVE  \A g \in Heap :
              /\ g.icom = h.icom /\ g.fields = h.fields /\ g.strings = h.strings
              /\ g.links = h.links /\ g.fd = h.fd - closed /\ g.ip = h.ip - 1
              /\ g.pdata = h.pdata - 1 /\ g.recvBuf = h.recvBuf - buf
              => Kept(u, c, p, k, g, A \ {<<u, i>>}, {s \in S : s.link # i})
<1> DEFINE B == A \ {<<u, i>>}
           T == {s \in S : s.link # i}
<1>1. /\ Stage(c, p, i) /\ Entitled(u, c, p, i, A) /\ S = Sockets(u, c, p, i)
      /\ Holds(c, p, i, h, Cardinality(A)) /\ Buffers(c, p, i, h)
  BY DEF Kept
<1>2. /\ ReadyLinks(c, p, k) = ReadyLinks(c, p, i) \ {i}
      /\ Stage(c, p, k)
  BY <1>1, ReadyLess
<1>3. PICK n \in Nat : n = Ready(c, p, k) /\ Ready(c, p, i) = n + 1
  BY <1>1, ReadyLess
<1>4. IsFiniteSet(A) /\ Cardinality(A) \in Nat
  BY <1>1, AcceptedCount DEF Entitled
<1>5. /\ IsFiniteSet(B) /\ Cardinality(B) \in Nat
      /\ Cardinality(A) = Cardinality(B) + closed - 1
  <2>1. /\ IsFiniteSet(A \ {<<u, i>>})
        /\ Cardinality(A \ {<<u, i>>}) =
             IF <<u, i>> \in A THEN Cardinality(A) - 1 ELSE Cardinality(A)
    BY <1>4, FS_RemoveElement
  <2>2. Cardinality(B) \in Nat
    BY <2>1, FS_CardinalityType
  <2> QED
    BY <1>4, <2>1, <2>2
<1>6. Entitled(u, c, p, k, B)
  BY <1>1, <1>2, <1>5 DEF Entitled
<1>7. T = Sockets(u, c, p, k)
  <2>1. CASE c.type # "socket_rx"
    BY <1>1, <2>1 DEF Sockets
  <2>2. CASE c.type = "socket_rx"
    <3>1. /\ S = {Listening(u, c, j) : j \in ReadyLinks(c, p, i)}
          /\ Sockets(u, c, p, k) = {Listening(u, c, j) : j \in ReadyLinks(c, p, k)}
      BY <1>1, <2>2 DEF Sockets
    <3>2. \A j : Listening(u, c, j).link = j
      BY DEF Listening
    <3> QED
      BY <1>2, <3>1, <3>2
  <2> QED
    BY <2>1, <2>2
<1>8. /\ h.fd = n + 1 + Cardinality(A) /\ h.ip = n + 1 /\ h.pdata = n + 1
      /\ h.icom = 1 /\ h.links = 1
      /\ h.fields = IF p = "unwind" THEN FieldBlocks(c) ELSE 0
      /\ h.strings = StringBlocks(ComCount(c))
  BY <1>1, <1>3, <1>4 DEF Holds, Linking, Object, HasFd
<1>9. PICK r \in Nat : r = h.recvBuf
  BY HeapFields
<1>10. c.type = "socket_rx" => r >= n + 1
  BY <1>1, <1>3, <1>9 DEF Buffers
<1>11. h.fd - closed = n + Cardinality(B)
  BY <1>4, <1>5, <1>8, <1>9, <1>10
<1>12. ASSUME NEW g \in Heap,
              g.icom = h.icom, g.fields = h.fields, g.strings = h.strings,
              g.links = h.links, g.fd = h.fd - closed, g.ip = h.ip - 1,
              g.pdata = h.pdata - 1, g.recvBuf = h.recvBuf - buf
       PROVE  Kept(u, c, p, k, g, B, T)
  <2>1. Holds(c, p, k, g, Cardinality(B))
    BY <1>3, <1>5, <1>8, <1>11, <1>12 DEF Holds, Linking, Object, HasFd
  <2>2. Buffers(c, p, k, g)
    BY <1>3, <1>9, <1>10, <1>12 DEF Buffers
  <2> QED
    BY <1>2, <1>6, <1>7, <2>1, <2>2 DEF Kept
<1> QED
  BY <1>11, <1>12

\* One turn of the loop, in either direction.
LEMMA DeinitSocketKeeps ==
  ASSUME HeldInv, NEW u \in User, pc[u] \in {"unwind", "deinit"},
         at[u] \in ReadyLinks(cfg[u], pc[u], at[u]), NEW k \in Nat,
         k = IF pc[u] = "unwind" THEN at[u] - 1 ELSE at[u] + 1,
         at' = [at EXCEPT ![u] = k], DeinitSocket(u, at[u]),
         UNCHANGED <<pc, cfg, ret, inits, left, faults>>
  PROVE  HeldInv'
<1>1. /\ TypeOK /\ (\A v \in User : KeptBy(v))
      /\ cfg[u] \in Configs[u] /\ at[u] \in Nat /\ heap[u] \in Heap
      /\ Kept(u, cfg[u], pc[u], at[u], heap[u], AcceptedBy(u), SocksOf(u))
  BY UserFacts DEF HeldInv
<1>2. PICK i \in Nat : i = at[u]
  BY <1>1
<1>3. PICK closed \in Nat : closed = IF <<u, i>> \in accepted THEN 2 ELSE 1
  OBVIOUS
<1>4. closed = IF <<u, i>> \in AcceptedBy(u) THEN 2 ELSE 1
  BY <1>3 DEF AcceptedBy
<1>5. PICK buf \in Nat : buf = IF cfg[u].type = "socket_rx" THEN 1 ELSE 0
  OBVIOUS
<1>6. /\ heap[u].fd - closed \in Nat /\ heap[u].ip - 1 \in Nat
      /\ heap[u].pdata - 1 \in Nat /\ heap[u].recvBuf - buf \in Nat
  <2>1. PICK p \in {"unwind", "deinit"} : p = pc[u]
    OBVIOUS
  <2>2. /\ k = IF p = "unwind" THEN i - 1 ELSE i + 1
        /\ i \in ReadyLinks(cfg[u], p, i)
        /\ Kept(u, cfg[u], p, i, heap[u], AcceptedBy(u), SocksOf(u))
    BY <1>1, <1>2, <2>1
  <2>3. /\ heap[u].fd >= 1 /\ heap[u].ip >= 1 /\ heap[u].pdata >= 1
        /\ <<u, i>> \in AcceptedBy(u) => heap[u].fd >= 2
        /\ cfg[u].type = "socket_rx" => heap[u].recvBuf >= 1
    BY <1>1, <2>2, DeinitHeld
  <2>4. PICK f \in Nat, x \in Nat, y \in Nat, r \in Nat :
          f = heap[u].fd /\ x = heap[u].ip /\ y = heap[u].pdata /\ r = heap[u].recvBuf
    BY <1>1, HeapFields
  <2> QED
    BY <1>4, <1>5, <2>3, <2>4
<1>7. PICK a \in Nat, b \in Nat, d \in Nat, e \in Nat :
        a = heap[u].fd - closed /\ b = heap[u].ip - 1 /\ d = heap[u].pdata - 1
        /\ e = heap[u].recvBuf - buf
  BY <1>6
<1>8. PICK g : g = [heap[u] EXCEPT !.fd = a, !.ip = b, !.pdata = d, !.recvBuf = e]
  OBVIOUS
<1>9. /\ g \in Heap /\ g.icom = heap[u].icom /\ g.fields = heap[u].fields
      /\ g.strings = heap[u].strings /\ g.links = heap[u].links
      /\ g.fd = a /\ g.ip = b /\ g.pdata = d /\ g.recvBuf = e
  BY <1>1, <1>8 DEF Heap
<1>10. Kept(u, cfg[u], pc[u], k, g, AcceptedBy(u) \ {<<u, i>>},
            {s \in SocksOf(u) : s.link # i})
  BY <1>1, <1>2, <1>4, <1>5, <1>7, <1>9, DeinitKept
<1>11. heap' = [heap EXCEPT ![u] = g]
  BY <1>1, <1>2, <1>3, <1>5, <1>7, <1>8 DEF DeinitSocket, IsRx, TypeOK, Heap
<1>12. /\ socks' = {s \in socks : ~(s.user = u /\ s.link = i)}
       /\ accepted' = accepted \ {<<u, i>>}
  BY <1>2 DEF DeinitSocket
<1>13. TypeOK'
  BY <1>1, <1>9, <1>11, <1>12 DEF TypeOK
<1>14. /\ AcceptedBy(u)' = AcceptedBy(u) \ {<<u, i>>}
       /\ SocksOf(u)' = {s \in SocksOf(u) : s.link # i}
  BY <1>12 DEF AcceptedBy, SocksOf
<1>15. pc'[u] = pc[u] /\ cfg'[u] = cfg[u] /\ at'[u] = k /\ heap'[u] = g
  BY <1>1, <1>11 DEF TypeOK
<1>16. KeptBy(u)'
  BY <1>10, <1>14, <1>15 DEF KeptBy
<1>17. ASSUME NEW v \in User, v # u
       PROVE  AcceptedBy(v)' = AcceptedBy(v) /\ SocksOf(v)' = SocksOf(v)
  BY <1>12, <1>17 DEF AcceptedBy, SocksOf
<1>18. Untouched(u)
  BY <1>1, <1>11, <1>17 DEF TypeOK, Untouched
<1> QED
  BY <1>1, <1>13, <1>16, <1>18, Combine

LEMMA UnwindLinkKeeps ==
  ASSUME HeldInv, NEW u \in User, UnwindLink(u)
  PROVE  HeldInv'
<1>1. at[u] \in Nat /\ at[u] >= 1 /\ pc[u] = "unwind"
  BY UserFacts DEF UnwindLink
<1>2. PICK k \in Nat : k = at[u] - 1
  BY <1>1
<1>3. k = IF pc[u] = "unwind" THEN at[u] - 1 ELSE at[u] + 1
  BY <1>1, <1>2
<1>4. at[u] \in ReadyLinks(cfg[u], pc[u], at[u])
  BY <1>1 DEF ReadyLinks, Linking
<1>5. /\ at' = [at EXCEPT ![u] = k] /\ DeinitSocket(u, at[u])
      /\ UNCHANGED <<pc, cfg, ret, inits, left, faults>>
  BY <1>2 DEF UnwindLink
<1> QED
  BY <1>1, <1>3, <1>4, <1>5, DeinitSocketKeeps

LEMMA UnwindDoneKeeps ==
  ASSUME HeldInv, NEW u \in User, UnwindDone(u)
  PROVE  HeldInv'
<1>1. /\ TypeOK /\ (\A v \in User : KeptBy(v)) /\ pc[u] = "unwind" /\ at[u] = 0
      /\ Fail(u, ret[u], failure_initGeneric, heap[u]) /\ ret[u] \in Nat
      /\ faults' \in 0..MaxFaults
  BY DEF HeldInv, UnwindDone, TypeOK
<1> QED
  BY <1>1, FailAsIs DEF Fits, failure_initGeneric

LEMMA DeinitKeeps ==
  ASSUME HeldInv, NEW u \in User, Deinit(u)
  PROVE  HeldInv'
<1>1. /\ TypeOK /\ (\A v \in User : KeptBy(v)) /\ pc[u] = "object"
      /\ cfg[u] \in Configs[u] /\ at[u] \in Nat /\ heap[u] \in Heap
      /\ Kept(u, cfg[u], "object", at[u], heap[u], AcceptedBy(u), SocksOf(u))
  BY UserFacts DEF HeldInv, Deinit
<1>2. /\ Stage(cfg[u], "object", at[u])
      /\ Entitled(u, cfg[u], "object", at[u], AcceptedBy(u))
      /\ Holds(cfg[u], "object", at[u], heap[u], Cardinality(AcceptedBy(u)))
      /\ Buffers(cfg[u], "object", at[u], heap[u])
      /\ SocksOf(u) = Sockets(u, cfg[u], "object", at[u])
  BY <1>1 DEF Kept
<1>3. PICK n \in Nat \ {0} : n = ComCount(cfg[u]) /\ Parsed(cfg[u])
  BY <1>1, <1>2, ParsedFacts DEF Stage, Object
<1>4. /\ ReadyLinks(cfg[u], "object", at[u]) = 1..n
      /\ ReadyLinks(cfg[u], "deinit", 1) = 1..n
      /\ Ready(cfg[u], "object", at[u]) = n /\ Ready(cfg[u], "deinit", 1) = n
  BY <1>3 DEF ReadyLinks, Ready, Linking
<1>5. Stage(cfg[u], "deinit", 1)
  <2>1. 1 \in 1..(n + 1)
    OBVIOUS
  <2> QED
    BY <1>2, <1>3, <1>4, <2>1 DEF Stage, Linking, Object, HasFd
<1>6. Entitled(u, cfg[u], "deinit", 1, AcceptedBy(u))
  BY <1>2, <1>4 DEF Entitled, Object
<1>7. /\ Holds(cfg[u], "deinit", 1, heap[u], Cardinality(AcceptedBy(u)))
      /\ Buffers(cfg[u], "deinit", 1, heap[u])
      /\ SocksOf(u) = Sockets(u, cfg[u], "deinit", 1)
  BY <1>2, <1>4 DEF Holds, Buffers, Sockets, Linking, Object, HasFd
<1>8. Kept(u, cfg[u], "deinit", 1, heap[u], AcceptedBy(u), SocksOf(u))
  BY <1>5, <1>6, <1>7 DEF Kept
<1>9. TypeOK'
  BY <1>1 DEF TypeOK, Deinit, Goto, Pc, net
<1>10. /\ pc'[u] = "deinit" /\ cfg'[u] = cfg[u] /\ at'[u] = 1 /\ heap'[u] = heap[u]
       /\ AcceptedBy(u)' = AcceptedBy(u) /\ SocksOf(u)' = SocksOf(u)
  BY <1>1, NetUntouched DEF TypeOK, Deinit, Goto
<1>11. KeptBy(u)'
  BY <1>8, <1>10 DEF KeptBy
<1>12. Untouched(u)
  BY <1>1, NetUntouched DEF TypeOK, Deinit, Goto, Untouched
<1> QED
  BY <1>1, <1>9, <1>11, <1>12, Combine

LEMMA DeinitLinkKeeps ==
  ASSUME HeldInv, NEW u \in User, DeinitLink(u)
  PROVE  HeldInv'
<1>1. at[u] \in Nat /\ at[u] \in Links(u) /\ pc[u] = "deinit" /\ cfg[u] \in Configs[u]
      /\ Stage(cfg[u], "deinit", at[u])
  BY UserFacts DEF DeinitLink, Kept
<1>2. PICK k \in Nat : k = at[u] + 1
  BY <1>1
<1>3. k = IF pc[u] = "unwind" THEN at[u] - 1 ELSE at[u] + 1
  BY <1>1, <1>2
<1>4. at[u] \in ReadyLinks(cfg[u], pc[u], at[u])
  <2>1. PICK n \in Nat : n = ComCount(cfg[u])
    BY <1>1, ParsedFacts DEF Stage, Object
  <2> QED
    BY <1>1, <2>1 DEF ReadyLinks, Linking, Links
<1>5. /\ at' = [at EXCEPT ![u] = k] /\ DeinitSocket(u, at[u])
      /\ UNCHANGED <<pc, cfg, ret, inits, left, faults>>
  BY <1>2 DEF DeinitLink
<1> QED
  BY <1>1, <1>3, <1>4, <1>5, DeinitSocketKeeps

LEMMA DeinitDoneKeeps ==
  ASSUME HeldInv, NEW u \in User, DeinitDone(u)
  PROVE  HeldInv'
<1>1. /\ TypeOK /\ (\A v \in User : KeptBy(v)) /\ pc[u] = "deinit"
      /\ cfg[u] \in Configs[u] /\ at[u] \in Nat /\ heap[u] \in Heap
      /\ Kept(u, cfg[u], "deinit", at[u], heap[u], AcceptedBy(u), SocksOf(u))
      /\ at[u] \notin Links(u)
  BY UserFacts DEF HeldInv, DeinitDone
<1>2. /\ Stage(cfg[u], "deinit", at[u])
      /\ Entitled(u, cfg[u], "deinit", at[u], AcceptedBy(u))
      /\ Holds(cfg[u], "deinit", at[u], heap[u], Cardinality(AcceptedBy(u)))
      /\ Buffers(cfg[u], "deinit", at[u], heap[u])
      /\ SocksOf(u) = Sockets(u, cfg[u], "deinit", at[u])
  BY <1>1 DEF Kept
<1>3. PICK n \in Nat \ {0} : n = ComCount(cfg[u]) /\ Parsed(cfg[u])
  BY <1>1, <1>2, ParsedFacts DEF Stage, Object
<1>4. at[u] = n + 1
  BY <1>1, <1>2, <1>3 DEF Stage, Links
<1>5. /\ ReadyLinks(cfg[u], "deinit", at[u]) = {}
      /\ Ready(cfg[u], "deinit", at[u]) = 0
  BY <1>3, <1>4 DEF ReadyLinks, Ready, Linking
<1>6. AcceptedBy(u) = {} /\ Cardinality(AcceptedBy(u)) = 0 /\ SocksOf(u) = {}
  BY <1>2, <1>5, FS_EmptySet DEF Entitled, Sockets
<1>7. PICK sb \in Nat : sb = StringBlocks(n)
  BY <1>1, <1>3, ParsedFacts
<1>8. /\ heap[u].icom = 1 /\ heap[u].fields = 0 /\ heap[u].strings = sb
      /\ heap[u].links = 1 /\ heap[u].pdata = 0 /\ heap[u].ip = 0 /\ heap[u].fd = 0
  BY <1>2, <1>3, <1>5, <1>6, <1>7 DEF Holds, Buffers, Linking, Object, HasFd
<1>9. PICK g : g = [heap[u] EXCEPT !.links = 0, !.icom = 0, !.strings = 0]
  OBVIOUS
<1>10. /\ g \in Heap /\ g.icom = 0 /\ g.fields = 0 /\ g.strings = 0 /\ g.links = 0
       /\ g.pdata = 0 /\ g.ip = 0 /\ g.fd = 0 /\ g.recvBuf = heap[u].recvBuf
  BY <1>1, <1>8, <1>9 DEF Heap
<1>11. heap' = [heap EXCEPT ![u] = g]
  <2>1. /\ heap[u].links - 1 = 0 /\ heap[u].icom - 1 = 0
        /\ heap[u].strings - StringBlocks(ComCount(cfg[u])) = 0
    BY <1>3, <1>7, <1>8
  <2> QED
    BY <1>1, <1>9, <2>1 DEF DeinitDone, TypeOK, Heap
<1>12. heap[u].recvBuf \in Nat
  BY <1>1, HeapFields
<1>13. /\ Holds(cfg[u], "none", at[u], g, 0) /\ Buffers(cfg[u], "none", at[u], g)
  BY <1>8, <1>10, <1>12 DEF Holds, Buffers, Ready, Linking, Object, HasFd
<1>14. Kept(u, cfg[u], "none", at[u], g, {}, {})
  BY <1>13, FS_EmptySet
     DEF Kept, Stage, Entitled, Sockets, ReadyLinks, Linking, Object, HasFd
<1>15. TypeOK'
  <2>1. pc' = [pc EXCEPT ![u] = "none"] /\ UNCHANGED <<cfg, at, ret, net, inits, left, faults>>
    BY DEF DeinitDone, Goto
  <2> QED
    BY <1>1, <1>10, <1>11, <2>1 DEF TypeOK, Pc, net
<1>16. /\ pc'[u] = "none" /\ cfg'[u] = cfg[u] /\ at'[u] = at[u] /\ heap'[u] = g
       /\ AcceptedBy(u)' = {} /\ SocksOf(u)' = {}
  BY <1>1, <1>6, <1>11, NetUntouched DEF TypeOK, DeinitDone, Goto
<1>17. KeptBy(u)'
  BY <1>14, <1>16 DEF KeptBy
<1>18. Untouched(u)
  BY <1>1, <1>11, NetUntouched DEF TypeOK, DeinitDone, Goto, Untouched
<1> QED
  BY <1>1, <1>15, <1>17, <1>18, Combine

-----------------------------------------------------------------------------
(* While the object is in use.                                             *)

LEMMA AcceptKeeps ==
  ASSUME HeldInv, NEW u \in User, NEW j \in Links(u), Accept(u, j)
  PROVE  HeldInv'
<1>1. /\ TypeOK /\ (\A v \in User : KeptBy(v)) /\ pc[u] = "object"
      /\ cfg[u] \in Configs[u] /\ at[u] \in Nat /\ heap[u] \in Heap
      /\ Kept(u, cfg[u], "object", at[u], heap[u], AcceptedBy(u), SocksOf(u))
      /\ cfg[u].type = "socket_rx" /\ <<u, j>> \notin accepted
  BY UserFacts DEF HeldInv, Accept, IsRx
<1>2. /\ Stage(cfg[u], "object", at[u])
      /\ Entitled(u, cfg[u], "object", at[u], AcceptedBy(u))
      /\ Holds(cfg[u], "object", at[u], heap[u], Cardinality(AcceptedBy(u)))
      /\ Buffers(cfg[u], "object", at[u], heap[u])
      /\ SocksOf(u) = Sockets(u, cfg[u], "object", at[u])
  BY <1>1 DEF Kept
<1>3. PICK n \in Nat \ {0} : n = ComCount(cfg[u])
  BY <1>1, <1>2, ParsedFacts DEF Stage, Object
<1>4. j \in 1..n /\ ReadyLinks(cfg[u], "object", at[u]) = 1..n
  BY <1>3 DEF ReadyLinks, Linking, Links
<1>5. PICK A : A = AcceptedBy(u)
  OBVIOUS
<1>6. /\ IsFiniteSet(A \cup {<<u, j>>}) /\ Cardinality(A) \in Nat
      /\ Cardinality(A \cup {<<u, j>>}) = Cardinality(A) + 1
  <2>1. IsFiniteSet(A) /\ <<u, j>> \notin A
    BY <1>1, <1>2, <1>5 DEF Entitled, AcceptedBy
  <2> QED
    BY <2>1, FS_AddElement, FS_CardinalityType
<1>7. Entitled(u, cfg[u], "object", at[u], A \cup {<<u, j>>})
  BY <1>1, <1>2, <1>4, <1>5, <1>6 DEF Entitled, Object
<1>8. PICK m \in Nat : m = heap[u].fd + 1
  BY <1>1, HeapFields
<1>9. PICK g : g = [heap[u] EXCEPT !.fd = m]
  OBVIOUS
<1>10. /\ g \in Heap /\ g.icom = heap[u].icom /\ g.fields = heap[u].fields
       /\ g.strings = heap[u].strings /\ g.links = heap[u].links
       /\ g.pdata = heap[u].pdata /\ g.ip = heap[u].ip /\ g.fd = m
       /\ g.recvBuf = heap[u].recvBuf
  BY <1>1, <1>9 DEF Heap
<1>11. /\ Holds(cfg[u], "object", at[u], g, Cardinality(A \cup {<<u, j>>}))
       /\ Buffers(cfg[u], "object", at[u], g)
  <2>1. Ready(cfg[u], "object", at[u]) = n
    BY <1>3 DEF Ready, Linking
  <2>2. PICK k \in Nat : k = Cardinality(A) /\ Cardinality(A \cup {<<u, j>>}) = k + 1
    BY <1>6
  <2> QED
    BY <1>2, <1>5, <1>8, <1>10, <2>1, <2>2 DEF Holds, Buffers, Linking, Object, HasFd
<1>12. Kept(u, cfg[u], "object", at[u], g, A \cup {<<u, j>>}, SocksOf(u))
  BY <1>2, <1>7, <1>11 DEF Kept
<1>13. heap' = [heap EXCEPT ![u] = g] /\ accepted' = accepted \cup {<<u, j>>}
  BY <1>8, <1>9 DEF Accept
<1>14. j \in Nat
  BY <1>4
<1>15. TypeOK'
  BY <1>1, <1>10, <1>13, <1>14 DEF TypeOK, Accept
<1>16. /\ pc'[u] = "object" /\ cfg'[u] = cfg[u] /\ at'[u] = at[u] /\ heap'[u] = g
       /\ AcceptedBy(u)' = A \cup {<<u, j>>}
  BY <1>1, <1>5, <1>13 DEF TypeOK, Accept, AcceptedBy
<1>17. \A v : SocksOf(v)' = SocksOf(v)
  BY SameSocks DEF Accept
<1>18. KeptBy(u)'
  BY <1>12, <1>16, <1>17 DEF KeptBy
<1>19. \A v : v # u => AcceptedBy(v)' = AcceptedBy(v)
  BY <1>13 DEF AcceptedBy
<1>20. Untouched(u)
  BY <1>1, <1>13, <1>17, <1>19 DEF TypeOK, Accept, Untouched
<1> QED
  BY <1>1, <1>15, <1>18, <1>20, Combine

LEMMA StutterKeeps ==
  ASSUME HeldInv, UNCHANGED vars
  PROVE  HeldInv'
<1>1. TypeOK'
  BY DEF HeldInv, TypeOK, vars
<1>2. ASSUME NEW v \in User PROVE KeptBy(v)'
  BY SameSocks, SameAccepted DEF HeldInv, KeptBy, vars
<1> QED
  BY <1>1, <1>2 DEF HeldInv

LEMMA InitKeeps ==
  ASSUME Init
  PROVE  HeldInv
<1>1. \A u \in User : cfg[u] \in Configs[u]
  BY LifecycleAssumption DEF Init
<1>2. Empty \in Heap
  BY DEF Empty, Heap
<1>3. cfg \in [User -> AnyConfig]
  BY <1>1 DEF Init, AnyConfig
<1>4. TypeOK
  BY <1>1, <1>2, <1>3, LifecycleAssumption DEF Init, TypeOK, Pc, SUCCESS
<1>5. ASSUME NEW u \in User PROVE KeptBy(u)
  <2>1. AcceptedBy(u) = {} /\ SocksOf(u) = {} /\ pc[u] = "none" /\ heap[u] = Empty
    BY DEF Init, AcceptedBy, SocksOf
  <2>2. /\ Holds(cfg[u], "none", at[u], Empty, 0)
        /\ Buffers(cfg[u], "none", at[u], Empty)
    BY DEF Holds, Buffers, Ready, Linking, Object, HasFd, Empty
  <2>3. Kept(u, cfg[u], "none", at[u], Empty, {}, {})
    BY <2>2, FS_EmptySet
       DEF Kept, Stage, Entitled, Sockets, ReadyLinks, Linking, Object, HasFd
  <2> QED
    BY <2>1, <2>3 DEF KeptBy
<1> QED
  BY <1>4, <1>5 DEF HeldInv

-----------------------------------------------------------------------------
(* What is left behind.                                                    *)

\* The numbers the amounts are made of.
LEMMA LeavesNumbers ==
  ASSUME HeldInv, NEW u \in User
  PROVE  /\ cfg[u] \in Configs[u] /\ at[u] \in Nat /\ pc[u] \in Pc /\ ret[u] \in Nat
         /\ heap[u] \in Heap /\ left[u] \in Heap
         /\ FlagBlocks(cfg[u]) \in Nat
         /\ Stage(cfg[u], pc[u], at[u])
         /\ Ready(cfg[u], pc[u], at[u]) \in Nat
<1>1. /\ cfg[u] \in Configs[u] /\ at[u] \in Nat /\ pc[u] \in Pc /\ ret[u] \in Nat
      /\ heap[u] \in Heap /\ left[u] \in Heap
      /\ Stage(cfg[u], pc[u], at[u])
  BY DEF HeldInv, TypeOK, KeptBy, Kept
<1> QED
  BY <1>1, ConfigFacts, ReadyCount

\* A step of u leaves what the other users have left behind alone.
Apart(u) ==
  \A v \in User : v # u =>
    /\ pc'[v] = pc[v] /\ cfg'[v] = cfg[v] /\ at'[v] = at[v]
    /\ heap'[v] = heap[v] /\ ret'[v] = ret[v] /\ left'[v] = left[v]

\* u goes on to stage p with the loop variable i, the blocks h and the result r.
Moves(u, p, r, i, h) ==
  /\ pc'[u] = p /\ cfg'[u] = cfg[u] /\ at'[u] = i
  /\ heap'[u] = h /\ ret'[u] = r /\ left'[u] = left[u]

LEMMA LeavesCombine ==
  ASSUME NEW u \in User, \A v \in User : LeavesBy(v), Apart(u), LeavesBy(u)'
  PROVE  \A v \in User : LeavesBy(v)'
<1>1. ASSUME NEW v \in User, v # u PROVE LeavesBy(v)'
  BY <1>1 DEF Apart, LeavesBy
<1> QED
  BY <1>1

LEMMA LeavesMoved ==
  ASSUME NEW u \in User, \A v \in User : LeavesBy(v), Apart(u),
         NEW p, NEW r, NEW i, NEW h, Moves(u, p, r, i, h),
         Leaves(cfg[u], p, r, i, h, left[u])
  PROVE  \A v \in User : LeavesBy(v)'
<1>1. LeavesBy(u)'
  BY DEF Moves, LeavesBy
<1> QED
  BY <1>1, LeavesCombine

\* The shapes of icom_init's steps.
LEMMA StepMoves ==
  ASSUME TypeOK, NEW u \in User, NEW p, NEW h, Step(u, p, h)
  PROVE  Apart(u) /\ Moves(u, p, ret[u], at[u], h)
BY DEF TypeOK, Step, Goto, Apart, Moves

LEMMA FailMoves ==
  ASSUME TypeOK, NEW u \in User, NEW status, NEW label, NEW h, Fail(u, status, label, h)
  PROVE  Apart(u) /\ Moves(u, "none", status, at[u], Freed(h, cfg[u], label))
BY DEF TypeOK, Fail, Goto, Apart, Moves

LEMMA CrashLeaves ==
  ASSUME TypeOK, NEW u \in User, Crash(u), \A v \in User : LeavesBy(v)
  PROVE  \A v \in User : LeavesBy(v)'
<1>1. Apart(u) /\ Moves(u, "crashed", ret[u], at[u], heap[u])
  BY DEF TypeOK, Crash, Goto, Apart, Moves
<1>2. Leaves(cfg[u], "crashed", ret[u], at[u], heap[u], left[u])
  BY DEF Leaves
<1> QED
  BY <1>1, <1>2, LeavesMoved

\* The labels at the end of icom_init free nothing of what is left behind.
LEMMA FreedLeft ==
  ASSUME NEW c, NEW label \in 1..4, NEW h \in Heap
  PROVE  /\ Freed(h, c, label).flags = h.flags
         /\ Freed(h, c, label).recvBuf = h.recvBuf
         /\ Freed(h, c, label).lost = h.lost
BY DEF Freed, Heap

\* A failure before the links: h is what is there when it goes to the label.
LEMMA FailLeaves ==
  ASSUME HeldInv, NEW u \in User, NEW status \in Nat, NEW label \in 1..4, NEW h \in Heap,
         Fail(u, status, label, h), \A v \in User : LeavesBy(v),
         status # Pointer, h.recvBuf = left[u].recvBuf,
         h.flags = left[u].flags \/ h.flags = left[u].flags + FlagBlocks(cfg[u]),
         \/ h.lost = left[u].lost
         \/ status = EINVAL /\ \E k \in {0, 2, 3} : h.lost = left[u].lost + k
  PROVE  \A v \in User : LeavesBy(v)'
<1> DEFINE g == Freed(h, cfg[u], label)
<1>1. /\ g.flags = h.flags /\ g.recvBuf = h.recvBuf /\ g.lost = h.lost
  BY FreedLeft
<1>2. /\ h.flags \in Nat /\ h.recvBuf \in Nat /\ h.lost \in Nat
      /\ left[u].flags \in Nat /\ left[u].recvBuf \in Nat /\ left[u].lost \in Nat
      /\ FlagBlocks(cfg[u]) \in Nat
  BY LeavesNumbers, HeapFields
<1>3. Ready(cfg[u], "none", at[u]) = 0
  BY DEF Ready, Linking
<1>4. g.flags - left[u].flags \in FlagsLeft(cfg[u], "none", status)
  BY <1>1, <1>2 DEF FlagsLeft
<1>5. g.recvBuf - left[u].recvBuf = 0
  BY <1>1, <1>2
<1>6. 0 \in BuffersLeft(cfg[u], "none", status, 0)
  BY DEF BuffersLeft
<1>7. g.lost - left[u].lost \in StringsLeft("none", status)
  BY <1>1, <1>2 DEF StringsLeft
<1>8. Leaves(cfg[u], "none", status, at[u], g, left[u])
  BY <1>3, <1>4, <1>5, <1>6, <1>7 DEF Leaves, Object
<1>9. Apart(u) /\ Moves(u, "none", status, at[u], g)
  BY FailMoves DEF HeldInv
<1> QED
  BY <1>8, <1>9, LeavesMoved

\* Before the links, no more than the flag strings can have been left behind.
LEMMA EarlyLeaves ==
  ASSUME HeldInv, NEW u \in User, LeavesBy(u),
         pc[u] \in {"fields", "type", "flags", "strings", "links"}
  PROVE  /\ heap[u].recvBuf = left[u].recvBuf /\ heap[u].lost = left[u].lost
         /\ heap[u].flags = IF pc[u] \in {"strings", "links"}
                            THEN left[u].flags + FlagBlocks(cfg[u]) ELSE left[u].flags
<1>1. /\ heap[u].flags \in Nat /\ heap[u].recvBuf \in Nat /\ heap[u].lost \in Nat
      /\ left[u].flags \in Nat /\ left[u].recvBuf \in Nat /\ left[u].lost \in Nat
      /\ FlagBlocks(cfg[u]) \in Nat
  BY LeavesNumbers, HeapFields
<1>2. /\ heap[u].flags - left[u].flags \in FlagsLeft(cfg[u], pc[u], ret[u])
      /\ heap[u].recvBuf - left[u].recvBuf \in
           BuffersLeft(cfg[u], pc[u], ret[u], Ready(cfg[u], pc[u], at[u]))
      /\ heap[u].lost - left[u].lost \in StringsLeft(pc[u], ret[u])
  BY DEF LeavesBy, Leaves
<1>3. Ready(cfg[u], pc[u], at[u]) = 0
  BY DEF Ready, Linking
<1>4. heap[u].recvBuf - left[u].recvBuf = 0
  BY <1>2, <1>3 DEF BuffersLeft
<1>5. heap[u].lost - left[u].lost = 0
  BY <1>2 DEF StringsLeft
<1>6. heap[u].flags - left[u].flags =
        IF pc[u] \in {"strings", "links"} THEN FlagBlocks(cfg[u]) ELSE 0
  BY <1>2 DEF FlagsLeft
<1> QED
  BY <1>1, <1>4, <1>5, <1>6

\* The next stage before the links.
LEMMA EarlyMoves ==
  ASSUME HeldInv, NEW u \in User, \A v \in User : LeavesBy(v), Apart(u),
         NEW p \in {"fields", "type", "flags", "strings", "links"}, NEW h \in Heap,
         NEW i, Moves(u, p, ret[u], i, h),
         h.recvBuf = left[u].recvBuf, h.lost = left[u].lost,
         h.flags = IF p \in {"strings", "links"}
                   THEN left[u].flags + FlagBlocks(cfg[u]) ELSE left[u].flags
  PROVE  \A v \in User : LeavesBy(v)'
<1>1. /\ left[u].flags \in Nat /\ left[u].recvBuf \in Nat /\ left[u].lost \in Nat
      /\ FlagBlocks(cfg[u]) \in Nat
  BY LeavesNumbers, HeapFields
<1>2. Ready(cfg[u], p, i) = 0
  BY DEF Ready, Linking
<1>3. h.recvBuf - left[u].recvBuf = 0 /\ h.lost - left[u].lost = 0
  BY <1>1
<1>4. h.flags - left[u].flags =
        IF p \in {"strings", "links"} THEN FlagBlocks(cfg[u]) ELSE 0
  BY <1>1
<1>5. 0 \in BuffersLeft(cfg[u], p, ret[u], 0) \/ cfg[u].type # "socket_rx"
  BY DEF BuffersLeft
<1>6. Leaves(cfg[u], p, ret[u], i, h, left[u])
  BY <1>2, <1>3, <1>4 DEF Leaves, FlagsLeft, BuffersLeft, StringsLeft, Object
<1> QED
  BY <1>6, LeavesMoved

LEMMA StartLeaves ==
  ASSUME HeldInv, NEW u \in User, \A v \in User : LeavesBy(v), Start(u)
  PROVE  \A v \in User : LeavesBy(v)'
<1>1. TypeOK
  BY DEF HeldInv
<1>2. PICK c \in Configs[u] : cfg' = [cfg EXCEPT ![u] = c]
  BY DEF Start
<1>3. cfg'[u] = c /\ left'[u] = heap[u] /\ at'[u] = at[u]
  BY <1>1, <1>2 DEF TypeOK, Start
<1>4. Apart(u)
  BY <1>1, <1>2 DEF TypeOK, Start, Goto, Apart
<1>5. heap[u] \in Heap /\ pc[u] = "none"
  BY <1>1 DEF TypeOK, Start
<1>6. PICK f \in Nat, b \in Nat, s \in Nat :
        f = heap[u].flags /\ b = heap[u].recvBuf /\ s = heap[u].lost
  BY <1>5, HeapFields
<1>7. CASE Goto(u, "fields") /\ heap' = [heap EXCEPT ![u].icom = @ + 1]
           /\ UNCHANGED <<ret, faults>>
  <2>1. PICK g : g = [heap[u] EXCEPT !.icom = @ + 1]
    OBVIOUS
  <2>2. g.flags = f /\ g.recvBuf = b /\ g.lost = s
    BY <1>5, <1>6, <2>1 DEF Heap
  <2>3. pc'[u] = "fields" /\ heap'[u] = g /\ ret'[u] = ret[u]
    BY <1>1, <1>7, <2>1 DEF TypeOK, Goto
  <2>4. Leaves(c, "fields", ret[u], at[u], g, heap[u])
    BY <1>6, <2>2 DEF Leaves, FlagsLeft, BuffersLeft, StringsLeft, Object, Ready, Linking
  <2>5. LeavesBy(u)'
    BY <1>3, <2>3, <2>4 DEF LeavesBy
  <2> QED
    BY <1>4, <2>5, LeavesCombine
<1>8. CASE Fault /\ ret' = [ret EXCEPT ![u] = ENOMEM] /\ UNCHANGED <<pc, heap>>
  <2>1. pc'[u] = "none" /\ heap'[u] = heap[u] /\ ret'[u] = ENOMEM
    BY <1>1, <1>5, <1>8 DEF TypeOK
  <2>2. Leaves(c, "none", ENOMEM, at[u], heap[u], heap[u])
    BY <1>6
       DEF Leaves, FlagsLeft, BuffersLeft, StringsLeft, Object, Ready, Linking, ENOMEM,
           EINVAL, Pointer
  <2>3. LeavesBy(u)'
    BY <1>3, <2>1, <2>2 DEF LeavesBy
  <2> QED
    BY <1>4, <2>3, LeavesCombine
<1> QED
  BY <1>7, <1>8 DEF Start

LEMMA InitFieldsLeaves ==
  ASSUME HeldInv, NEW u \in User, \A v \in User : LeavesBy(v), InitFields(u)
  PROVE  \A v \in User : LeavesBy(v)'
<1>1. /\ TypeOK /\ pc[u] = "fields" /\ heap[u] \in Heap
      /\ heap[u].recvBuf = left[u].recvBuf /\ heap[u].lost = left[u].lost
      /\ heap[u].flags = left[u].flags
  BY EarlyLeaves DEF HeldInv, TypeOK, InitFields
<1>2. ASSUME Step(u, "type", [heap[u] EXCEPT !.fields = @ + FieldBlocks(cfg[u])])
      PROVE  \A v \in User : LeavesBy(v)'
  <2>1. FieldBlocks(cfg[u]) \in Nat
    BY <1>1, ConfigFacts DEF TypeOK
  <2>2. PICK g \in Heap : /\ g = [heap[u] EXCEPT !.fields = @ + FieldBlocks(cfg[u])]
                          /\ g.recvBuf = heap[u].recvBuf /\ g.lost = heap[u].lost
                          /\ g.flags = heap[u].flags
    <3>1. PICK w : w = [heap[u] EXCEPT !.fields = @ + FieldBlocks(cfg[u])]
      OBVIOUS
    <3>2. /\ w \in Heap /\ w.recvBuf = heap[u].recvBuf /\ w.lost = heap[u].lost
          /\ w.flags = heap[u].flags
      BY <1>1, <2>1, <3>1 DEF Heap
    <3> QED
      BY <3>1, <3>2
  <2>3. Apart(u) /\ Moves(u, "type", ret[u], at[u], g)
    BY <1>1, <1>2, <2>2, StepMoves
  <2> QED
    BY <1>1, <2>2, <2>3, EarlyMoves
<1>3. ASSUME Fail(u, EINVAL, failure_initFields, heap[u])
      PROVE  \A v \in User : LeavesBy(v)'
  BY <1>1, <1>3, FailLeaves DEF EINVAL, Pointer, failure_initFields
<1> QED
  BY <1>2, <1>3 DEF InitFields

LEMMA StringToTypeLeaves ==
  ASSUME HeldInv, NEW u \in User, \A v \in User : LeavesBy(v), StringToType(u)
  PROVE  \A v \in User : LeavesBy(v)'
<1>1. /\ TypeOK /\ pc[u] = "type" /\ heap[u] \in Heap
      /\ heap[u].recvBuf = left[u].recvBuf /\ heap[u].lost = left[u].lost
      /\ heap[u].flags = left[u].flags
  BY EarlyLeaves DEF HeldInv, TypeOK, StringToType
<1>2. ASSUME Step(u, "flags", heap[u])
      PROVE  \A v \in User : LeavesBy(v)'
  <2>1. Apart(u) /\ Moves(u, "flags", ret[u], at[u], heap[u])
    BY <1>1, <1>2, StepMoves
  <2> QED
    BY <1>1, <2>1, EarlyMoves
<1>3. ASSUME Fail(u, ELOOKUP, failure_initStrArray, heap[u])
      PROVE  \A v \in User : LeavesBy(v)'
  BY <1>1, <1>3, FailLeaves DEF ELOOKUP, Pointer, failure_initStrArray
<1> QED
  BY <1>2, <1>3 DEF StringToType

LEMMA StringToFlagsLeaves ==
  ASSUME HeldInv, NEW u \in User, \A v \in User : LeavesBy(v), StringToFlags(u)
  PROVE  \A v \in User : LeavesBy(v)'
<1>1. /\ TypeOK /\ pc[u] = "flags" /\ heap[u] \in Heap
      /\ heap[u].recvBuf = left[u].recvBuf /\ heap[u].lost = left[u].lost
      /\ heap[u].flags = left[u].flags
  BY EarlyLeaves DEF HeldInv, TypeOK, StringToFlags
<1>2. PICK g \in Heap : /\ g = Flagged(u)
                        /\ g.recvBuf = left[u].recvBuf /\ g.lost = left[u].lost
                        /\ g.flags = left[u].flags + FlagBlocks(cfg[u])
  BY <1>1, FlaggedHeap DEF Alike
<1>3. ASSUME Step(u, "strings", g)
      PROVE  \A v \in User : LeavesBy(v)'
  <2>1. Apart(u) /\ Moves(u, "strings", ret[u], at[u], g)
    BY <1>1, <1>3, StepMoves
  <2> QED
    BY <1>1, <1>2, <2>1, EarlyMoves
<1>4. ASSUME Fail(u, ELOOKUP, failure_initStrArray, g)
      PROVE  \A v \in User : LeavesBy(v)'
  BY <1>2, <1>4, FailLeaves DEF ELOOKUP, Pointer, failure_initStrArray
<1>5. ASSUME Fail(u, ELOOKUP, failure_initStrArray, heap[u])
      PROVE  \A v \in User : LeavesBy(v)'
  BY <1>1, <1>5, FailLeaves DEF ELOOKUP, Pointer, failure_initStrArray
<1> QED
  BY <1>1, <1>2, <1>3, <1>4, <1>5, CrashLeaves DEF StringToFlags

LEMMA InitStringsLeaves ==
  ASSUME HeldInv, NEW u \in User, \A v \in User : LeavesBy(v), InitStrings(u)
  PROVE  \A v \in User : LeavesBy(v)'
<1>1. /\ TypeOK /\ pc[u] = "strings" /\ heap[u] \in Heap /\ left[u] \in Heap
      /\ heap[u].recvBuf = left[u].recvBuf /\ heap[u].lost = left[u].lost
      /\ heap[u].flags = left[u].flags + FlagBlocks(cfg[u])
  BY EarlyLeaves DEF HeldInv, TypeOK, InitStrings
<1>2. ASSUME Parsed(cfg[u]),
             Step(u, "links", [heap[u] EXCEPT
                    !.strings = @ + StringBlocks(Len(ComStrings(cfg[u])))])
      PROVE  \A v \in User : LeavesBy(v)'
  <2>1. StringBlocks(Len(ComStrings(cfg[u]))) \in Nat
    BY <1>1, <1>2, ParsedFacts DEF TypeOK
  <2>2. PICK g \in Heap : /\ g = [heap[u] EXCEPT
                                    !.strings = @ + StringBlocks(Len(ComStrings(cfg[u])))]
                          /\ g.recvBuf = heap[u].recvBuf /\ g.lost = heap[u].lost
                          /\ g.flags = heap[u].flags
    <3>1. PICK n \in Nat : n = StringBlocks(Len(ComStrings(cfg[u])))
      BY <2>1
    <3>2. PICK w : w = [heap[u] EXCEPT !.strings = @ + n]
      OBVIOUS
    <3>3. /\ w \in Heap /\ w.recvBuf = heap[u].recvBuf /\ w.lost = heap[u].lost
          /\ w.flags = heap[u].flags
      BY <1>1, <3>2 DEF Heap
    <3> QED
      BY <3>1, <3>2, <3>3
  <2>3. Apart(u) /\ Moves(u, "links", ret[u], at[u], g)
    BY <1>1, <1>2, <2>2, StepMoves
  <2> QED
    BY <1>1, <2>2, <2>3, EarlyMoves
<1>3. ASSUME Fail(u, EINVAL, failure_initStrArray, heap[u])
      PROVE  \A v \in User : LeavesBy(v)'
  <2>1. EINVAL \in Nat /\ EINVAL # Pointer /\ failure_initStrArray \in 1..4
    BY DEF EINVAL, Pointer, failure_initStrArray
  <2> QED
    BY <1>1, <1>3, <2>1, FailLeaves
<1>4. ASSUME NEW k \in LostStrings(cfg[u]),
             Fail(u, EINVAL, failure_initStrArray, [heap[u] EXCEPT !.lost = @ + k])
      PROVE  \A v \in User : LeavesBy(v)'
  <2>1. k \in {0, 2, 3}
    BY LostFew
  <2>2. PICK g \in Heap : /\ g = [heap[u] EXCEPT !.lost = @ + k]
                          /\ g.recvBuf = heap[u].recvBuf /\ g.flags = heap[u].flags
                          /\ g.lost = heap[u].lost + k
    <3>1. PICK w : w = [heap[u] EXCEPT !.lost = @ + k]
      OBVIOUS
    <3>2. /\ w \in Heap /\ Alike(w, heap[u]) /\ w.flags = heap[u].flags
          /\ w.lost = heap[u].lost + k
      BY <1>1, <2>1, <3>1, LostHeap
    <3> QED
      BY <3>1, <3>2 DEF Alike
  <2>3. Fail(u, EINVAL, failure_initStrArray, g)
    BY <1>4, <2>2
  <2> QED
    <3>1. EINVAL \in Nat /\ EINVAL # Pointer /\ failure_initStrArray \in 1..4
      BY DEF EINVAL, Pointer, failure_initStrArray
    <3>2. /\ g.recvBuf = left[u].recvBuf /\ g.lost = left[u].lost + k
          /\ g.flags = left[u].flags + FlagBlocks(cfg[u])
      BY <1>1, <2>2
    <3> QED
      BY <2>1, <2>3, <3>1, <3>2, FailLeaves
<1> QED
  BY <1>1, <1>2, <1>3, <1>4, CrashLeaves DEF InitStrings, Parsed

LEMMA AllocLinksLeaves ==
  ASSUME HeldInv, NEW u \in User, \A v \in User : LeavesBy(v), AllocLinks(u)
  PROVE  \A v \in User : LeavesBy(v)'
<1>1. /\ TypeOK /\ pc[u] = "links" /\ heap[u] \in Heap
      /\ heap[u].recvBuf = left[u].recvBuf /\ heap[u].lost = left[u].lost
      /\ heap[u].flags = left[u].flags + FlagBlocks(cfg[u])
  BY EarlyLeaves DEF HeldInv, TypeOK, AllocLinks
<1>2. ASSUME Goto(u, "link"), heap' = [heap EXCEPT ![u].links = @ + 1],
             at' = [at EXCEPT ![u] = 1], UNCHANGED <<cfg, ret, net, inits, left, faults>>
      PROVE  \A v \in User : LeavesBy(v)'
  <2>1. PICK g : /\ g = [heap[u] EXCEPT !.links = @ + 1]
                 /\ g.recvBuf = heap[u].recvBuf /\ g.flags = heap[u].flags
                 /\ g.lost = heap[u].lost
    <3>1. PICK w : w = [heap[u] EXCEPT !.links = @ + 1]
      OBVIOUS
    <3>2. /\ w.recvBuf = heap[u].recvBuf /\ w.flags = heap[u].flags
          /\ w.lost = heap[u].lost
      BY <1>1, <3>1 DEF Heap
    <3> QED
      BY <3>1, <3>2
  <2>2. Apart(u) /\ Moves(u, "link", ret[u], 1, g)
    BY <1>1, <1>2, <2>1 DEF TypeOK, Goto, Apart, Moves
  <2>3. /\ left[u].flags \in Nat /\ left[u].recvBuf \in Nat /\ left[u].lost \in Nat
        /\ FlagBlocks(cfg[u]) \in Nat
    BY LeavesNumbers, HeapFields
  <2>4. Leaves(cfg[u], "link", ret[u], 1, g, left[u])
    BY <1>1, <2>1, <2>3
       DEF Leaves, FlagsLeft, BuffersLeft, StringsLeft, Object, Ready, Linking
  <2> QED
    BY <2>2, <2>4, LeavesMoved
<1>3. ASSUME Fail(u, ENOMEM, failure_malloc_connections, heap[u])
      PROVE  \A v \in User : LeavesBy(v)'
  BY <1>1, <1>3, FailLeaves DEF ENOMEM, Pointer, failure_malloc_connections
<1> QED
  BY <1>2, <1>3 DEF AllocLinks

\* While the links are initialised, each ready one has left its buffer.
LEMMA LinkingLeaves ==
  ASSUME HeldInv, NEW u \in User, LeavesBy(u), pc[u] \in Linking
  PROVE  /\ heap[u].recvBuf = left[u].recvBuf + at[u] - 1
         /\ heap[u].lost = left[u].lost
         /\ heap[u].flags = left[u].flags + FlagBlocks(cfg[u])
<1>1. /\ heap[u].flags \in Nat /\ heap[u].recvBuf \in Nat /\ heap[u].lost \in Nat
      /\ left[u].flags \in Nat /\ left[u].recvBuf \in Nat /\ left[u].lost \in Nat
      /\ FlagBlocks(cfg[u]) \in Nat /\ at[u] \in Nat
  BY LeavesNumbers, HeapFields
<1>2. /\ heap[u].flags - left[u].flags \in FlagsLeft(cfg[u], pc[u], ret[u])
      /\ heap[u].recvBuf - left[u].recvBuf \in
           BuffersLeft(cfg[u], pc[u], ret[u], Ready(cfg[u], pc[u], at[u]))
      /\ heap[u].lost - left[u].lost \in StringsLeft(pc[u], ret[u])
  BY DEF LeavesBy, Leaves, Linking
<1>3. Ready(cfg[u], pc[u], at[u]) = at[u] - 1
  BY DEF Ready
<1>4. heap[u].recvBuf - left[u].recvBuf = at[u] - 1
  BY <1>2, <1>3 DEF BuffersLeft, Linking
<1>5. heap[u].lost - left[u].lost = 0
  BY <1>2 DEF StringsLeft, Linking
<1>6. heap[u].flags - left[u].flags = FlagBlocks(cfg[u])
  BY <1>2 DEF FlagsLeft, Linking
<1>7. PICK h, l, i, fb : /\ h = heap[u] /\ l = left[u] /\ i = at[u]
                         /\ fb = FlagBlocks(cfg[u])
  OBVIOUS
<1>8. /\ h.recvBuf = l.recvBuf + i - 1 /\ h.lost = l.lost /\ h.flags = l.flags + fb
  BY <1>1, <1>4, <1>5, <1>6, <1>7
<1> QED
  BY <1>7, <1>8

\* From one stage of a link to the next, or to the one after it.
LEMMA LinkingMoves ==
  ASSUME HeldInv, NEW u \in User, \A v \in User : LeavesBy(v), Apart(u),
         NEW p \in Linking, NEW i \in Nat, NEW h, Moves(u, p, ret[u], i, h),
         h.recvBuf = left[u].recvBuf + i - 1, h.lost = left[u].lost,
         h.flags = left[u].flags + FlagBlocks(cfg[u])
  PROVE  \A v \in User : LeavesBy(v)'
<1>1. /\ left[u].flags \in Nat /\ left[u].recvBuf \in Nat /\ left[u].lost \in Nat
      /\ FlagBlocks(cfg[u]) \in Nat
  BY LeavesNumbers, HeapFields
<1>2. Ready(cfg[u], p, i) = i - 1
  BY DEF Ready
<1>3. h.recvBuf - left[u].recvBuf = i - 1
  BY <1>1
<1>4. h.lost - left[u].lost = 0 /\ h.flags - left[u].flags = FlagBlocks(cfg[u])
  BY <1>1
<1>5. Leaves(cfg[u], p, ret[u], i, h, left[u])
  BY <1>2, <1>3, <1>4 DEF Leaves, FlagsLeft, BuffersLeft, StringsLeft, Object, Linking
<1> QED
  BY <1>5, LeavesMoved

\* A link that fails: h is what is there when its init function returns.
LEMMA LinkFailsLeaves ==
  ASSUME HeldInv, NEW u \in User, NEW status \in Nat, NEW h \in Heap,
         LinkFails(u, status, h), pc[u] \in Linking, \A v \in User : LeavesBy(v),
         status # Pointer, h.recvBuf = heap[u].recvBuf, h.lost = heap[u].lost,
         h.flags = heap[u].flags
  PROVE  \A v \in User : LeavesBy(v)'
<1>1. /\ left[u].flags \in Nat /\ left[u].recvBuf \in Nat /\ left[u].lost \in Nat
      /\ FlagBlocks(cfg[u]) \in Nat
  BY LeavesNumbers, HeapFields
<1>2. /\ h.recvBuf = left[u].recvBuf + at[u] - 1 /\ h.lost = left[u].lost
      /\ h.flags = left[u].flags + FlagBlocks(cfg[u])
  BY LinkingLeaves
<1>3. at[u] - 1 \in Nat
  BY LeavesNumbers, ParsedFacts DEF Stage, Linking
<1>4. left' = left
  BY DEF LinkFails
<1>5. Apart(u) /\ Moves(u, "unwind", status, at[u] - 1, h)
  BY <1>4 DEF HeldInv, TypeOK, LinkFails, Goto, UnwindFrom, Apart, Moves
<1>6. PICK n \in Nat : n = at[u] - 1
  BY <1>3
<1>7. Ready(cfg[u], "unwind", n) = n
  BY DEF Ready, Linking
<1>8. h.recvBuf - left[u].recvBuf = n
  BY <1>1, <1>2, <1>6, LeavesNumbers
<1>9. h.lost - left[u].lost = 0 /\ h.flags - left[u].flags = FlagBlocks(cfg[u])
  BY <1>1, <1>2
<1>10. n \in BuffersLeft(cfg[u], "unwind", status, n)
  BY DEF BuffersLeft
<1>11. Leaves(cfg[u], "unwind", status, n, h, left[u])
  BY <1>7, <1>8, <1>9, <1>10 DEF Leaves, FlagsLeft, StringsLeft, Object
<1> QED
  BY <1>5, <1>6, <1>11, LeavesMoved

LEMMA InitStubLeaves ==
  ASSUME HeldInv, NEW u \in User, \A v \in User : LeavesBy(v), InitStub(u)
  PROVE  \A v \in User : LeavesBy(v)'
BY LinkFailsLeaves, LeavesNumbers DEF InitStub, NIMPL, Pointer, Linking

LEMMA OpenSocketLeaves ==
  ASSUME HeldInv, NEW u \in User, \A v \in User : LeavesBy(v), pc[u] = "link",
         NEW next \in {"setup", "bind"}, OpenSocket(u, next)
  PROVE  \A v \in User : LeavesBy(v)'
<1>1. /\ TypeOK /\ heap[u] \in Heap /\ at[u] \in Nat /\ pc[u] \in Linking
      /\ next \in Linking
  BY DEF HeldInv, TypeOK, Linking
<1>2. ASSUME Step(u, next, [heap[u] EXCEPT !.pdata = @ + 1, !.fd = @ + 1])
      PROVE  \A v \in User : LeavesBy(v)'
  <2>1. PICK g : /\ g = [heap[u] EXCEPT !.pdata = @ + 1, !.fd = @ + 1]
                 /\ g.recvBuf = heap[u].recvBuf /\ g.flags = heap[u].flags
                 /\ g.lost = heap[u].lost
    <3>1. PICK w : w = [heap[u] EXCEPT !.pdata = @ + 1, !.fd = @ + 1]
      OBVIOUS
    <3>2. /\ w.recvBuf = heap[u].recvBuf /\ w.flags = heap[u].flags
          /\ w.lost = heap[u].lost
      BY <1>1, <3>1 DEF Heap
    <3> QED
      BY <3>1, <3>2
  <2>2. Apart(u) /\ Moves(u, next, ret[u], at[u], g)
    BY <1>1, <1>2, <2>1, StepMoves
  <2>3. /\ g.recvBuf = left[u].recvBuf + at[u] - 1 /\ g.lost = left[u].lost
        /\ g.flags = left[u].flags + FlagBlocks(cfg[u])
    BY <1>1, <2>1, LinkingLeaves
  <2> QED
    BY <1>1, <2>2, <2>3, LinkingMoves
<1>3. ASSUME NEW status \in {EINVAL, ENOMEM, EMFILE}, LinkFails(u, status, heap[u])
      PROVE  \A v \in User : LeavesBy(v)'
  BY <1>1, <1>3, LinkFailsLeaves DEF EINVAL, ENOMEM, EMFILE, Pointer
<1> QED
  BY <1>2, <1>3 DEF OpenSocket

\* failure_bind and failure_listen leave these blocks alone.
LEMMA ClosedLeft ==
  ASSUME HeldInv, NEW u \in User, pc[u] \in {"bind", "listen"}
  PROVE  /\ Closed(heap[u]) \in Heap
         /\ Closed(heap[u]).recvBuf = heap[u].recvBuf
         /\ Closed(heap[u]).lost = heap[u].lost /\ Closed(heap[u]).flags = heap[u].flags
<1>1. /\ cfg[u] \in Configs[u] /\ at[u] \in Nat /\ heap[u] \in Heap
      /\ Kept(u, cfg[u], pc[u], at[u], heap[u], AcceptedBy(u), SocksOf(u))
  BY UserFacts
<1>2. AcceptedBy(u) = {} /\ Cardinality(AcceptedBy(u)) = 0
  BY <1>1, NoneAccepted DEF Kept, Object
<1>3. Closed(heap[u]) \in Heap
  BY <1>1, <1>2, ClosedHolds DEF Kept
<1> QED
  BY <1>1, <1>3 DEF Closed, Heap

LEMMA BindLeaves ==
  ASSUME HeldInv, NEW u \in User, \A v \in User : LeavesBy(v), Bind(u)
  PROVE  \A v \in User : LeavesBy(v)'
<1>1. /\ TypeOK /\ heap[u] \in Heap /\ at[u] \in Nat /\ pc[u] = "bind"
  BY DEF HeldInv, TypeOK, Bind
<1>2. ASSUME LinkFails(u, EADDRINUSE, Closed(heap[u]))
      PROVE  \A v \in User : LeavesBy(v)'
  BY <1>1, <1>2, ClosedLeft, LinkFailsLeaves DEF EADDRINUSE, Pointer, Linking
<1>3. ASSUME Goto(u, "listen"), UNCHANGED <<cfg, at, heap, ret, inits, left>>
      PROVE  \A v \in User : LeavesBy(v)'
  <2>1. Apart(u) /\ Moves(u, "listen", ret[u], at[u], heap[u])
    BY <1>1, <1>3 DEF TypeOK, Goto, Apart, Moves
  <2> QED
    BY <1>1, <2>1, LinkingLeaves, LinkingMoves DEF Linking
<1> QED
  BY <1>2, <1>3 DEF Bind

LEMMA ListenLeaves ==
  ASSUME HeldInv, NEW u \in User, \A v \in User : LeavesBy(v), Listen(u)
  PROVE  \A v \in User : LeavesBy(v)'
<1>1. /\ TypeOK /\ heap[u] \in Heap /\ at[u] \in Nat /\ pc[u] = "listen"
  BY DEF HeldInv, TypeOK, Listen
<1>2. ASSUME LinkFails(u, EADDRINUSE, Closed(heap[u]))
      PROVE  \A v \in User : LeavesBy(v)'
  BY <1>1, <1>2, ClosedLeft, LinkFailsLeaves DEF EADDRINUSE, Pointer, Linking
<1>3. ASSUME Goto(u, "setup"), UNCHANGED <<cfg, at, heap, ret, inits, left>>
      PROVE  \A v \in User : LeavesBy(v)'
  <2>1. Apart(u) /\ Moves(u, "setup", ret[u], at[u], heap[u])
    BY <1>1, <1>3 DEF TypeOK, Goto, Apart, Moves
  <2> QED
    BY <1>1, <2>1, LinkingLeaves, LinkingMoves DEF Linking
<1> QED
  BY <1>2, <1>3 DEF Listen

LEMMA SetupLeaves ==
  ASSUME HeldInv, NEW u \in User, \A v \in User : LeavesBy(v), Setup(u)
  PROVE  \A v \in User : LeavesBy(v)'
<1> DEFINE last == at[u] = ComCount(cfg[u])
           h == [heap[u] EXCEPT !.ip = @ + 1, !.recvBuf = @ + 1]
           w == IF last THEN [h EXCEPT !.fields = @ - FieldBlocks(cfg[u])] ELSE h
<1>1. /\ TypeOK /\ heap[u] \in Heap /\ at[u] \in Nat /\ pc[u] = "setup"
      /\ cfg[u] \in Configs[u]
  BY DEF HeldInv, TypeOK, Setup
<1>2. /\ heap[u].recvBuf = left[u].recvBuf + at[u] - 1 /\ heap[u].lost = left[u].lost
      /\ heap[u].flags = left[u].flags + FlagBlocks(cfg[u])
  BY <1>1, LinkingLeaves DEF Linking
<1>3. /\ left[u].flags \in Nat /\ left[u].recvBuf \in Nat /\ left[u].lost \in Nat
      /\ FlagBlocks(cfg[u]) \in Nat
  BY LeavesNumbers, HeapFields
<1>4. ASSUME Goto(u, IF last THEN "object" ELSE "link"),
             at' = [at EXCEPT ![u] = @ + 1],
             ret' = [ret EXCEPT ![u] = IF last THEN Pointer ELSE @],
             heap' = [heap EXCEPT ![u] = w],
             UNCHANGED <<cfg, net, inits, left, faults>>
      PROVE  \A v \in User : LeavesBy(v)'
  <2>1. PICK k \in Nat : k = at[u] + 1
    BY <1>1
  <2>2. PICK g : /\ g = w
                 /\ g.recvBuf = heap[u].recvBuf + 1 /\ g.flags = heap[u].flags
                 /\ g.lost = heap[u].lost
    <3>1. PICK x : x = h
      OBVIOUS
    <3>2. PICK y : y = w
      OBVIOUS
    <3>3. /\ x.recvBuf = heap[u].recvBuf + 1 /\ x.flags = heap[u].flags
          /\ x.lost = heap[u].lost
      BY <1>1, <3>1 DEF Heap
    <3>4. /\ y.recvBuf = x.recvBuf /\ y.flags = x.flags /\ y.lost = x.lost
      BY <1>1, <3>1, <3>2 DEF Heap
    <3> QED
      BY <3>2, <3>3, <3>4
  <2>3. /\ g.recvBuf = left[u].recvBuf + k - 1 /\ g.lost = left[u].lost
        /\ g.flags = left[u].flags + FlagBlocks(cfg[u])
    BY <1>1, <1>2, <1>3, <2>1, <2>2
  <2>4. CASE ~last
    <3>1. Apart(u) /\ Moves(u, "link", ret[u], k, g)
      BY <1>1, <1>4, <2>1, <2>2, <2>4 DEF TypeOK, Goto, Apart, Moves
    <3> QED
      BY <2>3, <3>1, LinkingMoves DEF Linking
  <2>5. CASE last
    <3>1. Apart(u) /\ Moves(u, "object", Pointer, k, g)
      BY <1>1, <1>4, <2>1, <2>2, <2>5 DEF TypeOK, Goto, Apart, Moves
    <3>2. Ready(cfg[u], "object", k) = ComCount(cfg[u])
      BY DEF Ready, Linking
    <3>3. /\ g.recvBuf - left[u].recvBuf = ComCount(cfg[u])
          /\ g.lost - left[u].lost = 0 /\ g.flags - left[u].flags = FlagBlocks(cfg[u])
      BY <1>1, <1>3, <2>1, <2>3, <2>5
    <3>4. Leaves(cfg[u], "object", Pointer, k, g, left[u])
      BY <3>2, <3>3 DEF Leaves, FlagsLeft, BuffersLeft, StringsLeft, Object
    <3> QED
      BY <3>1, <3>4, LeavesMoved
  <2> QED
    BY <2>4, <2>5
<1> QED
  BY <1>1, <1>4, CrashLeaves DEF Setup

\* One turn of the loop: a listening link takes its buffer with it.
LEMMA DeinitSocketLeaves ==
  ASSUME HeldInv, NEW u \in User, \A v \in User : LeavesBy(v),
         pc[u] \in {"unwind", "deinit"}, at[u] \in ReadyLinks(cfg[u], pc[u], at[u]),
         NEW k \in Nat, k = IF pc[u] = "unwind" THEN at[u] - 1 ELSE at[u] + 1,
         at' = [at EXCEPT ![u] = k], DeinitSocket(u, at[u]),
         UNCHANGED <<pc, cfg, ret, inits, left, faults>>
  PROVE  \A v \in User : LeavesBy(v)'
<1>1. /\ TypeOK /\ heap[u] \in Heap /\ at[u] \in Nat /\ cfg[u] \in Configs[u]
      /\ Stage(cfg[u], pc[u], at[u])
  BY LeavesNumbers DEF HeldInv
<1>2. PICK buf \in Nat : buf = IF cfg[u].type = "socket_rx" THEN 1 ELSE 0
  OBVIOUS
<1>3. PICK g : /\ heap' = [heap EXCEPT ![u] = g]
               /\ g.recvBuf = heap[u].recvBuf - buf /\ g.flags = heap[u].flags
               /\ g.lost = heap[u].lost
  <2>1. PICK x, y, z :
          heap' = [heap EXCEPT ![u].fd = x, ![u].ip = y, ![u].pdata = z,
                               ![u].recvBuf = @ - buf]
    BY <1>1, <1>2 DEF DeinitSocket, IsRx, TypeOK, Heap
  <2>2. PICK w : w = [heap[u] EXCEPT !.fd = x, !.ip = y, !.pdata = z,
                                     !.recvBuf = @ - buf]
    OBVIOUS
  <2>3. /\ w.recvBuf = heap[u].recvBuf - buf /\ w.flags = heap[u].flags
        /\ w.lost = heap[u].lost
    BY <1>1, <2>2 DEF Heap
  <2>4. heap' = [heap EXCEPT ![u] = w]
    BY <1>1, <2>1, <2>2 DEF TypeOK, Heap
  <2> QED
    BY <2>3, <2>4
<1>4. Apart(u) /\ Moves(u, pc[u], ret[u], k, g)
  BY <1>1, <1>3 DEF TypeOK, Apart, Moves
<1>5. PICK n \in Nat : n = Ready(cfg[u], pc[u], k) /\ Ready(cfg[u], pc[u], at[u]) = n + 1
  BY <1>1, ReadyLess
<1>6. PICK m \in Nat : m = ComCount(cfg[u])
  BY <1>1, ParsedFacts DEF Stage, Object
<1>7. pc[u] = "unwind" => n + 1 \in 0..(m - 1)
  BY <1>1, <1>5, <1>6 DEF Stage, Ready, Linking
<1>8. PICK b : b = heap[u].recvBuf - left[u].recvBuf
  OBVIOUS
<1>9. /\ heap[u].flags - left[u].flags \in FlagsLeft(cfg[u], pc[u], ret[u])
      /\ b \in BuffersLeft(cfg[u], pc[u], ret[u], n + 1)
      /\ heap[u].lost - left[u].lost \in StringsLeft(pc[u], ret[u])
      /\ pc[u] \in Object => ret[u] = Pointer
      /\ pc[u] = "unwind" => ret[u] # Pointer
  BY <1>5, <1>8 DEF LeavesBy, Leaves
<1>10. b \in Int /\ g.recvBuf - left[u].recvBuf = b - buf
  BY <1>1, <1>3, <1>8, LeavesNumbers, HeapFields
<1>11. b - buf \in BuffersLeft(cfg[u], pc[u], ret[u], n)
  <2>1. CASE cfg[u].type = "socket_rx"
    BY <1>2, <1>9, <1>10, <2>1 DEF BuffersLeft
  <2>2. CASE cfg[u].type # "socket_rx" /\ pc[u] = "deinit"
    BY <1>2, <1>9, <1>10, <2>2 DEF BuffersLeft
  <2>3. CASE cfg[u].type # "socket_rx" /\ pc[u] = "unwind"
    <3>1. b \in {n + 1} \cup (n + 1)..(m - 1)
      BY <1>6, <1>9, <2>3 DEF BuffersLeft
    <3>2. b \in n..(m - 1)
      BY <1>7, <2>3, <3>1
    <3> QED
      BY <1>2, <1>6, <1>10, <2>3, <3>2 DEF BuffersLeft
  <2> QED
    BY <2>1, <2>2, <2>3
<1>12. Leaves(cfg[u], pc[u], ret[u], k, g, left[u])
  BY <1>3, <1>5, <1>9, <1>10, <1>11 DEF Leaves
<1> QED
  BY <1>4, <1>12, LeavesMoved

LEMMA UnwindLinkLeaves ==
  ASSUME HeldInv, NEW u \in User, \A v \in User : LeavesBy(v), UnwindLink(u)
  PROVE  \A v \in User : LeavesBy(v)'
<1>1. at[u] \in Nat /\ at[u] >= 1 /\ pc[u] = "unwind"
  BY UserFacts DEF UnwindLink
<1>2. PICK k \in Nat : k = at[u] - 1
  BY <1>1
<1>3. k = IF pc[u] = "unwind" THEN at[u] - 1 ELSE at[u] + 1
  BY <1>1, <1>2
<1>4. at[u] \in ReadyLinks(cfg[u], pc[u], at[u])
  BY <1>1 DEF ReadyLinks, Linking
<1>5. /\ at' = [at EXCEPT ![u] = k] /\ DeinitSocket(u, at[u])
      /\ UNCHANGED <<pc, cfg, ret, inits, left, faults>>
  BY <1>2 DEF UnwindLink
<1> QED
  BY <1>1, <1>3, <1>4, <1>5, DeinitSocketLeaves

LEMMA UnwindDoneLeaves ==
  ASSUME HeldInv, NEW u \in User, \A v \in User : LeavesBy(v), UnwindDone(u)
  PROVE  \A v \in User : LeavesBy(v)'
<1>1. /\ TypeOK /\ heap[u] \in Heap /\ pc[u] = "unwind" /\ at[u] = 0
      /\ Fail(u, ret[u], failure_initGeneric, heap[u])
  BY DEF HeldInv, TypeOK, UnwindDone
<1>2. PICK g : /\ g = Freed(heap[u], cfg[u], failure_initGeneric)
               /\ g.flags = heap[u].flags /\ g.recvBuf = heap[u].recvBuf
               /\ g.lost = heap[u].lost
  BY <1>1, FreedLeft DEF failure_initGeneric
<1>3. Apart(u) /\ Moves(u, "none", ret[u], at[u], g)
  BY <1>1, <1>2, FailMoves
<1>4. Ready(cfg[u], "unwind", 0) = 0 /\ Ready(cfg[u], "none", 0) = 0
  BY DEF Ready, Linking
<1>5. Leaves(cfg[u], "unwind", ret[u], 0, heap[u], left[u])
  BY <1>1 DEF LeavesBy
<1>6. g.flags - left[u].flags \in FlagsLeft(cfg[u], "none", ret[u])
  BY <1>2, <1>5 DEF Leaves, FlagsLeft
<1>7. g.recvBuf - left[u].recvBuf \in BuffersLeft(cfg[u], "none", ret[u], 0)
  BY <1>2, <1>4, <1>5 DEF Leaves, BuffersLeft
<1>8. g.lost - left[u].lost \in StringsLeft("none", ret[u])
  BY <1>2, <1>5 DEF Leaves, StringsLeft
<1>9. Leaves(cfg[u], "none", ret[u], at[u], g, left[u])
  BY <1>1, <1>4, <1>6, <1>7, <1>8 DEF Leaves, Object
<1> QED
  BY <1>3, <1>9, LeavesMoved

LEMMA DeinitLeaves ==
  ASSUME HeldInv, NEW u \in User, \A v \in User : LeavesBy(v), Deinit(u)
  PROVE  \A v \in User : LeavesBy(v)'
<1>1. TypeOK /\ pc[u] = "object" /\ Leaves(cfg[u], "object", ret[u], at[u], heap[u], left[u])
  BY DEF HeldInv, Deinit, LeavesBy
<1>2. Apart(u) /\ Moves(u, "deinit", ret[u], 1, heap[u])
  BY <1>1 DEF TypeOK, Deinit, Goto, Apart, Moves
<1>3. PICK n \in Nat : n = ComCount(cfg[u])
  BY <1>1, LeavesNumbers, ParsedFacts DEF Stage, Object
<1>4. Ready(cfg[u], "object", at[u]) = n /\ Ready(cfg[u], "deinit", 1) = n
  BY <1>3 DEF Ready, Linking
<1>5. Leaves(cfg[u], "deinit", ret[u], 1, heap[u], left[u])
  BY <1>1, <1>4 DEF Leaves, FlagsLeft, BuffersLeft, StringsLeft, Object
<1> QED
  BY <1>2, <1>5, LeavesMoved

LEMMA DeinitLinkLeaves ==
  ASSUME HeldInv, NEW u \in User, \A v \in User : LeavesBy(v), DeinitLink(u)
  PROVE  \A v \in User : LeavesBy(v)'
<1>1. at[u] \in Nat /\ at[u] \in Links(u) /\ pc[u] = "deinit" /\ cfg[u] \in Configs[u]
      /\ Stage(cfg[u], "deinit", at[u])
  BY UserFacts DEF DeinitLink, Kept
<1>2. PICK k \in Nat : k = at[u] + 1
  BY <1>1
<1>3. k = IF pc[u] = "unwind" THEN at[u] - 1 ELSE at[u] + 1
  BY <1>1, <1>2
<1>4. at[u] \in ReadyLinks(cfg[u], pc[u], at[u])
  <2>1. PICK n \in Nat : n = ComCount(cfg[u])
    BY <1>1, ParsedFacts DEF Stage, Object
  <2> QED
    BY <1>1, <2>1 DEF ReadyLinks, Linking, Links
<1>5. /\ at' = [at EXCEPT ![u] = k] /\ DeinitSocket(u, at[u])
      /\ UNCHANGED <<pc, cfg, ret, inits, left, faults>>
  BY <1>2 DEF DeinitLink
<1> QED
  BY <1>1, <1>3, <1>4, <1>5, DeinitSocketLeaves

LEMMA DeinitDoneLeaves ==
  ASSUME HeldInv, NEW u \in User, \A v \in User : LeavesBy(v), DeinitDone(u)
  PROVE  \A v \in User : LeavesBy(v)'
<1>1. /\ TypeOK /\ heap[u] \in Heap /\ pc[u] = "deinit" /\ at[u] \notin Links(u)
      /\ Leaves(cfg[u], "deinit", ret[u], at[u], heap[u], left[u])
  BY DEF HeldInv, TypeOK, DeinitDone, LeavesBy
<1>2. PICK n \in Nat : n = ComCount(cfg[u])
  BY <1>1, LeavesNumbers, ParsedFacts DEF Stage, Object
<1>3. at[u] = n + 1
  BY <1>1, <1>2, LeavesNumbers DEF Stage, Links
<1>4. Ready(cfg[u], "deinit", at[u]) = 0 /\ Ready(cfg[u], "none", at[u]) = 0
  BY <1>2, <1>3 DEF Ready, Linking
<1>5. PICK g : /\ heap' = [heap EXCEPT ![u] = g]
               /\ g.recvBuf = heap[u].recvBuf /\ g.flags = heap[u].flags
               /\ g.lost = heap[u].lost
  BY <1>1 DEF DeinitDone, TypeOK, Heap
<1>6. Apart(u) /\ Moves(u, "none", ret[u], at[u], g)
  BY <1>1, <1>5 DEF TypeOK, DeinitDone, Goto, Apart, Moves
<1>7. ret[u] = Pointer
  BY <1>1 DEF Leaves, Object
<1>8. /\ g.flags - left[u].flags \in FlagsLeft(cfg[u], "none", ret[u])
      /\ g.recvBuf - left[u].recvBuf \in BuffersLeft(cfg[u], "none", ret[u], 0)
      /\ g.lost - left[u].lost \in StringsLeft("none", ret[u])
  BY <1>1, <1>4, <1>5, <1>7
     DEF Leaves, FlagsLeft, BuffersLeft, StringsLeft, Pointer, EINVAL
<1>9. Leaves(cfg[u], "none", ret[u], at[u], g, left[u])
  BY <1>4, <1>8 DEF Leaves, Object
<1> QED
  BY <1>6, <1>9, LeavesMoved

LEMMA AcceptLeaves ==
  ASSUME HeldInv, NEW u \in User, \A v \in User : LeavesBy(v), NEW j, Accept(u, j)
  PROVE  \A v \in User : LeavesBy(v)'
<1>1. /\ TypeOK /\ heap[u] \in Heap
      /\ Leaves(cfg[u], pc[u], ret[u], at[u], heap[u], left[u])
  BY DEF HeldInv, TypeOK, LeavesBy
<1>2. PICK g : /\ heap' = [heap EXCEPT ![u] = g]
               /\ g.recvBuf = heap[u].recvBuf /\ g.flags = heap[u].flags
               /\ g.lost = heap[u].lost
  <2>1. PICK w : w = [heap[u] EXCEPT !.fd = @ + 1]
    OBVIOUS
  <2>2. /\ w.recvBuf = heap[u].recvBuf /\ w.flags = heap[u].flags
        /\ w.lost = heap[u].lost
    BY <1>1, <2>1 DEF Heap
  <2>3. heap' = [heap EXCEPT ![u] = w]
    BY <2>1 DEF Accept
  <2> QED
    BY <2>2, <2>3
<1>3. Apart(u) /\ Moves(u, pc[u], ret[u], at[u], g)
  BY <1>1, <1>2 DEF TypeOK, Accept, Apart, Moves
<1>4. Leaves(cfg[u], pc[u], ret[u], at[u], g, left[u])
  BY <1>1, <1>2 DEF Leaves
<1> QED
  BY <1>3, <1>4, LeavesMoved

LEMMA InitLeaves ==
  ASSUME Init
  PROVE  \A u \in User : LeavesBy(u)
<1> SUFFICES ASSUME NEW u \in User
             PROVE  Leaves(cfg[u], "none", SUCCESS, 0, Empty, Empty)
  BY DEF Init, LeavesBy
<1> QED
  BY DEF Leaves, FlagsLeft, BuffersLeft, StringsLeft, Object, Ready, Linking, SUCCESS,
         EINVAL, Pointer, Empty

-----------------------------------------------------------------------------
(* The invariant.                                                          *)

LEMMA NextKeeps ==
  ASSUME HeldInv, [Next]_vars
  PROVE  HeldInv'
<1>1. ASSUME NEW u \in User, Opening(u) PROVE HeldInv'
  BY <1>1, StartKeeps, InitFieldsKeeps, StringToTypeKeeps, StringToFlagsKeeps,
     InitStringsKeeps, AllocLinksKeeps, InitStubKeeps, OpenConnectingKeeps,
     OpenListeningKeeps, BindKeeps, ListenKeeps, SetupKeeps, UnwindLinkKeeps,
     UnwindDoneKeeps DEF Opening
<1>2. ASSUME NEW u \in User, Using(u) PROVE HeldInv'
  BY <1>2, DeinitKeeps, DeinitLinkKeeps, DeinitDoneKeeps, AcceptKeeps DEF Using
<1> QED
  BY <1>1, <1>2, StutterKeeps DEF Next

LEMMA NextLeaves ==
  ASSUME HeldInv, \A u \in User : LeavesBy(u), [Next]_vars
  PROVE  \A u \in User : LeavesBy(u)'
<1>1. ASSUME NEW u \in User, Opening(u) PROVE \A v \in User : LeavesBy(v)'
  <2>1. ASSUME OpenConnecting(u) PROVE \A v \in User : LeavesBy(v)'
    BY <2>1, OpenSocketLeaves DEF OpenConnecting
  <2>2. ASSUME OpenListening(u) PROVE \A v \in User : LeavesBy(v)'
    BY <2>2, OpenSocketLeaves DEF OpenListening
  <2> QED
    BY <1>1, <2>1, <2>2, StartLeaves, InitFieldsLeaves, StringToTypeLeaves,
       StringToFlagsLeaves, InitStringsLeaves, AllocLinksLeaves, InitStubLeaves,
       BindLeaves, ListenLeaves, SetupLeaves, UnwindLinkLeaves, UnwindDoneLeaves
       DEF Opening
<1>2. ASSUME NEW u \in User, Using(u) PROVE \A v \in User : LeavesBy(v)'
  BY <1>2, DeinitLeaves, DeinitLinkLeaves, DeinitDoneLeaves, AcceptLeaves DEF Using
<1>3. ASSUME UNCHANGED vars PROVE \A v \in User : LeavesBy(v)'
  BY <1>3 DEF LeavesBy, vars
<1> QED
  BY <1>1, <1>2, <1>3 DEF Next

\* How far a user has come says what it holds, what it has left behind and which
\* sockets are its own
\* (icom_init, icom_deinit, icom_initSocketConnect, icom_initSocketBind,
\* icom_deinitSocket).
THEOREM LifeCorrect ==
  Spec => []LifeInv
<1>1. Init => LifeInv
  BY InitKeeps, InitLeaves DEF LifeInv
<1>2. LifeInv /\ [Next]_vars => LifeInv'
  BY NextKeeps, NextLeaves DEF LifeInv
<1> QED
  BY <1>1, <1>2, PTL DEF Spec

\* The types of icom_init's and icom_deinit's state.
THEOREM LifecycleTypeCorrect ==
  Spec => []TypeOK
<1>1. LifeInv => TypeOK
  BY DEF LifeInv, HeldInv
<1> QED
  BY <1>1, LifeCorrect, PTL

-----------------------------------------------------------------------------
(* What follows.                                                           *)

\* The ready links are those Live lists.
LEMMA LiveReady ==
  ASSUME TypeOK, NEW u \in User
  PROVE  Live(u) = ReadyLinks(cfg[u], pc[u], at[u])
<1>1. CASE pc[u] \in Linking
  BY <1>1 DEF Live, ReadyLinks, Linking
<1>2. CASE pc[u] = "unwind"
  BY <1>2 DEF Live, ReadyLinks, Linking
<1>3. CASE pc[u] = "object"
  BY <1>3 DEF Live, ReadyLinks, Linking, Links
<1>4. CASE pc[u] = "deinit"
  BY <1>4 DEF Live, ReadyLinks, Linking
<1>5. CASE pc[u] \in {"none", "fields", "type", "flags", "strings", "links", "crashed"}
  BY <1>5 DEF Live, ReadyLinks, Linking
<1> QED
  BY <1>1, <1>2, <1>3, <1>4, <1>5 DEF TypeOK, Pc, Linking

\* What icom_init makes its links from are the addresses the user listed, each
\* once and in order, and as many as it has made room for
\* (parser_getConnectionCount, parser_initStrArray).
THEOREM StringsAsListedCorrect == Spec => []StringsAsListed
<1>1. ASSUME LifeInv, NEW u \in User, pc[u] = "links"
      PROVE  AsListed(cfg[u])
  <2>1. /\ cfg[u] \in Configs[u]
        /\ Kept(u, cfg[u], pc[u], at[u], heap[u], AcceptedBy(u), SocksOf(u))
    BY <1>1, UserFacts DEF LifeInv, HeldInv
  <2>2. Parsed(cfg[u])
    BY <1>1, <2>1 DEF Kept, Stage
  <2> QED
    BY <2>1, <2>2, ParserDoesAgree DEF ParserAgrees
<1>2. LifeInv => StringsAsListed
  BY <1>1 DEF StringsAsListed
<1> QED
  BY <1>2, LifeCorrect, PTL

\* Whatever fails, what icom_init and icom_deinit are to release is released once,
\* and what they leave behind are the flag strings of each call, the receive
\* buffers of connecting links and, for want of memory, three strings at the most
\* (icom_init, icom_deinit, icom_deinitSocket, icom_stringToFlags,
\* parser_initStrArray).
THEOREM AccountedCorrect ==
  Spec => []Accounted
<1>1. ASSUME LifeInv, NEW u \in User, pc[u] # "crashed"
      PROVE  /\ InHeap(heap[u]) = Held(u)
             /\ heap[u].flags - left[u].flags \in FlagsLeft(cfg[u], pc[u], ret[u])
             /\ heap[u].recvBuf - left[u].recvBuf \in
                  BuffersLeft(cfg[u], pc[u], ret[u], Cardinality(Live(u)))
             /\ heap[u].lost - left[u].lost \in StringsLeft(pc[u], ret[u])
  <2>1. /\ TypeOK /\ pc[u] \in Pc /\ cfg[u] \in Configs[u] /\ at[u] \in Nat
        /\ heap[u] \in Heap
        /\ Kept(u, cfg[u], pc[u], at[u], heap[u], AcceptedBy(u), SocksOf(u))
    BY <1>1, UserFacts DEF LifeInv, HeldInv
  <2>2. PICK c, p : c = cfg[u] /\ p = pc[u]
    OBVIOUS
  <2>3. PICK i \in Nat, h \in Heap : i = at[u] /\ h = heap[u]
    BY <2>1
  <2>4. c = cfg[u] /\ p = pc[u] /\ i = at[u] /\ h = heap[u]
    BY <2>2, <2>3
  <2>5. PICK n, k : n = Cardinality(Live(u)) /\ k = Cardinality(AcceptedBy(u))
    OBVIOUS
  <2>6. Stage(c, p, i) /\ Holds(c, p, i, h, k)
    BY <1>1, <2>1, <2>4, <2>5 DEF Kept
  <2>7. n = Ready(c, p, i)
    BY <2>1, <2>4, <2>5, <2>6, LiveReady, ReadyCount
  <2>8. PICK sb : sb = StringBlocks(Len(Meant(c.entries)))
    OBVIOUS
  <2>9. p \in Linking \cup Object \cup {"links", "unwind"} => StringBlocks(ComCount(c)) = sb
    BY <2>1, <2>4, <2>6, <2>8, ParsedFacts DEF Stage
  <2>10. /\ h.icom = If(p # "none", 1)
         /\ h.fields = If(p \in Linking \cup {"type", "flags", "strings", "links", "unwind"},
                          FieldBlocks(c))
         /\ h.strings = If(p \in Linking \cup Object \cup {"links", "unwind"}, sb)
         /\ h.links = If(p \in Linking \cup Object \cup {"unwind"}, 1)
    BY <2>6, <2>9 DEF Holds, If
  <2>11. /\ h.pdata = n + If(p \in HasFd, 1) /\ h.ip = n
         /\ h.fd = n + If(p \in HasFd, 1) + k
    BY <2>6, <2>7 DEF Holds, If
  <2>12. Held(u) =
           [icom |-> If(p # "none", 1),
            fields |-> If(p \in Linking \cup {"type", "flags", "strings", "links", "unwind"},
                          FieldBlocks(c)),
            strings |-> If(p \in Linking \cup Object \cup {"links", "unwind"}, sb),
            links |-> If(p \in Linking \cup Object \cup {"unwind"}, 1),
            pdata |-> n + If(p \in HasFd, 1), ip |-> n,
            fd |-> n + If(p \in HasFd, 1) + k]
    BY <2>4, <2>5, <2>8
       DEF Held, If, Opened, Linking, Object, HasFd, AcceptedBy
  <2>13. InHeap(heap[u]) = Held(u)
    BY <2>4, <2>10, <2>11, <2>12 DEF InHeap
  <2>14. Leaves(c, p, ret[u], i, heap[u], left[u])
    BY <1>1, <2>4 DEF LifeInv, LeavesBy
  <2> QED
    BY <1>1, <2>4, <2>5, <2>7, <2>13, <2>14 DEF Leaves
<1>2. LifeInv => Accounted
  BY <1>1 DEF Accounted
<1> QED
  BY <1>2, LifeCorrect, PTL

\* The kernel's sockets are those of the links, and an object that exists has
\* all its ports (icom_initSocketBind, icom_deinitSocket).
THEOREM PortsHeldCorrect ==
  Spec => []PortsHeld
<1>1. ASSUME LifeInv, NEW u \in User
      PROVE  {s \in socks : s.user = u} =
               IF ~IsRx(u) THEN {}
               ELSE {[user |-> u, link |-> j, port |-> ComStrings(cfg[u])[j],
                      listening |-> TRUE] : j \in Live(u)}
                    \cup (IF pc[u] \in {"listen", "setup"}
                          THEN {SockOf(u, pc[u] = "setup")} ELSE {})
  <2>1. TypeOK /\ SocksOf(u) = Sockets(u, cfg[u], pc[u], at[u])
    BY <1>1, UserFacts DEF LifeInv, HeldInv, Kept
  <2>2. CASE ~IsRx(u)
    BY <2>1, <2>2 DEF IsRx, Sockets, SocksOf
  <2>3. CASE IsRx(u)
    <3>1. {Listening(u, cfg[u], j) : j \in ReadyLinks(cfg[u], pc[u], at[u])} =
            {[user |-> u, link |-> j, port |-> ComStrings(cfg[u])[j],
              listening |-> TRUE] : j \in Live(u)}
      BY <2>1, LiveReady DEF Listening
    <3>2. CASE pc[u] = "listen"
      <4>1. SockOf(u, pc[u] = "setup") = Bound(u, cfg[u], at[u])
        BY <3>2 DEF SockOf, Bound, AddressOf
      <4> QED
        BY <2>1, <2>3, <3>1, <3>2, <4>1 DEF IsRx, Sockets, SocksOf
    <3>3. CASE pc[u] = "setup"
      <4>1. SockOf(u, pc[u] = "setup") = Listening(u, cfg[u], at[u])
        BY <3>3 DEF SockOf, Listening, AddressOf
      <4> QED
        BY <2>1, <2>3, <3>1, <3>3, <4>1 DEF IsRx, Sockets, SocksOf
    <3>4. CASE pc[u] \notin {"listen", "setup"}
      BY <2>1, <2>3, <3>1, <3>4 DEF IsRx, Sockets, SocksOf
    <3> QED
      BY <3>2, <3>3, <3>4
  <2> QED
    BY <2>2, <2>3
<1>2. LifeInv => PortsHeld
  BY <1>1 DEF PortsHeld
<1> QED
  BY <1>2, LifeCorrect, PTL
=============================================================================
