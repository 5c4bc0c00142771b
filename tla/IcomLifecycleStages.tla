------------------------- MODULE IcomLifecycleStages -------------------------
(***************************************************************************)
(* Why IcomLifecycle releases everything once: how far a user has come in  *)
(* icom_init, in a failed icom_init or in icom_deinit says which links are *)
(* ready, what it holds for them, what it has left behind, and which       *)
(* sockets the kernel keeps.  LifeInv is the inductive invariant           *)
(* IcomLifecycleProofs proves; TLC checks it on the instances of           *)
(* MCIcomLifecycle.                                                        *)
(***************************************************************************)
EXTENDS IcomLifecycle

\* A string the parser gets through.
Parsed(c) == c.fields = 3 /\ c.entries # <<>>

\* StringsAsListed, for all strings the users may pass (the two passes of
\* string_parser.c).
ParserAgrees ==
  \A u \in User : \A c \in Configs[u] : Parsed(c) => AsListed(c)

-----------------------------------------------------------------------------
(* One user: its configuration c, the stage p and the loop variable i, its *)
(* blocks h, the connections A it has accepted, the kernel's sockets S.    *)

Linking == {"link", "bind", "listen", "setup"}
HasFd   == {"bind", "listen", "setup"}
Object  == {"object", "deinit"}

\* The links that are initialised, and how many that is.
ReadyLinks(c, p, i) ==
  IF p \in Linking       THEN 1..(i - 1)
  ELSE IF p = "unwind"   THEN 1..i
  ELSE IF p = "object"   THEN 1..ComCount(c)
  ELSE IF p = "deinit"   THEN i..ComCount(c)
  ELSE {}

Ready(c, p, i) ==
  IF p \in Linking       THEN i - 1
  ELSE IF p = "unwind"   THEN i
  ELSE IF p = "object"   THEN ComCount(c)
  ELSE IF p = "deinit"   THEN ComCount(c) - i + 1
  ELSE 0

\* The loops stay within the links of the object; only a listening link comes
\* to bind(), and only with an address.
Stage(c, p, i) ==
  /\ p \in Linking \cup Object \cup {"links", "unwind"} => Parsed(c)
  /\ p \in Linking  => i \in 1..ComCount(c)
  /\ p = "unwind"   => i \in 0..(ComCount(c) - 1)
  /\ p = "deinit"   => i \in 1..(ComCount(c) + 1)
  /\ p \in {"bind", "listen"} => c.type = "socket_rx"
  /\ p \in HasFd  => ComStrings(c)[i] \in Port
  /\ \A j \in ReadyLinks(c, p, i) : ComStrings(c)[j] \in Port

\* Connections are accepted on the ready links of a listening object.
Entitled(u, c, p, i, A) ==
  /\ IsFiniteSet(A)
  /\ \A a \in A : /\ a = <<u, a[2]>>
                  /\ p \in Object /\ c.type = "socket_rx"
                  /\ a[2] \in ReadyLinks(c, p, i)

\* The blocks, with k accepted connections.
Holds(c, p, i, h, k) ==
  LET n      == Ready(c, p, i)
      opened == IF p \in HasFd THEN 1 ELSE 0
  IN  /\ h.icom    = IF p # "none" THEN 1 ELSE 0
      /\ h.fields  = IF p \in Linking \cup {"type", "flags", "strings", "links", "unwind"}
                     THEN FieldBlocks(c) ELSE 0
      /\ h.strings = IF p \in Linking \cup Object \cup {"links", "unwind"}
                     THEN StringBlocks(ComCount(c)) ELSE 0
      /\ h.links   = IF p \in Linking \cup Object \cup {"unwind"} THEN 1 ELSE 0
      /\ h.pdata   = n + opened
      /\ h.ip      = n
      /\ h.fd      = n + opened + k

\* A ready link that listens has its receive buffer.
Buffers(c, p, i, h) == c.type = "socket_rx" => h.recvBuf >= Ready(c, p, i)

\* The socket of link j: bound, or listening as well.
Bound(u, c, j) ==
  [user |-> u, link |-> j, port |-> ComStrings(c)[j], listening |-> FALSE]
Listening(u, c, j) ==
  [user |-> u, link |-> j, port |-> ComStrings(c)[j], listening |-> TRUE]

Sockets(u, c, p, i) ==
  IF c.type # "socket_rx" THEN {}
  ELSE {Listening(u, c, j) : j \in ReadyLinks(c, p, i)}
       \cup (IF p = "listen" THEN {Bound(u, c, i)}
             ELSE IF p = "setup" THEN {Listening(u, c, i)}
             ELSE {})

Kept(u, c, p, i, h, A, S) ==
  /\ Stage(c, p, i)
  /\ Entitled(u, c, p, i, A)
  /\ p # "crashed" => Holds(c, p, i, h, Cardinality(A)) /\ Buffers(c, p, i, h)
  /\ S = Sockets(u, c, p, i)

\* What is left behind, with l held when icom_init began, and what icom_init
\* returns or is to return, r.
Leaves(c, p, r, i, h, l) ==
  p # "crashed" =>
    /\ h.flags - l.flags \in FlagsLeft(c, p, r)
    /\ h.recvBuf - l.recvBuf \in BuffersLeft(c, p, r, Ready(c, p, i))
    /\ h.lost - l.lost \in StringsLeft(p, r)
    /\ p \in Object => r = Pointer
    /\ p = "unwind" => r # Pointer

-----------------------------------------------------------------------------
AcceptedBy(u) == {a \in accepted : a[1] = u}
SocksOf(u)    == {s \in socks : s.user = u}

KeptBy(u) == Kept(u, cfg[u], pc[u], at[u], heap[u], AcceptedBy(u), SocksOf(u))

LeavesBy(u) == Leaves(cfg[u], pc[u], ret[u], at[u], heap[u], left[u])

HeldInv == TypeOK /\ \A u \in User : KeptBy(u)

\* All of it (icom_init, icom_deinit and the functions of string_parser.c,
\* icom_flags.c and link_socket.c they call).
LifeInv == HeldInv /\ \A u \in User : LeavesBy(u)
=============================================================================
