---------------------------- MODULE IcomLifecycle ----------------------------
(***************************************************************************)
(* icom_init and icom_deinit (icom/src/icom.c) over the socket links       *)
(* (icom/src/link_socket.c): users on one host build and destroy objects   *)
(* of several links at the same time.  An action is a stretch of icom_init *)
(* up to the next point where it can fail or meet another user.  Every     *)
(* malloc may fail; the heap is counted block by block; the kernel keeps   *)
(* the listening sockets of all users.                                     *)
(***************************************************************************)
EXTENDS StringArray

CONSTANTS
  User,        \* the threads or processes that call icom_init, one object each
  Configs,     \* [User -> SUBSET Config] what each user passes to icom_init
  MaxInits,    \* bound: calls of icom_init per user
  MaxFaults    \* bound: calls of malloc or socket() that fail

\* A communication string "type|flags|addresses" as icom_init takes it apart:
\* the fields it has, how many flags the second one names and whether all of
\* them are known, and the entries of the third one.
Config == [type : {"socket_tx", "socket_rx", "stub", "unknown"}, fields : 1..3,
           flags : Nat \ {0}, flagsOk : BOOLEAN, entries : Seq(Entry)]

ASSUME LifecycleAssumption ==
  /\ Malformed \notin Port /\ NotAnIp \notin Port /\ Malformed # NotAnIp
  /\ Port \subseteq Nat
  /\ \A u \in User : Configs[u] # {} /\ \A c \in Configs[u] :
       c \in Config /\ \A i \in DOMAIN c.entries : WellFormed(c.entries[i])
  /\ MaxInits \in Nat
  /\ MaxFaults \in Nat

\* icomStatus_t, and the errno values icom_initSocketBind casts to it.
SUCCESS    == 0
ENOMEM     == 12
EINVAL     == 22
EMFILE     == 24
NIMPL      == 39
ELOOKUP    == 42
EADDRINUSE == 98
Pointer    == 4096    \* any address malloc returns

VARIABLES
  pc,         \* pc[u]: where u is in icom_init or icom_deinit
  cfg,        \* cfg[u]: the configuration of u's last icom_init
  at,         \* at[u]: the loop variable i, counting links from 1
  heap,       \* heap[u]: blocks and descriptors u holds, by what they are for
  ret,        \* ret[u]: what u's last icom_init returned, or is to return
  socks,      \* the kernel's bound sockets
  accepted,   \* <<u, j>>: link j of u has accepted a connection
  inits,      \* inits[u]: calls of icom_init so far
  left,       \* left[u]: history, what u held when its last icom_init began
  faults      \* failures injected so far

vars == <<pc, cfg, at, heap, ret, socks, accepted, inits, left, faults>>
net  == <<socks, accepted>>

Pc == {"none", "fields", "type", "flags", "strings", "links", "link", "bind",
       "listen", "setup", "unwind", "object", "deinit", "crashed"}

\* lost: blocks parser_initStrArray no longer has a pointer to.
Heap == [icom : Nat, fields : Nat, flags : Nat, strings : Nat, lost : Nat,
         links : Nat, pdata : Nat, ip : Nat, recvBuf : Nat, fd : Nat]

Empty == [icom |-> 0, fields |-> 0, flags |-> 0, strings |-> 0, lost |-> 0,
          links |-> 0, pdata |-> 0, ip |-> 0, recvBuf |-> 0, fd |-> 0]

\* Blocks of an array of strings: the array, its members.
FieldBlocks(c)  == c.fields + 1
FlagBlocks(c)   == c.flags + 1
StringBlocks(n) == n + 1

\* icom->comStrings and icom->comCount
ComStrings(c) == InitStrArray(Text(c.entries))
ComCount(c)   == GetConnectionCount(Text(c.entries))

IsRx(u) == cfg[u].type = "socket_rx"
Links(u) == 1..ComCount(cfg[u])
AddressOf(u) == ComStrings(cfg[u])[at[u]]

-----------------------------------------------------------------------------
Init ==
  /\ pc       = [u \in User |-> "none"]
  /\ cfg      = [u \in User |-> CHOOSE c \in Configs[u] : TRUE]
  /\ at       = [u \in User |-> 0]
  /\ heap     = [u \in User |-> Empty]
  /\ ret      = [u \in User |-> SUCCESS]
  /\ socks    = {}
  /\ accepted = {}
  /\ inits    = [u \in User |-> 0]
  /\ left     = [u \in User |-> Empty]
  /\ faults   = 0

Goto(u, p) == pc' = [pc EXCEPT ![u] = p]

\* A call of malloc or socket() fails.
Fault == faults < MaxFaults /\ faults' = faults + 1

\* The rest of a failed icom_init: the labels at its end, each freeing one more
\* thing than the one below it.
failure_initFields == 1
failure_initStrArray == 2    \* also failure_getFlags and failure_getType
failure_malloc_connections == 3
failure_initGeneric == 4

Freed(h, c, label) ==
  [h EXCEPT !.links   = @ - (IF label >= failure_initGeneric THEN 1 ELSE 0),
            !.strings = @ - (IF label >= failure_malloc_connections
                             THEN StringBlocks(ComCount(c)) ELSE 0),
            !.fields  = @ - (IF label >= failure_initStrArray
                             THEN FieldBlocks(c) ELSE 0),
            !.icom    = @ - 1]

Fail(u, status, label, h) ==
  /\ Goto(u, "none")
  /\ ret'  = [ret EXCEPT ![u] = status]
  /\ heap' = [heap EXCEPT ![u] = Freed(h, cfg[u], label)]
  /\ UNCHANGED <<cfg, at, net, inits, left>>

\* The process is gone; the kernel closes its sockets.
Crash(u) ==
  /\ Goto(u, "crashed")
  /\ socks'    = {s \in socks : s.user # u}
  /\ accepted' = {a \in accepted : a[1] # u}
  /\ UNCHANGED <<cfg, at, heap, ret, inits, left>>

\* The next statement of icom_init.
Step(u, p, h) ==
  /\ Goto(u, p)
  /\ heap' = [heap EXCEPT ![u] = h]
  /\ UNCHANGED <<cfg, at, ret, net, inits, left, faults>>

-----------------------------------------------------------------------------
(* icom_init up to the links.                                              *)

Start(u) ==
  /\ pc[u] = "none"
  /\ inits[u] < MaxInits
  /\ inits' = [inits EXCEPT ![u] = @ + 1]
  /\ left'  = [left EXCEPT ![u] = heap[u]]
  /\ cfg'   \in {[cfg EXCEPT ![u] = c] : c \in Configs[u]}
  /\ \/ /\ Goto(u, "fields")
        /\ heap' = [heap EXCEPT ![u].icom = @ + 1]
        /\ UNCHANGED <<ret, faults>>
     \/ /\ Fault
        /\ ret' = [ret EXCEPT ![u] = ENOMEM]
        /\ UNCHANGED <<pc, heap>>
  /\ UNCHANGED <<at, net>>

\* parser_initFields frees what it has when an allocation fails.
InitFields(u) ==
  /\ pc[u] = "fields"
  /\ \/ Step(u, "type", [heap[u] EXCEPT !.fields = @ + FieldBlocks(cfg[u])])
     \/ Fault /\ Fail(u, EINVAL, failure_initFields, heap[u])

StringToType(u) ==
  /\ pc[u] = "type"
  /\ \/ cfg[u].type # "unknown" /\ Step(u, "flags", heap[u])
     \/ /\ cfg[u].type = "unknown"
        /\ Fail(u, ELOOKUP, failure_initStrArray, heap[u])
        /\ UNCHANGED faults

\* icom_stringToFlags does not free the strings it takes the field apart into.
Flagged(u) == [heap[u] EXCEPT !.flags = @ + FlagBlocks(cfg[u])]

\* With one field, fieldArray[1] is read behind the array: no string, one that
\* names no flags, or nothing that can be read.
StringToFlags(u) ==
  /\ pc[u] = "flags"
  /\ \/ cfg[u].fields > 1 /\ cfg[u].flagsOk /\ Step(u, "strings", Flagged(u))
     \/ /\ cfg[u].fields > 1 => ~cfg[u].flagsOk
        /\ Fail(u, ELOOKUP, failure_initStrArray, Flagged(u))
        /\ UNCHANGED faults
     \/ /\ cfg[u].fields = 1
        /\ Fail(u, ELOOKUP, failure_initStrArray, heap[u]) \/ Crash(u)
        /\ UNCHANGED faults
     \/ Fault /\ Fail(u, ELOOKUP, failure_initStrArray, heap[u])

\* error_malloc_member, reached from a bracket: the candidate and its prefix
\* are lost, and strArray[0] as well unless the first string is the one that
\* failed, since the loop stops at 1.
LostStrings(c) ==
  LET bracket == {i \in DOMAIN c.entries : c.entries[i].kind # "plain"}
  IN  {0} \cup {2 : i \in bracket \cap {1}}
          \cup {3 : i \in {j \in bracket : j > 1 \/ Len(Listed(c.entries[j])) > 1}}

\* With two fields, fieldArray[2] is read behind the array.  A failed strndup
\* frees strArray, which is no heap block.
InitStrings(u) ==
  /\ pc[u] = "strings"
  /\ \/ /\ cfg[u].fields = 3 /\ cfg[u].entries # <<>>
        /\ Step(u, "links", [heap[u] EXCEPT
                 !.strings = @ + StringBlocks(Len(ComStrings(cfg[u])))])
     \/ /\ cfg[u].fields < 3 \/ cfg[u].entries = <<>>
        /\ Fail(u, EINVAL, failure_initStrArray, heap[u])
        /\ UNCHANGED faults
     \/ cfg[u].fields < 3 /\ Crash(u) /\ UNCHANGED faults
     \/ /\ Fault
        /\ \/ Crash(u)
           \/ \E k \in LostStrings(cfg[u]) :
                Fail(u, EINVAL, failure_initStrArray, [heap[u] EXCEPT !.lost = @ + k])

AllocLinks(u) ==
  /\ pc[u] = "links"
  /\ \/ /\ Goto(u, "link")
        /\ heap' = [heap EXCEPT ![u].links = @ + 1]
        /\ at'   = [at EXCEPT ![u] = 1]
        /\ UNCHANGED <<cfg, ret, net, inits, left, faults>>
     \/ Fault /\ Fail(u, ENOMEM, failure_malloc_connections, heap[u])

-----------------------------------------------------------------------------
(* One link: icom_initSocketConnect, icom_initSocketBind, or a stub.       *)

\* Mutant: the link that failed is deinitialised too.
UnwindFromFailed(i) == i

\* for(--i; i>=0; i--)
UnwindFrom(i) == i - 1

\* The link's init function has released its own blocks and returns an error.
LinkFails(u, status, h) ==
  /\ Goto(u, "unwind")
  /\ at'   = [at EXCEPT ![u] = UnwindFrom(@)]
  /\ ret'  = [ret EXCEPT ![u] = status]
  /\ heap' = [heap EXCEPT ![u] = h]
  /\ UNCHANGED <<cfg, inits, left>>

\* link_zmq.c, link_fifo.c
InitStub(u) ==
  /\ pc[u] = "link"
  /\ cfg[u].type = "stub"
  /\ LinkFails(u, NIMPL, heap[u])
  /\ UNCHANGED <<net, faults>>

\* The beginning of both init functions, and what they return when the address,
\* malloc or socket() is at fault.
OpenSocket(u, next) ==
  \/ /\ AddressOf(u) \in Port
     /\ Step(u, next, [heap[u] EXCEPT !.pdata = @ + 1, !.fd = @ + 1])
  \/ /\ AddressOf(u) \notin Port
     /\ LinkFails(u, EINVAL, heap[u])
     /\ UNCHANGED <<net, faults>>
  \/ /\ AddressOf(u) # Malformed
     /\ Fault
     /\ LinkFails(u, ENOMEM, heap[u]) \/ LinkFails(u, EMFILE, heap[u])
     /\ UNCHANGED net

OpenConnecting(u) ==
  /\ pc[u] = "link"
  /\ cfg[u].type = "socket_tx"
  /\ OpenSocket(u, "setup")

OpenListening(u) ==
  /\ pc[u] = "link"
  /\ cfg[u].type = "socket_rx"
  /\ OpenSocket(u, "bind")

SockOf(u, listening) ==
  [user |-> u, link |-> at[u], port |-> AddressOf(u), listening |-> listening]

\* With SO_REUSEADDR only a listening socket keeps others from a port.
BindConflict(q) == \E s \in socks : s.port = q /\ s.listening

\* failure_bind and failure_listen: close(pdata->fd), free(pdata)
Closed(h) == [h EXCEPT !.pdata = @ - 1, !.fd = @ - 1]

Bind(u) ==
  /\ pc[u] = "bind"
  /\ IF BindConflict(AddressOf(u))
     THEN LinkFails(u, EADDRINUSE, Closed(heap[u])) /\ UNCHANGED socks
     ELSE /\ Goto(u, "listen")
          /\ socks' = socks \cup {SockOf(u, FALSE)}
          /\ UNCHANGED <<cfg, at, heap, ret, inits, left>>
  /\ UNCHANGED <<accepted, faults>>

\* Mutant: failure_listen without the close().
ListenLeaky(u) ==
  /\ pc[u] = "listen"
  /\ IF \E s \in socks : s.port = AddressOf(u) /\ s.listening
     THEN /\ LinkFails(u, EADDRINUSE, [heap[u] EXCEPT !.pdata = @ - 1])
          /\ UNCHANGED socks
     ELSE /\ Goto(u, "setup")
          /\ socks' = (socks \ {SockOf(u, FALSE)}) \cup {SockOf(u, TRUE)}
          /\ UNCHANGED <<cfg, at, heap, ret, inits, left>>
  /\ UNCHANGED <<accepted, faults>>

\* Two sockets may be bound to a port; the first listen() takes it.
Listen(u) ==
  /\ pc[u] = "listen"
  /\ IF \E s \in socks : s.port = AddressOf(u) /\ s.listening
     THEN /\ LinkFails(u, EADDRINUSE, Closed(heap[u]))
          /\ socks' = socks \ {SockOf(u, FALSE)}
     ELSE /\ Goto(u, "setup")
          /\ socks' = (socks \ {SockOf(u, FALSE)}) \cup {SockOf(u, TRUE)}
          /\ UNCHANGED <<cfg, at, heap, ret, inits, left>>
  /\ UNCHANGED <<accepted, faults>>

\* The end of both init functions, and of icom_init behind the last link.  The
\* first receive buffer is written to whether malloc returned it or not.
Setup(u) ==
  /\ pc[u] = "setup"
  /\ \/ LET h    == [heap[u] EXCEPT !.ip = @ + 1, !.recvBuf = @ + 1]
            last == at[u] = ComCount(cfg[u])
        IN  /\ Goto(u, IF last THEN "object" ELSE "link")
            /\ at'   = [at EXCEPT ![u] = @ + 1]
            /\ ret'  = [ret EXCEPT ![u] = IF last THEN Pointer ELSE @]
            /\ heap' = [heap EXCEPT ![u] =
                 IF last THEN [h EXCEPT !.fields = @ - FieldBlocks(cfg[u])] ELSE h]
            /\ UNCHANGED <<cfg, net, inits, left, faults>>
     \/ Fault /\ Crash(u)

-----------------------------------------------------------------------------
(* icom_deinitSocket, from icom_deinit or from a failed icom_init.         *)

\* Mutant: accepted connections are left open.
DeinitSocketListenerOnly(u, j) ==
  /\ heap' = [heap EXCEPT ![u].fd = @ - 1, ![u].ip = @ - 1, ![u].pdata = @ - 1,
                          ![u].recvBuf = @ - (IF IsRx(u) THEN 1 ELSE 0)]
  /\ socks'    = {s \in socks : ~(s.user = u /\ s.link = j)}
  /\ accepted' = accepted \ {<<u, j>>}

\* recvBuf is freed at the receiving end only.
DeinitSocket(u, j) ==
  LET closed == IF <<u, j>> \in accepted THEN 2 ELSE 1
  IN
  /\ heap' = [heap EXCEPT ![u].fd = @ - closed, ![u].ip = @ - 1, ![u].pdata = @ - 1,
                          ![u].recvBuf = @ - (IF IsRx(u) THEN 1 ELSE 0)]
  /\ socks'    = {s \in socks : ~(s.user = u /\ s.link = j)}
  /\ accepted' = accepted \ {<<u, j>>}

UnwindLink(u) ==
  /\ pc[u] = "unwind"
  /\ at[u] >= 1
  /\ DeinitSocket(u, at[u])
  /\ at' = [at EXCEPT ![u] = @ - 1]
  /\ UNCHANGED <<pc, cfg, ret, inits, left, faults>>

UnwindDone(u) ==
  /\ pc[u] = "unwind"
  /\ at[u] = 0
  /\ Fail(u, ret[u], failure_initGeneric, heap[u])
  /\ UNCHANGED faults

Deinit(u) ==
  /\ pc[u] = "object"
  /\ Goto(u, "deinit")
  /\ at' = [at EXCEPT ![u] = 1]
  /\ UNCHANGED <<cfg, heap, ret, net, inits, left, faults>>

DeinitLink(u) ==
  /\ pc[u] = "deinit"
  /\ at[u] \in Links(u)
  /\ DeinitSocket(u, at[u])
  /\ at' = [at EXCEPT ![u] = @ + 1]
  /\ UNCHANGED <<pc, cfg, ret, inits, left, faults>>

DeinitDone(u) ==
  /\ pc[u] = "deinit"
  /\ at[u] \notin Links(u)
  /\ Goto(u, "none")
  /\ heap' = [heap EXCEPT ![u].links = @ - 1, ![u].icom = @ - 1,
                          ![u].strings = @ - StringBlocks(ComCount(cfg[u]))]
  /\ UNCHANGED <<cfg, at, ret, net, inits, left, faults>>

-----------------------------------------------------------------------------
(* While the object is in use.                                             *)

\* link_accept, in the first icom_recv on the link.
Accept(u, j) ==
  /\ pc[u] = "object"
  /\ IsRx(u)
  /\ <<u, j>> \notin accepted
  /\ accepted' = accepted \cup {<<u, j>>}
  /\ heap' = [heap EXCEPT ![u].fd = @ + 1]
  /\ UNCHANGED <<pc, cfg, at, ret, socks, inits, left, faults>>

Opening(u) ==
  \/ Start(u) \/ InitFields(u) \/ StringToType(u) \/ StringToFlags(u)
  \/ InitStrings(u) \/ AllocLinks(u)
  \/ InitStub(u) \/ OpenConnecting(u) \/ OpenListening(u)
  \/ Bind(u) \/ Listen(u) \/ Setup(u) \/ UnwindLink(u) \/ UnwindDone(u)

Using(u) ==
  \/ Deinit(u) \/ DeinitLink(u) \/ DeinitDone(u)
  \/ \E j \in Links(u) : Accept(u, j)

Next == \E u \in User : Opening(u) \/ Using(u)

Spec == Init /\ [][Next]_vars

-----------------------------------------------------------------------------
(* Properties.                                                             *)

\* The links of u that are initialised at this moment.
Live(u) ==
  CASE pc[u] \in {"link", "bind", "listen", "setup"} -> 1..(at[u] - 1)
    [] pc[u] = "unwind"                              -> 1..at[u]
    [] pc[u] = "object"                              -> Links(u)
    [] pc[u] = "deinit"                              -> at[u]..ComCount(cfg[u])
    [] OTHER                                         -> {}

If(b, n) == IF b THEN n ELSE 0

\* The link being initialised has its descriptor.
Opened(u) == pc[u] \in {"bind", "listen", "setup"}

\* What icom_deinit, or the rest of a failed icom_init, has to release: what
\* the objects that exist at this point of the code need.
Held(u) ==
  LET c == cfg[u]
      n == Cardinality(Live(u))
      linked == pc[u] \in {"link", "bind", "listen", "setup", "unwind"}
      object == pc[u] \in {"object", "deinit"}
  IN  [icom    |-> If(pc[u] # "none", 1),
       fields  |-> If(linked \/ pc[u] \in {"type", "flags", "strings", "links"},
                      FieldBlocks(c)),
       strings |-> If(linked \/ object \/ pc[u] = "links",
                      StringBlocks(Len(Meant(c.entries)))),
       links   |-> If(linked \/ object, 1),
       pdata   |-> n + If(Opened(u), 1),
       ip      |-> n,
       fd      |-> n + If(Opened(u), 1)
                     + Cardinality({a \in accepted : a[1] = u})]

InHeap(h) == [icom |-> h.icom, fields |-> h.fields, strings |-> h.strings,
              links |-> h.links, pdata |-> h.pdata, ip |-> h.ip, fd |-> h.fd]

\* What an icom_init at stage p, which returns r when it is over, has added to
\* the rest: the flag strings; the receive buffers, n links being ready; the
\* strings the parser has lost.
FlagsLeft(c, p, r) ==
  IF p \in {"fields", "type", "flags"}      THEN {0}
  ELSE IF p = "none" /\ r # Pointer         THEN {0, FlagBlocks(c)}
  ELSE {FlagBlocks(c)}

BuffersLeft(c, p, r, n) ==
  IF c.type = "socket_rx" THEN {n}
  ELSE IF p \in {"object", "deinit"} \/ (p = "none" /\ r = Pointer)
       THEN {ComCount(c)}
  ELSE IF p \in {"unwind", "none"} THEN {n} \cup n..(ComCount(c) - 1)
  ELSE {n}

StringsLeft(p, r) == IF p = "none" /\ r = EINVAL THEN {0, 2, 3} ELSE {0}

AnyConfig == UNION {Configs[u] : u \in User}

TypeOK ==
  /\ pc    \in [User -> Pc]
  /\ cfg   \in [User -> AnyConfig]
  /\ \A u \in User : cfg[u] \in Configs[u]
  /\ at    \in [User -> Nat]
  /\ heap  \in [User -> Heap]
  /\ ret   \in [User -> Nat]
  /\ socks \subseteq [user : User, link : Nat, port : Port, listening : BOOLEAN]
  /\ accepted \subseteq User \X Nat
  /\ inits \in [User -> 0..MaxInits]
  /\ left  \in [User -> Heap]
  /\ faults \in 0..MaxFaults

\* The two passes of the parser agree with each other and with what is meant.
AsListed(c) ==
  /\ ComStrings(c) = Meant(c.entries)
  /\ ComStrings(c) \in Seq(Address) \ {<<>>}
  /\ ComCount(c) = Len(ComStrings(c))

\* As many strings are written as have been counted, room been made for and
\* links will be initialised from, at least one, and they are the addresses
\* listed, in order (parser_getConnectionCount, parser_initStrArray).
StringsAsListed == \A u \in User : pc[u] = "links" => AsListed(cfg[u])

\* Wherever icom_init fails, and whatever has been initialised or accepted by
\* then, what the labels at its end, icom_deinit and icom_deinitSocket are there
\* to release is released once: a process that has not crashed holds exactly
\* what the objects that exist at that point need.
\* What the code does leave behind, it leaves once per icom_init and in these
\* amounts: the flag strings, also when all goes well (icom_stringToFlags);
\* a receive buffer for each connecting link that was ready, none for a
\* listening one (icom_deinitSocket); at most three strings, and only when
\* parser_initStrArray runs out of memory.
Accounted ==
  \A u \in User : pc[u] # "crashed" =>
    /\ InHeap(heap[u]) = Held(u)
    /\ heap[u].flags - left[u].flags \in FlagsLeft(cfg[u], pc[u], ret[u])
    /\ heap[u].recvBuf - left[u].recvBuf \in
         BuffersLeft(cfg[u], pc[u], ret[u], Cardinality(Live(u)))
    /\ heap[u].lost - left[u].lost \in StringsLeft(pc[u], ret[u])

\* The sockets the kernel keeps for a user are those of its links: none when
\* it has no object, all ports of the object listening when it has one.
PortsHeld ==
  \A u \in User :
    {s \in socks : s.user = u} =
      IF ~IsRx(u) THEN {}
      ELSE {[user |-> u, link |-> j, port |-> ComStrings(cfg[u])[j], listening |-> TRUE] :
              j \in Live(u)}
           \cup (IF pc[u] \in {"listen", "setup"}
                 THEN {SockOf(u, pc[u] = "setup")} ELSE {})
=============================================================================
