# icom in TLA+

icom is a C library for messages between processes: `icom_init` turns a string
such as `socket_tx|default|127.0.0.1:8888` into an object of one or more links,
`icom_send` and `icom_recv` move messages over them, optionally with
acknowledgements (`notify`, `autonotify`), timeouts, and pointers in place of
payloads (`zero`). This directory holds TLA+ models of it, the TLC runs that
check them, and TLAPS proofs.

## Inventory

| part | code | state | operations |
|---|---|---|---|
| socket link, transfer | `icom/src/link_socket.c` 15-282 | handler table, `flags`, `recvSize`, `recvBufSize`, `recvBuf`, `fd`, `fdAccepted`; a TCP connection | `link_sendHandler`, `link_recvHandler`, `link_sendAck`, `link_recvAck`, the auto acknowledgements, connect, accept |
| object lifecycle | `icom.c` 66-207, `link_socket.c` 284-548 | heap blocks, descriptors, kernel sockets | `icom_init`, `icom_deinit` and what they call |
| several links | `icom.c` 210-285 | the links of an object | loops of `icom_send` (first to last), `icom_recv`, `icom_notify_*` (last to first); only `status[0]` is returned |
| buffer traversal | `icom.c` 287-339 | none of its own: the buffer pointer | `icom_nextBuffer` |
| string parser | `string_parser.c` | none | fields, comma and range expansion, `getConnectionCount` |
| flags, types, status | `icom_flags.c`, `icom_type.c`, `icom_status.h` | constant tables | lookups, `ICOM_IS_ERR` |
| configuration | `icom_config.c`, `config.c` | two timeouts nobody reads; `g_timeout_usec` | set, get |
| ZeroMQ, FIFO links | `link_zmq.c`, `link_fifo.c` | none | return `ICOM_NIMPL` |
| tests, benchmark | `tests`, `benchmark` | | clients |

How they interact: the application calls `icom_*`; these call the handlers
stored in each `icomLink_t`; the handlers make blocking system calls on one TCP
socket per link. An end is used by one thread, the two ends by different threads
or processes. `icom_init` calls the parser, the lookups, and per link an init
function of the handler table; `icom_deinit` and a failed `icom_init` call the
deinit function.

What is hard here:

* framing: header, payload and acknowledgements share one byte stream without
  markers, `send` and `recv` move any number of bytes, and `link_recvHeader` acts
  on a header only when its size differs from the last one;
* acknowledgements: `autonotify` works by skipping the first one;
* timeouts in the middle of a message, and retries;
* the end of a connection: `recv` returning 0, resets, SIGPIPE;
* empty messages: `recv` of no bytes blocks;
* failing half-way through `icom_init`, with links already up;
* two processes after one port;
* several links served in opposite orders by the two sides, each call blocking on
  one link at a time, and a status that tells of the first link only;
* a traversal that keeps no place, over buffers that belong to other components;
* a parser that cuts the same string twice, by different rules.

What would be right: per link, messages arrive once, whole, in order, and
eventually (`MsgChannel`); calls with a timeout return; with `autonotify` a
returned `icom_send` means the receiver is done with the message; `icom_init`
and `icom_deinit` release once what they are there to release and leave ports free,
and what they leave behind is known; the links are
those the string lists; components connected by objects of several links pass on
round after round without waiting in a circle, and a traversal reads the round
that has been received (`Dataflow`).

## Modules

* **MsgChannel**: the abstract channel: two ends, sequences of messages sent and
  received; a receiver is given the next one it has not had.
* **SocketLink**: one link between the connecting end `tx` and the listening
  end `rx`, one thread each. `pc[e]` is where the thread stands in its handlers,
  `done[e]` how far the current `send`/`recv` loop has come; `wire[e]` is the
  stream sent by `e` and not yet read (socket buffers of both sides together);
  `fdAccepted`, `zero`, `recvSize`, `recvBufSize`, `ackArmed` are the fields of
  `icomLink_t` and `icomLinkSocket_t`; `msgs`, `acks`, `frame`, `got` are
  history: nothing in the code's behaviour depends on them except the contents
  of headers, which the code reads from the wire. `Push` and `Pull` move one
  unit, so that every split of a message over calls of `send` and `recv` occurs.
  A header read out of place (`frame = 0`) may say anything. One action per
  system call or handler end; names follow the handlers.
* **SocketLinkFraming**: the inductive invariant `FramingInv` (below), and `TimelySpec`,
  the link whose timeouts strike between two messages, if at all.
* **SocketLinkAcks**: `AckInv` and `TurnInv`, the same for acknowledgements and for the
  turns of the two threads, and what the applications get from them: `NoCircularWait`,
  `ClosesInOrder`.
* **MCSocketLink**: values for TLC.
* **SocketLinkProofs** (types), **SocketLinkFramingProofs** (framing, delivery),
  **SocketLinkAckProofs** (acknowledgements), **SocketLinkTurnProofs** (autonotify),
  **SocketLinkChannelProofs** (end of the stream, refinement of MsgChannel): the proofs.
* **IcomLifecycle**: users that call `icom_init` and `icom_deinit`. `pc[u]` follows
  the statements of `icom_init`, `at[u]` is its loop variable, `heap[u]` counts
  blocks and descriptors by purpose, those the code forgets included (`flags`,
  `recvBuf`, `lost`), `left[u]` is what `u` held when its last `icom_init` began (history),
  `socks` are the kernel's bound sockets, `accepted` the connections a receiver has
  accepted. The goto labels at the end of `icom_init` are numbered by how much
  they free (`Freed`). Any `malloc` may fail (`Fault`). `Bind` and `Listen` are
  separate steps: with SO_REUSEADDR two sockets can be bound to a port and the
  first `listen` takes it.
  A link that is only a stub fails in a step of its own (`InitStub`). The third
  field of the string is a sequence of entries; what the code sees of it, and
  makes of it, is StringArray's business.
* **StringArray**: the third field between its commas (`Text`, `Piece`), the pass
  that counts its addresses (`GetConnectionCount`, cutting at each comma) and the
  pass that writes them (`InitStrArray`, cutting outside brackets:
  `CandidateEnd`, `Expand`). `Meant` is the reference. Numbers and prefixes are not
  spelt out: a piece knows whether it has a prefix, brackets, a dash. Only rising
  ranges and brackets with a prefix are strings (`WellFormed`).
* **StringArrayProofs**: the two passes agree.
* **IcomLifecycleStages**: the inductive invariant `LifeInv`.
* **MCIcomLifecycle**: values for TLC.
* **IcomLifecycleProofs**: the proofs.
* **Dataflow**: what objects of several links promise: a component begins a round
  when the one before has been sent over all its links (and, if it has sources,
  the round has been gathered from all of them); each round is sent over every link;
  every step that can happen does.
* **IcomObject**: up to one receiving and one sending object per component, a
  component being one thread that goes through `icom_recv`, the traversal with
  `icom_nextBuffer`, `icom_notify_send`, the writing of its one buffer, `icom_send`,
  `icom_notify_recv`, as in README.md and `tests/src/link_common.cpp`. `at[c]` is
  the loop variable: `icom_send` goes from the first link to the last, the other
  calls from the last to the first. A link is what SocketLink has been shown to
  be, messages in order and acknowledgements that are not confused with them:
  `wire[l]` and `acks[l]`. `sys` is the system under way, one of the constant
  `Systems`: who is connected to whom, the flags, whether the kernel holds a
  message on a link or `send` waits until it is taken (`cap`), whether components may
  send before all receivers listen (`early`). A refused message is lost and the
  call goes on with the next link; what `icom_send` returns is not looked at. Where
  receivers listen in time (`InTime`) the objects implement Dataflow (`IsADataflow`);
  elsewhere a destination may be missed, which run `object_early` shows.
  With zero-copy the message is the component's name, and what a reader finds
  there is what that component has written last.
* **IcomObjectRounds**: the inductive invariant `RoundsInv`.
* **MCIcomObject**: the systems for TLC.
* **IcomObjectProofs**: the proofs.

Operators commented "Mutant" change a definition as a plausible bug would; the
properties are known to fail with them in place.

The kernel is external and modelled as Linux behaves: `shutdown` of a listener
frees its port, closing with unread input resets the connection, `recv` of no bytes
blocks on TCP until data, end of stream or timeout, and returns 0 on timeout.

## Runs

Bounds are constants: messages and acknowledgements per end (`MaxFrames`,
`MaxAcks`), units per header, pointer, acknowledgement, socket buffer; calls of
`icom_init` per user and failing allocations (`MaxInits`, `MaxFaults`); rounds a
component begins (`MaxRounds`).

Bytes are counted in units of a few bytes. Headers of 2 units can be split,
a socket buffer smaller than a message makes `send` block in the middle, and 3
messages are enough for equal, growing and shrinking sizes and for a stale
`recvSize` to show. The proofs remove these bounds for safety.

Two rounds show the first one, whose acknowledgements differ (`autonotify` skips
one), and a later one that can meet it. Three links per object are enough for a
first, a middle and a last one in each loop and in `icom_nextBuffer`. The invariants are
checked with components that start before the receivers as well (fan-in, fan-out and the
tree, whose middle component may start before its own receiver). A diamond with `autonotify` is in
the run that expects a violation. Two components with two links between them
need a kernel that holds a message: `icom_send` serves the first link first,
`icom_recv` waits on the last one, and when neither a message nor an
acknowledgement can wait in between, both stop. They are not run with zero-copy
either: equal pointers on two links send `icom_nextBuffer` back to the first of them.

| run | what it shows |
|---|---|
| `link_duplex` | both directions at once, sizes 0, 1 and 3 over buffers of 3, `timeout` at both ends with receives and accepts that give up between two messages (`TimelySpec`), `icom_deinit` of either end at any moment between its calls, with resets and lost output: `Delivery`, `InStep`, `DrainedAtEof`, `FramingInv`, `TypeOK` |
| `link_autonotify` | either end closing between calls: stop-and-wait, an acknowledged message has been taken, the threads never wait for each other (`NoCircularWait`), the sender's `icom_deinit` loses nothing (`ClosesInOrder`), `icom_send` returns while the receiver receives; the inductive invariants `FramingInv`, `AckInv`, `TurnInv` |
| `link_notify` | manual notifications, calls in any order, a zero-copy sender and a deep-copy receiver, messages queueing up: acks and messages are never confused, the receiver follows the sender's flags, and the link implements `MsgChannel`, liveness included |
| `link_timeout` | with `timeout` at both ends each call returns as long as nobody closes, even out of step |
| `lifecycle` | two rounds of a user that passes any string, next to one that listens on the same two ports in the other order, any two allocations failing: the parser writes and counts what is listed (`StringsAsListed`), what the code is there to release is released once and what it leaves behind is exactly what is stated (`Accounted`), the kernel's sockets are those of the objects (`PortsHeld`); the inductive invariant `LifeInv` |
| `object` | fan-in, fan-out, the complex plan of the tests, a tree, a diamond, two components with two links between them; deep-copy, `zero` with `notify` or `autonotify`; `cap` 0 and 1: traversals read what has been received (`Gathered`), one message or acknowledgement per link (`OneInFlight`), and where receivers listen before anyone sends the objects implement `Dataflow`, liveness included; the inductive invariant `RoundsInv` |

`CHECK_DEADLOCK FALSE`: the applications may stop, the bounds are reached, and a
lone `icom_recv` waits for ever by design.

Runs that expect a violation; each is a disagreement between the code and what
its documentation or tests say:

| run | what happens |
|---|---|
| `link_empty_blocks` | an empty message: `recv` for 0 bytes blocks, `icom_recv` returns only with the next message |
| `link_timeout_garbles` | after a timeout inside a message the next `icom_recv` takes payload for a header |
| `link_surplus_ack` | `autonotify` and `timeout`: each retry of `icom_recv` acknowledges a message not received |
| `link_eof_spin` | the peer closes: `recv` returns 0 for ever, `icom_recv` loops, timeout or not |
| `object_autonotify` | a diamond of components under `autonotify`: `icom_send` waits for the first destination's acknowledgement before it serves the second, which the common destination needs: all stop |
| `object_early` | a sender of two destinations, the second of which does not listen yet: `icom_send` returns the first one's `ICOM_SUCCESS`, the second one never gets the data (README.md:62: "the same data gets sent to all of them") |

Disagreements the models contain and no run is spent on, since a single step
decides them: a first zero-copy message of size 0 equals the initial
`recvBufSize`, so that its pointer stays in the stream (why `Compatible` excludes
it); `icom_recv` on an unconnected `socket_tx` object returns `ICOM_ERROR` where
`tests/src/link_common.cpp:289` expects `ICOM_TIMEOUT`; a failed `strndup` in the
parser frees what is no block, and the first receive buffer is used unchecked
(`Crash`); `EADDRINUSE` (98), which `icom_init` returns when a port is taken, is above
`ICOM_COUNT` (46), so that `ICOM_IS_ERR` is false of it, against icom.h:73-75; a send
timeout after some bytes of a header counts as success (`SendTimesOut`).

Others the models leave out. README.md:92-102 ends its traversal when `data` is
NULL, but `icom_nextBuffer` leaves `*buf` on the last buffer and returns NULL, so
that this loop does not end (the tests' loop, which IcomObject has, looks at the
returned pointer). README.md:133 has the sender call `icom_recv` where it should
send. A falling range is counted as no link or fewer. `parser_initFields` does not set `fieldCount` to 0 when it
fails, as `string_parser.h:29` says.

### Fairness

`FairSpec` of SocketLink assumes weak fairness of `Progress(e)` (a thread inside
a call is scheduled, the kernel delivers, armed timeouts fire), of `InitSocket`
(both objects get created), and of `Recv("rx")`: the receiving application calls
`icom_recv` again. The last one is what the receive loops of the README, tests
and benchmark do; without a receiver nothing can be delivered. Nothing is
assumed of senders. `Progress(e)` is one disjunction because a thread is at one
place: weak fairness of the whole is enough.

`FairSpec` of IcomObject assumes weak fairness of `Step(c)` for each component: its
thread is scheduled and its application goes on with its loop. A step that waits
(for a message, room, an acknowledgement) is not enabled meanwhile, so that
nothing is assumed of calls that block. `Dataflow` then demands that a round that
is complete is received, one that can be begun is begun (by components that have
sources), and all links are served. IcomLifecycle needs no fairness.

## Proofs

TLAPS proves the theorems below for every value of the constants that satisfies
the module's `ASSUME`; each rests on an inductive invariant that the runs check
as well. Every safety invariant the passing runs check is a theorem, and so are
the safety parts of both refinements.

### The socket link

`LinkAssumption`: sizes are naturals, headers, pointers, acknowledgements and
buffers are not empty, flags are flags.

| theorem | statement | hypotheses |
|---|---|---|
| `TypeCorrect` | `Spec => []TypeOK` | |
| `FramingCorrect`, `DeliveryCorrect` | `TimelySpec => []FramingInv`, `[]Delivery` | `Compatible` |
| `AckCorrect`, `InStepCorrect` | `TimelySpec => []AckInv`, `[]InStep` | `Compatible` |
| `DrainedCorrect` | `TimelySpec => []DrainedAtEof` | `Compatible` |
| `ChannelCorrect` | `TimelySpec => Channel!ChanSpec` | `Compatible` |
| `UntimedIsTimely` | `Spec => TimelySpec` | `Untimed` |
| `TurnCorrect` | `Spec => []TurnInv` | `Compatible`, `Untimed` |
| `StopAndWaitCorrect`, `AckedIsTakenCorrect`, `NoCircularWaitCorrect`, `ClosesInOrderCorrect` | `Spec => []StopAndWait`, `[]AckedIsTaken`, `[]NoCircularWait`, `[]ClosesInOrder` | `Compatible`, `Untimed`, `Autonotify` |

`Compatible` says which flags fit: notifications at both ends or at neither, the same
`zero` at two ends that both send, and no empty message from a `zero` sender (the empty
zero-copy message above). A receiver that never sends may have another `zero` flag than
its sender (it follows the headers): `link_notify` runs that. Closes and resets at any
moment are included.

`TimelySpec` is `Spec` without the steps in which a call times out inside a message. Its
next-state relation `TimelyNext` has every handler (`Works`) and every call, lets `accept`
time out, and lets a receive loop that has read nothing yet of a header or an
acknowledgement do so (`TimesOutEarly`). The lemma `TimelyStep` derives from it that no
other timeout is taken, whatever step of `Next` is looked at. Timeouts inside a message
are left out because the theorems are false with them: `link_timeout_garbles` shows what a
timeout between header and payload does. A send timeout is left out altogether: one that
strikes before the first byte of a message leaves the stream in order, but `msgs` counts a
message from the call on. Without the timeout flag (`Untimed`) no such step exists, and
`TimelySpec` is `Spec`.

`TurnInv` and what follows from it need `Untimed`: a receive that times out between two
messages is harmless to the stream, but with `autonotify` its retry sends one
acknowledgement too many (`link_surplus_ack`).

`StopAndWait` and `AckedIsTaken` speak of the time until the receiver closes (`RxLive`): a
message sent to an end that has been closed is counted and never taken. The
sender may have closed.

`TypeCorrect` needs one fact beside the types: a header is looked up only where
the peer has begun to send one.

`Delivery` is not inductive: what a receiver will return depends on what is on
the wire and on where the sender stands. `FramingInv` gives every party a
position in the stream, `<<whole frames, units of the next>>`:

* `Contiguous`: each unit on the wire is the one behind its predecessor, the
  first one the one behind what the receiver has consumed;
* `UpToSender`: the sender stands behind the last unit (until a connection is reset or
  the receiver closes);
* `InMessage`: inside a message the receiver knows its number and size, and
  `recvSize` is the size of its payload on the wire;
* `BufferKept`: `recvSize` fits `recvBufSize`, so that skipping a header of the same
  size (link_socket.c:77) changes nothing;
* `ZeroKept`, `Roles`, `Pristine`: flags change only as headers may change them,
  only handlers the flags install run, nothing moves before both ends exist.

The proof has one step per action and under it one per direction of the stream:
an action of `e` touches the direction it sends in, the one it receives from, or
neither. `InStep` speaks of acknowledgements too: `AckInv` says of the direction
that carries them what `FramingInv` says of messages. `DrainedAtEof`
needs `EofInv` (a loop that has met the end of the stream never finds more to
read) and `UpToSender`: with an empty wire the receiver stands where the
sender stopped.

`ChannelCorrect` maps `msgs` to what has been sent and `got` to what has been
received; every action is shown to be a `Transmit`, a `Deliver` or a stutter of
MsgChannel. A `Deliver` is the end of `link_recvData`, where `FramingInv` says that the
message just read is the next one.

`StopAndWait` compares counters of two threads that never look at each other.
`TurnInv` ties both to the stream: `tx` has read the acknowledgement of every message
but the one under way (`TxTurn`), `rx` has acknowledged every message it has
returned but the last, until it asks for the next (`RxTurn`); `AckInv` and `FramingInv`
bound the one by the other. The first `icom_recv` only arms the acknowledgement,
which is why `RxTurn` is about `fdAccepted`. When the sender closes it is between two
calls, so that by `TxTurn` and `RxTurn` all messages have been returned and all
acknowledgements read: `TxOver`, from which the receiver can only go on to the end of the
stream (`OverStep`). When the receiver closes it is between two calls as well, and has
not sent the acknowledgement of its last message: `RxOver`, what is left on the way to
the sender is the acknowledgement it is waiting for, so that whatever becomes of its
sends it never closes over unread input (`RxOverStep`). Both give `ClosesInOrder`.
`Connected` and `UnitsBegun` say that nothing moves before both ends have connected and
that nothing on the wire is of a message not begun.

`NoCircularWait` is about `Waiting`: a thread in `accept` without a connection, in a
receive loop on an empty wire, or in a send loop on a full one. By turns at most one of the
two directions carries anything (`NotBothFull`), and when both are empty the one who waits
for an acknowledgement stands behind a message that has been returned (`NotBothEmpty`).
This is the safety half of `SendReturns`: it does not say that a call returns, only
that no circle of waiting keeps it from doing so.

### Several links

`ObjectAssumption`: components and links are different things, and a link has one
sender and one receiver (`OneEnd`: one TCP connection). Nothing is assumed of the
shape of the system, so that cycles are included, nor of `cap` and `early`.

* `RoundsCorrect`: `Spec => []RoundsInv`;
* `ObjectTypeCorrect`: `Spec => [](TypeOK /\ Placed)`: the loop variables name links of
  the object wherever a handler indexes the array;
* `OneInFlightCorrect`: `Spec => []OneInFlight`;
* `GatheredCorrect`: `[]Gathered`, under `DistinctPointers`: with zero-copy no two
  links bring the same sender's pointer (they send `icom_nextBuffer` back to the first,
  icom.c:315);
* `DataflowCorrect`: `Spec /\ InTime => Flow!FlowSafety`. `InTime` says of the system that
  every destination is a receiver and that all of them listen before anyone sends; without
  it the statement is false (`object_early`).

`OneInFlight` is not inductive: that a link is empty when `icom_send` comes to it
depends on what its two ends, in the middle of loops in opposite directions, have
done. `RoundsInv` reads off where they stand (`pc`, `at`):

* `Placed`: the loops stay within the links; a component in the middle has sent
  as many rounds as it received, or one less;
* `InRound`: each link has been served with every round, sent or refused, but for those
  behind the loop variable (`Unserved`);
* `NoneRefused`: with `InTime` who has begun has waited for all listeners, so that
  nothing is refused;
* `OnTheWay`: what has been put on a link is on the wire or `Taken`;
* `InOrder`: which round, or whose buffer, each message on the wire and in the
  receive buffer is (`Carries`);
* `Token`: with notifications the message a sender waits for is either with the
  receiver (`Held`) or one message or acknowledgement is on the link, and nothing
  else ever is;
* `Armed`: `autonotify` has skipped its first acknowledgement exactly on the links
  that have had a message.

`Gathered` needs `AllRead` in addition: a traversal under way stands behind the n-th
buffer and has read all up to it (`Reading`). Here zero-copy needs `Token`: a source
whose message is not acknowledged has not written its buffer again. For
`DataflowCorrect` each step of a component is a step of Dataflow or a stutter.

### Lifecycle and parser

`LifecycleAssumption`: ports are naturals, each user has strings to pass, and they
are `WellFormed`. Users, strings, shared ports, repeated calls and failing
allocations are arbitrary.

* `PassesAgree`: for all lists of entries, `InitStrArray` writes the addresses meant
  and `GetConnectionCount` counts them;
* `LifeCorrect`: `Spec => []LifeInv`;
* `LifecycleTypeCorrect`, `StringsAsListedCorrect`, `AccountedCorrect`,
  `PortsHeldCorrect`: `[]TypeOK`, `[]StringsAsListed`, `[]Accounted`, `[]PortsHeld`.

`Accounted` does not say that nothing is left of an `icom_init`: that is false of the code.
It says that a process that has not crashed holds, of what the labels of `icom_init`,
`icom_deinit` and `icom_deinitSocket` are there to release, exactly what its object needs
at that point (`Held`), and it counts the rest since the last `icom_init` began: the
strings of the flag field, which no call frees, also when all goes well
(`FlagsLeft`; icom_flags.c:49); one receive buffer per connecting link that was ready, none
per listening one (`BuffersLeft`; link_socket.c:543); at most three strings, the candidate,
its prefix and the first address, when the parser runs out of memory inside a bracket
(`StringsLeft`; string_parser.c:157-166). Of a process that has crashed nothing is said.

`Accounted`, `PortsHeld` and `TypeOK` need each other and more: that the loop variable
stays within the links, that connections have been accepted on ready links of
the user only, that the strings the links are made from are what was counted. `LifeInv`
derives from `pc[u]` and `at[u]` which links are ready (`ReadyLinks`: those before the
loop variable while links are made, those it has not come to while they are
released) and from these the blocks and descriptors (`Holds`), the accepted connections
(`Entitled`) and the kernel's sockets (`Sockets`). `Buffers` says that every ready listening
link has its receive buffer, `Leaves` what has been added to the blocks nobody frees at
each point of `icom_init` and `icom_deinit`. Users
share only the kernel's tables: a step of one leaves the sockets of the
others alone.

`PassesAgree` cuts a text of any length. `Layout` gives, per entry, how many pieces
and how many addresses come before it; the first pass has counted as many
addresses as there are at each of these points (induction forwards), and the
candidate that starts there ends with the entry (the first "]" behind a "[" is the
entry's own), so that the second pass writes the addresses from there on (induction
backwards). Induction is stated for sets of naturals (`Induction`), from
the well-foundedness of `<`, since the library's induction theorems take a predicate
as a parameter; `Recursion` shows that the recursively defined values
exist.

### Only model-checked

* Liveness: `SendReturns`, `TimedCallsReturn`, and the fairness of `MsgChannel` and of
  `Dataflow` (`IsAChannel`, `IsADataflow` check both halves; the theorems are about
  the safety half). Out of the prover's reach.
* The violations the six other runs show.
* Timeouts inside a message (`link_timeout`), and flags that do not fit.

## Not modelled

* Contents of messages and receive buffers; `realloc` failing in `link_recvHeader`.
* Objects whose links have different flags, equal zero-copy pointers on two links,
  and a word before a user's buffer that looks like a link's address
  (`icom_nextBuffer` tells own buffers from pointers by it).
* Timeouts and closes in systems of several links: what they do to one link is
  SocketLink's, and an object goes on with its next link whatever the status.
* Strings that are not `WellFormed`: falling ranges, a dash inside a list, a bracket
  without prefix.
* Type `auto`, whose outcome is undefined (the trial loop reports failures as
  success, and deinitialising reads behind the handler table), and `zmq_rep`, whose
  handler is read behind the table.
* `strdup` of the address failing, which only leaves `pdata->ip` NULL.
* Configuration, logging, stubs beyond their return value.

## Plan

Done, in this order: `MsgChannel` and `SocketLink`; `SocketLinkFraming` and its
proofs; `IcomLifecycle`; `Dataflow` and `IcomObject` with the traversal; `StringArray`
under `IcomLifecycle`; different `zero` flags at the ends of a link; the invariants of
acknowledgements, rounds, stages and turns, and the proofs about them; the parser's
proof; timeouts between messages and closing senders; what `icom_init` leaves behind,
and destinations that listen late.

Left open: links whose sender times out before the first byte of a message (the history
`msgs` would have to begin with the first byte sent).
