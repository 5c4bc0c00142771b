---------------------------- MODULE MCIcomObject ----------------------------
(* Values of IcomObject's constants for TLC. *)
EXTENDS IcomObjectRounds, TLC

CONSTANTS c1, c2, c3, c4, c5, l1, l2, l3, l4

Components == {c1, c2, c3, c4, c5}
LinkNames  == {l1, l2, l3, l4}

\* All links of the components not named are none.
Wired(f) == [x \in Components |-> IF x \in DOMAIN f THEN f[x] ELSE <<>>]

Plan(is, os) == [ins |-> Wired(is), outs |-> Wired(os)]

\* tests/src/link_socket.cpp: fan-in and complex.
FanIn ==
  Plan(c4 :> <<l1, l2, l3>>,
       c1 :> <<l1>> @@ c2 :> <<l2>> @@ c3 :> <<l3>>)

Complex ==
  Plan(c4 :> <<l1, l2>> @@ c5 :> <<l3, l4>>,
       c1 :> <<l1>> @@ c2 :> <<l2, l3>> @@ c3 :> <<l4>>)

FanOut ==
  Plan(c2 :> <<l1>> @@ c3 :> <<l2>>, c1 :> <<l1, l2>>)

Tree ==
  Plan(c2 :> <<l1>> @@ c3 :> <<l2>> @@ c4 :> <<l3>>,
       c1 :> <<l1, l2>> @@ c2 :> <<l3>>)

Diamond ==
  Plan(c2 :> <<l1>> @@ c3 :> <<l2>> @@ c4 :> <<l3, l4>>,
       c1 :> <<l1, l2>> @@ c2 :> <<l3>> @@ c3 :> <<l4>>)

Pair == Plan(c2 :> <<l1, l2>>, c1 :> <<l1, l2>>)

\* Plans under flags, where a flag set is <<zero, notify>>.
With(plans, flags, caps, early) ==
  {[ins |-> p.ins, outs |-> p.outs, zero |-> f[1], notify |-> f[2], cap |-> k,
    early |-> early] : p \in plans, f \in flags, k \in caps}

Deep     == <<FALSE, "none">>
Notify   == <<TRUE, "notify">>
Auto     == <<TRUE, "autonotify">>
AllFlags == {Deep, Notify, Auto}

\* Plans without a cycle under all flags, receivers first or in any order;
\* plans with a cycle where calls return.
AllSystems ==
  With({FanIn, FanOut, Complex, Tree}, AllFlags, {0, 1}, FALSE)
  \cup With({FanIn, FanOut, Tree}, AllFlags, {0, 1}, TRUE)
  \cup With({Diamond}, {Deep, Notify}, {0, 1}, FALSE)
  \cup With({Pair}, {Deep, <<FALSE, "notify">>}, {1}, FALSE)

\* A cycle, and acknowledgements that are awaited link by link.
DiamondAuto == With({Diamond}, {Auto}, {1}, FALSE)

\* Two destinations, one of which may not listen yet.
EarlyFanOut == With({FanOut}, {Deep}, {1}, TRUE)
=============================================================================
