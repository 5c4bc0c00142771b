--------------------------- MODULE MCIcomLifecycle ---------------------------
(* Values of IcomLifecycle's constants for TLC. *)
EXTENDS IcomLifecycleStages, TLC

CONSTANTS u1, u2

Users    == {u1, u2}

Plain(a)    == [kind |-> "plain", ids |-> <<a>>]
List(as)    == [kind |-> "list",  ids |-> as]
FromTo(a, b) == [kind |-> "range", ids |-> <<a, b>>]

\* Two flags, as in "autonotify,zero".
String(t, n, ok, es) ==
  [type |-> t, fields |-> n, flags |-> 2, flagsOk |-> ok, entries |-> es]

Good(t, es) == String(t, 3, TRUE, es)

\* Two users that listen on the same ports, in either order.
ListenBoth == Good("socket_rx", <<FromTo(1, 2)>>)

OtherOrder == {Good("socket_rx", <<List(<<2, 1>>)>>), Good("socket_rx", <<Plain(2)>>)}

\* Third fields with entries of every kind, one behind the other.
Fields ==
  {<<Plain(1), List(<<2, 1, 2>>), FromTo(1, 2)>>, <<FromTo(1, 2), Plain(1)>>,
   <<List(<<1>>), FromTo(2, 2), List(<<2, 1>>)>>}

\* What a user may pass, right or wrong.
AnyString ==
  {Good(t, es) : t \in {"socket_tx", "socket_rx"},
     es \in {<<FromTo(1, 2)>>, <<Plain(1), List(<<1>>)>>,
             <<Plain(1), Plain(NotAnIp)>>, <<Plain(1), Plain(Malformed)>>, <<>>}}
  \cup {Good("stub", es) : es \in Fields}
  \cup {String("socket_rx", n, n # 3, <<Plain(1)>>) : n \in 1..3}
  \cup {Good("unknown", <<Plain(1)>>)}

\* One user tries everything while the other one wants the same ports.
Everything == u1 :> AnyString @@ u2 :> OtherOrder
=============================================================================
