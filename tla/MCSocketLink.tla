--------------------------- MODULE MCSocketLink ---------------------------
(* Values of SocketLink's constants for TLC. *)
EXTENDS SocketLinkAcks

Both(v) == [e \in End |-> v]

\* What the applications at the two ends do.
OneWay     == [e \in End |-> IF e = "tx" THEN {"send"} ELSE {"recv"}]
AnyCall    == [e \in End |-> Api]
Duplex     == [e \in End |-> {"send", "recv"}]

\* ICOM_FLAG_ZERO, ICOM_FLAG_TIMEOUT.
NoEnd      == Both(FALSE)
BothEnds   == Both(TRUE)
OnlyTx     == [e \in End |-> e = "tx"]
OnlyRx     == [e \in End |-> e = "rx"]

\* Notification modes.
NoNotify   == Both("none")
Manual     == Both("notify")
Auto       == Both("autonotify")
=============================================================================
