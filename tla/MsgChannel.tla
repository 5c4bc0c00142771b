----------------------------- MODULE MsgChannel -----------------------------
(***************************************************************************)
(* What an icom link promises to the two applications at its ends: a       *)
(* message handed to icom_send at one end comes out of icom_recv at the    *)
(* other end once, whole, with its own size, in the order of sending.      *)
(* Headers, partial transfers, handlers and buffers do not exist here;     *)
(* SocketLink is shown to implement this module.                           *)
(***************************************************************************)
EXTENDS Naturals, Sequences

CONSTANTS
  Ends,        \* the two ends of the link
  Other(_),    \* the end at the other side
  Payload      \* what a message is (here: its size)

VARIABLES
  sent,        \* sent[e]: messages end e has handed to the link, in order
  received     \* received[e]: messages the link has returned at end e

chanVars == <<sent, received>>

ChanInit ==
  /\ sent     = [e \in Ends |-> <<>>]
  /\ received = [e \in Ends |-> <<>>]

Transmit(e) ==
  \E m \in Payload :
    /\ sent' = [sent EXCEPT ![e] = Append(@, m)]
    /\ UNCHANGED received

\* The only message end e can be given is the first one it has not had yet.
Deliver(e) ==
  /\ Len(received[e]) < Len(sent[Other(e)])
  /\ received' = [received EXCEPT
                    ![e] = Append(@, sent[Other(e)][Len(@) + 1])]
  /\ UNCHANGED sent

ChanNext == \E e \in Ends : Transmit(e) \/ Deliver(e)

ChanSpec == ChanInit /\ [][ChanNext]_chanVars

\* A channel whose receiver keeps asking: nothing sent stays undelivered.
FairChanSpec == ChanSpec /\ \A e \in Ends : WF_chanVars(Deliver(e))
=============================================================================
