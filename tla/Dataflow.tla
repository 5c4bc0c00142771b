------------------------------ MODULE Dataflow ------------------------------
(***************************************************************************)
(* What icom objects of several links promise to the components that use   *)
(* them.  A component begins a round when it has served all links with the *)
(* one before and, if it has sources, received it; each link is served     *)
(* with the round, in whatever order: the same data gets sent to all of    *)
(* them (README.md, "Sending"); icom_recv completes when every source's    *)
(* message is there.                                                       *)
(* IcomObject implements this module.                                      *)
(***************************************************************************)
EXTENDS Naturals

CONSTANTS
  Components,
  Links

VARIABLES
  sources,    \* sources[c]: the links c receives from
  sinks,      \* sinks[c]: the links c sends to
  begun,      \* begun[c]: rounds c has begun to send
  served,     \* served[l]: rounds sent over the link
  gathered    \* gathered[c]: rounds c has received from all its sources

flowVars == <<sources, sinks, begun, served, gathered>>

FlowInit ==
  /\ sources  \in [Components -> SUBSET Links]
  /\ sinks    \in [Components -> SUBSET Links]
  /\ begun    = [c \in Components |-> 0]
  /\ served   = [l \in Links |-> 0]
  /\ gathered = [c \in Components |-> 0]

BeginRound(c) ==
  /\ \A l \in sinks[c] : served[l] = begun[c]
  /\ sinks[c] # {}
  /\ sources[c] # {} => begun[c] < gathered[c]
  /\ begun' = [begun EXCEPT ![c] = @ + 1]
  /\ UNCHANGED <<sources, sinks, served, gathered>>

Serve(c, l) ==
  /\ l \in sinks[c]
  /\ served[l] < begun[c]
  /\ served' = [served EXCEPT ![l] = @ + 1]
  /\ UNCHANGED <<sources, sinks, begun, gathered>>

Gather(c) ==
  /\ sources[c] # {}
  /\ \A l \in sources[c] : gathered[c] < served[l]
  /\ gathered' = [gathered EXCEPT ![c] = @ + 1]
  /\ UNCHANGED <<sources, sinks, begun, served>>

FlowNext ==
  \E c \in Components :
    BeginRound(c) \/ Gather(c) \/ \E l \in Links : Serve(c, l)

\* Nobody waits for ever: a round that has begun reaches every link, a round
\* that is complete is received, and what has been received is passed on.
FlowFairness ==
  \A c \in Components :
    /\ WF_flowVars(Gather(c))
    /\ WF_flowVars(sources[c] # {} /\ BeginRound(c))
    /\ \A l \in Links : WF_flowVars(Serve(c, l))

FlowSafety == FlowInit /\ [][FlowNext]_flowVars

FlowSpec == FlowSafety /\ FlowFairness
=============================================================================
