--------------------------- MODULE ParameterDelivery ---------------------------
(***************************************************************************)
(* What pmx-filter-chain-ctrl promises to whoever turns a knob: a request  *)
(* it has accepted waits its turn, and when its turn comes it is written   *)
(* to one node that bears the id the request names, or it is given up.     *)
(* Requests are never reordered, duplicated or altered, and no control     *)
(* changes for any other reason.  Whatever waits may be lost, all of it or *)
(* all but the oldest: the promise does not say that a request is handled. *)
(* How it travels (a lock-free queue, a condition variable, a second       *)
(* thread, a restart) is not visible here.                                 *)
(***************************************************************************)
EXTENDS Sequences

CONSTANTS Nodes,      \* the nodes of the PipeWire graph
          IdOf,       \* IdOf[n]: the object id of node n (ids are reused)
          Controls,   \* the controls of a filter chain
          Requests,   \* requests: [chain, control, filter_chain_id, value]
          Unset       \* the value of a control nobody has written

VARIABLES pending,    \* accepted requests that were not handled yet
          control     \* control[n][c]: what was last written to c of node n

pvars == <<pending, control>>

Init ==
  /\ pending = << >>
  /\ control = [n \in Nodes |-> [c \in Controls |-> Unset]]

Accept(r) ==
  /\ pending' = Append(pending, r)
  /\ UNCHANGED control

Write(n) ==
  /\ pending # << >>
  /\ IdOf[n] = Head(pending).filter_chain_id
  /\ control' = [control EXCEPT ![n][Head(pending).control] = Head(pending).value]
  /\ pending' = Tail(pending)

GiveUp ==
  /\ pending # << >>
  /\ pending' = Tail(pending)
  /\ UNCHANGED control

\* What is behind the oldest request is lost, or that one too.
Lose ==
  /\ pending # << >>
  /\ pending' \in {<< >>, <<Head(pending)>>}
  /\ UNCHANGED control

Next ==
  \/ \E r \in Requests : Accept(r)
  \/ \E n \in Nodes : Write(n)
  \/ GiveUp
  \/ Lose

Spec == Init /\ [][Next]_pvars
=============================================================================
