---------------------------- MODULE NetworkReceiver ----------------------------
(***************************************************************************)
(* The application pmx-osc-network-receiver.                               *)
(*                                                                         *)
(* A thread blocks in receive_from and pushes every datagram to a bounded  *)
(* queue; the signal processor empties the queue into the buffer of its    *)
(* port.  When the main loop ends the main thread clears a flag and joins  *)
(* the thread, which looks at the flag only after a datagram.              *)
(***************************************************************************)
EXTENDS Integers, Sequences

CONSTANTS Reports,          \* what the datagrams carry
          ReceiverCapacity, \* of the queue: 128
          SocketCapacity    \* of the socket's buffer in the kernel

ASSUME ReceiverAssumption ==
  ReceiverCapacity \in Nat \ {0} /\ SocketCapacity \in Nat \ {0}

VARIABLES
  socket,      \* datagrams the kernel holds for the application
  queue,
  thread,      \* "test"s is_running, is "receiving", has "ended"
  main,        \* "run", "join", "ended"
  is_running

receiver == <<socket, queue, thread, main, is_running>>

-----------------------------------------------------------------------------
\* A datagram arrives; the kernel drops it when the socket's buffer is full or the socket closed.
Accepts == thread # "ended" /\ Len(socket) < SocketCapacity

Arrive(r) == socket' = IF Accepts THEN Append(socket, r) ELSE socket

-----------------------------------------------------------------------------
(* The thread *)

\* Mutant: the thread receives for ever.
NeverEnds ==
  /\ thread = "test"
  /\ thread' = "receiving"
  /\ UNCHANGED <<socket, queue, main, is_running>>

\* The socket is closed when the thread ends.
Test ==
  /\ thread = "test"
  /\ IF is_running
       THEN thread' = "receiving" /\ UNCHANGED socket
       ELSE thread' = "ended" /\ socket' = << >>
  /\ UNCHANGED <<queue, main, is_running>>

\* Mutant: a queue that grows.
PushUnbounded(r) == queue' = Append(queue, r)

\* Mutant: a full queue makes room by dropping its oldest message.
PushDropOldest(r) ==
  queue' = IF Len(queue) < ReceiverCapacity THEN Append(queue, r) ELSE Append(Tail(queue), r)

Refuses == Len(queue) >= ReceiverCapacity

\* spsc_queue::push: a full queue refuses the message, nobody looks at the result.
Push(r) == queue' = IF Refuses THEN queue ELSE Append(queue, r)

\* receive_from returns with a datagram, which is pushed.
Receive ==
  /\ thread = "receiving" /\ socket # << >>
  /\ socket' = Tail(socket)
  /\ Push(Head(socket))
  /\ thread' = "test"
  /\ UNCHANGED <<main, is_running>>

-----------------------------------------------------------------------------
(* The signal processor: with an out buffer it empties the queue. *)

Popped(out) == IF out THEN queue ELSE << >>

Drain(out) ==
  /\ main = "run"
  /\ queue' = IF out THEN << >> ELSE queue
  /\ UNCHANGED <<socket, thread, main, is_running>>

-----------------------------------------------------------------------------
(* The main thread *)

\* run returns: the flag is cleared and the thread joined.
Quit ==
  /\ main = "run"
  /\ main' = "join"
  /\ is_running' = FALSE
  /\ UNCHANGED <<socket, queue, thread>>

Join ==
  /\ main = "join" /\ thread = "ended"
  /\ main' = "ended" /\ queue' = << >>
  /\ UNCHANGED <<socket, thread, is_running>>

ReceiverInit ==
  /\ socket = << >> /\ queue = << >> /\ thread = "test"
  /\ main = "run" /\ is_running = TRUE

-----------------------------------------------------------------------------
ReceiverTypeOK ==
  /\ socket \in Seq(Reports) /\ Len(socket) <= SocketCapacity
  /\ queue \in Seq(Reports) /\ Len(queue) <= ReceiverCapacity
  /\ thread \in {"test", "receiving", "ended"}
  /\ main \in {"run", "join", "ended"} /\ is_running \in BOOLEAN
  /\ is_running <=> main = "run"
  /\ thread = "ended" => main # "run"
  /\ thread = "ended" => socket = << >>
  /\ main = "ended" => thread = "ended" /\ queue = << >>
=============================================================================
