----------------------------- MODULE NetworkSender -----------------------------
(***************************************************************************)
(* The application pmx-osc-network-sender.                                 *)
(*                                                                         *)
(* The signal processor pushes every OSC message to a bounded queue and    *)
(* notifies after each one; a thread pops and sends them to the network,   *)
(* and waits, without a predicate, when it finds the queue empty.  Neither *)
(* notification is made under the mutex.  When the main loop ends the main *)
(* thread clears a flag, notifies and joins the thread.                    *)
(*                                                                         *)
(* A message that was popped is sent only while the parameter              *)
(* target.protocol, which may be set from outside, says "udp".  send_to,   *)
(* and the access to a parameter that holds no string, throw; nothing      *)
(* catches that in the thread, so that the process ends and systemd starts *)
(* it again (Restart=on-failure), unless it was told to stop.              *)
(***************************************************************************)
EXTENDS Integers, Sequences

CONSTANTS Capacity,      \* of the queue: 128
          MaxMessages    \* bound: how many messages arrive at the port

ASSUME SizesAssumption ==
  /\ Capacity \in Nat \ {0}
  /\ MaxMessages \in Nat

VARIABLES
  arrived,      \* how many messages arrived at the port; they bear their numbers
  processor,    \* the signal processor is "idle", or has pushed and will "notify"
  protocol,     \* the parameter target.protocol: "udp" or "other"
  queue,
  \* the thread
  sender,       \* where it is, see SenderStates
  holding,      \* what it has popped and is about to send: one message or none
  \* the main thread
  main,         \* "run", "stop" (about to notify), "join", "ended"
  running,
  \* history
  accepted,     \* the messages the queue took, in order
  left,         \* the messages that left the process, in order, and
  fate,         \* what became of each of them: "sent", "dropped" or "lost"
  missed        \* a notification found nobody in the wait set

history == <<accepted, left, fate>>
vars == <<arrived, processor, protocol, queue, sender, holding, main, running, history, missed>>

(***************************************************************************)
(* "test": at the loop's test of running.  "pop": looks at the queue.      *)
(* "blocking": found it empty, not yet in the wait set.                    *)
(***************************************************************************)
SenderStates == {"test", "pop", "send", "blocking", "waiting", "notified", "ended"}

-----------------------------------------------------------------------------
(* The signal processor *)

\* Mutant: a queue that grows.
PushUnbounded(m) == queue' = Append(queue, m) /\ accepted' = Append(accepted, m)

\* Mutant: a full queue makes room by dropping its oldest message.
PushDropOldest(m) ==
  /\ queue' = IF Len(queue) < Capacity THEN Append(queue, m) ELSE Append(Tail(queue), m)
  /\ accepted' = Append(accepted, m)

\* spsc_queue::push: a full queue refuses the message, nobody looks at the result.
Push(m) ==
  IF Len(queue) < Capacity
    THEN queue' = Append(queue, m) /\ accepted' = Append(accepted, m)
    ELSE UNCHANGED <<queue, accepted>>

Process ==
  /\ main = "run" /\ processor = "idle" /\ arrived < MaxMessages
  /\ arrived' = arrived + 1
  /\ Push(arrived + 1)
  /\ processor' = "notify"
  /\ UNCHANGED <<protocol, sender, holding, main, running, left, fate, missed>>

notify_all == sender' = IF sender = "waiting" THEN "notified" ELSE sender

\* Mutant: the wake-up is forgotten.
NotifyNobody ==
  /\ processor = "notify"
  /\ processor' = "idle"
  /\ UNCHANGED <<arrived, protocol, queue, sender, holding, main, running, history, missed>>

Notify ==
  /\ processor = "notify"
  /\ processor' = "idle"
  /\ notify_all
  /\ missed' = (sender = "blocking")
  /\ UNCHANGED <<arrived, protocol, queue, holding, main, running, history>>

-----------------------------------------------------------------------------
(* The thread *)

Test ==
  /\ sender = "test"
  /\ sender' = IF running THEN "pop" ELSE "ended"
  /\ missed' = FALSE
  /\ UNCHANGED <<arrived, processor, protocol, queue, holding, main, running, history>>

Pop ==
  /\ sender = "pop" /\ queue # << >>
  /\ holding' = <<Head(queue)>>
  /\ queue' = Tail(queue)
  /\ sender' = "send"
  /\ UNCHANGED <<arrived, processor, protocol, main, running, history, missed>>

\* The message in hand leaves the thread, one way or the other.
Leave(how) ==
  /\ sender = "send"
  /\ left' = left \o holding
  /\ fate' = Append(fate, how)
  /\ holding' = << >>
  /\ sender' = "test"
  /\ UNCHANGED <<arrived, processor, protocol, queue, main, running, accepted, missed>>

Send == protocol = "udp" /\ Leave("sent")

\* "Unknown protocol": a line in the log, the message is gone.
Drop == protocol # "udp" /\ Leave("dropped")

FoundEmpty ==
  /\ sender = "pop" /\ queue = << >>
  /\ sender' = "blocking"
  /\ UNCHANGED <<arrived, processor, protocol, queue, holding, main, running, history, missed>>

Wait ==
  /\ sender = "blocking"
  /\ sender' = "waiting"
  /\ UNCHANGED <<arrived, processor, protocol, queue, holding, main, running, history, missed>>

WakeUp ==
  /\ sender = "notified"
  /\ sender' = "test"
  /\ UNCHANGED <<arrived, processor, protocol, queue, holding, main, running, history, missed>>

\* There is no predicate: a spurious wake-up goes round the loop once.
SpuriousWakeUp ==
  /\ sender = "waiting"
  /\ sender' = "test"
  /\ UNCHANGED <<arrived, processor, protocol, queue, holding, main, running, history, missed>>

-----------------------------------------------------------------------------
(* The main thread *)

\* A parameter is set on the main loop; the thread reads it for every message.
SetProtocol(p) ==
  /\ main = "run"
  /\ protocol' = p
  /\ UNCHANGED <<arrived, processor, queue, sender, holding, main, running, history, missed>>

\* The main loop ends, and with it the filter and its processor.
Quit ==
  /\ main = "run" /\ processor = "idle"
  /\ main' = "stop"
  /\ running' = FALSE
  /\ UNCHANGED <<arrived, processor, protocol, queue, sender, holding, history, missed>>

\* The thread has seen the flag still set and finds nothing that keeps it from waiting.
BetweenTestAndWait == sender = "blocking" \/ (sender = "pop" /\ queue = << >>)

\* Mutant: the thread is joined without being notified.
JoinAtOnce ==
  /\ main = "stop"
  /\ main' = "join"
  /\ UNCHANGED <<arrived, processor, protocol, queue, sender, holding, running, history, missed>>

NotifyStop ==
  /\ main = "stop"
  /\ main' = "join"
  /\ notify_all
  /\ missed' = BetweenTestAndWait
  /\ UNCHANGED <<arrived, processor, protocol, queue, holding, running, history>>

\* The process is gone, with what the thread holds and all that is queued.
Lose ==
  LET lost == holding \o queue
  IN  /\ left' = left \o lost
      /\ fate' = fate \o [i \in 1 .. Len(lost) |-> "lost"]
      /\ holding' = << >> /\ queue' = << >>

Join ==
  /\ main = "join" /\ sender = "ended"
  /\ main' = "ended"
  /\ Lose
  /\ UNCHANGED <<arrived, processor, protocol, sender, running, accepted, missed>>

\* An exception in the thread ends the process.
Fail ==
  /\ sender = "send"
  /\ Lose
  /\ IF main = "run"
       THEN sender' = "test" /\ processor' = "idle" /\ protocol' = "udp" /\ UNCHANGED main
       ELSE sender' = "ended" /\ main' = "ended" /\ UNCHANGED <<processor, protocol>>
  /\ missed' = FALSE
  /\ UNCHANGED <<arrived, running, accepted>>

-----------------------------------------------------------------------------
Init ==
  /\ arrived = 0 /\ processor = "idle" /\ protocol = "udp" /\ queue = << >>
  /\ sender = "test" /\ holding = << >>
  /\ main = "run" /\ running = TRUE
  /\ accepted = << >> /\ left = << >> /\ fate = << >> /\ missed = FALSE

Thread == Test \/ Pop \/ Send \/ Drop \/ FoundEmpty \/ Wait \/ WakeUp

Main == NotifyStop \/ Join

Next ==
  \/ Process \/ Notify \/ Thread \/ Fail \/ SpuriousWakeUp
  \/ \E p \in {"udp", "other"} : SetProtocol(p)
  \/ Quit \/ Main

Spec == Init /\ [][Next]_vars

\* Both threads and a call of the processor run on; nothing forces messages, a failure
\* or the end.
FairSpec == Spec /\ WF_vars(Thread) /\ WF_vars(Main) /\ WF_vars(Notify)

-----------------------------------------------------------------------------
TypeOK ==
  /\ arrived \in Nat /\ processor \in {"idle", "notify"} /\ protocol \in {"udp", "other"}
  /\ queue \in Seq(Nat) /\ Len(queue) <= Capacity
  /\ sender \in SenderStates
  /\ holding \in Seq(Nat) /\ Len(holding) <= 1
  /\ (holding = << >>) <=> (sender # "send")
  /\ main \in {"run", "stop", "join", "ended"} /\ running \in BOOLEAN
  /\ accepted \in Seq(Nat) /\ left \in Seq(Nat) /\ missed \in BOOLEAN
  /\ fate \in Seq({"sent", "dropped", "lost"})

(***************************************************************************)
(* The thread sleeps on a message only if it has missed the notification:  *)
(* one that came while the thread stood between its look at the queue and  *)
(* the wait.                                                               *)
(***************************************************************************)
SleepsOnlyByMissedNotify ==
  (sender = "waiting" /\ queue # << >>) => (missed \/ processor = "notify")

(***************************************************************************)
(* What the queue takes leaves the process once and in the order in which  *)
(* it was taken, and each message has one fate: it is sent; or dropped, as *)
(* the protocol is not "udp" when its turn comes; or lost with the process,*)
(* in the thread's hands or still queued when a send fails or the          *)
(* application ends.  After the end nothing is left to be sent.            *)
(***************************************************************************)
SentInOrder ==
  /\ accepted = left \o holding \o queue
  /\ Len(fate) = Len(left)
  /\ main = "ended" => left = accepted

(***************************************************************************)
(* The application stops when it is told to, unless the one notification   *)
(* of the main thread came between the thread's test of the flag and its   *)
(* wait; then the join never returns.                                      *)
(***************************************************************************)
StopsUnlessMissed ==
  [](main # "run" => <>(main = "ended" \/ (sender = "waiting" /\ missed)))
=============================================================================
