------------------------------- MODULE LpMiniInit -------------------------------
(***************************************************************************)
(* The application pmx-lp-mini-init and the Launchpad it prepares.         *)
(*                                                                         *)
(* One signal processor works through a queue of three tasks.  It asks the *)
(* device for its identity, again after five seconds, until the three      *)
(* words of the expected answer were seen in their order, in whatever      *)
(* cycles and answers they came; it then switches the device to session    *)
(* mode, once, and a pad off, once.  The application never starts over.    *)
(***************************************************************************)
EXTENDS Integers, Sequences, SequencesExt

CONSTANTS Words,       \* handshake_response: the first words of the answer's packets
          Data,        \* any second word of a packet
          OtherWord,   \* the last word of an answer with another firmware version
          MaxAnswers   \* bound: packets of the device on their way

ASSUME WordsAssumption ==
  /\ Words \in Seq(STRING) /\ Len(Words) > 0 /\ IsInjective(Words)
  /\ {Data, OtherWord} \cap Range(Words) = {}
  /\ MaxAnswers \in Nat

VARIABLES
  task,        \* the task at the front of the queue
  expected,    \* handshake_response: the words not yet seen
  sent,        \* last_send_time of that task: "never", "recently", "long ago"
  \* the device
  connected,   \* it is plugged in and linked to the application
  mode,        \* "standalone", "session" or "mixer", its layout
  firmware,    \* "expected" or "other"
  asked,       \* it was asked for its identity
  answers,     \* its packets on the way to lp_mini_in
  \* history
  replugged    \* the device was away since the first word of its answer was seen

initializer == <<task, expected, sent>>
device == <<connected, mode, firmware, asked, answers>>
lp_vars == <<task, expected, sent, connected, mode, firmware, asked, answers, replugged>>

-----------------------------------------------------------------------------
(* The signal processor *)

\* Mutant: the words are counted, whatever their order.
CountWords(words, packet) ==
  IF words # << >> /\ packet[1] \in Range(Words) THEN Tail(words) ELSE words

\* Both words of a packet are compared with the next word that is expected.
Seen(words, packet) ==
  LET Pop(ws, w) == IF ws # << >> /\ w = Head(ws) THEN Tail(ws) ELSE ws
  IN  Pop(Pop(words, packet[1]), packet[2])

\* The words still expected after n packets, when there is an in buffer.
ExpectedAfter(in, n) ==
  LET After[k \in 0 .. n] == IF k = 0 THEN expected ELSE Seen(After[k - 1], answers[k])
  IN  IF in /\ n > 0 THEN After[n] ELSE expected

\* Mutant: the request is sent once.
Once == sent = "never"

Due == sent \in {"never", "long ago"}

\* What of a cycle's packets is not read in it is gone.  After the last word nothing is read:
\* packets that are still to come are left out.
HandShake(in, out, n) ==
  /\ task = "HandShake" /\ n <= Len(answers)
  /\ expected' = ExpectedAfter(in, n)
  /\ IF expected' = << >>
       THEN task' = "EnableSessionMode" /\ sent' = "never" /\ answers' = << >> /\ asked' = FALSE
       ELSE /\ task' = task
            /\ sent' = IF out /\ Due THEN "recently" ELSE sent
            /\ answers' = SubSeq(answers, n + 1, Len(answers))
            /\ asked' = (asked \/ (out /\ Due /\ connected))
  /\ UNCHANGED <<connected, mode, firmware, replugged>>

\* Mutant: the task is done although there was no buffer for its message.
EnableWithoutBuffer(out) ==
  /\ task = "EnableSessionMode"
  /\ task' = "SetupInitialSessionState"
  /\ mode' = IF out /\ connected THEN "session" ELSE mode
  /\ UNCHANGED <<expected, sent, connected, firmware, asked, answers, replugged>>

\* Without an out buffer the task stays at the front.  The message is followed by one whose
\* bytes are partly read behind the array (lp_mini_init.cpp:166), which is left out.
EnableSessionMode(out) ==
  /\ task = "EnableSessionMode" /\ out
  /\ task' = "SetupInitialSessionState"
  /\ mode' = IF connected THEN "session" ELSE mode
  /\ UNCHANGED <<expected, sent, connected, firmware, asked, answers, replugged>>

\* The last task is never popped; its message, which switches a pad off, is sent once.
SetupInitialSessionState(out) ==
  /\ task = "SetupInitialSessionState" /\ out /\ sent = "never"
  /\ sent' = "recently"
  /\ UNCHANGED <<task, expected, device, replugged>>

\* A cycle with n packets, with or without buffers.
InitCycle(in, out, n) ==
  HandShake(in, out, n) \/ EnableSessionMode(out) \/ SetupInitialSessionState(out)

\* Five seconds have passed.
Elapse ==
  /\ task = "HandShake" /\ sent = "recently"
  /\ sent' = "long ago"
  /\ UNCHANGED <<task, expected, device, replugged>>

-----------------------------------------------------------------------------
(* The device *)

Packets ==
  [i \in 1 .. Len(Words) |->
     <<IF i = Len(Words) /\ firmware = "other" THEN OtherWord ELSE Words[i], Data>>]

Answer ==
  /\ asked /\ Len(answers) + Len(Words) <= MaxAnswers
  /\ asked' = FALSE
  /\ answers' = answers \o Packets
  /\ UNCHANGED <<initializer, connected, mode, firmware, replugged>>

Unplug ==
  /\ connected
  /\ connected' = FALSE /\ mode' = "standalone" /\ asked' = FALSE /\ answers' = << >>
  /\ replugged' = (replugged \/ expected # Words)
  /\ UNCHANGED <<initializer, firmware>>

Plug ==
  /\ ~connected
  /\ connected' = TRUE
  /\ replugged' = (replugged \/ expected # Words)
  /\ UNCHANGED <<initializer, mode, firmware, asked, answers>>

LpInit ==
  /\ task = "HandShake" /\ expected = Words /\ sent = "never"
  /\ connected \in BOOLEAN /\ mode = "standalone" /\ firmware \in {"expected", "other"}
  /\ asked = FALSE /\ answers = << >> /\ replugged = FALSE

\* A cycle in which a whole answer is read; buffers are missing only now and then.
ReadAnswer == Len(answers) >= Len(Words) /\ InitCycle(TRUE, TRUE, Len(answers))

AnyInitCycle == \E in, out \in BOOLEAN, n \in 0 .. MaxAnswers : InitCycle(in, out, n)

-----------------------------------------------------------------------------
LpTypeOK ==
  /\ task \in {"HandShake", "EnableSessionMode", "SetupInitialSessionState"}
  /\ \E k \in 1 .. Len(Words) + 1 : expected = SubSeq(Words, k, Len(Words))
  /\ (expected = << >>) <=> (task # "HandShake")
  /\ sent \in {"never", "recently", "long ago"}
  /\ connected \in BOOLEAN /\ mode \in {"standalone", "session", "mixer"}
  /\ firmware \in {"expected", "other"} /\ asked \in BOOLEAN
  /\ answers \in Seq((Range(Words) \union {OtherWord}) \X {Data})
  /\ Len(answers) <= MaxAnswers /\ replugged \in BOOLEAN

(***************************************************************************)
(* When the application has nothing left to do the device is in session    *)
(* mode, or in the mixer's layout to which it was switched from there:     *)
(* however its answers were cut, lost and mixed with later ones.  The      *)
(* exception: it was unplugged after the first word of its answer; nothing *)
(* asks for its identity again.                                            *)
(***************************************************************************)
InSessionUnlessReplugged ==
  task = "SetupInitialSessionState" => mode # "standalone" \/ replugged

(***************************************************************************)
(* A device whose answer has another last word is never taken for the      *)
(* expected one, however many of its answers, or pieces of them, are read. *)
(***************************************************************************)
OnlyExpectedDevice == firmware = "other" => task = "HandShake" /\ mode = "standalone"

(***************************************************************************)
(* A device that stays connected and answers as expected is prepared at    *)
(* last, although any part of any answer may be lost: the request is       *)
(* repeated.                                                               *)
(***************************************************************************)
PreparedAtLast ==
  (<>[]connected /\ firmware = "expected") => <>(task = "SetupInitialSessionState")
=============================================================================
