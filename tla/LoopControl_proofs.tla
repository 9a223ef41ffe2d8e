---------------------------- MODULE LoopControl_proofs ----------------------------
(***************************************************************************)
(* Theorems about LoopControl, for every number of loops, words, datagrams *)
(* and changes: that the device is prepared and no other is, that slp_ctrl *)
(* learns what the looper does and the lights show it, that the faders are *)
(* those it knows, and the types.  What a cycle's reports or an answer's   *)
(* packets amount to is computed by recursion; SetInduction proves what    *)
(* that yields for any number of them.                                     *)
(***************************************************************************)
EXTENDS LoopControl, SequenceTheorems, WellFoundedInduction, TLAPS

-----------------------------------------------------------------------------
(* Induction over the natural numbers, stated about sets *)

Less == {pair \in Nat \X Nat : pair[1] < pair[2]}

LEMMA LessIsWellFounded == IsWellFoundedOn(Less, Nat)
BY NatLessThanWellFounded, Zenon DEF OpToRel, Less

\* Every set of natural numbers has a least element, unless it is empty.
LEMMA LeastElement ==
  ASSUME NEW S, S \subseteq Nat, S # {}
  PROVE  \E m \in S : \A k \in S : m <= k
<1>1. \E x \in S : \A y \in S : ~(<<y, x>> \in Less)
  BY LessIsWellFounded, WFMin
<1>2. \A x, y \in Nat : y < x => <<y, x>> \in Less
  BY DEF Less
<1>3. \A x, y \in Nat : ~(y < x) => x <= y
  OBVIOUS
<1> QED BY <1>1, <1>2, <1>3

\* A set with 0, and with n + 1 whenever it has n, has every natural number.
LEMMA SetInduction ==
  ASSUME NEW S, 0 \in S, \A n \in Nat : n \in S => n + 1 \in S
  PROVE  Nat \subseteq S
<1> SUFFICES ASSUME ~(Nat \subseteq S)  PROVE FALSE
  OBVIOUS
<1>1. PICK m \in Nat \ S : \A k \in Nat \ S : m <= k
  <2>1. Nat \ S \subseteq Nat /\ Nat \ S # {}
    OBVIOUS
  <2> QED BY <2>1, LeastElement
<1>2. m # 0 /\ m - 1 \in Nat /\ ~(m <= m - 1)
  BY <1>1
<1>3. m - 1 \in S
  BY <1>1, <1>2
<1>4. (m - 1) + 1 \in S
  BY <1>2, <1>3
<1> QED BY <1>1, <1>4

-----------------------------------------------------------------------------
(* The device is prepared *)

(***************************************************************************)
(* InSessionUnlessReplugged is not inductive: the handshake ends while the *)
(* device is connected, since nothing comes from one that is not, and a    *)
(* device that leaves afterwards counts as replugged.                      *)
(***************************************************************************)
SessionInv ==
  /\ connected \in BOOLEAN /\ replugged \in BOOLEAN
  /\ connected = FALSE => answers = << >> /\ asked = FALSE
  /\ (task = "HandShake") <=> (expected # << >>)
  /\ task # "HandShake" /\ connected = FALSE => replugged = TRUE
  /\ task = "SetupInitialSessionState" /\ mode = "standalone" => replugged = TRUE

\* Where no packet is read, none of the words is seen.
LEMMA NothingRead ==
  ASSUME NEW in
  PROVE  ExpectedAfter(in, 0) = expected
BY DEF ExpectedAfter

LEMMA HandShakeKeeps ==
  ASSUME SessionInv, NEW in \in BOOLEAN, NEW out \in BOOLEAN, NEW n \in 0 .. MaxAnswers,
         HandShake(in, out, n)
  PROVE  SessionInv'
<1>0. connected = FALSE => asked' = FALSE
  <2>1. connected = FALSE => asked = FALSE
    BY DEF SessionInv
  <2>2. asked' = FALSE \/ asked' = (asked \/ (out /\ Due /\ connected))
    BY DEF HandShake
  <2> QED BY <2>1, <2>2
<1>1. /\ task = "HandShake" /\ n <= Len(answers) /\ UNCHANGED <<connected, mode, replugged>>
      /\ expected' = ExpectedAfter(in, n)
      /\ \/ /\ expected' = << >> /\ task' = "EnableSessionMode" /\ answers' = << >>
         \/ /\ expected' # << >> /\ task' = task
            /\ answers' = SubSeq(answers, n + 1, Len(answers))
  BY DEF HandShake
<1>2. CASE connected = FALSE
  <2>1. answers = << >> /\ expected # << >>
    BY <1>1, <1>2 DEF SessionInv
  <2>2. n = 0
    BY <1>1, <2>1, EmptySeq, WordsAssumption
  <2>3. expected' = expected
    BY <1>1, <2>2, NothingRead
  <2>4. task' = task /\ answers' = SubSeq(<< >>, 1, 0)
    BY <1>1, <2>1, <2>2, <2>3, EmptySeq
  <2>5. answers' = << >>
    BY <2>4, SubSeqEmpty
  <2> QED BY <1>0, <1>1, <1>2, <2>3, <2>4, <2>5 DEF SessionInv
<1>3. CASE connected = TRUE
  BY <1>1, <1>3 DEF SessionInv
<1> QED BY <1>2, <1>3 DEF SessionInv

LEMMA LaterTasksKeep ==
  ASSUME SessionInv, NEW out \in BOOLEAN,
         EnableSessionMode(out) \/ SetupInitialSessionState(out)
  PROVE  SessionInv'
<1>1. CASE EnableSessionMode(out)
  BY <1>1 DEF EnableSessionMode, SessionInv
<1>2. CASE SetupInitialSessionState(out)
  BY <1>2 DEF SetupInitialSessionState, device, SessionInv
<1> QED BY <1>1, <1>2

LEMMA DeviceKeeps ==
  ASSUME SessionInv, Elapse \/ Answer \/ Unplug \/ Plug
  PROVE  SessionInv'
<1>0. Words # << >>
  <2>1. Len(<< >>) = 0 /\ Len(Words) > 0
    BY WordsAssumption, EmptySeq
  <2> QED BY <2>1
<1>1. CASE Elapse
  BY <1>1 DEF Elapse, device, SessionInv
<1>2. CASE Answer
  <2>1. connected = TRUE /\ UNCHANGED <<task, expected, connected, mode, replugged>>
    BY <1>2 DEF Answer, initializer, SessionInv
  <2> QED BY <2>1 DEF SessionInv
<1>3. CASE Unplug
  <2>1. /\ connected' = FALSE /\ mode' = "standalone" /\ answers' = << >>
        /\ asked' = FALSE /\ UNCHANGED <<task, expected>>
        /\ replugged' = (replugged \/ expected # Words)
    BY <1>3 DEF Unplug, initializer
  <2>2. expected = << >> => replugged' = TRUE
    BY <1>0, <2>1
  <2>3. replugged' \in BOOLEAN
    BY <2>1
  <2>4. (task = "HandShake") <=> (expected # << >>)
    BY DEF SessionInv
  <2> QED BY <2>1, <2>2, <2>3, <2>4 DEF SessionInv
<1>4. CASE Plug
  <2>1. /\ connected = FALSE /\ connected' = TRUE
        /\ UNCHANGED <<task, expected, mode, asked, answers>>
        /\ replugged' = (replugged \/ expected # Words)
    BY <1>4 DEF Plug, initializer, SessionInv
  <2>2. replugged = TRUE => replugged' = TRUE
    BY <2>1
  <2>3. replugged' \in BOOLEAN
    BY <2>1
  <2> QED BY <2>1, <2>2, <2>3 DEF SessionInv
<1> QED BY <1>1, <1>2, <1>3, <1>4

\* Nobody else touches the initializer or its device but for the switch to the mixer.
LEMMA OthersKeep ==
  ASSUME SessionInv,
         UNCHANGED <<initializer, connected, answers, asked, replugged>>,
         mode' = mode \/ mode' = "mixer"
  PROVE  SessionInv'
BY DEF SessionInv, initializer

(***************************************************************************)
(* InSessionUnlessReplugged, whatever the words of the answer, however     *)
(* many packets are on their way and whatever the others do.               *)
(***************************************************************************)
THEOREM SessionSafe == Spec => []InSessionUnlessReplugged
<1>1. Init => SessionInv
  <2> SUFFICES ASSUME Init  PROVE SessionInv
    OBVIOUS
  <2>1. Words # << >>
    <3>1. Len(<< >>) = 0 /\ Len(Words) > 0
      BY WordsAssumption, EmptySeq
    <3> QED BY <3>1
  <2> QED BY <2>1 DEF Init, LpInit, SessionInv
<1>2. SessionInv /\ [Next]_vars => SessionInv'
  <2> SUFFICES ASSUME SessionInv, [Next]_vars  PROVE SessionInv'
    OBVIOUS
  <2>0. ASSUME UNCHANGED lp_vars  PROVE SessionInv'
    BY <2>0, OthersKeep DEF lp_vars, initializer
  <2>1. CASE Looper
    BY <2>0, <2>1 DEF Looper, TakeHit, TakeSet, OtherSet, LoseCommands
  <2>2. CASE SomeCycle
    <3>1. PICK buffers \in SUBSET AllBuffers, pressed \in SUBSET Loops, mixer \in BOOLEAN :
            GraphCycle(buffers, pressed, mixer)
      BY <2>2 DEF SomeCycle
    <3>2. /\ UNCHANGED <<initializer, connected, answers, asked, replugged>>
          /\ mode' = mode \/ mode' = "mixer"
      BY <3>1 DEF GraphCycle
    <3> QED BY <3>2, OthersKeep
  <2>3. CASE CrashSlpCtrl
    BY <2>0, <2>3 DEF CrashSlpCtrl
  <2>4. CASE Receiver
    BY <2>0, <2>4 DEF Receiver, ReceiverRuns, ReceiveReport, ReceiverQuits
  <2>5. CASE Launchpad
    <3>1. CASE InitializerCycle
      <4>1. PICK in \in BOOLEAN, out \in BOOLEAN, n \in 0 .. MaxAnswers : InitCycle(in, out, n)
        BY <3>1 DEF InitializerCycle, AnyInitCycle
      <4> QED BY <4>1, HandShakeKeeps, LaterTasksKeep DEF InitCycle
    <3>2. CASE Elapse \/ Answer \/ UnplugDevice \/ PlugDevice
      BY <3>2, DeviceKeeps DEF UnplugDevice, PlugDevice
    <3> QED BY <2>5, <3>1, <3>2 DEF Launchpad
  <2>6. CASE UNCHANGED vars
    BY <2>0, <2>6 DEF vars
  <2> QED BY <2>1, <2>2, <2>3, <2>4, <2>5, <2>6 DEF Next
<1>3. SessionInv => InSessionUnlessReplugged
  BY DEF SessionInv, InSessionUnlessReplugged
<1> QED BY <1>1, <1>2, <1>3, PTL DEF Spec

-----------------------------------------------------------------------------
(* No other device is taken for the expected one *)

Follows(f, words, packets, n) ==
  f = [k \in 0 .. n |-> IF k = 0 THEN words ELSE Seen(f[k - 1], packets[k])]

\* The recursion of ExpectedAfter has a solution.
LEMMA ReadingExists ==
  ASSUME NEW words, NEW packets, NEW n \in Nat
  PROVE  \E f : Follows(f, words, packets, n)
<1> DEFINE S == {m \in Nat : \E f : Follows(f, words, packets, m)}
<1>1. 0 \in S
  <2>1. Follows([k \in 0 .. 0 |-> words], words, packets, 0)
    BY DEF Follows
  <2> QED BY <2>1
<1>2. ASSUME NEW m \in Nat, m \in S  PROVE m + 1 \in S
  <2>1. PICK f : Follows(f, words, packets, m)
    BY <1>2
  <2> DEFINE g == [k \in 0 .. m + 1 |->
                     IF k = m + 1 THEN Seen(f[m], packets[m + 1]) ELSE f[k]]
  <2>2. ASSUME NEW k \in 0 .. m + 1
        PROVE  g[k] = IF k = 0 THEN words ELSE Seen(g[k - 1], packets[k])
    <3>1. CASE k = 0
      BY <2>1, <3>1 DEF Follows
    <3>2. CASE k = m + 1
      BY <3>2
    <3>3. CASE k # 0 /\ k # m + 1
      <4>1. k \in 0 .. m /\ k - 1 \in 0 .. m + 1 /\ k - 1 # m + 1
        BY <3>3
      <4>2. f[k] = Seen(f[k - 1], packets[k])
        BY <2>1, <3>3, <4>1 DEF Follows
      <4> QED BY <3>3, <4>1, <4>2
    <3> QED BY <3>1, <3>2, <3>3
  <2>3. g = [k \in 0 .. m + 1 |-> g[k]]
    OBVIOUS
  <2> HIDE DEF g
  <2>4. g = [k \in 0 .. m + 1 |-> IF k = 0 THEN words ELSE Seen(g[k - 1], packets[k])]
    BY <2>2, <2>3
  <2>5. Follows(g, words, packets, m + 1)
    BY <2>4 DEF Follows
  <2> QED BY <2>5
<1>3. Nat \subseteq S
  <2> HIDE DEF S
  <2> QED BY <1>1, <1>2, SetInduction
<1> QED BY <1>3

LEMMA Reading ==
  ASSUME NEW in, NEW n \in Nat
  PROVE  \/ ExpectedAfter(in, n) = expected
         \/ \E f : Follows(f, expected, answers, n) /\ ExpectedAfter(in, n) = f[n]
<1>1. \E f : Follows(f, expected, answers, n)
  BY ReadingExists
<1> DEFINE F == CHOOSE f :
      f = [k \in 0 .. n |-> IF k = 0 THEN expected ELSE Seen(f[k - 1], answers[k])]
<1>2. \E f : f = [k \in 0 .. n |-> IF k = 0 THEN expected ELSE Seen(f[k - 1], answers[k])]
  BY ONLY <1>1 DEF Follows
<1>3. F = [k \in 0 .. n |-> IF k = 0 THEN expected ELSE Seen(F[k - 1], answers[k])]
  BY <1>2
<1>4. ExpectedAfter(in, n) = F[n] \/ ExpectedAfter(in, n) = expected
  BY DEF ExpectedAfter
<1> HIDE DEF F
<1> QED BY <1>3, <1>4 DEF Follows

LastWord == Words[Len(Words)]

\* Words of which the last one is still expected, and packets that do not have it.
Unfinished(words) == words \in Seq(STRING) /\ words # << >> /\ words[Len(words)] = LastWord

WithoutLastWord(packet) == packet[1] # LastWord /\ packet[2] # LastWord

LEMMA OneWordSeen ==
  ASSUME NEW words, Unfinished(words), NEW w, w # LastWord
  PROVE  Unfinished(IF words # << >> /\ w = Head(words) THEN Tail(words) ELSE words)
<1>1. words \in Seq(STRING) /\ words # << >> /\ words[Len(words)] = LastWord
  BY DEF Unfinished
<1>2. CASE w = Head(words)
  <2>1. Len(words) \in Nat \ {0} /\ Head(words) = words[1]
    BY <1>1, EmptySeq
  <2>2. Len(words) # 1
    BY <1>1, <1>2, <2>1
  <2>3. /\ Tail(words) \in Seq(STRING) /\ Len(Tail(words)) = Len(words) - 1
        /\ \A i \in 1 .. Len(Tail(words)) : Tail(words)[i] = words[i + 1]
    BY <1>1, HeadTailProperties
  <2>4. Len(words) - 1 \in 1 .. Len(Tail(words)) /\ (Len(words) - 1) + 1 = Len(words)
    BY <2>1, <2>2, <2>3
  <2>5. Tail(words)[Len(Tail(words))] = LastWord
    BY <1>1, <2>3, <2>4
  <2>6. Tail(words) # << >>
    <3>1. Len(<< >>) = 0
      BY EmptySeq
    <3>2. Len(Tail(words)) # 0
      BY <2>1, <2>2, <2>3
    <3> QED BY <3>1, <3>2
  <2> QED BY <1>1, <1>2, <2>3, <2>5, <2>6 DEF Unfinished
<1> QED BY <1>1, <1>2

LEMMA PacketSeen ==
  ASSUME NEW words, Unfinished(words), NEW packet, WithoutLastWord(packet)
  PROVE  Unfinished(Seen(words, packet))
<1> DEFINE first == IF words # << >> /\ packet[1] = Head(words) THEN Tail(words) ELSE words
<1>1. Unfinished(first)
  BY OneWordSeen DEF WithoutLastWord
<1> HIDE DEF first
<1>2. Unfinished(IF first # << >> /\ packet[2] = Head(first) THEN Tail(first) ELSE first)
  BY <1>1, OneWordSeen DEF WithoutLastWord
<1> QED BY <1>2 DEF Seen, first

\* The packets of devices whose answer has another last word.
Partial == {packet \in (Range(Words) \union {OtherWord}) \X {Data} : WithoutLastWord(packet)}

LEMMA StillUnfinished ==
  ASSUME NEW in, NEW n \in Nat, Unfinished(expected),
         answers \in Seq(Partial), n <= Len(answers)
  PROVE  Unfinished(ExpectedAfter(in, n))
<1>1. CASE ExpectedAfter(in, n) = expected
  BY <1>1
<1>2. CASE \E f : Follows(f, expected, answers, n) /\ ExpectedAfter(in, n) = f[n]
  <2>1. PICK f : Follows(f, expected, answers, n) /\ ExpectedAfter(in, n) = f[n]
    BY <1>2
  <2> DEFINE S == {k \in Nat : k <= n => Unfinished(f[k])}
  <2>2. 0 \in S
    <3>1. f[0] = expected
      BY <2>1 DEF Follows
    <3> QED BY <3>1
  <2>3. ASSUME NEW k \in Nat, k \in S  PROVE k + 1 \in S
    <3> SUFFICES ASSUME k + 1 <= n  PROVE Unfinished(f[k + 1])
      OBVIOUS
    <3>1. Unfinished(f[k])
      BY <2>3
    <3>2. k + 1 \in 0 .. n /\ k + 1 # 0 /\ (k + 1) - 1 = k
      OBVIOUS
    <3>3. f[k + 1] = Seen(f[k], answers[k + 1])
      BY <2>1, <3>2 DEF Follows
    <3>4. k + 1 \in 1 .. Len(answers)
      BY <3>2, LenProperties
    <3>5. answers[k + 1] \in Partial
      BY <3>4, ElementOfSeq
    <3> QED BY <3>1, <3>3, <3>5, PacketSeen DEF Partial
  <2>4. n \in S
    <3> HIDE DEF S
    <3> QED BY <2>2, <2>3, SetInduction
  <2> QED BY <2>1, <2>4
<1> QED BY <1>1, <1>2, Reading

OtherInv ==
  firmware = "other" =>
    /\ task = "HandShake" /\ mode = "standalone"
    /\ Unfinished(expected) /\ answers \in Seq(Partial)

LEMMA OtherPackets ==
  ASSUME firmware = "other"
  PROVE  Packets \in Seq(Partial)
<1>0. Len(Words) \in Nat /\ Len(Words) # 0
  BY WordsAssumption, LenProperties
<1>1. ASSUME NEW i \in 1 .. Len(Words)
      PROVE  <<IF i = Len(Words) /\ firmware = "other" THEN OtherWord ELSE Words[i], Data>>
               \in Partial
  <2> DEFINE w == IF i = Len(Words) THEN OtherWord ELSE Words[i]
  <2>1. DOMAIN Words = 1 .. Len(Words)
    BY WordsAssumption, LenProperties
  <2>2. Words[i] \in Range(Words) /\ LastWord \in Range(Words)
    BY <1>0, <2>1 DEF Range, LastWord
  <2>3. Data # LastWord /\ OtherWord # LastWord
    BY <2>2, WordsAssumption
  <2>4. i # Len(Words) => Words[i] # LastWord
    <3>1. \A a, b \in 1 .. Len(Words) : Words[a] = Words[b] => a = b
      BY <2>1, WordsAssumption DEF IsInjective
    <3>2. Len(Words) \in 1 .. Len(Words)
      BY <1>0
    <3> QED BY <3>1, <3>2 DEF LastWord
  <2>5. w # LastWord /\ w \in Range(Words) \union {OtherWord}
    BY <2>2, <2>3, <2>4
  <2> HIDE DEF w
  <2>6. <<w, Data>> \in Partial
    BY <2>3, <2>5 DEF Partial, WithoutLastWord
  <2> QED BY <2>6 DEF w
<1>2. Packets \in [1 .. Len(Words) -> Partial]
  BY <1>1 DEF Packets
<1> QED BY <1>0, <1>2, SeqDef

LEMMA OtherHandShake ==
  ASSUME OtherInv, firmware = "other", NEW in, NEW out, NEW n \in 0 .. MaxAnswers,
         HandShake(in, out, n)
  PROVE  OtherInv'
<1>1. /\ n \in Nat /\ n <= Len(answers) /\ task = "HandShake" /\ mode = "standalone"
      /\ Unfinished(expected) /\ answers \in Seq(Partial)
  BY WordsAssumption DEF HandShake, OtherInv
<1>2. Unfinished(ExpectedAfter(in, n))
  BY <1>1, StillUnfinished
<1>3. expected' = ExpectedAfter(in, n) /\ UNCHANGED <<mode, firmware>>
  BY DEF HandShake
<1>4. expected' # << >>
  BY <1>2, <1>3 DEF Unfinished
<1>5. task' = task /\ answers' = SubSeq(answers, n + 1, Len(answers))
  BY <1>4 DEF HandShake
<1>6. answers' \in Seq(Partial)
  BY <1>1, <1>5, SubSeqProperties, LenProperties
<1>7. Unfinished(expected)'
  BY <1>2, <1>3 DEF Unfinished, LastWord
<1> QED BY <1>1, <1>3, <1>5, <1>6, <1>7 DEF OtherInv

LEMMA OtherDevice ==
  ASSUME OtherInv, firmware = "other", Elapse \/ Answer \/ Unplug \/ Plug
  PROVE  OtherInv'
<1>0. /\ task = "HandShake" /\ mode = "standalone"
      /\ Unfinished(expected) /\ answers \in Seq(Partial)
  BY DEF OtherInv
<1>1. UNCHANGED <<task, expected, mode>>
  BY <1>0 DEF Elapse, Answer, Unplug, Plug, initializer, device
<1>2. answers' = answers \/ answers' = answers \o Packets \/ answers' = << >>
  BY DEF Elapse, Answer, Unplug, Plug, device
<1>3. answers' \in Seq(Partial)
  BY <1>0, <1>2, OtherPackets, ConcatProperties, EmptySeq
<1>4. Unfinished(expected)'
  BY <1>0, <1>1 DEF Unfinished, LastWord
<1> QED BY <1>0, <1>1, <1>3, <1>4 DEF OtherInv

(***************************************************************************)
(* OnlyExpectedDevice, whatever the words of the answer, however many      *)
(* packets are on their way and however they are cut: the last word of the *)
(* answer stays expected, since nothing a device of another firmware sends *)
(* contains it.                                                            *)
(***************************************************************************)
THEOREM DeviceSafe == Spec => []OnlyExpectedDevice
<1>1. Init => OtherInv
  <2> SUFFICES ASSUME Init  PROVE OtherInv
    OBVIOUS
  <2>1. Words \in Seq(STRING) /\ Words # << >>
    BY WordsAssumption, EmptySeq
  <2>2. Unfinished(Words)
    BY <2>1 DEF Unfinished, LastWord
  <2> QED BY <2>2, EmptySeq DEF Init, LpInit, OtherInv
<1>2. OtherInv /\ [Next]_vars => OtherInv'
  <2> SUFFICES ASSUME OtherInv, [Next]_vars, firmware' = "other"  PROVE OtherInv'
    BY DEF OtherInv
  <2>0. ASSUME UNCHANGED <<task, expected, mode, firmware, answers>>  PROVE OtherInv'
    BY <2>0 DEF OtherInv, Unfinished, LastWord
  <2>1. CASE Looper
    BY <2>0, <2>1 DEF Looper, TakeHit, TakeSet, OtherSet, LoseCommands, lp_vars
  <2>2. CASE SomeCycle
    <3>1. PICK buffers \in SUBSET AllBuffers, pressed \in SUBSET Loops, mixer \in BOOLEAN :
            GraphCycle(buffers, pressed, mixer)
      BY <2>2 DEF SomeCycle
    <3>2. UNCHANGED <<initializer, firmware, answers>>
      BY <3>1 DEF GraphCycle
    <3>3. (mixer => mode = "session") /\ (~mixer => mode' = mode)
      BY <3>1 DEF GraphCycle, Lit
    <3>4. mode = "standalone"
      BY <3>2 DEF OtherInv
    <3> QED BY <2>0, <3>2, <3>3, <3>4 DEF initializer
  <2>3. CASE CrashSlpCtrl
    BY <2>0, <2>3 DEF CrashSlpCtrl, lp_vars
  <2>4. CASE Receiver
    BY <2>0, <2>4 DEF Receiver, ReceiverRuns, ReceiveReport, ReceiverQuits, lp_vars
  <2>5. CASE Launchpad
    <3>1. CASE InitializerCycle
      <4>1. PICK in \in BOOLEAN, out \in BOOLEAN, n \in 0 .. MaxAnswers : InitCycle(in, out, n)
        BY <3>1 DEF InitializerCycle, AnyInitCycle
      <4>2. firmware = "other"
        BY <4>1 DEF InitCycle, HandShake, EnableSessionMode, SetupInitialSessionState, device
      <4>3. task = "HandShake"
        BY <4>2 DEF OtherInv
      <4>4. HandShake(in, out, n)
        BY <4>1, <4>3 DEF InitCycle, EnableSessionMode, SetupInitialSessionState
      <4> QED BY <4>2, <4>4, OtherHandShake
    <3>2. CASE Elapse \/ Answer \/ UnplugDevice \/ PlugDevice
      <4>1. Elapse \/ Answer \/ Unplug \/ Plug
        BY <3>2 DEF UnplugDevice, PlugDevice
      <4>2. firmware = "other"
        BY <4>1 DEF Elapse, Answer, Unplug, Plug, device
      <4> QED BY <4>1, <4>2, OtherDevice
    <3> QED BY <2>5, <3>1, <3>2 DEF Launchpad
  <2>6. CASE UNCHANGED vars
    BY <2>0, <2>6 DEF vars, lp_vars
  <2> QED BY <2>1, <2>2, <2>3, <2>4, <2>5, <2>6 DEF Next
<1>3. OtherInv => OnlyExpectedDevice
  BY DEF OtherInv, OnlyExpectedDevice
<1> QED BY <1>1, <1>2, <1>3, PTL DEF Spec

-----------------------------------------------------------------------------
(* The lights *)

\* The last report of key k in a sequence has the value v; the sequence has no report of k.
Newest(s, k, v) ==
  \E i \in 1 .. Len(s) :
    s[i][1] = k /\ s[i][2] = v /\ \A j \in 1 .. Len(s) : j > i => s[j][1] # k

Absent(s, k) == \A i \in 1 .. Len(s) : s[i][1] # k

LEMMA AbsentIsNotReported ==
  ASSUME NEW s \in Seq(Reports), NEW k
  PROVE  Absent(s, k) <=> k \notin Reported(s)
<1>1. DOMAIN s = 1 .. Len(s)
  BY LenProperties
<1> QED BY <1>1 DEF Absent, Reported

LEMMA NewestIsReported ==
  ASSUME NEW s \in Seq(Reports), NEW k, NEW v, Newest(s, k, v)
  PROVE  ~Absent(s, k)
BY DEF Newest, Absent

LEMMA NothingInNone ==
  ASSUME NEW k
  PROVE  Absent(<< >>, k) /\ << >> \in Seq(Reports)
<1>1. Len(<< >>) = 0 /\ << >> \in Seq(Reports)
  BY EmptySeq
<1>2. 1 .. 0 = {}
  OBVIOUS
<1> QED BY <1>1, <1>2 DEF Absent

LEMMA OneMore ==
  ASSUME NEW s \in Seq(Reports), NEW r \in Reports, NEW k, NEW v
  PROVE  /\ r[1] = k /\ r[2] = v => Newest(Append(s, r), k, v)
         /\ r[1] # k /\ Newest(s, k, v) => Newest(Append(s, r), k, v)
         /\ r[1] # k /\ Absent(s, k) => Absent(Append(s, r), k)
<1> DEFINE t == Append(s, r)
<1>1. /\ Len(s) \in Nat /\ Len(t) = Len(s) + 1
      /\ \A i \in 1 .. Len(s) : t[i] = s[i]
      /\ t[Len(s) + 1] = r
  BY AppendProperties, LenProperties
<1> HIDE DEF t
<1>2. \A i \in 1 .. Len(t) : i \in 1 .. Len(s) \/ i = Len(t)
  BY <1>1
<1>3. ASSUME r[1] = k, r[2] = v  PROVE Newest(t, k, v)
  <2>1. Len(t) \in 1 .. Len(t) /\ t[Len(t)] = r /\ ~\E j \in 1 .. Len(t) : j > Len(t)
    BY <1>1
  <2> QED BY <1>3, <2>1 DEF Newest
<1>4. ASSUME r[1] # k, Newest(s, k, v)  PROVE Newest(t, k, v)
  <2>1. PICK i \in 1 .. Len(s) :
          s[i][1] = k /\ s[i][2] = v /\ \A j \in 1 .. Len(s) : j > i => s[j][1] # k
    BY <1>4 DEF Newest
  <2>2. i \in 1 .. Len(t) /\ t[i][1] = k /\ t[i][2] = v
    BY <1>1, <2>1
  <2>3. ASSUME NEW j \in 1 .. Len(t), j > i  PROVE t[j][1] # k
    BY <1>1, <1>2, <1>4, <2>1, <2>3
  <2> QED BY <2>2, <2>3 DEF Newest
<1>5. ASSUME r[1] # k, Absent(s, k)  PROVE Absent(t, k)
  BY <1>1, <1>2, <1>5 DEF Absent
<1> QED BY <1>3, <1>4, <1>5 DEF t

LEMMA OneLess ==
  ASSUME NEW s \in Seq(Reports), s # << >>, NEW k, NEW v
  PROVE  /\ Newest(s, k, v) =>
              \/ Newest(Tail(s), k, v)
              \/ Head(s)[1] = k /\ Head(s)[2] = v /\ Absent(Tail(s), k)
         /\ Absent(s, k) => Head(s)[1] # k /\ Absent(Tail(s), k)
         /\ Head(s) \in Reports /\ Tail(s) \in Seq(Reports)
<1> DEFINE t == Tail(s)
<1>1. /\ Len(s) \in Nat \ {0} /\ Head(s) = s[1] /\ Head(s) \in Reports
      /\ t \in Seq(Reports) /\ Len(t) = Len(s) - 1
      /\ \A i \in 1 .. Len(t) : t[i] = s[i + 1]
  BY HeadTailProperties, EmptySeq, LenProperties
<1> HIDE DEF t
<1>2. \A i \in 1 .. Len(t) : i + 1 \in 1 .. Len(s)
  BY <1>1
<1>3. ASSUME Newest(s, k, v)
      PROVE  Newest(t, k, v) \/ (Head(s)[1] = k /\ Head(s)[2] = v /\ Absent(t, k))
  <2>1. PICK i \in 1 .. Len(s) :
          s[i][1] = k /\ s[i][2] = v /\ \A j \in 1 .. Len(s) : j > i => s[j][1] # k
    BY <1>3 DEF Newest
  <2>2. CASE i = 1
    <3>1. ASSUME NEW j \in 1 .. Len(t)  PROVE t[j][1] # k
      <4>1. j + 1 \in 1 .. Len(s) /\ j + 1 > i /\ t[j] = s[j + 1]
        BY <1>1, <1>2, <2>2
      <4> QED BY <2>1, <4>1
    <3> QED BY <1>1, <2>1, <2>2, <3>1 DEF Absent
  <2>3. CASE i # 1
    <3>1. i - 1 \in 1 .. Len(t) /\ (i - 1) + 1 = i
      BY <1>1, <2>3
    <3>2. t[i - 1] = s[i]
      BY <1>1, <3>1
    <3>3. ASSUME NEW j \in 1 .. Len(t), j > i - 1  PROVE t[j][1] # k
      <4>1. j + 1 \in 1 .. Len(s) /\ j + 1 > i /\ t[j] = s[j + 1]
        BY <1>1, <1>2, <3>3
      <4> QED BY <2>1, <4>1
    <3> QED BY <2>1, <3>1, <3>2, <3>3 DEF Newest
  <2> QED BY <2>2, <2>3
<1>4. ASSUME Absent(s, k)  PROVE Head(s)[1] # k /\ Absent(t, k)
  <2>1. 1 \in 1 .. Len(s)
    BY <1>1
  <2> QED BY <1>1, <1>2, <1>4, <2>1 DEF Absent
<1> QED BY <1>1, <1>3, <1>4 DEF t

Known == [states |-> states, eighth |-> known_eighth_per_cycle]

\* What somebody who has heard h knows of key k; what a value of that key means to him.
Of(h, k) == IF k = Eighth THEN h.eighth ELSE h.states[k]
Meant(k, v) == IF k = Eighth THEN v ELSE translate_state(v)

\* What slp_ctrl knows of a key.
Knows(k) == Of(Known, k)

LEMMA KnowsKept ==
  ASSUME UNCHANGED slp, NEW k
  PROVE  Knows(k)' = Knows(k)
BY DEF slp, Knows, Of, Known

Hears(f, packets, n) ==
  f = [k \in 0 .. n |-> IF k = 0 THEN Known ELSE Apply(f[k - 1], packets[k])]

\* The recursion of Hear has a solution.
LEMMA HearingExists ==
  ASSUME NEW packets, NEW n \in Nat
  PROVE  \E f : Hears(f, packets, n)
<1> DEFINE S == {m \in Nat : \E f : Hears(f, packets, m)}
<1>1. 0 \in S
  <2>1. Hears([k \in 0 .. 0 |-> Known], packets, 0)
    BY DEF Hears
  <2> QED BY <2>1
<1>2. ASSUME NEW m \in Nat, m \in S  PROVE m + 1 \in S
  <2>1. PICK f : Hears(f, packets, m)
    BY <1>2
  <2> DEFINE g == [k \in 0 .. m + 1 |->
                     IF k = m + 1 THEN Apply(f[m], packets[m + 1]) ELSE f[k]]
  <2>2. ASSUME NEW k \in 0 .. m + 1
        PROVE  g[k] = IF k = 0 THEN Known ELSE Apply(g[k - 1], packets[k])
    <3>1. CASE k = 0
      BY <2>1, <3>1 DEF Hears
    <3>2. CASE k = m + 1
      BY <3>2
    <3>3. CASE k # 0 /\ k # m + 1
      <4>1. k \in 0 .. m /\ k - 1 \in 0 .. m + 1 /\ k - 1 # m + 1
        BY <3>3
      <4>2. f[k] = Apply(f[k - 1], packets[k])
        BY <2>1, <3>3, <4>1 DEF Hears
      <4> QED BY <3>3, <4>1, <4>2
    <3> QED BY <3>1, <3>2, <3>3
  <2>3. g = [k \in 0 .. m + 1 |-> g[k]]
    OBVIOUS
  <2> HIDE DEF g
  <2>4. g = [k \in 0 .. m + 1 |-> IF k = 0 THEN Known ELSE Apply(g[k - 1], packets[k])]
    BY <2>2, <2>3
  <2>5. Hears(g, packets, m + 1)
    BY <2>4 DEF Hears
  <2> QED BY <2>5
<1>3. Nat \subseteq S
  <2> HIDE DEF S
  <2> QED BY <1>1, <1>2, SetInduction
<1> QED BY <1>3

\* The places of the packets that are parsed in a cycle.
Taken(packets) == Len(Parsed(packets))

LEMMA TakenIsFirst ==
  ASSUME NEW packets \in Seq(Reports)
  PROVE  Taken(packets) \in 0 .. Len(packets)
<1> DEFINE n == IF Len(packets) < MaxPackets THEN Len(packets) ELSE MaxPackets
<1>1. Len(packets) \in Nat /\ n \in 0 .. Len(packets)
  BY LenProperties, PacketsAssumption
<1> HIDE DEF n
<1>2. Len(SubSeq(packets, 1, n)) = n
  BY <1>1, SubSeqProperties
<1> QED BY <1>1, <1>2 DEF Taken, Parsed, n

LEMMA Hearing ==
  ASSUME NEW packets \in Seq(Reports)
  PROVE  \E f : /\ Hears(f, packets, Taken(packets))
                /\ Hear(packets) = f[Taken(packets)]
<1>1. \E f : Hears(f, packets, Len(Parsed(packets)))
  <2>1. Len(packets) \in Nat /\ Len(Parsed(packets)) \in 0 .. Len(packets)
    BY TakenIsFirst, LenProperties DEF Taken
  <2>2. Len(Parsed(packets)) \in Nat
    BY <2>1
  <2> QED BY <2>2, HearingExists
<1> DEFINE F == CHOOSE f :
      f = [k \in 0 .. Len(Parsed(packets)) |->
             IF k = 0 THEN [states |-> states, eighth |-> known_eighth_per_cycle]
                      ELSE Apply(f[k - 1], packets[k])]
<1>2. \E f : f = [k \in 0 .. Len(Parsed(packets)) |->
             IF k = 0 THEN [states |-> states, eighth |-> known_eighth_per_cycle]
                      ELSE Apply(f[k - 1], packets[k])]
  BY ONLY <1>1 DEF Hears, Known
<1>3. F = [k \in 0 .. Len(Parsed(packets)) |->
             IF k = 0 THEN [states |-> states, eighth |-> known_eighth_per_cycle]
                      ELSE Apply(F[k - 1], packets[k])]
  BY <1>2
<1>4. Hear(packets) = F[Len(Parsed(packets))]
  BY DEF Hear
<1> HIDE DEF F
<1> QED BY <1>3, <1>4 DEF Hears, Known, Taken

LEMMA AppliedOnce ==
  ASSUME NEW heard, NEW r, NEW k \in Keys
  PROVE  Of(Apply(heard, r), k) = IF r[1] = k THEN Meant(k, r[2]) ELSE Of(heard, k)
<1>1. k \in Loops \/ k = Eighth
  BY DEF Keys
<1>2. k \in Loops => k # Eighth
  BY LoopControlAssumption
<1> QED BY <1>1, <1>2 DEF Of, Apply, Meant

\* What no packet is about stays known; of the rest the last packet about it counts.
LEMMA HeardAtLast ==
  ASSUME NEW packets \in Seq(Reports), NEW l \in Keys, NEW first \in 0 .. Taken(packets),
         \A j \in 1 .. Taken(packets) : j > first => packets[j][1] # l,
         first # 0 => packets[first][1] = l
  PROVE  Of(Hear(packets), l) =
           IF first = 0 THEN Knows(l) ELSE Meant(l, packets[first][2])
<1> DEFINE n == Taken(packets)
<1> DEFINE v == IF first = 0 THEN Knows(l) ELSE Meant(l, packets[first][2])
<1>0. n \in Nat
  BY TakenIsFirst, LenProperties
<1> HIDE DEF n, v
<1>1. PICK f : Hears(f, packets, n) /\ Hear(packets) = f[n]
  BY Hearing DEF n
<1>2. first \in 0 .. n /\ \A j \in 1 .. n : j > first => packets[j][1] # l
  BY DEF n
<1>3. ASSUME NEW k \in 1 .. n
      PROVE  Of(f[k], l) = IF packets[k][1] = l THEN Meant(l, packets[k][2])
                                                ELSE Of(f[k - 1], l)
  <2>1. f[k] = Apply(f[k - 1], packets[k])
    BY <1>0, <1>1, <1>3 DEF Hears
  <2> QED BY <2>1, AppliedOnce
<1> DEFINE S == {k \in Nat : first + k <= n => Of(f[first + k], l) = v}
<1>4. 0 \in S
  <2>1. CASE first = 0
    <3>1. f[0] = Known
      BY <1>0, <1>1 DEF Hears
    <3> QED BY <2>1, <3>1 DEF Knows, v
  <2>2. CASE first # 0
    <3>1. Of(f[first], l) = Meant(l, packets[first][2])
      BY <1>2, <1>3, <2>2
    <3> QED BY <1>2, <2>2, <3>1 DEF v
  <2> QED BY <2>1, <2>2
<1>5. ASSUME NEW k \in Nat, k \in S  PROVE k + 1 \in S
  <2> SUFFICES ASSUME first + (k + 1) <= n  PROVE Of(f[first + (k + 1)], l) = v
    OBVIOUS
  <2> DEFINE m == first + (k + 1)
  <2>1. m \in 1 .. n /\ m > first /\ m - 1 = first + k /\ first + k <= n
    BY <1>0, <1>2
  <2>2. Of(f[m - 1], l) = v
    BY <1>5, <2>1
  <2> HIDE DEF m
  <2>3. Of(f[m], l) = Of(f[m - 1], l)
    BY <1>2, <1>3, <2>1
  <2> QED BY <2>2, <2>3 DEF m
<1>6. n - first \in S
  <2>1. n - first \in Nat
    BY <1>0, <1>2
  <2> HIDE DEF S
  <2> QED BY <1>4, <1>5, <2>1, SetInduction
<1>7. first + (n - first) = n
  BY <1>0, <1>2
<1> QED BY <1>0, <1>1, <1>6, <1>7 DEF v

(***************************************************************************)
(* What is known of key l, st, is to become what v means: the newest       *)
(* report of the key is in the socket, or in the queue, or st says it.     *)
(***************************************************************************)
Underway(s, q, l, st, v) ==
  \/ Newest(s, l, v)
  \/ Absent(s, l) /\ Newest(q, l, v)
  \/ Absent(s, l) /\ Absent(q, l) /\ st = Meant(l, v)

LEMMA OneArrives ==
  ASSUME NEW s \in Seq(Reports), NEW r \in Reports, NEW q, NEW l, NEW st, NEW v
  PROVE  /\ r[1] = l /\ r[2] = v => Underway(Append(s, r), q, l, st, v)
         /\ r[1] # l /\ Underway(s, q, l, st, v) => Underway(Append(s, r), q, l, st, v)
BY OneMore DEF Underway

LEMMA OneReceived ==
  ASSUME NEW s \in Seq(Reports), s # << >>, NEW q \in Seq(Reports), NEW l, NEW st, NEW v,
         Underway(s, q, l, st, v), NEW p,
         p = Append(q, Head(s)) \/ (p = q /\ l \notin {Head(s)[1]} \ Reported(Tail(s)))
  PROVE  Underway(Tail(s), p, l, st, v)
<1>1. Head(s) \in Reports /\ Tail(s) \in Seq(Reports)
  BY OneLess
<1>2. CASE Newest(s, l, v)
  <2>1. CASE Newest(Tail(s), l, v)
    BY <2>1 DEF Underway
  <2>2. CASE Head(s)[1] = l /\ Head(s)[2] = v /\ Absent(Tail(s), l)
    <3>1. l \notin Reported(Tail(s))
      BY <1>1, <2>2, AbsentIsNotReported
    <3>2. p = Append(q, Head(s))
      BY <2>2, <3>1
    <3> QED BY <1>1, <2>2, <3>2, OneMore DEF Underway
  <2> QED BY <1>2, <2>1, <2>2, OneLess
<1>3. CASE Absent(s, l)
  <2>1. Head(s)[1] # l /\ Absent(Tail(s), l)
    BY <1>3, OneLess
  <2>2. ~Newest(s, l, v)
    BY <1>3, NewestIsReported
  <2>3. Newest(q, l, v) \/ (Absent(q, l) /\ st = Meant(l, v))
    BY <2>2 DEF Underway
  <2>4. Newest(q, l, v) => Newest(p, l, v)
    BY <1>1, <2>1, OneMore
  <2>5. Absent(q, l) => Absent(p, l)
    BY <1>1, <2>1, OneMore
  <2> QED BY <2>1, <2>3, <2>4, <2>5 DEF Underway
<1> QED BY <1>2, <1>3 DEF Underway

\* A cycle without packets changes nothing that is known.
LEMMA NothingHeard ==
  ASSUME NEW l \in Keys
  PROVE  Of(Hear(<< >>), l) = Knows(l)
<1>1. << >> \in Seq(Reports) /\ Len(<< >>) = 0
  BY EmptySeq
<1>2. Taken(<< >>) \in 0 .. 0
  BY <1>1, TakenIsFirst
<1>3. Taken(<< >>) = 0
  BY <1>2
<1>4. /\ 0 \in 0 .. Taken(<< >>)
      /\ \A j \in 1 .. Taken(<< >>) : j > 0 => << >>[j][1] # l
  BY <1>3
<1> QED BY <1>1, <1>4, HeardAtLast

\* What lies behind the packets that were taken has no report of a key that is not lost.
LEMMA NotBehind ==
  ASSUME NEW q \in Seq(Reports), NEW n \in 0 .. Len(q), NEW l,
         l \notin Reported(SubSeq(q, n + 1, Len(q)))
  PROVE  \A j \in 1 .. Len(q) : j > n => q[j][1] # l
<1> DEFINE rest == SubSeq(q, n + 1, Len(q))
<1>0. Len(q) \in Nat /\ n \in Nat
  BY LenProperties
<1>1. /\ rest \in Seq(Reports) /\ Len(rest) = Len(q) - n
      /\ \A i \in 1 .. Len(rest) : rest[i] = q[n + 1 + i - 1]
  <2>1. n + 1 \in 1 .. Len(q) + 1 /\ Len(q) \in n + 1 - 1 .. Len(q)
    BY <1>0
  <2> QED BY <1>0, <2>1, SubSeqProperties
<1>2. Absent(rest, l)
  BY <1>1, AbsentIsNotReported
<1> HIDE DEF rest
<1> TAKE j \in 1 .. Len(q)
<1> HAVE j > n
<1>3. j - n \in 1 .. Len(rest) /\ n + 1 + (j - n) - 1 = j
  BY <1>0, <1>1
<1>4. rest[j - n] = q[j]
  BY <1>1, <1>3
<1> QED BY <1>2, <1>3, <1>4 DEF Absent

\* All that a cycle with buffers has taken was heard.
LEMMA AllHeard ==
  ASSUME NEW q \in Seq(Reports), NEW l \in Keys, NEW v,
         Newest(q, l, v) \/ (Absent(q, l) /\ Knows(l) = Meant(l, v)),
         \A j \in 1 .. Len(q) : j > Taken(q) => q[j][1] # l
  PROVE  Of(Hear(q), l) = Meant(l, v)
<1>0. Taken(q) \in 0 .. Len(q) /\ Len(q) \in Nat
  BY TakenIsFirst, LenProperties
<1>1. CASE Newest(q, l, v)
  <2>1. PICK i \in 1 .. Len(q) :
          q[i][1] = l /\ q[i][2] = v /\ \A j \in 1 .. Len(q) : j > i => q[j][1] # l
    BY <1>1 DEF Newest
  <2>2. i \in 0 .. Taken(q) /\ i # 0
    BY <1>0, <2>1
  <2>3. \A j \in 1 .. Taken(q) : j > i => q[j][1] # l
    BY <1>0, <2>1
  <2>4. Of(Hear(q), l) = Meant(l, q[i][2])
    BY <2>1, <2>2, <2>3, HeardAtLast
  <2> QED BY <2>1, <2>4
<1>2. CASE Absent(q, l) /\ Knows(l) = Meant(l, v)
  <2>1. 0 \in 0 .. Taken(q) /\ \A j \in 1 .. Taken(q) : j > 0 => q[j][1] # l
    BY <1>0, <1>2 DEF Absent
  <2>2. Of(Hear(q), l) = Knows(l)
    BY <2>1, HeardAtLast
  <2> QED BY <1>2, <2>2
<1> QED BY <1>1, <1>2

(***************************************************************************)
(* LightsTruthful speaks of a moment when nothing is on its way; in every  *)
(* other the newest report of a key that was not lost is in the socket,    *)
(* in the queue, or heard.  The lights are those of the states slp_ctrl    *)
(* knows, since they were sent.                                            *)
(***************************************************************************)
TypesInv ==
  /\ socket \in Seq(Reports) /\ queue \in Seq(Reports)
  /\ looper \in [Keys -> Codes \union Eighths]

ReportsInv == \A l \in Keys \ missed : Underway(socket, queue, l, Knows(l), looper[l])

ShownInv ==
  /\ shown \in BOOLEAN
  /\ shown = TRUE => \A l \in Loops : states[l] \in DOMAIN Colour => lights[l] = Colour[states[l]]

\* A key changes in the looper, which reports it.
LEMMA ReportKeeps ==
  ASSUME TypesInv, ReportsInv, NEW k \in Keys, NEW v, <<k, v>> \in Reports,
         v \in Codes \union Eighths,
         looper' = [looper EXCEPT ![k] = v], Arrive(<<k, v>>),
         missed' = IF Accepts THEN missed \ {k} ELSE missed \union {k},
         UNCHANGED <<queue, slp>>
  PROVE  TypesInv' /\ ReportsInv'
<1>1. socket' = IF Accepts THEN Append(socket, <<k, v>>) ELSE socket
  BY DEF Arrive
<1>2. TypesInv'
  <2>1. socket' \in Seq(Reports)
    BY <1>1, AppendProperties DEF TypesInv
  <2> QED BY <2>1 DEF TypesInv
<1>3. ASSUME NEW l \in Keys \ missed'
      PROVE  Underway(socket', queue', l, Knows(l)', looper'[l])
  <2>0. l \in Keys /\ Knows(l)' = Knows(l)
    BY KnowsKept
  <2>1. CASE l = k
    <3>1. Accepts /\ looper'[l] = v
      BY <1>3, <2>0, <2>1 DEF TypesInv
    <3>2. <<k, v>>[1] = l /\ <<k, v>>[2] = v
      BY <2>1
    <3>3. Underway(Append(socket, <<k, v>>), queue, l, Knows(l), v)
      BY <3>2, OneArrives DEF TypesInv
    <3> QED BY <1>1, <2>0, <3>1, <3>3
  <2>2. CASE l # k
    <3>1. l \in Keys \ missed /\ looper'[l] = looper[l]
      BY <1>3, <2>0, <2>2 DEF TypesInv
    <3>2. Underway(socket, queue, l, Knows(l), looper[l])
      BY <3>1 DEF ReportsInv
    <3>3. <<k, v>>[1] # l
      BY <2>2
    <3>4. Underway(Append(socket, <<k, v>>), queue, l, Knows(l), looper[l])
      BY <3>2, <3>3, OneArrives DEF TypesInv
    <3> QED BY <1>1, <2>0, <3>1, <3>2, <3>4
  <2> QED BY <2>1, <2>2
<1>4. ReportsInv'
  BY <1>3 DEF ReportsInv
<1> QED BY <1>2, <1>4

\* Nothing but what was missed changes, and it grows.
LEMMA MissingKeeps ==
  ASSUME TypesInv, ReportsInv, UNCHANGED <<socket, queue, looper, slp>>, missed \subseteq missed'
  PROVE  TypesInv' /\ ReportsInv'
<1>1. TypesInv'
  BY DEF TypesInv
<1>2. ASSUME NEW l \in Keys \ missed'
      PROVE  Underway(socket', queue', l, Knows(l)', looper'[l])
  <2>1. Underway(socket, queue, l, Knows(l), looper[l])
    BY DEF ReportsInv
  <2>2. Knows(l)' = Knows(l)
    BY KnowsKept
  <2> QED BY <2>1, <2>2
<1>3. ReportsInv'
  BY <1>2 DEF ReportsInv
<1> QED BY <1>1, <1>3

LEMMA LooperKeeps ==
  ASSUME TypesInv, ReportsInv, Looper
  PROVE  TypesInv' /\ ReportsInv'
<1>1. ASSUME NEW l \in Loops, TakeHit(l)  PROVE TypesInv' /\ ReportsInv'
  <2>1. PICK c \in Codes : Change(l, c)
    BY <1>1 DEF TakeHit
  <2>2. <<l, c>> \in Reports /\ l \in Keys
    BY LoopControlAssumption DEF Keys
  <2>3. UNCHANGED <<queue, slp>>
    BY <1>1 DEF TakeHit
  <2> QED BY <2>1, <2>2, <2>3, ReportKeeps DEF Change
<1>2. CASE TakeSet
  <2>1. UNCHANGED <<queue, slp>>
    BY <1>2 DEF TakeSet
  <2>2. CASE looper[Eighth] = WantedEighth
    <3>1. UNCHANGED <<socket, looper, missed>>
      BY <1>2, <2>2 DEF TakeSet
    <3> QED BY <2>1, <3>1, MissingKeeps
  <2>3. CASE looper[Eighth] # WantedEighth
    <3>1. <<Eighth, WantedEighth>> \in Reports /\ Eighth \in Keys /\ WantedEighth \in Eighths
      BY LoopControlAssumption DEF Keys
    <3>2. /\ looper' = [looper EXCEPT ![Eighth] = WantedEighth]
          /\ Arrive(<<Eighth, WantedEighth>>)
          /\ missed' = IF Accepts THEN missed \ {Eighth} ELSE missed \union {Eighth}
      BY <1>2, <2>3 DEF TakeSet
    <3> QED BY <2>1, <3>1, <3>2, ReportKeeps
  <2> QED BY <2>2, <2>3
<1>3. CASE OtherSet
  <2>1. PICK v \in Eighths : Change(Eighth, v)
    BY <1>3 DEF OtherSet
  <2>2. <<Eighth, v>> \in Reports /\ Eighth \in Keys
    BY LoopControlAssumption DEF Keys
  <2>3. UNCHANGED <<queue, slp>>
    BY <1>3 DEF OtherSet
  <2> QED BY <2>1, <2>2, <2>3, ReportKeeps DEF Change
<1>4. CASE LoseCommands
  BY <1>4, MissingKeeps DEF LoseCommands, receiver
<1> QED BY <1>1, <1>2, <1>3, <1>4 DEF Looper

LEMMA ReceiverKeeps ==
  ASSUME TypesInv, ReportsInv, Receiver
  PROVE  TypesInv' /\ ReportsInv'
<1>1. CASE ReceiveReport
  <2>1. /\ socket # << >> /\ socket' = Tail(socket)
        /\ queue' = IF Refuses THEN queue ELSE Append(queue, Head(socket))
        /\ missed' = missed \union
             (IF Refuses THEN {Head(socket)[1]} \ Reported(Tail(socket)) ELSE {})
        /\ UNCHANGED <<looper, slp>>
    BY <1>1 DEF ReceiveReport, Receive, Push, looper_vars
  <2>2. Head(socket) \in Reports /\ Tail(socket) \in Seq(Reports)
    BY <2>1, OneLess DEF TypesInv
  <2>3. TypesInv'
    <3>1. queue' \in Seq(Reports)
      BY <2>1, <2>2, AppendProperties DEF TypesInv
    <3> QED BY <2>1, <2>2, <3>1 DEF TypesInv
  <2>4. ASSUME NEW l \in Keys \ missed'
        PROVE  Underway(socket', queue', l, Knows(l)', looper'[l])
    <3>1. Underway(socket, queue, l, Knows(l), looper[l])
      BY <2>1, <2>4 DEF ReportsInv
    <3>2. \/ queue' = Append(queue, Head(socket))
          \/ queue' = queue /\ l \notin {Head(socket)[1]} \ Reported(Tail(socket))
      BY <2>1, <2>4
    <3>3. Underway(Tail(socket), queue', l, Knows(l), looper[l])
      BY <2>1, <3>1, <3>2, OneReceived DEF TypesInv
    <3>4. Knows(l)' = Knows(l)
      BY <2>1, KnowsKept
    <3> QED BY <2>1, <3>3, <3>4
  <2>5. ReportsInv'
    BY <2>4 DEF ReportsInv
  <2> QED BY <2>3, <2>5
<1>2. CASE /\ Test /\ missed' = missed \union (IF is_running THEN {} ELSE Reported(socket))
           /\ UNCHANGED <<lp_vars, slp, looper_vars, pads>>
  <2>0. UNCHANGED <<queue, looper, slp>>
    BY <1>2 DEF Test, looper_vars
  <2>1. CASE is_running
    BY <1>2, <2>0, <2>1, MissingKeeps DEF Test
  <2>2. CASE ~is_running
    <3>1. socket' = << >> /\ missed' = missed \union Reported(socket)
      BY <1>2, <2>2 DEF Test
    <3>2. TypesInv'
      BY <2>0, <3>1, EmptySeq DEF TypesInv
    <3>3. ASSUME NEW l \in Keys \ missed'
          PROVE  Underway(socket', queue', l, Knows(l)', looper'[l])
      <4>1. Underway(socket, queue, l, Knows(l), looper[l])
        BY <3>1, <3>3 DEF ReportsInv
      <4>2. Absent(socket, l)
        BY <3>1, <3>3, AbsentIsNotReported DEF TypesInv
      <4>3. ~Newest(socket, l, looper[l])
        BY <4>2, NewestIsReported DEF TypesInv
      <4>4. Knows(l)' = Knows(l)
        BY <2>0, KnowsKept
      <4> QED BY <2>0, <3>1, <4>1, <4>3, <4>4, NothingInNone DEF Underway
    <3>4. ReportsInv'
      BY <3>3 DEF ReportsInv
    <3> QED BY <3>2, <3>4
  <2> QED BY <2>1, <2>2
<1>3. CASE /\ Join /\ missed' = missed \union Reported(queue)
           /\ UNCHANGED <<lp_vars, slp, looper_vars, pads>>
  <2>1. queue' = << >> /\ missed' = missed \union Reported(queue)
        /\ UNCHANGED <<socket, looper, slp>>
    BY <1>3 DEF Join, looper_vars
  <2>2. TypesInv'
    BY <2>1, EmptySeq DEF TypesInv
  <2>3. ASSUME NEW l \in Keys \ missed'
        PROVE  Underway(socket', queue', l, Knows(l)', looper'[l])
    <3>1. Underway(socket, queue, l, Knows(l), looper[l])
      BY <2>1, <2>3 DEF ReportsInv
    <3>2. Absent(queue, l)
      BY <2>1, <2>3, AbsentIsNotReported DEF TypesInv
    <3>3. ~Newest(queue, l, looper[l])
      BY <3>2, NewestIsReported DEF TypesInv
    <3>4. Knows(l)' = Knows(l)
      BY <2>1, KnowsKept
    <3> QED BY <2>1, <3>1, <3>3, <3>4, NothingInNone DEF Underway
  <2>4. ReportsInv'
    BY <2>3 DEF ReportsInv
  <2> QED BY <2>2, <2>4
<1>4. CASE ReceiverQuits
  <2>1. UNCHANGED <<socket, queue, looper, slp>> /\ missed \subseteq missed'
    BY <1>4 DEF ReceiverQuits, Quit, looper_vars
  <2> QED BY <2>1, MissingKeeps
<1> QED BY <1>1, <1>2, <1>3, <1>4 DEF Receiver, ReceiverRuns

LEMMA CrashKeeps ==
  ASSUME TypesInv, ReportsInv, CrashSlpCtrl
  PROVE  TypesInv' /\ ReportsInv'
<1>1. UNCHANGED <<socket, queue, looper>>
  BY DEF CrashSlpCtrl, receiver, looper_vars
<1>2. missed' = missed \union (Keys \ (Reported(queue) \union Reported(socket)))
  BY DEF CrashSlpCtrl
<1>3. ASSUME NEW l \in Keys \ missed'
      PROVE  Underway(socket', queue', l, Knows(l)', looper'[l])
  <2>1. Underway(socket, queue, l, Knows(l), looper[l])
    BY <1>2, <1>3 DEF ReportsInv
  <2>2. l \in Reported(queue) \union Reported(socket)
    BY <1>2, <1>3
  <2>3. ~Absent(queue, l) \/ ~Absent(socket, l)
    BY <2>2, AbsentIsNotReported DEF TypesInv
  <2> QED BY <1>1, <2>1, <2>3 DEF Underway
<1>4. TypesInv'
  BY <1>1 DEF TypesInv
<1>5. ReportsInv'
  BY <1>3 DEF ReportsInv
<1> QED BY <1>4, <1>5

LEMMA CycleKeeps ==
  ASSUME TypesInv, ReportsInv,
         NEW buffers, NEW pressed, NEW mixer, GraphCycle(buffers, pressed, mixer)
  PROVE  TypesInv' /\ ReportsInv'
<1> DEFINE out == "receiver" \in buffers
<1> DEFINE in == "osc in" \in buffers
<1>1. /\ UNCHANGED <<socket, looper>>
      /\ queue' = IF main = "run" /\ out THEN << >> ELSE queue
      /\ states' = Heard(out, in).states /\ known_eighth_per_cycle' = Heard(out, in).eighth
      /\ missed' = missed \union LostInCycle(out, in)
  BY DEF GraphCycle, Drain, receiver
<1> HIDE DEF out, in
<1>2. TypesInv'
  BY <1>1, EmptySeq DEF TypesInv
<1>3. ASSUME NEW l \in Keys \ missed'
      PROVE  Underway(socket', queue', l, Knows(l)', looper'[l])
  <2>0. Knows(l)' = Of(Hear(IF in THEN Given(out) ELSE << >>), l)
    BY <1>1 DEF Knows, Known, Of, Heard
  <2>1. Underway(socket, queue, l, Knows(l), looper[l])
    BY <1>1, <1>3 DEF ReportsInv
  <2>2. CASE Newest(socket, l, looper[l])
    BY <1>1, <2>2 DEF Underway
  <2>3. CASE ~Newest(socket, l, looper[l])
    <3>1. /\ Absent(socket, l)
          /\ \/ Newest(queue, l, looper[l])
             \/ Absent(queue, l) /\ Knows(l) = Meant(l, looper[l])
      BY <2>1, <2>3 DEF Underway
    <3>2. l \notin Reported(socket)
      BY <3>1, AbsentIsNotReported DEF TypesInv
    <3>3. CASE ~(main = "run" /\ out)
      <4>1. Given(out) = << >>
        BY <3>3 DEF Given, Popped
      <4>2. Knows(l)' = Knows(l) /\ queue' = queue
        BY <1>1, <2>0, <3>3, <4>1, NothingHeard
      <4> QED BY <1>1, <2>1, <4>2
    <3>4. CASE main = "run" /\ out
      <4>1. Given(out) = queue /\ queue' = << >>
        BY <1>1, <3>4 DEF Given, Popped
      <4> DEFINE taken == IF in THEN Taken(queue) ELSE 0
      <4>2. taken \in 0 .. Len(queue)
        BY TakenIsFirst, LenProperties DEF TypesInv
      <4>3. l \notin Reported(SubSeq(queue, taken + 1, Len(queue)))
        BY <1>1, <1>3, <3>2, <4>1 DEF LostInCycle, Taken
      <4> HIDE DEF taken
      <4>4. \A j \in 1 .. Len(queue) : j > taken => queue[j][1] # l
        BY <4>2, <4>3, NotBehind DEF TypesInv
      <4>5. Knows(l)' = Meant(l, looper[l])
        <5>1. CASE in
          <6>1. taken = Taken(queue) /\ Knows(l)' = Of(Hear(queue), l)
            BY <2>0, <4>1, <5>1 DEF taken
          <6> QED BY <3>1, <4>4, <6>1, AllHeard DEF TypesInv
        <5>2. CASE ~in
          <6>1. taken = 0 /\ Knows(l)' = Knows(l)
            BY <2>0, <5>2, NothingHeard DEF taken
          <6>2. Absent(queue, l)
            BY <4>4, <6>1 DEF Absent
          <6>3. ~Newest(queue, l, looper[l])
            BY <6>2, NewestIsReported DEF TypesInv
          <6> QED BY <3>1, <6>1, <6>3
        <5> QED BY <5>1, <5>2
      <4> QED BY <1>1, <3>1, <4>1, <4>5, NothingInNone DEF Underway
    <3> QED BY <3>3, <3>4
  <2> QED BY <2>2, <2>3
<1>4. ReportsInv'
  BY <1>3 DEF ReportsInv
<1> QED BY <1>2, <1>4

\* The lights are sent again, or the states they show are the same.
LEMMA LightsKeep ==
  ASSUME ShownInv,
         \/ shown' = FALSE
         \/ shown' \in {TRUE, shown} /\ \A l \in Loops : states'[l] \in DOMAIN Colour =>
                                           lights'[l] = Colour[states'[l]]
         \/ /\ shown' \in {FALSE, shown} /\ UNCHANGED states
            /\ \A l \in Loops : lights'[l] = lights[l]
  PROVE  ShownInv'
BY DEF ShownInv

LEMMA StepKeepsLights ==
  ASSUME ShownInv, [Next]_vars
  PROVE  ShownInv'
<1>0. shown \in BOOLEAN
  BY DEF ShownInv
<1>1. CASE UNCHANGED <<slp, pads>>
  BY <1>1, LightsKeep DEF slp, pads
<1>2. CASE SomeCycle
  <2>1. PICK buffers \in SUBSET AllBuffers, pressed \in SUBSET Loops, mixer \in BOOLEAN :
          GraphCycle(buffers, pressed, mixer)
    BY <1>2 DEF SomeCycle
  <2>2. \/ /\ lights' = [l \in Loops |->
                 IF l \in DOMAIN LoopLights(states') THEN LoopLights(states')[l] ELSE lights[l]]
           /\ shown' = TRUE
        \/ /\ UNCHANGED lights
           /\ shown' = (shown /\ UNCHANGED states)
    BY <2>1 DEF GraphCycle
  <2>3. CASE /\ lights' = [l \in Loops |->
                 IF l \in DOMAIN LoopLights(states') THEN LoopLights(states')[l] ELSE lights[l]]
             /\ shown' = TRUE
    <3>1. ASSUME NEW l \in Loops, states'[l] \in DOMAIN Colour
          PROVE  lights'[l] = Colour[states'[l]]
      <4>1. l \in DOMAIN LoopLights(states') /\ LoopLights(states')[l] = Colour[states'[l]]
        BY <3>1 DEF LoopLights
      <4> QED BY <2>3, <4>1
    <3> QED BY <2>3, <3>1, LightsKeep
  <2>4. CASE UNCHANGED lights /\ shown' = (shown /\ UNCHANGED states)
    <3>1. CASE UNCHANGED states
      <4>1. shown' \in {FALSE, shown}
        BY <1>0, <2>4, <3>1
      <4> QED BY <2>4, <3>1, <4>1, LightsKeep
    <3>2. CASE ~UNCHANGED states
      <4>1. shown' = FALSE
        BY <2>4, <3>2
      <4> QED BY <4>1, LightsKeep
    <3> QED BY <3>1, <3>2
  <2> QED BY <2>2, <2>3, <2>4
<1>3. CASE CrashSlpCtrl
  BY <1>3, LightsKeep DEF CrashSlpCtrl
<1>4. CASE InitializerCycle
  <2>1. /\ UNCHANGED states /\ shown' = (shown /\ mode' = mode /\ ~FirstPadOff)
        /\ lights' = [l \in Loops |-> IF FirstPadOff /\ l = 0 THEN Dark ELSE lights[l]]
    BY <1>4 DEF InitializerCycle, OthersInInitializerCycle, slp
  <2>2. CASE FirstPadOff
    <3>1. shown' = FALSE
      BY <2>1, <2>2
    <3> QED BY <3>1, LightsKeep
  <2>3. CASE ~FirstPadOff
    <3>1. shown' \in {FALSE, shown}
      BY <1>0, <2>1, <2>3
    <3>2. \A l \in Loops : lights'[l] = lights[l]
      BY <2>1, <2>3
    <3> QED BY <2>1, <3>1, <3>2, LightsKeep
  <2> QED BY <2>2, <2>3
<1>5. CASE UnplugDevice
  BY <1>5, LightsKeep DEF UnplugDevice
<1>6. CASE Looper \/ Receiver \/ PlugDevice \/ ((Elapse \/ Answer) /\ OthersWhileWaiting)
  <2>1. Looper => UNCHANGED <<slp, pads>>
    BY DEF Looper, TakeHit, TakeSet, OtherSet, LoseCommands
  <2>2. Receiver => UNCHANGED <<slp, pads>>
    BY DEF Receiver, ReceiverRuns, ReceiveReport, ReceiverQuits
  <2>3. PlugDevice \/ ((Elapse \/ Answer) /\ OthersWhileWaiting) => UNCHANGED <<slp, pads>>
    BY DEF PlugDevice, OthersWhileWaiting
  <2> QED BY <1>1, <1>6, <2>1, <2>2, <2>3
<1>7. CASE UNCHANGED vars
  BY <1>1, <1>7 DEF vars
<1> QED BY <1>2, <1>3, <1>4, <1>5, <1>6, <1>7 DEF Next, Launchpad

LEMMA StepKeepsReports ==
  ASSUME TypesInv, ReportsInv, [Next]_vars
  PROVE  TypesInv' /\ ReportsInv'
<1>1. CASE Looper
  BY <1>1, LooperKeeps
<1>2. CASE SomeCycle
  BY <1>2, CycleKeeps DEF SomeCycle
<1>3. CASE CrashSlpCtrl
  BY <1>3, CrashKeeps
<1>4. CASE Receiver
  BY <1>4, ReceiverKeeps
<1>5. CASE UNCHANGED <<receiver, slp, looper_vars, missed>>
  <2>1. UNCHANGED <<socket, queue, looper, slp>> /\ missed \subseteq missed'
    BY <1>5 DEF receiver, looper_vars
  <2> QED BY <2>1, MissingKeeps
<1>6. CASE Launchpad
  <2>1. UNCHANGED <<receiver, slp, looper_vars, missed>>
    BY <1>6 DEF Launchpad, InitializerCycle, OthersInInitializerCycle, OthersWhileWaiting,
                UnplugDevice, PlugDevice
  <2> QED BY <1>5, <2>1
<1>7. CASE UNCHANGED vars
  BY <1>5, <1>7 DEF vars
<1> QED BY <1>1, <1>2, <1>3, <1>4, <1>6, <1>7 DEF Next

LEMMA ReportsFromTheStart == Init => TypesInv /\ ReportsInv
<1> SUFFICES ASSUME Init  PROVE TypesInv /\ ReportsInv
  OBVIOUS
<1>1. socket = << >> /\ queue = << >>
  BY DEF Init, ReceiverInit
<1>2. looper = [k \in Keys |-> IF k = Eighth THEN WantedEighth ELSE 0]
  BY DEF Init
<1>3. TypesInv
  <2>1. looper \in [Keys -> Codes \union Eighths]
    BY <1>2, LoopControlAssumption
  <2> QED BY <1>1, <2>1, EmptySeq DEF TypesInv
<1>4. ASSUME NEW l \in Keys
      PROVE  Underway(socket, queue, l, Knows(l), looper[l])
  <2>1. translate_state(0) = "Off"
    BY DEF translate_state, StateNames
  <2>2. l = Eighth \/ (l \in Loops /\ l # Eighth)
    BY LoopControlAssumption DEF Keys
  <2>3. Knows(l) = Meant(l, looper[l])
    BY <1>2, <2>1, <2>2 DEF Knows, Of, Known, Meant, Init, SlpInit
  <2> QED BY <1>1, <2>3, NothingInNone DEF Underway
<1> QED BY <1>3, <1>4 DEF ReportsInv

\* When no report is on its way, slp_ctrl knows the looper's value of every key but those
\* whose newest report was lost.
KnownTruthful ==
  (socket = << >> /\ queue = << >>) => \A k \in Keys \ missed : Knows(k) = Meant(k, looper[k])

LEMMA ReportsAreHeard == TypesInv /\ ReportsInv => KnownTruthful
<1> SUFFICES ASSUME ReportsInv, socket = << >>, queue = << >>, NEW k \in Keys \ missed
             PROVE  Knows(k) = Meant(k, looper[k])
  BY DEF KnownTruthful
<1>1. Underway(<< >>, << >>, k, Knows(k), looper[k])
  BY DEF ReportsInv
<1>2. ~Newest(<< >>, k, looper[k])
  BY NothingInNone, NewestIsReported
<1> QED BY <1>1, <1>2 DEF Underway

(***************************************************************************)
(* What slp_ctrl knows once no report is on its way: of each loop the      *)
(* state it has in the looper, and of eighth_per_cycle, which is why it    *)
(* stops repeating its command only when the looper has the wanted value,  *)
(* unless the newest report of that key was lost.  For any number of loops *)
(* and capacities, over crashes of slp_ctrl and the end of the receiver.   *)
(***************************************************************************)
THEOREM ReportsReachSlpCtrl == Spec => []KnownTruthful
<1>1. TypesInv /\ ReportsInv /\ [Next]_vars => (TypesInv /\ ReportsInv)'
  BY StepKeepsReports
<1> QED BY <1>1, ReportsFromTheStart, ReportsAreHeard, PTL DEF Spec

(***************************************************************************)
(* LightsTruthful, for any number of loops, of datagrams in the socket and *)
(* in the queue, and of packets a cycle parses: an older report never      *)
(* overtakes a newer one of its loop, and a cycle that takes several ends  *)
(* with the newest.                                                        *)
(***************************************************************************)
THEOREM LightsSafe == Spec => []LightsTruthful
<1>1. Init => ShownInv
  BY DEF Init, ShownInv
<1>2. ShownInv /\ [Next]_vars => ShownInv'
  BY StepKeepsLights
<1>3. KnownTruthful /\ ShownInv => LightsTruthful
  <2> SUFFICES ASSUME KnownTruthful, ShownInv, socket = << >>, queue = << >>, shown,
                      NEW l \in Loops \ missed, translate_state(looper[l]) \in DOMAIN Colour
               PROVE  lights[l] = Colour[translate_state(looper[l])]
    BY DEF LightsTruthful
  <2>1. l \in Keys /\ l # Eighth
    BY LoopControlAssumption DEF Keys
  <2>2. Knows(l) = Meant(l, looper[l])
    BY <2>1 DEF KnownTruthful
  <2>3. states[l] = translate_state(looper[l])
    BY <2>1, <2>2 DEF Knows, Of, Known, Meant
  <2>4. shown = TRUE
    BY DEF ShownInv
  <2> QED BY <2>3, <2>4 DEF ShownInv
<1> QED BY <1>1, <1>2, <1>3, ReportsReachSlpCtrl, PTL DEF Spec

-----------------------------------------------------------------------------
(* The types *)

LEMMA ReportedAreKeys ==
  ASSUME NEW s \in Seq(Reports)
  PROVE  Reported(s) \subseteq Keys
<1>1. \A i \in DOMAIN s : s[i] \in Reports
  BY LenProperties, ElementOfSeq
<1>2. \A r \in Reports : r[1] \in Keys
  BY LoopControlAssumption DEF Keys
<1> QED BY <1>1, <1>2 DEF Reported

LEMMA ArrivedTyped ==
  ASSUME ReceiverTypeOK, NEW r \in Reports, Arrive(r),
         UNCHANGED <<queue, thread, main, is_running>>
  PROVE  ReceiverTypeOK'
<1>1. SocketCapacity \in Nat /\ Len(socket) \in Nat
  BY ReceiverAssumption, LenProperties DEF ReceiverTypeOK
<1>2. CASE Accepts
  <2>1. socket' = Append(socket, r) /\ thread # "ended" /\ Len(socket) < SocketCapacity
    BY <1>2 DEF Arrive, Accepts
  <2>2. socket' \in Seq(Reports) /\ Len(socket') = Len(socket) + 1
    BY <2>1, AppendProperties DEF ReceiverTypeOK
  <2>3. Len(socket') <= SocketCapacity
    BY <1>1, <2>1, <2>2
  <2> QED BY <2>1, <2>2, <2>3 DEF ReceiverTypeOK
<1>3. CASE ~Accepts
  BY <1>3 DEF Arrive, ReceiverTypeOK
<1> QED BY <1>2, <1>3

LEMMA ReceivedTyped ==
  ASSUME ReceiverTypeOK, Receive
  PROVE  ReceiverTypeOK'
<1>1. /\ socket \in Seq(Reports) /\ socket # << >> /\ Len(socket) <= SocketCapacity
      /\ queue \in Seq(Reports) /\ Len(queue) <= ReceiverCapacity
      /\ thread = "receiving" /\ socket' = Tail(socket) /\ thread' = "test"
      /\ queue' = IF Refuses THEN queue ELSE Append(queue, Head(socket))
      /\ UNCHANGED <<main, is_running>>
  BY DEF Receive, Push, ReceiverTypeOK
<1>2. Len(socket) \in Nat /\ Len(queue) \in Nat
  BY <1>1, LenProperties
<1>3. SocketCapacity \in Nat /\ ReceiverCapacity \in Nat
  BY ReceiverAssumption
<1>4. Head(socket) \in Reports /\ socket' \in Seq(Reports) /\ Len(socket') = Len(socket) - 1
  BY <1>1, HeadTailProperties
<1>5. Len(socket') <= SocketCapacity
  BY <1>1, <1>2, <1>3, <1>4
<1>6. queue' \in Seq(Reports) /\ Len(queue') <= ReceiverCapacity
  <2>1. CASE Refuses
    BY <1>1, <2>1
  <2>2. CASE ~Refuses
    <3>1. queue' \in Seq(Reports) /\ Len(queue') = Len(queue) + 1
      BY <1>1, <1>4, <2>2, AppendProperties
    <3>2. Len(queue) < ReceiverCapacity
      BY <1>2, <1>3, <2>2 DEF Refuses
    <3> QED BY <1>2, <1>3, <3>1, <3>2
  <2> QED BY <2>1, <2>2
<1> QED BY <1>1, <1>4, <1>5, <1>6 DEF ReceiverTypeOK

\* The threads of the receiver.
LEMMA ThreadsTyped ==
  ASSUME ReceiverTypeOK, Test \/ Receive \/ Quit \/ Join
  PROVE  ReceiverTypeOK'
<1>0. << >> \in Seq(Reports) /\ Len(<< >>) = 0
  BY EmptySeq
<1>1. 0 <= SocketCapacity /\ 0 <= ReceiverCapacity
  BY ReceiverAssumption
<1>2. CASE Test
  <2>1. CASE is_running
    BY <1>2, <2>1 DEF Test, ReceiverTypeOK
  <2>2. CASE ~is_running
    BY <1>0, <1>1, <1>2, <2>2 DEF Test, ReceiverTypeOK
  <2> QED BY <2>1, <2>2
<1>3. CASE Receive
  BY <1>3, ReceivedTyped
<1>4. CASE Quit
  BY <1>4 DEF Quit, ReceiverTypeOK
<1>5. CASE Join
  BY <1>0, <1>1, <1>5 DEF Join, ReceiverTypeOK
<1> QED BY <1>2, <1>3, <1>4, <1>5

LEMMA DrainedTyped ==
  ASSUME ReceiverTypeOK, NEW out, Drain(out)
  PROVE  ReceiverTypeOK'
<1>0. << >> \in Seq(Reports) /\ Len(<< >>) = 0 /\ 0 <= ReceiverCapacity
  BY EmptySeq, ReceiverAssumption
<1> QED BY <1>0 DEF Drain, ReceiverTypeOK

LEMMA ReceiverTyped ==
  ASSUME ReceiverTypeOK, [Next]_vars
  PROVE  ReceiverTypeOK'
<1>1. CASE UNCHANGED receiver
  BY <1>1 DEF receiver, ReceiverTypeOK
<1>2. ASSUME NEW l \in Loops, TakeHit(l)  PROVE ReceiverTypeOK'
  <2>1. PICK c \in Codes : Change(l, c)
    BY <1>2 DEF TakeHit
  <2>2. <<l, c>> \in Reports /\ UNCHANGED <<queue, thread, main, is_running>>
    BY <1>2, LoopControlAssumption DEF TakeHit
  <2> QED BY <2>1, <2>2, ArrivedTyped DEF Change
<1>3. CASE TakeSet
  <2>1. UNCHANGED <<queue, thread, main, is_running>>
    BY <1>3 DEF TakeSet
  <2>2. CASE looper[Eighth] = WantedEighth
    BY <1>1, <1>3, <2>1, <2>2 DEF TakeSet, receiver
  <2>3. CASE looper[Eighth] # WantedEighth
    <3>1. <<Eighth, WantedEighth>> \in Reports
      BY LoopControlAssumption
    <3>2. Arrive(<<Eighth, WantedEighth>>)
      BY <1>3, <2>3 DEF TakeSet
    <3> QED BY <2>1, <3>1, <3>2, ArrivedTyped
  <2> QED BY <2>2, <2>3
<1>4. CASE OtherSet
  <2>1. PICK v \in Eighths : Change(Eighth, v)
    BY <1>4 DEF OtherSet
  <2>2. <<Eighth, v>> \in Reports /\ UNCHANGED <<queue, thread, main, is_running>>
    BY <1>4, LoopControlAssumption DEF OtherSet
  <2> QED BY <2>1, <2>2, ArrivedTyped DEF Change
<1>5. CASE SomeCycle
  <2>1. PICK buffers \in SUBSET AllBuffers, pressed \in SUBSET Loops, mixer \in BOOLEAN :
          GraphCycle(buffers, pressed, mixer)
    BY <1>5 DEF SomeCycle
  <2>2. Drain("receiver" \in buffers) \/ UNCHANGED receiver
    BY <2>1 DEF GraphCycle
  <2> QED BY <1>1, <2>2, DrainedTyped
<1>6. CASE Receiver
  BY <1>6, ThreadsTyped DEF Receiver, ReceiverRuns, ReceiveReport, ReceiverQuits
<1>7. CASE LoseCommands \/ CrashSlpCtrl \/ Launchpad
  BY <1>1, <1>7 DEF LoseCommands, CrashSlpCtrl, Launchpad, InitializerCycle,
       OthersInInitializerCycle, OthersWhileWaiting, UnplugDevice, PlugDevice
<1>8. CASE UNCHANGED vars
  BY <1>1, <1>8 DEF vars
<1> QED BY <1>2, <1>3, <1>4, <1>5, <1>6, <1>7, <1>8 DEF Next, Looper

\* The words still expected are the last ones of the answer.
Remaining(words) == \E k \in 1 .. Len(Words) + 1 : words = SubSeq(Words, k, Len(Words))

LEMMA WordRemaining ==
  ASSUME NEW words, Remaining(words), NEW w
  PROVE  Remaining(IF words # << >> /\ w = Head(words) THEN Tail(words) ELSE words)
<1>0. Words \in Seq(STRING) /\ Len(Words) \in Nat
  BY WordsAssumption, LenProperties
<1>1. PICK k \in 1 .. Len(Words) + 1 : words = SubSeq(Words, k, Len(Words))
  BY DEF Remaining
<1>2. CASE words # << >> /\ w = Head(words)
  <2>1. k # Len(Words) + 1
    BY <1>0, <1>1, <1>2, SubSeqEmpty
  <2>2. k \in 1 .. Len(Words) /\ Len(Words) \in k .. Len(Words) /\ k + 1 \in 1 .. Len(Words) + 1
    BY <1>0, <1>1, <2>1
  <2>3. Tail(words) = SubSeq(Words, k + 1, Len(Words))
    BY <1>0, <1>1, <2>2, HeadTailOfSubSeq
  <2> QED BY <1>2, <2>2, <2>3 DEF Remaining
<1>3. CASE ~(words # << >> /\ w = Head(words))
  BY <1>3
<1> QED BY <1>2, <1>3

LEMMA PacketRemaining ==
  ASSUME NEW words, Remaining(words), NEW packet
  PROVE  Remaining(Seen(words, packet))
<1> DEFINE first == IF words # << >> /\ packet[1] = Head(words) THEN Tail(words) ELSE words
<1>1. Remaining(first)
  BY WordRemaining
<1> HIDE DEF first
<1>2. Remaining(IF first # << >> /\ packet[2] = Head(first) THEN Tail(first) ELSE first)
  BY <1>1, WordRemaining
<1> QED BY <1>2 DEF Seen, first

LEMMA ReadRemaining ==
  ASSUME NEW in, NEW n \in Nat, Remaining(expected)
  PROVE  Remaining(ExpectedAfter(in, n))
<1>1. CASE ExpectedAfter(in, n) = expected
  BY <1>1
<1>2. CASE \E f : Follows(f, expected, answers, n) /\ ExpectedAfter(in, n) = f[n]
  <2>1. PICK f : Follows(f, expected, answers, n) /\ ExpectedAfter(in, n) = f[n]
    BY <1>2
  <2> DEFINE S == {k \in Nat : k <= n => Remaining(f[k])}
  <2>2. 0 \in S
    <3>1. f[0] = expected
      BY <2>1 DEF Follows
    <3> QED BY <3>1
  <2>3. ASSUME NEW k \in Nat, k \in S  PROVE k + 1 \in S
    <3> SUFFICES ASSUME k + 1 <= n  PROVE Remaining(f[k + 1])
      OBVIOUS
    <3>1. Remaining(f[k])
      BY <2>3
    <3>2. k + 1 \in 0 .. n /\ k + 1 # 0 /\ (k + 1) - 1 = k
      OBVIOUS
    <3>3. f[k + 1] = Seen(f[k], answers[k + 1])
      BY <2>1, <3>2 DEF Follows
    <3> QED BY <3>1, <3>3, PacketRemaining
  <2>4. n \in S
    <3> HIDE DEF S
    <3> QED BY <2>2, <2>3, SetInduction
  <2> QED BY <2>1, <2>4
<1> QED BY <1>1, <1>2, Reading

\* What the device sends.
Sent == (Range(Words) \union {OtherWord}) \X {Data}

LEMMA PacketsSent == Packets \in Seq(Sent) /\ Len(Packets) = Len(Words)
<1>0. Len(Words) \in Nat /\ DOMAIN Words = 1 .. Len(Words)
  BY WordsAssumption, LenProperties
<1>1. \A i \in 1 .. Len(Words) : Words[i] \in Range(Words)
  BY <1>0 DEF Range
<1>2. ASSUME NEW i \in 1 .. Len(Words)
      PROVE  <<IF i = Len(Words) /\ firmware = "other" THEN OtherWord ELSE Words[i], Data>> \in Sent
  BY <1>1 DEF Sent
<1>3. Packets \in [1 .. Len(Words) -> Sent]
  BY <1>2 DEF Packets
<1>4. Packets \in Seq(Sent) /\ DOMAIN Packets = 1 .. Len(Words)
  BY <1>0, <1>3, SeqDef
<1>5. Len(Packets) \in Nat /\ DOMAIN Packets = 1 .. Len(Packets)
  BY <1>4, LenProperties
<1>6. \A m, n \in Nat : 1 .. m = 1 .. n => m = n
  <2> SUFFICES ASSUME NEW m \in Nat, NEW n \in Nat, 1 .. m = 1 .. n  PROVE m = n
    OBVIOUS
  <2>1. \A i \in Nat : (1 <= i /\ i <= m) <=> (1 <= i /\ i <= n)
    OBVIOUS
  <2> QED BY <2>1
<1> QED BY <1>0, <1>4, <1>5, <1>6

\* The mixer's layout was given to the device that is in it.
FadersInv == faders \in {<< >>, FaderSetup} /\ (mode = "mixer" => faders # << >>)

LpInv ==
  /\ task \in {"HandShake", "EnableSessionMode", "SetupInitialSessionState"}
  /\ Remaining(expected)
  /\ (expected = << >>) <=> (task # "HandShake")
  /\ sent \in {"never", "recently", "long ago"}
  /\ connected \in BOOLEAN /\ mode \in {"standalone", "session", "mixer"}
  /\ firmware \in {"expected", "other"} /\ asked \in BOOLEAN
  /\ answers \in Seq(Sent)
  /\ Len(answers) <= MaxAnswers /\ replugged \in BOOLEAN

LEMMA LpInvIsItsType == LpInv <=> LpTypeOK
BY DEF LpInv, LpTypeOK, Remaining, Sent

LEMMA HandShakeTyped ==
  ASSUME LpInv, NEW in \in BOOLEAN, NEW out \in BOOLEAN, NEW n \in 0 .. MaxAnswers,
         HandShake(in, out, n)
  PROVE  LpInv'
<1>0. /\ n \in Nat /\ n <= Len(answers) /\ answers \in Seq(Sent) /\ Len(answers) \in Nat
      /\ MaxAnswers \in Nat /\ Len(answers) <= MaxAnswers
  <2>1. answers \in Seq(Sent) /\ Len(answers) <= MaxAnswers
    BY DEF LpInv
  <2>2. Len(answers) \in Nat
    BY <2>1, LenProperties
  <2>3. n <= Len(answers)
    BY DEF HandShake
  <2> QED BY <2>1, <2>2, <2>3, WordsAssumption
<1>1. /\ task = "HandShake" /\ expected' = ExpectedAfter(in, n)
      /\ UNCHANGED <<connected, mode, firmware, replugged>>
  BY DEF HandShake
<1>2. Remaining(expected)'
  <2>1. Remaining(ExpectedAfter(in, n))
    BY <1>0, ReadRemaining DEF LpInv
  <2> QED BY <1>1, <2>1 DEF Remaining
<1>3. CASE expected' = << >>
  <2>1. task' = "EnableSessionMode" /\ sent' = "never" /\ answers' = << >> /\ asked' = FALSE
    BY <1>3 DEF HandShake
  <2>2. << >> \in Seq(Sent) /\ Len(<< >>) = 0 /\ 0 <= MaxAnswers
    BY <1>0, EmptySeq
  <2> QED BY <1>1, <1>2, <1>3, <2>1, <2>2 DEF LpInv
<1>4. CASE expected' # << >>
  <2>1. /\ task' = task
        /\ sent' = IF out /\ Due THEN "recently" ELSE sent
        /\ answers' = SubSeq(answers, n + 1, Len(answers))
        /\ asked' = (asked \/ (out /\ Due /\ connected))
    BY <1>4 DEF HandShake
  <2>2. answers' \in Seq(Sent) /\ Len(answers') <= MaxAnswers
    <3>1. \A i \in n + 1 .. Len(answers) : answers[i] \in Sent
      BY <1>0, ElementOfSeq
    <3>2. /\ answers' \in Seq(Sent)
          /\ Len(answers') = IF n + 1 <= Len(answers) THEN Len(answers) - (n + 1) + 1 ELSE 0
      BY <1>0, <2>1, <3>1, SubSeqProperties
    <3> QED BY <1>0, <3>2
  <2>3. sent' \in {"never", "recently", "long ago"} /\ asked' \in BOOLEAN
    BY <2>1 DEF LpInv
  <2> QED BY <1>1, <1>2, <1>4, <2>1, <2>2, <2>3 DEF LpInv
<1> QED BY <1>3, <1>4

LEMMA LaterTasksTyped ==
  ASSUME LpInv, NEW out \in BOOLEAN, EnableSessionMode(out) \/ SetupInitialSessionState(out)
  PROVE  LpInv'
<1>1. CASE EnableSessionMode(out)
  <2>1. /\ task = "EnableSessionMode" /\ task' = "SetupInitialSessionState"
        /\ mode' = IF connected THEN "session" ELSE mode
        /\ UNCHANGED <<expected, sent, connected, firmware, asked, answers, replugged>>
    BY <1>1 DEF EnableSessionMode
  <2>2. mode' \in {"standalone", "session", "mixer"}
    BY <2>1 DEF LpInv
  <2> QED BY <2>1, <2>2 DEF LpInv, Remaining
<1>2. CASE SetupInitialSessionState(out)
  BY <1>2 DEF SetupInitialSessionState, device, LpInv, Remaining
<1> QED BY <1>1, <1>2

LEMMA DeviceTyped ==
  ASSUME LpInv, Elapse \/ Answer \/ Unplug \/ Plug
  PROVE  LpInv'
<1>1. CASE Elapse
  BY <1>1 DEF Elapse, device, LpInv, Remaining
<1>2. CASE Answer
  <2>1. /\ answers' = answers \o Packets /\ asked' = FALSE
        /\ Len(answers) + Len(Words) <= MaxAnswers
        /\ UNCHANGED <<task, expected, sent, connected, mode, firmware, replugged>>
    BY <1>2 DEF Answer, initializer
  <2>2. answers' \in Seq(Sent) /\ Len(answers') = Len(answers) + Len(Words)
    <3>1. answers \in Seq(Sent)
      BY DEF LpInv
    <3>2. Packets \in Seq(Sent) /\ Len(Packets) = Len(Words)
      BY PacketsSent
    <3> DEFINE p == Packets
    <3> HIDE DEF p
    <3>3. p \in Seq(Sent) /\ Len(p) = Len(Words) /\ answers' = answers \o p
      BY <2>1, <3>2 DEF p
    <3>4. answers \o p \in Seq(Sent) /\ Len(answers \o p) = Len(answers) + Len(p)
      BY <3>1, <3>3, ConcatProperties
    <3> QED BY <3>3, <3>4
  <2> QED BY <2>1, <2>2 DEF LpInv, Remaining
<1>3. CASE Unplug
  <2>1. /\ connected' = FALSE /\ mode' = "standalone" /\ asked' = FALSE /\ answers' = << >>
        /\ replugged' = (replugged \/ expected # Words)
        /\ UNCHANGED <<task, expected, sent, firmware>>
    BY <1>3 DEF Unplug, initializer
  <2>2. << >> \in Seq(Sent) /\ Len(<< >>) = 0 /\ 0 <= MaxAnswers
    BY EmptySeq, WordsAssumption
  <2>3. replugged' \in BOOLEAN
    BY <2>1 DEF LpInv
  <2> QED BY <2>1, <2>2, <2>3 DEF LpInv, Remaining
<1>4. CASE Plug
  <2>1. /\ connected' = TRUE /\ replugged' = (replugged \/ expected # Words)
        /\ UNCHANGED <<task, expected, sent, mode, firmware, asked, answers>>
    BY <1>4 DEF Plug, initializer
  <2>2. replugged' \in BOOLEAN
    BY <2>1 DEF LpInv
  <2> QED BY <2>1, <2>2 DEF LpInv, Remaining
<1> QED BY <1>1, <1>2, <1>3, <1>4

\* A message is not empty, and neither is the layout of the faders.
LEMMA FadersAreGiven == FaderSetup # << >>
<1>1. Len(<< >>) = 0 /\ Len(FaderSetup) = 7
  BY DEF FaderSetup
<1> QED BY <1>1

LEMMA LpTyped ==
  ASSUME LpInv, FadersInv, [Next]_vars
  PROVE  LpInv' /\ FadersInv'
<1>1. ASSUME UNCHANGED <<lp_vars, faders>>  PROVE LpInv' /\ FadersInv'
  <2>1. UNCHANGED <<task, expected, sent, connected, mode, firmware, asked, answers, replugged,
                    faders>>
    BY <1>1 DEF lp_vars
  <2> QED BY <2>1 DEF LpInv, FadersInv, Remaining
<1>2. CASE Looper \/ CrashSlpCtrl \/ Receiver
  <2>1. Looper => UNCHANGED <<lp_vars, faders>>
    BY DEF Looper, TakeHit, TakeSet, OtherSet, LoseCommands, pads
  <2>2. CrashSlpCtrl => UNCHANGED <<lp_vars, faders>>
    BY DEF CrashSlpCtrl
  <2>3. Receiver => UNCHANGED <<lp_vars, faders>>
    BY DEF Receiver, ReceiverRuns, ReceiveReport, ReceiverQuits, pads
  <2> QED BY <1>1, <1>2, <2>1, <2>2, <2>3
<1>3. CASE SomeCycle
  <2>1. PICK buffers \in SUBSET AllBuffers, pressed \in SUBSET Loops, mixer \in BOOLEAN :
          GraphCycle(buffers, pressed, mixer)
    BY <1>3 DEF SomeCycle
  <2>2. UNCHANGED <<task, expected, sent, connected, firmware, asked, answers, replugged>>
    BY <2>1 DEF GraphCycle, initializer
  <2>3. (mode' = "mixer" /\ faders' = FaderSetup) \/ UNCHANGED <<mode, faders>>
    BY <2>1 DEF GraphCycle
  <2>4. LpInv'
    BY <2>2, <2>3 DEF LpInv, Remaining
  <2>5. FadersInv'
    BY <2>3, FadersAreGiven DEF FadersInv
  <2> QED BY <2>4, <2>5
<1>4. CASE InitializerCycle
  <2>1. PICK in \in BOOLEAN, out \in BOOLEAN, n \in 0 .. MaxAnswers : InitCycle(in, out, n)
    BY <1>4 DEF InitializerCycle, AnyInitCycle
  <2>2. LpInv'
    BY <2>1, HandShakeTyped, LaterTasksTyped DEF InitCycle
  <2>3. mode' = mode \/ mode' = "session"
    BY <2>1 DEF InitCycle, HandShake, EnableSessionMode, SetupInitialSessionState, device
  <2>4. faders' = faders
    BY <1>4 DEF InitializerCycle, OthersInInitializerCycle
  <2> QED BY <2>2, <2>3, <2>4 DEF FadersInv
<1>5. CASE ((Elapse \/ Answer) /\ OthersWhileWaiting) \/ PlugDevice
  <2>1. LpInv'
    BY <1>5, DeviceTyped DEF PlugDevice
  <2>2. UNCHANGED <<mode, faders>>
    BY <1>5 DEF PlugDevice, Elapse, Answer, Plug, OthersWhileWaiting, device, pads
  <2> QED BY <2>1, <2>2 DEF FadersInv
<1>6. CASE UnplugDevice
  <2>1. LpInv'
    BY <1>6, DeviceTyped DEF UnplugDevice
  <2>2. mode' = "standalone" /\ faders' = << >>
    BY <1>6 DEF UnplugDevice, Unplug
  <2> QED BY <2>1, <2>2 DEF FadersInv
<1>7. CASE UNCHANGED vars
  BY <1>1, <1>7 DEF vars, pads
<1> QED BY <1>2, <1>3, <1>4, <1>5, <1>6, <1>7 DEF Next, Launchpad

\* What slp_ctrl knows, and what it hears.
States == Range(StateNames) \union {"Unknown"}

LEMMA TranslatedTyped ==
  ASSUME NEW code
  PROVE  translate_state(code) \in States
<1>1. CASE code \in 0 .. 14
  <2>1. translate_state(code) = StateNames[code + 1]
    BY <1>1 DEF translate_state
  <2>2. DOMAIN StateNames = 1 .. 15
    BY DEF StateNames
  <2>3. code + 1 \in DOMAIN StateNames
    BY <1>1, <2>2
  <2> QED BY <2>1, <2>3 DEF States, Range
<1>2. CASE code \notin 0 .. 14
  BY <1>2 DEF translate_state, States
<1> QED BY <1>1, <1>2

Knowledge(k) ==
  /\ k.states \in [Loops -> States] /\ k.eighth \in Eighths

LEMMA AppliedTyped ==
  ASSUME NEW heard, Knowledge(heard), NEW report \in Reports
  PROVE  Knowledge(Apply(heard, report))
<1>1. /\ Apply(heard, report).states =
           [l \in Loops |-> IF report[1] = l THEN translate_state(report[2]) ELSE heard.states[l]]
      /\ Apply(heard, report).eighth = IF report[1] = Eighth THEN report[2] ELSE heard.eighth
  BY DEF Apply
<1>2. ASSUME NEW l \in Loops
      PROVE  (IF report[1] = l THEN translate_state(report[2]) ELSE heard.states[l]) \in States
  BY TranslatedTyped DEF Knowledge
<1>3. report[1] = Eighth => report[2] \in Eighths
  BY LoopControlAssumption
<1> QED BY <1>1, <1>2, <1>3 DEF Knowledge

LEMMA HeardTyped ==
  ASSUME NEW packets \in Seq(Reports), Knowledge(Known)
  PROVE  Knowledge(Hear(packets))
<1> DEFINE n == Taken(packets)
<1>0. n \in 0 .. Len(packets) /\ Len(packets) \in Nat
  BY TakenIsFirst, LenProperties
<1> HIDE DEF n
<1>1. PICK f : Hears(f, packets, n) /\ Hear(packets) = f[n]
  BY Hearing DEF n
<1> DEFINE S == {k \in Nat : k <= n => Knowledge(f[k])}
<1>2. 0 \in S
  <2>1. f[0] = Known
    BY <1>0, <1>1 DEF Hears
  <2> QED BY <2>1
<1>3. ASSUME NEW k \in Nat, k \in S  PROVE k + 1 \in S
  <2> SUFFICES ASSUME k + 1 <= n  PROVE Knowledge(f[k + 1])
    OBVIOUS
  <2>1. Knowledge(f[k])
    BY <1>0, <1>3
  <2>2. k + 1 \in 0 .. n /\ k + 1 # 0 /\ (k + 1) - 1 = k /\ k + 1 \in 1 .. Len(packets)
    BY <1>0
  <2>3. f[k + 1] = Apply(f[k], packets[k + 1])
    BY <1>1, <2>2 DEF Hears
  <2>4. packets[k + 1] \in Reports
    BY <2>2, ElementOfSeq
  <2> QED BY <2>1, <2>3, <2>4, AppliedTyped
<1>4. n \in S
  <2> HIDE DEF S
  <2> QED BY <1>0, <1>2, <1>3, SetInduction
<1> QED BY <1>0, <1>1, <1>4

LooperInv ==
  /\ looper \in [Keys -> Codes \union Eighths] /\ changes \in 0 .. MaxChanges
  /\ missed \subseteq Keys /\ commands \in [hits : SUBSET Loops, set : BOOLEAN]

LightsInv ==
  /\ lights \in [Loops -> Range(Colour) \union {Dark}] /\ shown \in BOOLEAN

LEMMA ChangeTyped ==
  ASSUME LooperInv, NEW k \in Keys, NEW v \in Codes \union Eighths, Change(k, v)
  PROVE  /\ looper' \in [Keys -> Codes \union Eighths]
         /\ changes' \in 0 .. MaxChanges /\ missed' \subseteq Keys
<1>1. /\ changes < MaxChanges /\ changes' = changes + 1
      /\ looper' = [looper EXCEPT ![k] = v]
      /\ missed' = IF Accepts THEN missed \ {k} ELSE missed \union {k}
  BY DEF Change
<1>2. changes \in 0 .. MaxChanges /\ MaxChanges \in Nat
  BY LoopControlAssumption DEF LooperInv
<1>3. changes' \in 0 .. MaxChanges
  BY <1>1, <1>2
<1>4. looper' \in [Keys -> Codes \union Eighths] /\ missed' \subseteq Keys
  BY <1>1 DEF LooperInv
<1> QED BY <1>3, <1>4

LEMMA LooperTyped ==
  ASSUME LooperInv, Looper
  PROVE  LooperInv'
<1>1. ASSUME NEW l \in Loops, TakeHit(l)  PROVE LooperInv'
  <2>1. PICK c \in Codes : Change(l, c)
    BY <1>1 DEF TakeHit
  <2>2. l \in Keys /\ c \in Codes \union Eighths
    BY DEF Keys
  <2>3. /\ looper' \in [Keys -> Codes \union Eighths]
        /\ changes' \in 0 .. MaxChanges /\ missed' \subseteq Keys
    BY <2>1, <2>2, ChangeTyped
  <2>4. commands' = [commands EXCEPT !.hits = @ \ {l}]
    BY <1>1 DEF TakeHit
  <2>5. commands' \in [hits : SUBSET Loops, set : BOOLEAN]
    BY <2>4 DEF LooperInv
  <2> QED BY <2>3, <2>5 DEF LooperInv
<1>2. CASE TakeSet
  <2>1. commands' = [commands EXCEPT !.set = FALSE]
    BY <1>2 DEF TakeSet
  <2>2. commands' \in [hits : SUBSET Loops, set : BOOLEAN]
    BY <2>1 DEF LooperInv
  <2>3. CASE looper[Eighth] = WantedEighth
    BY <1>2, <2>2, <2>3 DEF TakeSet, LooperInv
  <2>4. CASE looper[Eighth] # WantedEighth
    <3>1. /\ looper' = [looper EXCEPT ![Eighth] = WantedEighth]
          /\ missed' = IF Accepts THEN missed \ {Eighth} ELSE missed \union {Eighth}
          /\ changes' = changes
      BY <1>2, <2>4 DEF TakeSet
    <3>2. Eighth \in Keys /\ WantedEighth \in Codes \union Eighths
      BY LoopControlAssumption DEF Keys
    <3>3. looper' \in [Keys -> Codes \union Eighths] /\ missed' \subseteq Keys
      BY <3>1, <3>2 DEF LooperInv
    <3> QED BY <2>2, <3>1, <3>3 DEF LooperInv
  <2> QED BY <2>3, <2>4
<1>3. CASE OtherSet
  <2>1. PICK v \in Eighths : Change(Eighth, v)
    BY <1>3 DEF OtherSet
  <2>2. Eighth \in Keys /\ v \in Codes \union Eighths
    BY DEF Keys
  <2>3. /\ looper' \in [Keys -> Codes \union Eighths]
        /\ changes' \in 0 .. MaxChanges /\ missed' \subseteq Keys
    BY <2>1, <2>2, ChangeTyped
  <2>4. commands' = commands
    BY <1>3 DEF OtherSet
  <2> QED BY <2>3, <2>4 DEF LooperInv
<1>4. CASE LoseCommands
  <2>1. commands' = NoCommands /\ UNCHANGED <<looper, changes, missed>>
    BY <1>4 DEF LoseCommands
  <2>2. NoCommands \in [hits : SUBSET Loops, set : BOOLEAN]
    BY DEF NoCommands
  <2> QED BY <2>1, <2>2 DEF LooperInv
<1> QED BY <1>1, <1>2, <1>3, <1>4 DEF Looper

\* What a cycle takes from the queue, and what of it is lost.
LEMMA GivenTyped ==
  ASSUME ReceiverTypeOK, NEW out, NEW in
  PROVE  Given(out) \in Seq(Reports) /\ LostInCycle(out, in) \subseteq Keys
<1>1. Given(out) \in Seq(Reports)
  BY EmptySeq DEF Given, Popped, ReceiverTypeOK
<1> DEFINE packets == Given(out)
<1> DEFINE taken == IF in THEN Taken(packets) ELSE 0
<1>2. packets \in Seq(Reports) /\ Len(packets) \in Nat
  BY <1>1, LenProperties
<1>3. LostInCycle(out, in) \subseteq Reported(SubSeq(packets, taken + 1, Len(packets)))
  BY DEF LostInCycle, Taken
<1> HIDE DEF packets
<1>4. taken \in 0 .. Len(packets)
  BY <1>2, TakenIsFirst
<1> HIDE DEF taken
<1>5. SubSeq(packets, taken + 1, Len(packets)) \in Seq(Reports)
  <2>1. \A i \in taken + 1 .. Len(packets) : packets[i] \in Reports
    BY <1>2, <1>4, ElementOfSeq
  <2> QED BY <1>2, <1>4, <2>1, SubSeqProperties
<1>6. Reported(SubSeq(packets, taken + 1, Len(packets))) \subseteq Keys
  BY <1>5, ReportedAreKeys
<1> QED BY <1>1, <1>3, <1>6

LEMMA CycleTyped ==
  ASSUME ReceiverTypeOK, Knowledge(Known), LooperInv, LightsInv,
         NEW buffers, NEW pressed \in SUBSET Loops, NEW mixer,
         GraphCycle(buffers, pressed, mixer)
  PROVE  Knowledge(Known)' /\ LooperInv' /\ LightsInv'
<1> DEFINE out == "receiver" \in buffers
<1> DEFINE in == "osc in" \in buffers
<1>1. /\ states' = Heard(out, in).states /\ known_eighth_per_cycle' = Heard(out, in).eighth
      /\ missed' = missed \union LostInCycle(out, in)
      /\ UNCHANGED <<looper, changes>>
  BY DEF GraphCycle
<1> HIDE DEF out, in
<1>2. Knowledge(Heard(out, in))
  <2>1. (IF in THEN Given(out) ELSE << >>) \in Seq(Reports)
    BY GivenTyped, EmptySeq
  <2> QED BY <2>1, HeardTyped DEF Heard
<1>3. Knowledge(Known)'
  BY <1>1, <1>2 DEF Knowledge, Known
<1>4. commands' \in [hits : SUBSET Loops, set : BOOLEAN]
  <2>0. commands.hits \subseteq Loops /\ commands.set \in BOOLEAN
    BY DEF LooperInv
  <2>1. \/ commands' = commands
        \/ commands' =
             [hits |-> commands.hits \union Commands(pressed, known_eighth_per_cycle').hits,
              set |-> commands.set \/ Commands(pressed, known_eighth_per_cycle').set]
    BY DEF GraphCycle
  <2>2. commands.hits \union Commands(pressed, known_eighth_per_cycle').hits \in SUBSET Loops
    BY <2>0 DEF Commands
  <2>3. (commands.set \/ Commands(pressed, known_eighth_per_cycle').set) \in BOOLEAN
    OBVIOUS
  <2>4. commands \in [hits : SUBSET Loops, set : BOOLEAN]
    BY DEF LooperInv
  <2>5. \A h \in SUBSET Loops, b \in BOOLEAN :
          [hits |-> h, set |-> b] \in [hits : SUBSET Loops, set : BOOLEAN]
    OBVIOUS
  <2> QED BY <2>1, <2>2, <2>3, <2>4, <2>5
<1>5. LooperInv'
  BY <1>1, <1>4, GivenTyped DEF LooperInv
<1>6. lights' \in [Loops -> Range(Colour) \union {Dark}]
  <2>1. \/ lights' = [l \in Loops |->
                 IF l \in DOMAIN LoopLights(states') THEN LoopLights(states')[l] ELSE lights[l]]
        \/ lights' = lights
    BY DEF GraphCycle
  <2>2. ASSUME NEW l \in Loops, l \in DOMAIN LoopLights(states')
        PROVE  LoopLights(states')[l] \in Range(Colour)
    <3>1. states'[l] \in DOMAIN Colour /\ LoopLights(states')[l] = Colour[states'[l]]
      BY <2>2 DEF LoopLights
    <3> QED BY <3>1 DEF Range
  <2> QED BY <2>1, <2>2 DEF LightsInv
<1>7. shown' \in BOOLEAN
  <2>1. shown' = TRUE \/ shown' = (shown /\ UNCHANGED states)
    BY DEF GraphCycle
  <2> QED BY <2>1 DEF LightsInv
<1> QED BY <1>3, <1>5, <1>6, <1>7 DEF LightsInv

LEMMA CrashTyped ==
  ASSUME LooperInv, LightsInv, CrashSlpCtrl
  PROVE  Knowledge(Known)' /\ LooperInv' /\ LightsInv'
<1>1. /\ states' = [l \in Loops |-> "Off"] /\ known_eighth_per_cycle' = WantedEighth
      /\ shown' = FALSE
      /\ missed' = missed \union (Keys \ (Reported(queue) \union Reported(socket)))
      /\ UNCHANGED <<looper, commands, changes, lights>>
  BY DEF CrashSlpCtrl, looper_vars
<1>2. "Off" \in States
  <2>1. translate_state(0) = "Off"
    BY DEF translate_state, StateNames
  <2> QED BY <2>1, TranslatedTyped
<1>3. Knowledge(Known)'
  BY <1>1, <1>2, LoopControlAssumption DEF Knowledge, Known
<1>4. LooperInv' /\ LightsInv'
  BY <1>1 DEF LooperInv, LightsInv
<1> QED BY <1>3, <1>4

LEMMA LostTyped ==
  ASSUME ReceiverTypeOK, LooperInv, LightsInv, Receiver
  PROVE  LooperInv' /\ LightsInv'
<1>1. /\ socket \in Seq(Reports) /\ queue \in Seq(Reports)
      /\ Reported(socket) \subseteq Keys /\ Reported(queue) \subseteq Keys
  BY ReportedAreKeys DEF ReceiverTypeOK
<1>2. UNCHANGED <<looper, commands, changes, lights, shown>>
  BY DEF Receiver, ReceiverRuns, ReceiveReport, ReceiverQuits, looper_vars, pads
<1>3. ReceiveReport => missed' \subseteq Keys
  <2> SUFFICES ASSUME ReceiveReport  PROVE missed' \subseteq Keys
    OBVIOUS
  <2>1. socket # << >> /\ missed' \subseteq missed \union {Head(socket)[1]}
    BY DEF ReceiveReport, Receive
  <2>2. Head(socket) \in Reports
    BY <1>1, <2>1, OneLess
  <2>3. Head(socket)[1] \in Keys
    BY <2>2, LoopControlAssumption DEF Keys
  <2> QED BY <2>1, <2>3 DEF LooperInv
<1>4. ~ReceiveReport => missed' \subseteq missed \union Reported(socket) \union Reported(queue)
  BY DEF Receiver, ReceiverRuns, ReceiverQuits
<1>5. missed' \subseteq Keys
  BY <1>1, <1>3, <1>4 DEF LooperInv
<1> QED BY <1>2, <1>5 DEF LooperInv, LightsInv

LEMMA OwnTyped ==
  ASSUME ReceiverTypeOK, Knowledge(Known), LooperInv, LightsInv, [Next]_vars
  PROVE  Knowledge(Known)' /\ LooperInv' /\ LightsInv'
<1>0. ASSUME UNCHANGED slp  PROVE Knowledge(Known)'
  BY <1>0 DEF slp, Known, Knowledge
<1>1. CASE Looper
  <2>1. UNCHANGED slp /\ UNCHANGED pads
    BY <1>1 DEF Looper, TakeHit, TakeSet, OtherSet, LoseCommands
  <2>2. LightsInv'
    BY <2>1 DEF pads, LightsInv
  <2> QED BY <1>0, <1>1, <2>1, <2>2, LooperTyped
<1>2. CASE SomeCycle
  <2>1. PICK buffers \in SUBSET AllBuffers, pressed \in SUBSET Loops, mixer \in BOOLEAN :
          GraphCycle(buffers, pressed, mixer)
    BY <1>2 DEF SomeCycle
  <2> QED BY <2>1, CycleTyped
<1>3. CASE CrashSlpCtrl
  BY <1>3, CrashTyped
<1>4. CASE Receiver
  <2>1. UNCHANGED slp
    BY <1>4 DEF Receiver, ReceiverRuns, ReceiveReport, ReceiverQuits
  <2> QED BY <1>0, <1>4, <2>1, LostTyped
<1>5. CASE Launchpad
  <2>1. UNCHANGED <<slp, looper, commands, changes, missed>>
    BY <1>5 DEF Launchpad, InitializerCycle, OthersInInitializerCycle, OthersWhileWaiting,
                UnplugDevice, PlugDevice, looper_vars
  <2>2. /\ \/ lights' = lights
           \/ lights' = [l \in Loops |-> Dark]
           \/ lights' = [l \in Loops |-> IF FirstPadOff /\ l = 0 THEN Dark ELSE lights[l]]
        /\ \/ shown' = shown
           \/ shown' = FALSE
           \/ shown' = (shown /\ mode' = mode /\ ~FirstPadOff)
    BY <1>5 DEF Launchpad, InitializerCycle, OthersInInitializerCycle, OthersWhileWaiting,
                UnplugDevice, PlugDevice, pads
  <2>3. LightsInv'
    BY <2>2 DEF LightsInv
  <2> QED BY <1>0, <2>1, <2>3 DEF LooperInv
<1>6. CASE UNCHANGED vars
  <2>1. UNCHANGED slp /\ UNCHANGED <<looper, commands, changes, missed, lights, shown>>
    BY <1>6 DEF vars, looper_vars, pads
  <2> QED BY <1>0, <2>1 DEF LooperInv, LightsInv
<1> QED BY <1>1, <1>2, <1>3, <1>4, <1>5, <1>6 DEF Next

LEMMA InitTyped ==
  ASSUME Init
  PROVE  ReceiverTypeOK /\ LpInv /\ FadersInv /\ Knowledge(Known) /\ LooperInv /\ LightsInv
<1>1. ReceiverTypeOK
  <2>1. socket = << >> /\ queue = << >> /\ thread = "test" /\ main = "run" /\ is_running = TRUE
    BY DEF Init, ReceiverInit
  <2>2. << >> \in Seq(Reports) /\ Len(<< >>) = 0 /\ 0 <= SocketCapacity /\ 0 <= ReceiverCapacity
    BY EmptySeq, ReceiverAssumption
  <2> QED BY <2>1, <2>2 DEF ReceiverTypeOK
<1>2. LpInv
  <2>1. /\ task = "HandShake" /\ expected = Words /\ sent = "never"
        /\ connected \in BOOLEAN /\ mode = "standalone" /\ firmware \in {"expected", "other"}
        /\ asked = FALSE /\ answers = << >> /\ replugged = FALSE
    BY DEF Init, LpInit
  <2>2. Words # << >>
    <3>1. Len(<< >>) = 0 /\ Len(Words) > 0
      BY WordsAssumption, EmptySeq
    <3> QED BY <3>1
  <2>3. Remaining(Words)
    <3>1. Words = SubSeq(Words, 1, Len(Words)) /\ Len(Words) \in Nat
      BY WordsAssumption, SubSeqFull, LenProperties
    <3>2. 1 \in 1 .. Len(Words) + 1
      BY <3>1
    <3> QED BY <3>1, <3>2 DEF Remaining
  <2>4. << >> \in Seq(Sent) /\ Len(<< >>) = 0 /\ 0 <= MaxAnswers
    BY EmptySeq, WordsAssumption
  <2> QED BY <2>1, <2>2, <2>3, <2>4 DEF LpInv
<1>3. FadersInv
  BY DEF Init, LpInit, FadersInv
<1>4. Knowledge(Known)
  <2>1. translate_state(0) = "Off"
    BY DEF translate_state, StateNames
  <2>2. "Off" \in States
    BY <2>1, TranslatedTyped
  <2> QED BY <2>2, LoopControlAssumption DEF Init, SlpInit, Knowledge, Known
<1>5. LooperInv
  <2>1. /\ looper = [k \in Keys |-> IF k = Eighth THEN WantedEighth ELSE 0]
        /\ commands = [hits |-> {}, set |-> FALSE] /\ changes = 0 /\ missed = {}
    BY DEF Init, NoCommands
  <2>2. looper \in [Keys -> Codes \union Eighths]
    BY <2>1, LoopControlAssumption
  <2>3. commands \in [hits : SUBSET Loops, set : BOOLEAN]
    BY <2>1
  <2>4. 0 \in 0 .. MaxChanges
    BY LoopControlAssumption
  <2> QED BY <2>1, <2>2, <2>3, <2>4 DEF LooperInv
<1>6. LightsInv
  BY DEF Init, LightsInv
<1> QED BY <1>1, <1>2, <1>3, <1>4, <1>5, <1>6

(***************************************************************************)
(* TypeOK, for any looper, answer and number of packets: the queues stay   *)
(* within their bounds, the socket is empty once its thread has ended, the *)
(* words still expected are the last ones of the answer, and a device in   *)
(* the mixer's layout was given the layout of the faders.                  *)
(***************************************************************************)
THEOREM LoopControlTyped == Spec => []TypeOK
<1> DEFINE Typed ==
      /\ ReceiverTypeOK /\ LpInv /\ FadersInv /\ Knowledge(Known) /\ LooperInv /\ LightsInv
<1>1. Init => Typed
  BY InitTyped
<1>2. Typed /\ [Next]_vars => Typed'
  BY ReceiverTyped, LpTyped, OwnTyped
<1>3. Typed => TypeOK
  <2>1. Knowledge(Known) => SlpTypeOK /\ known_eighth_per_cycle \in Eighths
    BY DEF Knowledge, Known, SlpTypeOK, States
  <2> QED BY <2>1, LpInvIsItsType DEF TypeOK, FadersInv, LooperInv, LightsInv
<1> QED BY <1>1, <1>2, <1>3, PTL DEF Spec

-----------------------------------------------------------------------------
(* The faders *)

JoinPair(s, t) == s \o t

Flattens(f, seqs, n) ==
  f = [i \in 1 .. n |-> IF i = 1 THEN seqs[i] ELSE JoinPair(f[i - 1], seqs[i])]

\* The recursion of FlattenSeq has a solution.
LEMMA FlatteningExists ==
  ASSUME NEW seqs, NEW n \in Nat
  PROVE  \E f : Flattens(f, seqs, n)
<1> DEFINE S == {m \in Nat : \E f : Flattens(f, seqs, m)}
<1>1. 0 \in S
  <2>1. Flattens([i \in 1 .. 0 |-> seqs[i]], seqs, 0)
    BY DEF Flattens
  <2> QED BY <2>1
<1>2. ASSUME NEW m \in Nat, m \in S  PROVE m + 1 \in S
  <2>1. PICK f : Flattens(f, seqs, m)
    BY <1>2
  <2> DEFINE g == [i \in 1 .. m + 1 |->
                     IF i = m + 1 THEN IF i = 1 THEN seqs[i] ELSE JoinPair(f[m], seqs[i]) ELSE f[i]]
  <2>2. ASSUME NEW i \in 1 .. m + 1
        PROVE  g[i] = IF i = 1 THEN seqs[i] ELSE JoinPair(g[i - 1], seqs[i])
    <3>1. CASE i = m + 1
      <4>1. i # 1 => i - 1 \in 1 .. m + 1 /\ i - 1 # m + 1 /\ i - 1 = m
        BY <3>1
      <4>2. i # 1 => g[i - 1] = f[m]
        BY <4>1
      <4> QED BY <3>1, <4>2
    <3>2. CASE i # m + 1
      <4>1. i \in 1 .. m /\ g[i] = f[i]
        BY <3>2
      <4>2. i # 1 => i - 1 \in 1 .. m + 1 /\ i - 1 # m + 1
        BY <4>1
      <4>3. i # 1 => g[i - 1] = f[i - 1]
        BY <4>2
      <4>4. f[i] = IF i = 1 THEN seqs[i] ELSE JoinPair(f[i - 1], seqs[i])
        BY <2>1, <4>1 DEF Flattens
      <4> QED BY <4>1, <4>3, <4>4
    <3> QED BY <3>1, <3>2
  <2>3. g = [i \in 1 .. m + 1 |-> g[i]]
    OBVIOUS
  <2> HIDE DEF g
  <2>4. g = [i \in 1 .. m + 1 |-> IF i = 1 THEN seqs[i] ELSE JoinPair(g[i - 1], seqs[i])]
    BY <2>2, <2>3
  <2>5. Flattens(g, seqs, m + 1)
    BY <2>4 DEF Flattens
  <2> QED BY <2>5
<1>3. Nat \subseteq S
  <2> HIDE DEF S
  <2> QED BY <1>1, <1>2, SetInduction
<1> QED BY <1>3

LEMMA Flattening ==
  ASSUME NEW seqs, Len(seqs) \in Nat \ {0}
  PROVE  \E f : Flattens(f, seqs, Len(seqs)) /\ FlattenSeq(seqs) = f[Len(seqs)]
<1>1. \E f : Flattens(f, seqs, Len(seqs))
  BY FlatteningExists
<1> DEFINE F == CHOOSE f :
      f = [i \in 1 .. Len(seqs) |-> IF i = 1 THEN seqs[i] ELSE f[i - 1] \o seqs[i]]
<1>2. \E f : f = [i \in 1 .. Len(seqs) |-> IF i = 1 THEN seqs[i] ELSE f[i - 1] \o seqs[i]]
  BY ONLY <1>1 DEF Flattens, JoinPair
<1>3. F = [i \in 1 .. Len(seqs) |-> IF i = 1 THEN seqs[i] ELSE F[i - 1] \o seqs[i]]
  BY <1>2
<1>4. FlattenSeq(seqs) = F[Len(seqs)]
  BY DEF FlattenSeq
<1> HIDE DEF F
<1> QED BY <1>3, <1>4 DEF Flattens, JoinPair

\* A device reads of a message the bytes it was made of.
LEMMA BytesOfMessage ==
  ASSUME NEW type, NEW bytes \in Seq(Int), Len(bytes) \in 1 .. 6
  PROVE  SubSeq(create_8_byte_message(type, bytes).data, 1,
                create_8_byte_message(type, bytes).size) = bytes
<1> DEFINE data == [i \in 1 .. 6 |-> IF i <= Len(bytes) THEN bytes[i] ELSE 0]
<1>1. /\ create_8_byte_message(type, bytes).data = data
      /\ create_8_byte_message(type, bytes).size = Len(bytes)
  BY DEF create_8_byte_message
<1>2. \A i \in 1 .. Len(bytes) : data[i] = bytes[i] /\ bytes[i] \in Int
  <2>0. \A n \in 1 .. 6 : \A i \in 1 .. n : i \in 1 .. 6 /\ i <= n
    OBVIOUS
  <2>1. \A i \in 1 .. Len(bytes) : i \in 1 .. 6 /\ i <= Len(bytes)
    BY <2>0
  <2>2. \A i \in 1 .. Len(bytes) : bytes[i] \in Int
    BY ElementOfSeq
  <2> QED BY <2>1, <2>2
<1> HIDE DEF data
<1>3. /\ SubSeq(data, 1, Len(bytes)) \in Seq(Int)
      /\ Len(SubSeq(data, 1, Len(bytes))) = Len(bytes)
      /\ \A i \in 1 .. Len(bytes) : SubSeq(data, 1, Len(bytes))[i] = data[1 + i - 1]
  <2>1. \A i \in 1 .. Len(bytes) : data[i] \in Int
    BY <1>2
  <2>2. /\ SubSeq(data, 1, Len(bytes)) \in Seq(Int)
        /\ Len(SubSeq(data, 1, Len(bytes))) =
             IF 1 <= Len(bytes) THEN Len(bytes) - 1 + 1 ELSE 0
        /\ \A i \in 1 .. Len(bytes) - 1 + 1 :
             SubSeq(data, 1, Len(bytes))[i] = data[1 + i - 1]
    BY <2>1, SubSeqProperties
  <2>3. Len(bytes) - 1 + 1 = Len(bytes) /\ 1 <= Len(bytes)
    OBVIOUS
  <2> QED BY <2>2, <2>3
<1>4. \A i \in 1 .. Len(bytes) : SubSeq(data, 1, Len(bytes))[i] = bytes[i]
  <2>1. \A i \in 1 .. Len(bytes) : 1 + i - 1 = i
    OBVIOUS
  <2> QED BY <1>2, <1>3, <2>1
<1>5. SubSeq(data, 1, Len(bytes)) = bytes
  BY <1>3, <1>4, SeqEqual
<1> QED BY <1>1, <1>5

\* What the seven messages of the layout carry.
FaderBytes ==
  << <<0, 32, 41, 2, 13, 1>>, <<0, 1, 0, 1, 1, 42>>, <<1, 1, 2, 42, 2>>, <<1, 3, 42, 3, 1, 4>>,
     <<42, 4, 1, 5, 49, 5>>, <<1, 9, 49, 6, 1, 7>>, <<49, 7, 1, 8, 49>> >>

LEMMA FaderBytesTyped ==
  \A i \in 1 .. 7 : FaderBytes[i] \in Seq(Int) /\ Len(FaderBytes[i]) \in {5, 6}
<1>1. FaderBytes[1] \in Seq(Int) /\ Len(FaderBytes[1]) = 6
  BY DEF FaderBytes
<1>2. FaderBytes[2] \in Seq(Int) /\ Len(FaderBytes[2]) = 6
  BY DEF FaderBytes
<1>3. FaderBytes[3] \in Seq(Int) /\ Len(FaderBytes[3]) = 5
  BY DEF FaderBytes
<1>4. FaderBytes[4] \in Seq(Int) /\ Len(FaderBytes[4]) = 6
  BY DEF FaderBytes
<1>5. FaderBytes[5] \in Seq(Int) /\ Len(FaderBytes[5]) = 6
  BY DEF FaderBytes
<1>6. FaderBytes[6] \in Seq(Int) /\ Len(FaderBytes[6]) = 6
  BY DEF FaderBytes
<1>7. FaderBytes[7] \in Seq(Int) /\ Len(FaderBytes[7]) = 5
  BY DEF FaderBytes
<1>8. \A i \in 1 .. 7 : i \in {1, 2, 3, 4, 5, 6, 7}
  OBVIOUS
<1> QED BY <1>1, <1>2, <1>3, <1>4, <1>5, <1>6, <1>7, <1>8

LEMMA FaderMessages ==
  [i \in DOMAIN FaderSetup |-> SubSeq(FaderSetup[i].data, 1, FaderSetup[i].size)] = FaderBytes
<1>1. DOMAIN FaderSetup = 1 .. 7 /\ DOMAIN FaderBytes = 1 .. 7
  BY DEF FaderSetup, FaderBytes
<1>2. FaderBytes = [i \in 1 .. 7 |-> FaderBytes[i]]
  BY DEF FaderBytes
<1>3. \A i \in 1 .. 7 : FaderBytes[i] \in Seq(Int) /\ Len(FaderBytes[i]) \in 1 .. 6
  BY FaderBytesTyped
<1>4. \A i \in 1 .. 7 : \E type : FaderSetup[i] = create_8_byte_message(type, FaderBytes[i])
  BY DEF FaderSetup, FaderBytes
<1>5. \A i \in 1 .. 7 : SubSeq(FaderSetup[i].data, 1, FaderSetup[i].size) = FaderBytes[i]
  BY <1>3, <1>4, BytesOfMessage
<1> QED BY <1>1, <1>2, <1>5

\* Bytes that are joined keep their places, or move by the length of those before them.
At(s, i, v) == i \in 1 .. Len(s) /\ s[i] = v

LEMMA JoinedLength ==
  ASSUME NEW s \in Seq(Int), NEW t \in Seq(Int)
  PROVE  JoinPair(s, t) \in Seq(Int) /\ Len(JoinPair(s, t)) = Len(s) + Len(t)
BY ConcatProperties DEF JoinPair

LEMMA KeptAt ==
  ASSUME NEW s \in Seq(Int), NEW t \in Seq(Int), NEW i, NEW v, At(s, i, v)
  PROVE  At(JoinPair(s, t), i, v)
<1>1. Len(s) \in Nat /\ Len(t) \in Nat /\ i \in 1 .. Len(s) /\ s[i] = v
  BY LenProperties DEF At
<1>2. i \in 1 .. Len(s) + Len(t) /\ i <= Len(s)
  BY <1>1
<1>3. Len(JoinPair(s, t)) = Len(s) + Len(t) /\ JoinPair(s, t)[i] = s[i]
  BY <1>2, ConcatProperties DEF JoinPair
<1> QED BY <1>1, <1>2, <1>3 DEF At

LEMMA MovedTo ==
  ASSUME NEW s \in Seq(Int), NEW t \in Seq(Int), NEW i, NEW v, At(t, i, v), NEW j,
         j = Len(s) + i
  PROVE  At(JoinPair(s, t), j, v)
<1>1. Len(s) \in Nat /\ Len(t) \in Nat /\ i \in 1 .. Len(t) /\ t[i] = v
  BY LenProperties DEF At
<1>2. j \in 1 .. Len(s) + Len(t) /\ ~(j <= Len(s)) /\ j - Len(s) = i
  BY <1>1
<1>3. Len(JoinPair(s, t)) = Len(s) + Len(t) /\ JoinPair(s, t)[j] = t[j - Len(s)]
  BY <1>2, ConcatProperties DEF JoinPair
<1> QED BY <1>1, <1>2, <1>3 DEF At

LEMMA FlatteningStep ==
  ASSUME NEW seqs, NEW n \in Nat, NEW f, Flattens(f, seqs, n)
  PROVE  \A i \in 2 .. n : \A k \in 1 .. n : i = k + 1 => f[i] = JoinPair(f[k], seqs[i])
<1> TAKE i \in 2 .. n
<1> TAKE k \in 1 .. n
<1> HAVE i = k + 1
<1>1. i \in 1 .. n /\ i # 1 /\ i - 1 = k
  OBVIOUS
<1>2. f[i] = IF i = 1 THEN seqs[i] ELSE JoinPair(f[i - 1], seqs[i])
  BY <1>1 DEF Flattens
<1> QED BY <1>1, <1>2

\* The control of each fader among the forty bytes.
LEMMA FaderControls ==
  ASSUME NEW bytes, bytes = Joined(FaderSetup)
  PROVE  /\ bytes[11] = 1 /\ bytes[15] = 2 /\ bytes[19] = 3 /\ bytes[23] = 4
         /\ bytes[27] = 5 /\ bytes[31] = 9 /\ bytes[35] = 7 /\ bytes[39] = 8
<1> DEFINE b == FaderBytes
<1>1. Len(b) = 7
  BY DEF FaderBytes
<1>2. bytes = FlattenSeq(b)
  BY FaderMessages DEF Joined
<1>3. \A i \in 1 .. 7 : b[i] \in Seq(Int)
  BY FaderBytesTyped
<1>4. /\ Len(b[1]) = 6 /\ Len(b[2]) = 6 /\ Len(b[3]) = 5 /\ Len(b[4]) = 6
      /\ Len(b[5]) = 6 /\ Len(b[6]) = 6 /\ Len(b[7]) = 5
  BY DEF FaderBytes
<1>5. /\ At(b[2], 5, 1) /\ At(b[3], 3, 2) /\ At(b[4], 2, 3) /\ At(b[4], 6, 4)
      /\ At(b[5], 4, 5) /\ At(b[6], 2, 9) /\ At(b[6], 6, 7) /\ At(b[7], 4, 8)
  BY DEF FaderBytes, At
<1> HIDE DEF b
<1>6. \E f : Flattens(f, b, Len(b)) /\ FlattenSeq(b) = f[Len(b)]
  <2>1. Len(b) \in Nat \ {0}
    BY <1>1
  <2> QED BY <2>1, Flattening
<1>7. PICK f : Flattens(f, b, 7) /\ bytes = f[7]
  BY <1>1, <1>2, <1>6
<1>8. /\ f[1] = b[1] /\ f[2] = JoinPair(f[1], b[2]) /\ f[3] = JoinPair(f[2], b[3])
      /\ f[4] = JoinPair(f[3], b[4]) /\ f[5] = JoinPair(f[4], b[5]) /\ f[6] = JoinPair(f[5], b[6])
      /\ f[7] = JoinPair(f[6], b[7])
  <2>1. f[1] = b[1]
    BY <1>7 DEF Flattens
  <2>2. \A i \in 2 .. 7 : \A k \in 1 .. 7 : i = k + 1 => f[i] = JoinPair(f[k], b[i])
    BY <1>7, FlatteningStep
  <2> QED BY <2>1, <2>2
<1>9. /\ b[1] \in Seq(Int) /\ b[2] \in Seq(Int) /\ b[3] \in Seq(Int) /\ b[4] \in Seq(Int)
      /\ b[5] \in Seq(Int) /\ b[6] \in Seq(Int) /\ b[7] \in Seq(Int)
  BY <1>3
<1>10. f[1] \in Seq(Int) /\ Len(f[1]) = 6
  BY <1>4, <1>8, <1>9
<1>11. /\ f[2] \in Seq(Int) /\ Len(f[2]) = 12
       /\ At(f[2], 11, 1)
  <2>1. f[2] \in Seq(Int) /\ Len(f[2]) = 12
    <3>1. f[1] \in Seq(Int) /\ b[2] \in Seq(Int)
      BY <1>9, <1>10
    <3>2. /\ JoinPair(f[1], b[2]) \in Seq(Int)
          /\ Len(JoinPair(f[1], b[2])) = Len(f[1]) + Len(b[2])
      BY <3>1, JoinedLength
    <3>3. f[2] = JoinPair(f[1], b[2])
      BY <1>8
    <3>4. Len(f[1]) = 6 /\ Len(b[2]) = 6
      BY <1>4, <1>10
    <3> QED BY <3>2, <3>3, <3>4
  <2>2. At(f[2], 11, 1)
    BY <1>5, <1>8, <1>9, <1>10, 11 = 6 + 5, MovedTo
  <2> QED BY <2>1, <2>2
<1>12. /\ f[3] \in Seq(Int) /\ Len(f[3]) = 17
       /\ At(f[3], 11, 1) /\ At(f[3], 15, 2)
  <2>1. f[3] \in Seq(Int) /\ Len(f[3]) = 17
    <3>1. f[2] \in Seq(Int) /\ b[3] \in Seq(Int)
      BY <1>9, <1>11
    <3>2. /\ JoinPair(f[2], b[3]) \in Seq(Int)
          /\ Len(JoinPair(f[2], b[3])) = Len(f[2]) + Len(b[3])
      BY <3>1, JoinedLength
    <3>3. f[3] = JoinPair(f[2], b[3])
      BY <1>8
    <3>4. Len(f[2]) = 12 /\ Len(b[3]) = 5
      BY <1>4, <1>11
    <3> QED BY <3>2, <3>3, <3>4
  <2>2. At(f[3], 11, 1)
    BY <1>8, <1>9, <1>11, KeptAt
  <2>3. At(f[3], 15, 2)
    BY <1>5, <1>8, <1>9, <1>11, 15 = 12 + 3, MovedTo
  <2> QED BY <2>1, <2>2, <2>3
<1>13. /\ f[4] \in Seq(Int) /\ Len(f[4]) = 23
       /\ At(f[4], 11, 1) /\ At(f[4], 15, 2) /\ At(f[4], 19, 3) /\ At(f[4], 23, 4)
  <2>1. f[4] \in Seq(Int) /\ Len(f[4]) = 23
    <3>1. f[3] \in Seq(Int) /\ b[4] \in Seq(Int)
      BY <1>9, <1>12
    <3>2. /\ JoinPair(f[3], b[4]) \in Seq(Int)
          /\ Len(JoinPair(f[3], b[4])) = Len(f[3]) + Len(b[4])
      BY <3>1, JoinedLength
    <3>3. f[4] = JoinPair(f[3], b[4])
      BY <1>8
    <3>4. Len(f[3]) = 17 /\ Len(b[4]) = 6
      BY <1>4, <1>12
    <3> QED BY <3>2, <3>3, <3>4
  <2>2. At(f[4], 11, 1) /\ At(f[4], 15, 2)
    BY <1>8, <1>9, <1>12, KeptAt
  <2>3. At(f[4], 19, 3)
    BY <1>5, <1>8, <1>9, <1>12, 19 = 17 + 2, MovedTo
  <2>4. At(f[4], 23, 4)
    BY <1>5, <1>8, <1>9, <1>12, 23 = 17 + 6, MovedTo
  <2> QED BY <2>1, <2>2, <2>3, <2>4
<1>14. /\ f[5] \in Seq(Int) /\ Len(f[5]) = 29
       /\ At(f[5], 11, 1) /\ At(f[5], 15, 2) /\ At(f[5], 19, 3) /\ At(f[5], 23, 4)
       /\ At(f[5], 27, 5)
  <2>1. f[5] \in Seq(Int) /\ Len(f[5]) = 29
    <3>1. f[4] \in Seq(Int) /\ b[5] \in Seq(Int)
      BY <1>9, <1>13
    <3>2. /\ JoinPair(f[4], b[5]) \in Seq(Int)
          /\ Len(JoinPair(f[4], b[5])) = Len(f[4]) + Len(b[5])
      BY <3>1, JoinedLength
    <3>3. f[5] = JoinPair(f[4], b[5])
      BY <1>8
    <3>4. Len(f[4]) = 23 /\ Len(b[5]) = 6
      BY <1>4, <1>13
    <3> QED BY <3>2, <3>3, <3>4
  <2>2. At(f[5], 11, 1) /\ At(f[5], 15, 2) /\ At(f[5], 19, 3) /\ At(f[5], 23, 4)
    BY <1>8, <1>9, <1>13, KeptAt
  <2>3. At(f[5], 27, 5)
    BY <1>5, <1>8, <1>9, <1>13, 27 = 23 + 4, MovedTo
  <2> QED BY <2>1, <2>2, <2>3
<1>15. /\ f[6] \in Seq(Int) /\ Len(f[6]) = 35
       /\ At(f[6], 11, 1) /\ At(f[6], 15, 2) /\ At(f[6], 19, 3) /\ At(f[6], 23, 4)
       /\ At(f[6], 27, 5) /\ At(f[6], 31, 9) /\ At(f[6], 35, 7)
  <2>1. f[6] \in Seq(Int) /\ Len(f[6]) = 35
    <3>1. f[5] \in Seq(Int) /\ b[6] \in Seq(Int)
      BY <1>9, <1>14
    <3>2. /\ JoinPair(f[5], b[6]) \in Seq(Int)
          /\ Len(JoinPair(f[5], b[6])) = Len(f[5]) + Len(b[6])
      BY <3>1, JoinedLength
    <3>3. f[6] = JoinPair(f[5], b[6])
      BY <1>8
    <3>4. Len(f[5]) = 29 /\ Len(b[6]) = 6
      BY <1>4, <1>14
    <3> QED BY <3>2, <3>3, <3>4
  <2>2. At(f[6], 11, 1) /\ At(f[6], 15, 2) /\ At(f[6], 19, 3) /\ At(f[6], 23, 4)
    BY <1>8, <1>9, <1>14, KeptAt
  <2>3. At(f[6], 27, 5)
    BY <1>8, <1>9, <1>14, KeptAt
  <2>4. At(f[6], 31, 9)
    BY <1>5, <1>8, <1>9, <1>14, 31 = 29 + 2, MovedTo
  <2>5. At(f[6], 35, 7)
    BY <1>5, <1>8, <1>9, <1>14, 35 = 29 + 6, MovedTo
  <2> QED BY <2>1, <2>2, <2>3, <2>4, <2>5
<1>16. /\ f[7] \in Seq(Int) /\ Len(f[7]) = 40
       /\ At(f[7], 11, 1) /\ At(f[7], 15, 2) /\ At(f[7], 19, 3) /\ At(f[7], 23, 4)
       /\ At(f[7], 27, 5) /\ At(f[7], 31, 9) /\ At(f[7], 35, 7) /\ At(f[7], 39, 8)
  <2>1. f[7] \in Seq(Int) /\ Len(f[7]) = 40
    <3>1. f[6] \in Seq(Int) /\ b[7] \in Seq(Int)
      BY <1>9, <1>15
    <3>2. /\ JoinPair(f[6], b[7]) \in Seq(Int)
          /\ Len(JoinPair(f[6], b[7])) = Len(f[6]) + Len(b[7])
      BY <3>1, JoinedLength
    <3>3. f[7] = JoinPair(f[6], b[7])
      BY <1>8
    <3>4. Len(f[6]) = 35 /\ Len(b[7]) = 5
      BY <1>4, <1>15
    <3> QED BY <3>2, <3>3, <3>4
  <2>2. At(f[7], 11, 1) /\ At(f[7], 15, 2) /\ At(f[7], 19, 3) /\ At(f[7], 23, 4)
    BY <1>8, <1>9, <1>15, KeptAt
  <2>3. At(f[7], 27, 5) /\ At(f[7], 31, 9) /\ At(f[7], 35, 7)
    BY <1>8, <1>9, <1>15, KeptAt
  <2>4. At(f[7], 39, 8)
    BY <1>5, <1>8, <1>9, <1>15, 39 = 35 + 4, MovedTo
  <2> QED BY <2>1, <2>2, <2>3, <2>4
<1> QED BY <1>7, <1>16 DEF At

(***************************************************************************)
(* FadersAgree: each fader of the layout the device joins from its seven   *)
(* messages has the control under whose word slp_ctrl knows it, however    *)
(* often the device comes and goes.                                        *)
(***************************************************************************)
THEOREM FadersAreKnown == Spec => []FadersAgree
<1>1. TypeOK => FadersAgree
  <2> SUFFICES ASSUME TypeOK, mode = "mixer", NEW k \in 1 .. 8
               PROVE  FaderWord(k) = FaderWords[k]
    BY DEF FadersAgree
  <2>1. faders = FaderSetup
    BY DEF TypeOK
  <2> DEFINE bytes == Joined(FaderSetup)
  <2>2. FaderControl(k) = bytes[8 + 4 * (k - 1) + 3]
    BY <2>1 DEF FaderControl
  <2>3. /\ bytes[11] = 1 /\ bytes[15] = 2 /\ bytes[19] = 3 /\ bytes[23] = 4
        /\ bytes[27] = 5 /\ bytes[31] = 9 /\ bytes[35] = 7 /\ bytes[39] = 8
    BY FaderControls
  <2> HIDE DEF bytes
  <2>4. k \in {1, 2, 3, 4, 5, 6, 7, 8}
    OBVIOUS
  <2>5. FaderControl(k) = IF k = 6 THEN 9 ELSE k
    BY <2>2, <2>3, <2>4
  <2>6. FaderWord(k) = 1085538304 + 256 * (IF k = 6 THEN 9 ELSE k)
    BY <2>5 DEF FaderWord
  <2> QED BY <2>4, <2>6 DEF FaderWords
<1> QED BY <1>1, LoopControlTyped, PTL
=============================================================================
