--------------------------- MODULE PlaybackProofs ---------------------------
(***************************************************************************)
(* Proofs about Playback, for any recording, interfaces and toggles.       *)
(*                                                                         *)
(* None of the three properties is inductive.  NeverEarly and NoBurst are  *)
(* about the states in which a message is handed on; what makes them true  *)
(* is said of every state (Timing).  Replayed needs that nothing at or     *)
(* after the message in hand has been played while the loop runs (Past),   *)
(* and what the tests of the loop have established of it (Tested).         *)
(***************************************************************************)
EXTENDS Playback, TLAPS

Body == Labels \ {"top", "over"}

\* Inside the loop there is a message in hand, of a channel that is read, and
\* from the second filter on it is of an interface of the controller.
Tested ==
  /\ pc \in Body => k <= Len(Recording) /\ Message.kind # "other"
  /\ pc \in {"choose", "deliver"} => Message.interface \in Interfaces

\* While time is counted it is not ahead of the recording by more than what
\* has passed since the last pause, and a message that passes is due.
Timing ==
  /\ started /\ k <= Len(Recording) /\ pc # "over" /\ clock < MaxTicks =>
       clock + t0 <= Message.time + since
  /\ NeverEarly

Past ==
  /\ pc # "over" => \A n \in DOMAIN played : played[n] < k
  /\ Replayed

PlayInv == TypeOK /\ Tested /\ Timing /\ Past

\* What the assumption says of a message, and of two.
LEMMA MessageType ==
  ASSUME NEW j \in 1..Len(Recording)
  PROVE  /\ Recording[j].kind \in Kinds
         /\ Recording[j].time \in Nat
         /\ \A m \in 1..Len(Recording) : j <= m => Recording[j].time <= Recording[m].time
<1>1. j \in DOMAIN Recording /\ \A m \in 1..Len(Recording) : m \in DOMAIN Recording
  BY RecordingAssumption
<1>. QED  BY <1>1, RecordingAssumption

LEMMA RecordingLength == Len(Recording) \in Nat /\ DOMAIN Recording = 1..Len(Recording)
BY RecordingAssumption

\* The message in hand.
LEMMA InHand ==
  ASSUME TypeOK, k <= Len(Recording)
  PROVE  /\ k \in 1..Len(Recording) /\ k \in DOMAIN Recording
         /\ Message.kind \in Kinds /\ Message.time \in Nat
         /\ k + 1 \in 1..(Len(Recording) + 1)
         /\ k + 1 <= Len(Recording) =>
              Recording[k + 1].time \in Nat /\ Message.time <= Recording[k + 1].time
<1>1. k \in 1..Len(Recording) /\ k + 1 \in 1..(Len(Recording) + 1)
  BY RecordingLength DEF TypeOK
<1>2. k + 1 <= Len(Recording) => k + 1 \in 1..Len(Recording)
  BY <1>1, RecordingLength
<1>. QED  BY <1>1, <1>2, MessageType, RecordingLength DEF Message

-----------------------------------------------------------------------------
(* Steps of the loop that only move pc, and those that go on to the next    *)
(* message.                                                                 *)

\* A step that leaves the loop's variables, the time and the message alone
\* keeps PlayInv if its new label says no more than is true.
LEMMA Moving ==
  ASSUME PlayInv, UNCHANGED <<loop, clock, since>>,
         running' \in [Interfaces -> BOOLEAN], enabled' = enabled, stopped' \in BOOLEAN,
         pc' \in Labels,
         pc' # "over" => pc # "over",
         pc' \in Body => k <= Len(Recording) /\ Message.kind # "other",
         pc' \in {"choose", "deliver"} => Message.interface \in Interfaces,
         pc' \in {"filter", "choose", "deliver"} => TimeReached
  PROVE  PlayInv'
<1>1. TypeOK'
  BY DEF PlayInv, TypeOK, Message, loop
<1>2. Tested'
  BY DEF Tested, Message, loop
<1>3. Timing'
  BY DEF PlayInv, Timing, NeverEarly, Passing, TimeReached, Message, loop
<1>4. Past'
  BY DEF PlayInv, Past, Replayed, loop
<1>. QED  BY <1>1, <1>2, <1>3, <1>4 DEF PlayInv

\* Skipping the message in hand.
LEMMA Skipping ==
  ASSUME PlayInv, k <= Len(Recording), pc # "over", NextMessage,
         UNCHANGED <<controller, started, t0, played, clock, since>>
  PROVE  PlayInv'
<1>1. TypeOK'
  BY InHand DEF PlayInv, TypeOK, NextMessage, Message, controller, Labels
<1>2. Tested'
  BY DEF Tested, NextMessage, Body
<1>3. Timing'
  <2>1. started /\ k' <= Len(Recording) /\ clock < MaxTicks =>
          clock + t0 <= Recording[k + 1].time + since
    BY InHand, RecordingLength DEF PlayInv, Timing, TypeOK, NextMessage, Message
  <2>. QED  BY <2>1 DEF Timing, NeverEarly, Passing, NextMessage, Message
<1>4. Past'
  BY InHand DEF PlayInv, Past, Replayed, NextMessage, TypeOK
<1>. QED  BY <1>1, <1>2, <1>3, <1>4 DEF PlayInv

-----------------------------------------------------------------------------
(* Every step keeps the invariant.                                          *)

\* A new timing reference is the time of the message in hand.
LEMMA PaceStep ==
  ASSUME PlayInv, Pace
  PROVE  PlayInv'
<1>. USE DEF Pace, At, Goto, controller
<1>1. TypeOK'
  BY InHand, MaxTicksAssumption DEF PlayInv, TypeOK, Message, Labels
<1>2. Tested'
  BY DEF PlayInv, Tested, Message, Body, Labels
<1>3. Timing'
  BY InHand DEF PlayInv, Timing, TypeOK, NeverEarly, Passing, Message
<1>4. Past'
  BY DEF PlayInv, Past, Replayed
<1>. QED  BY <1>1, <1>2, <1>3, <1>4 DEF PlayInv

\* Resuming stops the count of time, unless the loop is left.
LEMMA ResumeStep ==
  ASSUME PlayInv, Resume
  PROVE  PlayInv'
<1>. USE DEF Resume, At, Goto, controller
<1>1. TypeOK'
  BY MaxTicksAssumption DEF PlayInv, TypeOK, Message, Labels
<1>2. Tested'
  BY DEF PlayInv, Tested, Message, Body, Labels
<1>3. Timing'
  BY DEF PlayInv, TypeOK, Timing, NeverEarly, Passing, Message
<1>4. Past'
  BY DEF PlayInv, Past, Replayed
<1>. QED  BY <1>1, <1>2, <1>3, <1>4 DEF PlayInv

\* What is handed on is after everything that was, and the loop goes on with the
\* next message or not at all.
LEMMA DeliverStep ==
  ASSUME PlayInv, Deliver
  PROVE  PlayInv'
<1>1. k <= Len(Recording) /\ pc = "deliver"
  BY DEF Deliver, At
<1>2. CASE played' = played /\ NextMessage
  BY <1>1, <1>2, Skipping DEF Deliver, loop
<1>3. CASE /\ played' = Append(played, k)
           /\ NextMessage \/ (Goto("over") /\ UNCHANGED k)
  <2>1. k \in DOMAIN Recording /\ k' \in {k, k + 1} /\ (pc' # "over" => k' = k + 1)
    BY <1>1, <1>3, InHand DEF PlayInv, NextMessage, Goto
  <2>2. played \in Seq(DOMAIN Recording)
    BY DEF PlayInv, TypeOK
  <2>3. /\ played' \in Seq(DOMAIN Recording)
        /\ DOMAIN played' = 1..(Len(played) + 1) /\ Len(played) \in Nat
        /\ \A n \in DOMAIN played' :
             \/ n \in DOMAIN played /\ played'[n] = played[n]
             \/ n = Len(played) + 1 /\ played'[n] = k
    BY <1>3, <2>1, <2>2
  <2>4. TypeOK'
    BY <1>1, <1>3, <2>3, InHand
    DEF PlayInv, TypeOK, Deliver, NextMessage, Goto, Message, controller, Labels
  <2>5. Tested' /\ Timing'
    <3>1. k' <= Len(Recording) => k' = k \/ Message.time <= Recording[k + 1].time
      BY <1>1, <2>1, InHand DEF PlayInv
    <3>2. Tested'
      BY <1>1, <1>3 DEF PlayInv, Tested, Deliver, NextMessage, Goto, Body
    <3>3. Timing'
      BY <1>1, <1>3, <2>1, <3>1, InHand, RecordingLength
      DEF PlayInv, TypeOK, Timing, NeverEarly, Passing, Message, Deliver, NextMessage, Goto
    <3>. QED  BY <3>2, <3>3
  <2>6. \A n \in DOMAIN played : played[n] < k /\ played[n] \in Nat
    BY <1>1, <2>2, RecordingLength DEF PlayInv, Past
  <2>7. \A m, n \in DOMAIN played' : m < n => played'[m] < played'[n]
    BY <2>2, <2>3, <2>6 DEF PlayInv, Past, Replayed
  <2>8. Recording[k].kind # "other" /\ Recording[k].interface \in Interfaces
    BY <1>1 DEF PlayInv, Tested, Message, Body, Labels
  <2>9. k \in Nat
    BY DEF PlayInv, TypeOK
  <2>10. Past'
    <3>1. pc' # "over" => \A n \in DOMAIN played' : played'[n] < k'
      BY <2>1, <2>3, <2>6, <2>9
    <3>2. \A n \in DOMAIN played' :
            /\ Recording[played'[n]].kind # "other"
            /\ Recording[played'[n]].interface \in Interfaces
      <4>1. \A n \in DOMAIN played :
              /\ Recording[played[n]].kind # "other"
              /\ Recording[played[n]].interface \in Interfaces
        BY DEF PlayInv, Past, Replayed
      <4>. QED  BY <2>3, <2>8, <4>1
    <3>3. \A n \in DOMAIN played' : played'[n] <= k'
      BY <2>1, <2>3, <2>6, <2>9
    <3>4. Replayed'
      BY <2>7, <3>2, <3>3 DEF Replayed
    <3>. QED  BY <3>1, <3>4 DEF Past
  <2>. QED  BY <2>4, <2>5, <2>10 DEF PlayInv
<1>. QED  BY <1>2, <1>3 DEF Deliver

\* Time passes: both counts grow, and the second is never short of the first
\* because time starts at the message in hand or at one before it.
LEMMA TickStep ==
  ASSUME PlayInv, Tick
  PROVE  PlayInv'
<1>1. /\ clock' \in 0..MaxTicks /\ since' \in 0..MaxTicks /\ clock <= clock'
      /\ clock' < MaxTicks => clock' = clock + 1 /\ (since' = since + 1 \/ since' = MaxTicks)
  <2>1. MaxTicks \in Nat /\ clock \in 0..MaxTicks /\ since \in 0..MaxTicks
    BY MaxTicksAssumption DEF PlayInv, TypeOK
  <2>. QED  BY <2>1 DEF Tick, Capped
<1>2. TypeOK' /\ Tested' /\ Past'
  BY <1>1 DEF Tick, controller, loop, PlayInv, TypeOK, Tested, Past, Replayed, Message
<1>3. Timing'
  <2>1. k <= Len(Recording) => Message.time \in Nat
    BY InHand DEF PlayInv
  <2>2. clock \in Nat /\ since \in Nat /\ t0 \in Nat
    BY MaxTicksAssumption DEF PlayInv, TypeOK
  <2>3. NeverEarly'
    BY <1>1, <2>1, <2>2, MaxTicksAssumption
    DEF Tick, loop, PlayInv, Timing, NeverEarly, Passing, TimeReached, Tested, Body, Labels, Message
  <2>4. ASSUME started, k <= Len(Recording), pc # "over", clock' < MaxTicks
        PROVE  clock' + t0 <= Message.time + since'
    <3>1. t0 <= Message.time /\ clock + t0 <= Message.time + since
      BY <1>1, <2>2, <2>4, MaxTicksAssumption DEF PlayInv, TypeOK, Timing
    <3>. QED  BY <1>1, <2>1, <2>2, <2>4, <3>1, MaxTicksAssumption
  <2>. QED  BY <2>3, <2>4 DEF Tick, loop, Timing, Message
<1>. QED  BY <1>2, <1>3 DEF PlayInv

\* The user wakes the thread up, and with that it tests what it waited for again.
LEMMA UiStep ==
  ASSUME PlayInv, UiThread
  PROVE  PlayInv'
<1>1. ASSUME Notified, UNCHANGED <<loop, clock, since>>, enabled' = enabled,
             running' \in [Interfaces -> BOOLEAN], stopped' \in BOOLEAN
      PROVE  PlayInv'
  <2>1. pc \in Labels /\ pc' \in Labels
    BY <1>1 DEF Notified, PlayInv, TypeOK, Labels
  <2>2. /\ pc' # "over" => pc # "over"
        /\ pc' \in Body => pc \in Body
        /\ pc' \in {"choose", "deliver"} => pc = pc'
        /\ pc' \in {"filter", "choose", "deliver"} => pc = pc'
    BY <1>1, <2>1 DEF Notified, Body, Labels
  <2>. QED  BY <1>1, <2>1, <2>2, Moving DEF PlayInv, Tested, Timing, NeverEarly, Passing
<1>2. ASSUME NEW i \in Interfaces, Toggle(i)
      PROVE  PlayInv'
  BY <1>1, <1>2 DEF Toggle, PlayInv, TypeOK
<1>3. CASE Stop
  BY <1>1, <1>3 DEF Stop, PlayInv, TypeOK
<1>4. ASSUME NEW i \in Interfaces, NEW n \in 0..Cardinality(Names), ToggleMessage(i, n)
      PROVE  PlayInv'
  <2>1. TypeOK'
    BY <1>4 DEF ToggleMessage, PlayInv, TypeOK, loop, Message
  <2>2. Tested' /\ Timing' /\ Past'
    BY <1>4 DEF ToggleMessage, PlayInv, Tested, Timing, NeverEarly, Passing, TimeReached,
                Past, Replayed, loop, Message
  <2>. QED  BY <2>1, <2>2 DEF PlayInv
<1>5. CASE Joined
  BY <1>5 DEF Joined, vars, PlayInv, TypeOK, Tested, Timing, NeverEarly, Passing, TimeReached,
              Past, Replayed, Message
<1>. QED  BY <1>2, <1>3, <1>4, <1>5 DEF UiThread

\* The steps of the thread that only move pc, or skip the message.
LEMMA LoopStep ==
  ASSUME PlayInv, Top \/ Wait \/ Sleep \/ Filter
  PROVE  PlayInv'
<1>. USE DEF At, Goto, controller
<1>1. CASE Top
  <2>1. CASE k <= Len(Recording) /\ NextMessage
    BY <1>1, <2>1, Skipping DEF Top
  <2>2. CASE ~(k <= Len(Recording) /\ NextMessage)
    BY <1>1, <2>2, Moving DEF Top, loop, PlayInv, TypeOK, Labels, Body
  <2>. QED  BY <2>1, <2>2
<1>2. CASE Wait
  BY <1>2, Moving DEF Wait, PlayInv, TypeOK, Tested, Labels, Body
<1>3. CASE Sleep
  BY <1>3, Moving DEF Sleep, PlayInv, TypeOK, Tested, Labels, Body
<1>4. CASE Filter
  <2>1. CASE NextMessage
    BY <1>4, <2>1, Skipping DEF Filter
  <2>2. CASE ~NextMessage
    BY <1>4, <2>2, Moving
    DEF Filter, IsRunning, loop, PlayInv, TypeOK, Tested, Timing, NeverEarly, Passing, Labels, Body
  <2>. QED  BY <2>1, <2>2
<1>. QED  BY <1>1, <1>2, <1>3, <1>4

LEMMA PlayStep == PlayInv /\ [Next]_vars => PlayInv'
<1>. SUFFICES ASSUME PlayInv, [Next]_vars
              PROVE  PlayInv'
  OBVIOUS
<1>1. CASE PlaybackThread
  BY <1>1, LoopStep, ResumeStep, PaceStep, DeliverStep DEF PlaybackThread
<1>2. CASE UiThread
  BY <1>2, UiStep
<1>3. CASE Tick
  BY <1>3, TickStep
<1>4. CASE UNCHANGED vars
  BY <1>4 DEF vars, PlayInv, TypeOK, Tested, Timing, NeverEarly, Passing, TimeReached,
              Past, Replayed, Message
<1>. QED  BY <1>1, <1>2, <1>3, <1>4 DEF Next

LEMMA PlayInit == Init => PlayInv
<1>. SUFFICES ASSUME Init
              PROVE  PlayInv
  OBVIOUS
<1>1. TypeOK
  <2>1. running \in [Interfaces -> BOOLEAN]
    BY DEF Init
  <2>2. /\ DOMAIN enabled = DOMAIN Listed
        /\ \A i \in DOMAIN Listed : enabled[i] \in [DOMAIN Listed[i] -> BOOLEAN]
    BY DEF Init
  <2>3. played \in Seq(DOMAIN Recording)
    BY DEF Init
  <2>4. k \in 1..(Len(Recording) + 1) /\ clock \in 0..MaxTicks /\ since \in 0..MaxTicks
    BY RecordingLength, MaxTicksAssumption DEF Init
  <2>. QED  BY <2>1, <2>2, <2>3, <2>4 DEF Init, TypeOK, Labels
<1>2. Tested /\ Timing /\ Past
  BY DEF Init, Tested, Timing, NeverEarly, Passing, Past, Replayed, Body
<1>. QED  BY <1>1, <1>2 DEF PlayInv

LEMMA PlayInvariant == Spec => []PlayInv
BY PlayInit, PlayStep, PTL DEF Spec

-----------------------------------------------------------------------------
\* Every variable has its type; once time is counted, the unsigned difference
\* between the time of a message and the reference never wraps around.
THEOREM TypeCorrect == Spec => []TypeOK
<1>1. PlayInv => TypeOK
  BY DEF PlayInv
<1>. QED  BY <1>1, PlayInvariant, PTL

\* sleep_until() lets no message pass before its time, whatever wakes it up.
THEOREM NeverEarlyCorrect == Spec => []NeverEarly
<1>1. PlayInv => NeverEarly
  BY DEF PlayInv, Timing
<1>. QED  BY <1>1, PlayInvariant, PTL

\* After a pause the timing starts anew: what was missed is not made up for.
THEOREM NoBurstCorrect == Spec => []NoBurst
<1>1. PlayInv => NoBurst
  BY DEF PlayInv, Timing, NeverEarly, Passing, TimeReached, NoBurst, Tested, Body, Labels
<1>. QED  BY <1>1, PlayInvariant, PTL

\* What is replayed is in the order of the recording, once, and of the channels
\* and interfaces that are replayed.
THEOREM ReplayedCorrect == Spec => []Replayed
<1>1. PlayInv => Replayed
  BY DEF PlayInv, Past
<1>. QED  BY <1>1, PlayInvariant, PTL
=============================================================================
