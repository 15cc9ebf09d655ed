------------------------------ MODULE Playback ------------------------------
(***************************************************************************)
(* The replay of a recording: the loop of src/src/logger/McapReader.cpp on *)
(* its own thread, the PlaybackController it shares with the UI thread     *)
(* (src/src/playback/PlaybackController.hpp) and the end of run_playback   *)
(* (src/src/modes/run_playback.cpp), with the TUI.                         *)
(*                                                                         *)
(* Every call of the controller holds its mutex from end to end, so it is  *)
(* one step.  The exceptions are the two waits: between finding the        *)
(* predicate false and waiting the thread holds the mutex (Locked).        *)
(*                                                                         *)
(* Time is the number of ticks since the loop last set start_time.         *)
(***************************************************************************)
EXTENDS Naturals, Sequences, FiniteSets

CONSTANTS
  Interfaces, \* the interfaces of the controller
  Recording,  \* the messages of the file, in the order of their logTime
  Listed,     \* the message names that scan_messages() finds, by interface
  MaxTicks    \* bound: time is counted up to here

Kinds == {"data", "raw", "other"}
Names == UNION {{Listed[i][n] : n \in DOMAIN Listed[i]} : i \in DOMAIN Listed}

ASSUME RecordingAssumption ==
  /\ Recording \in Seq({Recording[k] : k \in DOMAIN Recording})
  /\ \A k \in DOMAIN Recording :
       /\ Recording[k].kind \in Kinds
       /\ Recording[k].time \in Nat
       /\ Recording[k].readable \in BOOLEAN
  /\ \A j, k \in DOMAIN Recording : j <= k => Recording[j].time <= Recording[k].time
ASSUME MaxTicksAssumption == MaxTicks \in Nat

VARIABLES
  running,  \* states_ of the controller
  enabled,  \* messages_ of the controller
  stopped,  \* stopped_
  pc,       \* where the playback thread is
  k,        \* the message it is at
  started,  \* started
  t0,       \* t0_ns
  clock,    \* ticks since start_time
  since,    \* ticks since the last wait for a running interface ended
  played    \* the messages handed to on_frame or on_send

controller == <<running, enabled, stopped>>
loop == <<k, started, t0, played>>
vars == <<running, enabled, stopped, pc, k, started, t0, clock, since, played>>

Message == Recording[k]
Capped(n) == IF n < MaxTicks THEN n ELSE MaxTicks

AnyRunning == \E i \in Interfaces : running[i]
\* The predicates of the two waits.
MayGoOn == stopped \/ AnyRunning
TimeReached == started /\ clock + t0 >= Message.time

\* The playback thread holds the mutex of the controller.
Locked == pc \in {"block", "doze"}

-----------------------------------------------------------------------------
(* The playback thread.                                                    *)

At(l) == k <= Len(Recording) /\ pc = l
Goto(l) == pc' = l

NextMessage == k' = k + 1 /\ pc' = "top"

\* The head of the loop: skip what is no channel of ours, wait if all is paused.
Top ==
  /\ pc = "top"
  /\ \/ /\ k > Len(Recording)
        /\ Goto("over") /\ UNCHANGED k
     \/ /\ k <= Len(Recording) /\ Message.kind = "other"
        /\ NextMessage
     \/ /\ k <= Len(Recording) /\ Message.kind # "other"
        /\ Goto(IF AnyRunning THEN "pace" ELSE "wait") /\ UNCHANGED k
  /\ UNCHANGED <<running, enabled, stopped, started, t0, clock, since, played>>

\* wait_for_any_running()
Wait ==
  /\ \/ At("wait") /\ Goto(IF MayGoOn THEN "resume" ELSE "block")
     \/ At("block") /\ Goto("waiting")
  /\ UNCHANGED <<controller, loop, clock, since>>

\* Mutant: the timing reference is kept.
Resume_KeepTiming ==
  /\ At("resume")
  /\ Goto(IF stopped THEN "over" ELSE "pace")
  /\ since' = 0
  /\ UNCHANGED <<controller, loop, clock>>

Resume ==
  /\ At("resume")
  /\ Goto(IF stopped THEN "over" ELSE "pace")
  /\ started' = (stopped /\ started)
  /\ since' = 0
  /\ UNCHANGED <<controller, k, t0, played, clock>>

\* Mutant: time is counted from the end of the recording.
Pace_FromEnd ==
  /\ At("pace")
  /\ started' = TRUE
  /\ t0' = IF started THEN t0 ELSE Recording[Len(Recording)].time
  /\ clock' = IF started THEN clock ELSE 0
  /\ Goto("sleep")
  /\ UNCHANGED <<controller, k, played, since>>

Pace ==
  /\ At("pace")
  /\ started' = TRUE
  /\ t0' = IF started THEN t0 ELSE Message.time
  /\ clock' = IF started THEN clock ELSE 0
  /\ Goto("sleep")
  /\ UNCHANGED <<controller, k, played, since>>

\* Mutant: any notification ends the sleep.
Sleep_Once ==
  /\ \/ At("sleep") /\ Goto("doze")
     \/ At("doze") /\ Goto("sleeping")
     \/ At("sleeping") /\ TimeReached /\ Goto(IF stopped THEN "over" ELSE "filter")
     \/ At("woken") /\ Goto(IF stopped THEN "over" ELSE "filter")
  /\ UNCHANGED <<controller, loop, clock, since>>

\* sleep_until(): the predicate is tested first, and again when the time has
\* come or the thread is notified.
Sleep ==
  /\ \/ /\ At("sleep") \/ At("woken") \/ (At("sleeping") /\ TimeReached)
        /\ Goto(IF stopped THEN "over" ELSE IF TimeReached THEN "filter" ELSE "doze")
     \/ At("doze") /\ Goto("sleeping")
  /\ UNCHANGED <<controller, loop, clock, since>>

IsRunning(i) == i \in Interfaces /\ running[i]
\* A name that is not listed is enabled.
IsMessageEnabled(i, m) ==
  i \in DOMAIN Listed =>
    \A n \in DOMAIN Listed[i] : Listed[i][n] = m => enabled[i][n]

\* is_running() and is_message_enabled(), one after the other.
Filter ==
  /\ \/ At("filter") /\ IF IsRunning(Message.interface)
                        THEN Goto("choose") /\ UNCHANGED k ELSE NextMessage
     \/ At("choose") /\ IF IsMessageEnabled(Message.interface, Message.name)
                        THEN Goto("deliver") /\ UNCHANGED k ELSE NextMessage
  /\ UNCHANGED <<controller, started, t0, played, clock, since>>

\* Mutant: a raw message whose write throws is tried again.
Deliver_Retry ==
  /\ At("deliver")
  /\ IF Message.readable
     THEN /\ played' = Append(played, k)
          /\ NextMessage \/ (Message.kind = "raw" /\ Goto("top") /\ UNCHANGED k)
     ELSE played' = played /\ NextMessage
  /\ UNCHANGED <<controller, started, t0, clock, since>>

\* A message that cannot be parsed is skipped.  The write of a raw one to its
\* socket may throw, and playback ends.
Deliver ==
  /\ At("deliver")
  /\ IF Message.readable
     THEN /\ played' = Append(played, k)
          /\ NextMessage \/ (Message.kind = "raw" /\ Goto("over") /\ UNCHANGED k)
     ELSE played' = played /\ NextMessage
  /\ UNCHANGED <<controller, started, t0, clock, since>>

-----------------------------------------------------------------------------
(* The UI thread.  Once the TUI has ended it stops the playback and joins.  *)

Using == ~stopped /\ ~Locked

\* notify_all()
Notified ==
  pc' = CASE pc = "waiting" -> "wait" [] pc = "sleeping" -> "woken" [] OTHER -> pc

\* Mutant: the interface is toggled and nobody is told.
Toggle_Silent(i) ==
  /\ Using
  /\ running' = [running EXCEPT ![i] = ~@]
  /\ UNCHANGED <<enabled, stopped, pc, loop, clock, since>>

Toggle(i) ==
  /\ Using
  /\ running' = [running EXCEPT ![i] = ~@]
  /\ Notified
  /\ UNCHANGED <<enabled, stopped, loop, clock, since>>

\* Index 0 is "all": disable them if any is enabled, otherwise enable them.
ToggleMessage(i, n) ==
  /\ Using /\ i \in DOMAIN Listed /\ n <= Len(Listed[i])
  /\ enabled' = [enabled EXCEPT ![i] =
       IF n = 0 THEN [m \in DOMAIN @ |-> \A o \in DOMAIN @ : ~@[o]]
                ELSE [@ EXCEPT ![n] = ~@]]
  /\ UNCHANGED <<running, stopped, pc, loop, clock, since>>

\* Mutant: stopped_ is set without the mutex.
Stop_Unlocked ==
  /\ ~stopped
  /\ stopped' = TRUE
  /\ Notified
  /\ UNCHANGED <<running, enabled, loop, clock, since>>

Stop ==
  /\ Using
  /\ stopped' = TRUE
  /\ Notified
  /\ UNCHANGED <<running, enabled, loop, clock, since>>

Joined == pc = "over" /\ stopped /\ UNCHANGED vars

-----------------------------------------------------------------------------
Tick ==
  /\ clock' = Capped(clock + 1)
  /\ since' = Capped(since + 1)
  /\ UNCHANGED <<controller, loop, pc>>

Init ==
  /\ running = [i \in Interfaces |-> FALSE]
  /\ enabled = [i \in DOMAIN Listed |-> [n \in DOMAIN Listed[i] |-> TRUE]]
  /\ stopped = FALSE
  /\ pc = "top" /\ k = 1 /\ started = FALSE /\ t0 = 0 /\ played = <<>>
  /\ clock = 0 /\ since = 0

PlaybackThread == Top \/ Wait \/ Resume \/ Pace \/ Sleep \/ Filter \/ Deliver
UiThread ==
  \/ \E i \in Interfaces : Toggle(i)
  \/ \E i \in Interfaces : \E n \in 0..Cardinality(Names) : ToggleMessage(i, n)
  \/ Stop \/ Joined

Next == PlaybackThread \/ UiThread \/ Tick

\* The playback thread is scheduled and time passes; the user need do nothing.
Fairness == WF_vars(PlaybackThread) /\ WF_vars(Tick)

Spec == Init /\ [][Next]_vars
FairSpec == Spec /\ Fairness
-----------------------------------------------------------------------------
Labels == {"top", "wait", "block", "waiting", "resume", "pace", "sleep", "doze",
           "sleeping", "woken", "filter", "choose", "deliver", "over"}

\* Every variable has its type.  Once time is counted the unsigned difference
\* logTime - t0_ns cannot wrap around, at this message or at a later one.
TypeOK ==
  /\ running \in [Interfaces -> BOOLEAN]
  /\ DOMAIN enabled = DOMAIN Listed
  /\ \A i \in DOMAIN Listed : enabled[i] \in [DOMAIN Listed[i] -> BOOLEAN]
  /\ stopped \in BOOLEAN
  /\ pc \in Labels
  /\ k \in 1..(Len(Recording) + 1)
  /\ started \in BOOLEAN
  /\ t0 \in Nat
  /\ started /\ k <= Len(Recording) => t0 <= Message.time
  /\ clock \in 0..MaxTicks /\ since \in 0..MaxTicks
  /\ played \in Seq(DOMAIN Recording)

Passing == pc \in {"filter", "choose", "deliver"}

\* No message is handed on before its time, however often the user wakes the
\* thread up by toggling interfaces.
NeverEarly == Passing => TimeReached

\* "Playback resumes from this message without a catch-up burst": the time a
\* message was due at is never before the last resumption, so that what was
\* missed during a pause is not made up for.
NoBurst ==
  Passing /\ clock < MaxTicks => clock + t0 <= Message.time + since

\* What is handed on is in the order of the recording, nothing twice, and
\* only messages of channels and interfaces that are replayed.
Replayed ==
  /\ \A m, n \in DOMAIN played : m < n => played[m] < played[n]
  /\ \A n \in DOMAIN played :
       /\ played[n] <= k
       /\ Recording[played[n]].kind # "other"
       /\ Recording[played[n]].interface \in Interfaces

\* stop() ends the thread wherever it is, so run_playback can join it. A
\* stopped playback stays stopped and a thread that is over stays over.
StopJoins == []<>(stopped => pc = "over")

\* Playback gets to the end of the file once some interface keeps running.
PlaysOn == <>[]AnyRunning => []<>(pc = "over")

\* "When all interfaces are paused the thread blocks"
\* (src/src/logger/McapReader.hpp:17): it passes no message by.
PausedHolds == [][~AnyRunning /\ Message.kind # "other" => k' = k]_k
=============================================================================
