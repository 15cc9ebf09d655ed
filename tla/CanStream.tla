----------------------------- MODULE CanStream -----------------------------
(***************************************************************************)
(* The gRPC stream of received frames, src/src/grpc/CanStreamService.cpp   *)
(* and CanStreamServer.cpp beside it: the asio thread broadcasts, every    *)
(* Subscribe call runs on a thread of its own, and the main thread shuts   *)
(* the service and then the server down once the asio thread has ended.    *)
(*                                                                         *)
(* subs_mutex_ is a variable because a broadcast holds it over many steps. *)
(* A subscriber's own mutex is held by its call, in the steps of Holding,  *)
(* or by the asio thread inside the one step Push.  shutdown() takes only  *)
(* subs_mutex_: done may be set, and the call notified, while the call is  *)
(* between the test of its predicate and the wait.                         *)
(*                                                                         *)
(* The order of subscribers_ is left out: a broadcast may visit the calls  *)
(* in any order.                                                           *)
(***************************************************************************)
EXTENDS Naturals, Sequences

CONSTANTS
  Calls,       \* the Subscribe calls that clients ever make
  Interfaces,  \* the CAN interfaces frames are received on
  Everything,  \* the empty filter
  Filters,     \* the filters that each of them may ask for
  MaxFrames    \* bound: frames that are broadcast

ASSUME FiltersAssumption ==
  /\ Everything \notin Interfaces
  /\ Filters \in [Calls -> SUBSET (Interfaces \cup {Everything})]
ASSUME MaxFramesAssumption == MaxFrames \in Nat

VARIABLES
  subs_mutex,  \* who holds subs_mutex_: "nobody", "asio" or "main"
  subscribers, \* subscribers_
  filter,      \* interface_filter of each call
  queue,       \* queue of each call
  done,        \* done of each call
  pc,          \* where each call is
  frame,       \* the frame each call has popped and is writing
  todo,        \* the calls the holder of subs_mutex_ has still to visit
  marked,      \* the call shutdown() has marked and not yet notified
  main,        \* where the main thread is
  sent,        \* the number of frames broadcast
  gone,        \* the calls that have found their client gone
  cast,        \* the frames that each call was registered for and admits
  written,     \* the frames each call has written to its client
  missed       \* the calls that shutdown() notified before they waited

vars == <<subs_mutex, subscribers, filter, queue, done, pc, frame, todo, marked,
          main, sent, gone, cast, written, missed>>

Frames == [id : 1..MaxFrames, interface : Interfaces]
NoFrame == [id |-> 0, interface |-> Everything]
Admits(s, f) == filter[s] \in {Everything, f.interface}

\* Mutant: the mutex is not given up to write.
Holding_Writing(s) == pc[s] \in {"test", "block", "drain", "write"}

\* The calls that hold their own mutex.
Holding(s) == pc[s] \in {"test", "block", "drain"}

-----------------------------------------------------------------------------
(* The Subscribe calls.                                                    *)

Goto(s, l) == pc' = [pc EXCEPT ![s] = l]

\* A client calls; a server that has been shut down takes no calls.
Call(s, f) ==
  /\ pc[s] = "new" /\ main # "closing" /\ main # "over"
  /\ filter' = [filter EXCEPT ![s] = f]
  /\ Goto(s, "register")
  /\ UNCHANGED <<subs_mutex, subscribers, queue, done, frame, todo, marked,
                 main, sent, gone, cast, written, missed>>

Register(s) ==
  /\ pc[s] = "register" /\ subs_mutex = "nobody"
  /\ subscribers' = subscribers \cup {s}
  /\ Goto(s, "loop")
  /\ UNCHANGED <<subs_mutex, filter, queue, done, frame, todo, marked, main,
                 sent, gone, cast, written, missed>>

\* The outer loop: leave when done, otherwise lock.
Loop(s) ==
  /\ pc[s] = "loop"
  /\ Goto(s, IF done[s] THEN "leave" ELSE "test")
  /\ UNCHANGED <<subs_mutex, subscribers, filter, queue, done, frame, todo,
                 marked, main, sent, gone, cast, written, missed>>

\* The predicate of cv.wait().
Test(s) ==
  /\ pc[s] = "test"
  /\ Goto(s, IF queue[s] # <<>> \/ done[s] THEN "drain" ELSE "block")
  /\ UNCHANGED <<subs_mutex, subscribers, filter, queue, done, frame, todo,
                 marked, main, sent, gone, cast, written, missed>>

\* cv.wait() gives the mutex up and waits, in one step.
Block(s) ==
  /\ pc[s] = "block"
  /\ Goto(s, "wait")
  /\ UNCHANGED <<subs_mutex, subscribers, filter, queue, done, frame, todo,
                 marked, main, sent, gone, cast, written, missed>>

\* What notify_one() does to the call.
Notified(s) == IF pc[s] = "wait" THEN [pc EXCEPT ![s] = "woken"] ELSE pc

\* A condition variable may also wake up on its own.
Spurious(s) ==
  /\ pc[s] = "wait"
  /\ Goto(s, "woken")
  /\ UNCHANGED <<subs_mutex, subscribers, filter, queue, done, frame, todo,
                 marked, main, sent, gone, cast, written, missed>>

Relock(s) ==
  /\ \/ pc[s] = "woken" /\ Goto(s, "test")
     \/ pc[s] = "relock" /\ Goto(s, "drain")
  /\ UNCHANGED <<subs_mutex, subscribers, filter, queue, done, frame, todo,
                 marked, main, sent, gone, cast, written, missed>>

\* Mutant: what is queued is thrown away after the first frame.
Drain_Clear(s) ==
  /\ pc[s] = "drain"
  /\ \/ /\ queue[s] # <<>> /\ ~done[s]
        /\ frame' = [frame EXCEPT ![s] = Head(queue[s])]
        /\ queue' = [queue EXCEPT ![s] = <<>>]
        /\ Goto(s, "write")
     \/ /\ queue[s] = <<>> \/ done[s]
        /\ Goto(s, "loop")
        /\ UNCHANGED <<queue, frame>>
  /\ UNCHANGED <<subs_mutex, subscribers, filter, done, todo, marked, main,
                 sent, gone, cast, written, missed>>

\* The inner loop: pop a frame and unlock to write it, or start over.
Drain(s) ==
  /\ pc[s] = "drain"
  /\ \/ /\ queue[s] # <<>> /\ ~done[s]
        /\ frame' = [frame EXCEPT ![s] = Head(queue[s])]
        /\ queue' = [queue EXCEPT ![s] = Tail(queue[s])]
        /\ Goto(s, "write")
     \/ /\ queue[s] = <<>> \/ done[s]
        /\ Goto(s, "loop")
        /\ UNCHANGED <<queue, frame>>
  /\ UNCHANGED <<subs_mutex, subscribers, filter, done, todo, marked, main,
                 sent, gone, cast, written, missed>>

\* Write() returns true, as it may for a client that has just gone ...
WriteOk(s) ==
  /\ pc[s] = "write"
  /\ written' = [written EXCEPT ![s] = Append(@, frame[s])]
  /\ frame' = [frame EXCEPT ![s] = NoFrame]
  /\ Goto(s, "relock")
  /\ UNCHANGED <<subs_mutex, subscribers, filter, queue, done, todo, marked,
                 main, sent, gone, cast, missed>>

\* Mutant: done is not set.
WriteFails_GoesOn(s) ==
  /\ pc[s] = "write"
  /\ gone' = gone \cup {s}
  /\ frame' = [frame EXCEPT ![s] = NoFrame]
  /\ Goto(s, "relock")
  /\ UNCHANGED <<subs_mutex, subscribers, filter, queue, done, todo, marked,
                 main, sent, cast, written, missed>>

\* ... or false, of a client that went away at any time before.
WriteFails(s) ==
  /\ pc[s] = "write"
  /\ gone' = gone \cup {s}
  /\ done' = [done EXCEPT ![s] = TRUE]
  /\ frame' = [frame EXCEPT ![s] = NoFrame]
  /\ Goto(s, "relock")
  /\ UNCHANGED <<subs_mutex, subscribers, filter, queue, todo, marked,
                 main, sent, cast, written, missed>>

\* Mutant: the subscriber is erased without subs_mutex_.
Leave_Unlocked(s) ==
  /\ pc[s] = "leave"
  /\ subscribers' = subscribers \ {s}
  /\ Goto(s, "returned")
  /\ UNCHANGED <<subs_mutex, filter, queue, done, frame, todo, marked, main,
                 sent, gone, cast, written, missed>>

Leave(s) ==
  /\ pc[s] = "leave" /\ subs_mutex = "nobody"
  /\ subscribers' = subscribers \ {s}
  /\ Goto(s, "returned")
  /\ UNCHANGED <<subs_mutex, filter, queue, done, frame, todo, marked, main,
                 sent, gone, cast, written, missed>>

-----------------------------------------------------------------------------
(* broadcast() on the asio thread.                                         *)

Broadcast(f) ==
  /\ main = "running" /\ subs_mutex = "nobody" /\ f.id = sent + 1
  /\ LET visited == {s \in subscribers : Admits(s, f)}
     IN /\ todo' = visited
        /\ cast' = [s \in Calls |-> IF s \in visited THEN Append(cast[s], f)
                                                     ELSE cast[s]]
  /\ subs_mutex' = "asio"
  /\ sent' = sent + 1
  /\ UNCHANGED <<subscribers, filter, queue, done, pc, frame, marked, main,
                 gone, written, missed>>

\* The frame that is being broadcast is the last one cast to its calls.
Last(s) == cast[s][Len(cast[s])]

\* Mutant: the subscriber's mutex is not taken.
Push_Unlocked(s) ==
  /\ subs_mutex = "asio" /\ s \in todo
  /\ queue' = [queue EXCEPT ![s] = Append(@, Last(s))]
  /\ pc' = Notified(s)
  /\ todo' = todo \ {s}
  /\ UNCHANGED <<subs_mutex, subscribers, filter, done, frame, marked, main,
                 sent, gone, cast, written, missed>>

Push(s) ==
  /\ subs_mutex = "asio" /\ s \in todo /\ ~Holding(s)
  /\ queue' = [queue EXCEPT ![s] = Append(@, Last(s))]
  /\ pc' = Notified(s)
  /\ todo' = todo \ {s}
  /\ UNCHANGED <<subs_mutex, subscribers, filter, done, frame, marked, main,
                 sent, gone, cast, written, missed>>

EndBroadcast ==
  /\ subs_mutex = "asio" /\ todo = {}
  /\ subs_mutex' = "nobody"
  /\ UNCHANGED <<subscribers, filter, queue, done, pc, frame, todo, marked,
                 main, sent, gone, cast, written, missed>>

-----------------------------------------------------------------------------
(* The end of the program.                                                 *)

\* io.stop(), and the asio thread is joined.
JoinAsio ==
  /\ main = "running" /\ subs_mutex # "asio"
  /\ main' = "joined"
  /\ UNCHANGED <<subs_mutex, subscribers, filter, queue, done, pc, frame,
                 todo, marked, sent, gone, cast, written, missed>>

\* shutdown() takes subs_mutex_ ...
Shutdown ==
  /\ main = "joined" /\ subs_mutex = "nobody"
  /\ main' = "marking"
  /\ subs_mutex' = "main"
  /\ todo' = subscribers
  /\ UNCHANGED <<subscribers, filter, queue, done, pc, frame, marked, sent,
                 gone, cast, written, missed>>

\* ... sets done ...
Mark(s) ==
  /\ main = "marking" /\ marked = {} /\ s \in todo
  /\ done' = [done EXCEPT ![s] = TRUE]
  /\ marked' = {s}
  /\ todo' = todo \ {s}
  /\ UNCHANGED <<subs_mutex, subscribers, filter, queue, pc, frame, main, sent,
                 gone, cast, written, missed>>

\* Mutant: nobody is notified.
Notify_Nobody(s) ==
  /\ marked = {s}
  /\ marked' = {}
  /\ UNCHANGED <<subs_mutex, subscribers, filter, queue, done, pc, frame, todo,
                 main, sent, gone, cast, written, missed>>

\* ... and notifies, without the subscriber's mutex.
Notify(s) ==
  /\ marked = {s}
  /\ marked' = {}
  /\ pc' = Notified(s)
  /\ missed' = IF pc[s] = "block" THEN missed \cup {s} ELSE missed
  /\ UNCHANGED <<subs_mutex, subscribers, filter, queue, done, frame, todo,
                 main, sent, gone, cast, written>>

EndShutdown ==
  /\ main = "marking" /\ todo = {} /\ marked = {}
  /\ subs_mutex' = "nobody"
  /\ main' = "marked"
  /\ UNCHANGED <<subscribers, filter, queue, done, pc, frame, todo, marked,
                 sent, gone, cast, written, missed>>

\* server_->Shutdown() stops taking calls and waits for those it has.
CloseServer ==
  /\ \/ main = "marked" /\ main' = "closing"
     \/ /\ main = "closing"
        /\ \A s \in Calls : pc[s] \in {"new", "returned"}
        /\ main' = "over"
  /\ UNCHANGED <<subs_mutex, subscribers, filter, queue, done, pc, frame,
                 todo, marked, sent, gone, cast, written, missed>>

\* The process has exited.
Exited == main = "over" /\ UNCHANGED vars

-----------------------------------------------------------------------------
Init ==
  /\ subs_mutex = "nobody" /\ subscribers = {} /\ todo = {} /\ marked = {}
  /\ filter = [s \in Calls |-> Everything]
  /\ queue = [s \in Calls |-> <<>>]
  /\ done = [s \in Calls |-> FALSE]
  /\ pc = [s \in Calls |-> "new"]
  /\ frame = [s \in Calls |-> NoFrame]
  /\ main = "running" /\ sent = 0 /\ gone = {} /\ missed = {}
  /\ cast = [s \in Calls |-> <<>>]
  /\ written = [s \in Calls |-> <<>>]

\* What a call does on its own: everything but Write(), which waits for the
\* client.
CallThread(s) ==
  Register(s) \/ Loop(s) \/ Test(s) \/ Block(s) \/ Relock(s) \/ Drain(s) \/ Leave(s)
Client(s) ==
  \/ \E f \in Filters[s] : Call(s, f)
  \/ WriteOk(s) \/ WriteFails(s)
AsioThread ==
  \/ \E f \in Frames : Broadcast(f)
  \/ (\E s \in Calls : Push(s)) \/ EndBroadcast
MainThread ==
  \/ Shutdown \/ EndShutdown \/ CloseServer
  \/ \E s \in Calls : Mark(s) \/ Notify(s)

Next ==
  \/ \E s \in Calls : CallThread(s) \/ Client(s) \/ Spurious(s)
  \/ AsioThread \/ JoinAsio \/ MainThread \/ Exited

\* A thread that can run runs, and a mutex that is given up again and again is
\* got at last.  No client need call, read or stay, no frame need arrive, and
\* the user need not quit.
Fairness ==
  /\ \A s \in Calls : WF_vars(CallThread(s))
  /\ SF_vars((\E s \in Calls : Push(s)) \/ EndBroadcast)
  /\ WF_vars(MainThread)

Spec == Init /\ [][Next]_vars
FairSpec == Spec /\ Fairness
-----------------------------------------------------------------------------
Labels == {"new", "register", "loop", "test", "block", "wait", "woken", "drain",
           "write", "relock", "leave", "returned"}

\* Every variable has its type.  What a holder of subs_mutex_ still has to
\* visit is in subscribers_: the vector does not change under its iteration.
TypeOK ==
  /\ subs_mutex \in {"nobody", "asio", "main"}
  /\ subscribers \subseteq Calls
  /\ filter \in [Calls -> Interfaces \cup {Everything}]
  /\ queue \in [Calls -> Seq(Frames)]
  /\ done \in [Calls -> BOOLEAN]
  /\ pc \in [Calls -> Labels]
  /\ frame \in [Calls -> Frames \cup {NoFrame}]
  /\ \A s \in Calls : pc[s] = "write" => frame[s] \in Frames
  /\ todo \subseteq subscribers
  /\ marked \subseteq Calls
  /\ main \in {"running", "joined", "marking", "marked", "closing", "over"}
  /\ sent \in 0..MaxFrames
  /\ gone \subseteq Calls /\ missed \subseteq Calls
  /\ cast \in [Calls -> Seq(Frames)]
  /\ written \in [Calls -> Seq(Frames)]

\* The frame a call has popped and not yet written.
InFlight(s) == IF pc[s] = "write" THEN <<frame[s]>> ELSE <<>>
\* The frame that broadcast() has yet to push to it.
Pending(s) == IF subs_mutex = "asio" /\ s \in todo THEN <<Last(s)>> ELSE <<>>

\* No write of the call has failed.
Intact(s) == s \notin gone

\* Until a write fails a call loses no frame, repeats none and keeps their
\* order: what is written, in flight, queued and being pushed is what was
\* broadcast since Register and passes the filter, whenever done is set and
\* whatever the other calls do.
InOrder ==
  \A s \in Calls : Intact(s) =>
    written[s] \o InFlight(s) \o queue[s] \o Pending(s) = cast[s]

\* To its clients the service is a FrameFeed: queues, mutexes and failing writes
\* do not show, and what a client has been given is always a prefix of what it
\* was fed, the client that has gone away included.
Feed == INSTANCE FrameFeed WITH open <- subscribers, feed <- cast, got <- written
FeedSpec == Feed!Spec

\* No client can hold the asio thread up: a broadcast ends though the calls it
\* visits may be in a Write() that never returns.
BroadcastEnds == []<>(subs_mutex # "asio")

\* No wakeup is lost between broadcast() and a call: a client that keeps
\* reading gets every frame, unless the call is told to end first.  (What is
\* cast, written or done stays so: []<>(P => Q) says no less than P ~> Q.)
Delivered ==
  \A s \in Calls : []<>(pc[s] # "write") =>
    \A n \in 1..MaxFrames :
      []<>(Len(cast[s]) >= n => Len(written[s]) >= n \/ done[s])

\* A call whose write has failed, or that shutdown() has notified at any point
\* but the one between its predicate and its wait, returns.
DoneReturns ==
  \A s \in Calls : []<>(pc[s] # "write") =>
    []<>(done[s] => pc[s] = "returned" \/ s \in missed)

\* shutdown() shall "signal all active Subscribe() calls to exit"
\* (src/src/grpc/CanStreamService.hpp:22): a call it has marked returns.
ShutdownExits ==
  \A s \in Calls : []<>(pc[s] # "write") => (done[s] ~> pc[s] = "returned")
=============================================================================
