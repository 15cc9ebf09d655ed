-------------------------- MODULE CanStreamProofs --------------------------
(***************************************************************************)
(* Theorems about the stream, for any set of calls, interfaces and filters *)
(* and any bound on the frames.                                            *)
(***************************************************************************)
EXTENDS CanStream, SequenceTheorems, TLAPS

\* shutdown() holds subs_mutex_ while it marks.  While the mutex is free nobody
\* iterates over subscribers_, and a call that broadcast() has yet to visit has
\* been cast a frame.
Visits ==
  /\ main = "marking" => subs_mutex = "main"
  /\ subs_mutex = "nobody" => todo = {}
  /\ subs_mutex = "asio" => \A s \in todo : cast[s] # <<>>

TypeInv == TypeOK /\ Visits

LEMMA NotifiedType ==
  ASSUME TypeOK, NEW s \in Calls
  PROVE  /\ Notified(s) \in [Calls -> Labels]
         /\ \A t \in Calls : Notified(s)[t] = "write" <=> pc[t] = "write"
BY DEF TypeOK, Notified, Labels

LEMMA LastType ==
  ASSUME TypeInv, subs_mutex = "asio", NEW s \in todo
  PROVE  Last(s) \in Frames
<1>1. s \in Calls /\ cast[s] \in Seq(Frames) /\ cast[s] # <<>>
  BY DEF TypeInv, TypeOK, Visits
<1>2. Len(cast[s]) \in 1..Len(cast[s])
  BY <1>1, EmptySeq
<1>. QED  BY <1>1, <1>2, ElementOfSeq DEF Last

LEMMA TypeStep == TypeInv /\ [Next]_vars => TypeInv'
<1>. SUFFICES ASSUME TypeInv, [Next]_vars
              PROVE  TypeInv'
  OBVIOUS
<1>. USE DEF TypeInv
<1>1. ASSUME NEW s \in Calls, NEW f \in Filters[s], Call(s, f)
      PROVE  TypeInv'
  <2>1. f \in Interfaces \cup {Everything}
    BY <1>1, FiltersAssumption
  <2>. QED  BY <1>1, <2>1 DEF Call, Goto, TypeOK, Visits, Labels
<1>2. ASSUME NEW s \in Calls, Register(s) \/ Leave(s)
      PROVE  TypeInv'
  BY <1>2 DEF Register, Leave, Goto, TypeOK, Visits, Labels
<1>3. ASSUME NEW s \in Calls, Loop(s) \/ Test(s) \/ Block(s) \/ Relock(s) \/ Spurious(s)
      PROVE  TypeInv'
  <2>1. PICK l \in Labels \ {"write"} : Goto(s, l)
    BY <1>3 DEF Loop, Test, Block, Relock, Spurious, Labels
  <2>2. UNCHANGED <<subs_mutex, subscribers, filter, queue, done, frame, todo,
                    marked, main, sent, gone, cast, written, missed>>
    BY <1>3 DEF Loop, Test, Block, Relock, Spurious
  <2>. QED  BY <2>1, <2>2 DEF Goto, TypeOK, Visits
<1>4. ASSUME NEW s \in Calls, Drain(s)
      PROVE  TypeInv'
  <2>1. CASE queue[s] # <<>> /\ ~done[s]
    <3>1. Head(queue[s]) \in Frames /\ Tail(queue[s]) \in Seq(Frames)
      BY <2>1, HeadTailProperties DEF TypeOK
    <3>2. /\ frame' = [frame EXCEPT ![s] = Head(queue[s])]
          /\ queue' = [queue EXCEPT ![s] = Tail(queue[s])]
          /\ pc' = [pc EXCEPT ![s] = "write"]
          /\ UNCHANGED <<subs_mutex, subscribers, filter, done, todo, marked, main,
                         sent, gone, cast, written, missed>>
      BY <1>4, <2>1 DEF Drain, Goto
    <3>3. /\ frame' \in [Calls -> Frames \cup {NoFrame}]
          /\ queue' \in [Calls -> Seq(Frames)]
          /\ pc' \in [Calls -> Labels]
      BY <3>1, <3>2 DEF TypeOK, Labels
    <3>4. \A t \in Calls : pc'[t] = "write" => frame'[t] \in Frames
      BY <3>1, <3>2 DEF TypeOK
    <3>. QED  BY <3>2, <3>3, <3>4 DEF TypeOK, Visits
  <2>2. CASE ~(queue[s] # <<>> /\ ~done[s])
    BY <1>4, <2>2 DEF Drain, Goto, TypeOK, Visits, Labels
  <2>. QED  BY <2>1, <2>2
<1>5. ASSUME NEW s \in Calls, WriteOk(s)
      PROVE  TypeInv'
  <2>1. Append(written[s], frame[s]) \in Seq(Frames)
    BY <1>5, AppendProperties DEF WriteOk, TypeOK
  <2>. QED  BY <1>5, <2>1 DEF WriteOk, Goto, TypeOK, Visits, Labels
<1>6. ASSUME NEW s \in Calls, WriteFails(s)
      PROVE  TypeInv'
  BY <1>6 DEF WriteFails, Goto, TypeOK, Visits, Labels
<1>7. ASSUME NEW f \in Frames, Broadcast(f)
      PROVE  TypeInv'
  <2>1. ASSUME NEW s \in Calls
        PROVE  Append(cast[s], f) \in Seq(Frames) /\ Append(cast[s], f) # <<>>
    <3>1. cast[s] \in Seq(Frames)
      BY DEF TypeOK
    <3>. QED  BY <3>1, AppendProperties
  <2>2. cast' \in [Calls -> Seq(Frames)]
    BY <1>7, <2>1 DEF Broadcast, TypeOK
  <2>3. todo' \subseteq subscribers' /\ \A s \in todo' : cast'[s] # <<>>
    BY <1>7, <2>1 DEF Broadcast, TypeOK
  <2>4. sent' \in 0..MaxFrames
    BY <1>7, MaxFramesAssumption DEF Broadcast, Frames, TypeOK
  <2>. QED  BY <1>7, <2>2, <2>3, <2>4 DEF Broadcast, TypeOK, Visits
<1>8. ASSUME NEW s \in Calls, Push(s)
      PROVE  TypeInv'
  <2>1. Append(queue[s], Last(s)) \in Seq(Frames)
    BY <1>8, LastType, AppendProperties DEF Push, TypeOK
  <2>. QED  BY <1>8, <2>1, NotifiedType DEF Push, TypeOK, Visits
<1>9. CASE EndBroadcast \/ JoinAsio \/ Shutdown \/ EndShutdown \/ CloseServer
  BY <1>9 DEF EndBroadcast, JoinAsio, Shutdown, EndShutdown, CloseServer,
               TypeOK, Visits
<1>10. ASSUME NEW s \in Calls, Mark(s) \/ Notify(s)
       PROVE  TypeInv'
  <2>1. CASE Mark(s)
    BY <2>1 DEF Mark, TypeOK, Visits
  <2>2. CASE Notify(s)
    BY <2>2, NotifiedType DEF Notify, TypeOK, Visits
  <2>. QED  BY <1>10, <2>1, <2>2
<1>11. CASE Exited \/ UNCHANGED vars
  BY <1>11 DEF Exited, vars, TypeOK, Visits
<1>. QED
  BY <1>1, <1>2, <1>3, <1>4, <1>5, <1>6, <1>7, <1>8, <1>9, <1>10, <1>11
     DEF Next, CallThread, Client, AsioThread, MainThread

LEMMA TypeInit == Init => TypeInv
<1>. SUFFICES ASSUME Init
              PROVE  TypeInv
  OBVIOUS
<1>1. <<>> \in Seq(Frames)
  BY EmptySeq
<1>. QED
  BY <1>1, MaxFramesAssumption DEF Init, TypeInv, TypeOK, Visits, Labels

\* Every variable of the stream always has its type, and subscribers_ does not
\* change while it is iterated over.
THEOREM TypeCorrect == Spec => []TypeOK
<1>1. Spec => []TypeInv
  BY TypeInit, TypeStep, PTL DEF Spec
<1>2. TypeInv => TypeOK
  BY DEF TypeInv
<1>. QED  BY <1>1, <1>2, PTL

-----------------------------------------------------------------------------
(* How frames move along a stream a \o i \o q \o p of what is written, in   *)
(* flight, queued and pending.                                              *)

LEMMA Pushed ==
  ASSUME NEW S, NEW b \in Seq(S), NEW q \in Seq(S), NEW x \in S
  PROVE  b \o q \o <<x>> = b \o Append(q, x) \o <<>>
<1>1. <<x>> \in Seq(S)
  BY AppendProperties, EmptySeq
<1>2. Append(q, x) = q \o <<x>> /\ Append(q, x) \in Seq(S)
  BY AppendIsConcat, AppendProperties
<1>3. b \o Append(q, x) \in Seq(S)
  BY <1>2, ConcatProperties
<1>. QED  BY <1>1, <1>2, <1>3, ConcatAssociative, ConcatEmptySeq

LEMMA Popped ==
  ASSUME NEW S, NEW a \in Seq(S), NEW q \in Seq(S), q # <<>>
  PROVE  a \o <<>> \o q = a \o <<Head(q)>> \o Tail(q)
<1>1. Head(q) \in S /\ Tail(q) \in Seq(S) /\ Len(q) \in Nat \ {0}
  BY HeadTailProperties, EmptySeq
<1>2. <<Head(q)>> \in Seq(S)
  BY <1>1
<1>3. q = <<Head(q)>> \o Tail(q)
  <2>1. SubSeq(q, 1, Len(q)) = <<q[1]>> \o SubSeq(q, 2, Len(q))
    BY <1>1, SubSeqRecursiveFirst
  <2>2. SubSeq(q, 1, Len(q)) = q /\ SubSeq(q, 2, Len(q)) = Tail(q) /\ Head(q) = q[1]
    BY SubSeqFull, TailIsSubSeq
  <2>. QED  BY <2>1, <2>2
<1>4. a \o <<>> = a
  BY ConcatEmptySeq
<1>5. (a \o <<Head(q)>>) \o Tail(q) = a \o (<<Head(q)>> \o Tail(q))
  BY <1>1, <1>2, ConcatAssociative
<1>. QED  BY <1>3, <1>4, <1>5

LEMMA Wrote ==
  ASSUME NEW S, NEW a \in Seq(S), NEW x \in S
  PROVE  a \o <<x>> = Append(a, x) \o <<>>
<1>1. Append(a, x) = a \o <<x>> /\ Append(a, x) \in Seq(S)
  BY AppendIsConcat, AppendProperties
<1>. QED  BY <1>1, ConcatEmptySeq

-----------------------------------------------------------------------------
Stream(s) == written[s] \o InFlight(s) \o queue[s] \o Pending(s)

LEMMA StreamType ==
  ASSUME TypeInv, NEW s \in Calls
  PROVE  /\ written[s] \in Seq(Frames) /\ queue[s] \in Seq(Frames)
         /\ InFlight(s) \in Seq(Frames) /\ Pending(s) \in Seq(Frames)
         /\ written[s] \o InFlight(s) \in Seq(Frames)
         /\ written[s] \o InFlight(s) \o queue[s] \in Seq(Frames)
<1>1. written[s] \in Seq(Frames) /\ queue[s] \in Seq(Frames)
  BY DEF TypeInv, TypeOK
<1>2. InFlight(s) \in Seq(Frames)
  <2>1. pc[s] = "write" => <<frame[s]>> \in Seq(Frames)
    BY DEF TypeInv, TypeOK
  <2>. QED  BY <2>1, EmptySeq DEF InFlight
<1>3. Pending(s) \in Seq(Frames)
  <2>1. subs_mutex = "asio" /\ s \in todo => <<Last(s)>> \in Seq(Frames)
    BY LastType
  <2>. QED  BY <2>1, EmptySeq DEF Pending
<1>. QED  BY <1>1, <1>2, <1>3, ConcatProperties

LEMMA OrderStep == TypeInv /\ InOrder /\ [Next]_vars => InOrder'
<1>. SUFFICES ASSUME TypeInv, InOrder, [Next]_vars,
                     NEW t \in Calls, Intact(t)'
              PROVE  Stream(t)' = cast'[t]
  BY DEF InOrder, Stream
<1>0. Intact(t) /\ Stream(t) = cast[t]
  <2>1. Intact(t)
    BY DEF Next, CallThread, Client, AsioThread, MainThread, Exited, vars, Intact, Call,
           Register, Loop, Test, Block, Relock, Drain, Leave, WriteOk, WriteFails,
           Spurious, Broadcast, Push, EndBroadcast, JoinAsio, Shutdown, Mark, Notify,
           EndShutdown, CloseServer
  <2>. QED  BY <2>1 DEF InOrder, Stream
\* A step that moves nothing along the stream of t.
<1>. DEFINE Idle == /\ written'[t] = written[t] /\ queue'[t] = queue[t]
                    /\ cast'[t] = cast[t]
                    /\ InFlight(t)' = InFlight(t) /\ Pending(t)' = Pending(t)
<1>a. Idle => Stream(t)' = cast'[t]
  BY <1>0 DEF Stream
<1>. HIDE DEF Idle
<1>1. ASSUME NEW s \in Calls,
             \/ \E f \in Filters[s] : Call(s, f)
             \/ Register(s) \/ Leave(s) \/ Loop(s) \/ Test(s) \/ Block(s)
             \/ Relock(s) \/ Spurious(s)
      PROVE  Idle
  <2>1. UNCHANGED <<subs_mutex, queue, frame, todo, cast, written>>
    BY <1>1 DEF Call, Register, Leave, Loop, Test, Block, Relock, Spurious
  <2>2. pc[t] = "write" <=> pc'[t] = "write"
    BY <1>1 DEF Call, Register, Leave, Loop, Test, Block, Relock, Spurious,
                Goto, TypeInv, TypeOK
  <2>. QED  BY <2>1, <2>2 DEF Idle, InFlight, Pending, Last
<1>2. ASSUME NEW s \in Calls, Drain(s)
      PROVE  Stream(t)' = cast'[t]
  <2>1. UNCHANGED <<subs_mutex, todo, cast, written>> /\ Pending(t)' = Pending(t)
    BY <1>2 DEF Drain, Pending, Last
  <2>2. CASE t = s /\ queue[s] # <<>> /\ ~done[s]
    <3>1. InFlight(t) = <<>> /\ InFlight(t)' = <<Head(queue[t])>>
          /\ queue'[t] = Tail(queue[t])
      BY <1>2, <2>2 DEF Drain, Goto, InFlight, TypeInv, TypeOK
    <3>2. written[t] \o <<>> \o queue[t]
            = written[t] \o <<Head(queue[t])>> \o Tail(queue[t])
      BY <2>2, StreamType, Popped
    <3>. QED  BY <1>0, <2>1, <3>1, <3>2 DEF Stream
  <2>3. CASE ~(t = s /\ queue[s] # <<>> /\ ~done[s])
    <3>1. queue'[t] = queue[t]
      BY <1>2, <2>3 DEF Drain, TypeInv, TypeOK
    <3>2. InFlight(t)' = InFlight(t)
      BY <1>2, <2>3 DEF Drain, Goto, InFlight, TypeInv, TypeOK
    <3>. QED  BY <1>a, <2>1, <3>1, <3>2 DEF Idle
  <2>. QED  BY <2>2, <2>3
<1>3. ASSUME NEW s \in Calls, WriteOk(s)
      PROVE  Stream(t)' = cast'[t]
  <2>1. UNCHANGED <<subs_mutex, todo, cast, queue>> /\ Pending(t)' = Pending(t)
    BY <1>3 DEF WriteOk, Pending, Last
  <2>2. CASE t = s
    <3>1. /\ frame[t] \in Frames
          /\ InFlight(t) = <<frame[t]>> /\ InFlight(t)' = <<>>
          /\ written'[t] = Append(written[t], frame[t])
      BY <1>3, <2>2 DEF WriteOk, Goto, InFlight, TypeInv, TypeOK
    <3>2. written[t] \o <<frame[t]>> = Append(written[t], frame[t]) \o <<>>
      BY <3>1, StreamType, Wrote
    <3>. QED  BY <1>0, <2>1, <3>1, <3>2 DEF Stream
  <2>3. CASE t # s
    <3>1. written'[t] = written[t] /\ InFlight(t)' = InFlight(t)
      BY <1>3, <2>3 DEF WriteOk, Goto, InFlight, TypeInv, TypeOK
    <3>. QED  BY <1>a, <2>1, <3>1 DEF Idle
  <2>. QED  BY <2>2, <2>3
<1>4. ASSUME NEW s \in Calls, WriteFails(s)
      PROVE  Idle
  <2>1. t # s
    BY <1>4 DEF WriteFails, Intact
  <2>2. UNCHANGED <<subs_mutex, queue, todo, cast, written>>
    BY <1>4 DEF WriteFails
  <2>3. InFlight(t)' = InFlight(t)
    BY <1>4, <2>1 DEF WriteFails, Goto, InFlight, TypeInv, TypeOK
  <2>. QED  BY <2>2, <2>3 DEF Idle, Pending, Last
<1>5. ASSUME NEW f \in Frames, Broadcast(f)
      PROVE  Stream(t)' = cast'[t]
  <2>1. UNCHANGED <<queue, pc, frame, written>> /\ InFlight(t)' = InFlight(t)
    BY <1>5 DEF Broadcast, InFlight
  <2>2. Pending(t) = <<>>
    BY <1>5 DEF Broadcast, Pending
  <2>3. CASE t \notin todo'
    <3>1. cast'[t] = cast[t] /\ Pending(t)' = <<>>
      BY <1>5, <2>3 DEF Broadcast, Pending
    <3>. QED  BY <1>a, <2>1, <2>2, <3>1 DEF Idle
  <2>4. CASE t \in todo'
    <3>1. cast[t] \in Seq(Frames) /\ cast'[t] = Append(cast[t], f)
      BY <1>5, <2>4 DEF Broadcast, TypeInv, TypeOK
    <3>2. Last(t)' = f
      BY <3>1, AppendProperties DEF Last
    <3>3. Pending(t)' = <<f>>
      BY <1>5, <2>4, <3>2 DEF Broadcast, Pending
    <3>4. written[t] \o InFlight(t) \o queue[t] = cast[t]
      BY <1>0, <2>2, StreamType, ConcatEmptySeq DEF Stream
    <3>5. Append(cast[t], f) = cast[t] \o <<f>>
      BY <3>1, AppendIsConcat
    <3>. QED  BY <2>1, <3>1, <3>3, <3>4, <3>5 DEF Stream
  <2>. QED  BY <2>3, <2>4
<1>6. ASSUME NEW s \in Calls, Push(s)
      PROVE  Stream(t)' = cast'[t]
  <2>1. UNCHANGED <<subs_mutex, frame, cast, written>> /\ InFlight(t)' = InFlight(t)
    BY <1>6, NotifiedType DEF Push, InFlight, TypeInv
  <2>2. CASE t = s
    <3>1. /\ Last(t) \in Frames /\ Pending(t) = <<Last(t)>> /\ Pending(t)' = <<>>
          /\ queue'[t] = Append(queue[t], Last(t))
      BY <1>6, <2>2, LastType DEF Push, Pending, TypeInv, TypeOK
    <3>. DEFINE b == written[t] \o InFlight(t)
    <3>2. b \in Seq(Frames) /\ queue[t] \in Seq(Frames)
      BY StreamType
    <3>. HIDE DEF b
    <3>3. b \o queue[t] \o <<Last(t)>> = b \o Append(queue[t], Last(t)) \o <<>>
      <4>1. Last(t) \in Frames
        BY <3>1
      <4>. QED  BY ONLY <3>2, <4>1, Pushed
    <3>. QED  BY <1>0, <2>1, <3>1, <3>3 DEF Stream, b
  <2>3. CASE t # s
    <3>1. queue'[t] = queue[t] /\ Pending(t)' = Pending(t)
      BY <1>6, <2>3 DEF Push, Pending, Last, TypeInv, TypeOK
    <3>. QED  BY <1>a, <2>1, <3>1 DEF Idle
  <2>. QED  BY <2>2, <2>3
<1>7. CASE EndBroadcast \/ JoinAsio \/ Shutdown \/ EndShutdown \/ CloseServer
           \/ Exited \/ UNCHANGED vars
  <2>1. UNCHANGED <<queue, pc, frame, cast, written>>
    BY <1>7 DEF EndBroadcast, JoinAsio, Shutdown, EndShutdown, CloseServer, Exited, vars
  <2>2. Pending(t)' = Pending(t)
    BY <1>7 DEF EndBroadcast, JoinAsio, Shutdown, EndShutdown, CloseServer, Exited,
                vars, Pending, Last
  <2>. QED  BY <1>a, <2>1, <2>2 DEF Idle, InFlight
<1>8. ASSUME NEW s \in Calls, Mark(s) \/ Notify(s)
      PROVE  Idle
  <2>1. UNCHANGED <<queue, frame, cast, written, subs_mutex>>
    BY <1>8 DEF Mark, Notify
  <2>2. InFlight(t)' = InFlight(t)
    BY <1>8, <2>1, NotifiedType DEF Mark, Notify, InFlight, TypeInv
  <2>3. Pending(t)' = Pending(t)
    <3>1. Mark(s) => subs_mutex # "asio"
      BY DEF Mark, TypeInv, Visits
    <3>2. subs_mutex' = subs_mutex /\ cast' = cast /\ (Notify(s) => todo' = todo)
      BY <1>8 DEF Mark, Notify
    <3>. QED  BY <1>8, <3>1, <3>2 DEF Pending, Last
  <2>. QED  BY <2>1, <2>2, <2>3 DEF Idle
<1>. QED
  BY <1>a, <1>1, <1>2, <1>3, <1>4, <1>5, <1>6, <1>7, <1>8
     DEF Next, CallThread, Client, AsioThread, MainThread

\* What a call has written, has in flight, in its queue and coming is what was
\* broadcast to it, in that order, until a write fails.
THEOREM OrderCorrect == Spec => []InOrder
<1>1. Init => InOrder
  BY DEF Init, InOrder, InFlight, Pending
<1>2. Spec => []TypeInv
  BY TypeInit, TypeStep, PTL DEF Spec
<1>. QED  BY <1>1, <1>2, OrderStep, PTL DEF Spec

-----------------------------------------------------------------------------
(* The service is a FrameFeed.                                             *)

\* A call that has not registered is fed nothing.
Fresh ==
  \A s \in Calls : pc[s] \in {"new", "register"} =>
    s \notin subscribers /\ cast[s] = <<>>

\* A call that has found its client gone writes no more.
Over == \A s \in gone : done[s] /\ pc[s] # "write"

FeedInv == TypeInv /\ InOrder /\ Fresh /\ Over

LEMMA OverStep == TypeInv /\ Over /\ [Next]_vars => Over'
<1>. SUFFICES ASSUME TypeInv, Over, [Next]_vars, NEW t \in gone'
              PROVE  done'[t] /\ pc'[t] # "write"
  BY DEF Over
<1>. USE DEF TypeInv, TypeOK, Over, Goto
<1>0. t \in Calls
  BY TypeStep
<1>1. ASSUME NEW s \in Calls, WriteFails(s)
      PROVE  done'[t] /\ pc'[t] # "write"
  BY <1>0, <1>1 DEF WriteFails
<1>2. ASSUME NEW s \in Calls,
             \/ \E f \in Filters[s] : Call(s, f)
             \/ Register(s) \/ Leave(s) \/ Loop(s) \/ Test(s) \/ Block(s) \/ Relock(s)
             \/ Spurious(s) \/ Drain(s) \/ WriteOk(s)
      PROVE  done'[t] /\ pc'[t] # "write"
  BY <1>0, <1>2 DEF Call, Register, Leave, Loop, Test, Block, Relock, Spurious, Drain,
                    WriteOk
<1>3. ASSUME NEW s \in Calls, Push(s) \/ Notify(s)
      PROVE  done'[t] /\ pc'[t] # "write"
  <2>1. t \in gone /\ UNCHANGED done /\ pc' = Notified(s)
    BY <1>3 DEF Push, Notify
  <2>. QED  BY <1>0, <2>1 DEF Notified
<1>4. ASSUME NEW s \in Calls, Mark(s)
      PROVE  done'[t] /\ pc'[t] # "write"
  BY <1>0, <1>4 DEF Mark
<1>5. CASE \/ \E f \in Frames : Broadcast(f)
           \/ EndBroadcast \/ JoinAsio \/ Shutdown \/ EndShutdown \/ CloseServer
           \/ Exited \/ UNCHANGED vars
  BY <1>5 DEF Broadcast, EndBroadcast, JoinAsio, Shutdown, EndShutdown, CloseServer,
              Exited, vars
<1>. QED
  BY <1>1, <1>2, <1>3, <1>4, <1>5 DEF Next, CallThread, Client, AsioThread, MainThread

LEMMA FreshStep == TypeInv /\ Fresh /\ [Next]_vars => Fresh'
<1>. SUFFICES ASSUME TypeInv, Fresh, [Next]_vars, NEW t \in Calls,
                     pc'[t] \in {"new", "register"}
              PROVE  t \notin subscribers' /\ cast'[t] = <<>>
  BY DEF Fresh
<1>. USE DEF TypeInv, TypeOK, Fresh
<1>1. ASSUME NEW s \in Calls, Register(s) \/ Leave(s)
      PROVE  t \notin subscribers' /\ cast'[t] = <<>>
  BY <1>1 DEF Register, Leave, Goto
<1>2. ASSUME NEW s \in Calls,
             \/ \E f \in Filters[s] : Call(s, f)
             \/ Loop(s) \/ Test(s) \/ Block(s) \/ Relock(s) \/ Spurious(s)
             \/ Drain(s) \/ WriteOk(s) \/ WriteFails(s)
      PROVE  t \notin subscribers' /\ cast'[t] = <<>>
  BY <1>2 DEF Call, Loop, Test, Block, Relock, Spurious, Drain, WriteOk,
              WriteFails, Goto
<1>3. ASSUME NEW f \in Frames, Broadcast(f)
      PROVE  t \notin subscribers' /\ cast'[t] = <<>>
  BY <1>3 DEF Broadcast
<1>4. ASSUME NEW s \in Calls, Push(s) \/ Notify(s)
      PROVE  t \notin subscribers' /\ cast'[t] = <<>>
  <2>1. pc[t] \in {"new", "register"}
    BY <1>4 DEF Push, Notify, Notified
  <2>. QED  BY <1>4, <2>1 DEF Push, Notify
<1>5. ASSUME NEW s \in Calls, Mark(s)
      PROVE  t \notin subscribers' /\ cast'[t] = <<>>
  BY <1>5 DEF Mark
<1>6. CASE EndBroadcast \/ JoinAsio \/ Shutdown \/ EndShutdown \/ CloseServer
           \/ Exited \/ UNCHANGED vars
  BY <1>6 DEF EndBroadcast, JoinAsio, Shutdown, EndShutdown, CloseServer, Exited, vars
<1>. QED
  BY <1>1, <1>2, <1>3, <1>4, <1>5, <1>6
     DEF Next, CallThread, Client, AsioThread, MainThread

\* What stands in a sequence stands there whatever is appended.
LEMMA Leftmost ==
  ASSUME NEW S, NEW b \in Seq(S), NEW q \in Seq(S), NEW i \in 1..Len(b)
  PROVE  (b \o q)[i] = b[i] /\ i \in 1..Len(b \o q) /\ b \o q \in Seq(S)
<1>1. Len(b) \in Nat /\ Len(q) \in Nat
  BY LenProperties
<1>2. i \in 1..(Len(b) + Len(q)) /\ i <= Len(b)
  BY <1>1
<1>. QED  BY <1>1, <1>2, ConcatProperties

\* What comes next in a stream is the frame in flight.
LEMMA NextInStream ==
  ASSUME NEW S, NEW a \in Seq(S), NEW x \in S, NEW q \in Seq(S), NEW p \in Seq(S),
         NEW y, y = <<x>>, NEW c, a \o y \o q \o p = c
  PROVE  Len(a) < Len(c) /\ c[Len(a) + 1] = x
<1>. DEFINE b == a \o y
            n == Len(a) + 1
<1>1. b \in Seq(S) /\ n \in 1..Len(b) /\ b[n] = x /\ Len(a) \in Nat
  BY LenProperties, ConcatProperties
<1>. HIDE DEF b
<1>2. (b \o q)[n] = x /\ n \in 1..Len(b \o q) /\ b \o q \in Seq(S)
  BY <1>1, Leftmost
<1>3. (b \o q \o p)[n] = x /\ n \in 1..Len(b \o q \o p) /\ b \o q \o p \in Seq(S)
  BY <1>2, Leftmost
<1>4. Len(b \o q \o p) \in Nat
  BY <1>3, LenProperties
<1>. QED  BY <1>1, <1>3, <1>4 DEF b

LEMMA FeedStep == FeedInv /\ [Next]_vars => [Feed!Next]_(Feed!vars)
<1>. SUFFICES ASSUME FeedInv, [Next]_vars
              PROVE  Feed!Next \/ UNCHANGED Feed!vars
  OBVIOUS
<1>. USE DEF FeedInv
<1>1. ASSUME NEW s \in Calls, NEW f \in Filters[s], Call(s, f)
      PROVE  Feed!Next
  <2>1. Feed!Ask(s, f)
    BY <1>1 DEF Call, Feed!Ask, Fresh
  <2>. QED  BY <2>1 DEF Feed!Next
<1>2. ASSUME NEW s \in Calls, Register(s) \/ Leave(s)
      PROVE  Feed!Next
  <2>1. Feed!Subscribe(s) \/ Feed!Cancel(s)
    BY <1>2 DEF Register, Leave, Feed!Subscribe, Feed!Cancel
  <2>. QED  BY <2>1 DEF Feed!Next
<1>3. ASSUME NEW s \in Calls, WriteOk(s)
      PROVE  Feed!Next
  <2>1. /\ frame[s] \in Frames /\ InFlight(s) = <<frame[s]>> /\ Stream(s) = cast[s]
        /\ written[s] \in Seq(Frames) /\ queue[s] \in Seq(Frames)
        /\ Pending(s) \in Seq(Frames)
    <3>1. pc[s] = "write" /\ frame[s] \in Frames
      BY <1>3 DEF WriteOk, TypeInv, TypeOK
    <3>2. Stream(s) = cast[s]
      BY <3>1 DEF InOrder, Intact, Stream, Over
    <3>. QED  BY <3>1, <3>2, StreamType DEF InFlight
  <2>2. written[s] \o InFlight(s) \o queue[s] \o Pending(s) = cast[s]
    BY <2>1 DEF Stream
  <2>3. Len(written[s]) < Len(cast[s]) /\ cast[s][Len(written[s]) + 1] = frame[s]
    <3>. DEFINE a == written[s]  y == InFlight(s)  q == queue[s]  p == Pending(s)
                c == cast[s]  x == frame[s]
    <3>1. /\ a \in Seq(Frames) /\ q \in Seq(Frames) /\ p \in Seq(Frames)
          /\ x \in Frames /\ y = <<x>> /\ a \o y \o q \o p = c
      BY <2>1, <2>2
    <3>. HIDE DEF a, y, q, p, c, x
    <3>2. Len(a) < Len(c) /\ c[Len(a) + 1] = x
      BY ONLY <3>1, NextInStream
    <3>. QED  BY <3>2 DEF a, c, x
  <2>4. Feed!Deliver(s)
    BY <1>3, <2>3 DEF WriteOk, Feed!Deliver, TypeInv, TypeOK
  <2>. QED  BY <2>4 DEF Feed!Next
<1>4. ASSUME NEW f \in Frames, Broadcast(f)
      PROVE  Feed!Next
  <2>1. Feed!Publish(f)
    BY <1>4 DEF Broadcast, Admits, Feed!Publish, Feed!Wants, TypeInv, TypeOK
  <2>. QED  BY <2>1 DEF Feed!Next
<1>5. ASSUME NEW s \in Calls,
             \/ Loop(s) \/ Test(s) \/ Block(s) \/ Relock(s) \/ Spurious(s) \/ Drain(s)
             \/ WriteFails(s) \/ Push(s) \/ Mark(s) \/ Notify(s)
      PROVE  UNCHANGED Feed!vars
  BY <1>5 DEF Loop, Test, Block, Relock, Spurious, Drain, WriteFails, Push,
              Mark, Notify, Feed!vars
<1>6. CASE EndBroadcast \/ JoinAsio \/ Shutdown \/ EndShutdown \/ CloseServer
           \/ Exited \/ UNCHANGED vars
  BY <1>6 DEF EndBroadcast, JoinAsio, Shutdown, EndShutdown, CloseServer, Exited,
              vars, Feed!vars
<1>. QED
  BY <1>1, <1>2, <1>3, <1>4, <1>5, <1>6
     DEF Next, CallThread, Client, AsioThread, MainThread

\* The threads, queues and mutexes of the service implement the feed: every step
\* is one of the feed's or does not show.
THEOREM FeedCorrect == Spec => FeedSpec
<1>1. Init => Feed!Init /\ Fresh /\ Over
  BY DEF Init, Feed!Init, Fresh, Over
<1>2. Spec => []TypeInv
  BY TypeInit, TypeStep, PTL DEF Spec
<1>3. Spec => []Fresh /\ []Over
  BY <1>1, <1>2, FreshStep, OverStep, PTL DEF Spec
<1>4. Spec => []FeedInv
  BY <1>2, <1>3, OrderCorrect, PTL DEF FeedInv
<1>. QED  BY <1>1, <1>4, FeedStep, PTL DEF Spec, FeedSpec, Feed!Spec
=============================================================================
