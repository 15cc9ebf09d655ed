---------------------------- MODULE RemoteProofs ----------------------------
(***************************************************************************)
(* Theorems about a caneo that takes its frames from another one, for any  *)
(* interfaces and any bounds.                                              *)
(***************************************************************************)
EXTENDS Remote, SequenceLemmas

\* A socket that is drained is open.  A call beyond the first is made after a
\* fault; while one is live the thread is reading it, and a thread that is not
\* told to stop gives it up only when it is broken.
Counted ==
  /\ drain \subseteq sockets
  /\ \A i \in Interfaces :
       /\ session[i] <= faults + 1
       /\ link[i] = "live" => session[i] > 0 /\ reader[i] \in {"check", "read", "close"}
       /\ link[i] # "live" /\ (running[i] \/ reader[i] \in {"context", "call"})
            => session[i] <= faults
       /\ ctx[i] = "cancelled" => ~running[i]
       /\ reader[i] = "close" /\ running[i] => link[i] = "broken"

\* A call is fed the frames of the socket it asks for.  What the client has been
\* given of a call is a prefix of that, and what it has read a prefix of what it
\* has been given.  A call that has not been made is not fed.
Fed ==
  /\ \A i \in Interfaces : \A k \in 1..Len(rx[i]) : rx[i][k].interface = i
  /\ \A c \in open : c[2] <= session[c[1]]
  /\ \A c \in Calls :
       /\ c[2] <= session[c[1]] => filter[c] = c[1]
       /\ Len(feed[c]) + Len(rx[c[1]]) <= bus
       /\ taken[c] <= Len(got[c]) /\ Len(got[c]) <= Len(feed[c])
       /\ \A k \in 1..Len(got[c]) : got[c][k] = feed[c][k]
       /\ c[2] > session[c[1]] => feed[c] = <<>>

TypeInv == TypeOK /\ Counted /\ Fed

Rising(s) == \A k, l \in 1..Len(s) : k < l => s[k].id < s[l].id
Below(s, t) == \A k \in 1..Len(s) : \A l \in 1..Len(t) : s[k].id < t[l].id

\* The order of the bus: in a receive buffer, from what a call was fed to the
\* buffer, and from what was given to the client of an earlier call to what a
\* later one was fed.
Ordered ==
  /\ \A i \in Interfaces : Rising(rx[i]) /\ \A k \in 1..Len(rx[i]) : rx[i][k].id <= bus
  /\ \A c \in Calls :
       /\ Rising(feed[c]) /\ Below(feed[c], rx[c[1]])
       /\ \A k \in 1..Len(feed[c]) : feed[c][k].interface = c[1] /\ feed[c][k].id <= bus
  /\ \A c, d \in Calls : c[1] = d[1] /\ c[2] < d[2] => Below(got[c], feed[d])

\* What was read of each call, and where each frame of it is from.
Parts(i) == [n \in 1..session[i] |-> SubSeq(feed[<<i, n>>], 1, taken[<<i, n>>])]
Given(i) ==
  {f \in Frames : \E c \in Calls : /\ c[1] = i /\ c[2] <= session[i]
                                  /\ \E l \in 1..taken[c] : f = got[c][l]}
Read ==
  \A i \in Interfaces :
    /\ Rising(Taken(i)) /\ Taken(i) = FlattenSeq(Parts(i))
    /\ \A k \in 1..Len(Taken(i)) : Taken(i)[k] \in Given(i)

RemoteInv == TypeInv /\ Ordered /\ Read

-----------------------------------------------------------------------------
(* The types.                                                              *)

ServerType ==
  /\ server \in {"up", "down"} /\ bus \in 0..MaxFrames
  /\ sockets \subseteq Interfaces /\ drain \in {{}} \cup {{i} : i \in Interfaces}
  /\ deaf \subseteq sockets \ drain /\ armed = sockets \ (drain \cup deaf)
  /\ rx \in [Interfaces -> Seq(Frames)] /\ \A i \in Interfaces : Len(rx[i]) <= MaxRx
StreamType ==
  /\ open \subseteq Calls /\ filter \in [Calls -> Interfaces \cup {Everything}]
  /\ feed \in [Calls -> Seq(Frames)] /\ got \in [Calls -> Seq(Frames)]
ReadingType ==
  /\ running \in [Interfaces -> BOOLEAN]
  /\ reader \in [Interfaces -> {"loop", "context", "call", "check", "read",
                                "close", "sleep", "out"}]
  /\ session \in [Interfaces -> 0..MaxFaults + 1]
  /\ link \in [Interfaces -> {"none", "live", "broken", "silent"}]
  /\ ctx \in [Interfaces -> {"null", "set", "cancelled"}]
  /\ taken \in [Calls -> 0..MaxFrames]
HandlingType ==
  /\ posts \in Seq(Frames) /\ handed \in [Interfaces -> Seq(Frames)]
  /\ asio \in {"idle", "asked", "answered", "lost"} /\ sends \in 0..MaxSends
  /\ main \in {"running", "stopping", "halt", "cancel", "join", "over"}
  /\ faults \in 0..MaxFaults

LEMMA Types == TypeOK <=> ServerType /\ StreamType /\ ReadingType /\ HandlingType
BY DEF TypeOK, ServerType, StreamType, ReadingType, HandlingType

LEMMA TypesPrime == TypeOK' <=> ServerType' /\ StreamType' /\ ReadingType' /\ HandlingType'
BY DEF TypeOK, ServerType, StreamType, ReadingType, HandlingType

\* What each part of the invariant depends on.
LEMMA SameServer == ServerType /\ UNCHANGED served => ServerType'
BY DEF ServerType, served
LEMMA SameStream == StreamType /\ UNCHANGED streamed => StreamType'
BY DEF StreamType, streamed
LEMMA SameReading == ReadingType /\ UNCHANGED reading => ReadingType'
BY DEF ReadingType, reading
LEMMA SameHandling == HandlingType /\ UNCHANGED <<handling, main, faults>> => HandlingType'
BY DEF HandlingType, handling
LEMMA SameCounted == Counted /\ UNCHANGED <<drain, sockets, reading, faults>> => Counted'
BY DEF Counted, reading
LEMMA SameFed ==
  Fed /\ UNCHANGED <<streamed, taken, session, rx, bus>> => Fed'
<1>. SUFFICES ASSUME Fed, UNCHANGED <<streamed, taken, session, rx, bus>>
              PROVE  Fed'
  OBVIOUS
<1>1. /\ open' = open /\ filter' = filter /\ feed' = feed /\ got' = got
      /\ taken' = taken /\ session' = session /\ rx' = rx /\ bus' = bus
  BY DEF streamed
<1>. QED  BY <1>1, Zenon DEF Fed

LEMMA CallType ==
  ASSUME ReadingType, NEW i \in Interfaces, session[i] > 0
  PROVE  /\ Call(i) \in Calls /\ Call(i)[1] = i /\ Call(i)[2] = session[i]
         /\ session[i] \in 1..MaxFaults + 1
<1>1. session[i] \in 1..MaxFaults + 1
  BY RemoteAssumption DEF ReadingType
<1>. QED  BY <1>1 DEF Call, Calls

\* A socket takes a frame from the bus.
LEMMA ReceiveType ==
  ASSUME ServerType, NEW i \in Interfaces, Receive(i),
         UNCHANGED <<sockets, armed, deaf, drain>>, server' \in {"up", "down"}
  PROVE  /\ ServerType'
         /\ bus' = bus + 1
         /\ \A j \in Interfaces : /\ rx[j] \in Seq(Frames)
                                  /\ Len(rx'[j]) = IF j = i THEN Len(rx[j]) + 1 ELSE Len(rx[j])
<1>. DEFINE x == [id |-> bus + 1, interface |-> i]
<1>1. x \in Frames
  BY RemoteAssumption DEF Receive, ServerType, Frames
<1>2. bus' = bus + 1 /\ bus' \in 0..MaxFrames
  BY RemoteAssumption DEF Receive, ServerType
<1>3. rx[i] \in Seq(Frames)
  BY DEF ServerType
<1>4. /\ Append(rx[i], x) \in Seq(Frames)
      /\ Len(Append(rx[i], x)) = Len(rx[i]) + 1
  BY <1>1, <1>3, AppendProperties
<1>5. rx' = [rx EXCEPT ![i] = Append(rx[i], x)] /\ Len(rx[i]) < MaxRx
  BY DEF Receive
<1>. HIDE DEF x
<1>6. \A j \in Interfaces : rx'[j] = IF j = i THEN Append(rx[i], x) ELSE rx[j]
  BY <1>5 DEF ServerType
<1>7. rx' \in [Interfaces -> Seq(Frames)]
  BY <1>4, <1>5 DEF ServerType
<1>8. \A j \in Interfaces : rx[j] \in Seq(Frames) /\ Len(rx[j]) \in Nat
  BY DEF ServerType
<1>9. Len(rx'[i]) = Len(rx[i]) + 1 /\ \A j \in Interfaces : j # i => Len(rx'[j]) = Len(rx[j])
  BY <1>4, <1>6
<1>10. \A j \in Interfaces : Len(rx'[j]) <= MaxRx
  BY <1>5, <1>8, <1>9, RemoteAssumption DEF ServerType
<1>11. ServerType'
  BY <1>2, <1>7, <1>10 DEF ServerType
<1>. QED  BY <1>2, <1>8, <1>9, <1>11

\* The other steps of the server.
LEMMA ServerStep ==
  ASSUME ServerType, drain \subseteq sockets,
         \/ StartServer \/ \E l \in {"broken", "silent"} : StopServer(l)
         \/ \E i \in Interfaces :
              \/ OpenSocket(i) \/ Ready(i) \/ WaitFails(i) \/ ReadFrame(i) \/ Rearm(i)
  PROVE  /\ ServerType' /\ (drain \subseteq sockets)'
         /\ bus' = bus /\ bus \in Nat
         /\ \A j \in Interfaces : /\ Len(rx[j]) \in Nat /\ Len(rx'[j]) \in Nat
                                  /\ Len(rx'[j]) <= Len(rx[j])
<1>1. bus \in Nat /\ \A j \in Interfaces : rx[j] \in Seq(Frames) /\ Len(rx[j]) \in Nat
  BY RemoteAssumption DEF ServerType
<1>2. CASE StartServer
  BY <1>1, <1>2 DEF StartServer, ServerType
<1>3. ASSUME NEW l \in {"broken", "silent"}, StopServer(l)
      PROVE  /\ ServerType' /\ (drain \subseteq sockets)' /\ bus' = bus
             /\ \A j \in Interfaces : Len(rx'[j]) = 0
  <2>1. rx' = [j \in Interfaces |-> <<>>] /\ Len(<<>>) = 0 /\ <<>> \in Seq(Frames)
    BY <1>3, EmptySeq DEF StopServer
  <2>. QED  BY <1>3, <2>1, RemoteAssumption DEF StopServer, ServerType
<1>4. ASSUME NEW i \in Interfaces, OpenSocket(i)
      PROVE  ServerType' /\ (drain \subseteq sockets)' /\ UNCHANGED <<bus, rx>>
  BY <1>4 DEF OpenSocket, ServerType
<1>5. ASSUME NEW i \in Interfaces, Ready(i)
      PROVE  ServerType' /\ (drain \subseteq sockets)' /\ UNCHANGED <<bus, rx>>
  BY <1>5 DEF Ready, ServerType
<1>6. ASSUME NEW i \in Interfaces, ReadFrame(i)
      PROVE  /\ ServerType' /\ (drain \subseteq sockets)' /\ bus' = bus
             /\ \A j \in Interfaces : Len(rx'[j]) \in Nat /\ Len(rx'[j]) <= Len(rx[j])
  <2>1. rx' = [rx EXCEPT ![i] = Tail(rx[i])] /\ rx[i] # <<>>
    BY <1>6 DEF ReadFrame
  <2>2. Tail(rx[i]) \in Seq(Frames) /\ Len(Tail(rx[i])) = Len(rx[i]) - 1
    BY <1>1, <2>1, HeadTailProperties
  <2>3. rx' \in [Interfaces -> Seq(Frames)]
    BY <2>1, <2>2 DEF ServerType
  <2>4. \A j \in Interfaces : rx'[j] = IF j = i THEN Tail(rx[i]) ELSE rx[j]
    BY <2>1 DEF ServerType
  <2>5. Len(rx[i]) # 0
    BY <1>1, <2>1, EmptySeq
  <2>6. Len(Tail(rx[i])) \in Nat /\ Len(Tail(rx[i])) <= Len(rx[i])
    BY <1>1, <2>2, <2>5
  <2>7. \A j \in Interfaces : Len(rx'[j]) \in Nat /\ Len(rx'[j]) <= Len(rx[j])
    <3>. SUFFICES ASSUME NEW j \in Interfaces
                  PROVE  Len(rx'[j]) \in Nat /\ Len(rx'[j]) <= Len(rx[j])
      OBVIOUS
    <3>1. CASE j = i
      BY <2>4, <2>6, <3>1
    <3>2. CASE j # i
      BY <1>1, <2>4, <3>2
    <3>. QED  BY <3>1, <3>2
  <2>8. \A j \in Interfaces : Len(rx'[j]) <= MaxRx
    BY <1>1, <2>7, RemoteAssumption DEF ServerType
  <2>. QED  BY <1>6, <2>3, <2>7, <2>8 DEF ReadFrame, ServerType
<1>7. ASSUME NEW i \in Interfaces, Rearm(i)
      PROVE  ServerType' /\ (drain \subseteq sockets)' /\ UNCHANGED <<bus, rx>>
  <2>1. drain = {i} /\ i \in sockets
    BY <1>7 DEF Rearm, ServerType
  <2>2. /\ deaf' \subseteq sockets' \ drain' /\ drain' = {}
        /\ armed' = sockets' \ (drain' \cup deaf')
    BY <1>7, <2>1 DEF Rearm, ServerType
  <2>. QED  BY <1>7, <2>2 DEF Rearm, ServerType
<1>8. ASSUME NEW i \in Interfaces, WaitFails(i)
      PROVE  ServerType' /\ (drain \subseteq sockets)' /\ UNCHANGED <<bus, rx>>
  BY <1>8 DEF WaitFails, ServerType
<1>. QED  BY <1>1, <1>2, <1>3, <1>4, <1>5, <1>6, <1>7, <1>8

\* A call has been fed no more than the bus has carried, and there is always a
\* frame of a call to read before one is read.
LEMMA Lengths ==
  ASSUME TypeInv, NEW c \in Calls
  PROVE  /\ c[1] \in Interfaces /\ c[2] \in Nat
         /\ feed[c] \in Seq(Frames) /\ got[c] \in Seq(Frames)
         /\ Len(feed[c]) \in 0..MaxFrames /\ Len(got[c]) \in 0..MaxFrames
         /\ taken[c] \in Nat /\ rx[c[1]] \in Seq(Frames) /\ Len(rx[c[1]]) \in Nat
         /\ bus \in Nat /\ session[c[1]] \in Nat
<1>1. c[1] \in Interfaces /\ c[2] \in Nat
  BY DEF Calls
<1>2. /\ feed[c] \in Seq(Frames) /\ got[c] \in Seq(Frames) /\ rx[c[1]] \in Seq(Frames)
      /\ taken[c] \in Nat /\ bus \in 0..MaxFrames /\ session[c[1]] \in Nat
  BY <1>1, RemoteAssumption DEF TypeInv, TypeOK
<1>3. Len(feed[c]) \in Nat /\ Len(got[c]) \in Nat /\ Len(rx[c[1]]) \in Nat
  BY <1>2, LenProperties
<1>4. Len(feed[c]) + Len(rx[c[1]]) <= bus /\ Len(got[c]) <= Len(feed[c])
  BY DEF TypeInv, Fed
<1>5. Len(feed[c]) <= MaxFrames
  <2>. DEFINE a == Len(feed[c])
              b == Len(rx[c[1]])
  <2>1. a \in Nat /\ b \in Nat /\ a + b <= bus
    BY <1>3, <1>4
  <2>2. bus \in Nat /\ bus <= MaxFrames /\ MaxFrames \in Nat
    BY <1>2, RemoteAssumption
  <2>. HIDE DEF a, b
  <2>3. a <= MaxFrames
    BY <2>1, <2>2
  <2>. QED  BY <2>3 DEF a
<1>. QED  BY <1>1, <1>2, <1>3, <1>4, <1>5, RemoteAssumption

\* The steps of a reader thread on the thread's own variables.
LEMMA ReaderStep ==
  ASSUME TypeInv, NEW i \in Interfaces, Reader(i)
  PROVE  ReadingType' /\ Counted'
<1>. ReadingType /\ Counted /\ faults \in 0..MaxFaults
  BY Types DEF TypeInv, HandlingType
<1>1. CASE Loop(i) \/ Check(i) \/ ReadFalse(i) \/ Sleep(i)
  <2>1. ReadingType'
    BY <1>1 DEF Loop, Check, ReadFalse, Sleep, Goto, ReadingType
  <2>2. Counted'
    BY <1>1 DEF Loop, Check, ReadFalse, Sleep, Goto, ReadingType, Counted, served
  <2>. QED  BY <2>1, <2>2
<1>2. CASE Context(i) \/ Close(i)
  <2>1. ReadingType'
    BY <1>2 DEF Context, Close, Goto, ReadingType
  <2>2. Counted'
    BY <1>2 DEF Context, Close, Goto, ReadingType, Counted, served
  <2>. QED  BY <2>1, <2>2
<1>3. CASE Subscribe(i)
  <2>1. session[i] <= faults /\ session[i] \in Nat
    BY <1>3 DEF Subscribe, Counted, ReadingType
  <2>2. session[i] + 1 \in 0..MaxFaults + 1
    BY <2>1, RemoteAssumption
  <2>3. reader' = [reader EXCEPT ![i] = "check"]
    BY <1>3 DEF Subscribe, Goto
  <2>4. CASE /\ session' = [session EXCEPT ![i] = session[i] + 1]
             /\ link' = [link EXCEPT ![i] = "live"] /\ ctx[i] = "set"
    <3>1. ReadingType'
      BY <1>3, <2>2, <2>3, <2>4 DEF Subscribe, ReadingType
    <3>2. Counted'
      BY <1>3, <2>1, <2>3, <2>4, RemoteAssumption DEF Subscribe, ReadingType, Counted, served
    <3>. QED  BY <3>1, <3>2
  <2>5. CASE session' = session /\ link' = [link EXCEPT ![i] = "broken"]
    <3>1. ReadingType'
      BY <1>3, <2>3, <2>5 DEF Subscribe, ReadingType
    <3>2. Counted'
      BY <1>3, <2>1, <2>3, <2>5, RemoteAssumption DEF Subscribe, ReadingType, Counted, served
    <3>. QED  BY <3>1, <3>2
  <2>. QED  BY <1>3, <2>4, <2>5 DEF Subscribe
<1>4. CASE ReadTrue(i)
  <2>1. /\ taken[Call(i)] < Len(got[Call(i)]) /\ session[i] > 0
        /\ taken' = [taken EXCEPT ![Call(i)] = taken[Call(i)] + 1]
        /\ reader' = [reader EXCEPT ![i] = "check"]
        /\ UNCHANGED <<drain, sockets, running, session, link, ctx, faults>>
    BY <1>4 DEF ReadTrue, Goto, served
  <2>2. Call(i) \in Calls
    BY <2>1, CallType
  <2>3. taken[Call(i)] + 1 \in 0..MaxFrames
    BY <2>1, <2>2, Lengths, RemoteAssumption
  <2>4. ReadingType'
    BY <2>1, <2>2, <2>3 DEF ReadingType
  <2>5. Counted'
    BY <2>1, <1>4 DEF ReadTrue, ReadingType, Counted
  <2>. QED  BY <2>4, <2>5
<1>. QED  BY <1>1, <1>2, <1>3, <1>4 DEF Reader


\* What the client counts changes with the end of it and with the connections.
LEMMA EndStep ==
  ASSUME ReadingType, Counted, faults \in Nat,
         \/ \E l \in {"broken", "silent"} : StopServer(l)
         \/ \E i \in Interfaces : Halt(i) \/ Break(i) \/ Silence(i)
         \/ TryCancel
  PROVE  ReadingType' /\ Counted'
<1>1. ASSUME NEW l \in {"broken", "silent"}, StopServer(l)
      PROVE  ReadingType' /\ Counted'
  <2>1. /\ link' = [i \in Interfaces |-> IF link[i] = "live" THEN l ELSE link[i]]
        /\ faults' = faults + 1 /\ drain' = {} /\ sockets' = {}
        /\ UNCHANGED <<running, reader, session, ctx, taken>>
    BY <1>1 DEF StopServer, Fault
  <2>2. ReadingType'
    BY <2>1 DEF ReadingType
  <2>3. Counted'
    BY <2>1 DEF ReadingType, Counted
  <2>. QED  BY <2>2, <2>3
<1>2. ASSUME NEW i \in Interfaces, Halt(i)
      PROVE  ReadingType' /\ Counted'
  BY <1>2 DEF Halt, ReadingType, Counted, served
<1>3. ASSUME NEW i \in Interfaces, Break(i) \/ Silence(i)
      PROVE  ReadingType' /\ Counted'
  <2>1. /\ \E l \in {"broken", "silent"} :
             link' = [link EXCEPT ![i] = l] /\ (link[i] = "live" \/ l = "broken")
        /\ faults' = faults + 1
        /\ UNCHANGED <<drain, sockets, running, reader, session, ctx, taken>>
    BY <1>3 DEF Break, Silence, Fault, served
  <2>2. ReadingType'
    BY <2>1 DEF ReadingType
  <2>3. Counted'
    BY <2>1 DEF ReadingType, Counted
  <2>. QED  BY <2>2, <2>3
<1>4. CASE TryCancel
  BY <1>4 DEF TryCancel, ReadingType, Counted, served
<1>. QED  BY <1>1, <1>2, <1>3, <1>4

\* What Fed says when frames come and go in the receive buffers alone.
LEMMA BufferFed ==
  ASSUME TypeInv, UNCHANGED <<filter, feed, got, taken, session>>, open' \subseteq open,
         bus' \in Nat,
         \A i \in Interfaces :
           /\ Len(rx'[i]) \in Nat /\ Len(rx'[i]) - Len(rx[i]) <= bus' - bus
           /\ \A k \in 1..Len(rx'[i]) : rx'[i][k].interface = i
  PROVE  Fed'
<1>1. ASSUME NEW c \in Calls
      PROVE  Len(feed[c]) + Len(rx'[c[1]]) <= bus'
  <2>. DEFINE a == Len(feed[c])
              b == Len(rx[c[1]])
              d == Len(rx'[c[1]])
  <2>1. c[1] \in Interfaces /\ a \in Nat /\ b \in Nat /\ bus \in Nat
    BY Lengths
  <2>2. d \in Nat /\ d - b <= bus' - bus
    BY <2>1
  <2>3. a + b <= bus
    BY DEF TypeInv, Fed
  <2>4. \A a1, b1, d1, m, n \in Nat :
          a1 + b1 <= m /\ d1 - b1 <= n - m => a1 + d1 <= n
    OBVIOUS
  <2>. HIDE DEF a, b, d
  <2>5. a + d <= bus'
    BY <2>1, <2>2, <2>3, <2>4, Zenon
  <2>. QED  BY <2>5 DEF a, d
<1>. QED  BY <1>1 DEF TypeInv, Fed

LEMMA StopFed ==
  ASSUME TypeInv, NEW l \in {"broken", "silent"}, StopServer(l)
  PROVE  StreamType' /\ Fed'
<1>1. /\ rx' = [i \in Interfaces |-> <<>>] /\ open' = {}
      /\ UNCHANGED <<filter, feed, got, taken, session, bus>>
  BY DEF StopServer
<1>2. StreamType /\ bus \in Nat /\ \A i \in Interfaces : Len(rx[i]) \in Nat
  BY Types, RemoteAssumption DEF TypeInv, ServerType
<1>3. StreamType'
  BY <1>1, <1>2 DEF StreamType
<1>4. \A i \in Interfaces : rx'[i] = <<>> /\ Len(rx'[i]) = 0
  BY <1>1
<1>. QED  BY <1>1, <1>2, <1>3, <1>4, BufferFed

LEMMA ReceiveFed ==
  ASSUME TypeInv, NEW i \in Interfaces, Receive(i), UNCHANGED <<streamed, taken, session>>,
         UNCHANGED <<sockets, armed, deaf, drain>>, server' \in {"up", "down"}
  PROVE  ServerType' /\ Fed'
<1>. DEFINE x == [id |-> bus + 1, interface |-> i]
<1>1. ServerType /\ rx[i] \in Seq(Frames) /\ bus \in Nat
  BY Types, RemoteAssumption DEF TypeInv, ServerType
<1>2. /\ ServerType' /\ bus' = bus + 1
      /\ \A j \in Interfaces : /\ rx[j] \in Seq(Frames)
                               /\ Len(rx'[j]) = IF j = i THEN Len(rx[j]) + 1 ELSE Len(rx[j])
  BY <1>1, ReceiveType
<1>3. \A j \in Interfaces : rx'[j] = IF j = i THEN Append(rx[i], x) ELSE rx[j]
  BY <1>1 DEF Receive, ServerType
<1>4. \A k \in 1..Len(rx[i])+1 : Append(rx[i], x)[k].interface = i
  <2>1. x.interface = i /\ Len(rx[i]) \in Nat
    BY <1>1
  <2>2. /\ \A k \in 1..Len(rx[i]) : Append(rx[i], x)[k] = rx[i][k]
        /\ Append(rx[i], x)[Len(rx[i])+1] = x
    BY <1>1, AppendProperties DEF Frames
  <2>3. \A k \in 1..Len(rx[i]) : rx[i][k].interface = i
    BY DEF TypeInv, Fed
  <2>. HIDE DEF x
  <2>4. \A k \in 1..Len(rx[i])+1 : k \in 1..Len(rx[i]) \/ k = Len(rx[i])+1
    BY <2>1
  <2>. QED  BY <2>1, <2>2, <2>3, <2>4
<1>5. ASSUME NEW j \in Interfaces
      PROVE  /\ Len(rx'[j]) \in Nat /\ Len(rx'[j]) - Len(rx[j]) <= bus' - bus
             /\ \A k \in 1..Len(rx'[j]) : rx'[j][k].interface = j
  <2>1. CASE j = i
    <3>1. Len(rx'[i]) = Len(rx[i]) + 1 /\ Len(rx[i]) \in Nat
      BY <1>1, <1>2
    <3>2. \A k \in 1..Len(rx'[i]) : rx'[i][k].interface = i
      BY <1>3, <1>4, <3>1
    <3>. QED  BY <1>1, <1>2, <2>1, <3>1, <3>2
  <2>2. CASE j # i
    BY <1>1, <1>2, <1>3, <2>2 DEF TypeInv, Fed
  <2>. QED  BY <2>1, <2>2
<1>. QED  BY <1>1, <1>2, <1>5, BufferFed DEF streamed

\* A frame that is read from a buffer goes to calls for its interface.
LEMMA ReadFrameSteps ==
  ASSUME TypeInv, NEW i \in Interfaces, ReadFrame(i)
  PROVE  /\ Head(rx[i]) \in Frames /\ Head(rx[i]) = rx[i][1] /\ Head(rx[i]).interface = i
         /\ Len(rx[i]) \in Nat \ {0} /\ Len(Tail(rx[i])) = Len(rx[i]) - 1
         /\ \A k \in 1..Len(rx[i]) - 1 : Tail(rx[i])[k] = rx[i][k+1]
         /\ \A j \in Interfaces : rx'[j] = IF j = i THEN Tail(rx[i]) ELSE rx[j]
         /\ \A c \in Calls :
              \/ feed'[c] = feed[c]
              \/ c \in open /\ c[1] = i /\ feed'[c] = Append(feed[c], Head(rx[i]))
         /\ feed' \in [Calls -> Seq(Frames)]
         /\ UNCHANGED <<open, filter, got, taken, session, bus>>
<1>1. rx[i] # <<>> /\ rx[i] \in Seq(Frames) /\ rx \in [Interfaces -> Seq(Frames)]
  BY DEF ReadFrame, TypeInv, TypeOK
<1>2. Len(rx[i]) \in Nat \ {0}
  BY <1>1, EmptySeq
<1>3. /\ Head(rx[i]) \in Frames /\ Head(rx[i]) = rx[i][1]
      /\ Len(Tail(rx[i])) = Len(rx[i]) - 1
      /\ \A k \in 1..Len(rx[i]) - 1 : Tail(rx[i])[k] = rx[i][k+1]
  BY <1>1, HeadTailProperties
<1>4. Head(rx[i]).interface = i
  BY <1>2, <1>3 DEF TypeInv, Fed
<1>5. \A j \in Interfaces : rx'[j] = IF j = i THEN Tail(rx[i]) ELSE rx[j]
  BY <1>1 DEF ReadFrame
<1>. DEFINE f == Head(rx[i])
<1>6. /\ feed' = [s \in Calls |-> IF s \in open /\ Feed!Wants(s, f) THEN Append(feed[s], f)
                                                                    ELSE feed[s]]
      /\ UNCHANGED <<open, filter, got, taken, session, bus>>
  BY DEF ReadFrame, Feed!Publish, reading
<1>7. ASSUME NEW c \in Calls, c \in open, Feed!Wants(c, f)
      PROVE  c[1] = i
  <2>1. filter[c] = c[1] /\ c[1] \in Interfaces
    BY <1>7, Lengths DEF TypeInv, Fed
  <2>2. f.interface = i /\ i # Everything /\ c[1] # Everything
    BY <1>4, <2>1, RemoteAssumption
  <2>. HIDE DEF f
  <2>. QED  BY <1>7, <2>1, <2>2 DEF Feed!Wants
<1>8. ASSUME NEW c \in Calls
      PROVE  feed[c] \in Seq(Frames) /\ Append(feed[c], f) \in Seq(Frames)
  <2>1. feed[c] \in Seq(Frames) /\ f \in Frames
    BY <1>3 DEF TypeInv, TypeOK
  <2>. HIDE DEF f
  <2>. QED  BY <2>1, AppendProperties
<1>9. \A c \in Calls : \/ feed'[c] = feed[c]
                       \/ c \in open /\ c[1] = i /\ feed'[c] = Append(feed[c], f)
  <2>. HIDE DEF f
  <2>. QED  BY <1>6, <1>7
<1>10. feed' \in [Calls -> Seq(Frames)]
  <2>. HIDE DEF f
  <2>. QED  BY <1>6, <1>8
<1>. QED  BY <1>2, <1>3, <1>4, <1>5, <1>6, <1>9, <1>10

\* A step that adds at most one frame to what a call was fed keeps what was read
\* of it a prefix.
LEMMA ReadFrameFed ==
  ASSUME TypeInv, NEW i \in Interfaces, ReadFrame(i)
  PROVE  StreamType' /\ Fed'
<1>. DEFINE f == Head(rx[i])
<1>0. /\ Len(rx[i]) \in Nat \ {0} /\ Len(Tail(rx[i])) = Len(rx[i]) - 1 /\ f \in Frames
      /\ \A k \in 1..Len(rx[i]) - 1 : Tail(rx[i])[k] = rx[i][k+1]
      /\ \A j \in Interfaces : rx'[j] = IF j = i THEN Tail(rx[i]) ELSE rx[j]
      /\ \A c \in Calls : \/ feed'[c] = feed[c]
                          \/ c \in open /\ c[1] = i /\ feed'[c] = Append(feed[c], f)
      /\ feed' \in [Calls -> Seq(Frames)]
      /\ UNCHANGED <<open, filter, got, taken, session, bus>>
  BY ReadFrameSteps
<1>. HIDE DEF f
<1>1. StreamType'
  BY <1>0, Types DEF TypeInv, StreamType
<1>2. \A j \in Interfaces : \A k \in 1..Len(rx'[j]) : rx'[j][k].interface = j
  <2>. SUFFICES ASSUME NEW j \in Interfaces, NEW k \in 1..Len(rx'[j])
                PROVE  rx'[j][k].interface = j
    OBVIOUS
  <2>1. CASE j = i
    <3>1. rx'[j] = Tail(rx[i])
      BY <1>0, <2>1
    <3>2. Len(rx'[j]) = Len(rx[i]) - 1
      BY <1>0, <3>1, Zenon
    <3>3. k \in 1..Len(rx[i]) - 1 /\ k + 1 \in 1..Len(rx[i])
      BY <1>0, <3>2
    <3>4. rx'[j][k] = rx[i][k+1]
      BY <1>0, <3>1, <3>3, Zenon
    <3>5. rx[i][k+1].interface = i
      BY <3>3 DEF TypeInv, Fed
    <3>. QED  BY <2>1, <3>4, <3>5
  <2>2. CASE j # i
    BY <1>0, <2>2 DEF TypeInv, Fed
  <2>. QED  BY <2>1, <2>2
<1>3. ASSUME NEW c \in Calls
      PROVE  /\ Len(feed'[c]) + Len(rx'[c[1]]) <= bus
             /\ Len(feed[c]) <= Len(feed'[c])
             /\ \A k \in 1..Len(feed[c]) : feed'[c][k] = feed[c][k]
  <2>1. /\ c[1] \in Interfaces /\ feed[c] \in Seq(Frames) /\ bus \in Nat
        /\ Len(feed[c]) \in Nat /\ Len(rx[c[1]]) \in Nat
    BY Lengths
  <2>2. Len(feed[c]) + Len(rx[c[1]]) <= bus
    BY DEF TypeInv, Fed
  <2>3. Len(rx'[c[1]]) = IF c[1] = i THEN Len(rx[c[1]]) - 1 ELSE Len(rx[c[1]])
    BY <1>0, <2>1
  <2>4. CASE feed'[c] = feed[c]
    <3>1. \A a, b, m \in Nat : a + b <= m => a + (b - 1) <= m
      OBVIOUS
    <3>2. Len(feed[c]) + Len(rx'[c[1]]) <= bus
      <4>1. CASE c[1] = i
        <5>1. Len(rx'[c[1]]) = Len(rx[c[1]]) - 1
          BY <2>3, <4>1
        <5>. QED  BY <2>1, <2>2, <3>1, <5>1, Zenon
      <4>2. CASE c[1] # i
        <5>1. Len(rx'[c[1]]) = Len(rx[c[1]])
          BY <2>3, <4>2
        <5>. QED  BY <2>2, <5>1, Zenon
      <4>. QED  BY <4>1, <4>2
    <3>3. Len(feed[c]) <= Len(feed[c])
      BY <2>1
    <3>. QED  BY <2>4, <3>2, <3>3, Zenon
  <2>5. CASE c[1] = i /\ feed'[c] = Append(feed[c], f)
    <3>1. /\ Len(feed'[c]) = Len(feed[c]) + 1
          /\ \A k \in 1..Len(feed[c]) : feed'[c][k] = feed[c][k]
      BY <1>0, <2>1, <2>5, AppendProperties
    <3>2. Len(rx'[c[1]]) = Len(rx[c[1]]) - 1
      BY <2>3, <2>5
    <3>3. \A a, b, m \in Nat : a + b <= m => (a + 1) + (b - 1) <= m
      OBVIOUS
    <3>4. Len(feed'[c]) + Len(rx'[c[1]]) <= bus
      BY <2>1, <2>2, <3>1, <3>2, <3>3, Zenon
    <3>5. Len(feed[c]) <= Len(feed'[c])
      BY <2>1, <3>1
    <3>. QED  BY <3>1, <3>4, <3>5
  <2>. QED  BY <1>0, <2>4, <2>5
<1>4. \A c \in open' : c[2] <= session'[c[1]]
  BY <1>0 DEF TypeInv, Fed
<1>5. ASSUME NEW c \in Calls
      PROVE  /\ c[2] <= session'[c[1]] => filter'[c] = c[1]
             /\ Len(feed'[c]) + Len(rx'[c[1]]) <= bus'
             /\ taken'[c] <= Len(got'[c]) /\ Len(got'[c]) <= Len(feed'[c])
             /\ \A k \in 1..Len(got'[c]) : got'[c][k] = feed'[c][k]
             /\ c[2] > session'[c[1]] => feed'[c] = <<>>
  <2>1. /\ c[2] <= session[c[1]] => filter[c] = c[1]
        /\ taken[c] <= Len(got[c]) /\ Len(got[c]) <= Len(feed[c])
        /\ \A k \in 1..Len(got[c]) : got[c][k] = feed[c][k]
        /\ c[2] > session[c[1]] => feed[c] = <<>>
        /\ c \in open => c[2] <= session[c[1]]
    BY DEF TypeInv, Fed
  <2>2. /\ Len(feed[c]) \in Nat /\ Len(got[c]) \in Nat /\ Len(feed'[c]) \in Nat
        /\ c[2] \in Nat /\ session[c[1]] \in Nat
    BY <1>0, Lengths, LenProperties
  <2>3. Len(got[c]) <= Len(feed'[c])
    <3>1. \A a, b, m \in Nat : a <= b /\ b <= m => a <= m
      OBVIOUS
    <3>. QED  BY <1>3, <2>1, <2>2, <3>1
  <2>4. \A k \in 1..Len(got[c]) : got[c][k] = feed'[c][k]
    <3>1. \A k \in 1..Len(got[c]) : k \in 1..Len(feed[c])
      BY <2>1, <2>2
    <3>. QED  BY <1>3, <2>1, <3>1
  <2>5. c[2] > session[c[1]] => feed'[c] = <<>>
    BY <1>0, <2>1, <2>2
  <2>. QED  BY <1>0, <1>3, <2>1, <2>3, <2>4, <2>5
<1>. QED  BY <1>1, <1>2, <1>4, <1>5 DEF Fed
\* The steps of a call.
LEMMA CallFed ==
  ASSUME TypeInv, NEW i \in Interfaces, Register(i) \/ Deliver(i)
  PROVE  StreamType' /\ Fed'
<1>. ReadingType /\ StreamType /\ session[i] > 0
  BY Types DEF TypeInv, Counted, Register, Deliver
<1>. DEFINE c == Call(i)
<1>1. c \in Calls /\ c[1] = i /\ c[2] = session[i]
  BY CallType
<1>. HIDE DEF c
<1>2. CASE Register(i)
  <2>1. open' = open \cup {c} /\ UNCHANGED <<filter, feed, got, taken, session, rx, bus>>
    BY <1>2 DEF Register, Feed!Subscribe, served, reading, c
  <2>2. StreamType'
    BY <1>1, <2>1 DEF StreamType
  <2>3. \A d \in open' : d[2] <= session'[d[1]]
    <3>1. session[i] <= session[i]
      BY DEF ReadingType
    <3>. QED  BY <1>1, <2>1, <3>1 DEF TypeInv, Fed
  <2>. QED  BY <2>1, <2>2, <2>3 DEF TypeInv, Fed
<1>3. CASE Deliver(i)
  <2>. DEFINE x == feed[c][Len(got[c]) + 1]
  <2>1. /\ Len(got[c]) < Len(feed[c]) /\ got' = [got EXCEPT ![c] = Append(got[c], x)]
        /\ UNCHANGED <<open, filter, feed, taken, session, rx, bus>>
    BY <1>3 DEF Deliver, Feed!Deliver, served, reading, c
  <2>2. /\ got[c] \in Seq(Frames) /\ feed[c] \in Seq(Frames)
        /\ Len(got[c]) \in Nat /\ Len(feed[c]) \in Nat /\ taken[c] \in Nat
    BY <1>1, Lengths
  <2>3. x \in Frames
    BY <2>1, <2>2, ElementOfSeq
  <2>4. /\ Append(got[c], x) \in Seq(Frames)
        /\ Len(Append(got[c], x)) = Len(got[c]) + 1
        /\ \A k \in 1..Len(got[c]) : Append(got[c], x)[k] = got[c][k]
        /\ Append(got[c], x)[Len(got[c]) + 1] = x
    <3>. HIDE DEF x
    <3>. QED  BY <2>2, <2>3, AppendProperties
  <2>5. StreamType'
    <3>. HIDE DEF x
    <3>. QED  BY <1>1, <2>1, <2>4 DEF StreamType
  <2>6. \A d \in Calls : got'[d] = IF d = c THEN Append(got[c], x) ELSE got[d]
    <3>. HIDE DEF x
    <3>. QED  BY <2>1 DEF StreamType
  <2>7. \A k \in 1..Len(got[c]) + 1 : Append(got[c], x)[k] = feed[c][k]
    <3>1. \A k \in 1..Len(got[c]) : got[c][k] = feed[c][k]
      BY <1>1 DEF TypeInv, Fed
    <3>2. \A k \in 1..Len(got[c]) + 1 : k \in 1..Len(got[c]) \/ k = Len(got[c]) + 1
      BY <2>2
    <3>3. x = feed[c][Len(got[c]) + 1]
      OBVIOUS
    <3>. HIDE DEF x
    <3>. QED  BY <2>4, <3>1, <3>2, <3>3
  <2>8. ASSUME NEW d \in Calls
        PROVE  /\ taken[d] <= Len(got'[d]) /\ Len(got'[d]) <= Len(feed[d])
               /\ \A k \in 1..Len(got'[d]) : got'[d][k] = feed[d][k]
    <3>1. /\ taken[d] <= Len(got[d]) /\ Len(got[d]) <= Len(feed[d])
          /\ \A k \in 1..Len(got[d]) : got[d][k] = feed[d][k]
      BY DEF TypeInv, Fed
    <3>2. CASE d # c
      BY <2>6, <3>1, <3>2
    <3>3. CASE d = c
      <4>1. Len(got'[d]) = Len(got[c]) + 1
        BY <2>4, <2>6, <3>3
      <4>2. \A k \in 1..Len(got'[d]) : got'[d][k] = feed[d][k]
        <5>. HIDE DEF x
        <5>. QED  BY <2>6, <2>7, <3>3, <4>1
      <4>. QED  BY <2>1, <2>2, <3>1, <3>3, <4>1, <4>2
    <3>. QED  BY <3>2, <3>3
  <2>9. \A d \in Calls : /\ d[2] <= session[d[1]] => filter[d] = d[1]
                         /\ Len(feed[d]) + Len(rx[d[1]]) <= bus
                         /\ taken[d] <= Len(got'[d]) /\ Len(got'[d]) <= Len(feed[d])
                         /\ \A k \in 1..Len(got'[d]) : got'[d][k] = feed[d][k]
                         /\ d[2] > session[d[1]] => feed[d] = <<>>
    BY <2>8 DEF TypeInv, Fed
  <2>10. /\ \A j \in Interfaces : \A k \in 1..Len(rx[j]) : rx[j][k].interface = j
         /\ \A d \in open : d[2] <= session[d[1]]
    BY DEF TypeInv, Fed
  <2>. HIDE DEF x
  <2>11. ASSUME NEW d \in Calls
         PROVE  /\ d[2] <= session'[d[1]] => filter'[d] = d[1]
                /\ Len(feed'[d]) + Len(rx'[d[1]]) <= bus'
                /\ taken'[d] <= Len(got'[d]) /\ Len(got'[d]) <= Len(feed'[d])
                /\ \A k \in 1..Len(got'[d]) : got'[d][k] = feed'[d][k]
                /\ d[2] > session'[d[1]] => feed'[d] = <<>>
    <3>1. /\ feed' = feed /\ filter' = filter /\ session' = session
          /\ taken' = taken /\ rx' = rx /\ bus' = bus
      BY <2>1
    <3>2. \A k \in 1..Len(got'[d]) : got'[d][k] = feed'[d][k]
      BY <2>9, <3>1
    <3>3. /\ Len(feed'[d]) + Len(rx'[d[1]]) <= bus'
          /\ taken'[d] <= Len(got'[d]) /\ Len(got'[d]) <= Len(feed'[d])
      BY <2>9, <3>1, Zenon
    <3>4. /\ d[2] <= session'[d[1]] => filter'[d] = d[1]
          /\ d[2] > session'[d[1]] => feed'[d] = <<>>
      BY <2>9, <3>1, Zenon
    <3>. QED  BY <3>2, <3>3, <3>4
  <2>12. /\ \A j \in Interfaces : \A k \in 1..Len(rx'[j]) : rx'[j][k].interface = j
         /\ \A d \in open' : d[2] <= session'[d[1]]
    BY <2>1, <2>10, Zenon
  <2>. QED  BY <2>5, <2>11, <2>12 DEF Fed
<1>. QED  BY <1>2, <1>3

\* A call that is made, and one whose client is gone.
LEMMA AskFed ==
  ASSUME TypeInv, NEW i \in Interfaces, Subscribe(i)
  PROVE  StreamType' /\ Fed'
<1>. ReadingType /\ StreamType /\ UNCHANGED <<rx, bus, taken>>
  BY Types DEF TypeInv, Subscribe, served
<1>1. CASE session' = session /\ UNCHANGED streamed
  BY <1>1, SameStream, SameFed DEF TypeInv
<1>2. CASE /\ session' = [session EXCEPT ![i] = session[i] + 1]
           /\ Feed!Ask(<<i, session[i] + 1>>, i)
  <2>. DEFINE c == <<i, session[i] + 1>>
  <2>1. session[i] \in Nat /\ c[1] = i /\ c[2] = session[i] + 1
    BY DEF ReadingType
  <2>2. /\ c \notin open /\ filter' = [filter EXCEPT ![c] = i]
        /\ UNCHANGED <<open, feed, got>>
    BY <1>2 DEF Feed!Ask
  <2>3. StreamType'
    BY <2>2 DEF StreamType
  <2>4. \A j \in Interfaces : /\ session[j] \in Nat /\ session'[j] \in Nat
                              /\ session[j] <= session'[j]
                              /\ session'[j] = IF j = i THEN session[j] + 1 ELSE session[j]
    BY <1>2, <2>1 DEF ReadingType
  <2>5. \A d \in open' : d[2] <= session'[d[1]]
    <3>. SUFFICES ASSUME NEW d \in open
                  PROVE  d[2] <= session'[d[1]]
      BY <2>2
    <3>1. d \in Calls /\ d[1] \in Interfaces /\ d[2] \in Nat
      BY Lengths DEF StreamType
    <3>2. d[2] <= session[d[1]]
      BY DEF TypeInv, Fed
    <3>3. \A a, b, m \in Nat : a <= b /\ b <= m => a <= m
      OBVIOUS
    <3>. QED  BY <2>4, <3>1, <3>2, <3>3, Zenon
  <2>6. ASSUME NEW d \in Calls
        PROVE  /\ d[2] <= session'[d[1]] => filter'[d] = d[1]
               /\ d[2] > session'[d[1]] => feed[d] = <<>>
    <3>1. d[1] \in Interfaces /\ d[2] \in Nat /\ d = <<d[1], d[2]>>
      BY DEF Calls
    <3>2. /\ d[2] <= session[d[1]] => filter[d] = d[1]
          /\ d[2] > session[d[1]] => feed[d] = <<>>
      BY DEF TypeInv, Fed
    <3>3. CASE d = c
      <4>1. filter'[d] = i
        BY <2>2, <3>3 DEF StreamType
      <4>. QED  BY <2>1, <2>4, <3>3, <4>1
    <3>4. CASE d # c
      <4>1. filter'[d] = filter[d]
        BY <2>2, <3>4 DEF StreamType
      <4>2. d[1] # i \/ d[2] # session[i] + 1
        BY <3>1, <3>4
      <4>3. d[2] <= session'[d[1]] => d[2] <= session[d[1]]
        BY <2>4, <3>1, <4>2
      <4>4. d[2] > session'[d[1]] => d[2] > session[d[1]]
        BY <2>4, <3>1
      <4>. QED  BY <3>2, <4>1, <4>3, <4>4
    <3>. QED  BY <3>3, <3>4
  <2>7. \A d \in Calls : /\ Len(feed[d]) + Len(rx[d[1]]) <= bus
                         /\ taken[d] <= Len(got[d]) /\ Len(got[d]) <= Len(feed[d])
                         /\ \A k \in 1..Len(got[d]) : got[d][k] = feed[d][k]
    BY DEF TypeInv, Fed
  <2>8. \A j \in Interfaces : \A k \in 1..Len(rx[j]) : rx[j][k].interface = j
    BY DEF TypeInv, Fed
  <2>. HIDE DEF c
  <2>. QED  BY <2>2, <2>3, <2>5, <2>6, <2>7, <2>8, Zenon DEF Fed
<1>. QED  BY <1>1, <1>2 DEF Subscribe

LEMMA LeaveFed ==
  ASSUME TypeInv, NEW c \in Calls, Leave(c)
  PROVE  StreamType' /\ Fed'
<1>1. open' \subseteq open /\ UNCHANGED <<filter, feed, got, taken, session, rx, bus>>
  BY DEF Leave, Feed!Cancel, served, reading
<1>2. StreamType'
  BY <1>1, Types DEF TypeInv, StreamType
<1>3. bus \in Nat /\ \A i \in Interfaces : Len(rx[i]) \in Nat
  BY Types, RemoteAssumption DEF TypeInv, ServerType
<1>. QED  BY <1>1, <1>2, <1>3, BufferFed DEF TypeInv, Fed

\* A frame that is read and posted, and one that is handed over.
LEMMA ReadTrueSteps ==
  ASSUME TypeInv, NEW i \in Interfaces, ReadTrue(i)
  PROVE  /\ session[i] \in Nat \ {0} /\ Call(i) \in Calls /\ Call(i) = <<i, session[i]>>
         /\ taken[Call(i)] + 1 \in 1..Len(got[Call(i)]) /\ taken[Call(i)] \in Nat
         /\ got[Call(i)][taken[Call(i)] + 1] \in Frames
         /\ \A d \in Calls : taken'[d] = IF d = Call(i) THEN taken[d] + 1 ELSE taken[d]
         /\ posts' = Append(posts, got[Call(i)][taken[Call(i)] + 1])
         /\ UNCHANGED <<served, streamed, session, handed>>
<1>. ReadingType
  BY Types DEF TypeInv
<1>1. session[i] > 0 /\ taken[Call(i)] < Len(got[Call(i)])
  BY DEF ReadTrue
<1>2. Call(i) \in Calls /\ Call(i) = <<i, session[i]>> /\ session[i] \in Nat \ {0}
  BY <1>1, CallType DEF Call, ReadingType
<1>3. taken[Call(i)] + 1 \in 1..Len(got[Call(i)]) /\ taken[Call(i)] \in Nat
  BY <1>1, <1>2, Lengths
<1>4. got[Call(i)][taken[Call(i)] + 1] \in Frames
  BY <1>2, <1>3, Lengths, ElementOfSeq
<1>5. \A d \in Calls : taken'[d] = IF d = Call(i) THEN taken[d] + 1 ELSE taken[d]
  BY DEF ReadTrue, ReadingType
<1>. QED  BY <1>2, <1>3, <1>4, <1>5 DEF ReadTrue

LEMMA ReadTrueFed ==
  ASSUME TypeInv, NEW i \in Interfaces, ReadTrue(i)
  PROVE  StreamType' /\ HandlingType' /\ Fed'
<1>. ReadingType /\ StreamType /\ HandlingType
  BY Types DEF TypeInv
<1>1. StreamType'
  BY ReadTrueSteps, SameStream
<1>2. HandlingType'
  <2>1. posts' \in Seq(Frames)
    <3>. DEFINE x == got[Call(i)][taken[Call(i)] + 1]
    <3>1. posts \in Seq(Frames) /\ x \in Frames /\ posts' = Append(posts, x)
      BY ReadTrueSteps DEF HandlingType
    <3>. HIDE DEF x
    <3>. QED  BY <3>1, AppendProperties
  <2>. QED  BY <2>1 DEF ReadTrue, HandlingType
<1>3. UNCHANGED <<open, filter, feed, got, session, rx, bus>>
  BY ReadTrueSteps DEF streamed, served
<1>4. \A d \in Calls : taken'[d] <= Len(got[d])
  <2>. SUFFICES ASSUME NEW d \in Calls
                PROVE  taken'[d] <= Len(got[d])
    OBVIOUS
  <2>1. CASE d = Call(i)
    BY <2>1, ReadTrueSteps, Lengths
  <2>2. CASE d # Call(i)
    BY <2>2, ReadTrueSteps DEF TypeInv, Fed
  <2>. QED  BY <2>1, <2>2
<1>. QED  BY <1>1, <1>2, <1>3, <1>4 DEF TypeInv, Fed

LEMMA HandType ==
  ASSUME TypeInv, Hand
  PROVE  HandlingType' /\ Head(posts) \in Frames /\ Tail(posts) \in Seq(Frames)
<1>. HandlingType
  BY Types DEF TypeInv
<1>1. Head(posts) \in Frames /\ Tail(posts) \in Seq(Frames)
  BY HeadTailProperties DEF Hand, HandlingType
<1>. DEFINE f == Head(posts)
<1>2. f.interface \in Interfaces
  BY <1>1 DEF Frames
<1>3. Append(handed[f.interface], f) \in Seq(Frames)
  <2>1. handed[f.interface] \in Seq(Frames) /\ f \in Frames
    BY <1>1, <1>2 DEF HandlingType
  <2>. HIDE DEF f
  <2>. QED  BY <2>1, AppendProperties
<1>4. handed' = [handed EXCEPT ![f.interface] = Append(handed[f.interface], f)]
  BY DEF Hand
<1>5. handed' \in [Interfaces -> Seq(Frames)]
  <2>. HIDE DEF f
  <2>. QED  BY <1>2, <1>3, <1>4 DEF HandlingType
<1>. QED  BY <1>1, <1>5 DEF Hand, HandlingType

LEMMA TypeStep == TypeInv /\ [Next]_vars => TypeInv'
<1>. SUFFICES ASSUME TypeInv, [Next]_vars
              PROVE  TypeInv'
  OBVIOUS
<1>. /\ ServerType /\ StreamType /\ ReadingType /\ HandlingType /\ Counted /\ Fed
     /\ drain \subseteq sockets /\ faults \in Nat /\ bus \in Nat
  BY Types, RemoteAssumption DEF TypeInv, Counted, HandlingType, ServerType
<1>. SUFFICES /\ ServerType' /\ StreamType' /\ ReadingType' /\ HandlingType'
              /\ Counted' /\ Fed'
  BY TypesPrime DEF TypeInv
<1>. DEFINE Kept == /\ ServerType' /\ StreamType' /\ ReadingType' /\ HandlingType'
                    /\ Counted' /\ Fed'
<1>1. CASE StartServer
  <2>1. ServerType' /\ (drain \subseteq sockets)'
    BY <1>1, ServerStep
  <2>2. UNCHANGED <<bus, rx, drain, sockets, streamed, reading, handling, main, faults>>
    BY <1>1 DEF StartServer
  <2>3. UNCHANGED <<taken, session>>
    BY <2>2 DEF reading
  <2>. QED  BY <2>1, <2>2, <2>3, SameStream, SameReading, SameHandling, SameCounted, SameFed
<1>2. ASSUME NEW l \in {"broken", "silent"}, StopServer(l)
      PROVE  Kept
  <2>1. ServerType' /\ ReadingType' /\ Counted'
    BY <1>2, ServerStep, EndStep
  <2>2. StreamType' /\ Fed'
    BY <1>2, StopFed
  <2>3. HandlingType'
    BY <1>2, RemoteAssumption DEF StopServer, Fault, handling, HandlingType
  <2>. QED  BY <2>1, <2>2, <2>3
<1>3. ASSUME NEW i \in Interfaces, OpenSocket(i) \/ Ready(i)
      PROVE  Kept
  <2>1. ServerType' /\ (drain \subseteq sockets)'
    BY <1>3, ServerStep
  <2>2. UNCHANGED <<bus, rx, streamed, reading, handling, main, faults>>
    BY <1>3 DEF OpenSocket, Ready
  <2>3. StreamType' /\ ReadingType' /\ HandlingType' /\ Fed'
    BY <2>2, SameStream, SameReading, SameHandling, SameFed DEF reading
  <2>4. Counted'
    BY <2>1, <2>2 DEF Counted, reading
  <2>. QED  BY <2>1, <2>3, <2>4
<1>4. ASSUME NEW i \in Interfaces, WaitFails(i) \/ Rearm(i)
      PROVE  Kept
  <2>1. ServerType' /\ (drain \subseteq sockets)'
    BY <1>4, ServerStep
  <2>2. /\ UNCHANGED <<bus, rx, streamed, reading, handling, main>>
        /\ faults' \in {faults, faults + 1} /\ faults' \in 0..MaxFaults
    BY <1>4, RemoteAssumption DEF WaitFails, Rearm, Fault, HandlingType
  <2>3. StreamType' /\ ReadingType' /\ Fed'
    BY <2>2, SameStream, SameReading, SameFed DEF reading
  <2>4. HandlingType'
    BY <2>2 DEF HandlingType, handling
  <2>5. Counted'
    BY <2>1, <2>2 DEF Counted, reading, ReadingType
  <2>. QED  BY <2>1, <2>3, <2>4, <2>5
<1>5. ASSUME NEW i \in Interfaces, OnBus(i)
      PROVE  Kept
  <2>1. ServerType' /\ Fed'
    BY <1>5, ReceiveFed DEF OnBus, reading, ServerType
  <2>2. UNCHANGED <<drain, sockets, streamed, reading, handling, main, faults>>
    BY <1>5 DEF OnBus
  <2>. QED  BY <2>1, <2>2, SameStream, SameReading, SameHandling, SameCounted
<1>6. ASSUME NEW i \in Interfaces, ReadFrame(i)
      PROVE  Kept
  <2>1. ServerType' /\ StreamType' /\ Fed'
    BY <1>6, ServerStep, ReadFrameFed
  <2>2. UNCHANGED <<drain, sockets, reading, handling, main, faults>>
    BY <1>6 DEF ReadFrame
  <2>. QED  BY <2>1, <2>2, SameReading, SameHandling, SameCounted
<1>7. ASSUME NEW i \in Interfaces, Register(i) \/ Deliver(i)
      PROVE  Kept
  <2>1. StreamType' /\ Fed'
    BY <1>7, CallFed
  <2>2. UNCHANGED <<served, reading, handling, main, faults>>
    BY <1>7 DEF Register, Deliver
  <2>3. UNCHANGED <<drain, sockets>>
    BY <2>2 DEF served
  <2>. QED  BY <2>1, <2>2, <2>3, SameServer, SameReading, SameHandling, SameCounted
<1>8. ASSUME NEW c \in Calls, Leave(c)
      PROVE  Kept
  <2>1. StreamType' /\ Fed'
    BY <1>8, LeaveFed
  <2>2. UNCHANGED <<served, reading, handling, main, faults>>
    BY <1>8 DEF Leave
  <2>3. UNCHANGED <<drain, sockets>>
    BY <2>2 DEF served
  <2>. QED  BY <2>1, <2>2, <2>3, SameServer, SameReading, SameHandling, SameCounted
<1>9. ASSUME NEW i \in Interfaces, Subscribe(i)
      PROVE  Kept
  <2>1. StreamType' /\ Fed' /\ ReadingType' /\ Counted'
    BY <1>9, AskFed, ReaderStep DEF Reader
  <2>2. UNCHANGED <<served, handling, main, faults>>
    BY <1>9 DEF Subscribe
  <2>. QED  BY <2>1, <2>2, SameServer, SameHandling
<1>10. ASSUME NEW i \in Interfaces, ReadTrue(i)
       PROVE  Kept
  <2>1. StreamType' /\ HandlingType' /\ Fed' /\ ReadingType' /\ Counted'
    BY <1>10, ReadTrueFed, ReaderStep DEF Reader
  <2>2. UNCHANGED served
    BY <1>10 DEF ReadTrue
  <2>. QED  BY <2>1, <2>2, SameServer
<1>11. ASSUME NEW i \in Interfaces,
              Loop(i) \/ Context(i) \/ Check(i) \/ ReadFalse(i) \/ Close(i) \/ Sleep(i)
       PROVE  Kept
  <2>1. ReadingType' /\ Counted'
    BY <1>11, ReaderStep DEF Reader
  <2>2. UNCHANGED <<served, streamed, taken, session, handling, main, faults>>
    BY <1>11 DEF Loop, Context, Check, ReadFalse, Close, Sleep
  <2>3. UNCHANGED <<rx, bus>>
    BY <2>2 DEF served
  <2>. QED  BY <2>1, <2>2, <2>3, SameServer, SameStream, SameHandling, SameFed
<1>12. CASE Hand
  <2>1. HandlingType'
    BY <1>12, HandType
  <2>2. UNCHANGED <<served, streamed, reading, faults>>
    BY <1>12 DEF Hand
  <2>3. UNCHANGED <<rx, bus, drain, sockets, taken, session>>
    BY <2>2 DEF served, reading
  <2>. QED  BY <2>1, <2>2, <2>3, SameServer, SameStream, SameReading, SameCounted, SameFed
<1>13. ASSUME NEW i \in Interfaces, Handle(i)
       PROVE  Kept
  <2>1. UNCHANGED <<server, sockets, armed, deaf, drain, streamed, reading, posts, handed,
                    sends, main, faults>>
    BY <1>13 DEF Handle
  <2>2. ServerType' /\ Fed'
    <3>1. CASE Receive(i)
      <4>1. /\ UNCHANGED <<streamed, taken, session, sockets, armed, deaf, drain>>
            /\ server' \in {"up", "down"}
        BY <2>1 DEF reading, ServerType
      <4>. QED  BY <3>1, <4>1, ReceiveFed
    <3>2. CASE UNCHANGED <<bus, rx>>
      <4>1. UNCHANGED served /\ UNCHANGED <<streamed, taken, session, rx, bus>>
        BY <2>1, <3>2 DEF served, reading
      <4>. QED  BY <4>1, SameServer, SameFed
    <3>. QED  BY <1>13, <3>1, <3>2 DEF Handle
  <2>3. HandlingType'
    BY <1>13, <2>1 DEF Handle, HandlingType
  <2>. QED  BY <2>1, <2>2, <2>3, SameStream, SameReading, SameCounted
<1>14. CASE Answered \/ Fire \/ LoseSend \/ Quit \/ JoinAsio \/ Join
  <2>1. UNCHANGED <<served, streamed, reading>>
    BY <1>14 DEF Answered, Fire, LoseSend, Quit, JoinAsio, Join
  <2>2. UNCHANGED <<rx, bus, drain, sockets, taken, session>>
    BY <2>1 DEF served, reading
  <2>3. HandlingType' /\ faults' \in {faults, faults + 1}
    BY <1>14, RemoteAssumption
       DEF Answered, Fire, LoseSend, Quit, JoinAsio, Join, Fault, handling, HandlingType
  <2>4. Counted'
    BY <2>1, <2>2, <2>3 DEF Counted, reading, ReadingType
  <2>. QED  BY <2>1, <2>2, <2>3, <2>4, SameServer, SameStream, SameReading, SameFed
<1>15. ASSUME NEW i \in Interfaces, Halt(i) \/ Break(i) \/ Silence(i)
       PROVE  Kept
  <2>1. ReadingType' /\ Counted'
    BY <1>15, EndStep
  <2>2. UNCHANGED <<served, streamed, taken, session, handling>>
    BY <1>15 DEF Halt, Break, Silence
  <2>3. UNCHANGED <<rx, bus>>
    BY <2>2 DEF served
  <2>4. HandlingType'
    BY <1>15, RemoteAssumption DEF Halt, Break, Silence, Fault, handling, HandlingType
  <2>. QED  BY <2>1, <2>2, <2>3, <2>4, SameServer, SameStream, SameFed
<1>16. CASE TryCancel
  <2>1. ReadingType' /\ Counted'
    BY <1>16, EndStep
  <2>2. UNCHANGED <<served, streamed, taken, session, handling, faults>> /\ main' = "join"
    BY <1>16 DEF TryCancel
  <2>3. UNCHANGED <<rx, bus>>
    BY <2>2 DEF served
  <2>4. HandlingType'
    BY <2>2 DEF handling, HandlingType
  <2>. QED  BY <2>1, <2>2, <2>3, <2>4, SameServer, SameStream, SameFed
<1>17. CASE Over \/ UNCHANGED vars
  <2>1. UNCHANGED <<served, streamed, reading, handling, main, faults>>
    BY <1>17 DEF Over, vars
  <2>2. UNCHANGED <<rx, bus, drain, sockets, taken, session>>
    BY <2>1 DEF served, reading
  <2>. QED  BY <2>1, <2>2, SameServer, SameStream, SameReading, SameHandling, SameCounted, SameFed
<1>. QED
  BY <1>1, <1>2, <1>3, <1>4, <1>5, <1>6, <1>7, <1>8, <1>9, <1>10, <1>11, <1>12, <1>13,
     <1>14, <1>15, <1>16, <1>17
     DEF Next, Reader, Service, Drain, Asio, Ending

LEMMA TypeInit == Init => TypeInv
<1>. SUFFICES ASSUME Init
              PROVE  TypeInv
  OBVIOUS
<1>1. <<>> \in Seq(Frames) /\ Len(<<>>) = 0
  BY EmptySeq
<1>2. ServerType
  BY <1>1, RemoteAssumption DEF Init, ServerType
<1>3. StreamType
  BY <1>1 DEF Init, Feed!Init, StreamType
<1>4. ReadingType
  BY RemoteAssumption DEF Init, ReadingType
<1>5. HandlingType
  BY <1>1, RemoteAssumption DEF Init, HandlingType
<1>6. Counted
  BY RemoteAssumption DEF Init, Counted
<1>7. Fed
  <2>1. \A c \in Calls : /\ c[1] \in Interfaces /\ c[2] \in Nat \ {0}
                         /\ feed[c] = <<>> /\ got[c] = <<>> /\ taken[c] = 0
    BY DEF Init, Feed!Init, Calls
  <2>2. \A i \in Interfaces : rx[i] = <<>> /\ session[i] = 0
    BY DEF Init
  <2>3. open = {} /\ bus = 0
    BY DEF Init, Feed!Init
  <2>4. \A c \in Calls : ~(c[2] <= session[c[1]])
    BY <2>1, <2>2
  <2>5. \A i \in Interfaces : \A k \in 1..Len(rx[i]) : rx[i][k].interface = i
    BY <1>1, <2>2
  <2>6. \A c \in open : c[2] <= session[c[1]]
    BY <2>3
  <2>7. ASSUME NEW c \in Calls
        PROVE  /\ c[2] <= session[c[1]] => filter[c] = c[1]
               /\ Len(feed[c]) + Len(rx[c[1]]) <= bus
               /\ taken[c] <= Len(got[c]) /\ Len(got[c]) <= Len(feed[c])
               /\ \A k \in 1..Len(got[c]) : got[c][k] = feed[c][k]
               /\ c[2] > session[c[1]] => feed[c] = <<>>
    <3>1. Len(feed[c]) = 0 /\ Len(got[c]) = 0 /\ Len(rx[c[1]]) = 0 /\ taken[c] = 0
      BY <1>1, <2>1, <2>2, Zenon
    <3>2. Len(feed[c]) + Len(rx[c[1]]) <= bus
      BY <2>3, <3>1
    <3>3. taken[c] <= Len(got[c]) /\ Len(got[c]) <= Len(feed[c])
      BY <3>1
    <3>4. \A k \in 1..Len(got[c]) : got[c][k] = feed[c][k]
      BY <3>1
    <3>. QED  BY <2>1, <2>4, <3>2, <3>3, <3>4
  <2>. QED  BY <2>5, <2>6, <2>7, Zenon DEF Fed
<1>. QED  BY <1>2, <1>3, <1>4, <1>5, <1>6, <1>7, Types DEF TypeInv

\* Every variable of the server and the client always has its type: no thread
\* reads a frame that is not there, and the calls of a socket are not more than
\* the faults and one.
THEOREM TypeCorrect == Spec => []TypeOK
<1>1. Spec => []TypeInv
  BY TypeInit, TypeStep, PTL DEF Spec
<1>2. TypeInv => TypeOK
  BY DEF TypeInv
<1>. QED  BY <1>1, <1>2, PTL

-----------------------------------------------------------------------------
(* The order.                                                              *)

\* A sequence that is added to.
LEMMA AppendTo ==
  ASSUME NEW s \in Seq(Frames), NEW x \in Frames
  PROVE  /\ Append(s, x) \in Seq(Frames) /\ Len(s) \in Nat
         /\ Len(Append(s, x)) = Len(s) + 1
         /\ \A k \in 1..Len(Append(s, x)) :
              \/ k \in 1..Len(s) /\ Append(s, x)[k] = s[k]
              \/ k = Len(s) + 1 /\ Append(s, x)[k] = x
         /\ \A k \in 1..Len(s) : k \in 1..Len(Append(s, x))
<1>1. Len(s) \in Nat
  BY LenProperties
<1>2. /\ Append(s, x) \in Seq(Frames)
      /\ Len(Append(s, x)) = Len(s) + 1
      /\ \A k \in 1..Len(s) : Append(s, x)[k] = s[k]
      /\ Append(s, x)[Len(s) + 1] = x
  BY AppendProperties
<1>3. \A n \in Nat : \A k \in 1..n+1 : k \in 1..n \/ k = n + 1
  OBVIOUS
<1>4. \A n \in Nat : \A k \in 1..n : k \in 1..n+1
  OBVIOUS
<1>. QED  BY <1>1, <1>2, <1>3, <1>4, Zenon

LEMMA FrameIds ==
  ASSUME NEW s \in Seq(Frames)
  PROVE  \A k \in 1..Len(s) : s[k] \in Frames /\ s[k].id \in Nat
<1>1. \A f \in Frames : f.id \in Nat
  BY DEF Frames
<1>2. \A k \in 1..Len(s) : s[k] \in Frames
  BY ElementOfSeq
<1>. QED  BY <1>1, <1>2, Zenon

LEMMA RisingAppend ==
  ASSUME NEW s \in Seq(Frames), NEW x \in Frames, Rising(s),
         \A k \in 1..Len(s) : s[k].id < x.id
  PROVE  Rising(Append(s, x))
<1>. DEFINE t == Append(s, x)
<1>1. /\ Len(s) \in Nat /\ Len(t) = Len(s) + 1
      /\ \A k \in 1..Len(t) : \/ k \in 1..Len(s) /\ t[k] = s[k]
                              \/ k = Len(s) + 1 /\ t[k] = x
  BY AppendTo
<1>. HIDE DEF t
<1>2. ASSUME NEW k \in 1..Len(t), NEW l \in 1..Len(t), k < l
      PROVE  t[k].id < t[l].id
  <2>1. k \in 1..Len(s) /\ t[k] = s[k]
    BY <1>1, <1>2
  <2>2. CASE l \in 1..Len(s) /\ t[l] = s[l]
    BY <1>2, <2>1, <2>2 DEF Rising
  <2>3. CASE t[l] = x
    BY <2>1, <2>3
  <2>. QED  BY <1>1, <2>2, <2>3
<1>3. Rising(t)
  BY <1>2, Zenon DEF Rising
<1>. QED  BY <1>3 DEF t

LEMMA BelowAppend ==
  ASSUME NEW s \in Seq(Frames), NEW x \in Frames, NEW t
  PROVE  /\ Below(s, t) /\ (\A l \in 1..Len(t) : x.id < t[l].id) => Below(Append(s, x), t)
         /\ Below(t, s) /\ (\A l \in 1..Len(t) : t[l].id < x.id) => Below(t, Append(s, x))
<1>. DEFINE u == Append(s, x)
<1>1. \A k \in 1..Len(u) : \/ k \in 1..Len(s) /\ u[k] = s[k]
                           \/ k = Len(s) + 1 /\ u[k] = x
  BY AppendTo
<1>. HIDE DEF u
<1>2. Below(s, t) /\ (\A l \in 1..Len(t) : x.id < t[l].id) => Below(u, t)
  BY <1>1, Zenon DEF Below
<1>3. Below(t, s) /\ (\A l \in 1..Len(t) : t[l].id < x.id) => Below(t, u)
  BY <1>1, Zenon DEF Below
<1>. QED  BY <1>2, <1>3 DEF u

\* A frame of the bus is later than any other.
LEMMA ReceiveOrdered ==
  ASSUME TypeInv, Ordered, NEW i \in Interfaces, Receive(i), UNCHANGED <<feed, got>>
  PROVE  Ordered'
<1>. DEFINE x == [id |-> bus + 1, interface |-> i]
<1>1. rx[i] \in Seq(Frames) /\ bus \in Nat /\ x \in Frames /\ x.id = bus + 1 /\ bus' = bus + 1
  <2>1. rx[i] \in Seq(Frames) /\ bus \in 0..MaxFrames
    BY DEF TypeInv, TypeOK
  <2>2. bus \in Nat /\ bus + 1 \in 1..MaxFrames /\ bus' = bus + 1
    BY <2>1, RemoteAssumption DEF Receive
  <2>3. x \in Frames
    BY <2>2 DEF Frames
  <2>. QED  BY <2>1, <2>2, <2>3
<1>2. \A j \in Interfaces : rx'[j] = IF j = i THEN Append(rx[i], x) ELSE rx[j]
  BY DEF Receive, TypeInv, TypeOK
<1>3. \A n \in Nat : n <= bus => n < bus + 1 /\ n <= bus + 1
  BY <1>1
<1>4. \A j \in Interfaces : \A k \in 1..Len(rx[j]) : rx[j][k].id \in Nat /\ rx[j][k].id <= bus
  BY FrameIds DEF TypeInv, TypeOK, Ordered
<1>5. \A c \in Calls : \A k \in 1..Len(feed[c]) : feed[c][k].id \in Nat /\ feed[c][k].id <= bus
  BY Lengths, FrameIds DEF Ordered
<1>. HIDE DEF x
<1>6. ASSUME NEW j \in Interfaces
      PROVE  Rising(rx'[j]) /\ \A k \in 1..Len(rx'[j]) : rx'[j][k].id <= bus'
  <2>1. CASE j = i
    <3>. DEFINE t == Append(rx[i], x)
    <3>1. Rising(rx[i])
      BY DEF Ordered
    <3>2. \A k \in 1..Len(rx[i]) : rx[i][k].id < x.id
      BY <1>1, <1>3, <1>4, Zenon
    <3>3. Rising(t)
      BY <1>1, <3>1, <3>2, RisingAppend
    <3>4. \A k \in 1..Len(t) : (k \in 1..Len(rx[i]) /\ t[k] = rx[i][k]) \/ t[k] = x
      BY <1>1, AppendTo
    <3>5. x.id <= bus + 1
      BY <1>1
    <3>. HIDE DEF t
    <3>6. \A k \in 1..Len(t) : t[k].id <= bus + 1
      BY <1>3, <1>4, <3>4, <3>5, Zenon
    <3>7. rx'[j] = t
      BY <1>2, <2>1 DEF t
    <3>. QED  BY <1>1, <3>3, <3>6, <3>7
  <2>2. CASE j # i
    <3>1. rx'[j] = rx[j] /\ Rising(rx[j])
      BY <1>2, <2>2 DEF Ordered
    <3>2. \A k \in 1..Len(rx[j]) : rx[j][k].id <= bus + 1
      BY <1>3, <1>4, Zenon
    <3>. QED  BY <1>1, <3>1, <3>2
  <2>. QED  BY <2>1, <2>2
<1>7. ASSUME NEW c \in Calls
      PROVE  /\ Rising(feed[c]) /\ Below(feed[c], rx'[c[1]])
             /\ \A k \in 1..Len(feed[c]) : feed[c][k].interface = c[1] /\ feed[c][k].id <= bus'
  <2>1. /\ Rising(feed[c]) /\ Below(feed[c], rx[c[1]]) /\ c[1] \in Interfaces
        /\ \A k \in 1..Len(feed[c]) : feed[c][k].interface = c[1]
    BY Lengths DEF Ordered
  <2>2. \A k \in 1..Len(feed[c]) : feed[c][k].id < x.id
    BY <1>1, <1>3, <1>5, Zenon
  <2>3. \A k \in 1..Len(feed[c]) : feed[c][k].id <= bus'
    BY <1>1, <1>3, <1>5, Zenon
  <2>4. CASE c[1] = i
    <3>1. Below(feed[c], Append(rx[i], x))
      BY <1>1, <2>1, <2>2, <2>4, BelowAppend
    <3>. QED  BY <1>2, <2>1, <2>3, <2>4, <3>1
  <2>5. CASE c[1] # i
    BY <1>2, <2>1, <2>3, <2>5
  <2>. QED  BY <2>4, <2>5
<1>8. \A c, d \in Calls : c[1] = d[1] /\ c[2] < d[2] => Below(got[c], feed[d])
  BY DEF Ordered
<1>. QED  BY <1>6, <1>7, <1>8 DEF Ordered

\* A frame that is read from a buffer is earlier than the rest of it, and later
\* than what the calls were fed.
LEMMA ReadFrameOrdered ==
  ASSUME TypeInv, Ordered, NEW i \in Interfaces, ReadFrame(i)
  PROVE  Ordered'
<1>. DEFINE f == Head(rx[i])
            n == Len(rx[i])
<1>1. /\ f \in Frames /\ f = rx[i][1] /\ f.interface = i
      /\ n \in Nat \ {0} /\ Len(Tail(rx[i])) = n - 1
      /\ \A k \in 1..n-1 : Tail(rx[i])[k] = rx[i][k+1]
      /\ \A j \in Interfaces : rx'[j] = IF j = i THEN Tail(rx[i]) ELSE rx[j]
      /\ \A c \in Calls : feed'[c] = feed[c] \/ (c[1] = i /\ feed'[c] = Append(feed[c], f))
      /\ UNCHANGED <<got, bus>>
  BY ReadFrameSteps
<1>2. /\ Rising(rx[i]) /\ \A k \in 1..n : rx[i][k].id <= bus
      /\ 1 \in 1..n /\ \A k \in 1..n-1 : k + 1 \in 1..n /\ 1 < k + 1
  <2>1. Rising(rx[i]) /\ \A k \in 1..n : rx[i][k].id <= bus
    BY DEF Ordered
  <2>. HIDE DEF n
  <2>. QED  BY <1>1, <2>1
<1>. HIDE DEF f, n
<1>3. ASSUME NEW j \in Interfaces
      PROVE  Rising(rx'[j]) /\ \A k \in 1..Len(rx'[j]) : rx'[j][k].id <= bus
  <2>1. CASE j = i
    <3>1. rx'[j] = Tail(rx[i]) /\ Len(rx'[j]) = n - 1
      BY <1>1, <2>1
    <3>2. \A k \in 1..n-1 : rx'[j][k] = rx[i][k+1] /\ k + 1 \in 1..n
      BY <1>1, <1>2, <3>1, Zenon
    <3>3. Rising(rx'[j])
      <4>. SUFFICES ASSUME NEW k \in 1..n-1, NEW l \in 1..n-1, k < l
                    PROVE  rx'[j][k].id < rx'[j][l].id
        BY <3>1, Zenon DEF Rising
      <4>1. k + 1 < l + 1
        BY <1>1
      <4>2. k + 1 \in 1..Len(rx[i]) /\ l + 1 \in 1..Len(rx[i])
        BY <1>2 DEF n
      <4>. QED  BY <1>2, <3>2, <4>1, <4>2, Zenon DEF Rising
    <3>. QED  BY <1>2, <3>1, <3>2, <3>3, Zenon
  <2>2. CASE j # i
    BY <1>1, <2>2 DEF Ordered
  <2>. QED  BY <2>1, <2>2
<1>4. ASSUME NEW c \in Calls
      PROVE  /\ Rising(feed'[c]) /\ Below(feed'[c], rx'[c[1]])
             /\ \A k \in 1..Len(feed'[c]) : feed'[c][k].interface = c[1] /\ feed'[c][k].id <= bus
  <2>1. /\ Rising(feed[c]) /\ Below(feed[c], rx[c[1]])
        /\ \A k \in 1..Len(feed[c]) : feed[c][k].interface = c[1] /\ feed[c][k].id <= bus
        /\ c[1] \in Interfaces /\ feed[c] \in Seq(Frames)
    BY Lengths DEF Ordered
  <2>2. Below(feed[c], rx'[c[1]])
    <3>1. CASE c[1] = i
      <4>1. /\ rx'[c[1]] = Tail(rx[i]) /\ Len(rx'[c[1]]) = n - 1
            /\ \A l \in 1..n-1 : rx'[c[1]][l] = rx[c[1]][l+1] /\ l + 1 \in 1..Len(rx[c[1]])
        BY <1>1, <1>2, <3>1 DEF n
      <4>. QED  BY <2>1, <4>1, Zenon DEF Below
    <3>2. CASE c[1] # i
      BY <1>1, <2>1, <3>2
    <3>. QED  BY <3>1, <3>2
  <2>3. CASE feed'[c] = feed[c]
    BY <2>1, <2>2, <2>3
  <2>4. CASE c[1] = i /\ feed'[c] = Append(feed[c], f)
    <3>1. \A k \in 1..Len(feed[c]) : feed[c][k].id < f.id
      BY <1>1, <1>2, <2>1, <2>4 DEF Below, n
    <3>2. Rising(Append(feed[c], f))
      BY <1>1, <2>1, <3>1, RisingAppend
    <3>3. \A l \in 1..Len(rx'[c[1]]) : f.id < rx'[c[1]][l].id
      <4>1. /\ Len(rx'[c[1]]) = n - 1
            /\ \A l \in 1..n-1 : /\ rx'[c[1]][l] = rx[i][l+1] /\ l + 1 \in 1..Len(rx[i])
                                 /\ 1 < l + 1
        BY <1>1, <1>2, <2>4 DEF n
      <4>2. 1 \in 1..Len(rx[i])
        BY <1>2 DEF n
      <4>. QED  BY <1>1, <1>2, <4>1, <4>2, Zenon DEF Rising
    <3>4. Below(Append(feed[c], f), rx'[c[1]])
      BY <1>1, <2>1, <2>2, <3>3, BelowAppend
    <3>5. \A k \in 1..Len(Append(feed[c], f)) :
            Append(feed[c], f)[k].interface = c[1] /\ Append(feed[c], f)[k].id <= bus
      <4>1. f.interface = c[1] /\ f.id <= bus
        BY <1>1, <1>2, <2>4
      <4>2. \A k \in 1..Len(Append(feed[c], f)) :
               \/ k \in 1..Len(feed[c]) /\ Append(feed[c], f)[k] = feed[c][k]
               \/ k = Len(feed[c]) + 1 /\ Append(feed[c], f)[k] = f
        BY <1>1, <2>1, AppendTo
      <4>. QED  BY <2>1, <4>1, <4>2, Zenon
    <3>. QED  BY <2>4, <3>2, <3>4, <3>5, Zenon
  <2>. QED  BY <1>1, <2>3, <2>4
<1>5. ASSUME NEW c \in Calls, NEW d \in Calls, c[1] = d[1], c[2] < d[2]
      PROVE  Below(got[c], feed'[d])
  <2>1. Below(got[c], feed[d]) /\ feed[d] \in Seq(Frames)
    BY <1>5, Lengths DEF Ordered
  <2>2. CASE d[1] = i /\ feed'[d] = Append(feed[d], f)
    <3>1. /\ \A k \in 1..Len(got[c]) : got[c][k] = feed[c][k]
          /\ Len(got[c]) <= Len(feed[c]) /\ Len(got[c]) \in Nat /\ Len(feed[c]) \in Nat
      <4>1. Len(got[c]) \in Nat /\ Len(feed[c]) \in Nat
        BY Lengths
      <4>2. (\A k \in 1..Len(got[c]) : got[c][k] = feed[c][k]) /\ Len(got[c]) <= Len(feed[c])
        BY DEF TypeInv, Fed
      <4>. QED  BY <4>1, <4>2
    <3>2. \A k \in 1..Len(got[c]) : k \in 1..Len(feed[c])
      BY <3>1
    <3>3. Below(feed[c], rx[i]) /\ 1 \in 1..Len(rx[i])
      BY <1>2, <1>5, <2>2 DEF Ordered, n
    <3>4. \A k \in 1..Len(got[c]) : got[c][k].id < f.id
      BY <1>1, <3>1, <3>2, <3>3, Zenon DEF Below
    <3>5. Below(got[c], Append(feed[d], f))
      BY <1>1, <2>1, <3>4, BelowAppend
    <3>. QED  BY <2>2, <3>5, Zenon
  <2>. QED  BY <1>1, <2>1, <2>2
<1>. QED  BY <1>1, <1>3, <1>4, <1>5 DEF Ordered

\* Nothing was fed to a later call than the current one.
LEMMA DeliverOrdered ==
  ASSUME TypeInv, Ordered, NEW i \in Interfaces, Deliver(i)
  PROVE  Ordered'
<1>. ReadingType /\ StreamType /\ session[i] > 0
  BY Types DEF TypeInv, Counted, Deliver
<1>. DEFINE c == Call(i)
<1>1. c \in Calls /\ c[1] = i /\ c[2] = session[i]
  BY CallType
<1>2. UNCHANGED <<rx, bus, feed>> /\ \A d \in Calls : d # c => got'[d] = got[d]
  BY DEF Deliver, Feed!Deliver, served, StreamType, c
<1>. HIDE DEF c
<1>3. ASSUME NEW d \in Calls, NEW e \in Calls, d[1] = e[1], d[2] < e[2]
      PROVE  Below(got'[d], feed[e])
  <2>1. CASE d # c
    BY <1>2, <1>3, <2>1 DEF Ordered
  <2>2. CASE d = c
    <3>1. e[2] > session[e[1]]
      BY <1>1, <1>3, <2>2, Lengths
    <3>2. feed[e] = <<>>
      BY <3>1 DEF TypeInv, Fed
    <3>. QED  BY <3>2 DEF Below
  <2>. QED  BY <2>1, <2>2
<1>. QED  BY <1>2, <1>3 DEF Ordered

LEMMA OrderedStep == TypeInv /\ Ordered /\ [Next]_vars => Ordered'
<1>. SUFFICES ASSUME TypeInv, Ordered, [Next]_vars
              PROVE  Ordered'
  OBVIOUS
<1>1. CASE UNCHANGED <<rx, bus, feed, got>>
  BY <1>1, Zenon DEF Ordered
<1>2. ASSUME NEW l \in {"broken", "silent"}, StopServer(l)
      PROVE  Ordered'
  <2>1. UNCHANGED <<bus, feed, got>> /\ \A i \in Interfaces : rx'[i] = <<>>
    BY <1>2 DEF StopServer
  <2>2. \A i \in Interfaces : Len(rx'[i]) = 0
    BY <2>1, EmptySeq
  <2>3. \A c \in Calls : Below(feed[c], rx'[c[1]])
    BY <2>2, Lengths DEF Below
  <2>. QED  BY <2>1, <2>2, <2>3 DEF Ordered, Rising
<1>3. ASSUME NEW i \in Interfaces, OnBus(i) \/ Handle(i)
      PROVE  Ordered'
  <2>1. UNCHANGED <<feed, got>>
    BY <1>3 DEF OnBus, Handle, streamed
  <2>. QED  BY <1>1, <1>3, <2>1, ReceiveOrdered DEF OnBus, Handle
<1>4. ASSUME NEW i \in Interfaces, ReadFrame(i) \/ Deliver(i)
      PROVE  Ordered'
  BY <1>4, ReadFrameOrdered, DeliverOrdered
<1>5. ASSUME NEW i \in Interfaces, Register(i) \/ Subscribe(i)
      PROVE  Ordered'
  BY <1>1, <1>5 DEF Register, Subscribe, Feed!Subscribe, Feed!Ask, served, streamed
<1>6. ASSUME NEW c \in Calls, Leave(c)
      PROVE  Ordered'
  BY <1>1, <1>6 DEF Leave, Feed!Cancel, served
<1>7. CASE \/ StartServer \/ Hand \/ Answered \/ Fire \/ LoseSend \/ Quit \/ JoinAsio
           \/ Join \/ TryCancel \/ Over \/ UNCHANGED vars
           \/ \E i \in Interfaces :
                \/ OpenSocket(i) \/ Ready(i) \/ WaitFails(i) \/ Rearm(i) \/ Loop(i)
                \/ Context(i) \/ Check(i)
                \/ ReadTrue(i) \/ ReadFalse(i) \/ Close(i) \/ Sleep(i) \/ Halt(i)
                \/ Break(i) \/ Silence(i)
  BY <1>1, <1>7
     DEF StartServer, Hand, Answered, Fire, LoseSend, Quit, JoinAsio, Join, TryCancel, Over,
         vars, OpenSocket, Ready, WaitFails, Rearm, Loop, Context, Check, ReadTrue, ReadFalse, Close,
         Sleep, Halt, Break, Silence, served, streamed
<1>. QED
  BY <1>2, <1>3, <1>4, <1>5, <1>6, <1>7 DEF Next, Reader, Service, Drain, Asio, Ending

-----------------------------------------------------------------------------
(* What was read.                                                          *)

\* The frames of an interface.
FramesOf(i) == {f \in Frames : f.interface = i}

LEMMA TakenType ==
  ASSUME HandlingType, NEW i \in Interfaces
  PROVE  Taken(i) \in Seq(Frames)
<1>1. posts \in Seq(Frames) /\ handed[i] \in Seq(Frames)
  BY DEF HandlingType
<1>2. Filter(posts, FramesOf(i)) \in Seq(Frames)
  BY <1>1, FilterSeq
<1>3. handed[i] \o Filter(posts, FramesOf(i)) \in Seq(Frames)
  BY <1>1, <1>2, ConcatType
<1>. QED  BY <1>3 DEF Taken, FramesOf

\* A frame that is posted is the last that was read.
LEMMA TakenPost ==
  ASSUME HandlingType, NEW i \in Interfaces, NEW x \in Frames,
         posts' = Append(posts, x), handed' = handed
  PROVE  Taken(i)' = IF x.interface = i THEN Append(Taken(i), x) ELSE Taken(i)
<1>1. posts \in Seq(Frames) /\ handed[i] \in Seq(Frames)
  BY DEF HandlingType
<1>. DEFINE S == FramesOf(i)
<1>2. x \in S <=> x.interface = i
  BY DEF FramesOf
<1>3. Taken(i) = handed[i] \o Filter(posts, S) /\ Taken(i)' = handed[i] \o Filter(Append(posts, x), S)
  BY DEF Taken, FramesOf
<1>. HIDE DEF S
<1>4. Filter(Append(posts, x), S) = IF x \in S THEN Append(Filter(posts, S), x)
                                               ELSE Filter(posts, S)
  BY <1>1, FilterAppend
<1>5. Filter(posts, S) \in Seq(Frames)
  BY <1>1, FilterSeq
<1>6. handed[i] \o Append(Filter(posts, S), x) = Append(handed[i] \o Filter(posts, S), x)
  <2>. DEFINE h == handed[i]
              t == Filter(posts, S)
  <2>1. h \in Seq(Frames) /\ t \in Seq(Frames)
    BY <1>1, <1>5
  <2>. HIDE DEF h, t
  <2>2. h \o Append(t, x) = Append(h \o t, x)
    BY <2>1, ConcatAppend
  <2>. QED  BY <2>2 DEF h, t
<1>. QED  BY <1>2, <1>3, <1>4, <1>6, Zenon

\* A frame that is handed over was read, and is not read again.
LEMMA TakenHand ==
  ASSUME HandlingType, NEW i \in Interfaces, Hand
  PROVE  Taken(i)' = Taken(i)
<1>1. posts \in Seq(Frames) /\ handed[i] \in Seq(Frames) /\ posts # <<>> /\ posts' = Tail(posts)
  BY DEF HandlingType, Hand
<1>. DEFINE S == FramesOf(i)
            x == Head(posts)
<1>2. x \in Frames /\ Tail(posts) \in Seq(Frames)
  BY <1>1, HeadTailProperties
<1>3. x \in S <=> x.interface = i
  BY <1>2 DEF FramesOf
<1>4. handed'[i] = IF x.interface = i THEN Append(handed[i], x) ELSE handed[i]
  BY DEF Hand, HandlingType
<1>5. Taken(i) = handed[i] \o Filter(posts, S) /\ Taken(i)' = handed'[i] \o Filter(posts', S)
  BY DEF Taken, FramesOf
<1>6. Filter(posts, S) = IF x \in S THEN <<x>> \o Filter(Tail(posts), S)
                                    ELSE Filter(Tail(posts), S)
  BY <1>1, FilterHead
<1>. HIDE DEF S, x
<1>7. Filter(Tail(posts), S) \in Seq(Frames)
  BY <1>2, FilterSeq
<1>8. Append(handed[i], x) \o Filter(Tail(posts), S) = handed[i] \o (<<x>> \o Filter(Tail(posts), S))
  <2>. DEFINE h == handed[i]
              t == Filter(Tail(posts), S)
  <2>1. h \in Seq(Frames) /\ t \in Seq(Frames) /\ <<x>> \in Seq(Frames)
    BY <1>1, <1>2, <1>7
  <2>. HIDE DEF h, t
  <2>2. Append(h, x) = h \o <<x>>
    BY <1>2, <2>1, AppendIsConcat
  <2>3. (h \o <<x>>) \o t = h \o (<<x>> \o t)
    BY <2>1, ConcatAssociative
  <2>4. Append(h, x) \o t = h \o (<<x>> \o t)
    BY <2>2, <2>3, Zenon
  <2>. QED  BY <2>4 DEF h, t
<1>. QED  BY <1>1, <1>3, <1>4, <1>5, <1>6, <1>8, Zenon

\* The first frames of a call.
LEMMA PartType ==
  ASSUME NEW s \in Seq(Frames), NEW n \in Nat, n <= Len(s)
  PROVE  /\ SubSeq(s, 1, n) \in Seq(Frames) /\ Len(SubSeq(s, 1, n)) = n
         /\ \A k \in 1..n : SubSeq(s, 1, n)[k] = s[k]
<1>1. Len(s) \in Nat /\ \A k \in 1..n : s[k] \in Frames
  BY LenProperties, ElementOfSeq
<1>2. /\ SubSeq(s, 1, n) \in Seq(Frames)
      /\ Len(SubSeq(s, 1, n)) = IF 1 <= n THEN n - 1 + 1 ELSE 0
      /\ \A k \in 1..n-1+1 : SubSeq(s, 1, n)[k] = s[1+k-1]
  BY <1>1, SubSeqProperties
<1>3. (IF 1 <= n THEN n - 1 + 1 ELSE 0) = n /\ n - 1 + 1 = n /\ \A k \in 1..n : 1+k-1 = k
  OBVIOUS
<1>. QED  BY <1>2, <1>3, Zenon

LEMMA PartSame ==
  ASSUME NEW s \in Seq(Frames), NEW t \in Seq(Frames), NEW n \in Nat, n <= Len(s), n <= Len(t),
         \A k \in 1..n : s[k] = t[k]
  PROVE  SubSeq(s, 1, n) = SubSeq(t, 1, n)
<1>. DEFINE u == SubSeq(s, 1, n)
            v == SubSeq(t, 1, n)
<1>1. /\ u \in Seq(Frames) /\ Len(u) = n /\ \A k \in 1..n : u[k] = s[k]
      /\ v \in Seq(Frames) /\ Len(v) = n /\ \A k \in 1..n : v[k] = t[k]
  BY PartType
<1>. HIDE DEF u, v
<1>2. u = v
  BY <1>1, SeqEqual
<1>. QED  BY <1>2 DEF u, v

LEMMA PartNext ==
  ASSUME NEW s \in Seq(Frames), NEW n \in Nat, n + 1 <= Len(s)
  PROVE  SubSeq(s, 1, n + 1) = Append(SubSeq(s, 1, n), s[n + 1])
<1>. DEFINE u == SubSeq(s, 1, n)
            v == SubSeq(s, 1, n + 1)
            x == s[n + 1]
<1>1. Len(s) \in Nat /\ n <= Len(s) /\ n + 1 \in 1..Len(s)
  BY LenProperties
<1>2. x \in Frames
  BY <1>1, ElementOfSeq
<1>3. u \in Seq(Frames) /\ Len(u) = n /\ \A k \in 1..n : u[k] = s[k]
  BY <1>1, PartType
<1>4. v \in Seq(Frames) /\ Len(v) = n + 1 /\ \A k \in 1..n+1 : v[k] = s[k]
  BY PartType
<1>. HIDE DEF u, v, x
<1>5. /\ Append(u, x) \in Seq(Frames) /\ Len(Append(u, x)) = n + 1
      /\ \A k \in 1..n+1 : (k \in 1..n /\ Append(u, x)[k] = u[k]) \/ (k = n + 1 /\ Append(u, x)[k] = x)
  <2>1. /\ Append(u, x) \in Seq(Frames)
        /\ Len(Append(u, x)) = Len(u) + 1
        /\ \A k \in 1..Len(Append(u, x)) :
             \/ k \in 1..Len(u) /\ Append(u, x)[k] = u[k]
             \/ k = Len(u) + 1 /\ Append(u, x)[k] = x
    BY <1>2, <1>3, AppendTo, Zenon
  <2>2. Len(Append(u, x)) = n + 1
    BY <1>3, <2>1, Zenon
  <2>3. 1..Len(Append(u, x)) = 1..n+1 /\ 1..Len(u) = 1..n /\ Len(u) + 1 = n + 1
    BY <1>3, <2>2, Zenon
  <2>4. \A k \in 1..n+1 : (k \in 1..n /\ Append(u, x)[k] = u[k]) \/ (k = n + 1 /\ Append(u, x)[k] = x)
    <3>. SUFFICES ASSUME NEW k \in 1..n+1
                  PROVE  (k \in 1..n /\ Append(u, x)[k] = u[k]) \/ (k = n + 1 /\ Append(u, x)[k] = x)
      OBVIOUS
    <3>1. k \in 1..Len(Append(u, x))
      BY <2>3
    <3>2. \/ k \in 1..Len(u) /\ Append(u, x)[k] = u[k]
          \/ k = Len(u) + 1 /\ Append(u, x)[k] = x
      BY <2>1, <3>1, Zenon
    <3>3. Len(u) = n
      BY <1>3
    <3>. QED  BY <3>2, <3>3, Zenon
  <2>. QED  BY <2>1, <2>2, <2>4, Zenon
<1>6. \A k \in 1..n+1 : v[k] = Append(u, x)[k]
  BY <1>3, <1>4, <1>5 DEF x
<1>7. v = Append(u, x)
  BY <1>4, <1>5, <1>6, SeqEqual
<1>. QED  BY <1>7 DEF u, v, x

LEMMA SequenceMade ==
  ASSUME NEW T, NEW m \in Nat, NEW p, p = [n \in 1..m |-> p[n]], \A n \in 1..m : p[n] \in T
  PROVE  p \in Seq(T) /\ Len(p) = m
OBVIOUS

LEMMA AppendMade ==
  ASSUME NEW T, NEW t \in Seq(T), NEW v \in T
  PROVE  Append(t, v) = [k \in 1..Len(t)+1 |-> IF k = Len(t)+1 THEN v ELSE t[k]]
<1>. DEFINE n == Len(t)
            f == [k \in 1..n+1 |-> IF k = n+1 THEN v ELSE t[k]]
            a == Append(t, v)
<1>1. n \in Nat /\ \A k \in 1..n : t[k] \in T /\ k # n + 1
  BY LenProperties, ElementOfSeq
<1>2. /\ a \in Seq(T) /\ Len(a) = n + 1 /\ a[n+1] = v
      /\ \A k \in 1..n : a[k] = t[k]
  BY AppendProperties
<1>3. f = [k \in 1..n+1 |-> f[k]] /\ \A k \in 1..n+1 : f[k] = IF k = n + 1 THEN v ELSE t[k]
  OBVIOUS
<1>4. \A k \in 1..n+1 : k \in 1..n \/ k = n + 1
  BY <1>1
<1>. HIDE DEF f, a, n
<1>5. \A k \in 1..n+1 : f[k] = a[k] /\ f[k] \in T
  BY <1>1, <1>2, <1>3, <1>4, Zenon
<1>6. f \in Seq(T) /\ Len(f) = n + 1
  <2>1. n + 1 \in Nat
    BY <1>1
  <2>. QED  BY <1>3, <1>5, <2>1, SequenceMade
<1>7. a = f
  BY <1>2, <1>5, <1>6, SeqEqual
<1>. QED  BY <1>7 DEF a, f, n

LEMMA PartsType ==
  ASSUME TypeInv, NEW i \in Interfaces
  PROVE  /\ Parts(i) \in Seq(Seq(Frames)) /\ Len(Parts(i)) = session[i] /\ session[i] \in Nat
         /\ \A n \in 1..session[i] :
              /\ <<i, n>> \in Calls
              /\ feed[<<i, n>>] \in Seq(Frames) /\ taken[<<i, n>>] \in Nat
              /\ taken[<<i, n>>] <= Len(feed[<<i, n>>])
              /\ Parts(i)[n] = SubSeq(feed[<<i, n>>], 1, taken[<<i, n>>])
<1>1. session[i] \in 0..MaxFaults + 1
  BY DEF TypeInv, TypeOK
<1>2. session[i] \in Nat
  BY <1>1, RemoteAssumption
<1>3. \A n \in 1..session[i] : <<i, n>> \in Calls
  BY <1>1, RemoteAssumption DEF Calls
<1>4. ASSUME NEW c \in Calls
      PROVE  feed[c] \in Seq(Frames) /\ taken[c] \in Nat /\ taken[c] <= Len(feed[c])
  <2>1. /\ feed[c] \in Seq(Frames) /\ taken[c] \in Nat
        /\ Len(got[c]) \in Nat /\ Len(feed[c]) \in Nat
    BY Lengths
  <2>2. taken[c] <= Len(got[c]) /\ Len(got[c]) <= Len(feed[c])
    BY DEF TypeInv, Fed
  <2>3. \A a, b, m \in Nat : a <= b /\ b <= m => a <= m
    OBVIOUS
  <2>. QED  BY <2>1, <2>2, <2>3, Zenon
<1>5. \A n \in 1..session[i] : SubSeq(feed[<<i, n>>], 1, taken[<<i, n>>]) \in Seq(Frames)
  BY <1>3, <1>4, PartType, Zenon
<1>6. Parts(i) = [n \in 1..session[i] |-> SubSeq(feed[<<i, n>>], 1, taken[<<i, n>>])]
  BY DEF Parts
<1>7. Parts(i) \in Seq(Seq(Frames)) /\ Len(Parts(i)) = session[i]
  <2>. DEFINE p == Parts(i)
              m == session[i]
              T == Seq(Frames)
  <2>1. p = [n \in 1..m |-> p[n]] /\ \A n \in 1..m : p[n] \in T
    BY <1>5, <1>6
  <2>2. m \in Nat
    BY <1>2
  <2>. HIDE DEF p, m, T
  <2>3. p \in Seq(T) /\ Len(p) = m
    BY <2>1, <2>2, SequenceMade
  <2>. QED  BY <2>3 DEF p, m, T
<1>. QED  BY <1>2, <1>3, <1>4, <1>6, <1>7, Zenon

\* What was read of the calls is not changed by frames that are fed to them.
LEMMA PartsFed ==
  ASSUME TypeInv, NEW i \in Interfaces, session' = session, taken' = taken,
         feed' \in [Calls -> Seq(Frames)],
         \A c \in Calls : \/ feed'[c] = feed[c]
                          \/ \E x \in Frames : feed'[c] = Append(feed[c], x)
  PROVE  Parts(i)' = Parts(i)
<1>1. ASSUME NEW n \in 1..session[i]
      PROVE  SubSeq(feed'[<<i, n>>], 1, taken[<<i, n>>]) = SubSeq(feed[<<i, n>>], 1, taken[<<i, n>>])
  <2>. DEFINE c == <<i, n>>
              m == taken[c]
  <2>1. c \in Calls /\ feed[c] \in Seq(Frames) /\ m \in Nat /\ m <= Len(feed[c])
    BY PartsType
  <2>. HIDE DEF c, m
  <2>2. SubSeq(feed'[c], 1, m) = SubSeq(feed[c], 1, m)
    <3>1. CASE feed'[c] = feed[c]
      BY <3>1
    <3>2. ASSUME NEW x \in Frames, feed'[c] = Append(feed[c], x)
          PROVE  SubSeq(feed'[c], 1, m) = SubSeq(feed[c], 1, m)
      <4>. DEFINE s == feed[c]
                  t == Append(s, x)
      <4>1. s \in Seq(Frames) /\ m <= Len(s)
        BY <2>1
      <4>. HIDE DEF s
      <4>2. /\ Len(s) \in Nat /\ t \in Seq(Frames) /\ Len(t) = Len(s) + 1
            /\ \A k \in 1..Len(s) : t[k] = s[k]
        BY <4>1, AppendProperties
      <4>. HIDE DEF t
      <4>3. m <= Len(t) /\ \A k \in 1..m : s[k] = t[k]
        BY <2>1, <4>1, <4>2
      <4>4. SubSeq(s, 1, m) = SubSeq(t, 1, m)
        BY <2>1, <4>1, <4>2, <4>3, PartSame
      <4>. QED  BY <3>2, <4>4, Zenon DEF s, t
    <3>. QED  BY <2>1, <3>1, <3>2
  <2>. QED  BY <2>2 DEF c, m
<1>. QED  BY <1>1 DEF Parts

\* A call of which nothing was read yet.
LEMMA PartsAsk ==
  ASSUME TypeInv, NEW i \in Interfaces, NEW j \in Interfaces, TypeInv',
         session' = [session EXCEPT ![j] = session[j] + 1], UNCHANGED <<feed, taken>>
  PROVE  FlattenSeq(Parts(i)') = FlattenSeq(Parts(i))
<1>1. CASE i # j
  <2>1. session'[i] = session[i]
    BY <1>1 DEF TypeInv, TypeOK
  <2>. QED  BY <2>1 DEF Parts
<1>2. CASE i = j
  <2>. DEFINE n == session[i]
              s == Parts(i)
              t == Parts(i)'
              c == <<i, n + 1>>
  <2>1. n \in Nat /\ s \in Seq(Seq(Frames)) /\ Len(s) = n
    BY PartsType
  <2>2. session'[i] = n + 1 /\ session'[i] \in 0..MaxFaults+1
    BY <1>2 DEF TypeInv, TypeOK
  <2>3. c \in Calls /\ c[1] = i /\ c[2] = n + 1
    BY <2>1, <2>2, RemoteAssumption DEF Calls
  <2>4. /\ s = [k \in 1..n |-> SubSeq(feed[<<i, k>>], 1, taken[<<i, k>>])]
        /\ t = [k \in 1..n+1 |-> SubSeq(feed[<<i, k>>], 1, taken[<<i, k>>])]
    BY <2>2, Zenon DEF Parts
  <2>. HIDE DEF s, t
  <2>5. taken[c] = 0 /\ feed[c] = <<>>
    <3>1. c[2] > session[c[1]]
      BY <2>1, <2>3
    <3>. HIDE DEF n, c
    <3>2. feed[c] = <<>>
      BY <2>3, <3>1 DEF TypeInv, Fed
    <3>3. taken[c] <= Len(got[c]) /\ Len(got[c]) <= Len(feed[c])
      BY <2>3 DEF TypeInv, Fed
    <3>4. taken[c] \in Nat /\ Len(got[c]) \in Nat
      BY <2>3, Lengths
    <3>5. Len(feed[c]) = 0
      BY <3>2, EmptySeq
    <3>6. \A a, b, m \in Nat : a <= b /\ b <= m /\ m = 0 => a = 0
      OBVIOUS
    <3>. QED  BY <3>2, <3>3, <3>4, <3>5, <3>6
  <2>6. t = Append(s, <<>>)
    <3>1. /\ \A k \in 1..n : k \in 1..n+1
          /\ n + 1 \in 1..n+1
          /\ \A k \in 1..n+1 : k \in 1..n \/ k = n + 1
      BY <2>1
    <3>2. \A k \in 1..n : t[k] = s[k]
      BY <2>4, <3>1
    <3>3. t[n+1] = <<>>
      <4>1. t[n+1] = SubSeq(feed[c], 1, taken[c])
        BY <2>4, <3>1
      <4>2. SubSeq(<<>>, 1, 0) = <<>>
        BY SubSeqEmpty
      <4>. QED  BY <2>5, <4>1, <4>2, Zenon
    <3>4. <<>> \in Seq(Frames)
      BY EmptySeq
    <3>5. /\ Append(s, <<>>) \in Seq(Seq(Frames)) /\ Len(Append(s, <<>>)) = n + 1
          /\ \A k \in 1..n : Append(s, <<>>)[k] = s[k]
          /\ Append(s, <<>>)[n+1] = <<>>
      <4>1. /\ Append(s, <<>>) \in Seq(Seq(Frames)) /\ Len(Append(s, <<>>)) = Len(s) + 1
            /\ \A k \in 1..Len(s) : Append(s, <<>>)[k] = s[k]
            /\ Append(s, <<>>)[Len(s)+1] = <<>>
        BY <2>1, <3>4, AppendProperties
      <4>. QED  BY <2>1, <4>1
    <3>6. \A k \in 1..n+1 : t[k] = Append(s, <<>>)[k]
      BY <3>1, <3>2, <3>3, <3>5, Zenon
    <3>7. t \in Seq(Seq(Frames)) /\ Len(t) = n + 1
      <4>. DEFINE T == Seq(Frames)
                  m == n + 1
      <4>1. \A k \in 1..n : s[k] \in T
        BY <2>1, ElementOfSeq
      <4>2. \A k \in 1..m : t[k] \in T
        BY <3>1, <3>2, <3>3, <3>4, <4>1, Zenon
      <4>3. t = [k \in 1..m |-> t[k]]
        <5>. DEFINE e(k) == SubSeq(feed[<<i, k>>], 1, taken[<<i, k>>])
        <5>1. t = [k \in 1..m |-> e(k)]
          BY <2>4
        <5>. HIDE DEF e, m
        <5>. QED  BY <5>1
      <4>4. m \in Nat
        BY <2>1
      <4>. HIDE DEF T, m
      <4>5. t \in Seq(T) /\ Len(t) = m
        BY <4>2, <4>3, <4>4, SequenceMade
      <4>. QED  BY <4>5 DEF T, m
    <3>. HIDE DEF n
    <3>. QED  BY <3>5, <3>6, <3>7, SeqEqual
  <2>7. FlattenSeq(Append(s, <<>>)) = FlattenSeq(s) \o <<>> /\ FlattenSeq(s) \in Seq(Frames)
    <3>1. <<>> \in Seq(Frames)
      BY EmptySeq
    <3>. QED  BY <2>1, <3>1, FlattenAppend, FlattenType
  <2>8. FlattenSeq(s) \o <<>> = FlattenSeq(s)
    BY <2>7, ConcatEmptySeq
  <2>9. FlattenSeq(t) = FlattenSeq(s)
    BY <2>6, <2>7, <2>8, Zenon
  <2>. QED  BY <2>9 DEF s, t
<1>. QED  BY <1>1, <1>2

\* The frame that is read is the next of the current call.
LEMMA PartsRead ==
  ASSUME TypeInv, TypeInv', NEW i \in Interfaces, NEW j \in Interfaces, ReadTrue(j)
  PROVE  FlattenSeq(Parts(i)') =
           IF i = j THEN Append(FlattenSeq(Parts(i)), got[Call(i)][taken[Call(i)] + 1])
                    ELSE FlattenSeq(Parts(i))
<1>1. /\ session[j] \in Nat \ {0} /\ Call(j) \in Calls /\ Call(j) = <<j, session[j]>>
      /\ taken[Call(j)] + 1 \in 1..Len(got[Call(j)]) /\ taken[Call(j)] \in Nat
      /\ got[Call(j)][taken[Call(j)] + 1] \in Frames
      /\ \A d \in Calls : taken'[d] = IF d = Call(j) THEN taken[d] + 1 ELSE taken[d]
      /\ feed' = feed /\ session' = session
  BY ReadTrueSteps DEF streamed
<1>2. CASE i # j
  <2>1. \A n \in 1..session[i] : taken'[<<i, n>>] = taken[<<i, n>>]
    <3>1. \A n \in 1..session[i] : <<i, n>> \in Calls
      BY PartsType
    <3>. QED  BY <1>1, <1>2, <3>1
  <2>2. Parts(i)' = Parts(i)
    BY <1>1, <2>1 DEF Parts
  <2>. QED  BY <1>2, <2>2
<1>3. CASE i = j
  <2>. DEFINE c == Call(i)
              x == got[c][taken[c] + 1]
              m == session[i] - 1
              e(k) == SubSeq(feed[<<i, k>>], 1, taken[<<i, k>>])
              s == [k \in 1..m |-> e(k)]
              last == e(session[i])
              now == SubSeq(feed[c], 1, taken[c] + 1)
  <2>1. /\ m \in Nat /\ m + 1 = session[i] /\ c = <<i, m + 1>> /\ c \in Calls
        /\ \A k \in 1..m : k \in 1..session[i] /\ <<i, k>> # c
    BY <1>1, <1>3
  <2>2. \A k \in 1..session[i] : e(k) \in Seq(Frames) /\ <<i, k>> \in Calls
    BY PartsType, PartType, Zenon
  <2>3. s \in Seq(Seq(Frames)) /\ Len(s) = m /\ last \in Seq(Frames)
    <3>. DEFINE T == Seq(Frames)
    <3>1. \A k \in 1..m : s[k] = e(k) /\ s[k] \in T
      <4>. HIDE DEF e, m
      <4>. QED  BY <2>1, <2>2
    <3>2. s = [k \in 1..m |-> s[k]]
      <4>. HIDE DEF e, m
      <4>. QED  OBVIOUS
    <3>3. last \in T
      <4>1. session[i] \in 1..session[i]
        BY <1>1, <1>3
      <4>. QED  BY <2>2, <4>1, Zenon
    <3>. HIDE DEF T, m, s, last
    <3>4. s \in Seq(T) /\ Len(s) = m
      BY <2>1, <3>1, <3>2, SequenceMade
    <3>. QED  BY <3>3, <3>4 DEF T
  <2>4. taken[c] \in Nat /\ taken[c] + 1 <= Len(feed[c]) /\ feed[c] \in Seq(Frames)
    <3>1. /\ feed[c] \in Seq(Frames) /\ taken[c] \in Nat
          /\ Len(feed[c]) \in Nat /\ Len(got[c]) \in Nat
      BY <2>1, Lengths
    <3>2. taken[c] + 1 \in 1..Len(got[c])
      BY <1>1, <1>3
    <3>3. Len(got[c]) <= Len(feed[c])
      BY <2>1 DEF TypeInv, Fed
    <3>. HIDE DEF c
    <3>4. taken[c] + 1 <= Len(feed[c])
      BY <3>1, <3>2, <3>3
    <3>. QED  BY <3>1, <3>4
  <2>5. x \in Frames /\ x = feed[c][taken[c] + 1]
    BY <1>1, <1>3, <2>1 DEF TypeInv, Fed
  <2>6. now = Append(last, x) /\ now \in Seq(Frames) /\ last = SubSeq(feed[c], 1, taken[c])
    <3>1. last = SubSeq(feed[c], 1, taken[c])
      BY <1>1, <1>3
    <3>. DEFINE a == feed[c]
                b == taken[c]
    <3>2. now = SubSeq(a, 1, b + 1) /\ last = SubSeq(a, 1, b) /\ x = a[b + 1]
      BY <2>5, <3>1
    <3>3. a \in Seq(Frames) /\ b \in Nat /\ b + 1 <= Len(a)
      BY <2>4
    <3>. HIDE DEF a, b, now, last, x
    <3>4. SubSeq(a, 1, b + 1) = Append(SubSeq(a, 1, b), a[b + 1])
      BY <3>3, PartNext
    <3>5. SubSeq(a, 1, b + 1) \in Seq(Frames)
      <4>1. b + 1 \in Nat
        BY <3>3
      <4>. QED  BY <3>3, <4>1, PartType
    <3>6. now = Append(last, x) /\ now \in Seq(Frames)
      BY <3>2, <3>4, <3>5, Zenon
    <3>. QED  BY <3>1, <3>6
  <2>7. Parts(i) = Append(s, last) /\ Parts(i)' = Append(s, now)
    <3>1. /\ Parts(i) = [k \in 1..m+1 |-> e(k)]
          /\ Parts(i)' = [k \in 1..m+1 |-> SubSeq(feed[<<i, k>>], 1, taken'[<<i, k>>])]
      BY <1>1, <2>1, Zenon DEF Parts
    <3>2. \A k \in 1..m+1 : (k \in 1..m /\ k # m + 1) \/ k = m + 1
      BY <2>1
    <3>3. \A k \in 1..m : /\ e(k) = s[k]
                          /\ SubSeq(feed[<<i, k>>], 1, taken'[<<i, k>>]) = s[k]
      <4>1. \A k \in 1..m : taken'[<<i, k>>] = taken[<<i, k>>]
        BY <1>1, <1>3, <2>1, <2>2
      <4>. QED  BY <4>1
    <3>4. e(m + 1) = last /\ SubSeq(feed[<<i, m+1>>], 1, taken'[<<i, m+1>>]) = now
      <4>1. taken'[<<i, m+1>>] = taken[c] + 1 /\ feed[<<i, m+1>>] = feed[c]
        BY <1>1, <1>3, <2>1
      <4>2. e(m + 1) = last
        BY <2>1, Zenon
      <4>. QED  BY <4>1, <4>2
    <3>5. ASSUME NEW t \in Seq(Seq(Frames)), NEW v \in Seq(Frames), Len(t) = m
          PROVE  Append(t, v) = [k \in 1..m+1 |-> IF k = m + 1 THEN v ELSE t[k]]
      <4>1. Append(t, v) = [k \in 1..Len(t)+1 |-> IF k = Len(t)+1 THEN v ELSE t[k]]
        BY AppendMade
      <4>. QED  BY <3>5, <4>1, Zenon
    <3>6. /\ Append(s, last) = [k \in 1..m+1 |-> IF k = m + 1 THEN last ELSE s[k]]
          /\ Append(s, now) = [k \in 1..m+1 |-> IF k = m + 1 THEN now ELSE s[k]]
      <4>. HIDE DEF s, last, now, m
      <4>. QED  BY <2>3, <2>6, <3>5
    <3>. DEFINE g(k) == SubSeq(feed[<<i, k>>], 1, taken'[<<i, k>>])
    <3>7. \A k \in 1..m+1 : /\ e(k) = IF k = m + 1 THEN last ELSE s[k]
                            /\ g(k) = IF k = m + 1 THEN now ELSE s[k]
      <4>1. (\A k \in 1..m : e(k) = s[k] /\ g(k) = s[k]) /\ e(m+1) = last /\ g(m+1) = now
        BY <3>3, <3>4
      <4>. HIDE DEF e, g, s, last, now, m
      <4>. QED  BY <3>2, <4>1
    <3>8. Parts(i)' = [k \in 1..m+1 |-> g(k)]
      BY <3>1
    <3>. HIDE DEF e, g, s, last, now, m
    <3>. QED  BY <3>1, <3>6, <3>7, <3>8
  <2>8. FlattenSeq(Append(s, last)) = FlattenSeq(s) \o last
    <3>. HIDE DEF s, last
    <3>. QED  BY <2>3, FlattenAppend
  <2>9. FlattenSeq(Append(s, now)) = FlattenSeq(s) \o now /\ FlattenSeq(s) \in Seq(Frames)
    <3>. HIDE DEF s, last, now
    <3>. QED  BY <2>3, <2>6, FlattenAppend, FlattenType
  <2>10. FlattenSeq(s) \o Append(last, x) = Append(FlattenSeq(s) \o last, x)
    <3>. DEFINE a == FlattenSeq(s)
    <3>1. a \in Seq(Frames)
      BY <2>9
    <3>. HIDE DEF a, last, x
    <3>2. a \o Append(last, x) = Append(a \o last, x)
      BY <2>3, <2>5, <3>1, ConcatAppend
    <3>. QED  BY <3>2 DEF a
  <2>. HIDE DEF s, last, now
  <2>11. FlattenSeq(Parts(i)') = Append(FlattenSeq(Parts(i)), x)
    BY <2>6, <2>7, <2>8, <2>9, <2>10, Zenon
  <2>. QED  BY <1>3, <2>11
<1>. QED  BY <1>2, <1>3

\* A step that reads no frame.
LEMMA NothingRead ==
  ASSUME TypeInv, Read, taken' = taken,
         \A i \in Interfaces : /\ Taken(i)' = Taken(i)
                               /\ FlattenSeq(Parts(i)') = FlattenSeq(Parts(i))
                               /\ session'[i] \in Nat /\ session[i] <= session'[i],
         \A c \in Calls : \A l \in 1..taken[c] : got'[c][l] = got[c][l]
  PROVE  Read'
<1>1. ASSUME NEW i \in Interfaces
      PROVE  Given(i) \subseteq Given(i)'
  <2>. SUFFICES ASSUME NEW f \in Given(i)
                PROVE  f \in Given(i)'
    OBVIOUS
  <2>1. PICK c \in Calls : /\ f \in Frames /\ c[1] = i /\ c[2] <= session[i]
                          /\ \E l \in 1..taken[c] : f = got[c][l]
    BY DEF Given
  <2>2. c[2] \in Nat /\ session[i] \in Nat
    BY <2>1, Lengths
  <2>3. \A a, b, m \in Nat : a <= b /\ b <= m => a <= m
    OBVIOUS
  <2>4. c[2] <= session'[i]
    BY <2>1, <2>2, <2>3
  <2>5. \E l \in 1..taken'[c] : f = got'[c][l]
    BY <2>1
  <2>. QED  BY <2>1, <2>4, <2>5, Zenon DEF Given
<1>2. ASSUME NEW i \in Interfaces
      PROVE  /\ Rising(Taken(i)') /\ Taken(i)' = FlattenSeq(Parts(i)')
             /\ \A k \in 1..Len(Taken(i)') : Taken(i)'[k] \in Given(i)'
  <2>1. /\ Rising(Taken(i)) /\ Taken(i) = FlattenSeq(Parts(i))
        /\ \A k \in 1..Len(Taken(i)) : Taken(i)[k] \in Given(i)
    BY Zenon DEF Read
  <2>2. \A k \in 1..Len(Taken(i)) : Taken(i)[k] \in Given(i)'
    BY <1>1, <2>1
  <2>. QED  BY <2>1, <2>2, Zenon
<1>. QED  BY <1>2, Zenon DEF Read

\* The frame that is read is later than any that was.
LEMMA ReadTrueRead ==
  ASSUME TypeInv, TypeInv', Ordered, Read, NEW j \in Interfaces, ReadTrue(j)
  PROVE  Read'
<1>. DEFINE c == Call(j)
            x == got[c][taken[c] + 1]
<1>1. /\ session[j] \in Nat \ {0} /\ c \in Calls /\ c = <<j, session[j]>>
      /\ taken[c] + 1 \in 1..Len(got[c]) /\ taken[c] \in Nat
      /\ x \in Frames
      /\ \A d \in Calls : taken'[d] = IF d = c THEN taken[d] + 1 ELSE taken[d]
      /\ posts' = Append(posts, x)
      /\ UNCHANGED <<streamed, session, handed>>
  BY ReadTrueSteps
<1>2. HandlingType
  BY Types DEF TypeInv
<1>3. feed[c] \in Seq(Frames) /\ taken[c] + 1 \in 1..Len(feed[c]) /\ x = feed[c][taken[c] + 1]
  <2>1. /\ feed[c] \in Seq(Frames) /\ Len(feed[c]) \in Nat /\ Len(got[c]) \in Nat
    BY <1>1, Lengths
  <2>2. /\ Len(got[c]) <= Len(feed[c])
        /\ \A k \in 1..Len(got[c]) : got[c][k] = feed[c][k]
    BY <1>1 DEF TypeInv, Fed
  <2>3. x = feed[c][taken[c] + 1]
    BY <1>1, <2>2
  <2>4. \A a, b \in Nat : \A m \in 1..a : a <= b => m \in 1..b
    OBVIOUS
  <2>. QED  BY <1>1, <2>1, <2>2, <2>3, <2>4, Zenon
<1>4. x.interface = j
  BY <1>1, <1>3 DEF Ordered
<1>5. \A d \in Calls : \A l \in 1..taken[d] : l \in 1..taken'[d]
  <2>1. \A d \in Calls : taken[d] \in Nat
    BY Lengths
  <2>. HIDE DEF c, x
  <2>. QED  BY <1>1, <2>1
<1>6. got' = got
  BY <1>1 DEF streamed
<1>7. ASSUME NEW i \in Interfaces
      PROVE  Taken(i)' = IF i = j THEN Append(Taken(i), x) ELSE Taken(i)
  <2>1. handed' = handed /\ posts' = Append(posts, x)
    BY <1>1
  <2>. HIDE DEF x, c
  <2>2. Taken(i)' = IF x.interface = i THEN Append(Taken(i), x) ELSE Taken(i)
    BY <1>1, <1>2, <2>1, TakenPost
  <2>. QED  BY <1>4, <2>2
<1>8. ASSUME NEW i \in Interfaces
      PROVE  FlattenSeq(Parts(i)') = IF i = j THEN Append(FlattenSeq(Parts(i)), x)
                                              ELSE FlattenSeq(Parts(i))
  BY PartsRead, Zenon
<1>9. ASSUME NEW k \in 1..Len(Taken(j))
      PROVE  Taken(j)[k].id < x.id
  <2>0. PICK d \in Calls : /\ d[1] = j /\ d[2] <= session[j]
                            /\ \E l \in 1..taken[d] : Taken(j)[k] = got[d][l]
    BY Zenon DEF Read, Given
  <2>1. PICK l \in 1..taken[d] :
               d[1] = j /\ d[2] <= session[j] /\ Taken(j)[k] = got[d][l]
    BY <2>0
  <2>2. /\ d[2] \in Nat /\ d = <<d[1], d[2]>>
        /\ feed[d] \in Seq(Frames) /\ Len(feed[d]) \in Nat /\ Len(got[d]) \in Nat
        /\ taken[d] \in Nat
    BY Lengths DEF Calls
  <2>3. taken[d] <= Len(got[d]) /\ Len(got[d]) <= Len(feed[d])
    BY DEF TypeInv, Fed
  <2>4. l \in 1..Len(got[d]) /\ l \in 1..Len(feed[d])
    <3>1. \A a, b \in Nat : \A m \in 1..a : a <= b => m \in 1..b
      OBVIOUS
    <3>. QED  BY <2>2, <2>3, <3>1
  <2>. HIDE DEF x
  <2>5. CASE d = c
    <3>1. l < taken[c] + 1 /\ l \in 1..Len(feed[c])
      BY <2>2, <2>4, <2>5
    <3>2. Rising(feed[c]) /\ got[c][l] = feed[c][l]
      BY <1>1, <2>4, <2>5 DEF Ordered, TypeInv, Fed
    <3>. HIDE DEF c
    <3>. QED  BY <1>3, <2>1, <2>5, <3>1, <3>2 DEF Rising
  <2>6. CASE d # c
    <3>1. d[1] = c[1] /\ d[2] < c[2]
      BY <1>1, <2>1, <2>2, <2>6
    <3>2. Below(got[d], feed[c])
      BY <1>1, <3>1 DEF Ordered
    <3>. HIDE DEF c
    <3>. QED  BY <1>3, <2>1, <2>4, <3>2 DEF Below
  <2>. QED  BY <2>5, <2>6
<1>10. ASSUME NEW i \in Interfaces
       PROVE  Given(i) \subseteq Given(i)' /\ (i = j => x \in Given(i)')
  <2>. HIDE DEF x, c
  <2>1. Given(i) \subseteq Given(i)'
    <3>. SUFFICES ASSUME NEW f \in Given(i)
                  PROVE  f \in Given(i)'
      OBVIOUS
    <3>1. PICK d \in Calls : /\ f \in Frames /\ d[1] = i /\ d[2] <= session[i]
                            /\ \E l \in 1..taken[d] : f = got[d][l]
      BY DEF Given
    <3>2. \E l \in 1..taken'[d] : f = got'[d][l]
      BY <1>5, <1>6, <3>1
    <3>. QED  BY <1>1, <3>1, <3>2, Zenon DEF Given
  <2>2. ASSUME i = j
        PROVE  x \in Given(i)'
    <3>1. c[1] = i /\ c[2] <= session'[i] /\ x = got'[c][taken[c] + 1]
      BY <1>1, <1>6, <2>2 DEF x
    <3>2. taken[c] + 1 \in 1..taken'[c]
      BY <1>1
    <3>. QED  BY <1>1, <3>1, <3>2, Zenon DEF Given
  <2>. QED  BY <2>1, <2>2
<1>11. ASSUME NEW i \in Interfaces
       PROVE  /\ Rising(Taken(i)') /\ Taken(i)' = FlattenSeq(Parts(i)')
              /\ \A k \in 1..Len(Taken(i)') : Taken(i)'[k] \in Given(i)'
  <2>1. Taken(i) \in Seq(Frames)
    BY <1>2, TakenType
  <2>2. /\ Rising(Taken(i)) /\ Taken(i) = FlattenSeq(Parts(i))
        /\ \A k \in 1..Len(Taken(i)) : Taken(i)[k] \in Given(i)'
    BY <1>10 DEF Read
  <2>3. CASE i # j
    BY <1>7, <1>8, <2>2, <2>3, Zenon
  <2>4. CASE i = j
    <3>. DEFINE s == Taken(i)
                t == Append(s, x)
    <3>1. /\ \A k \in 1..Len(t) : \/ k \in 1..Len(s) /\ t[k] = s[k]
                                  \/ k = Len(s) + 1 /\ t[k] = x
      <4>. HIDE DEF s, x, c
      <4>1. s \in Seq(Frames) /\ x \in Frames
        BY <1>1, <2>1 DEF s
      <4>. QED  BY <4>1, AppendTo
    <3>2. Rising(t)
      <4>1. s \in Seq(Frames) /\ Rising(s) /\ \A k \in 1..Len(s) : s[k].id < x.id
        BY <1>9, <2>1, <2>2, <2>4
      <4>. HIDE DEF s, x, c
      <4>. QED  BY <1>1, <4>1, RisingAppend
    <3>3. Taken(i)' = t /\ t = FlattenSeq(Parts(i)')
      BY <1>7, <1>8, <2>2, <2>4, Zenon
    <3>4. x \in Given(i)'
      BY <1>10, <2>4
    <3>. HIDE DEF s, t, x, c
    <3>5. \A k \in 1..Len(t) : t[k] \in Given(i)'
      BY <2>2, <3>1, <3>4, Zenon DEF s
    <3>. QED  BY <3>2, <3>3, <3>5, Zenon
  <2>. QED  BY <2>3, <2>4
<1>. QED  BY <1>11, Zenon DEF Read

LEMMA SameTaken ==
  ASSUME UNCHANGED <<posts, handed>>, NEW i \in Interfaces
  PROVE  Taken(i)' = Taken(i)
BY DEF Taken

LEMMA ReadStep == TypeInv /\ TypeInv' /\ Ordered /\ Read /\ [Next]_vars => Read'
<1>. SUFFICES ASSUME TypeInv, TypeInv', Ordered, Read, [Next]_vars
              PROVE  Read'
  OBVIOUS
<1>0. HandlingType /\ \A i \in Interfaces : session[i] \in Nat /\ session[i] <= session[i]
  BY Types, RemoteAssumption DEF TypeInv, ReadingType
<1>1. ASSUME UNCHANGED <<feed, got, session, taken>>,
             \A i \in Interfaces : Taken(i)' = Taken(i)
      PROVE  Read'
  <2>1. \A i \in Interfaces : Parts(i)' = Parts(i)
    BY <1>1 DEF Parts
  <2>2. \A c \in Calls : \A l \in 1..taken[c] : got'[c][l] = got[c][l]
    BY <1>1
  <2>. QED  BY <1>0, <1>1, <2>1, <2>2, NothingRead
<1>2. CASE UNCHANGED <<feed, got, session, taken, posts, handed>>
  BY <1>1, <1>2, SameTaken
<1>3. CASE Hand
  BY <1>0, <1>1, <1>3, TakenHand DEF Hand, streamed, reading
<1>4. ASSUME NEW i \in Interfaces, ReadTrue(i)
      PROVE  Read'
  BY <1>4, ReadTrueRead
<1>5. ASSUME NEW j \in Interfaces, ReadFrame(j)
      PROVE  Read'
  <2>1. UNCHANGED <<got, session, taken, posts, handed>>
    BY <1>5, ReadFrameSteps DEF ReadFrame, handling
  <2>2. /\ feed' \in [Calls -> Seq(Frames)]
        /\ \A c \in Calls : \/ feed'[c] = feed[c]
                            \/ \E x \in Frames : feed'[c] = Append(feed[c], x)
    BY <1>5, ReadFrameSteps
  <2>3. \A i \in Interfaces : Parts(i)' = Parts(i)
    BY <2>1, <2>2, PartsFed
  <2>4. \A c \in Calls : \A l \in 1..taken[c] : got'[c][l] = got[c][l]
    BY <2>1
  <2>5. \A i \in Interfaces : Taken(i)' = Taken(i)
    BY <2>1, SameTaken
  <2>. QED  BY <1>0, <2>1, <2>3, <2>4, <2>5, NothingRead
<1>6. ASSUME NEW j \in Interfaces, Deliver(j)
      PROVE  Read'
  <2>1. /\ UNCHANGED <<feed, session, taken, posts, handed>>
        /\ got' = [got EXCEPT ![Call(j)] = Append(got[Call(j)],
                                                  feed[Call(j)][Len(got[Call(j)]) + 1])]
        /\ Len(got[Call(j)]) < Len(feed[Call(j)])
    BY <1>6 DEF Deliver, Feed!Deliver, reading, handling
  <2>2. \A c \in Calls : \A l \in 1..taken[c] : got'[c][l] = got[c][l]
    <3>. SUFFICES ASSUME NEW c \in Calls, NEW l \in 1..taken[c]
                  PROVE  got'[c][l] = got[c][l]
      OBVIOUS
    <3>1. CASE c # Call(j)
      <4>1. got'[c] = got[c]
        BY <2>1, <3>1 DEF TypeInv, TypeOK
      <4>. QED  BY <4>1
    <3>2. CASE c = Call(j)
      <4>. DEFINE s == got[c]
                  x == feed[c][Len(s) + 1]
      <4>1. got'[c] = Append(s, x)
        BY <2>1, <3>2 DEF TypeInv, TypeOK
      <4>2. /\ s \in Seq(Frames) /\ Len(s) \in Nat /\ taken[c] \in Nat
            /\ feed[c] \in Seq(Frames) /\ Len(feed[c]) \in Nat
        BY Lengths
      <4>3. x \in Frames
        <5>1. Len(s) + 1 \in 1..Len(feed[c])
          BY <2>1, <3>2, <4>2
        <5>. QED  BY <4>2, <5>1, ElementOfSeq
      <4>4. taken[c] <= Len(s)
        BY DEF TypeInv, Fed
      <4>5. l \in 1..Len(s)
        <5>1. \A a, b \in Nat : \A m \in 1..a : a <= b => m \in 1..b
          OBVIOUS
        <5>. QED  BY <4>2, <4>4, <5>1
      <4>. HIDE DEF s, x
      <4>6. Append(s, x)[l] = s[l]
        BY <4>2, <4>3, <4>5, AppendProperties
      <4>. QED  BY <4>1, <4>6 DEF s
    <3>. QED  BY <3>1, <3>2
  <2>3. \A i \in Interfaces : Parts(i)' = Parts(i) /\ Taken(i)' = Taken(i)
    BY <2>1, SameTaken DEF Parts
  <2>. QED  BY <1>0, <2>1, <2>2, <2>3, NothingRead
<1>7. ASSUME NEW j \in Interfaces, Subscribe(j)
      PROVE  Read'
  <2>1. UNCHANGED <<feed, got, taken, posts, handed>>
    BY <1>7 DEF Subscribe, Feed!Ask, streamed, handling
  <2>2. CASE session' = session
    BY <1>2, <2>1, <2>2
  <2>3. CASE session' = [session EXCEPT ![j] = session[j] + 1]
    <3>1. \A i \in Interfaces : /\ FlattenSeq(Parts(i)') = FlattenSeq(Parts(i))
                                /\ Taken(i)' = Taken(i)
      BY <2>1, <2>3, PartsAsk, SameTaken
    <3>2. \A i \in Interfaces : session'[i] \in Nat /\ session[i] <= session'[i]
      BY <1>0, <2>3 DEF TypeInv, TypeOK
    <3>3. \A c \in Calls : \A l \in 1..taken[c] : got'[c][l] = got[c][l]
      BY <2>1
    <3>. QED  BY <2>1, <3>1, <3>2, <3>3, NothingRead
  <2>. QED  BY <1>7, <2>2, <2>3 DEF Subscribe
<1>8. ASSUME NEW i \in Interfaces, Register(i) \/ OnBus(i) \/ Handle(i)
      PROVE  Read'
  BY <1>2, <1>8 DEF Register, Feed!Subscribe, OnBus, Handle, streamed, reading, handling
<1>9. ASSUME NEW c \in Calls, Leave(c)
      PROVE  Read'
  BY <1>2, <1>9 DEF Leave, Feed!Cancel, reading, handling
<1>10. ASSUME NEW l \in {"broken", "silent"}, StopServer(l)
       PROVE  Read'
  BY <1>2, <1>10 DEF StopServer, handling
<1>11. CASE \/ StartServer \/ Answered \/ Fire \/ LoseSend \/ Quit \/ JoinAsio
            \/ Join \/ TryCancel \/ Over \/ UNCHANGED vars
            \/ \E i \in Interfaces :
                 \/ OpenSocket(i) \/ Ready(i) \/ WaitFails(i) \/ Rearm(i) \/ Loop(i)
                \/ Context(i) \/ Check(i)
                 \/ ReadFalse(i) \/ Close(i) \/ Sleep(i) \/ Halt(i) \/ Break(i) \/ Silence(i)
  BY <1>2, <1>11
     DEF StartServer, Answered, Fire, LoseSend, Quit, JoinAsio, Join, TryCancel, Over,
         vars, OpenSocket, Ready, WaitFails, Rearm, Loop, Context, Check, ReadFalse, Close,
         Sleep, Halt, Break, Silence, streamed, reading, handling
<1>. QED
  BY <1>3, <1>4, <1>5, <1>6, <1>7, <1>8, <1>9, <1>10, <1>11
     DEF Next, Reader, Service, Drain, Asio, Ending

LEMMA OrderedInit == Init => Ordered /\ Read
<1>. SUFFICES ASSUME Init
              PROVE  Ordered /\ Read
  OBVIOUS
<1>1. \A c \in Calls : Len(feed[c]) = 0 /\ Len(got[c]) = 0 /\ c[1] \in Interfaces
  BY EmptySeq DEF Init, Feed!Init, Calls
<1>2. \A i \in Interfaces : Len(rx[i]) = 0
  BY EmptySeq DEF Init
<1>3. Ordered
  BY <1>1, <1>2 DEF Ordered, Rising, Below
<1>4. ASSUME NEW i \in Interfaces
      PROVE  Taken(i) = <<>> /\ FlattenSeq(Parts(i)) = <<>>
  <2>1. handed[i] = <<>> /\ posts = <<>> /\ session[i] = 0
    BY DEF Init
  <2>2. <<>> \o <<>> = <<>>
    OBVIOUS
  <2>3. Taken(i) = <<>>
    BY <2>1, <2>2, FilterEmpty, Zenon DEF Taken
  <2>4. Parts(i) = <<>>
    BY <2>1 DEF Parts
  <2>. QED  BY <2>3, <2>4, FlattenEmpty
<1>5. Read
  <2>1. Len(<<>>) = 0
    OBVIOUS
  <2>. QED  BY <1>4, <2>1 DEF Read, Rising
<1>. QED  BY <1>3, <1>5

\* A client receives the frames of an interface in the order of the bus, none
\* twice, and of each of its calls none is left out but at the end: through
\* however many restarts of the server and breaks of the connection, and
\* wherever these meet the steps of the threads on both sides.
THEOREM OrderCorrect == Spec => []AsIfLocal
<1>1. Init => RemoteInv
  BY TypeInit, OrderedInit DEF RemoteInv
<1>2. RemoteInv /\ [Next]_vars => RemoteInv'
  BY TypeStep, OrderedStep, ReadStep DEF RemoteInv
<1>3. RemoteInv => AsIfLocal
  BY DEF RemoteInv, Read, Rising, Parts, AsIfLocal
<1>. QED  BY <1>1, <1>2, <1>3, PTL DEF Spec
=============================================================================
