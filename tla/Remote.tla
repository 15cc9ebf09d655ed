------------------------------- MODULE Remote -------------------------------
(***************************************************************************)
(* A caneo that takes its frames from another one, from the bus to the     *)
(* callback: the CAN sockets of the server (src/src/socket/SocketCAN.cpp), *)
(* the stream between the two, which is a FrameFeed, and the sockets of    *)
(* the client with their threads (src/src/socket/SocketGrpc.cpp), down to  *)
(* the end of run_tui() and run_gui().  The server may stop, crash or lose *)
(* power and start again; a connection may break, or go silent: nothing    *)
(* arrives any more and nobody is told.                                    *)
(*                                                                         *)
(* A frame is told apart by the order in which the server's sockets took   *)
(* it from the bus.  The mutex ctx_mutex_ is held within single steps.     *)
(***************************************************************************)
EXTENDS Naturals, Sequences, SequencesExt, Filters

CONSTANTS
  Interfaces,  \* the interfaces of both configurations
  Everything,  \* the empty filter, which a client socket never asks for
  MaxFrames,   \* bound: frames on the bus
  MaxSends,    \* bound: actions of the client that fire
  MaxFaults,   \* bound: faults, of whatever kind
  MaxEvents,   \* bound: frames and faults together
  MaxRx        \* the receive buffer of a CAN socket

ASSUME RemoteAssumption ==
  /\ Everything \notin Interfaces
  /\ MaxFrames \in Nat /\ MaxSends \in Nat /\ MaxFaults \in Nat
  /\ MaxEvents \in Nat /\ MaxRx \in Nat

VARIABLES
  \* The server.
  server,  \* "up" from when it takes calls
  sockets, \* socket_map: the CAN sockets opened so far
  armed,   \* the sockets whose async_wait() is pending
  deaf,    \* the sockets whose async_wait() has failed
  drain,   \* the sockets, at most one, whose frames are being read
  rx,      \* the receive buffer of each socket
  bus,     \* the number of frames so far
  \* The stream.
  open, filter, feed, got,
  \* The client.
  running, \* running_ of each socket
  reader,  \* where the reader thread of each socket is
  session, \* the number of its calls that have reached a server
  link,    \* the state of its current call
  ctx,     \* current_ctx_ of each socket
  taken,   \* how many frames of each call have been read
  posts,   \* the frames posted to the io_context
  handed,  \* the frames each socket has handed to its callback
  asio,    \* what the asio thread is at: "idle", or where its Send is
  sends,   \* the number of actions that have fired
  main,    \* where the main thread is
  faults   \* the number of faults so far

streamed == <<open, filter, feed, got>>
served == <<server, sockets, armed, deaf, drain, rx, bus>>
reading == <<running, reader, session, link, ctx, taken>>
handling == <<posts, handed, asio, sends>>
vars == <<served, streamed, reading, handling, main, faults>>

\* A call: the interface it asks for, and its number.
Calls == Interfaces \X (1..MaxFaults + 1)
Frames == [id : 1..MaxFrames, interface : Interfaces]
Feed == INSTANCE FrameFeed WITH Filters <- [c \in Calls |-> {c[1]}]

Call(i) == <<i, session[i]>>
MayHappen == bus + faults < MaxEvents
Fault == faults < MaxFaults /\ MayHappen /\ faults' = faults + 1

-----------------------------------------------------------------------------
(* The server.                                                             *)

\* The gRPC server listens first, then the sockets are opened one by one.
StartServer ==
  /\ server = "down"
  /\ server' = "up"
  /\ UNCHANGED <<sockets, armed, deaf, drain, rx, bus, streamed, reading, handling,
                 main, faults>>

OpenSocket(i) ==
  /\ server = "up" /\ i \notin sockets
  /\ sockets' = sockets \cup {i} /\ armed' = armed \cup {i}
  /\ UNCHANGED <<server, deaf, drain, rx, bus, streamed, reading, handling, main,
                 faults>>

\* The process ends, or its host loses power: then no connection is closed.
StopServer(l) ==
  /\ server = "up" /\ Fault
  /\ server' = "down" /\ sockets' = {} /\ armed' = {} /\ deaf' = {} /\ drain' = {}
  /\ rx' = [i \in Interfaces |-> <<>>]
  /\ open' = {}
  /\ link' = [i \in Interfaces |-> IF link[i] = "live" THEN l ELSE link[i]]
  /\ UNCHANGED <<bus, filter, feed, got, running, reader, session, ctx, taken,
                 handling, main>>

\* A frame is put in the buffer of its socket; without room it is lost.
Receive(i) ==
  /\ i \in sockets /\ bus < MaxFrames /\ MayHappen /\ Len(rx[i]) < MaxRx
  /\ bus' = bus + 1
  /\ rx' = [rx EXCEPT ![i] = Append(@, [id |-> bus + 1, interface |-> i])]

OnBus(i) ==
  /\ Receive(i)
  /\ UNCHANGED <<server, sockets, armed, deaf, drain, streamed, reading, handling,
                 main, faults>>

\* Mutant: the next wait is started before the frames are read.
Ready_ArmedFirst(i) ==
  /\ sockets = Interfaces /\ drain = {} /\ i \in armed /\ rx[i] # <<>>
  /\ drain' = {i}
  /\ UNCHANGED <<server, sockets, armed, deaf, rx, bus, streamed, reading, handling,
                 main, faults>>

\* io.run(), called when all sockets are open, finds a socket to be readable.
Ready(i) ==
  /\ sockets = Interfaces /\ drain = {} /\ i \in armed /\ rx[i] # <<>>
  /\ drain' = {i} /\ armed' = armed \ {i}
  /\ UNCHANGED <<server, sockets, deaf, rx, bus, streamed, reading, handling, main,
                 faults>>

\* The wait ends with an error: it is printed, asyncRead() is not called again,
\* and what comes to the socket from then on is never read.
WaitFails(i) ==
  /\ sockets = Interfaces /\ drain = {} /\ i \in armed /\ Fault
  /\ armed' = armed \ {i} /\ deaf' = deaf \cup {i}
  /\ UNCHANGED <<server, sockets, drain, rx, bus, streamed, reading, handling, main>>

\* One readFrame(): the callback broadcasts the frame.
ReadFrame(i) ==
  /\ i \in drain /\ rx[i] # <<>>
  /\ rx' = [rx EXCEPT ![i] = Tail(@)]
  /\ Feed!Publish(Head(rx[i]))
  /\ UNCHANGED <<server, sockets, armed, deaf, drain, bus, reading, handling, main,
                 faults>>

\* Mutant: an error ends the chain of reads.
Rearm_Drained(i) ==
  /\ i \in drain
  /\ \/ rx[i] = <<>> /\ UNCHANGED faults
     \/ rx[i] # <<>> /\ Fault
  /\ drain' = {} /\ armed' = IF rx[i] = <<>> THEN armed \cup {i} ELSE armed
  /\ UNCHANGED <<server, sockets, deaf, rx, bus, streamed, reading, handling, main>>

\* recvmsg() fails, because the buffer is empty or for another reason (the
\* interface is down, say), which nobody is told; asyncRead() waits again.
Rearm(i) ==
  /\ i \in drain
  /\ \/ rx[i] = <<>> /\ UNCHANGED faults
     \/ rx[i] # <<>> /\ Fault
  /\ drain' = {} /\ armed' = armed \cup {i}
  /\ UNCHANGED <<server, sockets, deaf, rx, bus, streamed, reading, handling, main>>

\* A call is registered, and a frame is written and arrives at its client.
Register(i) ==
  /\ server = "up" /\ link[i] = "live" /\ Feed!Subscribe(Call(i))
  /\ Call(i) \notin open
  /\ UNCHANGED <<served, reading, handling, main, faults>>

Deliver(i) ==
  /\ server = "up" /\ link[i] = "live" /\ Feed!Deliver(Call(i))
  /\ UNCHANGED <<served, reading, handling, main, faults>>

\* A call whose client is gone learns of it from a write, and leaves.
Leave(c) ==
  /\ c \in open /\ (c # Call(c[1]) \/ link[c[1]] # "live")
  /\ Feed!Cancel(c)
  /\ UNCHANGED <<served, reading, handling, main, faults>>

-----------------------------------------------------------------------------
(* A reader thread of the client.                                          *)

Goto(i, l) == reader' = [reader EXCEPT ![i] = l]

\* while (running_), then current_ctx_ is set.
Loop(i) ==
  /\ reader[i] = "loop"
  /\ Goto(i, IF running[i] THEN "context" ELSE "out")
  /\ UNCHANGED <<served, streamed, running, session, link, ctx, taken, handling,
                 main, faults>>

Context(i) ==
  /\ reader[i] = "context"
  /\ ctx' = [ctx EXCEPT ![i] = "set"]
  /\ Goto(i, "call")
  /\ UNCHANGED <<served, streamed, running, session, link, taken, handling,
                 main, faults>>

\* Subscribe(): the call reaches the server, or it fails, which only Read()
\* tells.  A context may be cancelled before its call is made.
Subscribe(i) ==
  /\ reader[i] = "call"
  /\ Goto(i, "check")
  /\ \/ /\ server = "up" /\ ctx[i] = "set"
        /\ session' = [session EXCEPT ![i] = @ + 1]
        /\ link' = [link EXCEPT ![i] = "live"]
        /\ Feed!Ask(<<i, session[i] + 1>>, i)
     \/ /\ server = "down" \/ ctx[i] = "cancelled"
        /\ link' = [link EXCEPT ![i] = "broken"]
        /\ UNCHANGED <<session, streamed>>
  /\ UNCHANGED <<served, running, ctx, taken, handling, main, faults>>

\* while (running_ && ...
Check(i) ==
  /\ reader[i] = "check"
  /\ Goto(i, IF running[i] THEN "read" ELSE "close")
  /\ UNCHANGED <<served, streamed, running, session, link, ctx, taken, handling,
                 main, faults>>

\* ... Read() of a frame, which is posted.  What had arrived before a failure
\* may still be read.
ReadTrue(i) ==
  /\ reader[i] = "read" /\ session[i] > 0 /\ taken[Call(i)] < Len(got[Call(i)])
  /\ taken' = [taken EXCEPT ![Call(i)] = @ + 1]
  /\ posts' = Append(posts, got[Call(i)][taken[Call(i)] + 1])
  /\ Goto(i, "check")
  /\ UNCHANGED <<served, streamed, running, session, link, ctx, handed, asio,
                 sends, main, faults>>

ReadFalse(i) ==
  /\ reader[i] = "read" /\ (link[i] = "broken" \/ ctx[i] = "cancelled")
  /\ Goto(i, "close")
  /\ UNCHANGED <<served, streamed, running, session, link, ctx, taken, handling,
                 main, faults>>

\* Mutant: the thread ends with its first connection.
Close_ForGood(i) ==
  /\ reader[i] = "close"
  /\ ctx' = [ctx EXCEPT ![i] = "null"] /\ link' = [link EXCEPT ![i] = "none"]
  /\ Goto(i, "out")
  /\ UNCHANGED <<served, streamed, running, session, taken, handling, main, faults>>

\* current_ctx_ is null again, and the call is given up.
Close(i) ==
  /\ reader[i] = "close"
  /\ ctx' = [ctx EXCEPT ![i] = "null"] /\ link' = [link EXCEPT ![i] = "none"]
  /\ Goto(i, "sleep")
  /\ UNCHANGED <<served, streamed, running, session, taken, handling, main, faults>>

\* Two seconds, or none if running_ is false by then.
Sleep(i) ==
  /\ reader[i] = "sleep"
  /\ Goto(i, "loop")
  /\ UNCHANGED <<served, streamed, running, session, link, ctx, taken, handling,
                 main, faults>>

\* What the status indicator shows.
connected == \E i \in Interfaces : reader[i] \in {"check", "read"}

-----------------------------------------------------------------------------
(* The asio thread of the client.                                          *)

\* Mutant: several threads run the io_context.
Hand_Any ==
  /\ asio = "idle" /\ main = "running"
  /\ \E k \in 1..Len(posts) :
       /\ posts' = RemoveAt(posts, k)
       /\ handed' = [handed EXCEPT ![posts[k].interface] = Append(@, posts[k])]
  /\ UNCHANGED <<served, streamed, reading, asio, sends, main, faults>>

\* A posted frame is handed to the callback of its socket.
Hand ==
  /\ asio = "idle" /\ main = "running" /\ posts # <<>>
  /\ posts' = Tail(posts)
  /\ handed' = [handed EXCEPT ![Head(posts).interface] = Append(@, Head(posts))]
  /\ UNCHANGED <<served, streamed, reading, asio, sends, main, faults>>

\* An action fires: the thread is in a Send, which has no deadline ...
Fire ==
  /\ asio = "idle" /\ main = "running" /\ sends < MaxSends
  /\ asio' = "asked" /\ sends' = sends + 1
  /\ UNCHANGED <<served, streamed, reading, posts, handed, main, faults>>

\* ... the server writes to the socket if it has one, which hears itself; when
\* the write throws, or there is no socket yet, it answers all the same ...
Handle(i) ==
  /\ asio = "asked" /\ server = "up"
  /\ asio' = "answered"
  /\ Receive(i) \/ UNCHANGED <<bus, rx>>
  /\ UNCHANGED <<server, sockets, armed, deaf, drain, streamed, reading, posts,
                 handed, sends, main, faults>>

\* ... and the answer, or the failure of the call, ends it.
Answered ==
  /\ asio = "answered" \/ (asio = "asked" /\ server = "down")
  /\ asio' = "idle"
  /\ UNCHANGED <<served, streamed, reading, posts, handed, sends, main, faults>>

-----------------------------------------------------------------------------
(* The connections.                                                        *)

Break(i) ==
  /\ link[i] \in {"live", "silent"} /\ Fault
  /\ link' = [link EXCEPT ![i] = "broken"]
  /\ UNCHANGED <<served, streamed, running, reader, session, ctx, taken, handling, main>>

Silence(i) ==
  /\ link[i] = "live" /\ Fault
  /\ link' = [link EXCEPT ![i] = "silent"]
  /\ UNCHANGED <<served, streamed, running, reader, session, ctx, taken, handling, main>>

\* The connection of a Send goes silent.
LoseSend ==
  /\ asio \in {"asked", "answered"} /\ Fault
  /\ asio' = "lost"
  /\ UNCHANGED <<served, streamed, reading, posts, handed, sends, main>>

-----------------------------------------------------------------------------
(* The end of the client.                                                  *)

\* The user quits: io.stop(), and the asio thread is joined.
Quit ==
  /\ main = "running" /\ main' = "stopping"
  /\ UNCHANGED <<served, streamed, reading, handling, faults>>

JoinAsio ==
  /\ main = "stopping" /\ asio = "idle" /\ main' = "halt"
  /\ UNCHANGED <<served, streamed, reading, handling, faults>>

\* The sockets are destroyed one by one: stop() sets running_ ...
Halt(i) ==
  /\ main = "halt" /\ running[i]
  /\ running' = [running EXCEPT ![i] = FALSE]
  /\ main' = "cancel"
  /\ UNCHANGED <<served, streamed, reader, session, link, ctx, taken, handling, faults>>

\* Mutant: only running_ is set.
TryCancel_Not ==
  /\ main = "cancel" /\ main' = "join"
  /\ UNCHANGED <<served, streamed, reading, handling, faults>>

\* ... cancels the call, if there is one ...
TryCancel ==
  /\ main = "cancel" /\ main' = "join"
  /\ ctx' = [i \in Interfaces |-> IF ~running[i] /\ ctx[i] = "set" THEN "cancelled"
                                                                 ELSE ctx[i]]
  /\ UNCHANGED <<served, streamed, running, reader, session, link, taken, handling, faults>>

\* ... and joins the thread.
Join ==
  /\ main = "join" /\ \A i \in Interfaces : running[i] \/ reader[i] = "out"
  /\ main' = IF \E i \in Interfaces : running[i] THEN "halt" ELSE "over"
  /\ UNCHANGED <<served, streamed, reading, handling, faults>>

\* The client is gone, or waits for a Send for ever.
Over == (main = "over" \/ (main = "stopping" /\ asio = "lost")) /\ UNCHANGED vars

-----------------------------------------------------------------------------
Init ==
  /\ server \in {"up", "down"}
  /\ sockets = {} /\ armed = {} /\ deaf = {} /\ drain = {} /\ bus = 0
  /\ rx = [i \in Interfaces |-> <<>>]
  /\ Feed!Init
  /\ running = [i \in Interfaces |-> TRUE]
  /\ reader = [i \in Interfaces |-> "loop"]
  /\ session = [i \in Interfaces |-> 0]
  /\ link = [i \in Interfaces |-> "none"]
  /\ ctx = [i \in Interfaces |-> "null"]
  /\ taken = [c \in Calls |-> 0]
  /\ posts = <<>> /\ handed = [i \in Interfaces |-> <<>>]
  /\ asio = "idle" /\ sends = 0 /\ main = "running" /\ faults = 0

Reader(i) ==
  \/ Loop(i) \/ Context(i) \/ Subscribe(i) \/ Check(i) \/ ReadTrue(i)
  \/ ReadFalse(i) \/ Close(i) \/ Sleep(i)
Asio == Hand \/ (\E i \in Interfaces : Handle(i)) \/ Answered
Drain == \E i \in Interfaces : Ready(i) \/ ReadFrame(i) \/ Rearm(i)
Service(i) == Register(i) \/ Deliver(i)
Ending == JoinAsio \/ (\E i \in Interfaces : Halt(i)) \/ TryCancel \/ Join

Next ==
  \/ StartServer \/ \E l \in {"broken", "silent"} : StopServer(l)
  \/ \E i \in Interfaces :
       \/ OpenSocket(i) \/ OnBus(i) \/ WaitFails(i) \/ Service(i) \/ Reader(i)
       \/ Break(i) \/ Silence(i)
  \/ \E c \in Calls : Leave(c)
  \/ Drain \/ Asio \/ Fire \/ LoseSend \/ Quit \/ Ending \/ Over

\* Every thread that can run runs.  A frame need not come, an action need not
\* fire, the user need not quit, and a server that is down may stay so.
Fairness ==
  /\ WF_vars(Drain) /\ WF_vars(Asio) /\ WF_vars(Ending)
  /\ \A i \in Interfaces :
       WF_vars(OpenSocket(i)) /\ WF_vars(Service(i)) /\ WF_vars(Reader(i))

Spec == Init /\ [][Next]_vars
FairSpec == Spec /\ Fairness

-----------------------------------------------------------------------------
\* Every variable has its type; one socket is drained at a time, and one that
\* is not waits to be readable, unless a wait of it has failed.
TypeOK ==
  /\ server \in {"up", "down"} /\ bus \in 0..MaxFrames
  /\ sockets \subseteq Interfaces /\ drain \in {{}} \cup {{i} : i \in Interfaces}
  /\ deaf \subseteq sockets \ drain /\ armed = sockets \ (drain \cup deaf)
  /\ rx \in [Interfaces -> Seq(Frames)] /\ \A i \in Interfaces : Len(rx[i]) <= MaxRx
  /\ open \subseteq Calls /\ filter \in [Calls -> Interfaces \cup {Everything}]
  /\ feed \in [Calls -> Seq(Frames)] /\ got \in [Calls -> Seq(Frames)]
  /\ running \in [Interfaces -> BOOLEAN]
  /\ reader \in [Interfaces -> {"loop", "context", "call", "check", "read",
                                "close", "sleep", "out"}]
  /\ session \in [Interfaces -> 0..MaxFaults + 1]
  /\ link \in [Interfaces -> {"none", "live", "broken", "silent"}]
  /\ ctx \in [Interfaces -> {"null", "set", "cancelled"}]
  /\ taken \in [Calls -> 0..MaxFrames]
  /\ posts \in Seq(Frames) /\ handed \in [Interfaces -> Seq(Frames)]
  /\ asio \in {"idle", "asked", "answered", "lost"} /\ sends \in 0..MaxSends
  /\ main \in {"running", "stopping", "halt", "cancel", "join", "over"}
  /\ faults \in 0..MaxFaults

\* The frames a client socket has read, handed over or still posted.
Taken(i) == handed[i] \o Filter(posts, {f \in Frames : f.interface = i})

\* A client receives the frames of an interface "as if they were local"
\* (README.md:115): in the order of the bus, none twice, whatever the server
\* does; and none is left out of a call but at its end.
AsIfLocal ==
  \A i \in Interfaces :
    /\ \A k, l \in 1..Len(Taken(i)) : k < l => Taken(i)[k].id < Taken(i)[l].id
    /\ Taken(i) = FlattenSeq([n \in 1..session[i] |->
                    SubSeq(feed[<<i, n>>], 1, taken[<<i, n>>])])

\* "The client automatically reconnects if the server restarts" (README.md:132):
\* while a server is up and no connection is silent, it gets to be subscribed
\* for good, however often the server was restarted before.
Reconnects ==
  \A i \in Interfaces :
    <>[](server = "up" /\ main = "running" /\ link[i] # "silent")
      => <>[](link[i] = "live" /\ Call(i) \in open)

\* A frame that has come to the server, be it the echo of the client's own, for a
\* client that is subscribed all the while and has not got it.
Waits(i, f) ==
  /\ server = "up" /\ main = "running" /\ link[i] = "live" /\ Call(i) \in open
  /\ f \in ToSet(feed[Call(i)]) \/ (f \in ToSet(rx[i]) /\ i \notin deaf)
  /\ f \notin ToSet(handed[i])

\* No frame waits for ever: it gets to the callback of the client, whatever
\* errors recvmsg() meets, unless the connection, the server or the client ends,
\* or it is still in the buffer of a socket whose wait has failed; a Send must
\* not hang for ever.
Arrives ==
  []<>(asio = "idle") =>
    \A i \in Interfaces : \A f \in Frames : []<>~Waits(i, f)

\* A client that is told to quit does: stop() gets its reader out of a Read()
\* that nothing will answer, wherever the two meet, if no Send hangs for ever.
\* (main never turns back.)
StopEnds == []<>(asio = "idle") => []<>(main \in {"running", "over"})
=============================================================================
