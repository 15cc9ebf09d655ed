-------------------------- MODULE LogControlProofs --------------------------
(***************************************************************************)
(* Proofs about LogControl, for any clients and frames and any bounds.     *)
(*                                                                         *)
(* That an update ratio never spans two logs is not inductive: whether an  *)
(* entry carries one depends on last_ts, so last_ts must hold exactly the  *)
(* keys of the open log (Stamps).  That is in turn true only because       *)
(* nothing is received once the server is down (DownIsDown).               *)
(***************************************************************************)
EXTENDS LogControl, TLAPS

KeysOf(p) == {disk[p][n].key : n \in DOMAIN disk[p]}

FilesOK ==
  /\ logger \in Paths \cup {NoPath} /\ current_path \in Paths \cup {NoPath}
  /\ logger # NoPath => logger \in DOMAIN disk
  /\ last_ts \subseteq Keys
  /\ disk = [p \in DOMAIN disk |-> disk[p]]
  /\ DOMAIN disk \subseteq Paths /\ \A p \in DOMAIN disk : disk[p] \in Seq(Entries)
  /\ second \in Paths
  /\ asio \in BOOLEAN /\ up \in BOOLEAN

DownIsDown == ~up => ~asio /\ logger = NoPath
Stamps == up => last_ts = IF logger = NoPath THEN {} ELSE KeysOf(logger)

RatioInv == FilesOK /\ DownIsDown /\ Stamps /\ RatioWithinLog

-----------------------------------------------------------------------------
(* The steps that leave the files, the time and the threads alone.         *)

quiet == <<logger, last_ts, disk, asio, up>>

\* What RatioInv says of the log depends on these variables only.
LEMMA QuietRatio ==
  ASSUME RatioInv, UNCHANGED quiet, current_path' \in Paths \cup {NoPath}, second' \in Paths
  PROVE  RatioInv'
BY DEF RatioInv, FilesOK, DownIsDown, Stamps, KeysOf, RatioWithinLog, quiet

\* A new, empty file has no entries, and the others are as they were.
LEMMA StartRatio ==
  ASSUME RatioInv, Start, up, UNCHANGED <<second, asio, up>>
  PROVE  RatioInv'
<1>1. CASE UNCHANGED controller
  BY <1>1, QuietRatio DEF controller, quiet, RatioInv, FilesOK
<1>2. CASE /\ logger = NoPath
           /\ logger' = second /\ current_path' = second
           /\ disk' = [p \in DOMAIN disk \cup {second} |->
                         IF p = second THEN <<>> ELSE disk[p]]
           /\ UNCHANGED last_ts
  <2>1. second # NoPath /\ second \in Paths
    BY NoPathAssumption, BoundsAssumption DEF RatioInv, FilesOK, Paths
  <2>2. DOMAIN disk' = DOMAIN disk \cup {second}
    BY <1>2
  <2>3. disk'[second] = <<>> /\ \A p \in DOMAIN disk : p # second => disk'[p] = disk[p]
    BY <1>2
  <2>4. <<>> \in Seq(Entries) /\ DOMAIN <<>> = {}
    OBVIOUS
  <2>5. FilesOK'
    BY <1>2, <2>1, <2>2, <2>3, <2>4 DEF RatioInv, FilesOK
  <2>6. Stamps'
    BY <1>2, <2>1, <2>3, <2>4 DEF RatioInv, Stamps, KeysOf
  <2>7. RatioWithinLog'
    BY <2>2, <2>3, <2>4 DEF RatioInv, RatioWithinLog
  <2>8. QED
    BY <2>5, <2>6, <2>7 DEF RatioInv, DownIsDown
<1>3. QED
  BY <1>1, <1>2 DEF Start

\* Stopping empties last_ts along with logger_.
LEMMA StopRatio ==
  ASSUME RatioInv, Stop, second' = second, up' = up, asio' \in {asio, FALSE}
  PROVE  RatioInv'
<1>1. FilesOK'
  BY DEF RatioInv, FilesOK, Stop
<1>2. DownIsDown'
  BY DEF RatioInv, FilesOK, DownIsDown, Stop
<1>3. Stamps'
  BY DEF Stamps, Stop
<1>4. RatioWithinLog'
  BY DEF RatioInv, RatioWithinLog, Stop
<1>5. QED
  BY <1>1, <1>2, <1>3, <1>4 DEF RatioInv

\* A frame that is logged carries a ratio if its key is in last_ts, which are
\* the keys of the log, and its key is then in last_ts.
LEMMA LogRatio ==
  ASSUME RatioInv, NEW k \in Keys, LogCanFrame(k), asio, UNCHANGED <<second, asio, up>>
  PROVE  RatioInv'
<1>1. CASE logger = NoPath
  BY <1>1, QuietRatio DEF LogCanFrame, quiet, RatioInv, FilesOK
<1>2. CASE logger # NoPath
  <2> DEFINE log == disk[logger]
             e == [key |-> k, ratio |-> k \in last_ts]
  <2>0. e \in Entries
    BY DEF Entries
  <2>1. /\ up /\ logger \in DOMAIN disk /\ log \in Seq(Entries) /\ e \in Entries
        /\ last_ts = KeysOf(logger)
    BY <1>2, <2>0 DEF RatioInv, FilesOK, DownIsDown, Stamps
  <2>2. /\ disk' = [disk EXCEPT ![logger] = Append(log, e)]
        /\ last_ts' = last_ts \cup {k} /\ logger' = logger /\ current_path' = current_path
    BY <1>2 DEF LogCanFrame
  <2>3. /\ DOMAIN disk' = DOMAIN disk /\ disk'[logger] = Append(log, e)
        /\ \A p \in DOMAIN disk : p # logger => disk'[p] = disk[p]
    BY <2>1, <2>2 DEF RatioInv, FilesOK
  <2>4. /\ Append(log, e) \in Seq(Entries) /\ Len(log) \in Nat
        /\ DOMAIN log = 1..Len(log)
        /\ DOMAIN Append(log, e) = 1..(Len(log) + 1)
        /\ Append(log, e)[Len(log) + 1] = e
        /\ \A n \in 1..Len(log) : Append(log, e)[n] = log[n]
    BY <2>1
  <2>5. FilesOK'
    BY <2>1, <2>2, <2>3, <2>4 DEF RatioInv, FilesOK
  <2>6. KeysOf(logger)' = KeysOf(logger) \cup {k}
    <3>1. KeysOf(logger)' = {Append(log, e)[n].key : n \in 1..(Len(log) + 1)}
      BY <2>2, <2>3, <2>4 DEF KeysOf
    <3>2. KeysOf(logger) = {log[n].key : n \in 1..Len(log)}
      BY <2>4 DEF KeysOf
    <3>3. 1..(Len(log) + 1) = 1..Len(log) \cup {Len(log) + 1}
      BY <2>4
    <3>4. QED
      BY <2>4, <3>1, <3>2, <3>3
  <2>7. Stamps'
    BY <1>2, <2>1, <2>2, <2>6 DEF Stamps
  <2>8. RatioWithinLog'
    <3>1. ASSUME NEW p \in DOMAIN disk, NEW n \in DOMAIN disk'[p]
          PROVE  disk'[p][n].ratio <=>
                   \E m \in 1..(n - 1) : disk'[p][m].key = disk'[p][n].key
      <4>1. CASE p # logger
        BY <2>3, <3>1, <4>1 DEF RatioInv, RatioWithinLog
      <4>2. CASE p = logger /\ n # Len(log) + 1
        <5>1. n \in 1..Len(log) /\ \A m \in 1..(n - 1) : m \in 1..Len(log)
          BY <2>3, <2>4, <3>1, <4>2
        <5>2. log[n].ratio <=> \E m \in 1..(n - 1) : log[m].key = log[n].key
          BY <2>1, <2>4, <5>1 DEF RatioInv, RatioWithinLog
        <5>3. QED
          BY <2>3, <2>4, <4>2, <5>1, <5>2
      <4>3. CASE p = logger /\ n = Len(log) + 1
        <5>1. e.key = k /\ (e.ratio <=> k \in KeysOf(logger))
          BY <2>1
        <5>2. k \in KeysOf(logger) <=> \E m \in 1..Len(log) : log[m].key = k
          BY <2>4 DEF KeysOf
        <5>3. 1..(n - 1) = 1..Len(log)
          BY <2>4, <4>3
        <5>4. disk'[p][n] = e /\ \A m \in 1..Len(log) : disk'[p][m] = log[m]
          BY <2>3, <2>4, <4>3
        <5>5. QED
          BY <5>1, <5>2, <5>3, <5>4
      <4>4. QED
        BY <4>1, <4>2, <4>3
    <3>2. QED
      BY <2>3, <3>1 DEF RatioWithinLog
  <2>9. QED
    BY <2>1, <2>5, <2>7, <2>8 DEF RatioInv, DownIsDown
<1>3. QED
  BY <1>1, <1>2

-----------------------------------------------------------------------------
\* RatioInv is an invariant: each operation keeps it by its lemma.
LEMMA RatioInvariant == Spec => []RatioInv
<1>1. Init => RatioInv
  <2> SUFFICES ASSUME Init PROVE RatioInv
    OBVIOUS
  <2>1. 0 \in Paths /\ 0 # NoPath
    BY BoundsAssumption, NoPathAssumption DEF Paths
  <2>2. <<>> \in Seq(Entries) /\ DOMAIN <<>> = {}
    OBVIOUS
  <2>3. CASE logger = NoPath /\ disk = <<>>
    BY <2>1, <2>2, <2>3 DEF Init, RatioInv, FilesOK, DownIsDown, Stamps, RatioWithinLog
  <2>4. CASE logger = 0 /\ disk = [p \in {0} |-> <<>>]
    <3>1. DOMAIN disk = {0} /\ disk[0] = <<>>
      BY <2>4
    <3>2. FilesOK
      BY <2>1, <2>2, <2>4, <3>1 DEF Init, FilesOK
    <3>3. QED
      BY <2>1, <2>2, <2>4, <3>1, <3>2
      DEF Init, RatioInv, DownIsDown, Stamps, KeysOf, RatioWithinLog
  <2>5. QED
    BY <2>3, <2>4 DEF Init
<1>2. RatioInv /\ [Next]_vars => RatioInv'
  <2> SUFFICES ASSUME RatioInv, [Next]_vars PROVE RatioInv'
    OBVIOUS
  <2> USE DEF threads
  <2>t. second \in Paths /\ current_path \in Paths \cup {NoPath}
    BY DEF RatioInv, FilesOK
  <2>1. ASSUME NEW k \in Keys, Receive(k) PROVE RatioInv'
    BY <2>1, LogRatio DEF Receive
  <2>2. ASSUME NEW n \in Numbers, RunCall(n) PROVE RatioInv'
    <3>1. CASE Start
      BY <2>2, <3>1, StartRatio DEF RunCall
    <3>2. CASE Stop
      BY <2>2, <3>2, StopRatio DEF RunCall
    <3>3. CASE UNCHANGED controller
      BY <2>2, <2>t, <3>3, QuietRatio DEF RunCall, controller, quiet
    <3>4. CASE StartFails
      BY <2>2, <2>t, <3>4, QuietRatio DEF RunCall, StartFails, quiet
    <3>5. QED
      BY <2>2, <3>1, <3>2, <3>3, <3>4 DEF RunCall, Operate
  <2>3. ASSUME NEW n \in Numbers, FillStatus(n) PROVE RatioInv'
    BY <2>3, <2>t, QuietRatio DEF FillStatus, controller, quiet
  <2>4. ASSUME NEW c \in Clients, Client(c) \/ Answer(c) \/ Fail(c) PROVE RatioInv'
    BY <2>4, <2>t, QuietRatio DEF Client, Answer, Fail, controller, quiet
  <2>5. CASE Tick
    <3>1. second' \in Paths
      BY <2>5, <2>t, BoundsAssumption DEF Tick, Paths
    <3>2. QED
      BY <2>5, <2>t, <3>1, QuietRatio DEF Tick, controller, quiet
  <2>6. CASE Interrupt
    BY <2>6, StopRatio DEF Interrupt
  <2>7. CASE Down
    <3>1. FilesOK' /\ DownIsDown'
      BY <2>7 DEF Down, RatioInv, FilesOK, DownIsDown
    <3>2. Stamps'
      BY <2>7 DEF Down, Stamps
    <3>3. RatioWithinLog'
      BY <2>7 DEF Down, RatioInv, RatioWithinLog
    <3>4. QED
      BY <3>1, <3>2, <3>3 DEF RatioInv
  <2>8. CASE UNCHANGED vars
    BY <2>8, <2>t, QuietRatio DEF vars, quiet
  <2>9. QED
    BY <2>1, <2>2, <2>3, <2>4, <2>5, <2>6, <2>7, <2>8 DEF Next, Handlers
<1>3. QED
  BY <1>1, <1>2, PTL DEF Spec

\* An update ratio never takes the time between two logs for a period
\* (stop() clears last_ts_, src/src/logger/LogController.cpp:19): whatever the
\* clients do, and however their calls overlap, fail and are lost.
THEOREM RatioCorrect == Spec => []RatioWithinLog
<1>1. RatioInv => RatioWithinLog
  BY DEF RatioInv
<1>2. QED
  BY RatioInvariant, <1>1, PTL

-----------------------------------------------------------------------------
\* What a step does to an open log that stays open.
Grows ==
  logger # NoPath /\ logger' # NoPath =>
    logger' = logger /\ IsPrefix(disk[logger], disk'[logger])

\* A sequence is a prefix of itself and of what comes of appending to it.
LEMMA PrefixOfAppend ==
  ASSUME NEW S, NEW s \in Seq(S), NEW e \in S
  PROVE  IsPrefix(s, s) /\ IsPrefix(s, Append(s, e))
<1>1. Len(s) \in Nat /\ Len(Append(s, e)) = Len(s) + 1
  OBVIOUS
<1>2. SubSeq(s, 1, Len(s)) = SubSeq(Append(s, e), 1, Len(s))
  OBVIOUS
<1>3. QED
  BY <1>1, <1>2 DEF IsPrefix

LEMMA GrowsStep ==
  ASSUME FilesOK, [Next]_vars
  PROVE  Grows
<1>1. CASE UNCHANGED <<logger, disk>>
  <2>1. SUFFICES ASSUME logger # NoPath PROVE Grows
    BY DEF Grows
  <2>2. disk[logger] \in Seq(Entries)
    BY <2>1 DEF FilesOK
  <2>3. IsPrefix(disk[logger], disk[logger])
    BY <2>2 DEF IsPrefix
  <2>4. QED
    BY <1>1, <2>3 DEF Grows
<1>2. CASE logger = NoPath \/ logger' = NoPath
  BY <1>2 DEF Grows
<1>3. ASSUME NEW k \in Keys, LogCanFrame(k), logger # NoPath
      PROVE  Grows
  <2> DEFINE e == [key |-> k, ratio |-> k \in last_ts]
  <2>1. disk[logger] \in Seq(Entries) /\ logger \in DOMAIN disk
    BY <1>3 DEF FilesOK
  <2>2. e \in Entries
    BY DEF Entries
  <2>3. disk'[logger] = Append(disk[logger], e) /\ logger' = logger
    BY <1>3, <2>1 DEF LogCanFrame, FilesOK
  <2>4. QED
    BY <2>1, <2>2, <2>3, PrefixOfAppend DEF Grows
<1>4. QED
  BY <1>1, <1>2, <1>3
  DEF Next, vars, controller, threads, clients, Receive, Handlers, RunCall, Operate,
      FillStatus, Start, StartFails, Stop, Client, Answer, Fail, Tick, Interrupt, Down

\* An open log is not replaced, whoever calls start() (LogController.cpp:9),
\* and what is in it stays.
THEOREM GrowsCorrect == Spec => OpenLogGrows
<1>1. RatioInv => FilesOK
  BY DEF RatioInv
<1>2. FilesOK /\ [Next]_vars => [Grows]_<<logger, disk>>
  BY GrowsStep
<1>3. Spec => [](FilesOK)
  BY RatioInvariant, <1>1, PTL
<1>4. QED
  BY <1>2, <1>3, PTL DEF Spec, OpenLogGrows, Grows

-----------------------------------------------------------------------------
(* The calls.                                                              *)

CallType ==
  [op : {"start", "stop", "status"}, active : BOOLEAN, named : BOOLEAN,
   step : {"sent", "ran", "half", "answered", "failed"}]

CallsType == Numbers \subseteq 1..MaxCalls /\ \A n \in Numbers : calls[n] \in CallType

\* The fields of call n that are not assigned stay, and so do the other calls.
CallMoved(n, step, active, named) ==
  /\ Numbers' = Numbers
  /\ \A m \in Numbers \ {n} : calls'[m] = calls[m]
  /\ calls'[n].op = calls[n].op /\ calls'[n].step = step
  /\ calls'[n].active = active /\ calls'[n].named = named
  /\ calls'[n] \in CallType

LEMMA RecordStep ==
  ASSUME NEW r \in CallType, NEW s \in {"ran", "half", "answered", "failed"}
  PROVE  /\ [r EXCEPT !.step = s] \in CallType
         /\ [r EXCEPT !.step = s] = [op |-> r.op, active |-> r.active, named |-> r.named, step |-> s]
BY DEF CallType

LEMMA StepMoves ==
  ASSUME CallsType, NEW n \in Numbers, NEW s \in {"ran", "failed"}, Step(n, s)
  PROVE  CallMoved(n, s, calls[n].active, calls[n].named)
<1>. DEFINE r == calls[n]
            q == [r EXCEPT !.step = s]
<1>1. /\ Numbers' = Numbers /\ calls'[n] = q
      /\ \A m \in Numbers \ {n} : calls'[m] = calls[m]
  BY DEF Step, Numbers
<1>2. q \in CallType /\ q = [op |-> r.op, active |-> r.active, named |-> r.named, step |-> s]
  BY RecordStep DEF CallsType
<1>. HIDE DEF q
<1>. QED  BY <1>1, <1>2 DEF CallMoved

LEMMA HalfMoves ==
  ASSUME CallsType, NEW n \in Numbers, NEW b \in BOOLEAN,
         calls' = [calls EXCEPT ![n].step = "half", ![n].active = b]
  PROVE  CallMoved(n, "half", b, calls[n].named)
<1>. DEFINE r == calls[n]
            h == [r EXCEPT !.step = "half"]
            q == [h EXCEPT !.active = b]
<1>1. /\ Numbers' = Numbers /\ calls'[n] = q
      /\ \A m \in Numbers \ {n} : calls'[m] = calls[m]
  BY DEF Numbers
<1>2. h \in CallType /\ h = [op |-> r.op, active |-> r.active, named |-> r.named, step |-> "half"]
  BY RecordStep DEF CallsType
<1>. HIDE DEF h
<1>3. q \in CallType /\ q = [op |-> h.op, active |-> b, named |-> h.named, step |-> h.step]
  BY <1>2 DEF CallType
<1>. HIDE DEF q
<1>4. h.step = "half" /\ h.op = r.op /\ h.active = r.active /\ h.named = r.named
  BY <1>2
<1>5. q.op = h.op /\ q.step = h.step /\ q.active = b /\ q.named = h.named
  BY <1>3
<1>. QED  BY <1>1, <1>2, <1>3, <1>4, <1>5, Zenon DEF CallMoved

LEMMA AnswerMoves ==
  ASSUME CallsType, NEW n \in Numbers, NEW b \in BOOLEAN,
         calls' = [calls EXCEPT ![n].step = "answered", ![n].named = b]
  PROVE  CallMoved(n, "answered", calls[n].active, b)
<1>. DEFINE r == calls[n]
            h == [r EXCEPT !.step = "answered"]
            q == [h EXCEPT !.named = b]
<1>1. /\ Numbers' = Numbers /\ calls'[n] = q
      /\ \A m \in Numbers \ {n} : calls'[m] = calls[m]
  BY DEF Numbers
<1>2. h \in CallType /\ h = [op |-> r.op, active |-> r.active, named |-> r.named, step |-> "answered"]
  BY RecordStep DEF CallsType
<1>. HIDE DEF h
<1>3. q \in CallType /\ q = [op |-> h.op, active |-> h.active, named |-> b, step |-> h.step]
  BY <1>2 DEF CallType
<1>. HIDE DEF q
<1>4. h.step = "answered" /\ h.op = r.op /\ h.active = r.active /\ h.named = r.named
  BY <1>2
<1>5. q.op = h.op /\ q.step = h.step /\ q.active = h.active /\ q.named = b
  BY <1>3
<1>. QED  BY <1>1, <1>2, <1>3, <1>4, <1>5, Zenon DEF CallMoved

\* What a step does to the calls: nothing, one of them moves, ends or begins.
Ended(n) == calls' = Without(n)
Begun(n) ==
  /\ n \in 1..MaxCalls /\ n \notin Numbers /\ Numbers' = Numbers \cup {n}
  /\ \A m \in Numbers : calls'[m] = calls[m]
  /\ calls'[n].step = "sent" /\ calls'[n] \in CallType

LEMMA CallBegins ==
  ASSUME NEW c \in Clients, NEW op \in {"start", "stop", "status"}, NEW next,
         Call(c, op, next)
  PROVE  \E n \in 1..MaxCalls : Begun(n) /\ disturbed' = disturbed \ {n}
BY DEF Call, Begun, NewCall, CallType, Numbers

LEMMA ClientBegins ==
  ASSUME NEW c \in Clients, Client(c)
  PROVE  \E n \in 1..MaxCalls : Begun(n) /\ disturbed' = disturbed \ {n}
BY CallBegins DEF Client

LEMMA CallsKept ==
  ASSUME CallsType,
         \/ calls' = calls
         \/ \E n \in Numbers : \E s, b, d : CallMoved(n, s, b, d)
         \/ \E n \in Numbers : Ended(n)
         \/ \E n \in 1..MaxCalls : Begun(n)
  PROVE  CallsType'
BY DEF CallsType, CallMoved, Ended, Without, Begun, Numbers

LEMMA RunCallMoves ==
  ASSUME CallsType, NEW n \in Numbers, RunCall(n)
  PROVE  \/ CallMoved(n, "ran", calls[n].active, calls[n].named) /\ Operate(calls[n].op)
         \/ /\ StartFails
            /\ CallMoved(n, "failed", calls[n].active, calls[n].named) \/ Ended(n)
BY StepMoves DEF RunCall, Ended

LEMMA FillStatusMoves ==
  ASSUME CallsType, NEW n \in Numbers, FillStatus(n)
  PROVE  \/ At(n, "ran") /\ CallMoved(n, "half", logger # NoPath, calls[n].named)
         \/ At(n, "half") /\ CallMoved(n, "answered", calls[n].active, current_path # NoPath)
         \/ At(n, "half") /\ Ended(n)
<1>1. (logger # NoPath) \in BOOLEAN /\ (current_path # NoPath) \in BOOLEAN
  OBVIOUS
<1>. QED  BY <1>1, HalfMoves, AnswerMoves DEF FillStatus, Ended

LEMMA CallsStep == CallsType /\ [Next]_vars => CallsType'
<1>. SUFFICES ASSUME CallsType, [Next]_vars
              PROVE  CallsType'
  OBVIOUS
<1>1. ASSUME NEW n \in Numbers, RunCall(n) \/ FillStatus(n)
      PROVE  CallsType'
  BY <1>1, RunCallMoves, FillStatusMoves, CallsKept
<1>2. ASSUME NEW c \in Clients, Client(c)
      PROVE  CallsType'
  BY <1>2, ClientBegins, CallsKept
<1>3. ASSUME NEW c \in Clients, Answer(c) \/ Fail(c)
      PROVE  CallsType'
  BY <1>3, CallsKept DEF Answer, Fail, At, Ended
<1>4. CASE calls' = calls
  BY <1>4, CallsKept
<1>. QED
  BY <1>1, <1>2, <1>3, <1>4
     DEF Next, Handlers, Receive, Tick, Interrupt, Down, clients, vars

-----------------------------------------------------------------------------
GuiType == gui \in [Clients -> [waits : 0..MaxCalls, then : {"connect", "log", "run", "end"}]]

PathKept == logger # NoPath /\ up => current_path = logger

\* The rest of TypeOK, which the files do not tell.
RestType ==
  /\ CallsType
  /\ PathKept
  /\ GuiType
  /\ view \in [Clients -> BOOLEAN]
  /\ disturbed \subseteq 1..MaxCalls

LEMMA PathStep ==
  ASSUME FilesOK, PathKept, [Next]_vars
  PROVE  PathKept'
<1>. USE DEF controller, threads, PathKept
<1>1. ASSUME NEW n \in Numbers, RunCall(n)
      PROVE  PathKept'
  BY <1>1 DEF RunCall, Operate, Start, Stop, StartFails
<1>. QED
  BY <1>1 DEF Next, Handlers, FillStatus, Receive, LogCanFrame, Client, Answer, Fail,
              Tick, Interrupt, Stop, Down, vars

LEMMA GuiStep ==
  ASSUME RestType, [Next]_vars
  PROVE  GuiType'
<1>0. 0 \in 0..MaxCalls /\ 1..MaxCalls \subseteq 0..MaxCalls
  BY BoundsAssumption
<1>1. ASSUME NEW c \in Clients, Client(c)
      PROVE  \E n \in 1..MaxCalls, next \in {"log", "run", "end"} :
               gui' = [gui EXCEPT ![c] = [waits |-> n, then |-> next]]
  BY <1>1 DEF Client, Call
<1>2. ASSUME NEW c \in Clients, Returns(c)
      PROVE  GuiType'
  BY <1>0, <1>2 DEF Returns, RestType, GuiType
<1>3. ASSUME NEW c \in Clients, Client(c)
      PROVE  GuiType'
  BY <1>0, <1>1, <1>3 DEF RestType, GuiType
<1>4. CASE gui' = gui
  BY <1>4 DEF RestType, GuiType
<1>. QED
  BY <1>2, <1>3, <1>4
     DEF Next, Handlers, RunCall, FillStatus, Receive, Answer, Fail, Tick,
         Interrupt, Down, clients, vars

LEMMA ViewStep ==
  ASSUME RestType, [Next]_vars
  PROVE  view' \in [Clients -> BOOLEAN]
<1>1. ASSUME NEW c \in Clients, Answer(c)
      PROVE  view' \in [Clients -> BOOLEAN]
  <2>. DEFINE n == gui[c].waits
  <2>1. n \in Numbers /\ calls[n].active \in BOOLEAN
    BY <1>1 DEF Answer, At, RestType, CallsType, CallType
  <2>2. view' = [view EXCEPT ![c] = calls[n].active]
    BY <1>1 DEF Answer
  <2>. QED  BY <2>1, <2>2 DEF RestType
<1>2. ASSUME NEW c \in Clients, Fail(c)
      PROVE  view' \in [Clients -> BOOLEAN]
  BY <1>2 DEF Fail, RestType
<1>. QED
  BY <1>1, <1>2
     DEF RestType, Next, Handlers, RunCall, FillStatus, Receive, Client, Tick,
         Interrupt, Down, clients, vars

LEMMA RestStep == FilesOK /\ RestType /\ [Next]_vars => RestType'
<1>. SUFFICES ASSUME FilesOK, RestType, [Next]_vars
              PROVE  RestType'
  OBVIOUS
<1>1. CallsType' /\ PathKept'
  BY CallsStep, PathStep DEF RestType
<1>2. disturbed' \subseteq 1..MaxCalls
  <2>1. ASSUME NEW c \in Clients, Client(c)
        PROVE  disturbed' \subseteq 1..MaxCalls
    BY <2>1, ClientBegins DEF RestType
  <2>2. ASSUME NEW m, Disturbs(m)
        PROVE  disturbed' \subseteq 1..MaxCalls
    BY <2>2 DEF Disturbs, RestType, CallsType
  <2>. QED
    BY <2>1, <2>2
       DEF RestType, Next, Handlers, RunCall, FillStatus, Receive, Answer, Fail, Tick,
           Interrupt, Down, vars
<1>. QED  BY <1>1, <1>2, GuiStep, ViewStep DEF RestType

LEMMA RestInvariant == Spec => []RestType
<1>1. Init => RestType
  BY BoundsAssumption DEF Init, RestType, PathKept, GuiType, CallsType, Numbers
<1>2. RatioInv => FilesOK
  BY DEF RatioInv
<1>. QED  BY <1>1, <1>2, RatioInvariant, RestStep, PTL DEF Spec

\* Every variable of LogControl has its type; an open log of a server that is
\* up is the file that current_path_ names (src/src/logger/LogController.cpp:11),
\* though a start() that throws may set the one without the other.
THEOREM LogTypeCorrect == Spec => []TypeOK
<1>1. RatioInv /\ RestType => TypeOK
  BY DEF RatioInv, FilesOK, RestType, PathKept, GuiType, CallsType, CallType, TypeOK
<1>. QED  BY <1>1, RatioInvariant, RestInvariant, PTL

-----------------------------------------------------------------------------
(* What a call is answered.  A call that has run and was not disturbed has *)
(* left the log as it is now, and has read it so if it is half answered.   *)

Outcome(n) ==
  /\ calls[n].op = "start" => logger # NoPath
  /\ calls[n].op = "stop" => logger = NoPath

Pending(n) == calls[n].step \in {"ran", "half"}

PendingOK(n) ==
  /\ Outcome(n)
  /\ calls[n].step = "half" => (calls[n].active <=> logger # NoPath)

OutcomeInv ==
  /\ \A n \in Numbers : Pending(n) => up
  /\ \A n \in Numbers \ disturbed : Pending(n) => PendingOK(n)

\* A call that has not moved, in a log that has not changed.
LEMMA PendingKept ==
  ASSUME OutcomeInv, NEW n \in Numbers, calls'[n] = calls[n], n \notin disturbed,
         logger' = logger, Pending(n)
  PROVE  PendingOK(n)'
BY DEF OutcomeInv, PendingOK, Outcome

\* A step that leaves the log and the threads alone, and moves no call.
LEMMA OutcomeQuiet ==
  ASSUME CallsType, OutcomeInv, logger' = logger, up' = up,
         Numbers' \subseteq Numbers, disturbed' = disturbed,
         \A n \in Numbers' : calls'[n] = calls[n]
  PROVE  OutcomeInv'
<1>1. ASSUME NEW n \in Numbers', Pending(n)'
      PROVE  up' /\ (n \notin disturbed' => PendingOK(n)')
  <2>1. n \in Numbers /\ calls'[n] = calls[n] /\ Pending(n)
    BY <1>1 DEF Pending
  <2>. QED  BY <2>1, PendingKept DEF OutcomeInv
<1>. QED  BY <1>1 DEF OutcomeInv

LEMMA OutcomeBegins ==
  ASSUME CallsType, OutcomeInv, logger' = logger, up' = up,
         NEW n, Begun(n), disturbed' = disturbed \ {n}
  PROVE  OutcomeInv'
<1>1. ASSUME NEW m \in Numbers', Pending(m)'
      PROVE  up' /\ (m \notin disturbed' => PendingOK(m)')
  <2>1. m # n
    BY <1>1 DEF Pending, Begun
  <2>2. m \in Numbers /\ calls'[m] = calls[m] /\ Pending(m)
    BY <1>1, <2>1 DEF Pending, Begun
  <2>. QED  BY <2>1, <2>2, PendingKept DEF OutcomeInv
<1>. QED  BY <1>1 DEF OutcomeInv

\* Another call has changed the log: every call that is pending is disturbed.
LEMMA OutcomeRuns ==
  ASSUME FilesOK, CallsType, OutcomeInv, NEW n \in Numbers, RunCall(n)
  PROVE  OutcomeInv'
<1>1. /\ up /\ up' = up
      /\ Numbers' \subseteq Numbers
      /\ \A m \in Numbers' \ {n} : calls'[m] = calls[m]
  BY RunCallMoves DEF RunCall, threads, CallMoved, Ended, Without, Numbers
<1>2. ASSUME NEW m \in Numbers' \ {n}, Pending(m)', m \notin disturbed'
      PROVE  PendingOK(m)'
  <2>1. m \in Numbers /\ calls'[m] = calls[m] /\ Pending(m)
    BY <1>1, <1>2 DEF Pending
  <2>2. logger' = logger /\ disturbed' = disturbed
    BY <1>2, <2>1 DEF RunCall, Disturbs, Pending, Open
  <2>. QED  BY <1>2, <2>1, <2>2, PendingKept
<1>3. ASSUME n \in Numbers', Pending(n)'
      PROVE  PendingOK(n)'
  <2>1. CallMoved(n, "ran", calls[n].active, calls[n].named) /\ Operate(calls[n].op)
    BY <1>3, RunCallMoves DEF CallMoved, Pending, Ended, Without, Numbers
  <2>2. calls'[n].op = calls[n].op /\ calls'[n].step = "ran"
    BY <2>1 DEF CallMoved
  <2>3. calls[n].op = "start" => logger' # NoPath
    BY <2>1, NoPathAssumption, BoundsAssumption DEF Operate, Start, controller, FilesOK, Paths
  <2>4. calls[n].op = "stop" => logger' = NoPath
    BY <2>1 DEF Operate, Stop
  <2>. QED  BY <2>2, <2>3, <2>4 DEF PendingOK, Outcome
<1>. QED  BY <1>1, <1>2, <1>3 DEF OutcomeInv

LEMMA OutcomeFills ==
  ASSUME CallsType, OutcomeInv, NEW n \in Numbers, FillStatus(n)
  PROVE  OutcomeInv'
<1>1. logger' = logger /\ up' = up /\ disturbed' = disturbed
  BY DEF FillStatus, controller, threads
<1>2. CASE At(n, "half") /\ Ended(n)
  BY <1>1, <1>2, OutcomeQuiet DEF Ended, Without, Numbers
<1>3. CASE \/ At(n, "ran") /\ CallMoved(n, "half", logger # NoPath, calls[n].named)
           \/ At(n, "half") /\ CallMoved(n, "answered", calls[n].active, current_path # NoPath)
  <2>1. Pending(n) /\ Numbers' = Numbers
    BY <1>3 DEF At, Pending, CallMoved
  <2>2. ASSUME NEW m \in Numbers, m # n, Pending(m)'
        PROVE  up' /\ (m \notin disturbed' => PendingOK(m)')
    <3>1. calls'[m] = calls[m] /\ Pending(m)
      BY <1>3, <2>2 DEF CallMoved, Pending
    <3>. QED  BY <1>1, <2>2, <3>1, PendingKept DEF OutcomeInv
  <2>3. ASSUME Pending(n)', n \notin disturbed'
        PROVE  PendingOK(n)'
    <3>1. CallMoved(n, "half", logger # NoPath, calls[n].named)
      BY <1>3, <2>3 DEF CallMoved, Pending
    <3>2. Outcome(n)
      BY <1>1, <2>1, <2>3 DEF OutcomeInv, PendingOK
    <3>. QED  BY <1>1, <3>1, <3>2 DEF CallMoved, PendingOK, Outcome
  <2>4. up'
    BY <1>1, <2>1 DEF OutcomeInv
  <2>. QED  BY <2>1, <2>2, <2>3, <2>4 DEF OutcomeInv
<1>. QED  BY <1>2, <1>3, FillStatusMoves

LEMMA OutcomeStep == FilesOK /\ RestType /\ OutcomeInv /\ [Next]_vars => OutcomeInv'
<1>. SUFFICES ASSUME FilesOK, RestType, OutcomeInv, [Next]_vars
              PROVE  OutcomeInv'
  OBVIOUS
<1>a. CallsType
  BY DEF RestType
<1>1. ASSUME NEW n \in Numbers, RunCall(n) \/ FillStatus(n)
      PROVE  OutcomeInv'
  BY <1>1, <1>a, OutcomeRuns, OutcomeFills
<1>2. ASSUME NEW c \in Clients, Client(c)
      PROVE  OutcomeInv'
  BY <1>2, <1>a, ClientBegins, OutcomeBegins DEF Client, controller, threads
<1>3. ASSUME NEW c \in Clients, Answer(c) \/ Fail(c)
      PROVE  OutcomeInv'
  <2>1. logger' = logger /\ up' = up /\ disturbed' = disturbed
    BY <1>3 DEF Answer, Fail, controller, threads
  <2>2. calls' = calls \/ \E n \in Numbers : Ended(n)
    BY <1>3 DEF Answer, Fail, At, Ended
  <2>. QED  BY <1>a, <2>1, <2>2, OutcomeQuiet DEF Ended, Without, Numbers
<1>4. CASE (\E k \in Keys : Receive(k)) \/ Tick \/ UNCHANGED vars
  <2>1. UNCHANGED <<logger, up, calls, disturbed>>
    BY <1>4 DEF Receive, LogCanFrame, Tick, controller, threads, clients, vars
  <2>. QED  BY <1>a, <2>1, OutcomeQuiet DEF Numbers
<1>5. CASE Interrupt
  <2>1. up' = up /\ calls' = calls /\ disturbed' = disturbed \cup {n \in Numbers : Open(n) /\ n # 0}
    BY <1>5 DEF Interrupt, Disturbs, clients
  <2>2. 0 \notin Numbers
    BY <1>a, BoundsAssumption DEF CallsType
  <2>3. \A n \in Numbers : Pending(n) => n \in disturbed'
    BY <2>1, <2>2 DEF Pending, Open
  <2>. QED  BY <2>1, <2>3 DEF OutcomeInv, Pending, Numbers
<1>6. CASE Down
  <2>1. calls' = calls /\ \A n \in Numbers : ~Pending(n)
    BY <1>6 DEF Down, clients, Pending
  <2>. QED  BY <2>1 DEF OutcomeInv, Pending, Numbers
<1>. QED  BY <1>1, <1>2, <1>3, <1>4, <1>5, <1>6 DEF Next, Handlers

\* Only the second half of fill_log_status() answers a call.
LEMMA Answering ==
  ASSUME CallsType, [Next]_vars, NEW n \in Numbers, At(n, "half"), At(n, "answered")'
  PROVE  /\ calls'[n].named <=> current_path # NoPath
         /\ up' = up
<1>1. n \in Numbers' /\ calls'[n].step = "answered" /\ calls[n].step = "half"
  BY DEF At
<1>2. calls'[n] # calls[n]
  BY <1>1
<1>3. ASSUME NEW m \in Numbers, RunCall(m)
      PROVE  FALSE
  <2>1. m # n
    BY <1>1, <1>3 DEF RunCall, At
  <2>. QED  BY <1>1, <1>2, <1>3, <2>1, RunCallMoves DEF CallMoved, Ended, Without, Numbers
<1>4. ASSUME NEW m \in Numbers, FillStatus(m)
      PROVE  (calls'[n].named <=> current_path # NoPath) /\ up' = up
  <2>1. m = n
    BY <1>1, <1>2, <1>4, FillStatusMoves DEF CallMoved, Ended, Without, Numbers
  <2>2. CallMoved(n, "answered", calls[n].active, current_path # NoPath)
    BY <1>1, <1>4, <2>1, FillStatusMoves DEF At, Ended, Without, Numbers
  <2>. QED  BY <1>4, <2>2 DEF CallMoved, FillStatus, threads
<1>5. ASSUME NEW c \in Clients, Client(c) \/ Answer(c) \/ Fail(c)
      PROVE  calls'[n] = calls[n]
  <2>1. CASE Client(c)
    BY <2>1, ClientBegins DEF Begun
  <2>2. CASE Answer(c) \/ Fail(c)
    BY <1>1, <2>2 DEF Answer, Fail, Without, Numbers
  <2>. QED  BY <1>5, <2>1, <2>2
<1>. QED
  BY <1>2, <1>3, <1>4, <1>5
     DEF Next, Handlers, Receive, Tick, Interrupt, Down, clients, vars

\* The status of an answer (fill_log_status, src/src/grpc/CanStreamService.cpp)
\* is what the call made of the log, unless another call, or the end of the
\* process, changed the log before it was filled in.
THEOREM AnswerCorrect == Spec => AnswerTrue
<1>1. Init => OutcomeInv
  BY DEF Init, OutcomeInv, Numbers
<1>2. RatioInv => FilesOK
  BY DEF RatioInv
<1>3. ASSUME FilesOK, RestType, OutcomeInv, [Next]_vars,
             NEW n \in Numbers \ disturbed, At(n, "half"), At(n, "answered")'
      PROVE  /\ calls[n].active = (logger # NoPath)
             /\ calls[n].op = "start" => calls[n].active /\ calls'[n].named
             /\ calls[n].op = "stop" => ~calls[n].active
  <2>1. CallsType /\ Pending(n) /\ calls[n].step = "half" /\ n \in Numbers
    BY <1>3 DEF RestType, At, Pending
  <2>2. up /\ PendingOK(n) /\ calls[n].active \in BOOLEAN
    BY <1>3, <2>1 DEF OutcomeInv, CallsType, CallType
  <2>3. calls'[n].named <=> current_path # NoPath
    BY <1>3, <2>1, Answering
  <2>4. logger # NoPath => current_path # NoPath
    BY <1>3, <2>2 DEF RestType, PathKept
  <2>5. calls[n].active <=> logger # NoPath
    BY <2>1, <2>2 DEF PendingOK
  <2>. QED  BY <2>1, <2>2, <2>3, <2>4, <2>5 DEF PendingOK, Outcome
<1>4. FilesOK /\ RestType /\ OutcomeInv /\ [Next]_vars =>
        [\A n \in Numbers \ disturbed :
           At(n, "half") /\ (At(n, "answered"))' =>
           /\ calls[n].active = (logger # NoPath)
           /\ calls[n].op = "start" => calls[n].active /\ calls'[n].named
           /\ calls[n].op = "stop" => ~calls[n].active]_calls
  BY <1>3
<1>. QED
  BY <1>1, <1>2, <1>4, RatioInvariant, RestInvariant, OutcomeStep, PTL
     DEF Spec, AnswerTrue
=============================================================================
