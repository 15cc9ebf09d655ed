----------------------------- MODULE LogControl -----------------------------
(***************************************************************************)
(* Starting and stopping the recording of a server (run_live): the         *)
(* LogController (src/src/logger/LogController.cpp) with the file names of *)
(* AppConfig::make_log_path(), the StartLog, StopLog and GetLogStatus      *)
(* handlers (src/src/grpc/CanStreamService.cpp) on the threads of gRPC,    *)
(* the RemoteLogControl of each GUI client                                 *)
(* (src/src/grpc/RemoteLogControl.cpp) and the frames of the asio thread.  *)
(*                                                                         *)
(* Every call of the controller holds its mutex from end to end, so it is  *)
(* one step; a handler makes up to three of them.  A call is lost when its *)
(* connection is: the client goes on at once and the handler, if the       *)
(* request got through, runs to its end all the same.                      *)
(***************************************************************************)
EXTENDS Naturals, Sequences, SequencesExt

CONSTANTS
  Clients,    \* the GUI clients
  Keys,       \* (interface, id) of the frames
  NoPath,     \* the empty path
  MaxSeconds, \* bound: the wall clock stops there
  MaxEntries, \* bound: entries of a log file
  MaxCalls    \* bound: calls at a time, those that a client has given up included

ASSUME BoundsAssumption ==
  MaxSeconds \in Nat /\ MaxEntries \in Nat /\ MaxCalls \in Nat
ASSUME NoPathAssumption == NoPath \notin Nat

\* The name of a log file is the second it is opened in.
Paths == 0..MaxSeconds

VARIABLES
  logger,       \* logger_: the path of the open log, NoPath if there is none
  current_path, \* current_path_
  last_ts,      \* the keys of last_ts_
  disk,         \* the entries of each file that was ever opened
  second,       \* the wall clock
  asio,         \* the asio thread runs
  up,           \* the server accepts calls
  calls,        \* the calls under way, by number
  gui,          \* what each client is doing
  view,         \* logging_ of each client (its path_ is only shown)
  disturbed     \* history: the calls during which another one changed the log

controller == <<logger, current_path, last_ts, disk>>
threads == <<asio, up>>
clients == <<calls, gui, view>>
vars == <<logger, current_path, last_ts, disk, second, asio, up, calls,
          gui, view, disturbed>>

Numbers == DOMAIN calls
Open(n) == calls[n].step \in {"sent", "ran", "half"}

\* The calls that a change of the log by call m, or by the process, disturbs.
Disturbs(m) == disturbed' = disturbed \cup {n \in Numbers : Open(n) /\ n # m}

-----------------------------------------------------------------------------
(* The controller.                                                         *)

\* Mutant: start() does not look whether a log is open.
Start_Again ==
  /\ logger' = second /\ current_path' = second
  /\ disk' = [p \in DOMAIN disk \cup {second} |-> IF p = second THEN <<>> ELSE disk[p]]
  /\ UNCHANGED last_ts

\* Mutant: the path is not kept.
Start_NoPath ==
  \/ logger # NoPath /\ UNCHANGED controller
  \/ /\ logger = NoPath /\ logger' = second
     /\ disk' = [p \in DOMAIN disk \cup {second} |-> IF p = second THEN <<>> ELSE disk[p]]
     /\ UNCHANGED <<current_path, last_ts>>

\* The file is created, or made empty when it is there already.
Start ==
  \/ logger # NoPath /\ UNCHANGED controller
  \/ /\ logger = NoPath
     /\ logger' = second /\ current_path' = second
     /\ disk' = [p \in DOMAIN disk \cup {second} |-> IF p = second THEN <<>> ELSE disk[p]]
     /\ UNCHANGED last_ts

\* start() throws: without its directory, or after setting current_path_.
StartFails ==
  /\ logger = NoPath
  /\ current_path' \in {current_path, second}
  /\ UNCHANGED <<logger, last_ts, disk>>

\* Mutant: the time stamps of the old log are kept.
Stop_KeepStamps ==
  /\ logger' = NoPath /\ current_path' = NoPath
  /\ UNCHANGED <<last_ts, disk>>

Stop ==
  /\ logger' = NoPath /\ current_path' = NoPath /\ last_ts' = {}
  /\ UNCHANGED disk

\* Mutant: the time stamps go on without a log.
LogCanFrame_StampFirst(k) ==
  /\ last_ts' = last_ts \cup {k}
  /\ disk' = IF logger = NoPath THEN disk
             ELSE [disk EXCEPT ![logger] =
                     Append(@, [key |-> k, ratio |-> k \in last_ts])]
  /\ UNCHANGED <<logger, current_path>>

\* The data, the raw bytes and, if the key has a time stamp, its update ratio.
LogCanFrame(k) ==
  /\ IF logger = NoPath THEN UNCHANGED <<last_ts, disk>>
     ELSE /\ disk' = [disk EXCEPT ![logger] =
                        Append(@, [key |-> k, ratio |-> k \in last_ts])]
          /\ last_ts' = last_ts \cup {k}
  /\ UNCHANGED <<logger, current_path>>

\* The callback of a socket.  Its own test of is_logging() adds nothing.
Receive(k) ==
  /\ asio
  /\ logger # NoPath => Len(disk[logger]) < MaxEntries
  /\ LogCanFrame(k)
  /\ UNCHANGED <<second, threads, clients, disturbed>>

-----------------------------------------------------------------------------
(* The handlers of the service.                                            *)

At(n, step) == n \in Numbers /\ calls[n].step = step
Step(n, step) == calls' = [calls EXCEPT ![n].step = step]
Awaited(n) == \E c \in Clients : gui[c].waits = n
Without(n) == [m \in Numbers \ {n} |-> calls[m]]

\* What StartLog, StopLog and GetLogStatus do to the controller.
Operate(op) ==
  \/ op = "start" /\ Start
  \/ op = "stop" /\ Stop
  \/ op = "status" /\ UNCHANGED controller

\* Mutant: the status is that from before the operation.
RunCall_StatusFirst(n) ==
  /\ At(n, "sent") /\ up
  /\ calls' = [calls EXCEPT ![n].step = "half", ![n].active = (logger # NoPath)]
  /\ Operate(calls[n].op)
  /\ IF logger' # logger THEN Disturbs(n) ELSE UNCHANGED disturbed
  /\ UNCHANGED <<second, threads, gui, view>>

\* An exception of the handler ends the call with an error status.
RunCall(n) ==
  /\ At(n, "sent") /\ up
  /\ \/ Step(n, "ran") /\ Operate(calls[n].op)
     \/ /\ calls[n].op = "start" /\ StartFails
        /\ IF Awaited(n) THEN Step(n, "failed") ELSE calls' = Without(n)
  /\ IF logger' # logger THEN Disturbs(n) ELSE UNCHANGED disturbed
  /\ UNCHANGED <<second, threads, gui, view>>

\* fill_log_status(): is_logging(), then current_path().
FillStatus(n) ==
  /\ \/ /\ At(n, "ran")
        /\ calls' = [calls EXCEPT ![n].step = "half", ![n].active = (logger # NoPath)]
     \/ /\ At(n, "half")
        /\ calls' = IF Awaited(n)
                    THEN [calls EXCEPT ![n].step = "answered", ![n].named = (current_path # NoPath)]
                    ELSE Without(n)
  /\ UNCHANGED <<controller, second, threads, gui, view, disturbed>>

-----------------------------------------------------------------------------
(* The clients.  A client waits for one call at a time.                    *)

NewCall(op) == [op |-> op, step |-> "sent", active |-> FALSE, named |-> FALSE]

Call(c, op, next) ==
  \E n \in (1..MaxCalls) \ Numbers :
    /\ 1..(n - 1) \subseteq Numbers
    /\ calls' = [m \in Numbers \cup {n} |-> IF m = n THEN NewCall(op) ELSE calls[m]]
    /\ gui' = [gui EXCEPT ![c] = [waits |-> n, then |-> next]]
    /\ disturbed' = disturbed \ {n}

Free(c, then) == gui[c] = [waits |-> 0, then |-> then]

\* The constructor, --log, the button of the overlay and the end of run_gui.
Client(c) ==
  /\ \/ \E next \in {"log", "run"} : Free(c, "connect") /\ Call(c, "status", next)
     \/ Free(c, "log") /\ Call(c, "start", "run")
     \/ Free(c, "run") /\ Call(c, IF view[c] THEN "stop" ELSE "start", "run")
     \/ Free(c, "run") /\ Call(c, "stop", "end")
  /\ UNCHANGED <<controller, second, threads, view>>

Returns(c) == gui' = [gui EXCEPT ![c].waits = 0]

\* The answer arrives.
Answer(c) ==
  LET n == gui[c].waits IN
  /\ At(n, "answered")
  /\ view' = [view EXCEPT ![c] = calls[n].active]
  /\ Returns(c) /\ calls' = Without(n)
  /\ UNCHANGED <<controller, second, threads, disturbed>>

\* The call fails: in its handler, on the way there (the request is gone) or
\* on the way back.  start() and stop() use the empty status all the same.
Fail(c) ==
  LET n == gui[c].waits IN
  /\ n \in Numbers
  /\ view' = IF calls[n].op = "status" THEN view ELSE [view EXCEPT ![c] = FALSE]
  /\ Returns(c)
  /\ \/ calls[n].step \notin {"ran", "half"} /\ calls' = Without(n)
     \/ Open(n) /\ UNCHANGED calls
  /\ UNCHANGED <<controller, second, threads, disturbed>>

-----------------------------------------------------------------------------
(* The process.                                                            *)

Tick ==
  /\ second < MaxSeconds /\ second' = second + 1
  /\ UNCHANGED <<controller, threads, clients, disturbed>>

\* SIGINT, on the asio thread, which then ends.
Interrupt ==
  /\ asio /\ asio' = FALSE
  /\ Stop /\ Disturbs(0)
  /\ UNCHANGED <<second, up, clients>>

\* The server goes down when no handler runs, then the controller closes its log.
Down ==
  /\ ~asio /\ up /\ up' = FALSE
  /\ \A n \in Numbers : calls[n].step \notin {"ran", "half"}
  /\ logger' = NoPath
  /\ UNCHANGED <<current_path, last_ts, disk, second, asio, clients, disturbed>>

\* The server may have been started with --log itself.
Init ==
  /\ \/ logger = NoPath /\ disk = <<>>
     \/ logger = 0 /\ disk = [p \in {0} |-> <<>>]
  /\ current_path = logger /\ last_ts = {}
  /\ second = 0 /\ asio = TRUE /\ up = TRUE
  /\ calls = <<>>
  /\ gui = [c \in Clients |-> [waits |-> 0, then |-> "connect"]]
  /\ view = [c \in Clients |-> FALSE]
  /\ disturbed = {}

Handlers == \E n \in Numbers : RunCall(n) \/ FillStatus(n)
Next ==
  \/ \E k \in Keys : Receive(k)
  \/ Handlers
  \/ \E c \in Clients : Client(c) \/ Answer(c) \/ Fail(c)
  \/ Tick \/ Interrupt \/ Down

Spec == Init /\ [][Next]_vars
-----------------------------------------------------------------------------
Entries == [key : Keys, ratio : BOOLEAN]

\* Every variable has its type, and an open log is a file, named by the path.
TypeOK ==
  /\ logger \in Paths \cup {NoPath} /\ current_path \in Paths \cup {NoPath}
  /\ logger # NoPath /\ up => current_path = logger /\ logger \in DOMAIN disk
  /\ last_ts \subseteq Keys
  /\ DOMAIN disk \subseteq Paths /\ \A p \in DOMAIN disk : disk[p] \in Seq(Entries)
  /\ second \in Paths
  /\ asio \in BOOLEAN /\ up \in BOOLEAN
  /\ Numbers \subseteq 1..MaxCalls
  /\ \A n \in Numbers : calls[n] \in
       [op : {"start", "stop", "status"}, active : BOOLEAN, named : BOOLEAN,
        step : {"sent", "ran", "half", "answered", "failed"}]
  /\ gui \in [Clients -> [waits : 0..MaxCalls, then : {"connect", "log", "run", "end"}]]
  /\ view \in [Clients -> BOOLEAN]
  /\ disturbed \subseteq 1..MaxCalls

\* An entry carries an update ratio exactly if an earlier entry of the same
\* file has its key: the time between two logs is never taken for a period.
RatioWithinLog ==
  \A p \in DOMAIN disk : \A n \in DOMAIN disk[p] :
    disk[p][n].ratio <=> \E m \in 1..(n - 1) : disk[p][m].key = disk[p][n].key

\* "No-op if already active": whatever the clients do at the same time, a log
\* that stays open is the same file and only grows.
OpenLogGrows ==
  [][logger # NoPath /\ logger' # NoPath =>
       logger' = logger /\ IsPrefix(disk[logger], disk'[logger])]_<<logger, disk>>

\* The answer to a call is the state it left the log in, unless another call
\* or the end of the process changed that state before it was answered.
AnswerTrue ==
  [][\A n \in Numbers \ disturbed :
       At(n, "half") /\ (At(n, "answered"))' =>
       /\ calls[n].active = (logger # NoPath)
       /\ calls[n].op = "start" => calls[n].active /\ calls'[n].named
       /\ calls[n].op = "stop" => ~calls[n].active]_calls

\* "Create a new timestamped MCAP file" (src/src/logger/LogController.hpp:26):
\* a log that has been closed is kept as it is.
ClosedLogsKept ==
  [][\A p \in DOMAIN disk : p # logger => disk'[p] = disk[p]]_disk
=============================================================================
