# A TLA+ specification of caneo

caneo is a CAN bus tool in C++. One process reads CAN frames from sockets (or from
another caneo over gRPC), decodes them with DBC files, shows them in a GUI or a
terminal UI, runs a Lua model over the decoded signals, records everything to MCAP
files, replays such files, and sends frames once, periodically or with a signal
driven by a sine. This directory specifies the parts of it whose behaviour depends
on the order in which things happen, checks them with TLC on small instances and
proves the most important properties with TLAPS for every value of the constants.

Paths such as `action/Action.cpp` are relative to `src/src/`. `PROJECT.json` maps
every definition to the lines it stands for, and lists runs, mutants, hazards,
findings and theorems.

## 1. The system

### Threads

| thread | started in | what it runs |
|---|---|---|
| asio thread | `modes/run_gui.cpp`, `run_tui.cpp`, `run_playback.cpp`; the main thread itself in `run_live.cpp` | `io_context::run()`: reads of the CAN sockets, timers and completions of actions, handlers that were posted, SIGINT |
| UI thread | main thread of the GUI and the TUI | GLFW/ImGui loop or the ftxui loop |
| one thread per call | gRPC | `Subscribe`, `Send`, `StartLog`, `StopLog`, `GetLogStatus` |
| client thread | `socket/SocketGrpc.cpp` | reads the stream of a remote server, reconnects |
| playback thread | `modes/run_playback.cpp` | the loop of `logger/McapReader.cpp` |

### Components

| component | state | operations | correct if |
|---|---|---|---|
| **Actions** `action/` | `actions_`, `snapshot_` of the handler; `timer_`, `paused_`, payload, `ever_sent_`, `last_sent_` of each action | add, add paused, remove, toggle, set the payload or the parameters of a sine, each posted to the asio thread; expiry and completion of a wait; reading the snapshot | one chain of waits per action; nothing that runs is forgotten; nothing that is paused sends; an edit hits what was pointed at |
| **Presets** `action/ActionPreset.cpp` | none of its own: each entry becomes an action that is added and paused | load | a preset is silent until it is resumed |
| **Actions window** `gui/ActionsWindow.cpp` | the edit popup and the index of its row | open, apply, close, pause, delete | the popup edits the action it was opened on |
| **Frame stream** `grpc/CanStreamService.cpp`, `CanStreamServer.cpp` | `subscribers_`; queue, `done`, mutex and condition of each call | `Subscribe`, `broadcast`, `shutdown`, end of the server, `Send` | no loss, duplicate or reordering; no client delays the bus; the server can end |
| **Log control** `logger/LogController.cpp`, `grpc/RemoteLogControl.cpp`, RPC handlers | `logger_`, `current_path_`, `last_ts_`; the client's view of them | start, stop, status, frame, interrupt | a log is not replaced while it is open, a closed log is kept, clients are told the truth |
| **Recording** `modes/run_live.cpp`, `frame/`, `model/SignalStore.cpp`, `logger/McapLogger.cpp` | current frame of each id; latest value of each signal; types, schemas and channels of the file | receive, open, close, read back | what is replayed is what was received |
| **Playback** `logger/McapReader.cpp`, `playback/PlaybackController.hpp` | running interfaces, enabled messages, `stopped_`; position, `t0`, `start_time` | toggle, stop, pace, filter, deliver | on time, in order, no burst after a pause, `stop()` ends it |
| **Terminal UI** `gui/TuiDataFrameSet.cpp` | tabs, nesting, cursors, three editing modes, the dialog of a new action | every key | no mode swallows the keyboard unseen; what is used is what is highlighted (on the Actions tab: as long as no action leaves) |
| **Send window** `gui/SendWindow.cpp` | the popup: message, values, signal of the sine | open, edit, send once, periodically or as a sine | what is sent is what is shown |
| **Graphs** `gui/GraphWindow.cpp`, `GraphPreset.cpp`, the menus of `TraceWindow.cpp` and `ModelWindow.cpp` | series of each graph with their points; open menu | add, plot, move to another axis, remove, load presets | a signal is there once, and its curve is what was received |
| **CAN sockets** `socket/SocketCAN.cpp` | descriptor, read buffer, pending wait | open, drain, wait again, send | no frame stays in a buffer, whatever error `recvmsg()` meets; only a *wait* that ends with an error ends the reading of its socket, for good |
| **gRPC socket** `socket/SocketGrpc.cpp` | `running_`, `current_ctx_`, the reader thread | connect, read, retry, send, stop | frames arrive as if they were local; it reconnects; `stop()` ends the thread |
| **Message encoding** `send/SendModel.cpp`, `decoder/DbcPppWrapper.cpp` | values of each signal | set, encode, decode | a receiver decodes what the sender was shown, to a step of the signal's factor |
| **Configuration** `config/`, `main.cpp` | none after start | parse, choose the user interface | (see section 8) |
| **Headless mode** `modes/run_live.cpp` | wiring of the above | start, interrupt, shut down | calls that come early do no harm; order of shutdown |

### How they interact

* The UI threads never touch an action. They post handlers to the `io_context`, with
  the **index** a row had in the last snapshot they copied, and read the snapshot
  under `snapshot_mutex_`.
* A CAN frame arrives on the asio thread, which decodes it, updates the frames shown,
  feeds the Lua model, writes it to the log and calls `broadcast()`: all of it one
  callback.
* `broadcast()` holds `subs_mutex_` over all calls and takes the mutex of each in turn;
  every `Subscribe` waits on a condition of its own and writes without a mutex.
* The log is started and stopped from gRPC threads, from the GUI button (over gRPC
  when the GUI is remote) and from SIGINT, while the asio thread writes to it.
* A client starts one reader thread per interface, each with a `Subscribe` of its own; what
  it reads it posts to the asio thread of the client. What the client sends is a unary call
  **on** that asio thread, which waits for the answer.
* The Send window, the Actions window and the TUI share one `SendModel` per message; the
  encoder of a sine of the TUI writes to it on the asio thread.
* The asio thread pushes each frame to the trace and then to the graphs, under the mutex of
  the window; the render thread adds, moves and removes series between.
* The playback thread shares the `PlaybackController` with the TUI, and waits on its
  condition in two places: for a running interface and for the time of a message.

### What is hard

Completions that are already queued when a timer is cancelled; indices that are stale when they are
used; wakeups between the test of a predicate and the wait; threads that must all end in the right
order; RPCs that are lost after they took effect; time that is counted anew after a pause; modes of
a keyboard handler that are tried in a fixed order; a file format in which types are shared by name;
a connection that breaks, or goes silent, while frames of it are still posted; values that several
windows edit in one model. `PROJECT.json` lists these hazards at their lines with the properties that
cover each, or the reason why none does; what is only a surprise to the user is in section 5, data
races are in section 8.

## 2. The modules

| module | models | size (lines) |
|---|---|---|
| `ActionHandler` | actions, handler, presets as they are loaded, the queue of the `io_context` and its reactor, the UI thread | 493 |
| `Senders` | what the action handler promises its users: the abstract specification of `ActionHandler` | 58 |
| `CanStream` | the stream service: calls, mutexes, conditions, broadcast, shutdown | 397 |
| `FrameFeed` | what the stream service promises its clients: the abstract specification of `CanStream` | 52 |
| `Remote` | CAN sockets of a server, the network, the gRPC sockets of a client and its end; the stream between them is an instance of `FrameFeed` | 449 |
| `LogControl` | controller, RPC handlers, clients, interrupt, end of the server | 286 |
| `Recorder` | frames from the socket callback to the file and back | 343 |
| `Filters` | the elements of a sequence that are in a set, for the properties of `Recorder` and `GraphWindow` | 11 |
| `Playback` | playback thread, controller, pause, stop and join | 286 |
| `TuiNav` | every key of the terminal UI | 546 |
| `Sending` | encoding, action presets, the Send and Actions windows, the editing tabs of the TUI | 371 |
| `GraphWindow` | series of the graphs, the menus that add them, graph presets | 196 |
| `UserInterfaces` | composes `TuiNav`, `Sending` and `GraphWindow` | 34 |
| `MC...` | instances for TLC | |
| `ActionHandlerProofs`, `CanStreamProofs`, `LogControlProofs`, `PlaybackProofs`, `RecorderProofs`, `RemoteProofs`, `UserInterfaceProofs` | theorems | |
| `SequenceLemmas` | lemmas on sequences the others share | |

### ActionHandler and Senders

`queue` is the FIFO of the `io_context`. One entry is the reactor (`Task`); when it comes to the
head (`RunTask`), every wait whose deadline has passed becomes a completion, and the reactor goes to
the end. `timer[a]` says whether the reactor still holds a wait of `a` ("pending", or "due" once
`Elapse` let the deadline pass). Cancelling (`pause()`, a new `expires_after`, destruction) appends
an aborted completion for a wait the reactor still holds, **and does nothing to a completion that is
queued already**; this is how asio works and the source of most hazards here. Every posted lambda of
`ActionHandler.cpp` is one `Run...` action, with the call of `rebuild_snapshot()` it ends in;
`RunPeriodic` and `RunSingle` are the completions of `Action.cpp`; `RunDestroyed` is a completion
whose action has been destroyed, which is undefined: it may do nothing visible, or end the process
(`alive`). `RunThrows` is a completion whose send fails: `SocketCAN::send()` writes with
`boost::asio::write()` (`socket/SocketCAN.cpp:176`), which throws when the interface is down or its
buffer full; nobody catches that in `Action.cpp` or around `io.run()`, so nothing after the send is
run and the process ends. (Over gRPC `send()` only prints the error, and the completion goes on:
that is `RunPeriodic` or `RunSingle`.) `Look` is one UI frame copying the snapshot, and `PostRow` a
click on a row of that copy. A handler is one step, because other threads can only append to the
queue or copy the snapshot.

Payloads and sine parameters are abstract `Values`; the time at which an action was
last sent is counted modulo `Ticks`, which is enough to see that it was sent again.

`Senders` has no queue, timer or list: an action is silent, waits for a period to end, or is due, and
sends only when it is due, a single one for the last time. `ActionHandler` implements it with
`mode <- Modes` (due from the deadline on until the completion has run) and `on <- On` (what the list
shows as running). That a stopped action may stay due is the part of `Action::pause()` finding 1 is about.

### CanStream and FrameFeed

`pc[s]` is the program counter of a `Subscribe` call. A call between the test of the
predicate (`Test`) and the wait (`Block`) holds its own mutex, so `broadcast()` cannot
push to it there, while `shutdown()` can set `done` and notify, because it does not
take that mutex. `subs_mutex` is a variable: `Broadcast`, `Push`, `EndBroadcast`
and `Shutdown`, `Mark`, `Notify`, `EndShutdown` are separate steps between which calls
run. `Spurious` is a spurious wakeup. Clients call with a filter, read (`WriteOk`), stall
(no step), and go away, which a call learns of from a `Write()` that returns false (`WriteFails`;
`gone` are the calls that have).
`CloseServer` is the destructor of the server, which waits for all calls.

`FrameFeed` has no queues, mutexes or threads: calls subscribe and cancel, a publication is
appended at once to the feed of every open call that wants it, and a delivery hands a call
the next frame of its feed. `CanStream` implements it with
`open <- subscribers, feed <- cast, got <- written`, where `cast` and `written` are the
frames broadcast while a call was registered and those its client got.

### Remote

The whole way of a frame from a bus of the server to the callback of a client. `rx[i]` is the
receive buffer of a CAN socket, `armed` the sockets with a pending `async_wait()`, `drain` the
one whose buffer `asyncRead()` empties: `Ready`, any number of `ReadFrame`, each with its
`broadcast()`, then `Rearm`, on an empty buffer or on any other error of `recvmsg()`. A wait that ends with
an error (`WaitFails`) is another matter: the completion prints it and returns without `asyncRead()`
(`socket/SocketCAN.cpp:101-106`), and the socket is never read again (`deaf`). `CanStream` is represented
by what it was shown to implement: `Feed == INSTANCE FrameFeed`, so `Publish`, `Subscribe`,
`Deliver` and `Cancel` are the steps of that module.

`reader[i]` is the program counter of a reader thread, with a step for each point at which
`stop()` may come: `Loop` (`while (running_)`), `Context` (`current_ctx_` is set), `Subscribe`
(the call), `Check` (`running_` again), `ReadTrue` / `ReadFalse`, `Close`, `Sleep`. A call is an
interface with its number `session[i]`, so that frames of an old call can be told from those of
the next. `link[i]` is the connection: live, broken (a read fails) or silent (nothing arrives and
nobody is told). `posts` is the queue of the client's `io_context`, `Hand` runs one of its
entries; `asio` says whether that thread is in a `Send` (`Fire`, `Handle` on the server,
`Answered`), during which it hands over nothing. `Quit`, `JoinAsio`, then `Halt`, `TryCancel` and
`Join` for each socket are the end of `run_tui()` and `run_gui()`.

Faults are `StopServer` (which may close the connections or not), `Break`, `Silence`, `LoseSend`,
`WaitFails` and the error in `Rearm`; together at most `MaxFaults`, and with the frames at most
`MaxEvents`. The server starts again with `StartServer`, opens its sockets one by one, and takes
calls before they are open.

### LogControl

Each call of the controller holds its mutex, so it is one step; `StartLog` and `StopLog` are up to
three of them (`RunCall`, `FillStatus`), between which other calls run. Files are named by the
second (`make_log_path()`), so `disk` is a function of seconds. A client has its own view of the
server (whether it logs; the path is only shown), asks when it connects, and goes on when a call
fails (`Fail`) whether or not the handler ran. `Interrupt` is SIGINT on the asio thread, `Down` the
end of the server and of the controller.

### Recorder

`Receive` is the whole callback of a socket in `run_live.cpp`. `shown` are the frames of
the `DataFrameSet`s, `store` the `SignalStore`, `files` the logs with their schemas,
channels, messages and the maps of `McapLogger`. A value on the wire is a field number
with a wire type and the payload it came from; `OnFrame` and `OnSend` are what
`McapReader` reads back, by the type the file holds and not by the one the message was
written with. `sanitize()` is the constant function `Safe`, chosen so that names collide
as real ones do; all that is assumed of it is that it takes no name to the tag a frame without
a type has in its topic (`SafeAssumption`: such a tag holds a `:`, which `sanitize()` never
returns). The outputs of the Lua model are one topic, whatever the script calls them. Two
conditions of the properties are real limits of the code: the signal store is keyed by the name
of a message and not by its id, so what it holds is that of the last frame *under a name*
(`OwnName`), and a DBC that calls a message like one of the logger's own types shares a schema with it.

### Playback

One label of `pc` per stretch of the loop between two points where another thread can
act. The two waits have the step between finding the predicate false and waiting, in
which the thread holds the mutex (`Locked`). `clock` is the time since `start_time` was
set; `t0` and `started` are those of the code; `since` (history) is the time since the
last wait for a running interface ended.

### TuiNav

`Press(k)` is the event handler of `run()`: the modes in their order, then global keys, then
each tab. Texts being typed are known by what `std::stod` and `std::stol` make of them.
The rows of the action list come from posted handlers and leave when a single action
was sent (`SingleLeaves`); interfaces and frames appear in name order (`Update`). On the Actions
tab the cursors are not moved when a row leaves, so they may be past what is drawn: then nothing
is highlighted, and Return still edits the last signal or parameter there is. `SelectionShown` is
therefore about the Send and Playback tabs, and the action property `HighlightKept` about the Actions
tab: as long as no action leaves, no key and no update takes the highlight from an open action. In
a replay nothing that is posted runs, since `io.run()` returned at once.

### Sending

`values` are the values of all `SendModel`s. A payload is a function from bits to bits. `Encode`
puts the signals in the order of their start bits, all variants of a multiplexed message one
over the other, as `SendModel::encode()` does. What it puts of a signal is `Raw`: of an integer signal the
quotient `PhysToRaw` of the value less the offset by the factor, cut to a whole number; of a float or a
double its bits (`FloatBits`, the `bit_cast`). `DecodedValue` is what `DbcPppWrapper` reads back: raw times
factor plus offset, with the second attempt for signed signals that are never negative (`ReadAgain`), or
`FloatValue` of the bits. The sine of the Send window and of a preset calls
`PhysToRaw()` for a signal of *any* type (`Driven`), unlike `encode()`.

Values, offsets and factors are whole numbers of a unit small enough for all of them (a factor of
0.1 is 1 where a value of 0.3 is 3). Arithmetic on them is exact but for a quotient, which `Short`
says may fall short of the whole number it is: 0.3 / 0.1 is 2.999... in doubles, and is cut to 2.
`Short`, `FloatBits`, `FloatValue` and `FloatRaw` (what dbcppp's `PhysToRaw()` makes of a float
signal's value; its code is not in the repository) are constants about which *nothing* is assumed; a
factor is assumed not to be zero. `Fits` says for which values a signal has bits enough and its
range tells the two apart that have the same bits, and `Near` what may be decoded of a value: a
float itself, an integer less than a step of the factor from it and toward the offset, itself if it
is a multiple, and one step off at most where a quotient falls short.

`window` is the popup of the Send
window, whose `sine` (`sin_sig_idx_`) is kept from message to message; `edit` that of the Actions
window, with a row index and values. An action remembers what its user saw (`shown`, history) and
`base`, the payload a sine of the GUI puts its signal into; a sine of the TUI encodes the model anew
(`Tick`). `PreviewSine` is the read past the end of the signals: undefined (`front = "ub"`).
`Presets` reads the entries of a file one after the other into one model.

### GraphWindow

`tabs` are the series of each graph; a value is the number of the frame it came with. `Arrive` brings
a frame to the trace (or an output to the model window), `Plot` to the graphs, with the render thread
between them: `OpenSignal` and `PickGraph` (the menus of the trace and of the model window),
`OpenSeries`, `ChangeAxis`, `RemoveSeries` (the menu of the legend, whose entries ImGui knows by label)
and `AddGraph`. `LoadEntry` is one entry of a preset.

### UserInterfaces

`main()` starts one user interface. `part` says which part of it a behaviour follows: the keys of the
TUI, what either UI sends, or the graphs of the GUI. They share no variables, so following one at a
time loses nothing and keeps the state space a sum.

## 3. The runs

All runs are exhaustive on their instance. Each module's `TypeOK` is checked too, by one run.

| run | instance | distinct states | shows |
|---|---|---|---|
| `actions_safety` | a single action and a sine loaded as preset, one value, two posted operations at a time | 2,432,747 | `OneWait`: never two chains of waits; `Armed`: nothing that runs is forgotten; `QuietPreset`; `TargetHit`: an index hits its row as long as nothing left |
| `actions_live` | the same, two values, one posted operation | 467,012 | `TypeOK`, `SenderSpec` (refinement), and under fairness `KeepsFiring`, `SingleLeaves` |
| `stream` | two calls, one with a filter, two interfaces, two frames | 113,704 | `TypeOK`, `InOrder`, `FeedSpec` (refinement), and under fairness `BroadcastEnds`, `Delivered`, `DoneReturns` |
| `log_control` | two clients, two calls at a time, one kind of frame, two entries in a file, two seconds; symmetric in clients | 1,505,932 | `TypeOK`, `RatioWithinLog`, `OpenLogGrows`, `AnswerTrue` |
| `recorder` | four interfaces (two DBCs that agree on one message and not on the other, one with colliding names, one without DBC), three frames, two logs | 92,365 | `TypeOK`, `LastDecoded`, `RawExact`, `DataExact` |
| `playback` | six messages of three interfaces (one not replayed), with a gap, a message that cannot be parsed and one on a channel that is not read | 195,776 | `NeverEarly`, `NoBurst`, `Replayed`, and under fairness `StopJoins`, `PlaysOn` |
| `remote` | one interface, two frames, one `Send`, three faults, three frames and faults together | 129,838 | `TypeOK`, `AsIfLocal`, and under fairness `Reconnects`, `Arrives`, `StopEnds` |
| `ui` | four users of the TUI (one who creates actions, one who edits presets, one who looks at a live bus, one at a replay); two messages to send, one with a signed signal in steps of two, one with a switch and a float it switches, with presets; two graphs of one signal of each source | 372,552 | `UiTypeOK`, `KeysTaken`, `SelectionShown`, `HighlightKept`, `CreatedSound`, `SentAsShown`, `SeriesFaithful` |

`actions_paused`, `stream_shutdown`, `playback_paused` and `log_truncate` each check one
statement of the repository that TLC refutes: section 5.

### Bounds, and why they are enough

* `ActionHandler`: `MaxPosts` = 2 lets two posted operations wait in the queue with a
  completion between them, which all the races need. Two actions suffice for an index to
  be shifted (the first leaves, the second takes its place). `Ticks` = 2 tells "sent again"
  from "not sent". `actions_live` has one post at a time, which is enough for a pause or a removal
  between an expiry and its completion; with several it rests on `SenderCorrect`. A send may throw at any
completion.
* `CanStream`: two calls are needed for one to delay the other, and for a broadcast to
  be under way while another registers or leaves; two frames for an order; two interfaces
  for a filter that admits some.
* `LogControl`: two clients whose calls overlap, two at a time; two frames of one key in one file
  are needed for an update ratio, two seconds for two names. With one key there is nothing to keep
  apart but logs; that stamps of different keys do not mix is part of `RatioCorrect`. A client that
  gave a call up may place another one while the first still runs.
* `Recorder`: three frames allow decodable, undecodable, decodable on one id, and a
  channel that is reused after another was made; two logs that state is carried over.
* `Playback`: `MaxTicks` = 5 is later than the last message by two, so late messages exist;
  `NoBurst` says nothing once the clock has reached the bound.
* `Remote`: faults without a frame, up to three: a crash of the server, a new connection that breaks
  and another that goes silent, a wait that fails before, between or after them; one frame with two
  of them; two frames, for an order in one call or across two, with a fault between. A buffer of two
  can be full. Interfaces share the posted frames, the asio thread and the order of `stop()`. An
  instance with two of them, one frame, one fault, a buffer of one and no `Send` (458,570 states)
  has the same result but is too slow to be kept as a run; the theorems are about any number of
  interfaces.
* `Sending`: the values are 4 and 5, the factor of the signed signal 2 and its range 0 to 4: 4 is in
  the range, its raw value sets the sign bit, and its quotient by the factor is one that falls
  short; 5 is outside the range and is rounded. Neither is its own bits as a float, and what
  `PhysToRaw()` makes of a float differs from its bits. Both are even and odd for the one-bit
  switch. Two actions so that an index can be shifted; two messages so that the popup's index of the
  sine can be too large; one value entered is enough to tell the copies of a value apart.
  Overlapping variants, other factors, offsets and doubles are left to `SentCorrect`.
* `GraphWindow`: three frames fill a ring of two; two series of one name (the signal and the output) in a
  graph, two graphs; a preset entry on an axis that does not exist and can be moved to one that does,
  and two that are incomplete.
* `TuiNav`: each user has the keys and rows for some of the tabs, since tabs share nothing but
  the nesting; each combination of modes is reached by one of them. `maxRows`,
  `maxFrames` and `maxPosts` (posted handlers that have not run) are the smallest that let cursors
  point behind rows that have gone and interfaces that moved; only who edits a list has two posts.

`CHECK_DEADLOCK FALSE` stands where the system may really stop: a handler queue whose process has
died (`ActionHandler`), a server that is down (`LogControl`), an event loop that was left or a bound
of edits reached (`UserInterfaces`), a bus whose bounded frames are used up (`Recorder`). The stream
service, the playback and `Remote` are checked for deadlock, with an explicit step once they have
ended (`Exited`, `Joined`, `Over`).

## 4. Fairness

* `ActionHandler`: weak fairness of the asio thread (`io.run()` runs handlers as long as
  there is one) and of `Elapse` (deadlines pass). The UI thread is not fair: the user
  need not act. `KeepsFiring` and `SingleLeaves` are about a process that lives: they end with it (`alive`),
  after a send that threw or a completion of an action that is gone.
* `CanStream`: weak fairness of each call's own steps and of the main thread, which the
  scheduler gives. Strong fairness of the steps of a broadcast, because pushing needs the
  mutex of a call, which that call takes again and again: a mutex that keeps being released
  is got at last. `Write()` is not fair, since a client may stall for ever; the properties
  about progress assume that a client keeps reading, `[]<>(pc[s] # "write")`. No frame need
  arrive, no client call and the user need not quit.
* `Playback`: weak fairness of the playback thread and of time.
* `Remote`: weak fairness of the draining of sockets, of each reader thread, of the asio thread, of
  the steps of the service and of the end of the client: threads that can run do. No fairness for
  what comes from outside: frames, actions, the user, faults, and a server that is down may stay so.
  `Reconnects` is about a server that is up for good and a connection that is not silent for ever:
  no keepalive is configured, so a client whose server lost power waits in `Read()` and never
  reconnects, although `README.md:132` of the repository has no such exception. `Arrives` is about
  the buffers of sockets whose wait has not failed. `Arrives` and `StopEnds` assume `[]<>(asio =
  "idle")`: `Send()` sets no deadline, and one that hangs holds up everything on that thread, the
  end of the program included.
* A property `P ~> Q` whose `P` holds until `Q` does, or whose `Q` holds for good, is written as the
  equivalent `[]<>(P => Q)`, which TLC checks without a tableau (`SingleLeaves`, `StopJoins`,
  `DoneReturns`, `Delivered`, `BroadcastEnds`, `Arrives`, `StopEnds`).
* The other modules have only safety properties and no fairness.

## 5. Findings

Each is a run that TLC ends with a counterexample.

1. `actions_paused`, `PausedStops` (`action/Action.cpp:32`). `pause()` sets `paused_` and
   cancels the timer. When the wait has expired and its completion is queued, the
   completion runs, sends, and schedules the next wait; it never reads `paused_`. The
   action is shown as paused and goes on sending for ever. `Action.hpp:35`: "cancels timer,
   sets paused flag".
2. `stream_shutdown`, `ShutdownExits` (`grpc/CanStreamService.cpp:32`). `shutdown()` notifies
   without the mutex of the call, so the wakeup can be lost between predicate and wait. No
   frame follows, the call never returns and the server's destructor waits for it.
   `DoneReturns` shows that this is the only point: a call notified anywhere else returns.
3. `playback_paused`, `PausedHolds` (`logger/McapReader.cpp:205`). Pausing the last running
   interface during the sleep for a message drops that message.
4. `log_truncate`, `ClosedLogsKept` (`config/AppConfig.cpp:62`). Two logs opened within one
   second have one name, and the second empties the first.

Observed on the way, with no run of their own: the TUI's Return never opens the
messages of the Playback tab (the test for Return at `gui/TuiDataFrameSet.cpp:647` comes
after one at 641 that has taken the key, so only Right opens them);
Left and Right on the Model tab move the hidden cursor of the Send tab; a sine always
drives the last signal of its message (`CreatedSound`), whichever was under the cursor
before; a replay shows signals of the type that were not in the frame as zero; two DBCs
with different messages of one name share the first one's schema, so that the second's
signals are read back under the wrong names (`DataExact` therefore assumes `Agreed`).

When an action leaves while it, or one before it, is open on the Actions tab, the cursors stay, and
can be past what is drawn: nothing is highlighted, yet Return fills the field with the value of the
*last* signal and commits to it (`gui/TuiDataFrameSet.cpp:207`, 557, 1168).

Of what is sent: a write that fails ends the program, since it throws on the asio thread, out of
`io.run()` (`action/Action.cpp:41`, `socket/SocketCAN.cpp:176`); a value on the grid of its factor
can be sent one step too small, because the quotient is cut and not rounded
(`send/SendModel.cpp:64`); a sine on a float signal puts the result of `PhysToRaw()` where
`encode()` and the decoder have the bits of the value (`gui/SendWindow.cpp:246`,
`action/ActionPreset.cpp:114`); the edit popup follows its row index, so it edits the next action
once an earlier row has left (`gui/ActionsWindow.cpp:64`; its title changes with it); `Update
Payload` sends the values of the Send window and forgets those the action had
(`ActionsWindow.cpp:44`); the index of the sine's signal outlives the message it was chosen for and
is read past the end (`gui/SendWindow.cpp:191`, and for a message without signals at 204); a sine of
the TUI is not confined to the range of its signal; the bounds of an edited sine are those of the
first signal (`ActionsWindow.cpp:83`); all variants of a multiplexed message are encoded one over
the other (`send/SendModel.cpp:50`); entries of a preset file see the values of the entries before
them.

In a replay nothing that is posted runs, so that actions made in the TUI never appear
(`modes/run_playback.cpp:69`).

Of the graphs: a preset with an axis that does not exist is drawn on Y3 (`config/ba_test1.yaml:11`;
`gui/GraphWindow.cpp:131`); of series with one label only the last has a menu; a replay whose time
stamps are negative meets the sentinel of `GraphWindow.cpp:139`; tabs of one name share their ImGui
identity.

Of the network: after a wait that ends with an error the interface is never read again, and a line
on stderr is all there is to see of it (`socket/SocketCAN.cpp:101`); a `Send` is answered with ok
when there is no socket (`grpc/CanStreamService.cpp:77`), and with an error of gRPC's when the write
throws; a silent connection is never given up; a socket that is readable all the time keeps
`asyncRead()` from returning, and with it every other interface and timer.

## 6. What is proved

The constants are arbitrary; the assumptions are the named `ASSUME`s of each module.

**`ActionHandlerProofs`**
* `TypeCorrect`: `TypeOK` is inductive by itself. One lemma for each kind of step, with lemmas
  on the sequence operators (`Rows`, removing a row, appending completions).
* `SnapshotCorrect`: `SnapshotFaithful` (no run checks it), from the type invariant: each handler
  that changes a row ends in `rebuild_snapshot()`, the others change none.
* `OneWaitCorrect`: no action ever has two successful completions queued, and the one that
  is queued is handled before the reactor's next turn, so pausing and resuming in between
  cannot start a second chain. The inductive invariant is `WaitInv == OneReactor /\ OneWait`:
  without `OneReactor` (the reactor has one entry in the queue) a second turn could append a
  second completion. The property speaks of the order in the queue because "at most one
  completion" alone is not inductive.

The second half of the module is about properties that speak of what is queued and not of the
order it is in, so each step is first described by what it does to the set `Contents` of the
queued operations; `Behind` is what is behind the operation that runs.
* `ArmedCorrect`: `Armed`, inductive in the form `ArmedInv` over `Contents`. The step that
  needs care is the reactor's turn, which empties `timer` and fills the queue at once.
* `QuietCorrect`: `QuietPreset`, from `QuietInv`: a preset nobody has resumed holds no wait,
  has no completion queued, was not posted unpaused and is paused once it is in the list.
* `TargetCorrect`: `TargetHit`, from `TargetInv`, which says of every index, on the screen
  and in the queue, that it still hits its row if no action has left since it was read. Uses
  `SnapshotFaithful`, because the screen copies the snapshot and the handlers index `actions_`.
* `SingleOnceCorrect`: `SingleOnce` (TLC checks it as a part of `SenderSpec`), with `LifeInv` (an
  action is posted once, then in one row, then freed), `SentInv` (of a single action that was sent
  nothing is left that could fire) and `OneWait`.
* `SenderCorrect`: `Spec => SenderSpec`, the refinement. `ModesRight` reads the mode of an action off its
  timer and `Contents`; `Same` says of a step that it leaves one sender as it is, so that of each handler
  only the action it touches is left. It needs `OneWait` (when a completion runs, none of its action is
  behind it: a send leaves the sender waiting, not due again), `LifeInv` (an addition is of an action that
  is not in the list) and `SentInv` (a single action that was sent is not started again).

**`CanStreamProofs`**
* `TypeCorrect`: `TypeOK` with `Visits` (the calls a broadcast has still to visit admit the
  frame it broadcasts, and it is the last of their `cast`), which says what is pushed.
* `OrderCorrect`: `InOrder`, the equation
  `written \o in flight \o queue \o being pushed = cast` of every call whose write has not
  failed. Each step moves one frame across one `\o`; the lemmas are about that.
* `FeedCorrect`: `Spec => FeedSpec`, the refinement. It needs `Fresh` (a call that has
  not begun has no feed) for `Ask`, `InOrder` to see that what is written is the next frame
  of the feed, and `Over` (a call that has found its client gone writes no more).

**`LogControlProofs`**
* `RatioCorrect`: `RatioWithinLog`, with `RatioInv`: `Stamps` (`last_ts_` holds exactly the
  keys of the open log, and none when there is no log) and `DownIsDown` (nothing is received
  once the server is down; `last_ts_` is *not* cleared by the destructor).
* `GrowsCorrect`: `OpenLogGrows` as an action property.
* `LogTypeCorrect`: `TypeOK`, with the lemmas on the calls (`CallMoved`, `Ended`, `Begun`) that
  say what a step does to one call and leaves of the others, and `PathKept`: `current_path_`
  names the log while one is open.
* `AnswerCorrect`: `AnswerTrue`, from `OutcomeInv`: a call that has run and between which and
  now no other call changed the log has left the log as it is, and has read it so if it is half
  answered.

**`PlaybackProofs`**
* `TypeCorrect`, `NeverEarlyCorrect`, `NoBurstCorrect`, `ReplayedCorrect`, all from one
  inductive invariant `PlayInv`. `NeverEarly` and `NoBurst` are about the states in which a
  message passes; `Timing` says of every state that the count of time is not ahead of the
  recording by more than what has passed since the last pause. It survives a pause because
  `Resume` ends the count (`started`), and survives a resumption that finds `stopped`, which
  keeps the count, only because the loop is then left. `Past` says that nothing at or after
  the message in hand has been played while the loop runs, and `Tested` what the filters have
  established about that message.

**`UserInterfaceProofs`**, first the keyboard (`TuiNav`), then the graphs and what is sent
* `CursorsCorrect`, `SelectionCorrect`, `KeysCorrect`, `CreatedCorrect`: `TypeOK`, `SelectionShown`
  (of the Send and Playback tabs), `KeysTaken` and `CreatedSound`, for every DBC, recording, list of
  presets and user, from one inductive invariant `Inv`. None of them is inductive alone: a mode is
  in view because the selection under it is there; an action is sound because its dialog is in view
  and, past the first question, has an interval that is not zero (`DialogTimed`); and the second
  Escape finds no mode on because no two modes have a view in common (`EscapeLeads`). There is one
  lemma for each mode and each view of the handler; `Untouched` covers everything that changes under
  the keyboard. In `CreatedSound` the posted operations are typed by `Handlers`, in which an
  addition is sound already.
* `HighlightCorrect`: `HighlightKept`, the action property about the Actions tab, from `Inv`, which
  has the bounds of the cursors. A key either opens an action with its first signal under the
  cursor, or moves the cursor within the signals there are (`HighlightPress`); rows that are added
  or changed leave an open action shown (`ShownStill`); and a row that leaves makes the list
  shorter, which the property exempts.
* `SeriesCorrect`: `SeriesFaithful`, for every file of presets, any bound of a curve and any order of
  frames and clicks. The inductive invariant `GraphInv` says of a curve that its points are the
  *end* of what came since it was added, never more than the bound (`Drawn`), and of a graph that it
  has a signal once (`Once`); a push to a full curve drops from the front what the end of the
  longer sequence leaves out (`PushEnd`). That the menu of a series still points at it when an entry is
  chosen is part of `GraphTypeOK`.
* `SentCorrect`: `SentAsShown`, for every DBC whose signals lie in their messages and have a factor,
  integers, floats and doubles, every preset file, any values, and whatever quotients fall short and
  whatever bits a float has. The inductive invariant is `SendInv`, with `IsRow` of each action: its
  message is one there is, it has as many shown values as the message has signals, and its frame is
  the encoding of the *shown* values or, for a sine of the GUI or of a preset, such an encoding with
  one driven value put over it; for the presets by induction over the entries of their file. That
  `IsRow` is enough is arithmetic: a signal's bits `Carries` its raw value after `Encode` if no
  later signal uses them (`Encoded`, `KeptElsewhere`), reading them from the highest down gives the
  value in two's complement (`UnsignedRead`), the two attempts of the decoder give the raw value
  back if it fits (`DecodedInteger`), and the cut quotient times the factor is near what was divided
  (`Division`, `NearMultiple`, `QuotientFacts`). What a sine drives is a value of the range first
  (`ClampedInRange`).
* `UiTypeCorrect`: `UiTypeOK` of the composition, for `Sending` from the same `SendInv`.
* `KeyboardAlone`: the theorems on the keyboard are about `TuiNav`'s own specification, which every
  behaviour of the composition satisfies.

**`RemoteProofs`**
* `TypeCorrect`: `TypeOK`, with `Counted` (how many calls a reading thread can have made: one more
  than there have been faults, and no more than that while its connection is whole) and
  `Fed` (what a client has read of a call is a prefix of what it was given, and that a
  prefix of what the call was fed). The bounds of `session` and of `taken` hold only because of these.
* `OrderCorrect`: `AsIfLocal`. `Ordered` is the order of the bus in every buffer between the bus and
  the client: within a receive buffer, from what a call was fed to that buffer, and from
  what was *given* to the client of one call to what a later call was *fed*: what an earlier
  call was fed and never gave is lost, and this is why a reconnect loses frames without ever
  doubling one. `Read` says that what the callbacks have been handed is the concatenation of what
  was read of the calls in their order (`FlattenSeq`), of which the posted frames are the end.

**`RecorderProofs`**, all from the inductive invariant `RecInv == FilesInv /\ ShownInv /\ StoreInv`.
* `RawRecorded`, `DataRecorded`: `RawExact` and `DataExact`, for any number of logs, interfaces and
  DBCs. `LogInv` says of one file that the maps of the logger lead to a schema and a channel of the
  name they are kept under, that the type of a channel `Fits` its topic, and that the messages are
  one by one (`Matches`) those of the frames heard while the file was open, one of each kind a
  frame. A write makes at most a schema, a channel and a message (`SchemaMade`, `Written`) and
  leaves what is there alone (`Extends`), so what the messages before it meant is not changed.
* `DecodedLast`: `LastDecoded`. `Shows` and `Stores` say it of one frame and one signal; a
  callback moves both for the frame it handles and neither for the others.
* `TypeCorrect`: `TypeOK` follows from `LogInv`.

**`SequenceLemmas`** has what the others need of `FlattenSeq` and `Filter`: their value for a
sequence with one more element or with one element grown, their length, the last element of a
filtered sequence. `FlattenSeq` of the community modules is a recursive function; that it is defined
everywhere is shown by induction over a *set* of naturals, by its least element (`Induction`),
because the induction theorems of the library take an operator as a parameter, which none of the
provers instantiates. `RecursionExists` says the same of any recursion whose steps are functions on
a set, which the encoding rests on.

## 7. What is only model-checked

* Liveness (`KeepsFiring`, `SingleLeaves`, `BroadcastEnds`, `Delivered`, `DoneReturns`,
  `StopJoins`, `PlaysOn`, `Reconnects`, `Arrives`, `StopEnds`): fairness and ENABLED are out of
  the prover's reach.

## 8. What is not modelled, and why

* Drawing: layout, colours, axes' ranges, panning, search texts, the settings file of ImGui; rendering
  of the TUI. One thread, and nothing another component sees.
* `config/`, `setup/`: parsing of YAML and arguments and shell commands, once, before any thread starts.
* Options and time stamps of `SocketCAN`, and that asio makes its descriptor non-blocking, which the
  drain of the buffer relies on.
* Floating point: the arithmetic of doubles is exact in the model but for the quotients that are cut
  (section 2); the phase of a sine is left out, and the values it takes are any. What a receiver
  makes of a float signal that a sine of the GUI or of a preset drives is not covered: it depends on
  dbcppp's `PhysToRaw()`.
* dbcppp, protobuf, mcap, Lua, ftxui, ImGui and gRPC themselves: modelled from how the code uses them
  where it matters.
* Data races, which have no defined outcome: `run_live` lets the gRPC server listen before `send_fn_`,
  the log controller and the map of sockets are set; `set_notify()` is called while the asio thread
  runs; a sine's encoder (asio thread) and the Send tab (UI thread) write to one `SendModel`. The
  orders of whole operations are modelled (`Remote`, `Sending`), torn reads and writes are not.

## 9. What is left

* `Remote` with two interfaces on one server as a run of its own: the properties do not
  depend on it, because a reader has a stream of its own, but a shared `io_context` makes one
  client wait for another.
