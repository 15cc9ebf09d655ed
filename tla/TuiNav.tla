------------------------------- MODULE TuiNav -------------------------------
(***************************************************************************)
(* The keyboard of the terminal UI: the event handler that                 *)
(* src/src/gui/TuiDataFrameSet.cpp installs in run(), with the dialogs it  *)
(* opens, and what changes under it: the rows of the action list, which    *)
(* the asio thread changes, and the interfaces and frames of the trace.    *)
(*                                                                         *)
(* One press is one step of the ftxui thread.  The handler tries its modes *)
(* in a fixed order and the first that is on takes the key; presses that   *)
(* change nothing are left out.  A text that is being typed is known by    *)
(* what std::stod or std::stol would make of it, not by its characters.    *)
(***************************************************************************)
EXTENDS Integers, Sequences, SequencesExt

CONSTANTS
  Replay,   \* by interface, the number of messages listed in a recording
  Users     \* who may be at the keyboard: keys, set-up, what arrives, and the
            \* bounds on rows, frames and handlers posted and not yet run

Keys == {"Up", "Down", "Left", "Right", "Return", "Esc", "Back", "Del",
         "t", "s", "a", "m", "p", "f", "q", "space", "1", "2", "0", "5", "-"}
Types == {"Single", "Periodic", "Sin"}

ASSUME ReplayAssumption == Replay \in Seq(Nat)
ASSUME UsersAssumption ==
  \A u \in Users :
    /\ u.keys \subseteq Keys
    /\ u.models # <<>> /\ \A i \in DOMAIN u.models : u.models[i] \in Seq(Nat)
    /\ u.model \in BOOLEAN /\ u.playback \in BOOLEAN
    /\ u.rows \in Seq([type : Types, signals : Nat])
    /\ u.maxRows \in Nat /\ u.maxFrames \in Nat /\ u.maxPosts \in Nat

VARIABLES
  user,             \* who is at the keyboard
  running,          \* the event loop runs
  escapes,          \* Escapes since the last other key (history)
  nav_level, main_tab,
  send,             \* cursors of the Send tab: interface, message, signal
  trace,            \* cursors of the Trace tab: interface, frame
  acts,             \* cursors of the Actions tab: row, signal
  play,             \* cursors of the Playback tab: interface, message
  send_editing, actions_editing, trace_searching,
  text,             \* the edit buffers, of which one is in use at a time
  dialog,           \* the dialog of a periodic or sine action
  sets,             \* the number of frames shown, by interface in name order
  rows,             \* the snapshot of the action handler
  posts,            \* what has been posted to the asio thread
  asked             \* the last call of the playback controller

view == <<nav_level, main_tab>>
cursors == <<send, trace, acts, play>>
modes == <<send_editing, actions_editing, trace_searching, text, dialog>>
world == <<sets, rows, posts, asked>>
vars == <<user, running, escapes, view, cursors, modes, world>>

PlaybackTab == IF user.model THEN 4 ELSE 3
TabCount == 3 + (IF user.model THEN 1 ELSE 0) + (IF user.playback THEN 1 ELSE 0)
OnPlayback == user.playback /\ main_tab = PlaybackTab

Least(a, b) == IF a < b THEN a ELSE b

-----------------------------------------------------------------------------
(* The texts.                                                              *)

Decimals == {"", "junk", "number"}          \* std::stod throws on "junk"
Intervals == {"", "zero", "some", "huge"}  \* std::stol throws on "huge"
Digits == {"0", "1", "2", "5"}

\* What another character may make of a text of the edit buffers ...
Edited(b, k) ==
  IF k = "-" THEN {IF b = "number" THEN "number" ELSE "junk"}
  ELSE IF b = "junk" THEN {"junk", "number"} ELSE {"number"}
\* ... of an amplitude or offset, where '-' may only come first ...
Decimal(b, k) ==
  IF k = "-" THEN {IF b = "" THEN "junk" ELSE b} ELSE {"number"}
\* ... and of an interval, where there are only digits.
Natural(b, k) ==
  IF b = "huge" THEN {"huge"}
  ELSE IF b = "some" THEN {"some", "huge"}
  ELSE {IF k = "0" THEN "zero" ELSE "some"}

Shortened(b) ==
  CASE b = "" -> {""}
    [] b = "junk" -> {"", "junk"}
    [] b = "number" -> {"", "junk", "number"}
    [] b = "zero" -> {"", "zero"}
    [] b = "some" -> {"", "zero", "some"}
    [] b = "huge" -> {"some", "huge"}

-----------------------------------------------------------------------------
(* What is selected, and what is posted to the asio thread.                *)

\* By interface, the number of signals of each message; <<>> without a DBC.
Models == user.models
Messages == Models[Least(send.iface + 1, Len(Models))]
MessageIdx == Least(send.msg, Len(Messages) - 1)
Signals == Messages[MessageIdx + 1]

RowShown == acts.row < Len(rows)
Row == rows[acts.row + 1]
ReplayShown == play.iface < Len(Replay)

Post(p) == Len(posts) < user.maxPosts /\ posts' = Append(posts, p)
\* Bound on the actions there are or will be.
Room == Len(rows) + Len(SelectSeq(posts, LAMBDA p : p.op = "add")) < user.maxRows

Add(type, every, wave, signal) ==
  [op |-> "add", type |-> type, signals |-> Signals, last |-> Signals - 1,
   every |-> every, wave |-> wave, signal |-> signal]

NoDialog == [step |-> "None", interval |-> "", ms |-> "zero", type |-> "Constant",
             amplitude |-> "", wave |-> "", offset |-> ""]

CreateSingle ==
  IF Messages = <<>> THEN UNCHANGED posts
  ELSE Room /\ Post(Add("Single", "none", "none", -1))

CreatePeriodic ==
  IF Messages = <<>> THEN UNCHANGED posts
  ELSE Room /\ Post(Add("Periodic", dialog.ms, "none", -1))

CreateSin(wave) ==
  IF Messages = <<>> \/ Signals = 0 THEN UNCHANGED posts
  ELSE Room /\ Post(Add("Sin", dialog.ms, wave, Least(send.sig, Signals - 1)))

-----------------------------------------------------------------------------
(* The modes, in the order in which the handler tries them.                *)

Unedited == UNCHANGED <<view, cursors, sets, rows, asked>>

\* The value of an action is being edited.
CommitAction ==
  /\ IF ~RowShown \/ text # "number" THEN UNCHANGED posts
     ELSE IF Row.type = "Sin"
     THEN Post([op |-> "update_sin_param", row |-> acts.row, at |-> acts.sig])
     ELSE IF Row.signals = 0 THEN UNCHANGED posts
     ELSE Post([op |-> "update_payload", row |-> acts.row,
                at |-> Least(acts.sig, Row.signals - 1)])
  /\ actions_editing' = FALSE /\ text' = ""

EditAction(k) ==
  /\ actions_editing
  /\ \/ k \in {"Return", "Left"} /\ CommitAction
     \/ k = "Esc" /\ actions_editing' = FALSE /\ text' = "" /\ UNCHANGED posts
     \/ k = "Back" /\ text' \in Shortened(text) /\ UNCHANGED <<actions_editing, posts>>
     \/ k \in Digits \union {"-"} /\ text' \in Edited(text, k)
        /\ UNCHANGED <<actions_editing, posts>>
  /\ Unedited /\ UNCHANGED <<send_editing, trace_searching, dialog>>

\* The dialog of a periodic action: interval, type, and three texts for a sine.
Step(s) == dialog' = [dialog EXCEPT !.step = s] /\ UNCHANGED posts
Reset == dialog' = NoDialog

EnterInterval ==
  /\ dialog.interval \in {"zero", "some"}
  /\ dialog' = [dialog EXCEPT !.ms = dialog.interval,
                  !.step = IF dialog.interval = "some" THEN "TypeSelect" ELSE "Period"]

IntervalKey(k) ==
  /\ dialog.step = "Period"
  /\ \/ k \in {"Return", "Right"} /\ EnterInterval
     \/ k = "Back" /\ \E b \in Shortened(dialog.interval) : dialog' = [dialog EXCEPT !.interval = b]
     \/ k \in Digits /\ \E b \in Natural(dialog.interval, k) : dialog' = [dialog EXCEPT !.interval = b]
  /\ UNCHANGED posts

TypeKey(k) ==
  /\ dialog.step = "TypeSelect"
  /\ \/ /\ k \in {"Left", "Right"}
        /\ dialog' = [dialog EXCEPT !.type = IF @ = "Sin" THEN "Constant" ELSE "Sin"]
        /\ UNCHANGED posts
     \/ k = "Return" /\ dialog.type = "Constant" /\ CreatePeriodic /\ Reset
     \/ k = "Return" /\ dialog.type = "Sin" /\ Step("SinAmplitude")
     \/ k = "Up" /\ Step("Period")

AmplitudeKey(k) ==
  /\ dialog.step = "SinAmplitude"
  /\ \/ k \in {"Return", "Down"} /\ Step("SinPeriod")
     \/ k = "Up" /\ Step("TypeSelect")
     \/ k = "Back" /\ \E b \in Shortened(dialog.amplitude) : dialog' = [dialog EXCEPT !.amplitude = b]
        /\ UNCHANGED posts
     \/ k \in Digits \union {"-"} /\ \E b \in Decimal(dialog.amplitude, k) :
          dialog' = [dialog EXCEPT !.amplitude = b] /\ UNCHANGED posts

WaveKey(k) ==
  /\ dialog.step = "SinPeriod"
  /\ \/ k \in {"Return", "Down"} /\ Step("SinOffset")
     \/ k = "Up" /\ Step("SinAmplitude")
     \/ k = "Back" /\ \E b \in Shortened(dialog.wave) : dialog' = [dialog EXCEPT !.wave = b]
        /\ UNCHANGED posts
     \/ k \in Digits /\ \E b \in Natural(dialog.wave, k) :
          dialog' = [dialog EXCEPT !.wave = b] /\ UNCHANGED posts

OffsetKey(k) ==
  /\ dialog.step = "SinOffset"
  /\ \/ k \in {"Return", "Down"} /\ Step("SinReady")
     \/ k = "Up" /\ Step("SinPeriod")
     \/ k = "Back" /\ \E b \in Shortened(dialog.offset) : dialog' = [dialog EXCEPT !.offset = b]
        /\ UNCHANGED posts
     \/ k \in Digits \union {"-"} /\ \E b \in Decimal(dialog.offset, k) :
          dialog' = [dialog EXCEPT !.offset = b] /\ UNCHANGED posts

\* Nothing is created of a text that does not parse or a period of zero.
StartSin ==
  IF "junk" \in {dialog.amplitude, dialog.offset} \/ dialog.wave \in {"zero", "huge"}
  THEN UNCHANGED posts
  ELSE CreateSin(IF dialog.wave = "" THEN "some" ELSE dialog.wave)

ReadyKey(k) ==
  /\ dialog.step = "SinReady"
  /\ \/ k \in {"Return", "Right"} /\ StartSin /\ Reset
     \/ k = "Up" /\ Step("SinOffset")

DialogKey(k) ==
  /\ ~actions_editing /\ dialog.step # "None"
  /\ \/ k = "Esc" /\ Reset /\ UNCHANGED posts
     \/ IntervalKey(k)
     \/ TypeKey(k)
     \/ AmplitudeKey(k)
     \/ WaveKey(k)
     \/ OffsetKey(k)
     \/ ReadyKey(k)
  /\ Unedited /\ UNCHANGED <<send_editing, actions_editing, trace_searching, text>>

\* The value of a signal is being edited; committing it changes the SendModel only.
EditSignal(k) ==
  /\ ~actions_editing /\ dialog.step = "None" /\ send_editing
  /\ \/ k \in {"Return", "Left", "Esc"} /\ send_editing' = FALSE /\ text' = ""
     \/ k = "Back" /\ text' \in Shortened(text) /\ UNCHANGED send_editing
     \/ k \in Digits \union {"-"} /\ text' \in Edited(text, k) /\ UNCHANGED send_editing
  /\ Unedited /\ UNCHANGED <<actions_editing, trace_searching, dialog, posts>>

\* The text that is searched for is not modelled: it changes only what is drawn.
Search(k) ==
  /\ ~actions_editing /\ dialog.step = "None" /\ ~send_editing /\ trace_searching
  /\ k = "Esc"
  /\ trace_searching' = FALSE
  /\ Unedited /\ UNCHANGED <<send_editing, actions_editing, text, dialog, posts>>

\* Mutant: the search is not a mode.
NoMode_Search == ~actions_editing /\ dialog.step = "None" /\ ~send_editing

NoMode == ~actions_editing /\ dialog.step = "None" /\ ~send_editing /\ ~trace_searching

-----------------------------------------------------------------------------
(* The views: what an arrow or a letter does when no mode is on.           *)

Go(level) == nav_level' = level /\ UNCHANGED main_tab
Show(tab) == main_tab' = tab /\ nav_level' = 1

Quit(k) ==
  /\ k \in {"Esc", "q"} /\ running' = FALSE
  /\ UNCHANGED <<view, cursors, modes, world>>

Shortcut(k) ==
  /\ \/ k = "t" /\ Show(0) /\ UNCHANGED trace_searching
     \/ k = "s" /\ Show(1) /\ UNCHANGED trace_searching
     \/ k = "a" /\ Show(2) /\ UNCHANGED trace_searching
     \/ k = "m" /\ user.model /\ Show(3) /\ UNCHANGED trace_searching
     \/ k = "p" /\ user.playback /\ Show(PlaybackTab) /\ UNCHANGED trace_searching
     \/ k = "f" /\ main_tab = 0 /\ trace_searching' = TRUE /\ UNCHANGED view
  /\ UNCHANGED <<running, cursors, send_editing, actions_editing, text, dialog, world>>

\* Mutant: '2' leaves the cursor where it is.
OpenDialog_Stay ==
  /\ dialog' = [dialog EXCEPT !.step = "Period", !.interval = ""]
  /\ UNCHANGED send

\* '2' moves the cursor to the button, below the signals, and opens the dialog.
OpenDialog ==
  /\ send' = IF Messages = <<>> THEN send ELSE [send EXCEPT !.sig = Signals + 1]
  /\ dialog' = [dialog EXCEPT !.step = "Period", !.interval = ""]

\* Return on a signal edits it; below are the buttons of the two kinds of action.
PressRow ==
  /\ Messages # <<>>
  /\ \/ /\ send.sig < Signals
        /\ send_editing' = TRUE /\ text' = "number" /\ UNCHANGED <<dialog, posts>>
     \/ /\ send.sig = Signals
        /\ CreateSingle /\ UNCHANGED <<send_editing, text, dialog>>
     \/ /\ send.sig > Signals
        /\ dialog' = [dialog EXCEPT !.step = "Period", !.interval = ""]
        /\ UNCHANGED <<send_editing, text, posts>>

SignalList(k) ==
  /\ nav_level = 3
  /\ \/ k = "Left" /\ Go(2) /\ UNCHANGED <<send, send_editing, text, dialog, posts>>
     \/ k \in {"Right", "Return"} /\ PressRow /\ UNCHANGED <<view, send>>
     \/ /\ k = "Up" /\ send.sig > 0
        /\ send' = [send EXCEPT !.sig = @ - 1]
        /\ UNCHANGED <<view, send_editing, text, dialog, posts>>
     \/ /\ k = "Down" /\ send.sig < (IF Messages = <<>> THEN 1 ELSE Signals + 1)
        /\ send' = [send EXCEPT !.sig = @ + 1]
        /\ UNCHANGED <<view, send_editing, text, dialog, posts>>
     \/ k = "1" /\ CreateSingle /\ UNCHANGED <<view, send, send_editing, text, dialog>>
     \/ k = "2" /\ OpenDialog /\ UNCHANGED <<view, send_editing, text, posts>>
  /\ UNCHANGED <<running, trace, acts, play, actions_editing, trace_searching, sets, rows, asked>>

\* The messages of an interface of the recording; row 0 stands for all of them.
ReplayMessages(k) ==
  /\ nav_level = 2 /\ OnPlayback
  /\ \/ k = "Left" /\ Go(1) /\ UNCHANGED <<play, asked>>
     \/ k = "Up" /\ play.msg > 0 /\ play' = [play EXCEPT !.msg = @ - 1]
        /\ UNCHANGED <<view, asked>>
     \/ k = "Down" /\ ReplayShown /\ play.msg < Replay[play.iface + 1]
        /\ play' = [play EXCEPT !.msg = @ + 1] /\ UNCHANGED <<view, asked>>
     \/ k = "Return" /\ ReplayShown
        /\ asked' = [op |-> "toggle_message", iface |-> play.iface, msg |-> play.msg]
        /\ UNCHANGED <<view, play>>
  /\ UNCHANGED <<running, send, trace, acts, modes, sets, rows, posts>>

\* A sine shows its amplitude, period and offset, another action its signals.
Parameters == IF Row.type = "Sin" THEN 3 ELSE Row.signals

ActionSignals(k) ==
  /\ nav_level = 2 /\ ~OnPlayback /\ main_tab = 2
  /\ \/ k = "Left" /\ Go(1) /\ UNCHANGED <<acts, actions_editing, text>>
     \/ /\ k \in {"Right", "Return"} /\ RowShown /\ Parameters > 0
        /\ actions_editing' = TRUE
        /\ text' = IF Row.type = "Sin" /\ acts.sig > 2 THEN text ELSE "number"
        /\ UNCHANGED <<view, acts>>
     \/ k = "Up" /\ acts.sig > 0 /\ acts' = [acts EXCEPT !.sig = @ - 1]
        /\ UNCHANGED <<view, actions_editing, text>>
     \/ k = "Down" /\ RowShown /\ acts.sig < Parameters - 1
        /\ acts' = [acts EXCEPT !.sig = @ + 1]
        /\ UNCHANGED <<view, actions_editing, text>>
  /\ UNCHANGED <<running, send, trace, play, send_editing, trace_searching, dialog, world>>

MessageList(k) ==
  /\ nav_level = 2 /\ ~OnPlayback /\ main_tab # 2
  /\ \/ k = "Left" /\ Go(1) /\ UNCHANGED send
     \/ k \in {"Right", "Return"} /\ Messages # <<>> /\ Go(3) /\ send' = [send EXCEPT !.sig = 0]
     \/ k = "Up" /\ send.msg > 0 /\ send' = [send EXCEPT !.msg = @ - 1] /\ UNCHANGED view
     \/ k = "Down" /\ send.msg + 1 < Len(Messages)
        /\ send' = [send EXCEPT !.msg = @ + 1] /\ UNCHANGED view
  /\ UNCHANGED <<running, trace, acts, play, modes, world>>

\* Return starts and pauses an interface, so that only Right opens its messages.
ReplayList(k) ==
  /\ nav_level = 1 /\ OnPlayback
  /\ \/ k = "Up" /\ play.iface > 0 /\ play' = [play EXCEPT !.iface = @ - 1]
        /\ UNCHANGED <<view, asked>>
     \/ k = "Up" /\ play.iface = 0 /\ Go(0) /\ UNCHANGED <<play, asked>>
     \/ k = "Down" /\ play.iface + 1 < Len(Replay) /\ play' = [play EXCEPT !.iface = @ + 1]
        /\ UNCHANGED <<view, asked>>
     \/ k = "Return" /\ ReplayShown
        /\ asked' = [op |-> "toggle", iface |-> play.iface, msg |-> 0]
        /\ UNCHANGED <<view, play>>
     \/ k = "Right" /\ ReplayShown /\ play' = [play EXCEPT !.msg = 0] /\ Go(2)
        /\ UNCHANGED asked
  /\ UNCHANGED <<running, send, trace, acts, modes, sets, rows, posts>>

\* Mutant: the cursor of another row's signals is kept.
EnterAction_Keep == RowShown /\ UNCHANGED acts /\ Go(2)

EnterAction == RowShown /\ acts' = [acts EXCEPT !.sig = 0] /\ Go(2)

ActionList(k) ==
  /\ nav_level = 1 /\ ~OnPlayback /\ main_tab = 2
  /\ \/ k = "Up" /\ acts.row > 0 /\ acts' = [acts EXCEPT !.row = @ - 1] /\ UNCHANGED <<view, posts>>
     \/ k = "Up" /\ acts.row = 0 /\ Go(0) /\ UNCHANGED <<acts, posts>>
     \/ k = "Down" /\ acts.row + 1 < Len(rows) /\ acts' = [acts EXCEPT !.row = @ + 1]
        /\ UNCHANGED <<view, posts>>
     \/ k \in {"Right", "Return"} /\ EnterAction /\ UNCHANGED posts
     \/ k = "space" /\ RowShown /\ Post([op |-> "toggle_pause", row |-> acts.row])
        /\ UNCHANGED <<view, acts>>
     \/ k \in {"Del", "Back"} /\ RowShown /\ Post([op |-> "remove", row |-> acts.row])
        /\ acts' = [acts EXCEPT !.row = IF @ > 0 THEN @ - 1 ELSE 0] /\ UNCHANGED view
  /\ UNCHANGED <<running, send, trace, play, modes, sets, rows, asked>>

\* The interface next to c of n, cyclically.
Beside(k, c, n) == IF k = "Right" THEN (c + 1) % n ELSE (c + n - 1) % n

\* Mutant: the step to the left does not come round.
TraceTab_NoWrap(k) ==
  /\ main_tab = 0 /\ sets # <<>>
  /\ trace' = [iface |-> IF k = "Right" THEN (trace.iface + 1) % Len(sets) ELSE trace.iface - 1,
               frame |-> 0]

TraceTab(k) ==
  /\ main_tab = 0 /\ sets # <<>>
  /\ trace' = [iface |-> Beside(k, trace.iface, Len(sets)), frame |-> 0]

\* Mutant: the message cursor of another interface is kept.
EnterMessages_Keep ==
  /\ main_tab = 1 /\ Messages # <<>>
  /\ Go(2) /\ UNCHANGED send

EnterMessages ==
  /\ main_tab = 1 /\ Messages # <<>>
  /\ send' = [send EXCEPT !.msg = 0] /\ Go(2)

\* The interfaces of Trace and Send, and what the keys do on the Model tab.
SubTabs(k) ==
  /\ nav_level = 1 /\ ~OnPlayback /\ main_tab # 2
  /\ \/ k = "Up" /\ main_tab = 0 /\ trace.frame > 0
        /\ trace' = [trace EXCEPT !.frame = @ - 1] /\ UNCHANGED <<view, send>>
     \/ k = "Up" /\ ~(main_tab = 0 /\ trace.frame > 0) /\ Go(0) /\ UNCHANGED <<trace, send>>
     \/ /\ k = "Down" /\ main_tab = 0 /\ sets # <<>>
        /\ trace.frame + 1 < sets[Least(trace.iface + 1, Len(sets))]
        /\ trace' = [trace EXCEPT !.frame = @ + 1] /\ UNCHANGED <<view, send>>
     \/ k = "Down" /\ EnterMessages /\ UNCHANGED trace
     \/ k \in {"Left", "Right"} /\ TraceTab(k) /\ UNCHANGED <<view, send>>
     \/ k \in {"Left", "Right"} /\ main_tab # 0
        /\ send' = [send EXCEPT !.iface = Beside(k, @, Len(Models))] /\ UNCHANGED <<view, trace>>
  /\ UNCHANGED <<running, acts, play, modes, world>>

MainTabs(k) ==
  /\ nav_level = 0
  /\ \/ k = "Down" /\ Go(1)
     \/ k \in {"Left", "Right"} /\ main_tab' = Beside(k, main_tab, TabCount) /\ UNCHANGED nav_level
  /\ UNCHANGED <<running, cursors, modes, world>>

Press(k) ==
  /\ running
  /\ escapes' = IF k = "Esc" THEN escapes + 1 ELSE 0
  /\ \/ (EditAction(k) \/ DialogKey(k) \/ EditSignal(k) \/ Search(k)) /\ UNCHANGED running
     \/ /\ NoMode
        /\ \/ Quit(k)
           \/ Shortcut(k)
           \/ SignalList(k)
           \/ ReplayMessages(k)
           \/ ActionSignals(k)
           \/ MessageList(k)
           \/ ReplayList(k)
           \/ ActionList(k)
           \/ SubTabs(k)
           \/ MainTabs(k)
  /\ UNCHANGED user

-----------------------------------------------------------------------------
(* What changes under the keyboard.                                        *)

Unpressed == UNCHANGED <<user, running, escapes, view, cursors, modes, asked>>

\* The asio thread runs the oldest handler; during a replay it has no work and ends.
RunPost ==
  /\ running /\ posts # <<>> /\ ~user.playback
  /\ posts' = Tail(posts)
  /\ LET p == Head(posts) IN
     rows' = CASE p.op = "add" -> Append(rows, [type |-> p.type, signals |-> p.signals])
               [] p.op = "remove" /\ p.row < Len(rows) -> RemoveAt(rows, p.row + 1)
               [] OTHER -> rows
  /\ UNCHANGED sets /\ Unpressed

\* A single action that has been sent leaves the list.
SingleLeaves ==
  /\ running
  /\ \E n \in DOMAIN rows : rows[n].type = "Single" /\ rows' = RemoveAt(rows, n)
  /\ UNCHANGED <<sets, posts>> /\ Unpressed

\* A frame: of another interface, anywhere in name order, or with another id.
Update ==
  /\ running
  /\ \/ /\ Len(sets) < user.maxFrames
        /\ \E n \in 1..Len(sets) + 1 : sets' = InsertAt(sets, n, 1)
     \/ \E n \in DOMAIN sets : sets[n] < user.maxFrames /\ sets' = [sets EXCEPT ![n] = @ + 1]
  /\ UNCHANGED <<rows, posts>> /\ Unpressed

Init ==
  /\ user \in Users
  /\ running = TRUE /\ escapes = 0
  /\ nav_level = 0 /\ main_tab = 0
  /\ send = [iface |-> 0, msg |-> 0, sig |-> 0]
  /\ trace = [iface |-> 0, frame |-> 0]
  /\ acts = [row |-> 0, sig |-> 0]
  /\ play = [iface |-> 0, msg |-> 0]
  /\ send_editing = FALSE /\ actions_editing = FALSE /\ trace_searching = FALSE
  /\ text = "" /\ dialog = NoDialog
  /\ sets = <<>> /\ rows = user.rows /\ posts = <<>>
  /\ asked = [op |-> "none", iface |-> 0, msg |-> 0]

Next ==
  \/ \E k \in user.keys : Press(k)
  \/ RunPost
  \/ SingleLeaves
  \/ Update

Spec == Init /\ [][Next]_vars

-----------------------------------------------------------------------------
(* What the UI promises.                                                   *)

\* Every cursor that is used as an index without a test is within its bounds:
\* the tab bars, the trace's interface (src/src/gui/TuiDataFrameSet.cpp:729-775).
TypeOK ==
  /\ user \in Users /\ running \in BOOLEAN /\ escapes \in Nat
  /\ nav_level \in 0..3 /\ main_tab \in 0..TabCount - 1
  /\ send \in [iface : 0..Len(Models) - 1, msg : Nat, sig : Nat]
  /\ trace \in [iface : 0..Least(Len(sets), 1) * (Len(sets) - 1), frame : Nat]
  /\ acts \in [row : Nat, sig : Nat] /\ play \in [iface : Nat, msg : Nat]
  /\ send_editing \in BOOLEAN /\ actions_editing \in BOOLEAN /\ trace_searching \in BOOLEAN
  /\ text \in Decimals
  /\ dialog \in [step : {"None", "Period", "TypeSelect", "SinAmplitude", "SinPeriod",
                         "SinOffset", "SinReady"},
                 interval : Intervals, ms : {"zero", "some"}, type : {"Constant", "Sin"},
                 amplitude : Decimals, wave : Intervals, offset : Decimals]
  /\ sets \in Seq(Nat \ {0}) /\ rows \in Seq([type : Types, signals : Nat])

\* A mode takes every key, so it may be on only where it is drawn: the dialog
\* under its button, an edit of a signal in its list and one of an action on its
\* tab, the search over the trace, and never two of them
\* (src/src/gui/TuiDataFrameSet.cpp:180-409).
ModeInView ==
  /\ send_editing => nav_level = 3 /\ main_tab = 1 /\ send.sig < Signals
  /\ dialog.step # "None" => nav_level = 3 /\ main_tab = 1 /\ send.sig = Signals + 1
  /\ actions_editing => nav_level = 2 /\ main_tab = 2
  /\ trace_searching => main_tab = 0
  /\ ~(send_editing /\ dialog.step # "None")

\* Below the tab bars of the Send and Playback tabs something is selected and it is
\* the highlighted thing: the cursors that outlive a change of interface are reset
\* before they are used (src/src/gui/TuiDataFrameSet.cpp:721-728, 603-610, 647-654).
SelectionShown ==
  /\ nav_level = 3 => main_tab = 1
  /\ nav_level = 2 => main_tab \in {1, 2} \/ OnPlayback
  /\ nav_level \in {2, 3} /\ main_tab = 1 => send.msg < Len(Messages)
  /\ nav_level = 3 => send.sig <= Signals + 1
  /\ nav_level = 2 /\ OnPlayback => ReplayShown /\ play.msg <= Replay[play.iface + 1]

\* On the Actions tab an action is open with one of its signals or parameters
\* highlighted, if it has any, until an action leaves the list: then the cursors may
\* be past what is drawn, and an edit is of the last signal there is
\* (src/src/gui/TuiDataFrameSet.cpp:571-591, 675-679, 1107, 1126, 1168).
ActionOpen == nav_level = 2 /\ main_tab = 2
ActionShown == RowShown /\ (acts.sig = 0 \/ acts.sig < Parameters)
HighlightKept ==
  [][ActionOpen' /\ (ActionOpen => ActionShown) /\ Len(rows') >= Len(rows) => ActionShown']_vars

\* Nobody is caught in a mode: the second Escape in a row at the latest leaves
\* the program (src/src/gui/TuiDataFrameSet.cpp:227, 259, 375, 395, 412).
TwoEscapesQuit == escapes <= 2 /\ (escapes = 2 => ~running)

\* No mode swallows the keyboard: it is in view, and Escape leads out.
KeysTaken == ModeInView /\ TwoEscapesQuit

\* However the dialog is walked back and forth, and whatever is deleted on the
\* way, no action is created that sends without a pause or whose sine has no
\* period (src/src/gui/TuiDataFrameSet.cpp:264-270, 336-342), and a sine always
\* drives the last signal: both ways into the dialog leave the cursor on the
\* button below the signals (src/src/gui/TuiDataFrameSet.cpp:127).
CreatedSound ==
  \A n \in DOMAIN posts : posts[n].op = "add" =>
    /\ posts[n].type # "Single" => posts[n].every = "some" /\ posts[n].wave \in {"none", "some"}
    /\ posts[n].type = "Sin" => posts[n].signal = posts[n].last

=============================================================================
