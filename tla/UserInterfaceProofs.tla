------------------------ MODULE UserInterfaceProofs ------------------------
(***************************************************************************)
(* Theorems about the user interfaces: about the keyboard of the terminal  *)
(* UI, for every DBC, every recording and every list of presets, whoever   *)
(* presses which keys; about the graphs, for every file of presets and     *)
(* every order of frames and clicks; and about what is sent, for every DBC *)
(* and every order of edits and timers.                                    *)
(*                                                                         *)
(* The properties of the keyboard hold only together: a mode is in view    *)
(* because the selection under it is there, an action is sound because its *)
(* dialog is in view, and the second Escape finds no mode on because no    *)
(* two modes have a view in common.                                        *)
(***************************************************************************)
EXTENDS UserInterfaces, SequenceLemmas

CursorType ==
  /\ nav_level \in 0..3 /\ main_tab \in 0..TabCount - 1
  /\ send \in [iface : 0..Len(Models) - 1, msg : Nat, sig : Nat]
  /\ trace \in [iface : 0..Least(Len(sets), 1) * (Len(sets) - 1), frame : Nat]
  /\ acts \in [row : Nat, sig : Nat] /\ play \in [iface : Nat, msg : Nat]

DialogType ==
  [step : {"None", "Period", "TypeSelect", "SinAmplitude", "SinPeriod", "SinOffset",
           "SinReady"},
   interval : Intervals, ms : {"zero", "some"}, type : {"Constant", "Sin"},
   amplitude : Decimals, wave : Intervals, offset : Decimals]

ModeType ==
  /\ send_editing \in BOOLEAN /\ actions_editing \in BOOLEAN /\ trace_searching \in BOOLEAN
  /\ text \in Decimals /\ dialog \in DialogType

\* What may be posted: an addition is sound already when it is posted.
Adds == [op : {"add"}, type : Types, signals : Nat, last : Int, every : {"none", "zero", "some"},
         wave : {"none", "some"}, signal : Int]
SoundAdds == {p \in Adds : /\ p.type # "Single" => p.every = "some"
                           /\ p.type = "Sin" => p.signal = p.last}
Others == [op : {"update_sin_param", "update_payload"}, row : Nat, at : Int]
            \cup [op : {"toggle_pause", "remove"}, row : Nat]
Handlers == SoundAdds \cup Others

RowType == [type : Types, signals : Nat]
WorldType ==
  /\ sets \in Seq(Nat \ {0}) /\ rows \in Seq(RowType)
  /\ posts \in Seq(Handlers)

\* Past its first question the dialog has an interval that is not zero.
DialogTimed == dialog.step \notin {"None", "Period"} => dialog.ms = "some"

\* After an Escape no mode is on.
EscapeInv ==
  /\ escapes \in Nat /\ escapes <= 2
  /\ escapes = 1 => NoMode \/ ~running
  /\ escapes = 2 => ~running

Inv ==
  /\ user \in Users /\ running \in BOOLEAN
  /\ CursorType /\ ModeType /\ WorldType
  /\ ModeInView /\ SelectionShown /\ DialogTimed /\ EscapeInv

-----------------------------------------------------------------------------
(* What the definitions stand for.                                         *)

LEMMA UserType ==
  ASSUME user \in Users
  PROVE  /\ user.keys \subseteq Keys
         /\ Models # <<>> /\ Len(Models) \in Nat \ {0} /\ DOMAIN Models = 1..Len(Models)
         /\ \A i \in DOMAIN Models : Models[i] \in Seq(Nat)
         /\ user.rows \in Seq(RowType)
         /\ TabCount \in 3..5
         /\ user.model => TabCount >= 4
         /\ user.playback => PlaybackTab \in 3..TabCount - 1
<1>1. /\ user.keys \subseteq Keys /\ user.rows \in Seq(RowType)
      /\ \A i \in DOMAIN Models : Models[i] \in Seq(Nat)
      /\ user.model \in BOOLEAN /\ user.playback \in BOOLEAN
  BY UsersAssumption DEF Models, RowType
<1>2. Models # <<>> /\ Len(Models) \in Nat \ {0} /\ DOMAIN Models = 1..Len(Models)
  BY UsersAssumption DEF Models
<1>3. /\ TabCount \in 3..5
      /\ user.model => TabCount >= 4
      /\ user.playback => PlaybackTab \in 3..TabCount - 1
  <2>1. CASE user.model
    <3>1. CASE user.playback
      BY <2>1, <3>1 DEF TabCount, PlaybackTab
    <3>2. CASE ~user.playback
      BY <2>1, <3>2 DEF TabCount, PlaybackTab
    <3>. QED  BY <3>1, <3>2
  <2>2. CASE ~user.model
    <3>1. CASE user.playback
      BY <2>2, <3>1 DEF TabCount, PlaybackTab
    <3>2. CASE ~user.playback
      BY <2>2, <3>2 DEF TabCount, PlaybackTab
    <3>. QED  BY <3>1, <3>2
  <2>. QED  BY <2>1, <2>2
<1>. QED  BY <1>1, <1>2, <1>3

\* The messages of the selected interface, and the signals of the selected message.
LEMMA SendType ==
  ASSUME user \in Users, CursorType
  PROVE  /\ Messages \in Seq(Nat) /\ Len(Messages) \in Nat
         /\ Messages # <<>> => Signals \in Nat
<1>1. Least(send.iface + 1, Len(Models)) \in DOMAIN Models
  BY UserType DEF CursorType, Least
<1>2. Messages \in Seq(Nat) /\ Len(Messages) \in Nat
  BY <1>1, UserType DEF Messages
<1>3. ASSUME Messages # <<>>
      PROVE  Signals \in Nat
  <2>1. MessageIdx + 1 \in 1..Len(Messages)
    <3>1. Len(Messages) \in Nat \ {0}
      BY <1>2, <1>3, EmptySeq
    <3>2. send.msg \in Nat
      BY DEF CursorType
    <3>. QED  BY <3>1, <3>2 DEF MessageIdx, Least
  <2>. QED  BY <1>2, <2>1 DEF Signals
<1>. QED  BY <1>2, <1>3

LEMMA SameMessages ==
  ASSUME user' = user, send'.iface = send.iface
  PROVE  Models' = Models /\ Messages' = Messages
BY DEF Models, Messages

LEMMA SameSignals ==
  ASSUME user' = user, send'.iface = send.iface, send'.msg = send.msg
  PROVE  Models' = Models /\ Messages' = Messages /\ Signals' = Signals
<1>1. Models' = Models /\ Messages' = Messages
  BY SameMessages
<1>. QED  BY <1>1 DEF MessageIdx, Signals

\* A step that moves no cursor.
LEMMA Unmoved ==
  ASSUME Inv, user' = user, UNCHANGED <<view, cursors, sets>>
  PROVE  CursorType' /\ SelectionShown'
<1>1. Models' = Models /\ Messages' = Messages /\ Signals' = Signals
  BY SameSignals DEF cursors
<1>. QED
  BY <1>1 DEF Inv, CursorType, SelectionShown, view, cursors, OnPlayback, ReplayShown,
              TabCount, PlaybackTab

\* What is posted is one of the handlers.
LEMMA PostType ==
  ASSUME posts \in Seq(Handlers), NEW p \in Handlers, Post(p)
  PROVE  posts' \in Seq(Handlers)
BY DEF Post

LEMMA RowTyped ==
  ASSUME Inv, RowShown
  PROVE  Row \in RowType
BY DEF Inv, CursorType, WorldType, RowShown, Row

-----------------------------------------------------------------------------
(* The modes.  No cursor moves, and no row changes.                        *)

\* All of the invariant that a press may disturb but for the Escapes.
Core ==
  /\ CursorType /\ ModeType /\ WorldType
  /\ ModeInView /\ SelectionShown /\ DialogTimed

LEMMA TextType ==
  ASSUME NEW k \in Keys
  PROVE  /\ \A b \in Decimals : /\ Shortened(b) \subseteq Decimals
                                /\ Edited(b, k) \subseteq Decimals
                                /\ Decimal(b, k) \subseteq Decimals
         /\ \A b \in Intervals : /\ Shortened(b) \subseteq Intervals
                                 /\ Natural(b, k) \subseteq Intervals
BY DEF Decimals, Intervals, Shortened, Edited, Decimal, Natural

LEMMA CommitPosts ==
  ASSUME Inv, CommitAction
  PROVE  posts' \in Seq(Handlers)
<1>1. posts \in Seq(Handlers) /\ acts.row \in Nat /\ acts.sig \in Nat
  BY DEF Inv, WorldType, CursorType
<1>2. CASE UNCHANGED posts
  BY <1>1, <1>2
<1>3. CASE Post([op |-> "update_sin_param", row |-> acts.row, at |-> acts.sig])
  <2>1. [op |-> "update_sin_param", row |-> acts.row, at |-> acts.sig] \in Handlers
    BY <1>1 DEF Handlers, Others
  <2>. QED  BY <1>1, <1>3, <2>1, PostType
<1>4. CASE /\ RowShown
           /\ Post([op |-> "update_payload", row |-> acts.row,
                    at |-> Least(acts.sig, Row.signals - 1)])
  <2>1. Least(acts.sig, Row.signals - 1) \in Int
    BY <1>1, <1>4, RowTyped DEF RowType, Least
  <2>2. [op |-> "update_payload", row |-> acts.row,
         at |-> Least(acts.sig, Row.signals - 1)] \in Handlers
    BY <1>1, <2>1 DEF Handlers, Others
  <2>. QED  BY <1>1, <1>4, <2>2, PostType
<1>. QED  BY <1>2, <1>3, <1>4 DEF CommitAction

LEMMA EditActionStep ==
  ASSUME Inv, user' = user, NEW k \in Keys, EditAction(k)
  PROVE  Core'
<1>1. CursorType' /\ SelectionShown'
  BY Unmoved DEF EditAction, Unedited
<1>2. posts' \in Seq(Handlers)
  BY CommitPosts DEF EditAction, Inv, WorldType
<1>3. WorldType'
  BY <1>2 DEF EditAction, Unedited, Inv, WorldType
<1>4. ModeType'
  <2>1. actions_editing' \in BOOLEAN /\ text' \in Decimals
    BY TextType DEF EditAction, CommitAction, Inv, ModeType, Decimals
  <2>. QED  BY <2>1 DEF EditAction, Inv, ModeType
<1>5. ModeInView'
  BY SameSignals DEF EditAction, Unedited, view, cursors, Inv, ModeInView
<1>6. DialogTimed'
  BY DEF EditAction, Inv, DialogTimed
<1>. QED  BY <1>1, <1>3, <1>4, <1>5, <1>6 DEF Core

LEMMA EditSignalStep ==
  ASSUME Inv, user' = user, NEW k \in Keys, EditSignal(k)
  PROVE  Core'
<1>1. CursorType' /\ SelectionShown'
  BY Unmoved DEF EditSignal, Unedited
<1>2. WorldType'
  BY DEF EditSignal, Unedited, Inv, WorldType
<1>3. ModeType'
  <2>1. send_editing' \in BOOLEAN /\ text' \in Decimals
    BY TextType DEF EditSignal, Inv, ModeType, Decimals
  <2>. QED  BY <2>1 DEF EditSignal, Inv, ModeType
<1>4. ModeInView'
  BY SameSignals DEF EditSignal, Unedited, view, cursors, Inv, ModeInView
<1>5. DialogTimed'
  BY DEF EditSignal, Inv, DialogTimed
<1>. QED  BY <1>1, <1>2, <1>3, <1>4, <1>5 DEF Core

LEMMA SearchStep ==
  ASSUME Inv, user' = user, NEW k \in Keys, Search(k)
  PROVE  Core'
<1>1. CursorType' /\ SelectionShown'
  BY Unmoved DEF Search, Unedited
<1>2. WorldType' /\ ModeType' /\ DialogTimed'
  BY DEF Search, Unedited, Inv, WorldType, ModeType, DialogTimed
<1>3. ModeInView'
  BY SameSignals DEF Search, Unedited, view, cursors, Inv, ModeInView
<1>. QED  BY <1>1, <1>2, <1>3 DEF Core

\* The dialog: what each of its keys makes of its texts ...
LEMMA DialogTexts ==
  ASSUME Inv, NEW k \in Keys, DialogKey(k)
  PROVE  dialog' \in DialogType /\ DialogTimed'
<1>1. dialog \in DialogType /\ (dialog.step \notin {"None", "Period"} => dialog.ms = "some")
  BY DEF Inv, ModeType, DialogTimed
<1>. USE DEF DialogTimed
<1>2. ASSUME Reset  PROVE dialog' \in DialogType /\ DialogTimed'
  BY <1>2 DEF Reset, NoDialog, DialogType, Decimals, Intervals
<1>3. CASE IntervalKey(k)
  <2>1. CASE EnterInterval
    BY <1>1, <2>1 DEF EnterInterval, DialogType, Intervals
  <2>2. CASE \E b \in Intervals : dialog.step = "Period"
                                    /\ dialog' = [dialog EXCEPT !.interval = b]
    BY <1>1, <2>2 DEF DialogType
  <2>3. dialog.interval \in Intervals
    BY <1>1 DEF DialogType
  <2>. QED  BY <1>3, <2>1, <2>2, <2>3, TextType DEF IntervalKey
<1>4. CASE TypeKey(k)
  BY <1>1, <1>2, <1>4 DEF TypeKey, Step, DialogType
<1>5. CASE AmplitudeKey(k)
  <2>1. CASE \E b \in Decimals : dialog.step = "SinAmplitude"
                                   /\ dialog' = [dialog EXCEPT !.amplitude = b]
    BY <1>1, <2>1 DEF DialogType
  <2>2. CASE \E s \in {"TypeSelect", "SinPeriod"} : dialog.step = "SinAmplitude" /\ Step(s)
    BY <1>1, <2>2 DEF Step, DialogType
  <2>3. dialog.amplitude \in Decimals
    BY <1>1 DEF DialogType
  <2>. QED  BY <1>5, <2>1, <2>2, <2>3, TextType DEF AmplitudeKey
<1>6. CASE WaveKey(k)
  <2>1. CASE \E b \in Intervals : dialog.step = "SinPeriod"
                                    /\ dialog' = [dialog EXCEPT !.wave = b]
    BY <1>1, <2>1 DEF DialogType
  <2>2. CASE \E s \in {"SinAmplitude", "SinOffset"} : dialog.step = "SinPeriod" /\ Step(s)
    BY <1>1, <2>2 DEF Step, DialogType
  <2>3. dialog.wave \in Intervals
    BY <1>1 DEF DialogType
  <2>. QED  BY <1>6, <2>1, <2>2, <2>3, TextType DEF WaveKey
<1>7. CASE OffsetKey(k)
  <2>1. CASE \E b \in Decimals : dialog.step = "SinOffset"
                                   /\ dialog' = [dialog EXCEPT !.offset = b]
    BY <1>1, <2>1 DEF DialogType
  <2>2. CASE \E s \in {"SinPeriod", "SinReady"} : dialog.step = "SinOffset" /\ Step(s)
    BY <1>1, <2>2 DEF Step, DialogType
  <2>3. dialog.offset \in Decimals
    BY <1>1 DEF DialogType
  <2>. QED  BY <1>7, <2>1, <2>2, <2>3, TextType DEF OffsetKey
<1>8. CASE ReadyKey(k)
  BY <1>1, <1>2, <1>8 DEF ReadyKey, Step, DialogType
<1>. QED  BY <1>2, <1>3, <1>4, <1>5, <1>6, <1>7, <1>8 DEF DialogKey

\* ... and what it posts: by then it has an interval that is not zero, and the
\* cursor is on its button, so that a sine is of the last signal.
LEMMA DialogPosts ==
  ASSUME Inv, NEW k \in Keys, DialogKey(k)
  PROVE  posts' \in Seq(Handlers)
<1>1. /\ posts \in Seq(Handlers) /\ dialog \in DialogType /\ send.sig \in Nat
      /\ Messages # <<>> => Signals \in Nat
      /\ dialog.step # "None" => send.sig = Signals + 1
      /\ dialog.step \notin {"None", "Period"} => dialog.ms = "some"
  BY SendType DEF Inv, WorldType, ModeType, CursorType, ModeInView, DialogTimed
<1>2. ASSUME dialog.ms = "some", CreatePeriodic
      PROVE  posts' \in Seq(Handlers)
  <2>1. CASE Messages = <<>>
    BY <1>1, <1>2, <2>1 DEF CreatePeriodic
  <2>2. CASE Messages # <<>>
    <3>1. Add("Periodic", "some", "none", -1) \in Handlers
      BY <1>1, <2>2 DEF Add, Handlers, SoundAdds, Adds, Types
    <3>2. Post(Add("Periodic", "some", "none", -1))
      BY <1>2, <2>2 DEF CreatePeriodic
    <3>. QED  BY <1>1, <3>1, <3>2, PostType
  <2>. QED  BY <2>1, <2>2
<1>3. ASSUME dialog.ms = "some", dialog.step # "None", StartSin
      PROVE  posts' \in Seq(Handlers)
  <2>1. CASE UNCHANGED posts
    BY <1>1, <2>1
  <2>2. ASSUME NEW w \in {"none", "some"}, CreateSin(w)
        PROVE  posts' \in Seq(Handlers)
    <3>1. CASE Messages = <<>> \/ Signals = 0
      BY <1>1, <2>2, <3>1 DEF CreateSin
    <3>2. CASE Messages # <<>> /\ Signals # 0
      <4>1. Least(send.sig, Signals - 1) = Signals - 1
        BY <1>1, <1>3, <3>2 DEF Least
      <4>2. Add("Sin", "some", w, Signals - 1) \in Handlers
        BY <1>1, <2>2, <3>2 DEF Add, Handlers, SoundAdds, Adds, Types
      <4>3. Post(Add("Sin", "some", w, Signals - 1))
        BY <1>3, <2>2, <3>2, <4>1 DEF CreateSin
      <4>. QED  BY <1>1, <4>2, <4>3, PostType
    <3>. QED  BY <3>1, <3>2
  <2>3. dialog.wave \in Intervals
    BY <1>1 DEF DialogType
  <2>. QED  BY <1>3, <2>1, <2>2, <2>3 DEF StartSin, Intervals
<1>4. CASE UNCHANGED posts
  BY <1>1, <1>4
<1>5. CASE TypeKey(k)
  BY <1>1, <1>2, <1>4, <1>5 DEF TypeKey, Step
<1>6. CASE ReadyKey(k)
  BY <1>1, <1>3, <1>4, <1>6 DEF ReadyKey, Step
<1>7. CASE IntervalKey(k) \/ AmplitudeKey(k) \/ WaveKey(k) \/ OffsetKey(k)
  BY <1>4, <1>7 DEF IntervalKey, AmplitudeKey, WaveKey, OffsetKey, Step
<1>. QED  BY <1>4, <1>5, <1>6, <1>7 DEF DialogKey

LEMMA DialogStep ==
  ASSUME Inv, user' = user, NEW k \in Keys, DialogKey(k)
  PROVE  Core'
<1>1. CursorType' /\ SelectionShown'
  BY Unmoved DEF DialogKey, Unedited
<1>2. WorldType'
  BY DialogPosts DEF DialogKey, Unedited, Inv, WorldType
<1>3. ModeType' /\ DialogTimed'
  BY DialogTexts DEF DialogKey, Inv, ModeType
<1>4. ModeInView'
  BY SameSignals DEF DialogKey, Unedited, view, cursors, Inv, ModeInView
<1>. QED  BY <1>1, <1>2, <1>3, <1>4 DEF Core

-----------------------------------------------------------------------------
(* The views: no mode is on.                                               *)

\* A step that moves cursors, if at all, and turns no mode on.
LEMMA Modeless ==
  ASSUME Inv, user' = user, NoMode, UNCHANGED modes
  PROVE  ModeType' /\ ModeInView' /\ DialogTimed'
BY DEF Inv, NoMode, modes, ModeType, ModeInView, DialogTimed

LEMMA Worldless ==
  ASSUME Inv, UNCHANGED <<sets, rows, posts>>
  PROVE  WorldType'
BY DEF Inv, WorldType

LEMMA QuitStep ==
  ASSUME Inv, user' = user, NEW k \in Keys, NoMode, Quit(k)
  PROVE  Core'
<1>1. CursorType' /\ SelectionShown'
  BY Unmoved DEF Quit, world
<1>2. WorldType' /\ ModeType' /\ ModeInView' /\ DialogTimed'
  BY Modeless, Worldless DEF Quit, world
<1>. QED  BY <1>1, <1>2 DEF Core

LEMMA ShortcutStep ==
  ASSUME Inv, user' = user, NEW k \in Keys, NoMode, Shortcut(k)
  PROVE  Core'
<1>. nav_level \in 0..3 /\ main_tab \in 0..TabCount - 1 /\ TabCount \in 3..5
  BY UserType DEF Inv, CursorType
<1>1. \/ nav_level' = 1 /\ main_tab' \in 0..TabCount - 1
      \/ main_tab = 0 /\ UNCHANGED view
  <2>1. CASE k = "m" /\ user.model /\ Show(3)
    BY <2>1, UserType DEF Show, Inv
  <2>2. CASE k = "p" /\ user.playback /\ Show(PlaybackTab)
    BY <2>2, UserType DEF Show, Inv
  <2>3. CASE \E tab \in 0..2 : Show(tab)
    BY <2>3 DEF Show
  <2>4. CASE main_tab = 0 /\ UNCHANGED view
    BY <2>4
  <2>. QED  BY <2>1, <2>2, <2>3, <2>4 DEF Shortcut
<1>2. /\ Models' = Models /\ Messages' = Messages /\ Signals' = Signals
      /\ TabCount' = TabCount /\ PlaybackTab' = PlaybackTab
  BY SameSignals DEF Shortcut, cursors, TabCount, PlaybackTab
<1>3. CursorType'
  <2>1. nav_level' \in 0..3 /\ main_tab' \in 0..TabCount' - 1
    BY <1>1, <1>2 DEF view
  <2>. QED  BY <1>2, <2>1 DEF Inv, CursorType, Shortcut, cursors, world
<1>4. SelectionShown'
  <2>1. CASE nav_level' = 1
    BY <2>1 DEF SelectionShown
  <2>2. CASE UNCHANGED view
    BY <1>2, <2>2, Unmoved DEF Shortcut, world
  <2>. QED  BY <1>1, <2>1, <2>2
<1>5. ModeType' /\ DialogTimed'
  BY DEF Inv, ModeType, DialogTimed, Shortcut
<1>6. ModeInView'
  BY DEF Inv, NoMode, ModeInView, Shortcut, Show, view
<1>7. WorldType'
  BY Worldless DEF Shortcut, world
<1>. QED  BY <1>3, <1>4, <1>5, <1>6, <1>7 DEF Core

\* In the list of signals something can be sent.
LEMMA SignalsShown ==
  ASSUME Inv, nav_level = 3
  PROVE  /\ main_tab = 1 /\ ~OnPlayback
         /\ Messages # <<>> /\ Signals \in Nat /\ send.msg < Len(Messages)
         /\ send.sig \in Nat /\ send.sig <= Signals + 1
<1>1. main_tab = 1 /\ send.msg < Len(Messages) /\ send.msg \in Nat
      /\ send.sig \in Nat /\ send.sig <= Signals + 1
  BY DEF Inv, SelectionShown, CursorType
<1>2. ~OnPlayback
  BY <1>1, UserType DEF Inv, OnPlayback
<1>3. Messages # <<>>
  BY <1>1, EmptySeq
<1>. QED  BY <1>1, <1>2, <1>3, SendType DEF Inv

LEMMA SinglePosts ==
  ASSUME Inv, nav_level = 3, CreateSingle
  PROVE  posts' \in Seq(Handlers)
<1>1. Add("Single", "none", "none", -1) \in Handlers
  BY SignalsShown DEF Add, Handlers, SoundAdds, Adds, Types
<1>. QED  BY <1>1, SignalsShown, PostType DEF CreateSingle, Inv, WorldType

\* A move of the third cursor of the Send tab, within the rows of the message.
LEMMA SignalMoved ==
  ASSUME Inv, user' = user, UNCHANGED <<view, trace, acts, play, sets>>, nav_level = 3,
         NEW n \in Nat, n <= Signals + 1, send' = [send EXCEPT !.sig = n]
  PROVE  CursorType' /\ SelectionShown' /\ Signals' = Signals /\ send'.sig = n
<1>1. send \in [iface : 0..Len(Models) - 1, msg : Nat, sig : Nat]
  BY DEF Inv, CursorType
<1>2. send'.iface = send.iface /\ send'.msg = send.msg /\ send'.sig = n
  BY <1>1
<1>3. /\ Models' = Models /\ Messages' = Messages /\ Signals' = Signals
      /\ TabCount' = TabCount
  BY <1>2, SameSignals DEF TabCount
<1>4. CursorType'
  <2>1. send' \in [iface : 0..Len(Models) - 1, msg : Nat, sig : Nat]
    BY <1>1
  <2>. QED  BY <1>3, <2>1 DEF Inv, CursorType, view
<1>5. SelectionShown'
  <2>1. nav_level' = 3 /\ main_tab' = 1 /\ send'.msg < Len(Messages') /\ send'.sig <= Signals' + 1
    BY <1>2, <1>3, SignalsShown DEF view
  <2>. QED  BY <2>1 DEF SelectionShown
<1>. QED  BY <1>2, <1>3, <1>4, <1>5

LEMMA DialogOpened ==
  ASSUME Inv, dialog' = [dialog EXCEPT !.step = "Period", !.interval = ""]
  PROVE  dialog' \in DialogType /\ dialog'.step = "Period"
BY DEF Inv, ModeType, DialogType, Intervals

LEMMA SignalListStep ==
  ASSUME Inv, user' = user, NEW k \in Keys, NoMode, SignalList(k)
  PROVE  Core'
<1>1. nav_level = 3 /\ UNCHANGED <<trace, acts, play, sets, rows, actions_editing, trace_searching>>
  BY DEF SignalList
<1>2. CASE k = "Left" /\ Go(2) /\ UNCHANGED <<send, send_editing, text, dialog, posts>>
  <2>1. UNCHANGED modes
    BY <1>1, <1>2 DEF modes
  <2>2. WorldType' /\ ModeType' /\ ModeInView' /\ DialogTimed'
    BY <1>1, <1>2, <2>1, Modeless, Worldless
  <2>3. /\ Models' = Models /\ Messages' = Messages /\ Signals' = Signals
        /\ TabCount' = TabCount /\ OnPlayback' = OnPlayback
    BY <1>2, SameSignals DEF TabCount, OnPlayback, PlaybackTab, Go
  <2>4. CursorType' /\ SelectionShown'
    BY <1>1, <1>2, <2>3, SignalsShown DEF Inv, CursorType, SelectionShown, Go
  <2>. QED  BY <2>2, <2>4 DEF Core
<1>3. CASE PressRow /\ UNCHANGED <<view, send>>
  <2>1. CursorType' /\ SelectionShown'
    BY <1>1, <1>3, Unmoved DEF cursors
  <2>2. CASE send.sig < Signals /\ send_editing' = TRUE /\ text' = "number" /\ UNCHANGED <<dialog, posts>>
    <3>1. ModeType' /\ DialogTimed' /\ WorldType'
      BY <1>1, <2>2 DEF Inv, ModeType, Decimals, DialogTimed, WorldType
    <3>2. ModeInView'
      BY <1>1, <1>3, <2>2, SameSignals, SignalsShown DEF NoMode, ModeInView, view
    <3>. QED  BY <2>1, <3>1, <3>2 DEF Core
  <2>3. CASE CreateSingle /\ UNCHANGED <<send_editing, text, dialog>>
    <3>1. ModeType' /\ DialogTimed' /\ ModeInView'
      BY <1>1, <2>3, Modeless DEF modes
    <3>2. WorldType'
      BY <1>1, <2>3, SinglePosts DEF Inv, WorldType
    <3>. QED  BY <2>1, <3>1, <3>2 DEF Core
  <2>4. CASE send.sig > Signals /\ dialog' = [dialog EXCEPT !.step = "Period", !.interval = ""]
             /\ UNCHANGED <<send_editing, text, posts>>
    <3>1. ModeType' /\ DialogTimed' /\ WorldType'
      BY <1>1, <2>4, DialogOpened DEF Inv, ModeType, DialogTimed, WorldType
    <3>2. ModeInView'
      BY <1>1, <1>3, <2>4, SameSignals, SignalsShown DEF NoMode, ModeInView, view
    <3>. QED  BY <2>1, <3>1, <3>2 DEF Core
  <2>. QED  BY <1>3, <2>2, <2>3, <2>4 DEF PressRow
<1>4. CASE \E n \in Nat : /\ n <= Signals + 1 /\ send' = [send EXCEPT !.sig = n]
                          /\ UNCHANGED <<view, send_editing, text, dialog, posts>>
  <2>1. CursorType' /\ SelectionShown'
    BY <1>1, <1>4, SignalMoved
  <2>2. UNCHANGED modes
    BY <1>1, <1>4 DEF modes
  <2>3. WorldType' /\ ModeType' /\ ModeInView' /\ DialogTimed'
    BY <1>1, <1>4, <2>2, Modeless, Worldless
  <2>. QED  BY <2>1, <2>3 DEF Core
<1>5. CASE CreateSingle /\ UNCHANGED <<view, send, send_editing, text, dialog>>
  <2>1. CursorType' /\ SelectionShown'
    BY <1>1, <1>5, Unmoved DEF cursors
  <2>2. ModeType' /\ DialogTimed' /\ ModeInView'
    BY <1>1, <1>5, Modeless DEF modes
  <2>3. WorldType'
    BY <1>1, <1>5, SinglePosts DEF Inv, WorldType
  <2>. QED  BY <2>1, <2>2, <2>3 DEF Core
<1>6. CASE OpenDialog /\ UNCHANGED <<view, send_editing, text, posts>>
  <2>1. Signals + 1 \in Nat /\ send' = [send EXCEPT !.sig = Signals + 1]
    BY <1>1, <1>6, SignalsShown DEF OpenDialog
  <2>2. CursorType' /\ SelectionShown' /\ send'.sig = Signals' + 1
    BY <1>1, <1>6, <2>1, SignalMoved
  <2>3. ModeType' /\ DialogTimed' /\ WorldType'
    BY <1>1, <1>6, DialogOpened DEF OpenDialog, Inv, ModeType, DialogTimed, WorldType
  <2>4. ModeInView'
    BY <1>1, <1>6, <2>2, SignalsShown DEF NoMode, ModeInView, view
  <2>. QED  BY <2>2, <2>3, <2>4 DEF Core
<1>. QED
  <2>1. ASSUME send.sig > 0, send' = [send EXCEPT !.sig = @ - 1]
        PROVE  \E n \in Nat : n <= Signals + 1 /\ send' = [send EXCEPT !.sig = n]
    <3>1. send.sig - 1 \in Nat /\ send.sig - 1 <= Signals + 1
      BY <1>1, <2>1, SignalsShown
    <3>2. send' = [send EXCEPT !.sig = send.sig - 1]
      BY <2>1
    <3>. QED  BY <3>1, <3>2
  <2>2. ASSUME send.sig < (IF Messages = <<>> THEN 1 ELSE Signals + 1),
               send' = [send EXCEPT !.sig = @ + 1]
        PROVE  \E n \in Nat : n <= Signals + 1 /\ send' = [send EXCEPT !.sig = n]
    <3>1. send.sig + 1 \in Nat /\ send.sig + 1 <= Signals + 1
      BY <1>1, <2>2, SignalsShown
    <3>2. send' = [send EXCEPT !.sig = send.sig + 1]
      BY <2>2
    <3>. QED  BY <3>1, <3>2
  <2>. QED  BY <1>2, <1>3, <1>4, <1>5, <1>6, <2>1, <2>2 DEF SignalList

\* Away from the list of signals the send cursors may move, but not over messages
\* that are listed.
LEMMA SameTabs ==
  ASSUME user' = user
  PROVE  Models' = Models /\ TabCount' = TabCount /\ PlaybackTab' = PlaybackTab
BY DEF Models, TabCount, PlaybackTab

LEMMA ReplayMessagesStep ==
  ASSUME Inv, user' = user, NEW k \in Keys, NoMode, ReplayMessages(k)
  PROVE  Core'
<1>1. /\ nav_level = 2 /\ OnPlayback /\ main_tab' = main_tab /\ OnPlayback'
      /\ UNCHANGED <<send, trace, acts, modes, sets, rows, posts>>
      /\ main_tab >= 3 /\ main_tab \in 0..TabCount - 1
  BY SameTabs, UserType DEF ReplayMessages, OnPlayback, Inv, CursorType, Go, view
<1>2. ReplayShown /\ play \in [iface : Nat, msg : Nat] /\ play.msg <= Replay[play.iface + 1]
      /\ Replay[play.iface + 1] \in Nat
  <2>1. ReplayShown /\ play.msg <= Replay[play.iface + 1]
    BY <1>1 DEF Inv, SelectionShown
  <2>2. play \in [iface : Nat, msg : Nat]
    BY DEF Inv, CursorType
  <2>3. Replay[play.iface + 1] \in Nat
    BY <2>1, <2>2, ReplayAssumption DEF ReplayShown
  <2>. QED  BY <2>1, <2>2, <2>3
<1>3. WorldType' /\ ModeType' /\ ModeInView' /\ DialogTimed'
  BY <1>1, Modeless, Worldless
<1>4. CASE Go(1) /\ UNCHANGED play
  BY <1>1, <1>3, <1>4, SameTabs DEF Go, Core, Inv, CursorType, SelectionShown
<1>5. ASSUME UNCHANGED view, NEW n \in Nat, n <= Replay[play.iface + 1],
             play' = [play EXCEPT !.msg = n]
      PROVE  Core'
  <2>1. play' \in [iface : Nat, msg : Nat] /\ play'.iface = play.iface /\ play'.msg = n
    BY <1>2, <1>5
  <2>2. CursorType'
    BY <1>1, <1>5, <2>1, SameTabs DEF Inv, CursorType, view
  <2>3. SelectionShown'
    BY <1>1, <1>2, <1>5, <2>1 DEF SelectionShown, view, ReplayShown
  <2>. QED  BY <1>3, <2>2, <2>3 DEF Core
<1>6. CASE UNCHANGED <<view, play>>
  BY <1>1, <1>3, <1>6, Unmoved DEF cursors, Core
<1>7. CASE UNCHANGED view /\ play.msg > 0 /\ play' = [play EXCEPT !.msg = @ - 1]
  <2>1. play.msg - 1 \in Nat /\ play.msg - 1 <= Replay[play.iface + 1]
    BY <1>2, <1>7
  <2>2. play' = [play EXCEPT !.msg = play.msg - 1]
    BY <1>7
  <2>. QED  BY <1>5, <1>7, <2>1, <2>2
<1>8. CASE UNCHANGED view /\ play.msg < Replay[play.iface + 1] /\ play' = [play EXCEPT !.msg = @ + 1]
  <2>1. play.msg + 1 \in Nat /\ play.msg + 1 <= Replay[play.iface + 1]
    BY <1>2, <1>8
  <2>2. play' = [play EXCEPT !.msg = play.msg + 1]
    BY <1>8
  <2>. QED  BY <1>5, <1>8, <2>1, <2>2
<1>. QED  BY <1>4, <1>6, <1>7, <1>8 DEF ReplayMessages

LEMMA ActionSignalsStep ==
  ASSUME Inv, user' = user, NEW k \in Keys, NoMode, ActionSignals(k)
  PROVE  Core'
<1>1. /\ nav_level = 2 /\ main_tab = 2 /\ main_tab' = 2 /\ nav_level' \in 1..2
      /\ UNCHANGED <<send, trace, play, send_editing, trace_searching, dialog, sets, rows, posts>>
  BY DEF ActionSignals, Go, view, world
<1>2. acts \in [row : Nat, sig : Nat]
  BY DEF Inv, CursorType
<1>3. acts' \in [row : Nat, sig : Nat]
  BY <1>2 DEF ActionSignals
<1>4. CursorType'
  BY <1>1, <1>3, SameTabs DEF Inv, CursorType
<1>5. SelectionShown'
  <2>1. ~OnPlayback'
    BY <1>1, SameTabs, UserType DEF OnPlayback, Inv
  <2>. QED  BY <1>1, <2>1 DEF SelectionShown
<1>6. ModeType' /\ DialogTimed' /\ WorldType'
  BY <1>1 DEF Inv, ModeType, DialogTimed, WorldType, ActionSignals, Decimals
<1>7. ModeInView'
  BY <1>1 DEF ActionSignals, NoMode, ModeInView, view
<1>. QED  BY <1>4, <1>5, <1>6, <1>7 DEF Core

LEMMA MessageListStep ==
  ASSUME Inv, user' = user, NEW k \in Keys, NoMode, MessageList(k)
  PROVE  Core'
<1>1. /\ nav_level = 2 /\ main_tab = 1 /\ main_tab' = 1 /\ ~OnPlayback'
      /\ UNCHANGED <<trace, acts, play, modes, sets, rows, posts>>
  BY SameTabs, UserType DEF MessageList, Inv, SelectionShown, Go, view, world, OnPlayback
<1>2. /\ send \in [iface : 0..Len(Models) - 1, msg : Nat, sig : Nat]
      /\ send.msg < Len(Messages) /\ Len(Messages) \in Nat
      /\ Messages # <<>> => Signals \in Nat
  BY <1>1, SendType DEF Inv, CursorType, SelectionShown
<1>3. WorldType' /\ ModeType' /\ ModeInView' /\ DialogTimed'
  BY <1>1, Modeless, Worldless
<1>4. ASSUME send' \in [iface : 0..Len(Models) - 1, msg : Nat, sig : Nat],
             send'.iface = send.iface, send'.msg < Len(Messages),
             nav_level' \in 1..3,
             nav_level' = 3 => send'.sig = 0 /\ send'.msg = send.msg
      PROVE  Core'
  <2>1. CursorType'
    BY <1>1, <1>4, SameTabs, UserType DEF Inv, CursorType
  <2>2. Messages' = Messages /\ (nav_level' = 3 => Signals' = Signals /\ Messages # <<>>)
    BY <1>2, <1>4, SameMessages, SameSignals, EmptySeq
  <2>3. SelectionShown'
    BY <1>1, <1>2, <1>4, <2>2 DEF SelectionShown
  <2>. QED  BY <1>3, <2>1, <2>3 DEF Core
<1>5. CASE Go(1) /\ UNCHANGED send
  BY <1>2, <1>4, <1>5 DEF Go
<1>6. CASE Go(3) /\ send' = [send EXCEPT !.sig = 0]
  BY <1>2, <1>4, <1>6 DEF Go
<1>7. CASE UNCHANGED view /\ send.msg > 0 /\ send' = [send EXCEPT !.msg = @ - 1]
  BY <1>1, <1>2, <1>4, <1>7 DEF view
<1>8. CASE UNCHANGED view /\ send.msg + 1 < Len(Messages) /\ send' = [send EXCEPT !.msg = @ + 1]
  BY <1>1, <1>2, <1>4, <1>8 DEF view
<1>. QED  BY <1>5, <1>6, <1>7, <1>8 DEF MessageList

LEMMA ReplayListStep ==
  ASSUME Inv, user' = user, NEW k \in Keys, NoMode, ReplayList(k)
  PROVE  Core'
<1>1. /\ nav_level = 1 /\ OnPlayback /\ main_tab' = main_tab /\ OnPlayback'
      /\ UNCHANGED <<send, trace, acts, modes, sets, rows, posts>>
      /\ main_tab >= 3 /\ main_tab \in 0..TabCount - 1
  BY SameTabs, UserType DEF ReplayList, OnPlayback, Inv, CursorType, Go, view
<1>2. play \in [iface : Nat, msg : Nat]
  BY DEF Inv, CursorType
<1>3. WorldType' /\ ModeType' /\ ModeInView' /\ DialogTimed'
  BY <1>1, Modeless, Worldless
<1>4. ASSUME play' \in [iface : Nat, msg : Nat], nav_level' \in 0..2,
             nav_level' = 2 => ReplayShown' /\ play'.msg <= Replay[play'.iface + 1]
      PROVE  Core'
  <2>1. CursorType'
    BY <1>1, <1>4, SameTabs DEF Inv, CursorType
  <2>2. SelectionShown'
    BY <1>1, <1>4 DEF SelectionShown
  <2>. QED  BY <1>3, <2>1, <2>2 DEF Core
<1>5. CASE play' \in [iface : Nat, msg : Nat] /\ nav_level' \in 0..1
  BY <1>4, <1>5
<1>6. CASE ReplayShown /\ play' = [play EXCEPT !.msg = 0] /\ Go(2)
  <2>1. play' \in [iface : Nat, msg : Nat] /\ play'.msg = 0 /\ ReplayShown'
    BY <1>2, <1>6 DEF ReplayShown
  <2>2. Replay[play'.iface + 1] \in Nat
    BY <2>1, ReplayAssumption DEF ReplayShown
  <2>. QED  BY <1>4, <1>6, <2>1, <2>2 DEF Go
<1>7. \/ play' = play
      \/ play.iface > 0 /\ play' = [play EXCEPT !.iface = @ - 1]
      \/ play' = [play EXCEPT !.iface = @ + 1]
      \/ ReplayShown /\ play' = [play EXCEPT !.msg = 0] /\ Go(2)
  BY DEF ReplayList
<1>8. \/ play' \in [iface : Nat, msg : Nat]
      \/ ReplayShown /\ play' = [play EXCEPT !.msg = 0] /\ Go(2)
  BY <1>2, <1>7
<1>9. \/ nav_level' \in 0..1
      \/ ReplayShown /\ play' = [play EXCEPT !.msg = 0] /\ Go(2)
  BY <1>1 DEF ReplayList, Go, view
<1>. QED  BY <1>5, <1>6, <1>8, <1>9

LEMMA ActionListStep ==
  ASSUME Inv, user' = user, NEW k \in Keys, NoMode, ActionList(k)
  PROVE  Core'
<1>1. /\ nav_level = 1 /\ main_tab = 2 /\ main_tab' = 2 /\ nav_level' \in 0..2
      /\ UNCHANGED <<send, trace, play, modes, sets, rows>>
  BY DEF ActionList, EnterAction, Go, view
<1>2. acts \in [row : Nat, sig : Nat] /\ posts \in Seq(Handlers)
  BY DEF Inv, CursorType, WorldType
<1>3. acts' \in [row : Nat, sig : Nat]
  BY <1>2 DEF ActionList, EnterAction
<1>4. CursorType'
  BY <1>1, <1>3, SameTabs DEF Inv, CursorType
<1>5. SelectionShown'
  <2>1. ~OnPlayback'
    BY <1>1, SameTabs, UserType DEF OnPlayback, Inv
  <2>. QED  BY <1>1, <2>1 DEF SelectionShown
<1>6. ModeType' /\ ModeInView' /\ DialogTimed'
  BY <1>1, Modeless
<1>7. WorldType'
  <2>1. posts' \in Seq(Handlers)
    <3>1. CASE \E o \in {"toggle_pause", "remove"} : Post([op |-> o, row |-> acts.row])
      <4>1. PICK o \in {"toggle_pause", "remove"} : Post([op |-> o, row |-> acts.row])
        BY <3>1
      <4>2. [op |-> o, row |-> acts.row] \in Handlers
        BY <1>2 DEF Handlers, Others
      <4>. QED  BY <1>2, <4>1, <4>2, PostType
    <3>2. CASE UNCHANGED posts
      BY <1>2, <3>2
    <3>. QED  BY <3>1, <3>2 DEF ActionList
  <2>. QED  BY <1>1, <2>1 DEF Inv, WorldType
<1>. QED  BY <1>4, <1>5, <1>6, <1>7 DEF Core

LEMMA BesideType ==
  ASSUME NEW k, NEW n \in Nat \ {0}, NEW c \in 0..n - 1
  PROVE  Beside(k, c, n) \in 0..n - 1
<1>1. \A m \in Nat : m % n \in 0..n - 1
  OBVIOUS
<1>2. c + 1 \in Nat /\ c + n - 1 \in Nat
  OBVIOUS
<1>. QED  BY <1>1, <1>2 DEF Beside

LEMMA SubTabsStep ==
  ASSUME Inv, user' = user, NEW k \in Keys, NoMode, SubTabs(k)
  PROVE  Core'
<1>1. /\ nav_level = 1 /\ ~OnPlayback /\ ~OnPlayback' /\ main_tab' = main_tab
      /\ UNCHANGED <<acts, play, modes, sets, rows, posts>>
  BY SameTabs DEF SubTabs, OnPlayback, Go, view, world, EnterMessages
<1>2. /\ send \in [iface : 0..Len(Models) - 1, msg : Nat, sig : Nat]
      /\ trace \in [iface : 0..Least(Len(sets), 1) * (Len(sets) - 1), frame : Nat]
      /\ Len(sets) \in Nat
  BY DEF Inv, CursorType, WorldType
<1>3. WorldType' /\ ModeType' /\ ModeInView' /\ DialogTimed'
  BY <1>1, Modeless, Worldless
<1>4. ASSUME send' \in [iface : 0..Len(Models) - 1, msg : Nat, sig : Nat],
             trace' \in [iface : 0..Least(Len(sets), 1) * (Len(sets) - 1), frame : Nat],
             nav_level' \in 0..2,
             nav_level' = 2 => main_tab = 1 /\ send'.msg < Len(Messages')
      PROVE  Core'
  <2>1. CursorType'
    BY <1>1, <1>4, SameTabs DEF Inv, CursorType
  <2>2. SelectionShown'
    BY <1>1, <1>4 DEF SelectionShown
  <2>. QED  BY <1>3, <2>1, <2>2 DEF Core
<1>5. CASE nav_level' \in 0..1 /\ UNCHANGED send /\ trace' = [trace EXCEPT !.frame = @ + 1]
  <2>1. trace' \in [iface : 0..Least(Len(sets), 1) * (Len(sets) - 1), frame : Nat]
    BY <1>2, <1>5
  <2>. QED  BY <1>2, <1>4, <1>5, <2>1
<1>6. CASE /\ nav_level' \in 0..1 /\ UNCHANGED send
           /\ trace.frame > 0 /\ trace' = [trace EXCEPT !.frame = @ - 1]
  <2>1. trace' \in [iface : 0..Least(Len(sets), 1) * (Len(sets) - 1), frame : Nat]
    BY <1>2, <1>6
  <2>. QED  BY <1>2, <1>4, <1>6, <2>1
<1>7. CASE nav_level' \in 0..1 /\ UNCHANGED <<send, trace>>
  BY <1>2, <1>4, <1>7
<1>8. CASE EnterMessages /\ UNCHANGED trace
  <2>1. /\ send' \in [iface : 0..Len(Models) - 1, msg : Nat, sig : Nat]
        /\ send'.iface = send.iface /\ send'.msg = 0 /\ nav_level' = 2 /\ main_tab = 1
    BY <1>2, <1>8 DEF EnterMessages, Go
  <2>2. Messages' = Messages /\ Messages # <<>> /\ Messages \in Seq(Nat)
    BY <1>8, <2>1, SameMessages, SendType DEF EnterMessages, Inv
  <2>3. 0 < Len(Messages')
    BY <2>2, EmptySeq
  <2>. QED  BY <1>2, <1>4, <1>8, <2>1, <2>3
<1>9. CASE nav_level' \in 0..1 /\ TraceTab(k) /\ UNCHANGED send
  <2>1. Len(sets) \in Nat \ {0}
    BY <1>2, <1>9, EmptySeq DEF TraceTab, Inv, WorldType
  <2>2. Least(Len(sets), 1) = 1
    BY <2>1 DEF Least
  <2>3. Least(Len(sets), 1) * (Len(sets) - 1) = Len(sets) - 1
    <3>1. 1 * (Len(sets) - 1) = Len(sets) - 1
      BY <2>1
    <3>. QED  BY <2>2, <3>1
  <2>4. Beside(k, trace.iface, Len(sets)) \in 0..Len(sets) - 1
    <3>1. trace.iface \in 0..Len(sets) - 1
      <4>1. trace.iface \in 0..Least(Len(sets), 1) * (Len(sets) - 1)
        BY <1>2
      <4>. QED  BY <2>3, <4>1
    <3>. QED  BY <2>1, <3>1, BesideType
  <2>5. trace' \in [iface : 0..Least(Len(sets), 1) * (Len(sets) - 1), frame : Nat]
    BY <1>9, <2>3, <2>4 DEF TraceTab
  <2>. QED  BY <1>2, <1>4, <1>9, <2>5
<1>10. CASE /\ nav_level' \in 0..1 /\ UNCHANGED trace
            /\ send' = [send EXCEPT !.iface = Beside(k, @, Len(Models))]
  <2>1. Beside(k, send.iface, Len(Models)) \in 0..Len(Models) - 1
    BY <1>2, BesideType, UserType DEF Inv
  <2>2. send' \in [iface : 0..Len(Models) - 1, msg : Nat, sig : Nat]
    BY <1>2, <1>10, <2>1
  <2>. QED  BY <1>2, <1>4, <1>10, <2>2
<1>. QED  BY <1>1, <1>5, <1>6, <1>7, <1>8, <1>9, <1>10 DEF SubTabs, Go, view

LEMMA MainTabsStep ==
  ASSUME Inv, user' = user, NEW k \in Keys, NoMode, MainTabs(k)
  PROVE  Core'
<1>1. nav_level' \in 0..1 /\ UNCHANGED <<cursors, modes, world>>
  BY DEF MainTabs, Go
<1>2. main_tab' \in 0..TabCount - 1
  <2>1. TabCount \in 3..5
    BY UserType DEF Inv
  <2>2. TabCount \in Nat \ {0}
    BY <2>1
  <2>3. main_tab \in 0..TabCount - 1
    BY DEF Inv, CursorType
  <2>. QED  BY <2>2, <2>3, BesideType DEF MainTabs, Go
<1>3. CursorType'
  BY <1>1, <1>2, SameTabs DEF Inv, CursorType, cursors, world
<1>4. SelectionShown'
  BY <1>1 DEF SelectionShown
<1>5. WorldType' /\ ModeType' /\ ModeInView' /\ DialogTimed'
  BY <1>1, Modeless, Worldless DEF world
<1>. QED  BY <1>3, <1>4, <1>5 DEF Core

-----------------------------------------------------------------------------
(* A press as a whole.                                                     *)

LEMMA PressStep ==
  ASSUME Inv, user' = user, NEW k \in Keys, Press(k)
  PROVE  Core' /\ running' \in BOOLEAN
<1>1. running' \in BOOLEAN
  BY DEF Press, Inv, Quit, Shortcut, SignalList, ReplayMessages, ActionSignals, MessageList,
         ReplayList, ActionList, SubTabs, MainTabs
<1>2. Core'
  BY EditActionStep, DialogStep, EditSignalStep, SearchStep, QuitStep, ShortcutStep,
     SignalListStep, ReplayMessagesStep, ActionSignalsStep, MessageListStep, ReplayListStep,
     ActionListStep, SubTabsStep, MainTabsStep DEF Press
<1>. QED  BY <1>1, <1>2

\* Escape leads out of whatever mode is on, and there is no second one under it,
\* for no two modes have a view in common; with no mode on it leaves the program.
LEMMA EscapeLeads ==
  ASSUME Inv, Press("Esc")
  PROVE  \/ ~NoMode /\ NoMode' /\ running'
         \/ NoMode /\ ~running'
<1>1. CASE NoMode
  <2>1. Quit("Esc")
    <3>1. ~Shortcut("Esc") /\ ~SignalList("Esc") /\ ~ReplayMessages("Esc")
      BY DEF Shortcut, SignalList, ReplayMessages
    <3>2. ~ActionSignals("Esc") /\ ~MessageList("Esc") /\ ~ReplayList("Esc")
      BY DEF ActionSignals, MessageList, ReplayList
    <3>3. ~ActionList("Esc") /\ ~SubTabs("Esc") /\ ~MainTabs("Esc")
      BY DEF ActionList, SubTabs, MainTabs
    <3>4. ~EditAction("Esc") /\ ~DialogKey("Esc") /\ ~EditSignal("Esc") /\ ~Search("Esc")
      BY <1>1 DEF NoMode, EditAction, DialogKey, EditSignal, Search
    <3>. QED  BY <3>1, <3>2, <3>3, <3>4 DEF Press
  <2>. QED  BY <1>1, <2>1 DEF Quit
<1>2. CASE ~NoMode
  <2>1. running' /\ (EditAction("Esc") \/ DialogKey("Esc") \/ EditSignal("Esc") \/ Search("Esc"))
    BY <1>2 DEF Press
  <2>2. /\ ModeInView /\ nav_level \in Int /\ main_tab \in Int
        /\ send_editing \in BOOLEAN /\ actions_editing \in BOOLEAN /\ trace_searching \in BOOLEAN
    BY UserType DEF Inv, CursorType, ModeType
  <2>3. ASSUME EditAction("Esc")
        PROVE  NoMode'
    <3>1. actions_editing
      BY <2>3 DEF EditAction
    <3>2. nav_level = 2 /\ main_tab = 2
      BY <2>2, <3>1 DEF ModeInView
    <3>3. ~send_editing
      BY <2>2, <3>2 DEF ModeInView
    <3>4. ~trace_searching
      BY <2>2, <3>2 DEF ModeInView
    <3>5. dialog.step = "None"
      BY <2>2, <3>2 DEF ModeInView
    <3>6. ~actions_editing' /\ UNCHANGED <<send_editing, trace_searching, dialog>>
      BY <2>3 DEF EditAction, Digits
    <3>. QED  BY <3>3, <3>4, <3>5, <3>6 DEF NoMode
  <2>4. ASSUME DialogKey("Esc")
        PROVE  NoMode'
    <3>1. ~actions_editing /\ dialog.step # "None"
      BY <2>4 DEF DialogKey
    <3>2. main_tab = 1
      BY <2>2, <3>1 DEF ModeInView
    <3>3. ~send_editing
      BY <2>2, <3>1 DEF ModeInView
    <3>4. ~trace_searching
      BY <2>2, <3>2 DEF ModeInView
    <3>5. dialog'.step = "None"
      <4>1. ~IntervalKey("Esc") /\ ~TypeKey("Esc") /\ ~AmplitudeKey("Esc")
        BY DEF IntervalKey, TypeKey, AmplitudeKey, Digits
      <4>2. ~WaveKey("Esc") /\ ~OffsetKey("Esc") /\ ~ReadyKey("Esc")
        BY DEF WaveKey, OffsetKey, ReadyKey, Digits
      <4>3. Reset
        BY <2>4, <4>1, <4>2, Zenon DEF DialogKey
      <4>4. NoDialog.step = "None"
        BY DEF NoDialog
      <4>. QED  BY <4>3, <4>4 DEF Reset
    <3>6. UNCHANGED <<send_editing, actions_editing, trace_searching>>
      BY <2>4 DEF DialogKey
    <3>. QED  BY <3>1, <3>3, <3>4, <3>5, <3>6 DEF NoMode
  <2>5. ASSUME EditSignal("Esc")
        PROVE  NoMode'
    <3>1. ~actions_editing /\ dialog.step = "None" /\ send_editing
      BY <2>5 DEF EditSignal
    <3>2. main_tab = 1
      BY <2>2, <3>1 DEF ModeInView
    <3>3. ~trace_searching
      BY <2>2, <3>2 DEF ModeInView
    <3>4. ~send_editing' /\ UNCHANGED <<actions_editing, trace_searching, dialog>>
      BY <2>5 DEF EditSignal, Digits
    <3>. QED  BY <3>1, <3>3, <3>4 DEF NoMode
  <2>6. Search("Esc") => NoMode'
    BY DEF Search, NoMode
  <2>. QED  BY <1>2, <2>1, <2>3, <2>4, <2>5, <2>6
<1>. QED  BY <1>1, <1>2

LEMMA EscapeStep ==
  ASSUME Inv, NEW k \in Keys, Press(k)
  PROVE  EscapeInv'
<1>1. CASE k # "Esc"
  <2>1. escapes' = 0
    BY <1>1 DEF Press
  <2>. QED  BY <2>1 DEF EscapeInv
<1>2. CASE k = "Esc"
  <2>1. running /\ escapes' = escapes + 1
    BY <1>2 DEF Press
  <2>2. escapes \in Nat /\ escapes <= 1 /\ (escapes = 1 => NoMode)
    BY <2>1 DEF Inv, EscapeInv
  <2>3. escapes = 0 \/ escapes = 1
    BY <2>2
  <2>4. CASE ~NoMode /\ NoMode' /\ running'
    <3>1. escapes' = 1
      BY <2>1, <2>2, <2>3, <2>4
    <3>. QED  BY <2>4, <3>1 DEF EscapeInv
  <2>5. CASE ~running'
    BY <2>1, <2>3, <2>5 DEF EscapeInv
  <2>. QED  BY <1>2, <2>4, <2>5, EscapeLeads
<1>. QED  BY <1>1, <1>2

-----------------------------------------------------------------------------
(* What changes under the keyboard.                                        *)

\* A step that leaves the keyboard alone: only the lists may change, and the list
\* of interfaces only grows.
LEMMA Untouched ==
  ASSUME Inv, Unpressed, WorldType', Len(sets) <= Len(sets')
  PROVE  Inv'
<1>1. /\ Models' = Models /\ Messages' = Messages /\ Signals' = Signals
      /\ TabCount' = TabCount /\ PlaybackTab' = PlaybackTab
  BY SameSignals, SameTabs DEF Unpressed, cursors
<1>2. trace' \in [iface : 0..Least(Len(sets'), 1) * (Len(sets') - 1), frame : Nat]
  <2>. DEFINE last(n) == Least(n, 1) * (n - 1)
  <2>1. /\ trace \in [iface : 0..last(Len(sets)), frame : Nat] /\ trace' = trace
        /\ Len(sets) \in Nat /\ Len(sets') \in Nat
    <3>1. trace \in [iface : 0..last(Len(sets)), frame : Nat]
      BY DEF Inv, CursorType
    <3>2. trace' = trace
      BY DEF Unpressed, cursors
    <3>3. Len(sets) \in Nat /\ Len(sets') \in Nat
      BY LenProperties DEF Inv, WorldType
    <3>. QED  BY <3>1, <3>2, <3>3, Zenon
  <2>2. \A n \in Nat : last(n) = IF n = 0 THEN 0 ELSE n - 1
    <3>1. last(0) = 0
      BY DEF Least
    <3>2. ASSUME NEW n \in Nat \ {0}
          PROVE  last(n) = n - 1
      <4>1. Least(n, 1) = 1 /\ 1 * (n - 1) = n - 1
        BY DEF Least
      <4>. QED  BY <4>1
    <3>. QED  BY <3>1, <3>2
  <2>3. last(Len(sets)) \in Nat /\ last(Len(sets')) \in Nat /\ last(Len(sets)) <= last(Len(sets'))
    <3>. HIDE DEF last
    <3>1. \A m, n \in Nat : m <= n => last(m) \in Nat /\ last(n) \in Nat /\ last(m) <= last(n)
      BY <2>2
    <3>. QED  BY <2>1, <3>1
  <2>4. 0..last(Len(sets)) \subseteq 0..last(Len(sets'))
    <3>. HIDE DEF last
    <3>. QED  BY <2>3
  <2>. HIDE DEF last
  <2>5. trace' \in [iface : 0..last(Len(sets')), frame : Nat]
    BY <2>1, <2>4
  <2>. QED  BY <2>5 DEF last
<1>3. CursorType'
  BY <1>1, <1>2 DEF Inv, CursorType, Unpressed, view, cursors
<1>4. ModeType' /\ DialogTimed'
  BY DEF Inv, ModeType, DialogTimed, Unpressed, modes
<1>5. ModeInView'
  BY <1>1 DEF Inv, ModeInView, Unpressed, view, cursors, modes
<1>6. SelectionShown'
  BY <1>1 DEF Inv, SelectionShown, OnPlayback, ReplayShown, Unpressed, view, cursors
<1>7. EscapeInv'
  BY DEF Inv, EscapeInv, NoMode, Unpressed, modes
<1>. QED  BY <1>3, <1>4, <1>5, <1>6, <1>7 DEF Inv, Unpressed

LEMMA RemoveAtType ==
  ASSUME NEW S, NEW s \in Seq(S), NEW i \in DOMAIN s
  PROVE  RemoveAt(s, i) \in Seq(S)
<1>1. i \in 1..Len(s) /\ Len(s) \in Nat /\ \A j \in 1..Len(s) : s[j] \in S
  BY LenProperties
<1>2. SubSeq(s, 1, i - 1) \in Seq(S) /\ SubSeq(s, i + 1, Len(s)) \in Seq(S)
  BY <1>1, SubSeqProperties
<1>. QED  BY <1>2, ConcatProperties DEF RemoveAt

LEMMA InsertAtType ==
  ASSUME NEW S, NEW s \in Seq(S), NEW i \in 1..Len(s) + 1, NEW e \in S
  PROVE  InsertAt(s, i, e) \in Seq(S) /\ Len(InsertAt(s, i, e)) = Len(s) + 1
<1>1. Len(s) \in Nat /\ \A j \in 1..Len(s) : s[j] \in S
  BY LenProperties
<1>2. /\ SubSeq(s, 1, i - 1) \in Seq(S) /\ Len(SubSeq(s, 1, i - 1)) = i - 1
      /\ SubSeq(s, i, Len(s)) \in Seq(S) /\ Len(SubSeq(s, i, Len(s))) = Len(s) - i + 1
  BY <1>1, SubSeqProperties
<1>3. <<e>> \in Seq(S) /\ Len(<<e>>) = 1
  OBVIOUS
<1>4. /\ SubSeq(s, 1, i - 1) \o <<e>> \in Seq(S)
      /\ Len(SubSeq(s, 1, i - 1) \o <<e>>) = i
  BY <1>2, <1>3, ConcatProperties
<1>5. /\ InsertAt(s, i, e) \in Seq(S)
      /\ Len(InsertAt(s, i, e)) = i + Len(SubSeq(s, i, Len(s)))
  <2>. DEFINE a == SubSeq(s, 1, i - 1) \o <<e>>
              b == SubSeq(s, i, Len(s))
  <2>1. a \in Seq(S) /\ b \in Seq(S) /\ Len(a) = i
    BY <1>2, <1>4
  <2>. HIDE DEF a, b
  <2>2. a \o b \in Seq(S) /\ Len(a \o b) = Len(a) + Len(b)
    BY <2>1, ConcatProperties
  <2>. QED  BY <2>1, <2>2 DEF InsertAt, a, b
<1>. QED  BY <1>1, <1>2, <1>5

LEMMA RunPostStep == Inv /\ RunPost => Inv'
<1>. SUFFICES ASSUME Inv, RunPost  PROVE Inv'
  OBVIOUS
<1>1. posts \in Seq(Handlers) /\ posts # <<>> /\ rows \in Seq(RowType) /\ Len(sets) \in Nat
  BY DEF RunPost, Inv, WorldType
<1>2. Head(posts) \in Handlers /\ Tail(posts) \in Seq(Handlers)
  BY <1>1, HeadTailProperties
<1>3. rows' \in Seq(RowType)
  <2>1. CASE Head(posts).op = "add"
    <3>1. [type |-> Head(posts).type, signals |-> Head(posts).signals] \in RowType
      BY <1>2, <2>1 DEF Handlers, SoundAdds, Adds, Others, RowType
    <3>2. rows' = Append(rows, [type |-> Head(posts).type, signals |-> Head(posts).signals])
      BY <2>1 DEF RunPost
    <3>. QED  BY <1>1, <3>1, <3>2
  <2>2. CASE Head(posts).op = "remove" /\ Head(posts).row < Len(rows)
    <3>1. Head(posts).row + 1 \in DOMAIN rows
      <4>1. Head(posts).row \in Nat
        BY <1>2, <2>2 DEF Handlers, SoundAdds, Adds, Others
      <4>. QED  BY <1>1, <2>2, <4>1
    <3>2. rows' = RemoveAt(rows, Head(posts).row + 1)
      BY <2>2 DEF RunPost
    <3>. QED  BY <1>1, <3>1, <3>2, RemoveAtType
  <2>3. CASE /\ Head(posts).op # "add"
             /\ ~(Head(posts).op = "remove" /\ Head(posts).row < Len(rows))
    BY <1>1, <2>3 DEF RunPost
  <2>. QED  BY <2>1, <2>2, <2>3
<1>4. WorldType'
  BY <1>2, <1>3 DEF RunPost, Inv, WorldType
<1>. QED  BY <1>1, <1>4, Untouched DEF RunPost

LEMMA SingleLeavesStep == Inv /\ SingleLeaves => Inv'
<1>. SUFFICES ASSUME Inv, SingleLeaves  PROVE Inv'
  OBVIOUS
<1>1. rows \in Seq(RowType) /\ Len(sets) \in Nat
  BY DEF Inv, WorldType
<1>2. rows' \in Seq(RowType)
  BY <1>1, RemoveAtType DEF SingleLeaves
<1>3. WorldType'
  BY <1>2 DEF SingleLeaves, Inv, WorldType
<1>. QED  BY <1>1, <1>3, Untouched DEF SingleLeaves

LEMMA UpdateStep == Inv /\ Update => Inv'
<1>. SUFFICES ASSUME Inv, Update  PROVE Inv'
  OBVIOUS
<1>1. sets \in Seq(Nat \ {0}) /\ Len(sets) \in Nat
  BY DEF Inv, WorldType
<1>2. sets' \in Seq(Nat \ {0}) /\ Len(sets) <= Len(sets')
  <2>1. ASSUME NEW n \in 1..Len(sets) + 1, sets' = InsertAt(sets, n, 1)
        PROVE  sets' \in Seq(Nat \ {0}) /\ Len(sets) <= Len(sets')
    <3>1. 1 \in Nat \ {0}
      OBVIOUS
    <3>2. InsertAt(sets, n, 1) \in Seq(Nat \ {0}) /\ Len(InsertAt(sets, n, 1)) = Len(sets) + 1
      BY <1>1, <2>1, <3>1, InsertAtType
    <3>. QED  BY <1>1, <2>1, <3>2
  <2>2. ASSUME NEW n \in DOMAIN sets, sets' = [sets EXCEPT ![n] = @ + 1]
        PROVE  sets' \in Seq(Nat \ {0}) /\ Len(sets) <= Len(sets')
    <3>1. n \in 1..Len(sets) /\ sets[n] + 1 \in Nat \ {0}
      BY <1>1, LenProperties
    <3>2. sets' = [sets EXCEPT ![n] = sets[n] + 1]
      BY <2>2
    <3>. QED  BY <1>1, <3>1, <3>2, ExceptSeq
  <2>. QED  BY <2>1, <2>2 DEF Update
<1>3. WorldType'
  BY <1>2 DEF Update, Inv, WorldType
<1>. QED  BY <1>2, <1>3, Untouched DEF Update

-----------------------------------------------------------------------------
(* The theorems.                                                           *)

LEMMA InitInv == Init => Inv
<1>. SUFFICES ASSUME Init  PROVE Inv
  OBVIOUS
<1>1. user \in Users /\ Len(Models) \in Nat \ {0} /\ TabCount \in 3..5 /\ rows \in Seq(RowType)
  BY UserType DEF Init
<1>2. CursorType
  <2>1. Len(sets) = 0
    BY EmptySeq DEF Init
  <2>2. Least(Len(sets), 1) * (Len(sets) - 1) = 0
    BY <2>1 DEF Least
  <2>3. trace \in [iface : {0}, frame : Nat]
    BY DEF Init
  <2>4. 0..Least(Len(sets), 1) * (Len(sets) - 1) = {0}
    BY <2>2
  <2>5. trace \in [iface : 0..Least(Len(sets), 1) * (Len(sets) - 1), frame : Nat]
    BY <2>3, <2>4
  <2>6. /\ send = [iface |-> 0, msg |-> 0, sig |-> 0] /\ nav_level = 0 /\ main_tab = 0
        /\ acts = [row |-> 0, sig |-> 0] /\ play = [iface |-> 0, msg |-> 0]
    BY DEF Init
  <2>7. /\ send \in [iface : 0..Len(Models) - 1, msg : Nat, sig : Nat]
        /\ acts \in [row : Nat, sig : Nat] /\ play \in [iface : Nat, msg : Nat]
        /\ nav_level \in 0..3 /\ main_tab \in 0..TabCount - 1
    BY <1>1, <2>6
  <2>. QED  BY <2>5, <2>7 DEF CursorType
<1>3. ModeType
  <2>1. NoDialog \in DialogType
    BY DEF NoDialog, DialogType, Decimals, Intervals
  <2>. QED  BY <2>1 DEF Init, ModeType, Decimals
<1>4. ModeInView /\ SelectionShown /\ DialogTimed
  <2>1. dialog.step = "None" /\ nav_level = 0 /\ main_tab = 0
    BY DEF Init, NoDialog
  <2>2. ~send_editing /\ ~actions_editing /\ ~trace_searching
    BY DEF Init
  <2>3. ModeInView
    BY <2>1, <2>2, Zenon DEF ModeInView
  <2>4. SelectionShown
    BY <2>1 DEF SelectionShown
  <2>5. DialogTimed
    BY <2>1 DEF DialogTimed
  <2>. QED  BY <2>3, <2>4, <2>5
<1>5. WorldType
  BY <1>1, EmptySeq DEF Init, WorldType
<1>6. EscapeInv
  <2>1. escapes = 0
    BY DEF Init
  <2>. QED  BY <2>1 DEF EscapeInv
<1>. QED  BY <1>1, <1>2, <1>3, <1>4, <1>5, <1>6 DEF Init, Inv

LEMMA NextInv == Inv /\ [Next]_vars => Inv'
<1>. SUFFICES ASSUME Inv, [Next]_vars  PROVE Inv'
  OBVIOUS
<1>1. ASSUME NEW k \in user.keys, Press(k)
      PROVE  Inv'
  <2>1. k \in Keys /\ user' = user
    BY <1>1, UserType DEF Inv, Press
  <2>. QED  BY <1>1, <2>1, PressStep, EscapeStep DEF Inv, Core
<1>2. CASE UNCHANGED vars
  <2>1. WorldType' /\ Unpressed /\ Len(sets) <= Len(sets')
    BY <1>2 DEF Inv, WorldType, Unpressed, vars, world
  <2>. QED  BY <2>1, Untouched
<1>. QED  BY <1>1, <1>2, RunPostStep, SingleLeavesStep, UpdateStep DEF Next

LEMMA InvHolds == Spec => []Inv
BY InitInv, NextInv, PTL DEF Spec

-----------------------------------------------------------------------------
(* The graphs.                                                             *)

Numbers == [n \in 1..Len(received) |-> n]
FedFrom(s) == {n \in 1..Len(received) : /\ n > s.since /\ received[n].from = s.from
                                        /\ s.name \in received[n].signals}

\* The last m elements.
LastOf(s, m) == SubSeq(s, Len(s) - m + 1, Len(s))

\* A curve is the end of what came since it was added, all of it until it is full.
Drawn(s) ==
  /\ s.since <= Len(received)
  /\ Len(s.points) <= Len(Fed(s)) /\ Len(s.points) <= MaxPoints
  /\ s.points = LastOf(Fed(s), Len(s.points))
  /\ Len(s.points) = Len(Fed(s)) \/ Len(s.points) = MaxPoints

\* Every signal once.
Once(graph) ==
  \A i, j \in DOMAIN graph :
    graph[i].from = graph[j].from /\ graph[i].name = graph[j].name => i = j

Graphed(graph) == Once(graph) /\ \A i \in DOMAIN graph : Drawn(graph[i])

GraphInv == GraphTypeOK /\ \A t \in DOMAIN tabs : Graphed(tabs[t])

LEMMA FedDef == \A s : Fed(s) = Filter(Numbers, FedFrom(s))
BY DEF Fed, Numbers, FedFrom

LEMMA NumbersType ==
  ASSUME NEW n \in Nat
  PROVE  [k \in 1..n |-> k] \in Seq(Nat) /\ Len([k \in 1..n |-> k]) = n
OBVIOUS

LEMMA FedType ==
  ASSUME received \in Seq(Arrivals), NEW s
  PROVE  Fed(s) \in Seq(Nat)
<1>1. Len(received) \in Nat
  BY LenProperties
<1>2. Numbers \in Seq(Nat)
  BY <1>1, NumbersType DEF Numbers
<1>. QED  BY <1>2, FilterSeq, FedDef

\* A series that is added now has been fed nothing.
LEMMA FedNothing ==
  ASSUME received \in Seq(Arrivals), NEW s, s.since = Len(received)
  PROVE  Fed(s) = <<>>
<1>1. Len(received) \in Nat
  BY LenProperties
<1>. DEFINE T == 1..Len(received)
<1>2. Numbers \in Seq(T)
  BY <1>1 DEF Numbers
<1>3. T \cap FedFrom(s) = {}
  BY <1>1 DEF FedFrom
<1>4. Filter(Numbers, FedFrom(s)) = <<>>
  <2>. HIDE DEF T
  <2>. QED  BY <1>2, <1>3, FilterNone
<1>. QED  BY <1>4, FedDef

\* One more frame.
LEMMA FedMore ==
  ASSUME received \in Seq(Arrivals), NEW f \in Arrivals, received' = Append(received, f),
         NEW s, s.since \in Nat, s.since <= Len(received)
  PROVE  Fed(s)' = IF s.from = f.from /\ s.name \in f.signals
                     THEN Append(Fed(s), Len(received) + 1) ELSE Fed(s)
<1>. DEFINE n == Len(received)
            S == FedFrom(s)
            S1 == FedFrom(s)'
<1>1. n \in Nat /\ Len(received') = n + 1
  BY LenProperties, AppendProperties
<1>2. Numbers \in Seq(Nat) /\ Len(Numbers) = n
  BY <1>1, NumbersType DEF Numbers
<1>3. Numbers' = Append(Numbers, n + 1)
  BY <1>1 DEF Numbers
<1>4. Fed(s)' = Filter(Numbers', S1) /\ Fed(s) = Filter(Numbers, S)
  <2>1. Fed(s)' = Filter(Numbers', S1)
    BY DEF Fed, Numbers, FedFrom
  <2>. QED  BY <2>1, FedDef
<1>5. \A k \in 1..n : received'[k] = received[k]
  BY <1>1, AppendProperties
<1>6. received'[n+1] = f
  BY <1>1, AppendProperties
<1>7. n + 1 \in S1 <=> s.from = f.from /\ s.name \in f.signals
  BY <1>1, <1>6 DEF FedFrom
<1>8. \A k \in 1..Len(Numbers) : Numbers[k] \in S1 <=> Numbers[k] \in S
  BY <1>1, <1>2, <1>5 DEF FedFrom, Numbers
<1>. HIDE DEF S, S1, n
<1>9. Filter(Numbers, S1) = Filter(Numbers, S)
  BY <1>2, <1>8, FilterAgree
<1>10. n + 1 \in Nat
  BY <1>1
<1>11. Filter(Append(Numbers, n + 1), S1)
         = IF n + 1 \in S1 THEN Append(Filter(Numbers, S1), n + 1) ELSE Filter(Numbers, S1)
  <2>. DEFINE N == Numbers
              x == n + 1
  <2>1. N \in Seq(Nat) /\ x \in Nat
    BY <1>2, <1>10
  <2>. HIDE DEF N, x
  <2>2. Filter(Append(N, x), S1) = IF x \in S1 THEN Append(Filter(N, S1), x) ELSE Filter(N, S1)
    BY <2>1, FilterAppend
  <2>. QED  BY <2>2 DEF N, x
<1>. QED  BY <1>3, <1>4, <1>7, <1>9, <1>11 DEF n

-----------------------------------------------------------------------------
LEMMA SubSeqEnd ==
  ASSUME NEW T, NEW s \in Seq(T), NEW m \in 0..Len(s)
  PROVE  /\ LastOf(s, m) \in Seq(T) /\ Len(LastOf(s, m)) = m
         /\ \A k \in 1..m : LastOf(s, m)[k] = s[Len(s) - m + k]
<1>1. Len(s) \in Nat
  BY LenProperties
<1>. QED  BY <1>1 DEF LastOf

\* What is pushed to the end of a sequence is the end of the longer one.
LEMMA PushEnd ==
  ASSUME NEW s \in Seq(Nat), NEW p \in Seq(Nat), NEW v \in Nat,
         Len(p) <= Len(s), Len(p) <= MaxPoints, p = LastOf(s, Len(p)),
         Len(p) = Len(s) \/ Len(p) = MaxPoints
  PROVE  /\ Push(p, v) \in Seq(Nat)
         /\ Len(Push(p, v)) <= Len(Append(s, v)) /\ Len(Push(p, v)) <= MaxPoints
         /\ Push(p, v) = LastOf(Append(s, v), Len(Push(p, v)))
         /\ Len(Push(p, v)) = Len(Append(s, v)) \/ Len(Push(p, v)) = MaxPoints
<1>. DEFINE q == Push(p, v)
            t == Append(s, v)
            a == Append(p, v)
<1>1. /\ Len(s) \in Nat /\ Len(p) \in Nat /\ Len(p) \in 0..Len(s)
      /\ MaxPoints \in Nat /\ MaxPoints # 0
  BY LenProperties, GraphAssumption
<1>2. /\ t \in Seq(Nat) /\ Len(t) = Len(s) + 1 /\ t[Len(s) + 1] = v
      /\ \A k \in 1..Len(s) : t[k] = s[k]
  BY AppendProperties
<1>3. /\ a \in Seq(Nat) /\ Len(a) = Len(p) + 1 /\ a[Len(p) + 1] = v
      /\ \A k \in 1..Len(p) : a[k] = p[k]
  BY AppendProperties
<1>4. \A k \in 1..Len(p) : p[k] = s[Len(s) - Len(p) + k]
  <2>. DEFINE r == LastOf(s, Len(p))
  <2>1. \A k \in 1..Len(p) : r[k] = s[Len(s) - Len(p) + k]
    BY <1>1, SubSeqEnd
  <2>2. p = r
    OBVIOUS
  <2>. HIDE DEF r
  <2>. QED  BY <2>1, <2>2
<1>. HIDE DEF t, a
<1>5. \A k \in 1..Len(a) : a[k] = t[Len(t) - Len(a) + k]
  <2>. SUFFICES ASSUME NEW k \in 1..Len(a)
                PROVE  a[k] = t[Len(t) - Len(a) + k]
    OBVIOUS
  <2>1. Len(t) - Len(a) + k = Len(s) - Len(p) + k
    BY <1>1, <1>2, <1>3
  <2>2. CASE k = Len(p) + 1
    BY <1>1, <1>2, <1>3, <2>1, <2>2
  <2>3. CASE k \in 1..Len(p)
    <3>1. Len(s) - Len(p) + k \in 1..Len(s)
      BY <1>1, <2>3
    <3>. QED  BY <1>2, <1>3, <1>4, <2>1, <2>3, <3>1
  <2>. QED  BY <1>1, <1>3, <2>2, <2>3
<1>6. q = IF Len(a) > MaxPoints THEN Tail(a) ELSE a
  BY DEF Push, a
<1>7. a # <<>>
  BY <1>1, <1>3, EmptySeq
<1>8. /\ Tail(a) \in Seq(Nat) /\ Len(Tail(a)) = Len(a) - 1
      /\ \A k \in 1..Len(Tail(a)) : Tail(a)[k] = a[k+1]
  BY <1>3, <1>7, HeadTailProperties
<1>. HIDE DEF q
<1>9. /\ q \in Seq(Nat) /\ Len(q) <= Len(t) /\ Len(q) <= MaxPoints
      /\ Len(q) = Len(t) \/ Len(q) = MaxPoints
  <2>1. CASE Len(a) > MaxPoints
    <3>1. q = Tail(a)
      BY <1>6, <2>1
    <3>2. Len(q) = Len(p) /\ q \in Seq(Nat)
      BY <1>1, <1>3, <1>8, <3>1
    <3>3. Len(p) = MaxPoints
      BY <1>1, <1>3, <2>1
    <3>. QED  BY <1>1, <1>2, <3>2, <3>3
  <2>2. CASE ~(Len(a) > MaxPoints)
    <3>1. q = a
      BY <1>6, <2>2
    <3>2. Len(a) <= Len(t) /\ (Len(a) = Len(t) \/ Len(a) = MaxPoints)
      BY <1>1, <1>2, <1>3, <2>2
    <3>. QED  BY <1>1, <1>3, <2>2, <3>1, <3>2
  <2>. QED  BY <2>1, <2>2
<1>10. \A k \in 1..Len(q) : q[k] = t[Len(t) - Len(q) + k]
  <2>1. CASE Len(a) > MaxPoints
    <3>. SUFFICES ASSUME NEW k \in 1..Len(q)
                  PROVE  q[k] = t[Len(t) - Len(q) + k]
      OBVIOUS
    <3>1. k \in 1..Len(Tail(a)) /\ Len(q) = Len(a) - 1 /\ q[k] = a[k+1]
      BY <1>6, <1>8, <2>1
    <3>2. k + 1 \in 1..Len(a)
      BY <1>1, <1>3, <1>8, <3>1
    <3>3. Len(t) - Len(q) + k = Len(t) - Len(a) + (k + 1)
      BY <1>1, <1>2, <1>3, <3>1
    <3>. QED  BY <1>5, <3>1, <3>2, <3>3
  <2>2. CASE ~(Len(a) > MaxPoints)
    BY <1>5, <1>6, <2>2
  <2>. QED  BY <2>1, <2>2
<1>11. Len(q) \in 0..Len(t)
  BY <1>1, <1>2, <1>9, LenProperties
<1>12. q = LastOf(t, Len(q))
  <2>. DEFINE r == LastOf(t, Len(q))
  <2>1. /\ r \in Seq(Nat) /\ Len(r) = Len(q)
        /\ \A k \in 1..Len(q) : r[k] = t[Len(t) - Len(q) + k]
    BY <1>2, <1>11, SubSeqEnd
  <2>. HIDE DEF r
  <2>2. \A k \in 1..Len(q) : q[k] = r[k]
    BY <1>10, <2>1
  <2>3. q = r
    BY <1>9, <2>1, <2>2, SeqEqual
  <2>. QED  BY <2>3 DEF r
<1>. QED  BY <1>9, <1>12 DEF q, t

-----------------------------------------------------------------------------
LEMMA SignalAdded ==
  ASSUME received \in Seq(Arrivals), NEW graph \in Seq(Curves), Graphed(graph),
         NEW s \in Curves, s.since = Len(received), s.points = <<>>
  PROVE  AddSignal(graph, s) \in Seq(Curves) /\ Graphed(AddSignal(graph, s))
<1>1. CASE \E i \in DOMAIN graph : graph[i].from = s.from /\ graph[i].name = s.name
  BY <1>1 DEF AddSignal
<1>2. CASE ~\E i \in DOMAIN graph : graph[i].from = s.from /\ graph[i].name = s.name
  <2>. DEFINE g == Append(graph, s)
  <2>1. AddSignal(graph, s) = g
    BY <1>2, Zenon DEF AddSignal
  <2>2. /\ g \in Seq(Curves) /\ Len(g) = Len(graph) + 1 /\ g[Len(graph) + 1] = s
        /\ \A i \in 1..Len(graph) : g[i] = graph[i]
        /\ Len(graph) \in Nat /\ DOMAIN graph = 1..Len(graph) /\ DOMAIN g = 1..Len(g)
    BY AppendProperties, LenProperties
  <2>. HIDE DEF g
  <2>3. Drawn(s)
    <3>1. Fed(s) = <<>>
      BY FedNothing
    <3>2. Len(received) \in Nat /\ MaxPoints \in Nat /\ MaxPoints # 0
      BY LenProperties, GraphAssumption
    <3>3. LastOf(<<>>, 0) = <<>>
      BY DEF LastOf
    <3>4. Len(<<>>) = 0
      OBVIOUS
    <3>. QED  BY <3>1, <3>2, <3>3, <3>4 DEF Drawn
  <2>4. \A i \in DOMAIN g : i \in DOMAIN graph \/ i = Len(graph) + 1
    BY <2>2
  <2>5. Once(g)
    BY <1>2, <2>2, <2>4 DEF Graphed, Once
  <2>6. \A i \in DOMAIN g : Drawn(g[i])
    BY <2>2, <2>3, <2>4 DEF Graphed
  <2>. QED  BY <2>1, <2>2, <2>5, <2>6 DEF Graphed
<1>. QED  BY <1>1, <1>2

LEMMA FirstOne ==
  ASSUME NEW ds, ds \subseteq Nat, ds # {}
  PROVE  First(ds) \in ds
<1>1. \E d \in ds : \A e \in ds : d <= e
  BY LeastElement
<1>. QED  BY <1>1, Zenon DEF First

LEMMA EntryLoaded ==
  ASSUME received = <<>>, NEW graph \in Seq(Curves), Graphed(graph), NEW e \in Entries
  PROVE  LoadEntry(graph, e) \in Seq(Curves) /\ Graphed(LoadEntry(graph, e))
<1>. DEFINE d == GraphDbcs[First(Having(e))]
            s == Series(<<d.name, d.messages[e.msg]>>, e.signal, <<e.msg, e.signal>>, e.axis, 0)
<1>1. CASE e.msg = "" \/ e.signal = "" \/ Having(e) = {}
  BY <1>1, Zenon DEF LoadEntry
<1>2. CASE ~(e.msg = "" \/ e.signal = "" \/ Having(e) = {})
  <2>1. LoadEntry(graph, e) = AddSignal(graph, s)
    BY <1>2, Zenon DEF LoadEntry
  <2>2. Having(e) \subseteq DOMAIN GraphDbcs /\ DOMAIN GraphDbcs \subseteq Nat
    <3>1. GraphDbcs \in Seq(Range(GraphDbcs))
      BY GraphAssumption
    <3>2. DOMAIN GraphDbcs = 1..Len(GraphDbcs) /\ Len(GraphDbcs) \in Nat
      BY <3>1, LenProperties
    <3>3. Having(e) \subseteq DOMAIN GraphDbcs
      BY Zenon DEF Having
    <3>4. DOMAIN GraphDbcs \subseteq Nat
      BY <3>2
    <3>. QED  BY <3>3, <3>4
  <2>3. First(Having(e)) \in Having(e)
    BY <1>2, <2>2, FirstOne, Zenon
  <2>4. d \in Range(GraphDbcs) /\ e.msg \in DOMAIN d.messages
    BY <2>2, <2>3 DEF Having, Range
  <2>. HIDE DEF d
  <2>5. d.messages[e.msg] \in Range(d.messages)
    BY <2>4, Zenon DEF Range
  <2>6. <<d.name, d.messages[e.msg]>> \in Origins
    <3>1. <<d.name, d.messages[e.msg]>> \in {<<d.name, id>> : id \in Range(d.messages)}
      BY <2>5
    <3>. DEFINE U == UNION {{<<c.name, id>> : id \in Range(c.messages)} : c \in Range(GraphDbcs)}
    <3>2. <<d.name, d.messages[e.msg]>> \in U
      BY <2>4, <3>1, Zenon
    <3>3. U \subseteq Origins
      BY DEF Origins
    <3>. HIDE DEF U
    <3>. QED  BY <3>2, <3>3
  <2>7. e.signal \in Listed /\ e.msg \in {x.msg : x \in Entries} /\ e.axis \in {x.axis : x \in Entries}
    BY DEF Listed
  <2>8. <<e.msg, e.signal>> \in Seq(Listed \cup {x.msg : x \in Entries})
    <3>. DEFINE W == Listed \cup {x.msg : x \in Entries}
    <3>1. e.msg \in W /\ e.signal \in W
      BY <2>7
    <3>. HIDE DEF W
    <3>2. <<e.msg, e.signal>> \in Seq(W)
      BY <3>1
    <3>. QED  BY <3>2 DEF W
  <2>9. s \in Curves
    BY <2>6, <2>7, <2>8 DEF Series, Curves
  <2>10. received \in Seq(Arrivals) /\ s.since = Len(received) /\ s.points = <<>>
    BY EmptySeq DEF Series
  <2>. HIDE DEF s
  <2>. QED  BY <2>1, <2>9, <2>10, SignalAdded
<1>. QED  BY <1>1, <1>2

\* F are the stages of a graph whose first n entries are loaded.
Loading(entries, n, F) ==
  F = [k \in 0..n |-> IF k = 0 THEN <<>> ELSE LoadEntry(F[k-1], entries[k])]

LEMMA LoadingExists ==
  ASSUME NEW entries, NEW n \in Nat
  PROVE  \E F : Loading(entries, n, F)
<1>. DEFINE P == {k \in Nat : \E F : Loading(entries, k, F)}
<1>1. 0 \in P
  <2>. DEFINE F == [i \in 0..0 |-> <<>>]
  <2>1. F = [k \in 0..0 |-> IF k = 0 THEN <<>> ELSE LoadEntry(F[k-1], entries[k])]
    OBVIOUS
  <2>. QED  BY <2>1 DEF Loading
<1>2. ASSUME NEW m \in P
      PROVE  m + 1 \in P
  <2>1. PICK F : Loading(entries, m, F)
    OBVIOUS
  <2>. DEFINE G == [i \in 0..m+1 |-> IF i \in 0..m THEN F[i] ELSE LoadEntry(F[i-1], entries[i])]
  <2>2. \A i \in 0..m+1 : G[i] = IF i = 0 THEN <<>> ELSE LoadEntry(G[i-1], entries[i])
    <3>. SUFFICES ASSUME NEW i \in 0..m+1
                  PROVE  G[i] = IF i = 0 THEN <<>> ELSE LoadEntry(G[i-1], entries[i])
      OBVIOUS
    <3>1. CASE i \in 0..m
      <4>1. G[i] = F[i] /\ (i # 0 => i - 1 \in 0..m /\ i - 1 \in 0..m+1 /\ G[i-1] = F[i-1])
        BY <3>1
      <4>2. F[i] = IF i = 0 THEN <<>> ELSE LoadEntry(F[i-1], entries[i])
        BY <2>1, <3>1 DEF Loading
      <4>. QED  BY <4>1, <4>2
    <3>2. CASE i = m + 1
      <4>1. G[i] = LoadEntry(F[i-1], entries[i]) /\ i # 0
        BY <3>2
      <4>2. G[i-1] = F[i-1]
        BY <3>2
      <4>. QED  BY <4>1, <4>2
    <3>. QED  BY <3>1, <3>2
  <2>3. Loading(entries, m + 1, G)
    BY <2>2 DEF Loading
  <2>. QED  BY <2>3
<1>3. P = Nat
  <2>. HIDE DEF P
  <2>1. P \subseteq Nat
    BY DEF P
  <2>. QED  BY <1>1, <1>2, <2>1, Induction
<1>. QED  BY <1>3

LEMMA GraphLoaded ==
  ASSUME received = <<>>, NEW entries \in Range(GraphFile)
  PROVE  LoadGraph(entries) \in Seq(Curves) /\ Graphed(LoadGraph(entries))
<1>. DEFINE n == Len(entries)
            F == CHOOSE G : G = [k \in 0..n |-> IF k = 0 THEN <<>>
                                                ELSE LoadEntry(G[k-1], entries[k])]
            Good == {k \in Nat : k \in 0..n => F[k] \in Seq(Curves) /\ Graphed(F[k])}
<1>1. entries \in Seq(Range(entries))
  BY GraphAssumption
<1>2. n \in Nat /\ DOMAIN entries = 1..n
  BY <1>1, LenProperties
<1>3. \A k \in 1..n : entries[k] \in Entries
  BY <1>2 DEF Entries, Range
<1>4. \E G : G = [k \in 0..n |-> IF k = 0 THEN <<>> ELSE LoadEntry(G[k-1], entries[k])]
  BY <1>2, LoadingExists DEF Loading
<1>5. F = [k \in 0..n |-> IF k = 0 THEN <<>> ELSE LoadEntry(F[k-1], entries[k])]
  BY <1>4, Zenon
<1>6. LoadGraph(entries) = F[n]
  BY Zenon DEF LoadGraph
<1>. HIDE DEF F, n
<1>7. 0 \in Good
  <2>1. F[0] = <<>>
    BY <1>2, <1>5
  <2>2. Graphed(<<>>)
    BY DEF Graphed, Once
  <2>. QED  BY <2>1, <2>2, EmptySeq
<1>8. ASSUME NEW k \in Good
      PROVE  k + 1 \in Good
  <2>. SUFFICES ASSUME k + 1 \in 0..n
                PROVE  F[k+1] \in Seq(Curves) /\ Graphed(F[k+1])
    OBVIOUS
  <2>1. k \in 0..n /\ k + 1 \in 1..n /\ (k+1)-1 = k /\ k + 1 # 0
    BY <1>2
  <2>2. F[k+1] = LoadEntry(F[k], entries[k+1])
    BY <1>5, <2>1
  <2>. QED  BY <1>3, <2>1, <2>2, EntryLoaded
<1>9. Good = Nat
  <2>. HIDE DEF Good
  <2>1. Good \subseteq Nat
    BY DEF Good
  <2>. QED  BY <1>7, <1>8, <2>1, Induction
<1>. QED  BY <1>2, <1>6, <1>9

LEMMA GraphInitInv == GraphInit => GraphInv
<1>. SUFFICES ASSUME GraphInit
              PROVE  GraphInv
  OBVIOUS
<1>1. received = <<>> /\ coming = <<>> /\ popup.kind = "none"
  BY DEF GraphInit, Closed
<1>2. DOMAIN GraphFile = 1..Len(GraphFile) /\ Len(GraphFile) \in Nat
  BY GraphAssumption, LenProperties
<1>3. \A t \in DOMAIN GraphFile :
        LoadGraph(GraphFile[t]) \in Seq(Curves) /\ Graphed(LoadGraph(GraphFile[t]))
  BY <1>1, GraphLoaded DEF Range
<1>4. tabs = [t \in 1..Len(GraphFile) |-> LoadGraph(GraphFile[t])]
  BY <1>2 DEF GraphInit
<1>5. tabs \in Seq(Seq(Curves)) /\ Len(tabs) = Len(GraphFile) /\ DOMAIN tabs = DOMAIN GraphFile
  BY <1>2, <1>3, <1>4
<1>6. Len(tabs) <= MaxTabs
  BY <1>5, GraphAssumption
<1>7. shown \in [{f.from : f \in Arrivals} -> SUBSET Listed]
  BY DEF GraphInit
<1>8. GraphTypeOK
  BY <1>1, <1>5, <1>6, <1>7, EmptySeq DEF GraphTypeOK
<1>9. \A t \in DOMAIN tabs : Graphed(tabs[t])
  BY <1>2, <1>3, <1>4, <1>5
<1>. QED  BY <1>8, <1>9 DEF GraphInv

-----------------------------------------------------------------------------
(* Steps of the graphs.                                                    *)

LEMMA RemovedAt ==
  ASSUME NEW T, NEW s \in Seq(T), NEW i \in 1..Len(s)
  PROVE  /\ RemoveAt(s, i) \in Seq(T) /\ Len(RemoveAt(s, i)) = Len(s) - 1
         /\ \A k \in 1..Len(s) - 1 : RemoveAt(s, i)[k] = s[IF k < i THEN k ELSE k + 1]
<1>. DEFINE a == SubSeq(s, 1, i - 1)
            b == SubSeq(s, i + 1, Len(s))
<1>1. Len(s) \in Nat
  BY LenProperties
<1>2. a \in Seq(T) /\ Len(a) = i - 1 /\ \A k \in 1..i - 1 : a[k] = s[k]
  BY <1>1
<1>3. b \in Seq(T) /\ Len(b) = Len(s) - i /\ \A k \in 1..Len(s) - i : b[k] = s[i + k]
  BY <1>1
<1>4. RemoveAt(s, i) = a \o b
  BY Zenon DEF RemoveAt
<1>. HIDE DEF a, b
<1>5. /\ a \o b \in Seq(T) /\ Len(a \o b) = Len(a) + Len(b)
      /\ \A k \in 1..Len(a) + Len(b) :
           (a \o b)[k] = IF k <= Len(a) THEN a[k] ELSE b[k - Len(a)]
  BY <1>2, <1>3, ConcatProperties
<1>6. Len(a) + Len(b) = Len(s) - 1
  BY <1>1, <1>2, <1>3
<1>7. ASSUME NEW k \in 1..Len(s) - 1
      PROVE  (a \o b)[k] = s[IF k < i THEN k ELSE k + 1]
  <2>1. CASE k < i
    <3>1. k <= Len(a) /\ k \in 1..i - 1
      BY <1>1, <1>2, <2>1
    <3>. QED  BY <1>2, <1>5, <1>6, <2>1, <3>1
  <2>2. CASE ~(k < i)
    <3>1. ~(k <= Len(a)) /\ k - Len(a) \in 1..Len(s) - i /\ i + (k - Len(a)) = k + 1
      BY <1>1, <1>2, <2>2
    <3>2. (a \o b)[k] = b[k - Len(a)]
      BY <1>5, <1>6, <3>1
    <3>. QED  BY <1>3, <2>2, <3>1, <3>2
  <2>. QED  BY <2>1, <2>2
<1>. QED  BY <1>4, <1>5, <1>6, <1>7

\* What is fed to a series does not depend on its points, its label and its axis.
LEMMA FedSame ==
  ASSUME NEW r, NEW s, r.from = s.from, r.name = s.name, r.since = s.since
  PROVE  Fed(r) = Fed(s) /\ Fed(r)' = Fed(s)'
<1>1. FedFrom(r) = FedFrom(s) /\ FedFrom(r)' = FedFrom(s)'
  BY DEF FedFrom
<1>2. Fed(r)' = Filter(Numbers', FedFrom(r)') /\ Fed(s)' = Filter(Numbers', FedFrom(s)')
  BY DEF Fed, Numbers, FedFrom
<1>. QED  BY <1>1, <1>2, FedDef

LEMMA UnchangedGraph ==
  ASSUME NEW graph, Graphed(graph), received' = received
  PROVE  Graphed(graph)'
<1>1. \A s : Fed(s)' = Fed(s)
  BY DEF Fed
<1>2. \A s : Drawn(s) => Drawn(s)'
  BY <1>1 DEF Drawn, LastOf
<1>. QED  BY <1>2 DEF Graphed, Once

LEMMA UnchangedGraphs ==
  ASSUME GraphInv, tabs' = tabs, received' = received
  PROVE  (\A t \in DOMAIN tabs : Graphed(tabs[t]))'
<1>1. \A t \in DOMAIN tabs : Graphed(tabs[t])
  BY DEF GraphInv
<1>2. \A t \in DOMAIN tabs : Graphed(tabs[t])'
  <2>. SUFFICES ASSUME NEW t \in DOMAIN tabs
                PROVE  Graphed(tabs[t])'
    OBVIOUS
  <2>. DEFINE g == tabs[t]
  <2>1. Graphed(g)
    BY <1>1
  <2>. QED  BY <2>1, UnchangedGraph
<1>. QED  BY <1>2

LEMMA ArriveStep ==
  ASSUME GraphInv, NEW f \in Arrivals, Arrive(f)
  PROVE  GraphInv'
<1>1. tabs' = tabs /\ popup' = popup /\ received' = received /\ coming' = <<f>>
  BY DEF Arrive
<1>2. GraphTypeOK
  BY DEF GraphInv
<1>3. f.signals \subseteq Listed
  BY DEF Listed
<1>4. shown' \in [{x.from : x \in Arrivals} -> SUBSET Listed] /\ DOMAIN shown' = DOMAIN shown
  <2>1. shown \in [{x.from : x \in Arrivals} -> SUBSET Listed]
    BY <1>2 DEF GraphTypeOK
  <2>2. PICK v : shown' = [shown EXCEPT ![f.from] = v] /\ v \in {shown[f.from] \cup f.signals,
                                                               shown[f.from], f.signals}
    <3>1. shown' = [shown EXCEPT ![f.from] = IF f.from[1] = Model THEN shown[f.from] \cup f.signals
                      ELSE IF f.signals = {} THEN shown[f.from] ELSE f.signals]
      BY DEF Arrive
    <3>. QED  BY <3>1
  <2>3. f.from \in {x.from : x \in Arrivals}
    OBVIOUS
  <2>4. v \in SUBSET Listed
    BY <1>3, <2>1, <2>2, <2>3
  <2>. QED  BY <2>1, <2>2, <2>4
<1>5. coming' \in Seq(Arrivals)
  BY <1>1
<1>6. GraphTypeOK'
  BY <1>1, <1>2, <1>4, <1>5 DEF GraphTypeOK
<1>. QED  BY <1>1, <1>6, UnchangedGraphs DEF GraphInv

\* One frame for one curve.
LEMMA CurvePlotted ==
  ASSUME received \in Seq(Arrivals), NEW f \in Arrivals, received' = Append(received, f),
         NEW s \in Curves, Drawn(s), NEW r,
         r = IF s.from = f.from /\ s.name \in f.signals
               THEN [s EXCEPT !.points = Push(@, Len(received) + 1)] ELSE s
  PROVE  r \in Curves /\ r.from = s.from /\ r.name = s.name /\ Drawn(r)'
<1>. DEFINE n == Len(received)
            p == s.points
            q == Push(p, n + 1)
<1>1. n \in Nat /\ n + 1 \in Nat /\ Len(received') = n + 1
  BY LenProperties, AppendProperties
<1>2. s.points \in Seq(Nat) /\ s.since \in Nat
  BY DEF Curves
<1>3. /\ s.since <= n /\ Len(p) <= Len(Fed(s)) /\ Len(p) <= MaxPoints
      /\ p = LastOf(Fed(s), Len(p)) /\ (Len(p) = Len(Fed(s)) \/ Len(p) = MaxPoints)
  BY DEF Drawn
<1>4. Fed(s) \in Seq(Nat)
  BY FedType
<1>5. Fed(s)' = IF s.from = f.from /\ s.name \in f.signals THEN Append(Fed(s), n + 1) ELSE Fed(s)
  BY <1>2, <1>3, FedMore
<1>6. s.since <= Len(received')
  BY <1>1, <1>2, <1>3
<1>7. CASE s.from = f.from /\ s.name \in f.signals
  <2>1. r = [s EXCEPT !.points = q]
    BY <1>7
  <2>. DEFINE F == Fed(s)
  <2>2. /\ q \in Seq(Nat) /\ Len(q) <= Len(Append(F, n + 1)) /\ Len(q) <= MaxPoints
        /\ q = LastOf(Append(F, n + 1), Len(q))
        /\ Len(q) = Len(Append(F, n + 1)) \/ Len(q) = MaxPoints
    <3>. HIDE DEF F, p
    <3>1. p \in Seq(Nat) /\ F \in Seq(Nat)
      BY <1>2, <1>4 DEF F, p
    <3>2. /\ Len(p) <= Len(F) /\ Len(p) <= MaxPoints
          /\ p = LastOf(F, Len(p)) /\ (Len(p) = Len(F) \/ Len(p) = MaxPoints)
      BY <1>3 DEF F, p
    <3>. HIDE DEF n
    <3>. QED  BY <1>1, <3>1, <3>2, PushEnd
  <2>. HIDE DEF q
  <2>3. /\ r \in Curves /\ r.from = s.from /\ r.name = s.name /\ r.since = s.since
        /\ r.points = q
    BY <2>1, <2>2 DEF Curves
  <2>4. Fed(r)' = Append(F, n + 1)
    BY <1>5, <1>7, <2>3, FedSame
  <2>5. Drawn(r)'
    BY <1>6, <2>2, <2>3, <2>4 DEF Drawn, LastOf
  <2>. QED  BY <2>3, <2>5
<1>8. CASE ~(s.from = f.from /\ s.name \in f.signals)
  <2>1. r = s /\ Fed(s)' = Fed(s)
    BY <1>5, <1>8
  <2>2. Drawn(s)'
    BY <1>3, <1>6, <2>1 DEF Drawn, LastOf
  <2>. QED  BY <2>1, <2>2
<1>. QED  BY <1>7, <1>8

\* One frame for one graph.
LEMMA GraphPlotted ==
  ASSUME received \in Seq(Arrivals), NEW f \in Arrivals, received' = Append(received, f),
         NEW g \in Seq(Curves), Graphed(g), NEW h,
         h = [i \in DOMAIN g |-> IF g[i].from = f.from /\ g[i].name \in f.signals
                THEN [g[i] EXCEPT !.points = Push(@, Len(received) + 1)] ELSE g[i]]
  PROVE  h \in Seq(Curves) /\ DOMAIN h = DOMAIN g /\ Graphed(h)'
<1>1. DOMAIN g = 1..Len(g) /\ Len(g) \in Nat
  BY LenProperties
<1>2. ASSUME NEW i \in DOMAIN g
      PROVE  h[i] \in Curves /\ h[i].from = g[i].from /\ h[i].name = g[i].name /\ Drawn(h[i])'
  <2>. SUFFICES ASSUME NEW x, x = g[i], NEW y, y = h[i]
                PROVE  y \in Curves /\ y.from = x.from /\ y.name = x.name /\ Drawn(y)'
    OBVIOUS
  <2>1. x \in Curves /\ Drawn(x)
    BY <1>1, <1>2 DEF Graphed
  <2>2. y = IF x.from = f.from /\ x.name \in f.signals
              THEN [x EXCEPT !.points = Push(@, Len(received) + 1)] ELSE x
    BY <1>2
  <2>. QED  BY <2>1, <2>2, CurvePlotted
<1>3. h \in Seq(Curves) /\ DOMAIN h = DOMAIN g
  BY <1>1, <1>2
<1>4. Once(g)
  BY DEF Graphed
<1>5. Once(h)
  BY <1>2, <1>3, <1>4 DEF Once
<1>6. \A i \in DOMAIN h : Drawn(h[i])'
  BY <1>2, <1>3
<1>7. Graphed(h)'
  BY <1>5, <1>6 DEF Graphed, Once
<1>. QED  BY <1>3, <1>7

LEMMA PlotStep ==
  ASSUME GraphInv, Plot
  PROVE  GraphInv'
<1>. DEFINE n == Len(received)
            f == coming[1]
<1>1. /\ shown' = shown /\ popup' = popup /\ coming' = <<>> /\ received' = Append(received, f)
      /\ tabs' = [t \in DOMAIN tabs |-> [i \in DOMAIN tabs[t] |->
                    IF tabs[t][i].from = f.from /\ tabs[t][i].name \in f.signals
                      THEN [tabs[t][i] EXCEPT !.points = Push(@, n + 1)] ELSE tabs[t][i]]]
  BY DEF Plot
<1>2. GraphTypeOK
  BY DEF GraphInv
<1>3. f \in Arrivals /\ received \in Seq(Arrivals) /\ tabs \in Seq(Seq(Curves))
  BY <1>2 DEF Plot, GraphTypeOK
<1>. HIDE DEF f
<1>4. DOMAIN tabs = 1..Len(tabs) /\ Len(tabs) \in Nat
  BY <1>3, LenProperties
<1>5. ASSUME NEW t \in DOMAIN tabs, NEW h, h = tabs'[t]
      PROVE  h \in Seq(Curves) /\ DOMAIN h = DOMAIN tabs[t] /\ Graphed(h)'
  <2>. SUFFICES ASSUME NEW g, g = tabs[t]
                PROVE  h \in Seq(Curves) /\ DOMAIN h = DOMAIN g /\ Graphed(h)'
    OBVIOUS
  <2>1. g \in Seq(Curves) /\ Graphed(g)
    BY <1>3, <1>4 DEF GraphInv
  <2>2. h = [i \in DOMAIN g |-> IF g[i].from = f.from /\ g[i].name \in f.signals
                                  THEN [g[i] EXCEPT !.points = Push(@, n + 1)] ELSE g[i]]
    BY <1>1, <1>5
  <2>. QED  BY <1>1, <1>3, <2>1, <2>2, GraphPlotted
<1>6. DOMAIN tabs' = DOMAIN tabs
  BY <1>1
<1>7. tabs' \in Seq(Seq(Curves)) /\ Len(tabs') = Len(tabs)
  <2>1. tabs' = [t \in 1..Len(tabs) |-> tabs'[t]]
    BY <1>1, <1>4
  <2>2. \A t \in 1..Len(tabs) : tabs'[t] \in Seq(Curves)
    BY <1>4, <1>5
  <2>. DEFINE ts == tabs'
  <2>. HIDE DEF ts
  <2>3. ts = [t \in 1..Len(tabs) |-> ts[t]] /\ \A t \in 1..Len(tabs) : ts[t] \in Seq(Curves)
    BY <2>1, <2>2 DEF ts
  <2>4. ts \in Seq(Seq(Curves)) /\ Len(ts) = Len(tabs)
    BY <1>4, <2>3, SequenceLen
  <2>. QED  BY <2>4 DEF ts
<1>8. received' \in Seq(Arrivals) /\ coming' \in Seq(Arrivals)
  BY <1>1, <1>3, AppendProperties, EmptySeq
<1>9. GraphTypeOK'
  <2>1. popup.kind = "series" => popup.tab \in DOMAIN tabs /\ popup.at \in DOMAIN tabs[popup.tab]
    BY <1>2 DEF GraphTypeOK
  <2>2. popup.kind = "series" => popup.tab \in DOMAIN tabs' /\ popup.at \in DOMAIN tabs'[popup.tab]
    BY <1>5, <1>6, <2>1
  <2>. QED  BY <1>1, <1>2, <1>7, <1>8, <2>2 DEF GraphTypeOK
<1>10. (\A t \in DOMAIN tabs : Graphed(tabs[t]))'
  BY <1>5, <1>6
<1>. QED  BY <1>9, <1>10 DEF GraphInv

\* A graph is changed to g, or added as g.
LEMMA GraphChanged ==
  ASSUME NEW ts \in Seq(Seq(Curves)), \A t \in DOMAIN ts : Graphed(ts[t]),
         NEW n \in DOMAIN ts, NEW g \in Seq(Curves), Graphed(g),
         tabs' = [ts EXCEPT ![n] = g], received' = received
  PROVE  /\ tabs' \in Seq(Seq(Curves)) /\ Len(tabs') = Len(ts)
         /\ (\A t \in DOMAIN tabs : Graphed(tabs[t]))'
<1>1. tabs' \in Seq(Seq(Curves)) /\ Len(tabs') = Len(ts) /\ DOMAIN tabs' = DOMAIN ts
  BY LenProperties, ExceptSeq
<1>2. ASSUME NEW t \in DOMAIN ts, NEW h, h = tabs'[t]
      PROVE  Graphed(h)'
  <2>1. h = g \/ h = ts[t]
    BY <1>2
  <2>2. Graphed(h)
    BY <1>2, <2>1
  <2>. QED  BY <2>2, UnchangedGraph
<1>. QED  BY <1>1, <1>2

LEMMA GraphAdded ==
  ASSUME tabs \in Seq(Seq(Curves)), \A t \in DOMAIN tabs : Graphed(tabs[t])
  PROVE  /\ Append(tabs, <<>>) \in Seq(Seq(Curves)) /\ Len(Append(tabs, <<>>)) = Len(tabs) + 1
         /\ \A t \in DOMAIN Append(tabs, <<>>) : Graphed(Append(tabs, <<>>)[t])
<1>. DEFINE ts == Append(tabs, <<>>)
<1>1. <<>> \in Seq(Curves) /\ Graphed(<<>>)
  BY EmptySeq DEF Graphed, Once
<1>2. /\ ts \in Seq(Seq(Curves)) /\ Len(ts) = Len(tabs) + 1 /\ ts[Len(tabs) + 1] = <<>>
      /\ \A t \in 1..Len(tabs) : ts[t] = tabs[t]
      /\ DOMAIN ts = 1..Len(ts) /\ DOMAIN tabs = 1..Len(tabs) /\ Len(tabs) \in Nat
  BY <1>1, AppendProperties, LenProperties
<1>. HIDE DEF ts
<1>3. \A t \in DOMAIN ts : t = Len(tabs) + 1 \/ t \in DOMAIN tabs
  BY <1>2
<1>4. \A t \in DOMAIN ts : Graphed(ts[t])
  BY <1>1, <1>2, <1>3
<1>. QED  BY <1>2, <1>4 DEF ts

LEMMA AddGraphStep ==
  ASSUME GraphInv, AddGraph
  PROVE  GraphInv'
<1>. DEFINE ts == Append(tabs, <<>>)
<1>1. /\ tabs' = ts /\ Len(tabs) < MaxTabs /\ shown' = shown /\ coming' = coming
      /\ popup' = popup /\ received' = received
  BY DEF AddGraph
<1>2. GraphTypeOK /\ \A t \in DOMAIN tabs : Graphed(tabs[t])
  BY DEF GraphInv
<1>3. tabs \in Seq(Seq(Curves)) /\ MaxTabs \in Nat
  BY <1>2, GraphAssumption DEF GraphTypeOK
<1>4. /\ ts \in Seq(Seq(Curves)) /\ Len(ts) = Len(tabs) + 1
      /\ \A t \in DOMAIN ts : Graphed(ts[t])
  BY <1>2, <1>3, GraphAdded
<1>5. \A t \in DOMAIN tabs : t \in DOMAIN ts /\ ts[t] = tabs[t]
  BY <1>3, AppendProperties, LenProperties
<1>. HIDE DEF ts
<1>6. Len(tabs') <= MaxTabs
  BY <1>1, <1>3, <1>4, LenProperties
<1>7. popup.kind = "series" => popup.tab \in DOMAIN ts /\ popup.at \in DOMAIN ts[popup.tab]
  BY <1>2, <1>5 DEF GraphTypeOK
<1>8. GraphTypeOK'
  BY <1>1, <1>2, <1>4, <1>6, <1>7 DEF GraphTypeOK
<1>9. ASSUME NEW t \in DOMAIN ts, NEW h, h = ts[t]
      PROVE  Graphed(h)'
  <2>1. Graphed(h)
    BY <1>4, <1>9
  <2>. QED  BY <1>1, <2>1, UnchangedGraph
<1>10. (\A t \in DOMAIN tabs : Graphed(tabs[t]))'
  <2>1. \A t \in DOMAIN tabs' : \A h : h = tabs'[t] => Graphed(h)'
    BY <1>1, <1>9
  <2>. QED  BY <2>1
<1>. QED  BY <1>8, <1>10 DEF GraphInv

\* A menu is opened, or one is closed and nothing else is done.
LEMMA PopupStep ==
  ASSUME GraphInv, UNCHANGED <<tabs, shown, coming, received>>,
         popup'.kind \in {"none", "signal", "series"},
         popup'.kind = "signal" => popup'.from \in DOMAIN shown /\ popup'.name \in Listed,
         popup'.kind = "series" => /\ popup'.tab \in DOMAIN tabs
                                   /\ popup'.at \in DOMAIN tabs[popup'.tab]
  PROVE  GraphInv'
<1>1. GraphTypeOK'
  BY DEF GraphInv, GraphTypeOK
<1>. QED  BY <1>1, UnchangedGraphs DEF GraphInv

LEMMA OpenSignalStep ==
  ASSUME GraphInv, NEW from \in DOMAIN shown, NEW name \in shown[from], OpenSignal(from, name)
  PROVE  GraphInv'
<1>1. name \in Listed
  BY DEF GraphInv, GraphTypeOK
<1>2. popup'.kind = "signal" /\ popup'.from = from /\ popup'.name = name
  BY DEF OpenSignal
<1>. QED  BY <1>1, <1>2, PopupStep DEF OpenSignal

LEMMA OpenSeriesStep ==
  ASSUME GraphInv, NEW t \in DOMAIN tabs, NEW i \in DOMAIN tabs[t], OpenSeries(t, i)
  PROVE  GraphInv'
<1>1. popup'.kind = "series" /\ popup'.tab = t /\ popup'.at = i
  BY DEF OpenSeries
<1>. QED  BY <1>1, PopupStep DEF OpenSeries

\* A graph is changed to g, one is added before if there is none, and the menu closes.
LEMMA PickedStep ==
  ASSUME GraphInv, popup' = Closed, UNCHANGED <<shown, coming, received>>,
         NEW ts \in Seq(Seq(Curves)), Len(ts) <= MaxTabs, \A t \in DOMAIN ts : Graphed(ts[t]),
         NEW n \in DOMAIN ts, NEW g \in Seq(Curves), Graphed(g), tabs' = [ts EXCEPT ![n] = g]
  PROVE  GraphInv'
<1>1. /\ tabs' \in Seq(Seq(Curves)) /\ Len(tabs') = Len(ts)
      /\ (\A t \in DOMAIN tabs : Graphed(tabs[t]))'
  BY GraphChanged
<1>2. popup'.kind = "none"
  BY DEF Closed
<1>3. GraphTypeOK'
  BY <1>1, <1>2 DEF GraphInv, GraphTypeOK
<1>. QED  BY <1>1, <1>3 DEF GraphInv

LEMMA PickGraphStep ==
  ASSUME GraphInv, NEW axis \in Axes, NEW t \in 1..MaxTabs, t <= Len(tabs) + 1,
         PickGraph(t, axis)
  PROVE  GraphInv'
<1>. DEFINE ts == IF t \in DOMAIN tabs THEN tabs ELSE Append(tabs, <<>>)
            s == Series(popup.from, popup.name, <<popup.name>>, axis, Len(received))
            g == AddSignal(ts[t], s)
<1>1. /\ popup.kind = "signal" /\ popup' = Closed /\ UNCHANGED <<shown, coming, received>>
      /\ tabs' = [ts EXCEPT ![t] = g]
  BY DEF PickGraph
<1>2. GraphTypeOK /\ \A n \in DOMAIN tabs : Graphed(tabs[n])
  BY DEF GraphInv
<1>3. /\ tabs \in Seq(Seq(Curves)) /\ received \in Seq(Arrivals) /\ MaxTabs \in Nat
      /\ DOMAIN tabs = 1..Len(tabs) /\ Len(tabs) \in Nat /\ Len(tabs) <= MaxTabs
  BY <1>2, GraphAssumption, LenProperties DEF GraphTypeOK
<1>4. /\ ts \in Seq(Seq(Curves)) /\ Len(ts) <= MaxTabs /\ t \in DOMAIN ts
      /\ \A n \in DOMAIN ts : Graphed(ts[n])
  <2>1. CASE t \in DOMAIN tabs
    BY <1>2, <1>3, <2>1
  <2>2. CASE t \notin DOMAIN tabs
    <3>1. t = Len(tabs) + 1
      BY <1>3, <2>2
    <3>2. /\ ts = Append(tabs, <<>>) /\ ts \in Seq(Seq(Curves)) /\ Len(ts) = Len(tabs) + 1
          /\ \A n \in DOMAIN ts : Graphed(ts[n])
      BY <1>2, <1>3, <2>2, GraphAdded
    <3>. HIDE DEF ts
    <3>. QED  BY <1>3, <3>1, <3>2, LenProperties
  <2>. QED  BY <2>1, <2>2
<1>. HIDE DEF ts
<1>5. ts[t] \in Seq(Curves) /\ Graphed(ts[t])
  BY <1>4, ElementOfSeq
<1>6. s \in Curves
  <2>1. popup.from \in DOMAIN shown /\ popup.name \in Listed
    BY <1>1, <1>2 DEF GraphTypeOK
  <2>2. popup.from \in Origins
    BY <1>2, <2>1 DEF GraphTypeOK, Origins
  <2>3. <<popup.name>> \in Seq(Listed \cup {e.msg : e \in Entries})
    <3>. DEFINE W == Listed \cup {e.msg : e \in Entries}
    <3>1. popup.name \in W
      BY <2>1
    <3>. HIDE DEF W
    <3>2. <<popup.name>> \in Seq(W)
      BY <3>1
    <3>. QED  BY <3>2 DEF W
  <2>4. Len(received) \in Nat
    BY <1>3, LenProperties
  <2>. QED  BY <2>1, <2>2, <2>3, <2>4, EmptySeq DEF Series, Curves
<1>7. s.since = Len(received) /\ s.points = <<>>
  BY DEF Series
<1>. HIDE DEF s
<1>8. g \in Seq(Curves) /\ Graphed(g)
  BY <1>3, <1>5, <1>6, <1>7, SignalAdded
<1>. HIDE DEF g
<1>. QED  BY <1>1, <1>4, <1>8, PickedStep

LEMMA ChangeAxisStep ==
  ASSUME GraphInv, NEW axis \in Axes, ChangeAxis(axis)
  PROVE  GraphInv'
<1>. DEFINE n == popup.tab
            i == popup.at
            g == tabs[n]
            r == [g[i] EXCEPT !.axis = axis]
            h == [g EXCEPT ![i] = r]
<1>1. /\ popup.kind = "series" /\ popup' = Closed /\ UNCHANGED <<shown, coming, received>>
      /\ tabs' = [tabs EXCEPT ![n] = h]
  BY DEF ChangeAxis
<1>2. GraphTypeOK /\ \A t \in DOMAIN tabs : Graphed(tabs[t])
  BY DEF GraphInv
<1>3. /\ tabs \in Seq(Seq(Curves)) /\ Len(tabs) <= MaxTabs /\ n \in DOMAIN tabs /\ i \in DOMAIN g
  BY <1>1, <1>2 DEF GraphTypeOK
<1>4. g \in Seq(Curves) /\ Graphed(g) /\ g[i] \in Curves
  BY <1>2, <1>3, ElementOfSeq
<1>5. received \in Seq(Arrivals)
  BY <1>2 DEF GraphTypeOK
<1>. HIDE DEF g
<1>6. h \in Seq(Curves) /\ Graphed(h)
  <2>. SUFFICES ASSUME NEW s, s = g[i], NEW q, q = r
                PROVE  h \in Seq(Curves) /\ Graphed(h)
    OBVIOUS
  <2>1. s \in Curves /\ q = [s EXCEPT !.axis = axis]
    BY <1>4
  <2>2. /\ q \in Curves /\ q.from = s.from /\ q.name = s.name /\ q.since = s.since
        /\ q.points = s.points
    BY <2>1 DEF Curves
  <2>3. Drawn(s)
    BY <1>3, <1>4 DEF Graphed
  <2>4. Fed(q) = Fed(s)
    BY <2>2, FedSame
  <2>5. Drawn(q)
    BY <2>2, <2>3, <2>4 DEF Drawn
  <2>6. h = [g EXCEPT ![i] = q]
    OBVIOUS
  <2>. HIDE DEF h, r
  <2>7. h \in Seq(Curves) /\ DOMAIN h = DOMAIN g
    BY <1>3, <1>4, <2>2, <2>6, ExceptSeq
  <2>8. \A k \in DOMAIN g : h[k] = IF k = i THEN q ELSE g[k]
    BY <2>6
  <2>9. Once(h)
    BY <1>4, <2>2, <2>7, <2>8 DEF Graphed, Once
  <2>10. \A k \in DOMAIN h : Drawn(h[k])
    BY <1>4, <2>5, <2>7, <2>8 DEF Graphed
  <2>. QED  BY <2>7, <2>9, <2>10 DEF Graphed
<1>. HIDE DEF h
<1>. QED  BY <1>1, <1>2, <1>3, <1>6, PickedStep

LEMMA RemoveSeriesStep ==
  ASSUME GraphInv, RemoveSeries
  PROVE  GraphInv'
<1>. DEFINE n == popup.tab
            i == popup.at
            g == tabs[n]
            h == RemoveAt(g, i)
<1>1. /\ popup.kind = "series" /\ popup' = Closed /\ UNCHANGED <<shown, coming, received>>
      /\ tabs' = [tabs EXCEPT ![n] = h]
  BY DEF RemoveSeries
<1>2. GraphTypeOK /\ \A t \in DOMAIN tabs : Graphed(tabs[t])
  BY DEF GraphInv
<1>3. /\ tabs \in Seq(Seq(Curves)) /\ Len(tabs) <= MaxTabs /\ n \in DOMAIN tabs /\ i \in DOMAIN g
  BY <1>1, <1>2 DEF GraphTypeOK
<1>4. g \in Seq(Curves) /\ Graphed(g)
  BY <1>2, <1>3, ElementOfSeq
<1>. HIDE DEF g
<1>5. DOMAIN g = 1..Len(g) /\ Len(g) \in Nat
  BY <1>4, LenProperties
<1>6. /\ h \in Seq(Curves) /\ Len(h) = Len(g) - 1
      /\ \A k \in 1..Len(g) - 1 : h[k] = g[IF k < i THEN k ELSE k + 1]
  BY <1>3, <1>4, <1>5, RemovedAt
<1>. HIDE DEF h
<1>7. DOMAIN h = 1..Len(g) - 1
  BY <1>6, LenProperties
<1>. DEFINE old(k) == IF k < i THEN k ELSE k + 1
<1>8. \A k \in DOMAIN h : old(k) \in DOMAIN g /\ h[k] = g[old(k)]
  <2>1. i \in 1..Len(g)
    BY <1>3, <1>5
  <2>2. \A k \in 1..Len(g) - 1 : old(k) \in 1..Len(g)
    BY <1>5, <2>1
  <2>3. \A k \in 1..Len(g) - 1 : h[k] = g[old(k)]
    BY <1>6
  <2>. HIDE DEF old
  <2>. QED  BY <1>5, <1>7, <2>2, <2>3
<1>9. \A k, l \in DOMAIN h : old(k) = old(l) => k = l
  BY <1>3, <1>5, <1>7
<1>. HIDE DEF old
<1>10. Once(h)
  BY <1>4, <1>8, <1>9 DEF Graphed, Once
<1>11. \A k \in DOMAIN h : Drawn(h[k])
  BY <1>4, <1>8 DEF Graphed
<1>12. Graphed(h)
  BY <1>10, <1>11 DEF Graphed
<1>. QED  BY <1>1, <1>2, <1>3, <1>6, <1>12, PickedStep

LEMMA GraphNextInv == GraphInv /\ [GraphNext]_graphVars => GraphInv'
<1>. SUFFICES ASSUME GraphInv, [GraphNext]_graphVars
              PROVE  GraphInv'
  OBVIOUS
<1>1. CASE UNCHANGED graphVars
  <2>1. UNCHANGED <<tabs, shown, coming, popup, received>>
    BY <1>1 DEF graphVars
  <2>2. /\ popup.kind \in {"none", "signal", "series"}
        /\ popup.kind = "signal" => popup.from \in DOMAIN shown /\ popup.name \in Listed
        /\ popup.kind = "series" => /\ popup.tab \in DOMAIN tabs
                                    /\ popup.at \in DOMAIN tabs[popup.tab]
    BY DEF GraphInv, GraphTypeOK
  <2>. QED  BY <2>1, <2>2, PopupStep
<1>2. CASE GraphNext
  <2>1. ASSUME NEW f \in Arrivals, Arrive(f)  PROVE GraphInv'
    BY <2>1, ArriveStep
  <2>2. CASE Plot
    BY <2>2, PlotStep
  <2>3. CASE AddGraph
    BY <2>3, AddGraphStep
  <2>4. CASE RemoveSeries
    BY <2>4, RemoveSeriesStep
  <2>5. ASSUME NEW from \in DOMAIN shown, NEW name \in shown[from], OpenSignal(from, name)
        PROVE  GraphInv'
    BY <2>5, OpenSignalStep
  <2>6. ASSUME NEW axis \in Axes, ChangeAxis(axis)  PROVE GraphInv'
    BY <2>6, ChangeAxisStep
  <2>7. ASSUME NEW axis \in Axes, NEW t \in 1..MaxTabs, t <= Len(tabs) + 1, PickGraph(t, axis)
        PROVE  GraphInv'
    BY <2>7, PickGraphStep
  <2>8. ASSUME NEW t \in DOMAIN tabs, NEW i \in DOMAIN tabs[t], OpenSeries(t, i)
        PROVE  GraphInv'
    BY <2>8, OpenSeriesStep
  <2>. QED  BY <1>2, <2>1, <2>2, <2>3, <2>4, <2>5, <2>6, <2>7, <2>8, Zenon DEF GraphNext
<1>. QED  BY <1>1, <1>2

LEMMA GraphInvHolds == UiSpec => []GraphInv
<1>1. UiInit => GraphInv
  BY GraphInitInv DEF UiInit
<1>2. [UiNext]_uiVars => [GraphNext]_graphVars
  BY DEF UiNext, uiVars
<1>. QED  BY <1>1, <1>2, GraphNextInv, PTL DEF UiSpec

\* A curve in a graph is what came of its signal, and nothing else
\* (src/src/gui/GraphWindow.cpp:13-85).
THEOREM SeriesCorrect == UiSpec => []SeriesFaithful
<1>1. ASSUME GraphInv
      PROVE  SeriesFaithful
  <2>. SUFFICES ASSUME NEW t \in DOMAIN tabs, NEW i \in DOMAIN tabs[t], NEW s, s = tabs[t][i]
                PROVE  /\ \A j \in DOMAIN tabs[t] :
                            tabs[t][j].from = s.from /\ tabs[t][j].name = s.name => i = j
                       /\ s.points = SubSeq(Fed(s), Len(Fed(s)) - Len(s.points) + 1, Len(Fed(s)))
                       /\ Len(s.points) = Len(Fed(s)) \/ Len(s.points) = MaxPoints
    BY Zenon DEF SeriesFaithful
  <2>1. Graphed(tabs[t])
    BY <1>1 DEF GraphInv
  <2>2. Drawn(s)
    BY <2>1 DEF Graphed
  <2>3. \A j \in DOMAIN tabs[t] : tabs[t][j].from = s.from /\ tabs[t][j].name = s.name => i = j
    BY <2>1 DEF Graphed, Once
  <2>. QED  BY <2>2, <2>3 DEF Drawn, LastOf
<1>. QED  BY <1>1, GraphInvHolds, PTL

-----------------------------------------------------------------------------
(* What is sent: the bits of a value, put into a payload and read back.    *)

\* P are the powers of two up to the n-th, as Pow2 computes them.
ArePowers(n, P) == P = [k \in 0..n |-> IF k = 0 THEN 1 ELSE 2 * P[k-1]]

LEMMA PowersExist ==
  ASSUME NEW n \in Nat
  PROVE  \E P : ArePowers(n, P)
<1>. DEFINE double == [k \in Nat |-> [x \in Int |-> 2 * x]]
<1>1. double \in [Nat -> [Int -> Int]] /\ 1 \in Int
  OBVIOUS
<1>. HIDE DEF double
<1>2. PICK P : Stages(n, Int, 1, double, P)
  BY <1>1, RecursionExists
<1>3. P \in [0..n -> Int] /\ P[0] = 1 /\ \A k \in 1..n : P[k] = double[k][P[k-1]]
  BY <1>2 DEF Stages
<1>4. ASSUME NEW k \in 1..n
      PROVE  P[k] = 2 * P[k-1]
  <2>1. k - 1 \in 0..n /\ k \in Nat
    OBVIOUS
  <2>2. P[k-1] \in Int
    BY <1>3, <2>1
  <2>3. double[k][P[k-1]] = 2 * P[k-1]
    BY <2>1, <2>2 DEF double
  <2>. QED  BY <1>3, <2>3
<1>5. \A k \in 0..n : k = 0 \/ k \in 1..n
  OBVIOUS
<1>. QED  BY <1>3, <1>4, <1>5 DEF ArePowers

LEMMA PowersSame ==
  ASSUME NEW n \in Nat, NEW m \in Nat, n <= m, NEW P, ArePowers(n, P), NEW Q, ArePowers(m, Q)
  PROVE  \A k \in 0..n : P[k] = Q[k] /\ P[k] \in Nat \ {0}
<1>. DEFINE Good == {k \in Nat : k \in 0..n => P[k] = Q[k] /\ P[k] \in Nat \ {0}}
<1>1. 0 \in Good
  BY DEF ArePowers
<1>2. ASSUME NEW k \in Good
      PROVE  k + 1 \in Good
  <2>. SUFFICES ASSUME k + 1 \in 0..n
                PROVE  P[k+1] = Q[k+1] /\ P[k+1] \in Nat \ {0}
    OBVIOUS
  <2>1. k \in 0..n /\ k + 1 \in 0..m /\ (k+1) - 1 = k /\ k + 1 # 0
    OBVIOUS
  <2>2. P[k+1] = 2 * P[k] /\ Q[k+1] = 2 * Q[k]
    BY <2>1 DEF ArePowers
  <2>. QED  BY <2>1, <2>2
<1>3. Good = Nat
  <2>. HIDE DEF Good
  <2>1. Good \subseteq Nat
    BY DEF Good
  <2>. QED  BY <1>1, <1>2, <2>1, Induction
<1>. QED  BY <1>3

LEMMA Pow2Def ==
  ASSUME NEW n \in Nat
  PROVE  \E P : ArePowers(n, P) /\ Pow2(n) = P[n]
<1>. DEFINE P == CHOOSE Q : Q = [k \in 0..n |-> IF k = 0 THEN 1 ELSE 2 * Q[k-1]]
<1>1. \E Q : Q = [k \in 0..n |-> IF k = 0 THEN 1 ELSE 2 * Q[k-1]]
  BY PowersExist DEF ArePowers
<1>2. P = [k \in 0..n |-> IF k = 0 THEN 1 ELSE 2 * P[k-1]]
  BY <1>1, Zenon
<1>3. Pow2(n) = P[n]
  BY Zenon DEF Pow2
<1>. QED  BY <1>2, <1>3 DEF ArePowers

\* The powers of two.
LEMMA Pow2Facts ==
  /\ Pow2(0) = 1
  /\ \A n \in Nat : Pow2(n) \in Nat \ {0} /\ Pow2(n + 1) = 2 * Pow2(n)
<1>1. Pow2(0) = 1
  BY Pow2Def DEF ArePowers
<1>2. ASSUME NEW n \in Nat
      PROVE  Pow2(n) \in Nat \ {0} /\ Pow2(n + 1) = 2 * Pow2(n)
  <2>1. PICK P : ArePowers(n, P) /\ Pow2(n) = P[n]
    BY Pow2Def
  <2>2. PICK Q : ArePowers(n + 1, Q) /\ Pow2(n + 1) = Q[n + 1]
    BY Pow2Def
  <2>3. P[n] = Q[n] /\ P[n] \in Nat \ {0}
    BY <2>1, <2>2, PowersSame
  <2>4. Q[n + 1] = 2 * Q[n]
    BY <2>2 DEF ArePowers
  <2>. QED  BY <2>1, <2>2, <2>3, <2>4
<1>. QED  BY <1>1, <1>2

\* A number and its bits.
LEMMA Bits ==
  ASSUME NEW x \in Int
  PROVE  x = 2 * (x \div 2) + (x % 2) /\ x % 2 \in {0, 1} /\ x \div 2 \in Int
OBVIOUS

LEMMA Halves ==
  \A x \in Int : \A p \in Nat \ {0} : x \div (2 * p) = (x \div p) \div 2 /\ x \div p \in Int
OBVIOUS

-----------------------------------------------------------------------------
\* H[n] are the n highest bits of a signal, as Unsigned reads them.
AreHigh(payload, sig, H) ==
  H = [n \in 0..sig.width |->
         IF n = 0 THEN 0 ELSE 2 * H[n-1] + payload[sig.first + sig.width - n]]

LEMMA HighsExist ==
  ASSUME NEW sig, NEW bits \in Nat, IsSignal(sig, bits),
         NEW payload, \A b \in BitsOf(sig) : payload[b] \in Int
  PROVE  \E H : AreHigh(payload, sig, H)
<1>. DEFINE w == sig.width
            bit(n) == payload[sig.first + w - n]
            step == [n \in Nat |-> [x \in Int |-> IF n \in 1..w THEN 2 * x + bit(n) ELSE 0]]
<1>1. w \in Nat /\ sig.first \in Nat
  BY DEF IsSignal
<1>2. \A n \in 1..w : bit(n) \in Int
  <2>. SUFFICES ASSUME NEW n \in 1..w
                PROVE  bit(n) \in Int
    OBVIOUS
  <2>1. sig.first + w - n \in BitsOf(sig)
    BY <1>1 DEF BitsOf
  <2>. QED  BY <2>1
<1>. HIDE DEF w, bit
<1>3. step \in [Nat -> [Int -> Int]] /\ 0 \in Int
  BY <1>2
<1>. HIDE DEF step
<1>4. PICK H : Stages(w, Int, 0, step, H)
  BY <1>1, <1>3, RecursionExists
<1>5. H \in [0..w -> Int] /\ H[0] = 0 /\ \A n \in 1..w : H[n] = step[n][H[n-1]]
  BY <1>4 DEF Stages
<1>6. ASSUME NEW n \in 0..w
      PROVE  H[n] = IF n = 0 THEN 0 ELSE 2 * H[n-1] + bit(n)
  <2>1. CASE n = 0
    BY <1>5, <2>1
  <2>2. CASE n # 0
    <3>1. n - 1 \in 0..w /\ n \in 1..w /\ n \in Nat
      BY <1>1, <2>2
    <3>2. H[n-1] \in Int
      BY <1>5, <3>1
    <3>3. step[n][H[n-1]] = 2 * H[n-1] + bit(n)
      BY <3>1, <3>2 DEF step
    <3>. QED  BY <1>5, <2>2, <3>1, <3>3
  <2>. QED  BY <2>1, <2>2
<1>7. H = [n \in 0..w |-> IF n = 0 THEN 0 ELSE 2 * H[n-1] + bit(n)]
  BY <1>5, <1>6
<1>. QED  BY <1>7 DEF AreHigh, bit, w

LEMMA UnsignedDef ==
  ASSUME NEW sig, NEW bits \in Nat, IsSignal(sig, bits),
         NEW payload, \A b \in BitsOf(sig) : payload[b] \in Int
  PROVE  \E H : AreHigh(payload, sig, H) /\ Unsigned(payload, sig) = H[sig.width]
<1>. DEFINE H == CHOOSE G : G = [n \in 0..sig.width |->
                   IF n = 0 THEN 0 ELSE 2 * G[n-1] + payload[sig.first + sig.width - n]]
<1>1. \E G : G = [n \in 0..sig.width |->
                   IF n = 0 THEN 0 ELSE 2 * G[n-1] + payload[sig.first + sig.width - n]]
  BY HighsExist DEF AreHigh
<1>2. H = [n \in 0..sig.width |->
             IF n = 0 THEN 0 ELSE 2 * H[n-1] + payload[sig.first + sig.width - n]]
  BY <1>1, Zenon
<1>3. Unsigned(payload, sig) = H[sig.width]
  BY Zenon DEF Unsigned
<1>. QED  BY <1>2, <1>3 DEF AreHigh

\* The bits of the raw value u, negative or not, are in the payload.
Carries(payload, sig, u) ==
  \A b \in BitsOf(sig) : payload[b] = (u \div Pow2(b - sig.first)) % 2

\* What is read of them is u, or u in two's complement.
LEMMA UnsignedRead ==
  ASSUME NEW sig, NEW bits \in Nat, IsSignal(sig, bits), NEW payload,
         NEW u \in -Pow2(sig.width)..Pow2(sig.width) - 1, Carries(payload, sig, u)
  PROVE  Unsigned(payload, sig) = IF u < 0 THEN u + Pow2(sig.width) ELSE u
<1>. DEFINE w == sig.width
            first == sig.first
            carry(n) == IF u < 0 THEN Pow2(n) ELSE 0
<1>1. w \in Nat \ {0} /\ first \in Nat
  BY DEF IsSignal
<1>2. Pow2(w) \in Nat \ {0} /\ u \in Int
  BY <1>1, Pow2Facts
<1>3. \A b \in BitsOf(sig) : payload[b] \in Int
  <2>. SUFFICES ASSUME NEW b \in BitsOf(sig)
                PROVE  payload[b] \in Int
    OBVIOUS
  <2>1. b - first \in Nat
    BY <1>1 DEF BitsOf
  <2>2. Pow2(b - first) \in Nat \ {0}
    BY <2>1, Pow2Facts
  <2>3. u \div Pow2(b - first) \in Int
    BY <1>2, <2>2, Halves
  <2>4. payload[b] = (u \div Pow2(b - first)) % 2
    BY DEF Carries
  <2>. QED  BY <2>3, <2>4, Bits
<1>4. PICK H : AreHigh(payload, sig, H) /\ Unsigned(payload, sig) = H[w]
  BY <1>3, UnsignedDef
<1>5. H[0] = 0 /\ \A n \in 1..w : H[n] = 2 * H[n-1] + payload[first + w - n]
  BY <1>1, <1>4 DEF AreHigh
<1>. DEFINE Good == {n \in Nat : n \in 0..w => H[n] = (u \div Pow2(w - n)) + carry(n)}
<1>6. 0 \in Good
  <2>1. w - 0 = w /\ Pow2(0) = 1
    BY <1>1, Pow2Facts
  <2>. DEFINE p == Pow2(w)
  <2>2. p \in Nat \ {0} /\ u \in -p..p - 1
    BY <1>2
  <2>. HIDE DEF p
  <2>3. u \div p = IF u < 0 THEN -1 ELSE 0
    BY <1>2, <2>2
  <2>. QED  BY <1>5, <2>1, <2>3 DEF p
<1>7. ASSUME NEW n \in Good
      PROVE  n + 1 \in Good
  <2>. SUFFICES ASSUME n + 1 \in 0..w
                PROVE  H[n+1] = (u \div Pow2(w - (n+1))) + carry(n+1)
    OBVIOUS
  <2>. DEFINE p == Pow2(w - (n+1))
              x == u \div p
              c == Pow2(n)
  <2>1. n \in 0..w /\ n + 1 \in 1..w /\ (n+1) - 1 = n /\ w - (n+1) \in Nat /\ (w - (n+1)) + 1 = w - n
    BY <1>1
  <2>2. p \in Nat \ {0} /\ Pow2(w - n) = 2 * p /\ c \in Nat /\ Pow2(n+1) = 2 * c
    BY <2>1, Pow2Facts
  <2>3. x \in Int /\ u \div Pow2(w - n) = x \div 2
    BY <1>2, <2>2, Halves
  <2>4. payload[first + w - (n+1)] = x % 2
    <3>1. first + w - (n+1) \in BitsOf(sig) /\ (first + w - (n+1)) - first = w - (n+1)
      BY <1>1, <2>1 DEF BitsOf
    <3>. QED  BY <3>1 DEF Carries
  <2>5. H[n] = (x \div 2) + carry(n)
    BY <2>1, <2>3
  <2>6. H[n+1] = 2 * H[n] + (x % 2)
    BY <1>5, <2>1, <2>4
  <2>. HIDE DEF x, c
  <2>7. x = 2 * (x \div 2) + (x % 2) /\ x % 2 \in {0, 1} /\ x \div 2 \in Int
    BY <2>3, Bits
  <2>8. CASE u < 0
    <3>1. H[n] = (x \div 2) + c /\ carry(n+1) = 2 * c
      BY <2>2, <2>5, <2>8 DEF c
    <3>2. H[n+1] = x + 2 * c
      BY <2>2, <2>3, <2>6, <2>7, <3>1
    <3>. QED  BY <3>1, <3>2 DEF x
  <2>9. CASE ~(u < 0)
    <3>1. H[n] = (x \div 2) + 0 /\ carry(n+1) = 0
      BY <2>5, <2>9
    <3>2. H[n+1] = x + 0
      BY <2>2, <2>3, <2>6, <2>7, <3>1
    <3>. QED  BY <3>1, <3>2 DEF x
  <2>. QED  BY <2>8, <2>9
<1>8. Good = Nat
  <2>. HIDE DEF Good
  <2>1. Good \subseteq Nat
    BY DEF Good
  <2>. QED  BY <1>6, <1>7, <2>1, Induction
<1>9. H[w] = (u \div Pow2(0)) + carry(w)
  <2>1. w \in Good /\ w \in 0..w /\ w - w = 0
    BY <1>1, <1>8
  <2>. QED  BY <2>1
<1>10. u \div Pow2(0) = u
  BY <1>2, Pow2Facts
<1>. QED  BY <1>2, <1>4, <1>9, <1>10
-----------------------------------------------------------------------------
\* The quotient of n and d, times d: between 0 and n, and less than d from n unless
\* it fell short.
NearMultiple(n, d, w) ==
  /\ Abs(n) - Abs(w) \in 0..Abs(d) /\ Abs(n) - Abs(w) = Abs(n - w)
  /\ ~Short(n, d) => Abs(n) - Abs(w) < Abs(d) /\ (Abs(n) % Abs(d) = 0 => w = n)

LEMMA Division ==
  ASSUME NEW a \in Nat, NEW d \in Nat \ {0}
  PROVE  a \div d \in Nat /\ a % d \in 0..d - 1 /\ a = d * (a \div d) + (a % d)
OBVIOUS

LEMMA QuotientFacts ==
  ASSUME NEW n \in Int, NEW d \in Int \ {0}
  PROVE  Quotient(n, d) \in Int /\ NearMultiple(n, d, Quotient(n, d) * d)
<1>. DEFINE D == Abs(d)
            short == n # 0 /\ Short(n, d)
            a == IF short THEN Abs(n) - 1 ELSE Abs(n)
            whole == a \div D
            P == D * whole
            q == IF (n < 0) = (d < 0) THEN whole ELSE -whole
<1>1. D \in Nat \ {0} /\ (D = d \/ D = -d) /\ (d < 0 <=> D # d)
  BY DEF Abs
<1>2. a \in Nat /\ Abs(n) \in Nat /\ Abs(n) - a \in {0, 1} /\ (~Short(n, d) => a = Abs(n))
  BY DEF Abs
<1>3. Quotient(n, d) = q
  BY Zenon DEF Quotient
<1>. HIDE DEF D, a
<1>4. whole \in Nat /\ a % D \in 0..D - 1 /\ a = P + (a % D)
  BY <1>1, <1>2, Division
<1>. HIDE DEF whole
<1>5. P \in Nat /\ q \in Int
  BY <1>1, <1>4
<1>6. q * d = IF n < 0 THEN -P ELSE P
  <2>1. CASE d < 0
    <3>1. d = -D
      BY <1>1, <2>1
    <3>2. (-whole) * (-D) = D * whole /\ whole * (-D) = -(D * whole)
      BY <1>1, <1>4
    <3>3. q = IF n < 0 THEN whole ELSE -whole
      BY <2>1
    <3>. QED  BY <3>1, <3>2, <3>3
  <2>2. CASE ~(d < 0)
    <3>1. d = D
      BY <1>1, <2>2
    <3>2. (-whole) * D = -(D * whole) /\ whole * D = D * whole
      BY <1>1, <1>4
    <3>3. q = IF n < 0 THEN -whole ELSE whole
      BY <2>2
    <3>. QED  BY <3>1, <3>2, <3>3
  <2>. QED  BY <2>1, <2>2
<1>. DEFINE w == q * d
<1>7. w \in Int /\ Abs(w) = P /\ Abs(n) - P = Abs(n - w)
  <2>1. Abs(n) >= P /\ w = IF n < 0 THEN -P ELSE P
    <3>. HIDE DEF P, q
    <3>. QED  BY <1>1, <1>2, <1>4, <1>5, <1>6
  <2>. HIDE DEF w, P
  <2>. QED  BY <1>5, <2>1 DEF Abs
<1>. HIDE DEF P, q
<1>8. Abs(n) - P \in 0..D
  BY <1>1, <1>2, <1>4, <1>5
<1>9. ASSUME ~Short(n, d)
      PROVE  Abs(n) - P < D /\ (Abs(n) % D = 0 => w = n)
  <2>1. Abs(n) = P + (Abs(n) % D) /\ Abs(n) % D \in 0..D - 1
    BY <1>2, <1>4, <1>9
  <2>2. Abs(n) - P < D
    BY <1>1, <1>5, <2>1
  <2>3. ASSUME Abs(n) % D = 0
        PROVE  w = n
    <3>1. Abs(n) = P
      BY <1>5, <2>1, <2>3
    <3>2. w = IF n < 0 THEN -P ELSE P
      BY <1>6
    <3>. HIDE DEF w
    <3>. QED  BY <3>1, <3>2 DEF Abs
  <2>. QED  BY <2>2, <2>3
<1>10. NearMultiple(n, d, w)
  <2>. HIDE DEF w
  <2>. QED  BY <1>7, <1>8, <1>9, Zenon DEF NearMultiple, D
<1>. QED  BY <1>3, <1>5, <1>10

\* A value that fits is decoded from the bits of its raw value.
LEMMA DecodedFloat ==
  ASSUME NEW sig, NEW bits \in Nat, IsSignal(sig, bits), NEW payload, sig.type # "Integer",
         NEW v \in Int, Fits(sig, v), Carries(payload, sig, Raw(sig, v))
  PROVE  DecodedValue(payload, sig) = v
<1>. DEFINE w == sig.width
            full == Pow2(w)
            u == FloatBits(sig.type, v)
<1>1. u \in 0..full - 1 /\ FloatValue(sig.type, u) = v
  BY Zenon DEF Fits
<1>2. Raw(sig, v) = u
  BY DEF Raw
<1>. HIDE DEF u
<1>3. full \in Nat \ {0}
  BY Pow2Facts DEF IsSignal
<1>4. u \in -full..full - 1 /\ ~(u < 0)
  BY <1>1, <1>3
<1>5. Unsigned(payload, sig) = u
  BY <1>2, <1>4, UnsignedRead
<1>6. DecodedValue(payload, sig) = FloatValue(sig.type, Unsigned(payload, sig))
  BY Zenon DEF DecodedValue
<1>. QED  BY <1>1, <1>5, <1>6

LEMMA DecodedInteger ==
  ASSUME NEW sig, NEW bits \in Nat, IsSignal(sig, bits), NEW payload, sig.type = "Integer",
         NEW v \in Int, Fits(sig, v), Carries(payload, sig, Raw(sig, v))
  PROVE  DecodedValue(payload, sig) = RawToPhys(sig, Quotient(v - sig.offset, sig.factor))
<1>. DEFINE w == sig.width
            half == Pow2(w - 1)
            full == Pow2(w)
            raw == Quotient(v - sig.offset, sig.factor)
            u == Unsigned(payload, sig)
            value(x) == RawToPhys(sig, x)
<1>1. w - 1 \in Nat /\ (w - 1) + 1 = w /\ sig.signed \in BOOLEAN
  BY DEF IsSignal
<1>2. half \in Nat \ {0} /\ full = 2 * half
  BY <1>1, Pow2Facts
<1>3. /\ raw \in (IF sig.signed THEN -half ELSE 0)..full - 1
      /\ raw < 0 => ~ReadAgain(sig, value(raw))
      /\ sig.signed /\ raw >= half => ReadAgain(sig, value(raw - full))
  BY Zenon DEF Fits
<1>4. Raw(sig, v) = raw
  BY DEF Raw, PhysToRaw
<1>. HIDE DEF raw
<1>5. raw \in -full..full - 1
  <2>. HIDE DEF half, full
  <2>. QED  BY <1>1, <1>2, <1>3
<1>6. u = IF raw < 0 THEN raw + full ELSE raw
  BY <1>4, <1>5, UnsignedRead
<1>. SUFFICES DecodedValue(payload, sig) = value(raw)
  BY DEF raw
<1>. DEFINE s == IF sig.signed /\ u >= half THEN u - full ELSE u
<1>7. DecodedValue(payload, sig) = IF ReadAgain(sig, value(s)) THEN value(u) ELSE value(s)
  BY Zenon DEF DecodedValue, Signed
<1>. HIDE DEF half, full, u, value
<1>8. CASE raw < 0
  <2>1. s = raw
    BY <1>1, <1>2, <1>3, <1>6, <1>8
  <2>. HIDE DEF s
  <2>. QED  BY <1>3, <1>7, <1>8, <2>1
<1>9. CASE raw >= 0 /\ ~(sig.signed /\ raw >= half)
  <2>1. u = raw /\ s = raw
    BY <1>1, <1>2, <1>3, <1>6, <1>9
  <2>. HIDE DEF s
  <2>. QED  BY <1>7, <2>1
<1>10. CASE raw >= 0 /\ sig.signed /\ raw >= half
  <2>1. u = raw /\ s = raw - full
    BY <1>1, <1>2, <1>3, <1>6, <1>10
  <2>. HIDE DEF s
  <2>. QED  BY <1>3, <1>7, <1>10, <2>1
<1>11. raw >= 0 \/ raw < 0
  BY <1>2, <1>5
<1>. QED  BY <1>8, <1>9, <1>10, <1>11

LEMMA Decoded ==
  ASSUME NEW sig, NEW bits \in Nat, IsSignal(sig, bits), NEW payload,
         NEW v \in Int, Fits(sig, v), Carries(payload, sig, Raw(sig, v))
  PROVE  Near(sig, v, DecodedValue(payload, sig))
<1>1. CASE sig.type # "Integer"
  <2>1. DecodedValue(payload, sig) = v
    BY <1>1, DecodedFloat
  <2>. QED  BY <1>1, <2>1, Zenon DEF Near
<1>2. CASE sig.type = "Integer"
  <2>. DEFINE n == v - sig.offset
              d == sig.factor
              raw == Quotient(n, d)
              value == DecodedValue(payload, sig)
  <2>1. n \in Int /\ d \in Int \ {0} /\ sig.offset \in Int
    BY DEF IsSignal
  <2>2. value = RawToPhys(sig, raw)
    BY <1>2, DecodedInteger
  <2>. HIDE DEF value
  <2>3. raw \in Int /\ NearMultiple(n, d, raw * d)
    <3>. HIDE DEF n, d
    <3>. QED  BY <2>1, QuotientFacts
  <2>. HIDE DEF raw
  <2>4. value = raw * d + sig.offset
    BY <2>2 DEF RawToPhys
  <2>5. raw * d \in Int
    <3>. HIDE DEF d
    <3>. QED  BY <2>1, <2>3
  <2>. DEFINE x == raw * d
  <2>. HIDE DEF x
  <2>6. NearMultiple(n, d, x) /\ x \in Int /\ value = x + sig.offset
    BY <2>3, <2>4, <2>5 DEF x
  <2>7. value - sig.offset = x /\ v - value = n - x /\ (x = n => value = v)
    BY <2>1, <2>6
  <2>8. Near(sig, v, value)
    BY <1>2, <2>6, <2>7, Zenon DEF Near, NearMultiple
  <2>. QED  BY <2>8 DEF value
<1>. QED  BY <1>1, <1>2

\* A value that is clamped is in the range.
LEMMA ClampedInRange ==
  ASSUME NEW sig, NEW bits \in Nat, IsSignal(sig, bits), NEW v \in Int
  PROVE  Clamped(sig, v) \in Int /\ (sig.min < sig.max => Clamped(sig, v) \in sig.min..sig.max)
BY DEF IsSignal, Clamped

LEMMA BitsInPayload ==
  ASSUME NEW n \in Nat, NEW sig, IsSignal(sig, n)
  PROVE  BitsOf(sig) \subseteq 0..n - 1
BY DEF IsSignal, BitsOf

\* q carries the raw value u of a signal and is p elsewhere.
Changes(p, q, sig, u) ==
  /\ Carries(q, sig, u)
  /\ \A b \in DOMAIN p \ BitsOf(sig) : q[b] = p[b]

LEMMA PutFacts ==
  ASSUME NEW n \in Nat, NEW payload, DOMAIN payload = 0..n - 1, NEW sig, IsSignal(sig, n), NEW u
  PROVE  /\ DOMAIN Put(payload, sig, u) = 0..n - 1
         /\ Changes(payload, Put(payload, sig, u), sig, u)
<1>1. BitsOf(sig) \subseteq 0..n - 1
  BY BitsInPayload
<1>. QED  BY <1>1 DEF Put, Changes, Carries

\* F[k] is the payload with the first k signals put, as Encode puts them.
ArePuts(m, vals, F) ==
  F = [k \in 0..Len(SignalsOf(m)) |->
         IF k = 0 THEN [b \in 0..SendMessages[m].bits - 1 |-> 0]
         ELSE Put(F[k-1], SignalsOf(m)[k], Raw(SignalsOf(m)[k], vals[k]))]

\* The values of the signals of a message.
AreValues(m, vals) == vals \in Seq(Int) /\ Len(vals) = Len(SignalsOf(m))

LEMMA SignalFacts ==
  ASSUME NEW m \in Indices
  PROVE  /\ SendMessages[m].bits \in Nat /\ Len(SignalsOf(m)) \in Nat
         /\ DOMAIN SignalsOf(m) = 1..Len(SignalsOf(m))
         /\ \A k \in DOMAIN SignalsOf(m) : IsSignal(SignalsOf(m)[k], SendMessages[m].bits)
<1>1. SignalsOf(m) \in Seq(Range(SignalsOf(m)))
  BY SendAssumption
<1>. QED  BY <1>1, LenProperties, SendAssumption

LEMMA ValueFacts ==
  ASSUME NEW m \in Indices, NEW vals, AreValues(m, vals), NEW k \in DOMAIN SignalsOf(m)
  PROVE  vals[k] \in Int
<1>1. k \in 1..Len(vals)
  BY SignalFacts DEF AreValues
<1>. QED  BY <1>1 DEF AreValues

LEMMA PutsExist ==
  ASSUME NEW m \in Indices, NEW vals, AreValues(m, vals)
  PROVE  \E F : ArePuts(m, vals, F)
<1>. DEFINE n == SendMessages[m].bits
            len == Len(SignalsOf(m))
            raw(k) == Raw(SignalsOf(m)[k], vals[k])
            bit(k, b) == (raw(k) \div Pow2(b - SignalsOf(m)[k].first)) % 2
            T == [0..n - 1 -> {0} \cup {bit(k, b) : k \in 1..len, b \in 0..n - 1}]
            zero == [b \in 0..n - 1 |-> 0]
            put(p, k) == Put(p, SignalsOf(m)[k], raw(k))
            step == [k \in Nat |-> [p \in T |-> IF k \in 1..len THEN put(p, k) ELSE p]]
<1>1. n \in Nat /\ len \in Nat /\ DOMAIN SignalsOf(m) = 1..len
  BY SignalFacts
<1>2. zero \in T
  OBVIOUS
<1>3. \A k \in 1..len : \A p \in T : put(p, k) \in T
  <2>. SUFFICES ASSUME NEW k \in 1..len, NEW p \in T
                PROVE  put(p, k) \in T
    OBVIOUS
  <2>1. put(p, k) = [b \in 0..n - 1 |-> IF b \in BitsOf(SignalsOf(m)[k]) THEN bit(k, b) ELSE p[b]]
    BY DEF Put
  <2>. HIDE DEF bit, put, len
  <2>. QED  BY <2>1
<1>. HIDE DEF T, zero, put, raw, len
<1>4. step \in [Nat -> [T -> T]]
  BY <1>3
<1>. HIDE DEF step
<1>5. PICK F : Stages(len, T, zero, step, F)
  BY <1>1, <1>2, <1>4, RecursionExists
<1>6. F \in [0..len -> T] /\ F[0] = zero /\ \A k \in 1..len : F[k] = step[k][F[k-1]]
  BY <1>5 DEF Stages
<1>7. ASSUME NEW k \in 0..len
      PROVE  F[k] = IF k = 0 THEN zero ELSE put(F[k-1], k)
  <2>1. CASE k = 0
    BY <1>6, <2>1
  <2>2. CASE k # 0
    <3>1. k - 1 \in 0..len /\ k \in 1..len /\ k \in Nat
      BY <1>1, <2>2
    <3>2. F[k-1] \in T
      BY <1>6, <3>1
    <3>3. step[k][F[k-1]] = put(F[k-1], k)
      BY <3>1, <3>2 DEF step
    <3>. QED  BY <1>6, <2>2, <3>1, <3>3
  <2>. QED  BY <2>1, <2>2
<1>8. F = [k \in 0..len |-> IF k = 0 THEN zero ELSE put(F[k-1], k)]
  BY <1>6, <1>7
<1>. QED  BY <1>8 DEF ArePuts, zero, put, raw, len

LEMMA EncodeDef ==
  ASSUME NEW m \in Indices, NEW vals, AreValues(m, vals)
  PROVE  \E F : ArePuts(m, vals, F) /\ Encode(m, vals) = F[Len(SignalsOf(m))]
<1>. DEFINE F == CHOOSE G : G = [k \in 0..Len(SignalsOf(m)) |->
                   IF k = 0 THEN [b \in 0..SendMessages[m].bits - 1 |-> 0]
                   ELSE Put(G[k-1], SignalsOf(m)[k], Raw(SignalsOf(m)[k], vals[k]))]
<1>1. \E G : G = [k \in 0..Len(SignalsOf(m)) |->
                   IF k = 0 THEN [b \in 0..SendMessages[m].bits - 1 |-> 0]
                   ELSE Put(G[k-1], SignalsOf(m)[k], Raw(SignalsOf(m)[k], vals[k]))]
  BY PutsExist DEF ArePuts
<1>2. F = [k \in 0..Len(SignalsOf(m)) |->
             IF k = 0 THEN [b \in 0..SendMessages[m].bits - 1 |-> 0]
             ELSE Put(F[k-1], SignalsOf(m)[k], Raw(SignalsOf(m)[k], vals[k]))]
  BY <1>1, Zenon
<1>3. Encode(m, vals) = F[Len(SignalsOf(m))]
  BY Zenon DEF Encode
<1>. QED  BY <1>2, <1>3 DEF ArePuts

\* A frame carries each value whose bits no other signal uses.
LEMMA Encoded ==
  ASSUME NEW m \in Indices, NEW vals, AreValues(m, vals)
  PROVE  /\ DOMAIN Encode(m, vals) = 0..SendMessages[m].bits - 1
         /\ \A k \in DOMAIN SignalsOf(m) : Alone(m, k) =>
              Carries(Encode(m, vals), SignalsOf(m)[k], Raw(SignalsOf(m)[k], vals[k]))
<1>. DEFINE n == SendMessages[m].bits
            len == Len(SignalsOf(m))
            raw(k) == Raw(SignalsOf(m)[k], vals[k])
            Carried(p, k) == Carries(p, SignalsOf(m)[k], raw(k))
<1>1. PICK F : ArePuts(m, vals, F) /\ Encode(m, vals) = F[len]
  BY EncodeDef
<1>2. n \in Nat /\ len \in Nat /\ DOMAIN SignalsOf(m) = 1..len
  BY SignalFacts
<1>3. F[0] = [b \in 0..n - 1 |-> 0]
  BY <1>1, <1>2 DEF ArePuts
<1>4. \A k \in 1..len : F[k] = Put(F[k-1], SignalsOf(m)[k], raw(k))
  <2>. SUFFICES ASSUME NEW k \in 1..len
                PROVE  F[k] = Put(F[k-1], SignalsOf(m)[k], raw(k))
    OBVIOUS
  <2>1. k \in 0..len /\ k # 0
    BY <1>2
  <2>2. F = [i \in 0..len |-> IF i = 0 THEN [b \in 0..n - 1 |-> 0]
                              ELSE Put(F[i-1], SignalsOf(m)[i], raw(i))]
    BY <1>1 DEF ArePuts
  <2>. HIDE DEF len, raw
  <2>. QED  BY <2>1, <2>2
<1>. DEFINE Sound(p, j) == DOMAIN p = 0..n - 1 /\ \A k \in 1..j : Alone(m, k) => Carried(p, k)
            Good == {j \in Nat : j \in 0..len => Sound(F[j], j)}
<1>5. 0 \in Good
  BY <1>3
<1>6. ASSUME NEW j \in Good
      PROVE  j + 1 \in Good
  <2>. SUFFICES ASSUME j + 1 \in 0..len
                PROVE  Sound(F[j+1], j+1)
    OBVIOUS
  <2>. DEFINE sig == SignalsOf(m)[j+1]
              p == F[j]
              q == F[j+1]
  <2>1. j \in 0..len /\ j + 1 \in 1..len /\ (j+1) - 1 = j
    BY <1>2
  <2>2. DOMAIN p = 0..n - 1 /\ \A k \in 1..j : Alone(m, k) => Carried(p, k)
    BY <2>1
  <2>3. q = Put(p, sig, raw(j+1))
    BY <1>4, <2>1
  <2>4. IsSignal(sig, n)
    BY <1>2, <2>1, SignalFacts
  <2>5. DOMAIN q = 0..n - 1 /\ Changes(p, q, sig, raw(j+1))
    BY <1>2, <2>2, <2>3, <2>4, PutFacts
  <2>6. ASSUME NEW k \in 1..j, Alone(m, k)
        PROVE  Carried(q, k)
    <3>1. k \in 1..len /\ k # j + 1
      BY <1>2, <2>1
    <3>2. BitsOf(SignalsOf(m)[k]) \cap BitsOf(sig) = {}
      BY <1>2, <2>1, <2>6, <3>1 DEF Alone
    <3>3. BitsOf(SignalsOf(m)[k]) \subseteq 0..n - 1
      <4>1. IsSignal(SignalsOf(m)[k], n)
        BY <1>2, <3>1, SignalFacts
      <4>. QED  BY <1>2, <4>1, BitsInPayload
    <3>4. \A b \in BitsOf(SignalsOf(m)[k]) : q[b] = p[b]
      BY <2>2, <2>5, <3>2, <3>3 DEF Changes
    <3>5. Carried(p, k)
      BY <2>2, <2>6
    <3>. HIDE DEF p, q
    <3>. QED  BY <3>4, <3>5 DEF Carries
  <2>7. \A k \in 1..j+1 : k \in 1..j \/ k = j + 1
    OBVIOUS
  <2>8. Carried(q, j+1)
    BY <2>5 DEF Changes
  <2>. HIDE DEF Carried, q
  <2>. QED  BY <2>5, <2>6, <2>7, <2>8 DEF q
<1>7. Good = Nat
  <2>. HIDE DEF Good
  <2>1. Good \subseteq Nat
    BY DEF Good
  <2>. QED  BY <1>5, <1>6, <2>1, Induction
<1>8. Sound(F[len], len)
  <2>1. len \in Good /\ len \in 0..len
    BY <1>2, <1>7
  <2>. QED  BY <2>1
<1>. QED  BY <1>1, <1>2, <1>8

LEMMA KeptElsewhere ==
  ASSUME NEW m \in Indices, NEW k \in DOMAIN SignalsOf(m), NEW l \in DOMAIN SignalsOf(m), k # l,
         Alone(m, k), NEW p, DOMAIN p = 0..SendMessages[m].bits - 1, NEW q, NEW v,
         Changes(p, q, SignalsOf(m)[l], v), NEW u, Carries(p, SignalsOf(m)[k], u)
  PROVE  Carries(q, SignalsOf(m)[k], u)
<1>. DEFINE n == SendMessages[m].bits
            sig == SignalsOf(m)[k]
            other == SignalsOf(m)[l]
<1>1. BitsOf(sig) \cap BitsOf(other) = {}
  BY DEF Alone
<1>2. BitsOf(sig) \subseteq 0..n - 1
  BY SignalFacts, BitsInPayload
<1>3. \A b \in DOMAIN p \ BitsOf(other) : q[b] = p[b]
  BY DEF Changes
<1>4. DOMAIN p = 0..n - 1
  OBVIOUS
<1>5. \A b \in BitsOf(sig) : q[b] = p[b]
  BY <1>1, <1>2, <1>3, <1>4
<1>. HIDE DEF sig
<1>. QED  BY <1>5 DEF Carries, sig

-----------------------------------------------------------------------------
(* What is sent: the rows of the actions                                   *)

\* What is left of an action: its frame is that of what was shown, or for a sine
\* of the GUI or a preset its base with another value of one signal.
IsRow(a) ==
  /\ DOMAIN a = {"type", "msg", "drives", "base", "shown", "payload"}
  /\ a.msg \in Indices /\ AreValues(a.msg, a.shown)
  /\ a.type = "Sin" => a.drives \in DOMAIN SignalsOf(a.msg)
  /\ a.base # <<>> => a.base = Encode(a.msg, a.shown)
  /\ a.payload # <<>> /\ ~Confined(a) => a.payload = Encode(a.msg, a.shown)
  /\ a.payload # <<>> /\ Confined(a) =>
       \E v \in Int : a.payload = Driven(a.base, SignalsOf(a.msg)[a.drives], v)
AreRows(s) == s \in Seq(Range(s)) /\ \A i \in DOMAIN s : IsRow(s[i])

ValuesType ==
  /\ values \in [Indices -> Seq(Int)]
  /\ \A m \in Indices : Len(values[m]) = Len(SignalsOf(m))
WindowType ==
  /\ window \in [msg : {0} \cup Indices, values : Seq(Int), sine : Nat \ {0}]
  /\ window.msg # 0 => Len(window.values) = Len(SignalsOf(window.msg))
EditType == edit \in [row : Nat, values : Seq(Int)]
ActionsType == AreRows(actions) /\ Len(actions) <= MaxActions
FrontType == front \in {"gui", "tui", "ub"} /\ edits \in 0..MaxEdits

SendInv == FrontType /\ ValuesType /\ WindowType /\ EditType /\ ActionsType

LEMMA SendTypes == SendInv => SendTypeOK
BY DEF SendInv, FrontType, ValuesType, WindowType, EditType, ActionsType, AreRows, IsRow,
       SendTypeOK

\* What a row has sent is as it was shown.
AsShown(a) ==
  /\ \A k \in Telling(a) : ~Confined(a) \/ k # a.drives =>
       Near(SignalsOf(a.msg)[k], a.shown[k], DecodedValue(a.payload, SignalsOf(a.msg)[k]))
  /\ Confined(a) => SineConfined(a)

LEMMA RowAsShown ==
  ASSUME NEW a, IsRow(a), a.payload # <<>>
  PROVE  AsShown(a)
<1>. DEFINE m == a.msg
            n == SendMessages[m].bits
            value(k) == a.shown[k]
            raw(k) == Raw(SignalsOf(m)[k], value(k))
            frame == Encode(m, a.shown)
<1>1. m \in Indices /\ AreValues(m, a.shown)
  BY DEF IsRow
<1>2. /\ DOMAIN frame = 0..n - 1
      /\ \A k \in DOMAIN SignalsOf(m) : Alone(m, k) => Carries(frame, SignalsOf(m)[k], raw(k))
  BY <1>1, Encoded
<1>3. n \in Nat /\ \A k \in DOMAIN SignalsOf(m) : IsSignal(SignalsOf(m)[k], n) /\ value(k) \in Int
  BY <1>1, SignalFacts, ValueFacts
<1>4. ASSUME NEW k \in Telling(a)
      PROVE  /\ k \in DOMAIN SignalsOf(m) /\ Alone(m, k) /\ Fits(SignalsOf(m)[k], value(k))
             /\ Carries(a.payload, SignalsOf(m)[k], raw(k)) =>
                  Near(SignalsOf(m)[k], value(k), DecodedValue(a.payload, SignalsOf(m)[k]))
  <2>1. k \in DOMAIN SignalsOf(m) /\ Alone(m, k) /\ Fits(SignalsOf(m)[k], value(k))
    BY DEF Telling
  <2>. DEFINE sig == SignalsOf(m)[k]
  <2>2. IsSignal(sig, n) /\ value(k) \in Int
    BY <1>3, <2>1
  <2>3. Carries(a.payload, sig, raw(k)) => Near(sig, value(k), DecodedValue(a.payload, sig))
    BY <1>3, <2>1, <2>2, Decoded
  <2>. QED  BY <2>1, <2>3
<1>. HIDE DEF raw, value, frame, n
<1>5. CASE ~Confined(a)
  <2>1. a.payload = frame
    BY <1>5 DEF IsRow, frame
  <2>2. ASSUME NEW k \in Telling(a)
        PROVE  Near(SignalsOf(m)[k], value(k), DecodedValue(a.payload, SignalsOf(m)[k]))
    BY <1>2, <1>4, <2>1
  <2>. QED  BY <1>5, <2>2 DEF AsShown, value
<1>6. CASE Confined(a)
  <2>. DEFINE d == a.drives
              sig == SignalsOf(m)[d]
  <2>1. d \in DOMAIN SignalsOf(m) /\ a.base = frame
    BY <1>6 DEF IsRow, Confined, frame
  <2>2. PICK v \in Int : a.payload = Driven(frame, sig, v)
    BY <1>6, <2>1 DEF IsRow
  <2>. DEFINE c == Clamped(sig, v)
              u == PhysToRaw(sig, c)
  <2>3. IsSignal(sig, n)
    BY <1>3, <2>1
  <2>4. c \in Int /\ (sig.min < sig.max => c \in sig.min..sig.max)
    BY <1>3, <2>3, ClampedInRange
  <2>5. a.payload = Put(frame, sig, u)
    BY <2>2 DEF Driven
  <2>. HIDE DEF u
  <2>6. Changes(frame, a.payload, sig, u)
    BY <1>2, <1>3, <2>3, <2>5, PutFacts
  <2>. HIDE DEF c
  <2>7. ASSUME NEW k \in Telling(a), k # d
        PROVE  Near(SignalsOf(m)[k], value(k), DecodedValue(a.payload, SignalsOf(m)[k]))
    <3>1. k \in DOMAIN SignalsOf(m) /\ Alone(m, k)
      BY <1>4
    <3>2. Carries(frame, SignalsOf(m)[k], raw(k))
      BY <1>2, <3>1
    <3>3. Carries(a.payload, SignalsOf(m)[k], raw(k))
      BY <1>1, <1>2, <2>1, <2>6, <2>7, <3>1, <3>2, KeptElsewhere DEF n
    <3>. QED  BY <1>4, <3>3
  <2>8. ASSUME sig.type = "Integer", sig.min < sig.max, \A x \in sig.min..sig.max : Fits(sig, x)
        PROVE  \E x \in sig.min..sig.max : Near(sig, x, DecodedValue(a.payload, sig))
    <3>1. c \in sig.min..sig.max /\ Fits(sig, c)
      BY <2>4, <2>8
    <3>2. Carries(a.payload, sig, Raw(sig, c))
      BY <2>6, <2>8 DEF Changes, Raw, u
    <3>3. Near(sig, c, DecodedValue(a.payload, sig))
      BY <1>3, <2>3, <2>4, <3>1, <3>2, Decoded
    <3>. QED  BY <3>1, <3>3
  <2>9. SineConfined(a)
    BY <2>8, Zenon DEF SineConfined
  <2>10. \A k \in Telling(a) : ~Confined(a) \/ k # a.drives =>
           Near(SignalsOf(a.msg)[k], a.shown[k], DecodedValue(a.payload, SignalsOf(a.msg)[k]))
    BY <1>6, <2>7, Zenon DEF value
  <2>. QED  BY <2>9, <2>10 DEF AsShown
<1>. QED  BY <1>5, <1>6

\* The rows of a sequence are of some set.
LEMMA RowsOf ==
  ASSUME NEW T, NEW s \in Seq(T), \A i \in 1..Len(s) : IsRow(s[i])
  PROVE  AreRows(s)
<1>1. s \in Seq(Range(s)) /\ DOMAIN s = 1..Len(s)
  BY SeqOfRange, LenProperties
<1>. QED  BY <1>1 DEF AreRows

LEMMA RowsAppend ==
  ASSUME NEW s, AreRows(s), NEW a, IsRow(a)
  PROVE  AreRows(Append(s, a)) /\ Len(Append(s, a)) = Len(s) + 1
<1>. DEFINE T == Range(s) \cup {a}
            t == Append(s, a)
<1>1. s \in Seq(Range(s)) /\ DOMAIN s = 1..Len(s) /\ Len(s) \in Nat
  BY LenProperties DEF AreRows
<1>2. s \in Seq(T) /\ a \in T
  <2>1. Range(s) \subseteq T /\ a \in T
    OBVIOUS
  <2>. HIDE DEF T
  <2>. QED  BY <1>1, <2>1, SeqMonotonic
<1>. HIDE DEF T
<1>3. /\ t \in Seq(T) /\ Len(t) = Len(s) + 1 /\ t[Len(s) + 1] = a
      /\ \A i \in 1..Len(s) : t[i] = s[i]
  BY <1>2, AppendProperties
<1>. HIDE DEF t
<1>4. \A i \in 1..Len(t) : i \in DOMAIN s \/ i = Len(s) + 1
  BY <1>1, <1>3
<1>5. \A i \in 1..Len(t) : IsRow(t[i])
  BY <1>1, <1>3, <1>4 DEF AreRows
<1>. QED  BY <1>3, <1>5, RowsOf DEF t

LEMMA RowsExcept ==
  ASSUME NEW s, AreRows(s), NEW i \in DOMAIN s, NEW a, IsRow(a)
  PROVE  AreRows([s EXCEPT ![i] = a]) /\ Len([s EXCEPT ![i] = a]) = Len(s)
<1>. DEFINE T == Range(s) \cup {a}
            t == [s EXCEPT ![i] = a]
<1>1. s \in Seq(Range(s)) /\ DOMAIN s = 1..Len(s) /\ Len(s) \in Nat
  BY LenProperties DEF AreRows
<1>2. s \in Seq(T) /\ a \in T
  <2>1. Range(s) \subseteq T /\ a \in T
    OBVIOUS
  <2>. HIDE DEF T
  <2>. QED  BY <1>1, <2>1, SeqMonotonic
<1>. HIDE DEF T
<1>3. t \in Seq(T) /\ Len(t) = Len(s) /\ \A k \in 1..Len(s) : t[k] = IF k = i THEN a ELSE s[k]
  BY <1>1, <1>2, ExceptSeq
<1>. HIDE DEF t
<1>4. \A k \in 1..Len(t) : IsRow(t[k])
  BY <1>1, <1>3 DEF AreRows
<1>. QED  BY <1>3, <1>4, RowsOf DEF t

LEMMA RowsRemove ==
  ASSUME NEW s, AreRows(s), NEW i \in DOMAIN s
  PROVE  AreRows(RemoveAt(s, i)) /\ Len(RemoveAt(s, i)) = Len(s) - 1
<1>. DEFINE T == Range(s)
            t == RemoveAt(s, i)
<1>1. s \in Seq(T) /\ DOMAIN s = 1..Len(s) /\ Len(s) \in Nat
  BY LenProperties DEF AreRows
<1>. HIDE DEF T
<1>2. /\ t \in Seq(T) /\ Len(t) = Len(s) - 1
      /\ \A k \in 1..Len(s) - 1 : t[k] = s[IF k < i THEN k ELSE k + 1]
  BY <1>1, RemovedAt
<1>. HIDE DEF t
<1>3. \A k \in 1..Len(t) : (IF k < i THEN k ELSE k + 1) \in DOMAIN s
  <2>. SUFFICES ASSUME NEW k \in 1..Len(t)
                PROVE  (IF k < i THEN k ELSE k + 1) \in DOMAIN s
    OBVIOUS
  <2>. QED  BY <1>1, <1>2
<1>4. \A k \in 1..Len(t) : IsRow(t[k])
  BY <1>2, <1>3 DEF AreRows
<1>. QED  BY <1>2, <1>4, RowsOf DEF t

LEMMA ActionIsRow ==
  ASSUME NEW type, NEW m \in Indices, NEW drives, NEW base, NEW vals, AreValues(m, vals),
         base # <<>> => base = Encode(m, vals),
         type = "Sin" => drives \in DOMAIN SignalsOf(m)
  PROVE  IsRow(Action(type, m, drives, base, vals))
<1>. DEFINE a == Action(type, m, drives, base, vals)
<1>1. /\ DOMAIN a = {"type", "msg", "drives", "base", "shown", "payload"}
      /\ a.type = type /\ a.msg = m /\ a.drives = drives /\ a.base = base /\ a.shown = vals
      /\ a.payload = IF type = "Sin" THEN <<>> ELSE base
  BY DEF Action
<1>. HIDE DEF a
<1>2. a.payload # <<>> => ~Confined(a) /\ a.payload = base
  BY <1>1 DEF Confined
<1>3. IsRow(a)
  BY <1>1, <1>2 DEF IsRow
<1>. QED  BY <1>3 DEF a

\* The values of one message, or one of them, change.
LEMMA ValuesSet ==
  ASSUME ValuesType, NEW m \in Indices, NEW w \in Seq(Int), Len(w) = Len(SignalsOf(m)),
         values' = [values EXCEPT ![m] = w]
  PROVE  ValuesType'
BY DEF ValuesType, Indices, SignalsOf

LEMMA ValueSet ==
  ASSUME ValuesType, NEW m \in Indices, NEW k \in DOMAIN values[m], NEW v \in Int,
         values' = [values EXCEPT ![m][k] = v]
  PROVE  ValuesType'
<1>. DEFINE w == [values[m] EXCEPT ![k] = v]
<1>1. values[m] \in Seq(Int) /\ Len(values[m]) = Len(SignalsOf(m))
  BY DEF ValuesType
<1>2. w \in Seq(Int) /\ Len(w) = Len(SignalsOf(m))
  BY <1>1, ExceptSeq, LenProperties
<1>3. values' = [values EXCEPT ![m] = w]
  OBVIOUS
<1>. HIDE DEF w
<1>. QED  BY <1>2, <1>3, ValuesSet

\* What is read of the presets: the values of the model, and their actions.
AreRead(acc) ==
  /\ DOMAIN acc.values = Indices /\ \A m \in Indices : AreValues(m, acc.values[m])
  /\ AreRows(acc.actions)

LEMMA EntryRead ==
  ASSUME NEW acc, AreRead(acc), NEW entry,
         \A k \in DOMAIN entry.signals : entry.signals[k] \in Int
  PROVE  AreRead(PresetEntry(acc, entry))
<1>. DEFINE m == entry.msg
            bad == m \notin Indices \/ (entry.type = "Sin" /\ entry.drives \notin DOMAIN SignalsOf(m))
            set == [acc.values EXCEPT ![m] = [k \in DOMAIN @ |->
                      IF k \in DOMAIN entry.signals THEN entry.signals[k] ELSE @[k]]]
            a == Action(entry.type, m, entry.drives, Encode(m, set[m]), set[m])
<1>1. CASE bad
  <2>1. PresetEntry(acc, entry) = acc
    BY <1>1, Zenon DEF PresetEntry
  <2>. QED  BY <2>1
<1>2. CASE ~bad
  <2>1. PresetEntry(acc, entry) = [values |-> set, actions |-> Append(acc.actions, a)]
    BY <1>2, Zenon DEF PresetEntry
  <2>2. m \in Indices /\ (entry.type = "Sin" => entry.drives \in DOMAIN SignalsOf(m))
    BY <1>2
  <2>. DEFINE old == acc.values[m]
              new == [k \in DOMAIN old |-> IF k \in DOMAIN entry.signals THEN entry.signals[k]
                                           ELSE old[k]]
  <2>3. AreValues(m, new)
    <3>1. old \in Seq(Int) /\ Len(old) = Len(SignalsOf(m))
      BY <2>2 DEF AreRead, AreValues
    <3>2. DOMAIN old = 1..Len(old) /\ Len(old) \in Nat /\ \A k \in DOMAIN old : old[k] \in Int
      BY <3>1, LenProperties
    <3>. HIDE DEF old
    <3>3. new = [k \in 1..Len(old) |-> IF k \in DOMAIN entry.signals THEN entry.signals[k]
                                       ELSE old[k]]
      BY <3>2
    <3>4. new \in Seq(Int) /\ Len(new) = Len(old)
      BY <3>2, <3>3
    <3>. QED  BY <3>1, <3>4 DEF AreValues
  <2>4. set = [acc.values EXCEPT ![m] = new]
    OBVIOUS
  <2>. HIDE DEF new
  <2>5. DOMAIN set = Indices /\ set[m] = new /\ \A l \in Indices \ {m} : set[l] = acc.values[l]
    BY <2>2, <2>4 DEF AreRead
  <2>. HIDE DEF set
  <2>6. \A l \in Indices : AreValues(l, set[l])
    BY <2>3, <2>5 DEF AreRead
  <2>7. IsRow(a)
    BY <2>2, <2>6, ActionIsRow
  <2>. HIDE DEF a
  <2>8. /\ PresetEntry(acc, entry).actions = Append(acc.actions, a)
        /\ PresetEntry(acc, entry).values = set
    BY <2>1
  <2>9. AreRows(Append(acc.actions, a))
    BY <2>7, RowsAppend DEF AreRead
  <2>. QED  BY <2>5, <2>6, <2>8, <2>9 DEF AreRead
<1>. QED  BY <1>1, <1>2

\* F are the stages of the presets whose first n entries are read.
Reading(n, F) ==
  F = [k \in 0..n |-> IF k = 0 THEN [values |-> NoValues, actions |-> <<>>]
                      ELSE PresetEntry(F[k-1], PresetFile[k])]

LEMMA ReadingExists ==
  ASSUME NEW n \in Nat
  PROVE  \E F : Reading(n, F)
<1>. DEFINE none == [values |-> NoValues, actions |-> <<>>]
            P == {k \in Nat : \E F : Reading(k, F)}
<1>1. 0 \in P
  <2>. DEFINE F == [i \in 0..0 |-> none]
  <2>1. F = [k \in 0..0 |-> IF k = 0 THEN none ELSE PresetEntry(F[k-1], PresetFile[k])]
    OBVIOUS
  <2>. QED  BY <2>1 DEF Reading
<1>2. ASSUME NEW m \in P
      PROVE  m + 1 \in P
  <2>1. PICK F : Reading(m, F)
    OBVIOUS
  <2>. DEFINE G == [i \in 0..m+1 |-> IF i \in 0..m THEN F[i] ELSE PresetEntry(F[i-1], PresetFile[i])]
  <2>2. \A i \in 0..m+1 : G[i] = IF i = 0 THEN none ELSE PresetEntry(G[i-1], PresetFile[i])
    <3>. SUFFICES ASSUME NEW i \in 0..m+1
                  PROVE  G[i] = IF i = 0 THEN none ELSE PresetEntry(G[i-1], PresetFile[i])
      OBVIOUS
    <3>1. CASE i \in 0..m
      <4>1. G[i] = F[i] /\ (i # 0 => i - 1 \in 0..m /\ i - 1 \in 0..m+1 /\ G[i-1] = F[i-1])
        BY <3>1
      <4>2. F[i] = IF i = 0 THEN none ELSE PresetEntry(F[i-1], PresetFile[i])
        BY <2>1, <3>1 DEF Reading
      <4>. QED  BY <4>1, <4>2
    <3>2. CASE i = m + 1
      <4>1. G[i] = PresetEntry(F[i-1], PresetFile[i]) /\ i # 0
        BY <3>2
      <4>2. G[i-1] = F[i-1]
        BY <3>2
      <4>. QED  BY <4>1, <4>2
    <3>. QED  BY <3>1, <3>2
  <2>3. Reading(m + 1, G)
    BY <2>2 DEF Reading
  <2>. QED  BY <2>3
<1>3. P = Nat
  <2>. HIDE DEF P
  <2>1. P \subseteq Nat
    BY DEF P
  <2>. QED  BY <1>1, <1>2, <2>1, Induction
<1>. QED  BY <1>3

LEMMA NothingSet ==
  /\ NoValues \in [Indices -> Seq(Int)] /\ DOMAIN NoValues = Indices
  /\ \A m \in Indices : AreValues(m, NoValues[m])
<1>1. ASSUME NEW m \in Indices
      PROVE  NoValues[m] \in Seq(Int) /\ Len(NoValues[m]) = Len(SignalsOf(m))
  <2>1. DOMAIN SignalsOf(m) = 1..Len(SignalsOf(m)) /\ Len(SignalsOf(m)) \in Nat
    BY SignalFacts
  <2>2. NoValues[m] = [k \in 1..Len(SignalsOf(m)) |-> 0]
    BY <2>1 DEF NoValues
  <2>. QED  BY <2>1, <2>2
<1>. QED  BY <1>1 DEF NoValues, AreValues

LEMMA PresetsAreRows == AreRows(Presets)
<1>. DEFINE n == Len(PresetFile)
            none == [values |-> NoValues, actions |-> <<>>]
            F == CHOOSE G : G = [k \in 0..n |-> IF k = 0 THEN none
                                                ELSE PresetEntry(G[k-1], PresetFile[k])]
            Good == {k \in Nat : k \in 0..n => AreRead(F[k])}
<1>1. n \in Nat
  BY SendAssumption
<1>2. \E G : G = [k \in 0..n |-> IF k = 0 THEN none ELSE PresetEntry(G[k-1], PresetFile[k])]
  BY <1>1, ReadingExists DEF Reading
<1>3. F = [k \in 0..n |-> IF k = 0 THEN none ELSE PresetEntry(F[k-1], PresetFile[k])]
  BY <1>2, Zenon
<1>4. Presets = F[n].actions
  BY Zenon DEF Presets
<1>. HIDE DEF F, n
<1>5. 0 \in Good
  <2>1. F[0] = none
    BY <1>1, <1>3
  <2>2. AreRows(<<>>)
    BY EmptySeq DEF AreRows
  <2>3. AreRead(none)
    BY <2>2, NothingSet DEF AreRead
  <2>. QED  BY <2>1, <2>3
<1>6. ASSUME NEW k \in Good
      PROVE  k + 1 \in Good
  <2>. SUFFICES ASSUME k + 1 \in 0..n
                PROVE  AreRead(F[k+1])
    OBVIOUS
  <2>1. k \in 0..n /\ (k+1)-1 = k /\ k + 1 # 0
    BY <1>1
  <2>2. F[k+1] = PresetEntry(F[k], PresetFile[k+1])
    BY <1>3, <2>1
  <2>3. k + 1 \in 1..Len(PresetFile)
    BY <1>1, <2>1 DEF n
  <2>4. \A l \in DOMAIN PresetFile[k+1].signals : PresetFile[k+1].signals[l] \in Int
    BY <2>3, SendAssumption
  <2>5. AreRead(F[k])
    BY <2>1
  <2>. HIDE DEF Good
  <2>. QED  BY <2>2, <2>4, <2>5, EntryRead
<1>7. Good = Nat
  <2>. HIDE DEF Good
  <2>1. Good \subseteq Nat
    BY DEF Good
  <2>. QED  BY <1>5, <1>6, <2>1, Induction
<1>8. AreRead(F[n])
  <2>1. n \in Good /\ n \in 0..n
    BY <1>1, <1>7
  <2>. QED  BY <2>1
<1>. QED  BY <1>4, <1>8 DEF AreRead

LEMMA SendInitInv == SendInit => SendInv
<1>. SUFFICES ASSUME SendInit
              PROVE  SendInv
  OBVIOUS
<1>1. FrontType
  BY SendAssumption DEF SendInit, FrontType
<1>2. ValuesType
  BY NothingSet DEF SendInit, ValuesType, AreValues
<1>3. WindowType
  BY EmptySeq DEF SendInit, WindowType
<1>4. EditType
  BY EmptySeq DEF SendInit, EditType
<1>5. ActionsType
  BY PresetsAreRows, SendAssumption DEF SendInit, ActionsType
<1>. QED  BY <1>1, <1>2, <1>3, <1>4, <1>5 DEF SendInv

LEMMA SameFront == FrontType /\ UNCHANGED <<front, edits>> => FrontType'
BY DEF FrontType
LEMMA SameValues == ValuesType /\ UNCHANGED values => ValuesType'
BY DEF ValuesType
LEMMA SameWindow == WindowType /\ UNCHANGED window => WindowType'
BY DEF WindowType
LEMMA SameEdit == EditType /\ UNCHANGED edit => EditType'
BY DEF EditType
LEMMA SameActions == ActionsType /\ UNCHANGED actions => ActionsType'
BY DEF ActionsType

LEMMA RowOf ==
  ASSUME ActionsType, NEW i \in DOMAIN actions
  PROVE  actions[i].msg \in Indices
BY DEF ActionsType, AreRows, IsRow

LEMMA ValuesAre ==
  ASSUME ValuesType, NEW m \in Indices
  PROVE  AreValues(m, values[m])
BY DEF ValuesType, AreValues

LEMMA Entered == FrontType /\ Enter /\ UNCHANGED front => FrontType'
BY SendAssumption DEF FrontType, Enter

LEMMA ActionAdded ==
  ASSUME ActionsType, NEW a, IsRow(a), AddAction(a)
  PROVE  ActionsType'
<1>1. actions' = Append(actions, a) /\ Len(actions) < MaxActions
  BY DEF AddAction
<1>2. AreRows(actions') /\ Len(actions') = Len(actions) + 1
  BY <1>1, RowsAppend DEF ActionsType
<1>3. Len(actions) \in Nat
  BY LenProperties DEF ActionsType, AreRows
<1>4. Len(actions') <= MaxActions
  BY <1>1, <1>2, <1>3, SendAssumption
<1>. QED  BY <1>2, <1>4 DEF ActionsType

LEMMA RowChanged ==
  ASSUME ActionsType, NEW i \in DOMAIN actions, NEW a, IsRow(a),
         actions' = [actions EXCEPT ![i] = a]
  PROVE  ActionsType'
<1>1. AreRows(actions') /\ Len(actions') = Len(actions)
  BY RowsExcept DEF ActionsType
<1>. QED  BY <1>1 DEF ActionsType

\* The next frame of a sine: its base with another value, or the model's values.
LEMMA BaseSent ==
  ASSUME NEW r, IsRow(r), r.type = "Sin", r.base # <<>>, NEW v \in Int, NEW p,
         p = Driven(r.base, SignalsOf(r.msg)[r.drives], v)
  PROVE  IsRow([r EXCEPT !.payload = p])
<1>. DEFINE a == [r EXCEPT !.payload = p]
<1>1. /\ DOMAIN a = {"type", "msg", "drives", "base", "shown", "payload"} /\ a.payload = p
      /\ a.type = r.type /\ a.msg = r.msg /\ a.drives = r.drives /\ a.base = r.base
      /\ a.shown = r.shown
  BY DEF IsRow
<1>. HIDE DEF a
<1>2. Confined(a)
  BY <1>1 DEF Confined
<1>3. \E u \in Int : a.payload = Driven(a.base, SignalsOf(a.msg)[a.drives], u)
  BY <1>1
<1>4. /\ a.msg \in Indices /\ AreValues(a.msg, a.shown) /\ a.drives \in DOMAIN SignalsOf(a.msg)
      /\ a.base = Encode(a.msg, a.shown)
  BY <1>1 DEF IsRow
<1>5. IsRow(a)
  BY <1>1, <1>2, <1>3, <1>4, Zenon DEF IsRow
<1>. QED  BY <1>5 DEF a

LEMMA ModelSent ==
  ASSUME NEW r, IsRow(r), ~(r.base # <<>>), NEW w, AreValues(r.msg, w),
         NEW p, p = Encode(r.msg, w)
  PROVE  IsRow([r EXCEPT !.payload = p, !.shown = w])
<1>. DEFINE a == [r EXCEPT !.payload = p, !.shown = w]
<1>1. /\ DOMAIN a = {"type", "msg", "drives", "base", "shown", "payload"}
      /\ a.payload = p /\ a.shown = w
      /\ a.type = r.type /\ a.msg = r.msg /\ a.drives = r.drives /\ a.base = r.base
  BY DEF IsRow
<1>. HIDE DEF a
<1>2. ~Confined(a)
  BY <1>1 DEF Confined
<1>3. /\ a.msg \in Indices /\ AreValues(a.msg, a.shown) /\ a.payload = Encode(a.msg, a.shown)
      /\ a.type = "Sin" => a.drives \in DOMAIN SignalsOf(a.msg)
  BY <1>1 DEF IsRow
<1>4. IsRow(a)
  BY <1>1, <1>2, <1>3, Zenon DEF IsRow
<1>. QED  BY <1>4 DEF a

LEMMA TickStep ==
  ASSUME SendInv, NEW i \in DOMAIN actions, NEW v \in SendValues, Tick(i, v)
  PROVE  SendInv'
<1>. DEFINE m == actions[i].msg
            k == actions[i].drives
<1>1. UNCHANGED <<front, window, edit, edits>>
  BY DEF Tick
<1>2. m \in Indices /\ IsRow(actions[i]) /\ v \in Int /\ actions[i].type = "Sin"
  BY SendAssumption DEF SendInv, ActionsType, AreRows, IsRow, Tick
<1>3. CASE actions[i].base # <<>>
  <2>. DEFINE p == Driven(actions[i].base, SignalsOf(m)[k], v)
              a == [actions[i] EXCEPT !.payload = p]
  <2>1. actions' = [actions EXCEPT ![i].payload = p] /\ values' = values
    BY <1>3, Zenon DEF Tick
  <2>2. actions' = [actions EXCEPT ![i] = a]
    <3>. HIDE DEF p
    <3>. QED  BY <2>1
  <2>3. IsRow(a)
    BY <1>2, <1>3, BaseSent
  <2>. HIDE DEF a
  <2>. QED  BY <1>1, <2>1, <2>2, <2>3, RowChanged, SameFront, SameValues, SameWindow, SameEdit
            DEF SendInv
<1>4. CASE ~(actions[i].base # <<>>)
  <2>. DEFINE p == Encode(m, values'[m])
              w == values'[m]
              a == [actions[i] EXCEPT !.payload = p, !.shown = w]
  <2>1. /\ actions' = [actions EXCEPT ![i].payload = p, ![i].shown = w]
        /\ values' = [values EXCEPT ![m][k] = v]
    BY <1>4, Zenon DEF Tick
  <2>2. ValuesType'
    <3>1. CASE k \in DOMAIN values[m]
      BY <1>2, <2>1, <3>1, ValueSet DEF SendInv
    <3>2. CASE k \notin DOMAIN values[m]
      <4>1. [values[m] EXCEPT ![k] = v] = values[m]
        BY <1>2, <3>2 DEF SendInv, ValuesType
      <4>2. values' = values
        BY <1>2, <2>1, <4>1 DEF SendInv, ValuesType
      <4>. QED  BY <4>2, SameValues DEF SendInv
    <3>. QED  BY <3>1, <3>2
  <2>3. actions' = [actions EXCEPT ![i] = a]
    <3>. HIDE DEF p, w
    <3>. QED  BY <2>1
  <2>4. IsRow(a)
    <3>1. AreValues(m, w)
      BY <1>2, <2>2 DEF ValuesType, AreValues
    <3>2. p = Encode(m, w)
      OBVIOUS
    <3>. HIDE DEF p, w
    <3>. QED  BY <1>2, <1>4, <3>1, <3>2, ModelSent
  <2>. HIDE DEF a
  <2>. QED  BY <1>1, <2>2, <2>3, <2>4, RowChanged, SameFront, SameWindow, SameEdit DEF SendInv
<1>. QED  BY <1>3, <1>4

LEMMA LeaveRowStep ==
  ASSUME SendInv, NEW i \in DOMAIN actions, LeaveRow(i)
  PROVE  SendInv'
<1>1. UNCHANGED <<front, values, window, edits>> /\ actions' = RemoveAt(actions, i)
  BY DEF LeaveRow
<1>2. ActionsType'
  <2>1. AreRows(actions') /\ Len(actions') = Len(actions) - 1
    BY <1>1, RowsRemove DEF SendInv, ActionsType
  <2>2. Len(actions) \in Nat /\ Len(actions) <= MaxActions
    BY LenProperties DEF SendInv, ActionsType, AreRows
  <2>. QED  BY <2>1, <2>2, SendAssumption DEF ActionsType
<1>3. EditType'
  BY DEF SendInv, EditType, LeaveRow
<1>. QED  BY <1>1, <1>2, <1>3, SameFront, SameValues, SameWindow DEF SendInv

LEMMA OpenSendStep ==
  ASSUME SendInv, NEW m \in Indices, OpenSend(m)
  PROVE  SendInv'
<1>1. /\ UNCHANGED <<front, values, edit, actions, edits>>
      /\ window' = [window EXCEPT !.msg = m, !.values = values[m]]
  BY DEF OpenSend
<1>2. /\ window \in [msg : {0} \cup Indices, values : Seq(Int), sine : Nat \ {0}]
      /\ values[m] \in Seq(Int) /\ Len(values[m]) = Len(SignalsOf(m))
  BY DEF SendInv, WindowType, ValuesType
<1>3. WindowType'
  <2>. DEFINE w == values[m]
  <2>. HIDE DEF w
  <2>1. window' = [msg |-> m, values |-> w, sine |-> window.sine]
    BY <1>1, <1>2 DEF w
  <2>. QED  BY <1>2, <2>1 DEF WindowType, w
<1>. QED  BY <1>1, <1>3, SameFront, SameValues, SameEdit, SameActions DEF SendInv

LEMMA DragSendStep ==
  ASSUME SendInv, NEW k \in DOMAIN window.values, NEW v \in SendValues, DragSend(k, v)
  PROVE  SendInv'
<1>. DEFINE w == [window.values EXCEPT ![k] = v]
<1>1. /\ UNCHANGED <<front, values, edit, actions>> /\ Enter
      /\ window' = [window EXCEPT !.values = w]
  BY DEF DragSend
<1>2. /\ window \in [msg : {0} \cup Indices, values : Seq(Int), sine : Nat \ {0}]
      /\ window.msg # 0 => Len(window.values) = Len(SignalsOf(window.msg))
  BY DEF SendInv, WindowType
<1>3. w \in Seq(Int) /\ Len(w) = Len(window.values)
  BY <1>2, SendAssumption, ExceptSeq, LenProperties
<1>4. WindowType'
  <2>. HIDE DEF w
  <2>. QED  BY <1>1, <1>2, <1>3 DEF WindowType
<1>. QED  BY <1>1, <1>4, Entered, SameValues, SameEdit, SameActions DEF SendInv

LEMMA SelectSineStep ==
  ASSUME SendInv, NEW k \in DOMAIN window.values, SelectSine(k)
  PROVE  SendInv'
<1>1. /\ UNCHANGED <<front, values, edit, actions, edits>>
      /\ window' = [window EXCEPT !.sine = k]
  BY DEF SelectSine
<1>2. /\ window \in [msg : {0} \cup Indices, values : Seq(Int), sine : Nat \ {0}]
      /\ window.msg # 0 => Len(window.values) = Len(SignalsOf(window.msg))
  BY DEF SendInv, WindowType
<1>3. k \in Nat
  <2>1. window.values \in Seq(Int)
    BY <1>2
  <2>. QED  BY <2>1, LenProperties
<1>4. WindowType'
  BY <1>1, <1>2, <1>3 DEF WindowType
<1>. QED  BY <1>1, <1>4, SameFront, SameValues, SameEdit, SameActions DEF SendInv

LEMMA PreviewSineStep ==
  ASSUME SendInv, PreviewSine
  PROVE  SendInv'
<1>1. UNCHANGED <<values, window, edit, actions, edits>> /\ front' = "ub"
  BY DEF PreviewSine
<1>2. FrontType'
  BY <1>1 DEF SendInv, FrontType
<1>. QED  BY <1>1, <1>2, SameValues, SameWindow, SameEdit, SameActions DEF SendInv

LEMMA ClickSendStep ==
  ASSUME SendInv, NEW type, ClickSend(type)
  PROVE  SendInv'
<1>. DEFINE m == window.msg
            k == IF window.sine > Len(window.values) THEN Len(window.values) ELSE window.sine
            a == Action(type, m, IF type = "Sin" THEN k ELSE 0, Encode(m, window.values),
                        window.values)
<1>1. /\ UNCHANGED <<front, window, edit, edits>> /\ m # 0
      /\ values' = [values EXCEPT ![m] = window.values] /\ AddAction(a)
      /\ type = "Sin" => window.values # <<>>
  BY DEF ClickSend
<1>2. /\ m \in Indices /\ window.values \in Seq(Int) /\ Len(window.values) = Len(SignalsOf(m))
      /\ window.sine \in Nat \ {0}
  BY <1>1 DEF SendInv, WindowType
<1>3. IsRow(a)
  <2>1. ASSUME type = "Sin"
        PROVE  k \in DOMAIN SignalsOf(m)
    <3>1. Len(window.values) \in Nat \ {0}
      BY <1>1, <1>2, <2>1, EmptySeq, LenProperties
    <3>2. k \in 1..Len(window.values)
      BY <1>2, <3>1
    <3>. QED  BY <1>2, <3>2, SignalFacts
  <2>2. AreValues(m, window.values)
    BY <1>2 DEF AreValues
  <2>. HIDE DEF k, m
  <2>. QED  BY <1>2, <2>1, <2>2, ActionIsRow
<1>. HIDE DEF a, m
<1>4. ActionsType'
  BY <1>1, <1>3, ActionAdded DEF SendInv
<1>5. ValuesType'
  BY <1>1, <1>2, ValuesSet DEF SendInv
<1>. QED  BY <1>1, <1>4, <1>5, SameFront, SameWindow, SameEdit DEF SendInv

LEMMA OpenEditStep ==
  ASSUME SendInv, NEW i \in DOMAIN actions, OpenEditOf(i)
  PROVE  SendInv'
<1>. DEFINE w == IF actions[i].type = "Sin" THEN edit.values ELSE values[actions[i].msg]
<1>1. UNCHANGED <<front, values, window, actions, edits>> /\ edit' = [row |-> i, values |-> w]
  BY DEF OpenEditOf
<1>2. w \in Seq(Int)
  BY RowOf DEF SendInv, EditType, ValuesType
<1>3. i \in Nat
  BY LenProperties DEF SendInv, ActionsType, AreRows
<1>4. EditType'
  BY <1>1, <1>2, <1>3 DEF EditType
<1>. QED  BY <1>1, <1>4, SameFront, SameValues, SameWindow, SameActions DEF SendInv

\* What the popup shows are values of the signals of its row.
LEMMA EditedValuesType ==
  ASSUME SendInv, Editing
  PROVE  /\ edit.row \in DOMAIN actions /\ EditedRow.msg \in Indices
         /\ EditedValues \in Seq(Int) /\ Len(EditedValues) = Len(SignalsOf(EditedRow.msg))
<1>1. edit.row \in DOMAIN actions
  BY DEF Editing
<1>2. EditedRow.msg \in Indices
  BY <1>1, RowOf DEF SendInv, EditedRow
<1>3. /\ values[EditedRow.msg] \in Seq(Int) /\ edit.values \in Seq(Int)
      /\ Len(values[EditedRow.msg]) = Len(SignalsOf(EditedRow.msg))
  BY <1>2 DEF SendInv, ValuesType, EditType
<1>. QED  BY <1>1, <1>2, <1>3 DEF EditedValues

LEMMA DragEditStep ==
  ASSUME SendInv, NEW k, NEW v \in SendValues, DragEdit(k, v)
  PROVE  SendInv'
<1>. DEFINE w == [EditedValues EXCEPT ![k] = v]
<1>1. /\ UNCHANGED <<front, values, window, actions>> /\ Editing /\ Enter
      /\ k \in DOMAIN EditedValues /\ edit' = [edit EXCEPT !.values = w]
  BY DEF DragEdit
<1>2. EditedValues \in Seq(Int)
  BY <1>1, EditedValuesType
<1>3. w \in Seq(Int)
  BY <1>1, <1>2, SendAssumption, ExceptSeq, LenProperties
<1>. HIDE DEF w
<1>4. EditType'
  BY <1>1, <1>3 DEF SendInv, EditType
<1>. QED  BY <1>1, <1>4, Entered, SameValues, SameWindow, SameActions DEF SendInv

LEMMA UpdatePayloadStep ==
  ASSUME SendInv, UpdatePayload
  PROVE  SendInv'
<1>. DEFINE i == edit.row
            m == EditedRow.msg
            w == EditedValues
            a == Action(actions[i].type, actions[i].msg, actions[i].drives,
                        Encode(actions[i].msg, w), w)
<1>1. /\ UNCHANGED <<front, window, edits>> /\ Editing
      /\ edit' = [edit EXCEPT !.values = w] /\ values' = [values EXCEPT ![m] = w]
      /\ actions' = [actions EXCEPT ![i] = a]
  BY DEF UpdatePayload, Reencoded
<1>2. /\ i \in DOMAIN actions /\ m \in Indices /\ w \in Seq(Int) /\ Len(w) = Len(SignalsOf(m))
  BY <1>1, EditedValuesType
<1>3. IsRow(a)
  <2>1. actions[i].type # "Sin" /\ m = actions[i].msg
    BY <1>1 DEF Editing, EditedRow
  <2>2. AreValues(m, w)
    BY <1>2 DEF AreValues
  <2>. HIDE DEF w
  <2>. QED  BY <1>2, <2>1, <2>2, ActionIsRow
<1>. HIDE DEF a, w, m
<1>4. EditType'
  BY <1>1, <1>2 DEF SendInv, EditType
<1>5. ValuesType'
  BY <1>1, <1>2, ValuesSet DEF SendInv
<1>6. ActionsType'
  BY <1>1, <1>2, <1>3, RowChanged DEF SendInv
<1>. QED  BY <1>1, <1>4, <1>5, <1>6, SameFront, SameWindow DEF SendInv

LEMMA CloseEditStep ==
  ASSUME SendInv, CloseEdit
  PROVE  SendInv'
<1>1. /\ UNCHANGED <<front, values, window, actions, edits>>
      /\ edit' = [edit EXCEPT !.row = 0]
  BY DEF CloseEdit
<1>2. EditType'
  BY <1>1 DEF SendInv, EditType
<1>. QED  BY <1>1, <1>2, SameFront, SameValues, SameWindow, SameActions DEF SendInv

LEMMA TuiEditStep ==
  ASSUME SendInv, NEW m \in Indices, NEW k \in DOMAIN values[m], NEW v \in SendValues,
         TuiEdit(m, k, v)
  PROVE  SendInv'
<1>1. /\ UNCHANGED <<front, window, edit, actions>> /\ Enter
      /\ values' = [values EXCEPT ![m][k] = v] /\ v \in Int
  BY SendAssumption DEF TuiEdit
<1>2. ValuesType'
  BY <1>1, ValueSet DEF SendInv
<1>. QED  BY <1>1, <1>2, Entered, SameWindow, SameEdit, SameActions DEF SendInv

LEMMA TuiCreateStep ==
  ASSUME SendInv, NEW m \in Indices, NEW type, TuiCreate(m, type)
  PROVE  SendInv'
<1>. DEFINE a == Action("Sin", m, Len(values[m]), <<>>, values[m])
            b == Action(type, m, 0, Encode(m, values[m]), values[m])
<1>1. /\ UNCHANGED <<front, values, window, edit, edits>> /\ (type = "Sin" => values[m] # <<>>)
      /\ AddAction(IF type = "Sin" THEN a ELSE b)
  BY DEF TuiCreate
<1>2. AreValues(m, values[m])
  BY ValuesAre DEF SendInv
<1>3. ASSUME type = "Sin"
      PROVE  IsRow(a) /\ AddAction(a)
  <2>1. Len(values[m]) \in DOMAIN SignalsOf(m)
    <3>1. values[m] \in Seq(Int) /\ values[m] # <<>> /\ Len(values[m]) = Len(SignalsOf(m))
      BY <1>1, <1>2, <1>3 DEF AreValues
    <3>2. Len(values[m]) \in Nat \ {0}
      BY <3>1, EmptySeq, LenProperties
    <3>. QED  BY <3>1, <3>2, SignalFacts
  <2>2. IsRow(a)
    BY <1>2, <2>1, ActionIsRow
  <2>. QED  BY <1>1, <1>3, <2>2
<1>4. ASSUME type # "Sin"
      PROVE  IsRow(b) /\ AddAction(b)
  <2>1. IsRow(b)
    BY <1>2, <1>4, ActionIsRow
  <2>. QED  BY <1>1, <1>4, <2>1
<1>. HIDE DEF a, b
<1>5. ActionsType'
  BY <1>3, <1>4, ActionAdded DEF SendInv
<1>. QED  BY <1>1, <1>5, SameFront, SameValues, SameWindow, SameEdit DEF SendInv

LEMMA TuiCommitStep ==
  ASSUME SendInv, NEW i \in DOMAIN actions, NEW k \in DOMAIN values[actions[i].msg],
         NEW v \in SendValues, TuiCommit(i, k, v)
  PROVE  SendInv'
<1>. DEFINE m == actions[i].msg
            w == values'[m]
            a == Action(actions[i].type, m, actions[i].drives, Encode(m, w), w)
<1>1. /\ UNCHANGED <<front, window, edit>> /\ Enter /\ v \in Int
      /\ values' = [values EXCEPT ![m][k] = v] /\ actions' = [actions EXCEPT ![i] = a]
      /\ actions[i].type # "Sin"
  BY SendAssumption DEF TuiCommit, Reencoded
<1>2. m \in Indices
  BY RowOf DEF SendInv
<1>3. ValuesType'
  BY <1>1, <1>2, ValueSet DEF SendInv
<1>4. IsRow(a)
  <2>1. AreValues(m, w)
    BY <1>2, <1>3 DEF ValuesType, AreValues
  <2>. HIDE DEF w
  <2>. QED  BY <1>1, <1>2, <2>1, ActionIsRow
<1>. HIDE DEF a
<1>5. ActionsType'
  BY <1>1, <1>4, RowChanged DEF SendInv
<1>. QED  BY <1>1, <1>3, <1>5, Entered, SameWindow, SameEdit DEF SendInv

LEMMA SendNextInv == SendInv /\ [SendNext]_sendVars => SendInv'
<1>. SUFFICES ASSUME SendInv, [SendNext]_sendVars
              PROVE  SendInv'
  OBVIOUS
<1>1. CASE UNCHANGED sendVars
  BY <1>1, SameFront, SameValues, SameWindow, SameEdit, SameActions DEF SendInv, sendVars
<1>2. CASE SendNext
  <2>1. ASSUME NEW m \in Indices, OpenSend(m)  PROVE SendInv'
    BY <2>1, OpenSendStep
  <2>2. ASSUME NEW m \in Indices, NEW type, TuiCreate(m, type)  PROVE SendInv'
    BY <2>2, TuiCreateStep
  <2>3. ASSUME NEW m \in Indices, NEW k \in DOMAIN values[m], NEW v \in SendValues,
               TuiEdit(m, k, v)
        PROVE  SendInv'
    BY <2>3, TuiEditStep
  <2>4. ASSUME NEW k \in DOMAIN window.values, NEW v \in SendValues, DragSend(k, v)
        PROVE  SendInv'
    BY <2>4, DragSendStep
  <2>5. ASSUME NEW k \in DOMAIN window.values, SelectSine(k)  PROVE SendInv'
    BY <2>5, SelectSineStep
  <2>6. ASSUME NEW type, ClickSend(type)  PROVE SendInv'
    BY <2>6, ClickSendStep
  <2>7. ASSUME NEW i \in DOMAIN actions, OpenEditOf(i) \/ LeaveRow(i)  PROVE SendInv'
    BY <2>7, OpenEditStep, LeaveRowStep
  <2>8. ASSUME NEW i \in DOMAIN actions, NEW v \in SendValues, Tick(i, v)  PROVE SendInv'
    BY <2>8, TickStep
  <2>9. ASSUME NEW i \in DOMAIN actions, NEW v \in SendValues,
               NEW k \in DOMAIN values[actions[i].msg], TuiCommit(i, k, v)
        PROVE  SendInv'
    BY <2>9, TuiCommitStep
  <2>10. ASSUME NEW k, NEW v \in SendValues, DragEdit(k, v)  PROVE SendInv'
    BY <2>10, DragEditStep
  <2>11. CASE PreviewSine \/ UpdatePayload \/ CloseEdit
    BY <2>11, PreviewSineStep, UpdatePayloadStep, CloseEditStep
  <2>. QED
    BY <1>2, <2>1, <2>2, <2>3, <2>4, <2>5, <2>6, <2>7, <2>8, <2>9, <2>10, <2>11, Zenon
       DEF SendNext
<1>. QED  BY <1>1, <1>2

LEMMA SendInvHolds == UiSpec => []SendInv
<1>1. UiInit => SendInv
  BY SendInitInv DEF UiInit
<1>2. [UiNext]_uiVars => [SendNext]_sendVars
  BY DEF UiNext, uiVars
<1>. QED  BY <1>1, <1>2, SendNextInv, PTL DEF UiSpec

\* A receiver decodes from an action's frame what the user saw when the action was made
\* or last changed, a float or a double itself and an integer to one step of its factor,
\* and an integer that a sine of the GUI or a preset drives is sent as a value of its
\* range, whatever DBC and preset file there are, whichever quotients fall short, and
\* whatever is edited and sent in which order
\* (src/src/send/SendModel.cpp:46, src/src/gui/SendWindow.cpp:230-250,
\* src/src/gui/ActionsWindow.cpp:174-178, src/src/decoder/DbcPppWrapper.cpp:66-75).
THEOREM SentCorrect == UiSpec => []SentAsShown
<1>1. SendInv => SentAsShown
  <2>. SUFFICES ASSUME SendInv, NEW i \in DOMAIN actions, actions[i].payload # <<>>
                PROVE  AsShown(actions[i])
    BY Zenon DEF SentAsShown, AsShown
  <2>1. IsRow(actions[i])
    BY DEF SendInv, ActionsType, AreRows
  <2>. QED  BY <2>1, RowAsShown
<1>. QED  BY <1>1, SendInvHolds, PTL

-----------------------------------------------------------------------------
(* The open action.                                                        *)

\* It stays highlighted when its row does and the cursor is not past its parameters.
LEMMA ShownStill ==
  ASSUME ActionShown, rows' = rows, acts' = acts
  PROVE  ActionShown'
BY DEF ActionShown, RowShown, Row, Parameters

LEMMA HighlightPress ==
  ASSUME Inv, NEW k, Press(k), ActionOpen', ActionOpen => ActionShown
  PROVE  ActionShown'
<1>1. user' = user
  BY DEF Press
<1>2. rows' = rows
  BY DEF Press, EditAction, DialogKey, EditSignal, Search, Unedited, Quit, Shortcut, SignalList,
         ReplayMessages, ActionSignals, MessageList, ReplayList, ActionList, SubTabs, MainTabs, world
<1>3. CASE UNCHANGED <<view, acts>>
  BY <1>2, <1>3, ShownStill DEF ActionOpen, view
<1>4. CASE EditAction(k) \/ DialogKey(k) \/ EditSignal(k) \/ Search(k) \/ Quit(k)
  BY <1>3, <1>4 DEF EditAction, DialogKey, EditSignal, Search, Unedited, Quit, cursors
<1>5. CASE ActionSignals(k)
  <2>1. ActionOpen /\ ActionShown /\ acts \in [row : Nat, sig : Nat]
    BY <1>5 DEF ActionSignals, ActionOpen, Inv, CursorType
  <2>2. Parameters' = Parameters \/ acts'.row # acts.row
    BY <1>2 DEF Parameters, Row
  <2>3. \/ acts' = acts
        \/ acts.sig > 0 /\ acts' = [acts EXCEPT !.sig = @ - 1]
        \/ acts.sig < Parameters - 1 /\ acts' = [acts EXCEPT !.sig = @ + 1]
    BY <1>5 DEF ActionSignals
  <2>4. acts'.row = acts.row /\ (acts'.sig = 0 \/ acts'.sig < Parameters)
    <3>1. Parameters \in Nat
      BY <2>1, RowTyped DEF Parameters, RowType, ActionShown
    <3>. HIDE DEF Parameters
    <3>. QED  BY <2>1, <2>3, <3>1 DEF ActionShown
  <2>5. RowShown'
    BY <1>2, <2>1, <2>4 DEF ActionShown, RowShown
  <2>. QED  BY <2>2, <2>4, <2>5 DEF ActionShown
<1>6. CASE ActionList(k)
  <2>1. acts \in [row : Nat, sig : Nat] /\ nav_level = 1 /\ nav_level' = 2
    BY <1>6 DEF ActionList, ActionOpen, Inv, CursorType
  <2>2. RowShown /\ acts' = [acts EXCEPT !.sig = 0]
    BY <1>6, <2>1 DEF ActionList, EnterAction, Go, view
  <2>3. acts'.row = acts.row /\ acts'.sig = 0
    BY <2>1, <2>2
  <2>. QED  BY <1>2, <2>2, <2>3 DEF ActionShown, RowShown
<1>7. CASE \/ Shortcut(k) \/ SignalList(k) \/ ReplayMessages(k) \/ MessageList(k)
           \/ ReplayList(k) \/ SubTabs(k) \/ MainTabs(k)
  <2>1. acts' = acts
    BY <1>7 DEF Shortcut, SignalList, ReplayMessages, MessageList, ReplayList, SubTabs, MainTabs,
                cursors
  <2>2. main_tab' = 2 /\ nav_level' = 2
    BY DEF ActionOpen
  <2>3. UNCHANGED view
    <3>1. CASE Shortcut(k)
      BY <2>2, <3>1 DEF Shortcut, Show, view
    <3>2. CASE SignalList(k)
      BY <2>2, <3>2 DEF SignalList, Go, view, Inv, SelectionShown
    <3>3. CASE ReplayMessages(k)
      BY <2>2, <3>3 DEF ReplayMessages, Go, view
    <3>4. CASE MessageList(k)
      BY <2>2, <3>4 DEF MessageList, Go, view
    <3>5. CASE ReplayList(k)
      <4>1. main_tab >= 3
        BY <3>5, UserType DEF ReplayList, OnPlayback, Inv, CursorType
      <4>. QED  BY <2>2, <3>5, <4>1 DEF ReplayList, Go, view
    <3>6. CASE SubTabs(k)
      BY <2>2, <3>6 DEF SubTabs, EnterMessages, Go, view
    <3>7. CASE MainTabs(k)
      BY <2>2, <3>7 DEF MainTabs, Go, view
    <3>. QED  BY <1>7, <3>1, <3>2, <3>3, <3>4, <3>5, <3>6, <3>7
  <2>. QED  BY <1>3, <2>1, <2>3
<1>. QED  BY <1>4, <1>5, <1>6, <1>7 DEF Press

LEMMA HighlightStep ==
  ASSUME Inv, [Next]_vars
  PROVE  [ActionOpen' /\ (ActionOpen => ActionShown) /\ Len(rows') >= Len(rows)
            => ActionShown']_vars
<1>. SUFFICES ASSUME Next, ActionOpen', ActionOpen => ActionShown, Len(rows') >= Len(rows)
              PROVE  ActionShown'
  OBVIOUS
<1>1. rows \in Seq(RowType) /\ Len(rows) \in Nat /\ posts \in Seq(Handlers)
  BY LenProperties DEF Inv, WorldType
<1>2. ASSUME Unpressed
      PROVE  ActionShown /\ acts' = acts /\ acts \in [row : Nat, sig : Nat]
  BY <1>2 DEF Unpressed, view, cursors, ActionOpen, Inv, CursorType
<1>3. ASSUME NEW i \in DOMAIN rows
      PROVE  Len(RemoveAt(rows, i)) = Len(rows) - 1
  BY <1>1, RemovedAt
<1>4. ASSUME NEW r \in RowType, rows' = Append(rows, r), Unpressed
      PROVE  ActionShown'
  <2>1. ActionShown /\ acts' = acts /\ acts \in [row : Nat, sig : Nat]
    BY <1>2, <1>4
  <2>2. Len(rows') = Len(rows) + 1 /\ \A n \in 1..Len(rows) : rows'[n] = rows[n]
    BY <1>1, <1>4
  <2>3. acts.row + 1 \in 1..Len(rows)
    BY <1>1, <2>1 DEF ActionShown, RowShown
  <2>4. Row' = Row /\ RowShown'
    BY <1>1, <2>1, <2>2, <2>3 DEF Row, RowShown
  <2>5. Parameters' = Parameters
    BY <2>4 DEF Parameters
  <2>. QED  BY <2>1, <2>4, <2>5 DEF ActionShown
<1>5. CASE RunPost
  <2>1. Unpressed /\ Head(posts) \in Handlers
    BY <1>1, <1>5, HeadTailProperties DEF RunPost
  <2>2. CASE Head(posts).op = "add"
    <3>1. [type |-> Head(posts).type, signals |-> Head(posts).signals] \in RowType
      BY <2>1, <2>2 DEF Handlers, SoundAdds, Adds, Others, RowType
    <3>2. rows' = Append(rows, [type |-> Head(posts).type, signals |-> Head(posts).signals])
      BY <1>5, <2>2 DEF RunPost
    <3>. QED  BY <1>4, <2>1, <3>1, <3>2
  <2>3. CASE Head(posts).op = "remove" /\ Head(posts).row < Len(rows)
    <3>1. Head(posts).row + 1 \in DOMAIN rows
      <4>1. Head(posts).row \in Nat
        BY <2>1, <2>3 DEF Handlers, SoundAdds, Adds, Others
      <4>. QED  BY <1>1, <2>3, <4>1
    <3>2. rows' = RemoveAt(rows, Head(posts).row + 1)
      BY <1>5, <2>3 DEF RunPost
    <3>. QED  BY <1>1, <1>3, <3>1, <3>2
  <2>4. CASE /\ Head(posts).op # "add"
             /\ ~(Head(posts).op = "remove" /\ Head(posts).row < Len(rows))
    <3>1. rows' = rows
      BY <1>5, <2>4 DEF RunPost
    <3>. QED  BY <1>2, <2>1, <3>1, ShownStill
  <2>. QED  BY <2>2, <2>3, <2>4
<1>6. CASE SingleLeaves
  BY <1>1, <1>3, <1>6 DEF SingleLeaves
<1>7. CASE Update
  BY <1>2, <1>7, ShownStill DEF Update
<1>. QED  BY <1>5, <1>6, <1>7, HighlightPress DEF Next

-----------------------------------------------------------------------------
\* What the keyboard does in a run of the interfaces is what it does by itself: what
\* is proved of it below holds there as well (src/src/main.cpp:43-46).
THEOREM KeyboardAlone == UiSpec => Spec
<1>1. UiInit => Init
  BY DEF UiInit
<1>2. [UiNext]_uiVars => [Next]_vars
  BY DEF UiNext, uiVars
<1>. QED  BY <1>1, <1>2, PTL DEF UiSpec, Spec

-----------------------------------------------------------------------------
\* Every cursor that is used as an index without a test is within its bounds, for
\* every number of interfaces and in whatever order frames arrive and actions leave
\* (src/src/gui/TuiDataFrameSet.cpp:729-775).
THEOREM CursorsCorrect == Spec => []TypeOK
<1>1. Inv => TypeOK
  BY DEF Inv, CursorType, ModeType, DialogType, WorldType, RowType, EscapeInv, TypeOK
<1>. QED  BY <1>1, InvHolds, PTL

\* Below the tab bars of the Send and Playback tabs something is selected, and it is
\* the highlighted thing (src/src/gui/TuiDataFrameSet.cpp:721-728, 603-610, 647-654).
THEOREM SelectionCorrect == Spec => []SelectionShown
<1>1. Inv => SelectionShown
  BY DEF Inv
<1>. QED  BY <1>1, InvHolds, PTL

\* An open action has a highlighted signal or parameter, if it has any, until an action
\* leaves the list (src/src/gui/TuiDataFrameSet.cpp:571-591, 675-679, 1168).
THEOREM HighlightCorrect == Spec => HighlightKept
<1>1. Inv /\ [Next]_vars =>
        [ActionOpen' /\ (ActionOpen => ActionShown) /\ Len(rows') >= Len(rows)
           => ActionShown']_vars
  BY HighlightStep
<1>. QED  BY <1>1, InvHolds, PTL DEF Spec, HighlightKept

\* A mode takes the keyboard only where it is in view, and Escape leads out of it:
\* the second one at the latest leaves the program
\* (src/src/gui/TuiDataFrameSet.cpp:180-412).
THEOREM KeysCorrect == Spec => []KeysTaken
<1>1. Inv => KeysTaken
  BY DEF Inv, EscapeInv, KeysTaken, TwoEscapesQuit
<1>. QED  BY <1>1, InvHolds, PTL

\* No action is created that sends without a pause, no sine without a period or of
\* another signal than the last (src/src/gui/TuiDataFrameSet.cpp:127, 264-270,
\* 336-342).
THEOREM CreatedCorrect == Spec => []CreatedSound
<1>1. ASSUME Inv
      PROVE  CreatedSound
  <2>1. ASSUME NEW n \in DOMAIN posts, posts[n].op = "add"
        PROVE  posts[n] \in SoundAdds
    <3>1. posts[n] \in Handlers
      BY <1>1, <2>1 DEF Inv, WorldType
    <3>. QED  BY <2>1, <3>1 DEF Handlers, Others
  <2>. QED  BY <2>1 DEF SoundAdds, Adds, CreatedSound
<1>. QED  BY <1>1, InvHolds, PTL

\* Every variable has its type: the menu of a series is of one that is still there
\* (src/src/gui/GraphWindow.cpp:203-238), the Send window has as many values as its
\* message has signals (src/src/gui/SendWindow.cpp:157), and what the model holds of a
\* message can always be encoded (src/src/send/SendModel.cpp:46).
THEOREM UiTypeCorrect == UiSpec => []UiTypeOK
<1>. DEFINE Parts == part \in {"keys", "sending", "graphs"}
<1>1. UiInit => Parts
  BY DEF UiInit
<1>2. Parts /\ [UiNext]_uiVars => Parts'
  BY DEF UiNext, uiVars
<1>3. Parts /\ TypeOK /\ SendInv /\ GraphInv => UiTypeOK
  BY SendTypes DEF GraphInv, UiTypeOK
<1>. HIDE DEF Parts
<1>. QED
  BY <1>1, <1>2, <1>3, KeyboardAlone, CursorsCorrect, SendInvHolds, GraphInvHolds, PTL
     DEF UiSpec
=============================================================================
