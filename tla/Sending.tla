------------------------------ MODULE Sending -------------------------------
(***************************************************************************)
(* What is on the wire when something is sent: the encoding of             *)
(* src/src/send/SendModel.cpp, the presets of                              *)
(* src/src/action/ActionPreset.cpp, the Send window of the GUI with its    *)
(* popup, the edit popup of the Actions window, and the Send and Actions   *)
(* tabs of the terminal UI (which keys lead there is in TuiNav).           *)
(*                                                                         *)
(* A payload is a function from bit numbers to bits.  Values, factors and  *)
(* offsets are whole numbers of a unit small enough for all of them, and   *)
(* the arithmetic of doubles on them is exact but for a quotient, which    *)
(* may fall short of the whole number it is.  What is posted to the asio   *)
(* thread is run at once: the order of its handlers is in ActionHandler.   *)
(***************************************************************************)
EXTENDS Integers, Sequences, SequencesExt, Functions

CONSTANTS
  SendMessages, \* the messages of the DBC, each with its signals by start bit
  PresetFile,   \* the entries of the actions file
  SendValues,   \* the values a user enters and a sine takes
  MaxEdits,     \* bound: values entered
  MaxActions,   \* bound: actions at a time
  FloatBits(_, _),  \* the bits of a value as a float or a double, and
  FloatValue(_, _), \* the value of such bits: bit_cast
  FloatRaw(_, _),   \* what the library's PhysToRaw makes of a float signal's value
  Short(_, _)       \* a quotient that is too small: 0.3 / 0.1 is below 3

VARIABLES
  front,   \* "gui" or "tui"; "ub" once memory was read that is not there
  values,  \* SendSignal::value of each signal of each message
  window,  \* the popup of the Send window: message or 0, values, sin_sig_idx_
  edit,    \* the popup of the Actions window: row or 0, edit_values_
  actions, \* the rows of the action handler
  edits    \* the number of values entered

sendVars == <<front, values, window, edit, actions, edits>>

Indices == DOMAIN SendMessages
SignalsOf(m) == SendMessages[m].signals

-----------------------------------------------------------------------------
(* The encoding: bits first .. first + width - 1 hold the raw value, of an *)
(* integer signal (value - offset) / factor.                               *)

Switch == -1  \* sig.mux of the multiplexer switch
Always == -2  \* and of a signal that is in every frame

BitsOf(sig) == sig.first..sig.first + sig.width - 1
\* Signals whose bits no other signal uses.
Alone(m, k) == \A l \in DOMAIN SignalsOf(m) \ {k} :
  BitsOf(SignalsOf(m)[k]) \cap BitsOf(SignalsOf(m)[l]) = {}

Pow2(n) == LET power[k \in 0..n] == IF k = 0 THEN 1 ELSE 2 * power[k-1] IN power[n]

Abs(n) == IF n < 0 THEN -n ELSE n
\* The quotient of two doubles, cut to a whole number.
Quotient(n, d) ==
  LET whole == (IF n # 0 /\ Short(n, d) THEN Abs(n) - 1 ELSE Abs(n)) \div Abs(d)
  IN IF (n < 0) = (d < 0) THEN whole ELSE -whole

PhysToRaw(sig, v) ==
  IF sig.type = "Integer" THEN Quotient(v - sig.offset, sig.factor) ELSE FloatRaw(sig, v)
RawToPhys(sig, raw) == raw * sig.factor + sig.offset

\* A float or a double is sent as its bits, an integer by PhysToRaw().
Raw(sig, v) == IF sig.type = "Integer" THEN PhysToRaw(sig, v) ELSE FloatBits(sig.type, v)

\* Encode() of one signal: a raw value, cut to its width.
Put(payload, sig, raw) ==
  [b \in DOMAIN payload |->
     IF b \in BitsOf(sig) THEN (raw \div Pow2(b - sig.first)) % 2 ELSE payload[b]]

\* Every signal is put, multiplexed or not, in the order of start bits.
Encode(m, vals) ==
  LET put[k \in 0..Len(SignalsOf(m))] ==
        IF k = 0 THEN [b \in 0..SendMessages[m].bits - 1 |-> 0]
        ELSE Put(put[k-1], SignalsOf(m)[k], Raw(SignalsOf(m)[k], vals[k]))
  IN put[Len(SignalsOf(m))]

\* From the highest bit down.
Unsigned(payload, sig) ==
  LET high[n \in 0..sig.width] ==
        IF n = 0 THEN 0 ELSE 2 * high[n-1] + payload[sig.first + sig.width - n]
  IN high[sig.width]
Signed(payload, sig) ==
  LET raw == Unsigned(payload, sig)
  IN IF sig.signed /\ raw >= Pow2(sig.width - 1) THEN raw - Pow2(sig.width) ELSE raw

\* Below a range that has no negative value a signal is read as unsigned.
ReadAgain(sig, phys) ==
  LET max == IF sig.min = 0 /\ sig.max = 0 THEN Pow2(sig.width) ELSE sig.max
  IN phys < sig.min /\ sig.min >= 0 /\ max > sig.min
DecodedValue(payload, sig) ==
  LET phys == RawToPhys(sig, Signed(payload, sig))
  IN IF sig.type # "Integer" THEN FloatValue(sig.type, Unsigned(payload, sig))
     ELSE IF ReadAgain(sig, phys) THEN RawToPhys(sig, Unsigned(payload, sig)) ELSE phys

Present(m, payload, k) ==
  SignalsOf(m)[k].mux \in Nat =>
    \E l \in DOMAIN SignalsOf(m) :
      /\ SignalsOf(m)[l].mux = Switch
      /\ Signed(payload, SignalsOf(m)[l]) = SignalsOf(m)[k].mux

\* Values a signal can have: its bits suffice, and which of two values with the
\* same bits is meant can be told from the range.
Fits(sig, v) ==
  LET bits == FloatBits(sig.type, v)
      raw == Quotient(v - sig.offset, sig.factor)
      half == Pow2(sig.width - 1)
      full == Pow2(sig.width)
  IN IF sig.type # "Integer" THEN bits \in 0..full - 1 /\ FloatValue(sig.type, bits) = v
     ELSE /\ raw \in (IF sig.signed THEN -half ELSE 0)..full - 1
          /\ raw < 0 => ~ReadAgain(sig, RawToPhys(sig, raw))
          /\ sig.signed /\ raw >= half => ReadAgain(sig, RawToPhys(sig, raw - full))

-----------------------------------------------------------------------------
(* Actions.                                                                *)

\* base is <<>> in a sine that encodes the model; shown is what the user saw.
Action(type, m, drives, base, shown) ==
  [type |-> type, msg |-> m, drives |-> drives, base |-> base, shown |-> shown,
   payload |-> IF type = "Sin" THEN <<>> ELSE base]

Clamped(sig, v) ==
  IF sig.min < sig.max THEN (IF v < sig.min THEN sig.min ELSE IF v > sig.max THEN sig.max ELSE v)
  ELSE v

\* The presets: all entries of a file set the values of one model.
PresetEntry(acc, entry) ==
  LET m == entry.msg
      set == [acc.values EXCEPT ![m] = [k \in DOMAIN @ |->
                IF k \in DOMAIN entry.signals THEN entry.signals[k] ELSE @[k]]]
  IN IF m \notin Indices \/ (entry.type = "Sin" /\ entry.drives \notin DOMAIN SignalsOf(m))
       THEN acc
     ELSE [values |-> set,
           actions |-> Append(acc.actions,
             Action(entry.type, m, entry.drives, Encode(m, set[m]), set[m]))]

NoValues == [m \in Indices |-> [k \in DOMAIN SignalsOf(m) |-> 0]]
Presets ==
  LET loaded[n \in 0..Len(PresetFile)] ==
        IF n = 0 THEN [values |-> NoValues, actions |-> <<>>]
        ELSE PresetEntry(loaded[n-1], PresetFile[n])
  IN loaded[Len(PresetFile)].actions

\* A signal of the DBC lies within its message.
IsSignal(sig, bits) ==
  /\ sig.first \in Nat /\ sig.width \in Nat \ {0} /\ sig.first + sig.width <= bits
  /\ sig.signed \in BOOLEAN /\ sig.type \in {"Integer", "Float", "Double"}
  /\ {sig.min, sig.max, sig.offset, sig.factor} \subseteq Int /\ sig.factor # 0

\* The actions of the file are within the bound on actions.
ASSUME SendAssumption ==
  /\ SendMessages \in Seq(Range(SendMessages))
  /\ \A m \in Indices :
       /\ SendMessages[m].bits \in Nat /\ SignalsOf(m) \in Seq(Range(SignalsOf(m)))
       /\ \A k \in DOMAIN SignalsOf(m) : IsSignal(SignalsOf(m)[k], SendMessages[m].bits)
  /\ SendValues \subseteq Int /\ MaxEdits \in Nat /\ MaxActions \in Nat
  /\ Len(PresetFile) \in Nat /\ Len(Presets) <= MaxActions
  /\ \A n \in 1..Len(PresetFile) : \A k \in DOMAIN PresetFile[n].signals :
       PresetFile[n].signals[k] \in Int

AddAction(a) == Len(actions) < MaxActions /\ actions' = Append(actions, a)

\* The encode_fn() of a sine of the GUI or of a preset: its signal is put over the
\* base, by PhysToRaw() whatever its type is.
Driven(base, sig, v) == Put(base, sig, PhysToRaw(sig, Clamped(sig, v)))

\* The asio thread: a sine's encode_fn() with its next value ...
Tick(i, v) ==
  /\ front # "ub" /\ actions[i].type = "Sin"
  /\ LET m == actions[i].msg
         k == actions[i].drives
         sig == SignalsOf(m)[k]
     IN IF actions[i].base # <<>>
          THEN /\ actions' = [actions EXCEPT ![i].payload = Driven(actions[i].base, sig, v)]
               /\ UNCHANGED values
          ELSE /\ values' = [values EXCEPT ![m][k] = v]
               /\ actions' = [actions EXCEPT ![i].payload = Encode(m, values'[m]),
                                             ![i].shown = values'[m]]
  /\ UNCHANGED <<front, window, edit, edits>>

\* ... and a single action that was sent, or an action that is deleted, leaves.
LeaveRow(i) ==
  /\ front # "ub"
  /\ actions' = RemoveAt(actions, i)
  /\ \/ actions[i].type = "Single" /\ UNCHANGED edit
     \/ edit' = IF edit.row = i THEN [edit EXCEPT !.row = 0] ELSE edit
  /\ UNCHANGED <<front, values, window, edits>>

Enter == edits < MaxEdits /\ edits' = edits + 1

-----------------------------------------------------------------------------
(* The Send window of the GUI.                                             *)

\* open_popup(): the values are copied, sin_sig_idx_ is that of before.
OpenSend(m) ==
  /\ front = "gui"
  /\ window' = [window EXCEPT !.msg = m, !.values = values[m]]
  /\ UNCHANGED <<front, values, edit, actions, edits>>

\* A value is dragged or typed; only dragging keeps it in its range.
DragSend(k, v) ==
  /\ front = "gui" /\ window.msg # 0 /\ k \in DOMAIN window.values /\ Enter
  /\ window' = [window EXCEPT !.values[k] = v]
  /\ UNCHANGED <<front, values, edit, actions>>

SelectSine(k) ==
  /\ front = "gui" /\ window.msg # 0 /\ k \in DOMAIN window.values
  /\ window' = [window EXCEPT !.sine = k]
  /\ UNCHANGED <<front, values, edit, actions, edits>>

\* The header of the sine is open with an index of another message's signals.
PreviewSine ==
  /\ front = "gui" /\ window.msg # 0 /\ window.sine > Len(window.values)
  /\ front' = "ub"
  /\ UNCHANGED <<values, window, edit, actions, edits>>

\* Mutant: what is sent is what was sent before.
ClickSend_Stale(type) ==
  /\ front = "gui" /\ window.msg # 0 /\ (type = "Sin" => window.values # <<>>)
  /\ LET m == window.msg
         k == IF window.sine > Len(window.values) THEN Len(window.values) ELSE window.sine
     IN /\ values' = [values EXCEPT ![m] = window.values]
        /\ AddAction(Action(type, m, IF type = "Sin" THEN k ELSE 0,
                            Encode(m, values[m]), window.values))
  /\ UNCHANGED <<front, window, edit, edits>>

\* Send Once, Send Periodic or Start Sin: all values are set, then encoded.
ClickSend(type) ==
  /\ front = "gui" /\ window.msg # 0 /\ (type = "Sin" => window.values # <<>>)
  /\ LET m == window.msg
         k == IF window.sine > Len(window.values) THEN Len(window.values) ELSE window.sine
     IN /\ values' = [values EXCEPT ![m] = window.values]
        /\ AddAction(Action(type, m, IF type = "Sin" THEN k ELSE 0,
                            Encode(m, window.values), window.values))
  /\ UNCHANGED <<front, window, edit, edits>>

(* The popup of the Actions window: the row it is opened on, and for other *)
(* actions than a sine the values of the Send window's model.  What it     *)
(* changes of a sine shows only in the values the sine takes.              *)

OpenEditOf(i) ==
  /\ front = "gui"
  /\ edit' = [row |-> i, values |-> IF actions[i].type = "Sin" THEN edit.values
                                    ELSE values[actions[i].msg]]
  /\ UNCHANGED <<front, values, window, actions, edits>>

\* What render_edit_window() shows; it reloads values of the wrong number only.
EditedRow == actions[edit.row]
EditedValues == IF Len(edit.values) = Len(values[EditedRow.msg])
                  THEN edit.values ELSE values[EditedRow.msg]
Editing == front = "gui" /\ edit.row \in DOMAIN actions /\ EditedRow.type # "Sin"

DragEdit(k, v) ==
  /\ Editing /\ k \in DOMAIN EditedValues /\ Enter
  /\ edit' = [edit EXCEPT !.values = [EditedValues EXCEPT ![k] = v]]
  /\ UNCHANGED <<front, values, window, actions>>

\* Its frame is encoded anew.
Reencoded(i, vals) ==
  [actions EXCEPT ![i] = Action(@.type, @.msg, @.drives, Encode(@.msg, vals), vals)]

\* Update Payload.
UpdatePayload ==
  /\ Editing
  /\ edit' = [edit EXCEPT !.values = EditedValues]
  /\ values' = [values EXCEPT ![EditedRow.msg] = EditedValues]
  /\ actions' = Reencoded(edit.row, EditedValues)
  /\ UNCHANGED <<front, window, edits>>

\* It closes when there is no row at its index.
CloseEdit ==
  /\ front = "gui" /\ edit.row # 0 /\ edit.row \notin DOMAIN actions
  /\ edit' = [edit EXCEPT !.row = 0]
  /\ UNCHANGED <<front, values, window, actions, edits>>

-----------------------------------------------------------------------------
(* The terminal UI: no copies, the model is edited in place.               *)

TuiEdit(m, k, v) ==
  /\ front = "tui" /\ Enter
  /\ values' = [values EXCEPT ![m][k] = v]
  /\ UNCHANGED <<front, window, edit, actions>>

\* A sine drives the last signal, and encodes the model anew for each frame.
TuiCreate(m, type) ==
  /\ front = "tui" /\ (type = "Sin" => values[m] # <<>>)
  /\ AddAction(IF type = "Sin" THEN Action("Sin", m, Len(values[m]), <<>>, values[m])
                               ELSE Action(type, m, 0, Encode(m, values[m]), values[m]))
  /\ UNCHANGED <<front, values, window, edit, edits>>

\* A value of an action is set in the model, and the model is encoded.
TuiCommit(i, k, v) ==
  /\ front = "tui" /\ actions[i].type # "Sin" /\ Enter
  /\ values' = [values EXCEPT ![actions[i].msg][k] = v]
  /\ actions' = Reencoded(i, values'[actions[i].msg])
  /\ UNCHANGED <<front, window, edit>>

-----------------------------------------------------------------------------
SendInit ==
  /\ front \in {"gui", "tui"}
  /\ values = NoValues
  /\ window = [msg |-> 0, values |-> <<>>, sine |-> 1]
  /\ edit = [row |-> 0, values |-> <<>>]
  /\ actions = Presets /\ edits = 0

SendNext ==
  \/ \E m \in Indices :
       \/ OpenSend(m)
       \/ \E type \in {"Single", "Periodic", "Sin"} : TuiCreate(m, type)
       \/ \E k \in DOMAIN values[m], v \in SendValues : TuiEdit(m, k, v)
  \/ \E v \in SendValues : \E k \in DOMAIN window.values : DragSend(k, v)
  \/ \E k \in DOMAIN window.values : SelectSine(k)
  \/ \E type \in {"Single", "Periodic", "Sin"} : ClickSend(type)
  \/ \E i \in DOMAIN actions :
       \/ OpenEditOf(i) \/ LeaveRow(i)
       \/ \E v \in SendValues :
            Tick(i, v) \/ \E k \in DOMAIN values[actions[i].msg] : TuiCommit(i, k, v)
  \/ \E v \in SendValues : \E k \in DOMAIN edit.values : DragEdit(k, v)
  \/ PreviewSine \/ UpdatePayload \/ CloseEdit

-----------------------------------------------------------------------------
SendTypeOK ==
  /\ front \in {"gui", "tui", "ub"} /\ edits \in 0..MaxEdits
  /\ values \in [Indices -> Seq(Int)]
  /\ \A m \in Indices : Len(values[m]) = Len(SignalsOf(m))
  /\ window \in [msg : {0} \cup Indices, values : Seq(Int), sine : Nat \ {0}]
  /\ window.msg # 0 => Len(window.values) = Len(SignalsOf(window.msg))
  /\ edit \in [row : Nat, values : Seq(Int)]
  /\ actions \in Seq(Range(actions)) /\ Len(actions) <= MaxActions
  /\ \A i \in DOMAIN actions : actions[i].msg \in Indices

\* The signals of a frame that say something of what was shown: those of bits
\* of their own, in the frame, with a value the signal can have.
Telling(a) ==
  {k \in DOMAIN SignalsOf(a.msg) : /\ Alone(a.msg, k) /\ Present(a.msg, a.payload, k)
                                   /\ Fits(SignalsOf(a.msg)[k], a.shown[k])}

\* w is what can be decoded of the value v: a float or a double itself, and an
\* integer as near to it as the factor allows, on the side of the offset.
Near(sig, v, w) ==
  LET sent == v - sig.offset
      miss == Abs(sent) - Abs(w - sig.offset)
  IN IF sig.type # "Integer" THEN w = v
     ELSE /\ miss \in 0..Abs(sig.factor) /\ miss = Abs(v - w)
          /\ ~Short(sent, sig.factor) =>
               miss < Abs(sig.factor) /\ (Abs(sent) % Abs(sig.factor) = 0 => w = v)

\* A sine of the GUI or of a preset is in the range of its signal, whatever its
\* amplitude and offset are: of an integer signal whose bits suffice for the range.
Confined(a) == a.type = "Sin" /\ a.base # <<>>
SineConfined(a) ==
  LET sig == SignalsOf(a.msg)[a.drives] IN
  /\ sig.type = "Integer" /\ sig.min < sig.max
  /\ \A v \in sig.min..sig.max : Fits(sig, v)
  => \E v \in sig.min..sig.max : Near(sig, v, DecodedValue(a.payload, sig))

\* What a receiver with the same DBC decodes from an action's frame is what the
\* user saw when the action was made or last changed, for a preset what its file
\* has said up to it, rounded to what the signal can say: whatever was edited,
\* opened and sent in between, for other messages or the same; the integer a sine
\* of the GUI or a preset drives stays in its range
\* (src/src/send/SendModel.cpp:46, gui/SendWindow.cpp:157, action/ActionPreset.cpp:104).
SentAsShown ==
  \A i \in DOMAIN actions : LET a == actions[i] IN
    a.payload # <<>> =>
      /\ \A k \in Telling(a) : ~Confined(a) \/ k # a.drives =>
           Near(SignalsOf(a.msg)[k], a.shown[k], DecodedValue(a.payload, SignalsOf(a.msg)[k]))
      /\ Confined(a) => SineConfined(a)
=============================================================================
