-------------------------- MODULE MCUserInterfaces --------------------------
(* Four users of the terminal UI with the interfaces they may send on:      *)
(* one who creates actions, one who edits a preset list and one who looks   *)
(* at frames: at a live bus with a Lua model, and at a recording.  Two      *)
(* messages to send, one of them multiplexed, and one to plot.              *)
EXTENDS UserInterfaces, TLC

MCReplay == <<1, 2>>

Arrows == {"Up", "Down", "Left", "Right", "Return", "Esc"}
Preset(t, n) == [type |-> t, signals |-> n]

Creator == [keys |-> Arrows \union {"Back", "0", "1", "2", "-", "s"},
            models |-> << <<2>>, <<>> >>, model |-> FALSE, playback |-> FALSE,
            rows |-> <<>>, maxRows |-> 1, maxFrames |-> 0, maxPosts |-> 1]
Editor == [keys |-> Arrows \union {"Back", "Del", "space", "5", "-", "a"},
           models |-> << <<>> >>, model |-> FALSE, playback |-> FALSE,
           rows |-> <<Preset("Sin", 2), Preset("Periodic", 4), Preset("Periodic", 0)>>,
           maxRows |-> 3, maxFrames |-> 0, maxPosts |-> 2]
Viewer == [keys |-> Arrows \union {"q", "t", "s", "a", "m", "p", "f"},
           models |-> << <<1, 0>>, <<0>> >>, model |-> TRUE, playback |-> FALSE,
           rows |-> <<>>, maxRows |-> 0, maxFrames |-> 2, maxPosts |-> 1]
MCUsers == {Creator, Editor, Viewer,
            [Viewer EXCEPT !.model = FALSE, !.playback = TRUE, !.maxFrames = 1]}

-----------------------------------------------------------------------------
Sig(first, width, signed, max, mux) ==
  [first |-> first, width |-> width, signed |-> signed, min |-> 0, max |-> max,
   offset |-> 0, factor |-> 1, type |-> "Integer", mux |-> mux]
\* A signed signal in steps of two that is never negative; a switch and the float
\* it switches.
MCMessages == <<
  [bits |-> 4, signals |-> <<[Sig(1, 2, TRUE, 4, Always) EXCEPT !.factor = 2]>>],
  [bits |-> 4, signals |-> <<Sig(0, 1, FALSE, 1, Switch),
                             [Sig(1, 3, FALSE, 7, 0) EXCEPT !.type = "Float"]>>]>>
\* A float of three bits, whose order is not that of the whole numbers; what the
\* library makes of it is its whole part.  The quotient 4 / 2 falls short.
MCFloatBits(type, v) == (3 * v + 1) % 8
MCFloatValue(type, bits) == (3 * (bits - 1)) % 8
MCFloatRaw(sig, v) == v
MCShort(n, d) == n = 4 /\ d = 2

\* Only the first entry is of a message and a signal there are.
MCPresetFile == <<
  [type |-> "Sin", msg |-> 1, drives |-> 1, signals |-> (1 :> 1)],
  [type |-> "Sin", msg |-> 2, drives |-> 9, signals |-> (1 :> 1)],
  [type |-> "Sin", msg |-> 9, drives |-> 1, signals |-> (1 :> 1)]>>

-----------------------------------------------------------------------------
\* A message that is decoded or not, and an output with the name of its signal.
MCArrivals == {[from |-> <<"can0", 1>>, signals |-> {"a"}],
               [from |-> <<"can0", 1>>, signals |-> {}],
               [from |-> <<Model, 0>>, signals |-> {"a"}]}
MCGraphDbcs == << [name |-> "can0", messages |-> ("m" :> 1)],
                  [name |-> "can1", messages |-> ("m" :> 1)]>>
PlotEntry(interface, msg, signal, axis) ==
  [interface |-> interface, msg |-> msg, signal |-> signal, axis |-> axis]
\* Only the first entry is complete and of a message there is.
MCGraphFile ==
  << <<PlotEntry("", "m", "a", 3), PlotEntry("can1", "x", "a", 0), PlotEntry("", "m", "", 0)>> >>
=============================================================================
