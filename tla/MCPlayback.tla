----------------------------- MODULE MCPlayback -----------------------------
(* A short recording: two interfaces, a message of each kind, a gap, one    *)
(* message that cannot be parsed and one of an interface that is not there. *)
EXTENDS Playback

CONSTANTS can0, can1, can2, speed, gear

TwoInterfaces == {can0, can1}
Msg(i, m, kind, t, r) ==
  [interface |-> i, name |-> m, kind |-> kind, time |-> t, readable |-> r]
ShortRecording ==
  << Msg(can0, speed, "data", 0, TRUE), Msg(can0, speed, "other", 0, TRUE),
     Msg(can1, speed, "raw", 1, TRUE), Msg(can2, speed, "data", 1, TRUE),
     Msg(can0, gear, "data", 3, FALSE), Msg(can0, gear, "data", 3, TRUE) >>
MCListed == [i \in {can0, can2} |-> IF i = can0 THEN <<gear, speed>> ELSE <<speed>>]
=============================================================================
