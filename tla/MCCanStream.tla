---------------------------- MODULE MCCanStream ----------------------------
(* Two calls, one that asks for every frame and one that asks for those of  *)
(* one interface; or two that ask for every frame.                          *)
EXTENDS CanStream, TLC

CONSTANTS c1, c2, can0, can1
OneInterface == {can0}
TwoInterfaces == {can0, can1}
TwoCalls == {c1, c2}
OneFilter == (c1 :> {Everything}) @@ (c2 :> {can0})
NoFilter == [c \in TwoCalls |-> {Everything}]
=============================================================================
