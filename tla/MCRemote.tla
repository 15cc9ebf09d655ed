------------------------------ MODULE MCRemote ------------------------------
(* A server and a client of it, with the interfaces of both.                *)
EXTENDS Remote

CONSTANTS can0, can1
OneInterface == {can0}
TwoInterfaces == {can0, can1}
=============================================================================
