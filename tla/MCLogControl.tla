---------------------------- MODULE MCLogControl ----------------------------
(* Two GUI clients.                                                          *)
EXTENDS LogControl

CONSTANTS gui1, gui2
TwoClients == {gui1, gui2}
Symmetry == Permutations(TwoClients)
=============================================================================
