--------------------------- MODULE UserInterfaces ---------------------------
(***************************************************************************)
(* The user interfaces, of which src/src/main.cpp starts one: the terminal *)
(* UI with its keyboard (TuiNav) and what it sends (Sending), or the GUI   *)
(* with what it sends (Sending) and its graphs (GraphWindow).  The parts   *)
(* share no state but the action handler, of which each has its own        *)
(* abstraction, so that a behaviour follows one of them and the others     *)
(* stand still.                                                            *)
(***************************************************************************)
EXTENDS TuiNav, Sending, GraphWindow

VARIABLE part \* which part is followed

uiVars == <<part, vars, sendVars, graphVars>>

\* The mode main() dispatches to decides what there is to follow.
UiInit ==
  /\ Init /\ SendInit /\ GraphInit
  /\ \/ part = "keys" /\ front = "tui"
     \/ part = "sending" /\ user = CHOOSE u \in Users : TRUE
     \/ part = "graphs" /\ front = "gui" /\ user = CHOOSE u \in Users : TRUE

UiNext ==
  /\ \/ part = "keys" /\ Next /\ UNCHANGED <<sendVars, graphVars>>
     \/ part = "sending" /\ SendNext /\ UNCHANGED <<vars, graphVars>>
     \/ part = "graphs" /\ GraphNext /\ UNCHANGED <<vars, sendVars>>
  /\ UNCHANGED part

UiSpec == UiInit /\ [][UiNext]_uiVars

\* Every variable has its type; cursors, rows and menus point at what is there.
UiTypeOK ==
  part \in {"keys", "sending", "graphs"} /\ TypeOK /\ SendTypeOK /\ GraphTypeOK
=============================================================================
