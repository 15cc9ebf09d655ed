------------------------------ MODULE Senders -------------------------------
(***************************************************************************)
(* What src/src/action/ActionHandler.hpp promises of its actions, with no  *)
(* queue, timer, cancellation or list: each is a sender that counts down,  *)
(* sends once when the count has ended, and then counts anew, or, if it    *)
(* sends a single frame, is done.  It sends at no other time.  The user    *)
(* starts and stops it; one whose count has ended may still send once      *)
(* after it was stopped, and then goes on.                                 *)
(***************************************************************************)
EXTENDS Naturals

CONSTANTS Actions, Singles, Ticks

VARIABLES
  mode,      \* "silent", "waiting" for a period to end, or "due" to send
  on,        \* the actions that are in the list and shown as running
  ever_sent,
  last_sent

vars == <<mode, on, ever_sent, last_sent>>

\* A count begins, unless one has ended and is to be followed by a frame.
Start(a) ==
  /\ a \in Singles => ~ever_sent[a]
  /\ on' = on \cup {a}
  /\ \/ mode' = [mode EXCEPT ![a] = "waiting"]
     \/ mode[a] = "due" /\ mode' = mode
  /\ UNCHANGED <<ever_sent, last_sent>>

Stop(a) ==
  /\ on' = on \ {a}
  /\ \/ mode' = [mode EXCEPT ![a] = "silent"]
     \/ mode[a] = "due" /\ mode' = mode
  /\ UNCHANGED <<ever_sent, last_sent>>

End(a) ==
  /\ mode[a] = "waiting"
  /\ mode' = [mode EXCEPT ![a] = "due"]
  /\ UNCHANGED <<on, ever_sent, last_sent>>

Send(a) ==
  /\ mode[a] = "due"
  /\ ever_sent' = [ever_sent EXCEPT ![a] = TRUE]
  /\ last_sent' = [last_sent EXCEPT ![a] = (@ + 1) % Ticks]
  /\ IF a \in Singles
     THEN mode' = [mode EXCEPT ![a] = "silent"] /\ on' = on \ {a}
     ELSE mode' = [mode EXCEPT ![a] = "waiting"] /\ on' = on

Init ==
  /\ mode = [a \in Actions |-> "silent"]
  /\ on = {}
  /\ ever_sent = [a \in Actions |-> FALSE]
  /\ last_sent = [a \in Actions |-> 0]

Next == \E a \in Actions : Start(a) \/ Stop(a) \/ End(a) \/ Send(a)

Spec == Init /\ [][Next]_vars
=============================================================================
