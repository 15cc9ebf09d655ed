----------------------------- MODULE FrameFeed ------------------------------
(***************************************************************************)
(* What the stream of src/src/grpc/CanStreamService.cpp promises to those  *)
(* who call Subscribe(), with no queue, thread or mutex: a frame goes at   *)
(* one instant to every call that is open and asked for it, and a call is  *)
(* given its frames one by one, in order, none left out, until it stops.   *)
(***************************************************************************)
EXTENDS Naturals, Sequences

CONSTANTS Calls, Frames, Everything, Filters

VARIABLES
  open,   \* the calls that frames are fed to
  filter, \* what each call asked for
  feed,   \* what has been fed to each call
  got     \* what the client of each call has been given

vars == <<open, filter, feed, got>>

Wants(s, f) == filter[s] \in {Everything, f.interface}

Ask(s, x) ==
  /\ s \notin open /\ feed[s] = <<>>
  /\ filter' = [filter EXCEPT ![s] = x]
  /\ UNCHANGED <<open, feed, got>>

Subscribe(s) == open' = open \cup {s} /\ UNCHANGED <<filter, feed, got>>
Cancel(s) == open' = open \ {s} /\ UNCHANGED <<filter, feed, got>>

Publish(f) ==
  /\ feed' = [s \in Calls |-> IF s \in open /\ Wants(s, f) THEN Append(feed[s], f)
                                                            ELSE feed[s]]
  /\ UNCHANGED <<open, filter, got>>

Deliver(s) ==
  /\ Len(got[s]) < Len(feed[s])
  /\ got' = [got EXCEPT ![s] = Append(@, feed[s][Len(@) + 1])]
  /\ UNCHANGED <<open, filter, feed>>

Init ==
  /\ open = {}
  /\ filter = [s \in Calls |-> Everything]
  /\ feed = [s \in Calls |-> <<>>]
  /\ got = [s \in Calls |-> <<>>]

Next ==
  \/ \E s \in Calls : \/ \E x \in Filters[s] : Ask(s, x)
                      \/ Subscribe(s) \/ Cancel(s) \/ Deliver(s)
  \/ \E f \in Frames : Publish(f)

Spec == Init /\ [][Next]_vars
=============================================================================
