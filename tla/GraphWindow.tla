------------------------------ MODULE GraphWindow -----------------------------
(***************************************************************************)
(* The graphs of the GUI: src/src/gui/GraphWindow.cpp, the windows whose   *)
(* context menus add signals to it (TraceWindow.cpp and ModelWindow.cpp),  *)
(* the trace they are picked from (src/src/frame/DataFrameSet.cpp) and the *)
(* presets of GraphPreset.cpp.                                             *)
(*                                                                         *)
(* The asio thread brings a frame, or an output of the Lua model, to one   *)
(* window after the other, each under the mutex of that window, while the  *)
(* render thread handles the mouse in between.  The value of a signal is   *)
(* the number of the frame it came with.  Axes' ranges, panning and the    *)
(* search text change only what is drawn and are left out.                 *)
(***************************************************************************)
EXTENDS Integers, Sequences, SequencesExt, Functions, Filters

CONSTANTS
  Arrivals,    \* what may come: [from |-> <<interface, id>>, signals]
  GraphDbcs,   \* the configured interfaces in order, with the messages of their DBC
  GraphFile,   \* the presets: for each graph its entries
  Axes,        \* Y1 to Y3 are 0..2
  MaxPoints,   \* SignalSeries::MAX
  MaxReceived, \* bound: frames and outputs
  MaxTabs,     \* bound: graphs
  MaxSeries    \* bound: series of a graph

VARIABLES
  tabs,     \* graphs_: for each graph its series
  shown,    \* the signals listed in the trace, and the outputs listed in the model window
  coming,   \* what is in some windows and not in the graphs, or <<>>
  popup,    \* the open context menu: of a signal, of a series, or none
  received  \* what the graphs have been given (history)

graphVars == <<tabs, shown, coming, popup, received>>

\* The presets of the file are within the bound on graphs.
ASSUME GraphAssumption ==
  /\ MaxPoints \in Nat \ {0} /\ MaxTabs \in Nat
  /\ GraphDbcs \in Seq(Range(GraphDbcs))
  /\ GraphFile \in Seq(Range(GraphFile)) /\ Len(GraphFile) <= MaxTabs
  /\ \A entries \in Range(GraphFile) : entries \in Seq(Range(entries))

Model == "__model__"
Closed == [kind |-> "none"]

-----------------------------------------------------------------------------
(* GraphWindow.                                                            *)

Series(from, name, label, axis, since) ==
  [from |-> from, name |-> name, label |-> label, axis |-> axis, points |-> <<>>,
   since |-> since]

\* Mutant: a signal is looked for among those of its axis.
AddSignal_PerAxis(graph, s) ==
  IF \E i \in DOMAIN graph : /\ graph[i].from = s.from /\ graph[i].name = s.name
                             /\ graph[i].axis = s.axis
    THEN graph ELSE Append(graph, s)

\* A graph has a signal once.
AddSignal(graph, s) ==
  IF \E i \in DOMAIN graph : graph[i].from = s.from /\ graph[i].name = s.name
    THEN graph ELSE Append(graph, s)

Push(points, v) ==
  LET all == Append(points, v) IN IF Len(all) > MaxPoints THEN Tail(all) ELSE all

\* The asio thread: the window of the trace or of the model ...
Arrive(f) ==
  /\ coming = <<>> /\ Len(received) < MaxReceived
  /\ coming' = <<f>>
  /\ shown' = [shown EXCEPT ![f.from] =
                 IF f.from[1] = Model THEN @ \cup f.signals
                 ELSE IF f.signals = {} THEN @ ELSE f.signals]
  /\ UNCHANGED <<tabs, popup, received>>

\* ... and then update() or push_value() of the graphs.
Plot ==
  /\ coming # <<>>
  /\ tabs' = [t \in DOMAIN tabs |-> [i \in DOMAIN tabs[t] |->
                LET s == tabs[t][i]
                IN IF s.from = coming[1].from /\ s.name \in coming[1].signals
                     THEN [s EXCEPT !.points = Push(@, Len(received) + 1)] ELSE s]]
  /\ received' = Append(received, coming[1]) /\ coming' = <<>>
  /\ UNCHANGED <<shown, popup>>

AddGraph ==
  /\ Len(tabs) < MaxTabs
  /\ tabs' = Append(tabs, <<>>)
  /\ UNCHANGED <<shown, coming, popup, received>>

-----------------------------------------------------------------------------
(* The menus, of which one is open at a time.                              *)

OpenSignal(from, name) ==
  /\ name \in shown[from]
  /\ popup' = [kind |-> "signal", from |-> from, name |-> name]
  /\ UNCHANGED <<tabs, shown, coming, received>>

\* To one of the graphs, or to a new one.
PickGraph(t, axis) ==
  /\ popup.kind = "signal"
  /\ t \in DOMAIN tabs => Len(tabs[t]) < MaxSeries
  /\ LET ts == IF t \in DOMAIN tabs THEN tabs ELSE Append(tabs, <<>>)
     IN tabs' = [ts EXCEPT ![t] = AddSignal(@,
                   Series(popup.from, popup.name, <<popup.name>>, axis, Len(received)))]
  /\ popup' = Closed
  /\ UNCHANGED <<shown, coming, received>>

\* A legend entry is known by its label: of those with one label the last opens.
OpenSeries(t, i) ==
  /\ tabs[t][i].points # <<>>
  /\ \A j \in DOMAIN tabs[t] : j > i /\ tabs[t][j].points # <<>> =>
       tabs[t][j].label # tabs[t][i].label
  /\ popup' = [kind |-> "series", tab |-> t, at |-> i, axis |-> tabs[t][i].axis]
  /\ UNCHANGED <<tabs, shown, coming, received>>

ChangeAxis(axis) ==
  /\ popup.kind = "series" /\ axis # popup.axis
  /\ tabs' = [tabs EXCEPT ![popup.tab][popup.at].axis = axis]
  /\ popup' = Closed
  /\ UNCHANGED <<shown, coming, received>>

RemoveSeries ==
  /\ popup.kind = "series"
  /\ tabs' = [tabs EXCEPT ![popup.tab] = RemoveAt(@, popup.at)]
  /\ popup' = Closed
  /\ UNCHANGED <<shown, coming, received>>

-----------------------------------------------------------------------------
(* The presets.                                                            *)

\* The interfaces an entry may be about: the one it names, or any.
Having(e) ==
  {d \in DOMAIN GraphDbcs : /\ e.msg \in DOMAIN GraphDbcs[d].messages
                            /\ e.interface \in {"", GraphDbcs[d].name}}
First(ds) == CHOOSE d \in ds : \A e \in ds : d <= e

\* The name of the signal is taken as it is.
LoadEntry(graph, e) ==
  IF e.msg = "" \/ e.signal = "" \/ Having(e) = {} THEN graph
  ELSE LET d == GraphDbcs[First(Having(e))]
       IN AddSignal(graph, Series(<<d.name, d.messages[e.msg]>>, e.signal,
                                  <<e.msg, e.signal>>, e.axis, 0))

\* One entry after the other.
LoadGraph(entries) ==
  LET graph[n \in 0..Len(entries)] ==
        IF n = 0 THEN <<>> ELSE LoadEntry(graph[n-1], entries[n])
  IN graph[Len(entries)]

GraphInit ==
  /\ tabs = [t \in DOMAIN GraphFile |-> LoadGraph(GraphFile[t])]
  /\ shown = [from \in {f.from : f \in Arrivals} |-> {}]
  /\ coming = <<>> /\ popup = Closed /\ received = <<>>

GraphNext ==
  \/ \E f \in Arrivals : Arrive(f)
  \/ Plot \/ AddGraph \/ RemoveSeries
  \/ \E from \in DOMAIN shown : \E name \in shown[from] : OpenSignal(from, name)
  \/ \E axis \in Axes : ChangeAxis(axis) \/ \E t \in 1..MaxTabs :
       t <= Len(tabs) + 1 /\ PickGraph(t, axis)
  \/ \E t \in DOMAIN tabs : \E i \in DOMAIN tabs[t] : OpenSeries(t, i)

-----------------------------------------------------------------------------
Entries == UNION {Range(entries) : entries \in Range(GraphFile)}
Origins == {f.from : f \in Arrivals} \cup
           UNION {{<<d.name, id>> : id \in Range(d.messages)} : d \in Range(GraphDbcs)}
Listed == (UNION {f.signals : f \in Arrivals}) \cup {e.signal : e \in Entries}
Curves == [from : Origins, name : Listed, label : Seq(Listed \cup {e.msg : e \in Entries}),
           axis : Axes \cup {e.axis : e \in Entries}, points : Seq(Nat), since : Nat]

\* A menu of a signal is of one that may be listed, one of a series of one there is.
GraphTypeOK ==
  /\ tabs \in Seq(Seq(Curves)) /\ Len(tabs) <= MaxTabs
  /\ shown \in [{f.from : f \in Arrivals} -> SUBSET Listed]
  /\ coming \in Seq(Arrivals) /\ received \in Seq(Arrivals)
  /\ popup.kind \in {"none", "signal", "series"}
  /\ popup.kind = "signal" => popup.from \in DOMAIN shown /\ popup.name \in Listed
  /\ popup.kind = "series" => popup.tab \in DOMAIN tabs /\ popup.at \in DOMAIN tabs[popup.tab]

\* The frames with the signal that came since a series was added.
Fed(s) ==
  Filter([n \in 1..Len(received) |-> n],
         {n \in 1..Len(received) : /\ n > s.since /\ received[n].from = s.from
                                   /\ s.name \in received[n].signals})

\* A graph has a signal once, and its curve is made of the last values received
\* since it was added, each once and in order, whatever is added, moved to another
\* axis, removed or received meanwhile (src/src/gui/GraphWindow.cpp:13-85).
SeriesFaithful ==
  \A t \in DOMAIN tabs : \A i \in DOMAIN tabs[t] :
    LET s == tabs[t][i] IN
    /\ \A j \in DOMAIN tabs[t] : tabs[t][j].from = s.from /\ tabs[t][j].name = s.name => i = j
    /\ s.points = LET fed == Fed(s)
                  IN SubSeq(fed, Len(fed) - Len(s.points) + 1, Len(fed))
    /\ Len(s.points) = Len(Fed(s)) \/ Len(s.points) = MaxPoints
=============================================================================
