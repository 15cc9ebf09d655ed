--------------------------- MODULE ActionHandler ---------------------------
(***************************************************************************)
(* The scheduled senders of CAN frames, src/src/action/Action.cpp and      *)
(* ActionHandler.cpp beside it, on the single asio thread they run on,     *)
(* and the UI thread that posts operations to them.                        *)
(*                                                                         *)
(* The asio thread pops one operation at a time from a FIFO queue.  One    *)
(* entry of the queue is the reactor itself (Task): when its turn comes it *)
(* turns every wait whose deadline has passed into a completion, appends   *)
(* the completions and then itself.  Cancelling a timer reaches only the   *)
(* waits the reactor still holds: a completion already in the queue will   *)
(* run as if nothing had been cancelled.                                   *)
(*                                                                         *)
(* A handler runs as one step.  Between its start and its end other        *)
(* threads can only append to the queue or copy the snapshot, and either   *)
(* could as well have been done before the handler.                        *)
(*                                                                         *)
(* Indices are those of the code plus one.                                 *)
(***************************************************************************)
EXTENDS Naturals, Sequences, FiniteSets

CONSTANTS
  Actions,   \* the Action objects that are ever constructed
  Singles,   \* the SingleActions among them
  Sins,      \* the SinPeriodicActions; the others are PeriodicActions
  Presets,   \* the actions of the preset files, in the order they are loaded
  Values,    \* payloads, and parameters of a sine
  NoValue,   \* what a row of the snapshot shows of an action that is no sine
  Ticks,     \* last_sent_ is a time modulo Ticks
  MaxPosts   \* bound: posted operations that may wait in the queue

ASSUME KindsAssumption ==
  /\ IsFiniteSet(Actions)
  /\ Singles \subseteq Actions
  /\ Sins \subseteq Actions \ Singles
ASSUME PresetsAssumption ==
  /\ Presets \in Seq(Actions \ Singles)
  /\ \A i, j \in DOMAIN Presets : Presets[i] = Presets[j] => i = j
ASSUME BoundsAssumption == Ticks \in Nat \ {0, 1} /\ MaxPosts \in Nat

VARIABLES
  queue,     \* the operations the io_context has to run
  timer,     \* timer_ of each action: "idle", "pending" or "due"
  actions,   \* actions_
  paused,    \* paused_
  value,     \* payload_, or the parameters of a sine
  ever_sent, \* ever_sent_
  last_sent, \* last_sent_
  snapshot,  \* snapshot_
  life,      \* "unborn", "posted", "live" (in actions_) or "freed"
  alive,     \* no exception and no use of a destroyed Action has ended the process
  view,      \* the rows the UI thread took its last indices from
  erased,    \* how many actions have left actions_
  resumed    \* the actions some toggle has resumed

asioVars == <<queue, timer, actions, paused, value, ever_sent, last_sent,
              snapshot, life, alive, erased, resumed>>
vars == <<queue, timer, actions, paused, value, ever_sent, last_sent,
          snapshot, life, alive, view, erased, resumed>>

-----------------------------------------------------------------------------
(* Operations of the queue.                                                *)

Task == [kind |-> "task"]
WaitOp(a, ok) == [kind |-> "wait", act |-> a, ok |-> ok]
AddOp(a, p) == [kind |-> "add", act |-> a, paused |-> p]
\* act and epoch are not in the program: the action of the row the user
\* pointed at, and how many actions had left when that row was read.
RowOp(k, i, v, a, e) ==
  [kind |-> k, idx |-> i, value |-> v, act |-> a, epoch |-> e]

EditKinds == {"sin", "payload"}
RowKinds == {"remove", "toggle"} \cup EditKinds
\* What an operation carries beside the index.
Carried(k) == IF k \in EditKinds THEN Values ELSE {NoValue}
WaitOps == [kind : {"wait"}, act : Actions, ok : BOOLEAN]
AddOps == [kind : {"add"}, act : Actions, paused : BOOLEAN]
RowOps == {o \in [kind : RowKinds, idx : Nat \ {0},
                  value : Values \cup {NoValue}, act : Actions, epoch : Nat] :
             o.value \in Carried(o.kind)}
Ops == {Task} \cup WaitOps \cup AddOps \cup RowOps

Op == Head(queue)
Running(k) == alive /\ queue # <<>> /\ Op.kind = k

Due == {a \in Actions : timer[a] = "due"}
Orders(S) ==
  {s \in [1..Cardinality(S) -> S] :
      /\ \A i, j \in DOMAIN s : s[i] = s[j] => i = j
      /\ \A a \in S : \E i \in DOMAIN s : s[i] = a}

-----------------------------------------------------------------------------
(* What every handler is built from.                                       *)

Info(a) ==
  [act |-> a, paused |-> paused[a],
   value |-> IF a \in Sins THEN value[a] ELSE NoValue,
   ever_sent |-> ever_sent[a], last_sent |-> last_sent[a]]
Rows == [i \in DOMAIN actions |-> Info(actions[i])]

RebuildSnapshot == snapshot' = Rows'

\* The completion, with an error, of the wait that the timer of a holds.
Aborted(a) == IF timer[a] = "idle" THEN <<>> ELSE <<WaitOp(a, FALSE)>>

\* timer_.cancel(), expires_after() and the timer's destructor.
Cancel(a) ==
  /\ queue' = Tail(queue) \o Aborted(a)
  /\ timer' = [timer EXCEPT ![a] = "idle"]

\* schedule(): expires_after() drops an earlier wait, async_wait() adds one.
Schedule(a) ==
  /\ queue' = Tail(queue) \o Aborted(a)
  /\ timer' = [timer EXCEPT ![a] = "pending"]

Without(s, i) == SubSeq(s, 1, i - 1) \o SubSeq(s, i + 1, Len(s))

Erase(i) ==
  /\ actions' = Without(actions, i)
  /\ life' = [life EXCEPT ![actions[i]] = "freed"]
  /\ erased' = erased + 1

\* A handler that returns early.
Ignore ==
  /\ queue' = Tail(queue)
  /\ UNCHANGED <<timer, actions, paused, value, ever_sent, last_sent,
                 snapshot, life, alive, view, erased, resumed>>

-----------------------------------------------------------------------------
(* The handlers that ActionHandler's operations post.                      *)

\* Mutant: the action is paused before start() schedules it.
RunAdd_PauseThenStart ==
  /\ Running("add")
  /\ actions' = Append(actions, Op.act)
  /\ life' = [life EXCEPT ![Op.act] = "live"]
  /\ paused' = [paused EXCEPT ![Op.act] = Op.paused]
  /\ Schedule(Op.act)
  /\ UNCHANGED <<value, ever_sent, last_sent, alive, view, erased, resumed>>
  /\ RebuildSnapshot

\* Mutant: new actions are inserted at the front.
RunAdd_InFront ==
  /\ Running("add")
  /\ actions' = <<Op.act>> \o actions
  /\ life' = [life EXCEPT ![Op.act] = "live"]
  /\ paused' = [paused EXCEPT ![Op.act] = Op.paused]
  /\ IF Op.paused THEN queue' = Tail(queue) /\ timer' = timer
                  ELSE Schedule(Op.act)
  /\ UNCHANGED <<value, ever_sent, last_sent, alive, view, erased, resumed>>
  /\ RebuildSnapshot

RunAdd ==
  /\ Running("add")
  /\ LET a == Op.act
     IN /\ actions' = Append(actions, a)
        /\ life' = [life EXCEPT ![a] = "live"]
        /\ paused' = [paused EXCEPT ![a] = Op.paused]
        /\ IF Op.paused
           THEN /\ queue' = Append(Tail(queue), WaitOp(a, FALSE))
                /\ timer' = timer
           ELSE Schedule(a)
  /\ UNCHANGED <<value, ever_sent, last_sent, alive, view, erased, resumed>>
  /\ RebuildSnapshot

RunRemove ==
  /\ Running("remove")
  /\ \/ Op.idx > Len(actions) /\ Ignore
     \/ /\ Op.idx \in DOMAIN actions
        /\ Cancel(actions[Op.idx])
        /\ Erase(Op.idx)
        /\ UNCHANGED <<paused, value, ever_sent, last_sent, alive, view,
                       resumed>>
        /\ RebuildSnapshot

\* Mutant: pausing sets the flag and leaves the timer alone.
Pause_FlagOnly(a) ==
  /\ paused' = [paused EXCEPT ![a] = TRUE]
  /\ queue' = Tail(queue)
  /\ timer' = timer
  /\ resumed' = resumed

Pause(a) ==
  /\ paused' = [paused EXCEPT ![a] = TRUE]
  /\ Cancel(a)
  /\ resumed' = resumed

\* Mutant: resuming also posts the completion handler, to send at once.
Resume_SendNow(a) ==
  /\ paused' = [paused EXCEPT ![a] = FALSE]
  /\ queue' = Tail(queue) \o Aborted(a) \o <<WaitOp(a, TRUE)>>
  /\ timer' = [timer EXCEPT ![a] = "pending"]
  /\ resumed' = resumed \cup {a}

\* Mutant: resuming clears the flag and leaves the timer alone.
Resume_FlagOnly(a) ==
  /\ paused' = [paused EXCEPT ![a] = FALSE]
  /\ queue' = Tail(queue)
  /\ timer' = timer
  /\ resumed' = resumed \cup {a}

Resume(a) ==
  /\ paused' = [paused EXCEPT ![a] = FALSE]
  /\ Schedule(a)
  /\ resumed' = resumed \cup {a}

RunToggle ==
  /\ Running("toggle")
  /\ \/ Op.idx > Len(actions) /\ Ignore
     \/ /\ Op.idx \in DOMAIN actions
        /\ LET a == actions[Op.idx]
           IN IF paused[a] THEN Resume(a) ELSE Pause(a)
        /\ UNCHANGED <<actions, value, ever_sent, last_sent, life, alive,
                       view, erased>>
        /\ RebuildSnapshot

RunSinParam ==
  /\ Running("sin")
  /\ \/ /\ Op.idx \in DOMAIN actions => actions[Op.idx] \notin Sins
        /\ Ignore
     \/ /\ Op.idx \in DOMAIN actions
        /\ actions[Op.idx] \in Sins
        /\ value' = [value EXCEPT ![actions[Op.idx]] = Op.value]
        /\ queue' = Tail(queue)
        /\ UNCHANGED <<timer, actions, paused, ever_sent, last_sent, life,
                       alive, view, erased, resumed>>
        /\ RebuildSnapshot

\* The payload set for a sine is overwritten before it is ever sent.
RunPayload ==
  /\ Running("payload")
  /\ \/ /\ Op.idx \in DOMAIN actions => actions[Op.idx] \in Sins
        /\ Ignore
     \/ /\ Op.idx \in DOMAIN actions
        /\ actions[Op.idx] \notin Sins
        /\ value' = [value EXCEPT ![actions[Op.idx]] = Op.value]
        /\ queue' = Tail(queue)
        /\ UNCHANGED <<timer, actions, paused, ever_sent, last_sent, snapshot,
                       life, alive, view, erased, resumed>>

-----------------------------------------------------------------------------
(* The handlers of timer waits.                                            *)

RunAborted == Running("wait") /\ ~Op.ok /\ Ignore

\* fire(): the frame is handed to send_fn_, which returns.
Fire(a) ==
  /\ ever_sent' = [ever_sent EXCEPT ![a] = TRUE]
  /\ last_sent' = [last_sent EXCEPT ![a] = (@ + 1) % Ticks]

\* Mutant: the handler sends and does not schedule the next wait.
RunPeriodic_Once ==
  /\ Running("wait") /\ Op.ok /\ Op.act \notin Singles
  /\ Fire(Op.act)
  /\ queue' = Tail(queue) /\ timer' = timer
  /\ UNCHANGED <<actions, paused, value, life, alive, view, erased, resumed>>
  /\ RebuildSnapshot

RunPeriodic ==
  /\ Running("wait") /\ Op.ok /\ Op.act \notin Singles
  /\ Fire(Op.act)
  /\ Schedule(Op.act)
  /\ UNCHANGED <<actions, paused, value, life, alive, view, erased, resumed>>
  /\ RebuildSnapshot

\* Mutant: on_done_ is not called.
RunSingle_NotDone ==
  /\ Running("wait") /\ Op.ok /\ Op.act \in Singles
  /\ Fire(Op.act)
  /\ queue' = Tail(queue)
  /\ UNCHANGED <<timer, actions, paused, value, life, alive, view, erased,
                 resumed>>
  /\ RebuildSnapshot

\* on_done_ erases the action, whose timer then drops what it still holds.
RunSingle ==
  /\ Running("wait") /\ Op.ok /\ Op.act \in Singles
  /\ Fire(Op.act)
  /\ Cancel(Op.act)
  /\ \/ \E i \in DOMAIN actions : actions[i] = Op.act /\ Erase(i)
     \/ /\ life[Op.act] = "freed"
        /\ UNCHANGED <<actions, life, erased>>
  /\ UNCHANGED <<paused, value, alive, view, resumed>>
  /\ RebuildSnapshot

\* The completion runs on an Action that remove_action has destroyed.  The
\* memory may still hold the object, and the two handlers above run on it;
\* or the process dies.
RunDestroyed ==
  /\ Running("wait") /\ Op.ok /\ life[Op.act] = "freed"
  /\ alive' = FALSE
  /\ UNCHANGED <<queue, timer, actions, paused, value, ever_sent, last_sent,
                 snapshot, life, view, erased, resumed>>

\* send_fn_ throws: the write of SocketCAN::send() fails, because the buffer of
\* the interface is full or the interface is down, and nothing of the handler
\* after it is run.  Nobody catches it, neither here nor around io.run() in
\* run_tui() and run_gui(), so that the process ends.
RunThrows ==
  /\ Running("wait") /\ Op.ok
  /\ alive' = FALSE
  /\ UNCHANGED <<queue, timer, actions, paused, value, ever_sent, last_sent,
                 snapshot, life, view, erased, resumed>>

-----------------------------------------------------------------------------
(* The reactor.                                                            *)

\* The deadline of a wait passes.
Elapse(a) ==
  /\ alive /\ timer[a] = "pending"
  /\ timer' = [timer EXCEPT ![a] = "due"]
  /\ UNCHANGED <<queue, actions, paused, value, ever_sent, last_sent,
                 snapshot, life, alive, view, erased, resumed>>

\* epoll blocks while nothing is due and nothing else is queued.
RunTask ==
  /\ Running("task")
  /\ Due # {} \/ Len(queue) > 1
  /\ \E s \in Orders(Due) :
       queue' = Append(Tail(queue) \o [i \in DOMAIN s |-> WaitOp(s[i], TRUE)],
                       Task)
  /\ timer' = [a \in Actions |-> IF a \in Due THEN "idle" ELSE timer[a]]
  /\ UNCHANGED <<actions, paused, value, ever_sent, last_sent, snapshot,
                 life, alive, view, erased, resumed>>

-----------------------------------------------------------------------------
(* The UI thread.                                                          *)

Posted == {i \in DOMAIN queue : queue[i].kind \in RowKinds \cup {"add"}}
MayPost == alive /\ Cardinality(Posted) < MaxPosts

PostAdd(a) ==
  /\ MayPost /\ life[a] = "unborn"
  /\ life' = [life EXCEPT ![a] = "posted"]
  /\ queue' = Append(queue, AddOp(a, FALSE))
  /\ UNCHANGED <<timer, actions, paused, value, ever_sent, last_sent,
                 snapshot, alive, view, erased, resumed>>

\* snapshot(): a copy under the mutex.
Look ==
  /\ alive
  /\ view' = [rows |-> [i \in DOMAIN snapshot |-> snapshot[i].act],
              epoch |-> erased]
  /\ UNCHANGED asioVars

\* Mutant: the index is counted from zero.
PostRow_FromZero(k, i, v) ==
  /\ MayPost /\ i \in DOMAIN view.rows
  /\ queue' = Append(queue, RowOp(k, i - 1, v, view.rows[i], view.epoch))
  /\ UNCHANGED <<timer, actions, paused, value, ever_sent, last_sent,
                 snapshot, life, alive, view, erased, resumed>>

\* remove_action, toggle_pause, update_sin_param and update_payload, with
\* the index of a row of the copy.
PostRow(k, i, v) ==
  /\ MayPost /\ i \in DOMAIN view.rows
  /\ queue' = Append(queue, RowOp(k, i, v, view.rows[i], view.epoch))
  /\ UNCHANGED <<timer, actions, paused, value, ever_sent, last_sent,
                 snapshot, life, alive, view, erased, resumed>>

-----------------------------------------------------------------------------
PresetSet == {Presets[i] : i \in DOMAIN Presets}

\* load_action_presets has posted its actions before io.run() starts.
Init ==
  /\ queue = <<Task>> \o [i \in DOMAIN Presets |-> AddOp(Presets[i], TRUE)]
  /\ timer = [a \in Actions |-> "idle"]
  /\ actions = <<>>
  /\ paused = [a \in Actions |-> FALSE]
  /\ value \in [Actions -> Values]
  /\ ever_sent = [a \in Actions |-> FALSE]
  /\ last_sent = [a \in Actions |-> 0]
  /\ snapshot = <<>>
  /\ life = [a \in Actions |-> IF a \in PresetSet THEN "posted" ELSE "unborn"]
  /\ alive = TRUE
  /\ view = [rows |-> <<>>, epoch |-> 0]
  /\ erased = 0
  /\ resumed = {}

AsioThread ==
  \/ RunAdd \/ RunRemove \/ RunToggle \/ RunSinParam \/ RunPayload
  \/ RunAborted \/ RunPeriodic \/ RunSingle \/ RunDestroyed
  \/ RunThrows \/ RunTask

UiThread ==
  \/ Look
  \/ \E a \in Actions : PostAdd(a)
  \/ \E k \in RowKinds, i \in DOMAIN view.rows, v \in Values \cup {NoValue} :
       v \in Carried(k) /\ PostRow(k, i, v)

Next == AsioThread \/ (\E a \in Actions : Elapse(a)) \/ UiThread

\* io.run() keeps running handlers and deadlines pass; the user need not act.
Fairness == WF_vars(AsioThread) /\ \A a \in Actions : WF_vars(Elapse(a))

Spec == Init /\ [][Next]_vars
FairSpec == Spec /\ Fairness
-----------------------------------------------------------------------------
Infos == [act : Actions, paused : BOOLEAN, value : Values \cup {NoValue},
          ever_sent : BOOLEAN, last_sent : 0..(Ticks - 1)]

\* Every variable has its type.
TypeOK ==
  /\ queue \in Seq(Ops)
  /\ timer \in [Actions -> {"idle", "pending", "due"}]
  /\ actions \in Seq(Actions)
  /\ paused \in [Actions -> BOOLEAN]
  /\ value \in [Actions -> Values]
  /\ ever_sent \in [Actions -> BOOLEAN]
  /\ last_sent \in [Actions -> 0..(Ticks - 1)]
  /\ snapshot \in Seq(Infos)
  /\ life \in [Actions -> {"unborn", "posted", "live", "freed"}]
  /\ alive \in BOOLEAN
  /\ view \in [rows : Seq(Actions), epoch : Nat]
  /\ erased \in Nat
  /\ resumed \subseteq Actions

\* Whenever the UI thread can take snapshot_mutex_, the snapshot shows
\* actions_ as it is: no handler that changes a row ends without
\* rebuild_snapshot().
SnapshotFaithful == snapshot = Rows

Fired(a, i) == queue[i].kind = "wait" /\ queue[i].ok /\ queue[i].act = a

\* An action has one wait at a time.  At most one successful completion is
\* queued, and it runs before the reactor's next turn: if the action is paused
\* and resumed in between, so that its timer holds a wait again, the reactor
\* cannot complete that one beside it.  Two chains of schedule() never run
\* side by side.
OneWait ==
  \A a \in Actions : \A i, j \in DOMAIN queue :
    Fired(a, i) =>
      /\ Fired(a, j) => i = j
      /\ queue[j] = Task => i < j

\* No action is forgotten: one that is in actions_ and not paused has a wait
\* in its timer or a successful completion in the queue.
Armed ==
  alive => \A a \in Actions :
    life[a] = "live" /\ ~paused[a] =>
      timer[a] # "idle" \/ \E i \in DOMAIN queue : Fired(a, i)

\* A preset sends nothing until the user has resumed it: add_action_paused
\* cancels the wait that start() made before the reactor can see it.
QuietPreset ==
  \A a \in PresetSet :
    a \notin resumed => ~ever_sent[a] /\ (alive => paused[a] \/ life[a] # "live")

\* The operations that carry an index hit the row the user pointed at, as
\* long as no action has left actions_ since that row was read: additions,
\* toggles and edits in between do not move a row.
TargetHit ==
  \A i \in DOMAIN queue :
    queue[i].kind \in RowKinds /\ queue[i].epoch = erased =>
      /\ queue[i].idx \in DOMAIN actions
      /\ actions[queue[i].idx] = queue[i].act

\* To its user every action is a sender of Senders: it is sent once for each
\* wait that runs out, and at no other time, whatever is posted, cancelled or
\* completed between; and one that is shown as running has a wait running.
Mode(a) ==
  IF timer[a] = "due" \/ \E i \in DOMAIN queue : Fired(a, i) THEN "due"
  ELSE IF timer[a] = "pending" THEN "waiting" ELSE "silent"
Modes == [a \in Actions |-> Mode(a)]
On == {a \in Actions : life[a] = "live" /\ ~paused[a]}
Sender == INSTANCE Senders WITH mode <- Modes, on <- On
SenderSpec == Sender!Spec

\* A SingleAction sends one frame, whatever it is toggled or removed between.
SingleOnce ==
  [][\A a \in Singles : ever_sent[a] => last_sent'[a] = last_sent[a]]_vars

\* A periodic action that is left alone keeps sending, for as long as the
\* process lives: until a send of this or another action throws, or a
\* completion runs on an action that was destroyed.
KeepsFiring ==
  \A a \in Actions \ Singles :
    <>[](alive /\ life[a] = "live" /\ ~paused[a]) =>
      []<>(last_sent[a] = 0) /\ []<>(last_sent[a] = 1)

\* A single action that is not paused is sent and leaves the list, unless a
\* send throws first and ends the process: none is live for good, as only a
\* freed action is no longer live.
SingleLeaves ==
  \A a \in Singles : []<>~(alive /\ life[a] = "live" /\ ~paused[a])

\* pause() "cancels timer, sets paused flag" (src/src/action/Action.hpp:35): a
\* periodic action that stays paused stops sending.
PausedStops ==
  \A a \in Actions \ Singles :
    <>[](alive /\ life[a] = "live" /\ paused[a]) =>
      \E t \in 0..(Ticks - 1) : <>[](last_sent[a] = t)
=============================================================================
