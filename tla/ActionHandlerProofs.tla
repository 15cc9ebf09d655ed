------------------------ MODULE ActionHandlerProofs ------------------------
(***************************************************************************)
(* Theorems about the ActionHandler, for every set of actions, presets,    *)
(* values, ticks and bound on the posted operations.                       *)
(***************************************************************************)
EXTENDS ActionHandler, SequenceTheorems, FiniteSetTheorems, TLAPS

-----------------------------------------------------------------------------
(* Typing of what handlers are built from.                                 *)

LEMMA TickType ==
  ASSUME NEW t \in 0..(Ticks - 1)
  PROVE  (t + 1) % Ticks \in 0..(Ticks - 1)
BY BoundsAssumption

LEMMA FunctionIsSeq ==
  ASSUME NEW S, NEW n \in Nat, NEW f \in [1..n -> S]
  PROVE  /\ f \in Seq(S)
         /\ Len(f) = n
         /\ DOMAIN f = 1..n
BY SeqDef

LEMMA SingletonSeq ==
  ASSUME NEW S, NEW x \in S
  PROVE  /\ <<>> \in Seq(S)
         /\ <<x>> \in Seq(S)
         /\ Len(<<x>>) = 1
         /\ <<x>>[1] = x
<1>1. <<x>> = Append(<<>>, x)
  OBVIOUS
<1>. QED  BY <1>1, EmptySeq, AppendProperties

LEMMA AbortedType ==
  ASSUME NEW a \in Actions
  PROVE  Aborted(a) \in Seq(Ops)
<1>1. WaitOp(a, FALSE) \in Ops
  BY DEF WaitOp, Ops, WaitOps
<1>2. <<>> \in Seq(Ops) /\ <<WaitOp(a, FALSE)>> \in Seq(Ops)
  BY <1>1, SingletonSeq
<1>. QED  BY <1>2 DEF Aborted

LEMMA OpType ==
  ASSUME TypeOK, queue # <<>>
  PROVE  /\ Op \in Ops
         /\ Tail(queue) \in Seq(Ops)
BY HeadTailProperties DEF TypeOK, Op

LEMMA KindType ==
  ASSUME TypeOK, NEW k, Running(k)
  PROVE  /\ queue # <<>>
         /\ k = "wait" => Op.act \in Actions /\ Op.ok \in BOOLEAN
         /\ k = "add" => Op.act \in Actions /\ Op.paused \in BOOLEAN
         /\ k \in RowKinds => Op.idx \in Nat \ {0} /\ Op.value \in Carried(k)
BY OpType DEF Running, Ops, Task, WaitOps, AddOps, RowOps, RowKinds, EditKinds

\* The part of TypeOK that the rows of a snapshot are made of.
RowTyping ==
  /\ actions \in Seq(Actions)
  /\ paused \in [Actions -> BOOLEAN]
  /\ value \in [Actions -> Values]
  /\ ever_sent \in [Actions -> BOOLEAN]
  /\ last_sent \in [Actions -> 0..(Ticks - 1)]

LEMMA RowsType == RowTyping => Rows \in Seq(Infos)
<1>. SUFFICES ASSUME RowTyping
              PROVE  Rows \in Seq(Infos)
  OBVIOUS
<1>1. \A a \in Actions : Info(a) \in Infos
  BY DEF RowTyping, Info, Infos
<1>2. \A i \in 1..Len(actions) : Info(actions[i]) \in Infos
  BY <1>1, ElementOfSeq DEF RowTyping
<1>3. Rows = [i \in 1..Len(actions) |-> Info(actions[i])]
  BY DEF Rows, RowTyping
<1>4. Len(actions) \in Nat
  BY DEF RowTyping
<1>. QED  BY <1>2, <1>3, <1>4, SeqDef

LEMMA RebuildType == RowTyping' /\ RebuildSnapshot => snapshot' \in Seq(Infos)
<1>1. (RowTyping => Rows \in Seq(Infos))'
  BY RowsType, PTL
<1>. QED  BY <1>1 DEF RebuildSnapshot

LEMMA WithoutType ==
  ASSUME NEW s \in Seq(Actions), NEW i \in DOMAIN s
  PROVE  /\ Without(s, i) \in Seq(Actions)
         /\ Len(Without(s, i)) = Len(s) - 1
         /\ \A j \in 1..(i - 1) : Without(s, i)[j] = s[j]
         /\ \A j \in i..(Len(s) - 1) : Without(s, i)[j] = s[j + 1]
<1>1. /\ SubSeq(s, 1, i - 1) \in Seq(Actions)
      /\ Len(SubSeq(s, 1, i - 1)) = i - 1
      /\ \A j \in 1..(i - 1) : SubSeq(s, 1, i - 1)[j] = s[j]
  BY SubSeqProperties
<1>2. /\ SubSeq(s, i + 1, Len(s)) \in Seq(Actions)
      /\ Len(SubSeq(s, i + 1, Len(s))) = Len(s) - i
      /\ \A j \in 1..(Len(s) - i) : SubSeq(s, i + 1, Len(s))[j] = s[i + j]
  BY SubSeqProperties
<1>3. i \in 1..Len(s) /\ Len(s) \in Nat
  OBVIOUS
<1>4. /\ Without(s, i) \in Seq(Actions)
      /\ Len(Without(s, i)) = i - 1 + (Len(s) - i)
      /\ \A j \in 1..(i - 1 + (Len(s) - i)) : Without(s, i)[j] =
            IF j <= i - 1 THEN SubSeq(s, 1, i - 1)[j]
                          ELSE SubSeq(s, i + 1, Len(s))[j - (i - 1)]
  BY <1>1, <1>2, ConcatProperties DEF Without
<1>5. \A j \in 1..(i - 1) : Without(s, i)[j] = s[j]
  BY <1>1, <1>3, <1>4
<1>6. ASSUME NEW j \in i..(Len(s) - 1)
      PROVE  Without(s, i)[j] = s[j + 1]
  <2>1. j - (i - 1) \in 1..(Len(s) - i) /\ j \in 1..(i - 1 + (Len(s) - i))
    BY <1>3
  <2>2. SubSeq(s, i + 1, Len(s))[j - (i - 1)] = s[i + (j - (i - 1))]
    BY <1>2, <2>1
  <2>3. Without(s, i)[j] = SubSeq(s, i + 1, Len(s))[j - (i - 1)]
    BY <1>3, <1>4, <2>1
  <2>. QED  BY <1>3, <2>2, <2>3
<1>. QED  BY <1>3, <1>4, <1>5, <1>6
\* Appending the completion that a cancelled wait leaves keeps the queue typed.
LEMMA QueueAborted ==
  ASSUME TypeOK, queue # <<>>, NEW a \in Actions
  PROVE  Tail(queue) \o Aborted(a) \in Seq(Ops)
BY OpType, AbortedType, ConcatProperties

LEMMA OrdersType ==
  ASSUME NEW S \in SUBSET Actions, NEW s \in Orders(S)
  PROVE  /\ Cardinality(S) \in Nat
         /\ s \in Seq(S)
         /\ DOMAIN s = 1..Len(s)
         /\ [i \in DOMAIN s |-> WaitOp(s[i], TRUE)] \in Seq(WaitOps)
         /\ Len([i \in DOMAIN s |-> WaitOp(s[i], TRUE)]) = Len(s)
<1>1. Cardinality(S) \in Nat
  BY KindsAssumption, FS_Subset, FS_CardinalityType
<1>2. s \in [1..Cardinality(S) -> S]
  BY DEF Orders
<1>3. s \in Seq(S)
  BY <1>1, <1>2, SeqDef
<1>4. \A i \in DOMAIN s : WaitOp(s[i], TRUE) \in WaitOps
  BY <1>2 DEF WaitOp, WaitOps
<1>5. [i \in DOMAIN s |-> WaitOp(s[i], TRUE)] \in [1..Cardinality(S) -> WaitOps]
  BY <1>2, <1>4
<1>6. [i \in DOMAIN s |-> WaitOp(s[i], TRUE)] \in Seq(WaitOps)
  BY <1>1, <1>5, SeqDef
<1>. QED  BY <1>1, <1>2, <1>3, <1>5, <1>6

LEMMA TypeInit == Init => TypeOK
<1>. SUFFICES ASSUME Init
              PROVE  TypeOK
  OBVIOUS
<1>1. Presets \in Seq(Actions)
  BY PresetsAssumption, SeqMonotonic
<1>2. [i \in DOMAIN Presets |-> AddOp(Presets[i], TRUE)] \in Seq(Ops)
  <2>1. \A i \in 1..Len(Presets) : AddOp(Presets[i], TRUE) \in Ops
    BY <1>1, ElementOfSeq DEF AddOp, AddOps, Ops
  <2>2. Len(Presets) \in Nat /\ DOMAIN Presets = 1..Len(Presets)
    BY <1>1
  <2>3. [i \in DOMAIN Presets |-> AddOp(Presets[i], TRUE)] \in [1..Len(Presets) -> Ops]
    BY <2>1, <2>2
  <2>. QED  BY ONLY <2>2, <2>3, FunctionIsSeq
<1>3. <<Task>> \in Seq(Ops)
  BY SingletonSeq DEF Ops
<1>4. queue \in Seq(Ops)
  BY <1>2, <1>3, ConcatProperties DEF Init
<1>. QED  BY <1>4, BoundsAssumption, SingletonSeq DEF Init, TypeOK

LEMMA TypeStep == TypeOK /\ [Next]_vars => TypeOK'
<1>. SUFFICES ASSUME TypeOK, [Next]_vars
              PROVE  TypeOK'
  OBVIOUS
<1>1. CASE RunAdd
  <2>1. queue # <<>> /\ Op.act \in Actions /\ Op.paused \in BOOLEAN
    BY <1>1, KindType DEF RunAdd
  <2>2. queue' \in Seq(Ops)
    <3>1. CASE Op.paused
      <4>1. WaitOp(Op.act, FALSE) \in Ops
        BY <2>1 DEF WaitOp, WaitOps, Ops
      <4>. QED  BY <1>1, <2>1, <3>1, <4>1, OpType, AppendProperties DEF RunAdd
    <3>2. CASE ~Op.paused
      BY <1>1, <2>1, <3>2, QueueAborted DEF RunAdd, Schedule
    <3>. QED  BY <3>1, <3>2
  <2>3. timer' \in [Actions -> {"idle", "pending", "due"}]
    BY <1>1, <2>1 DEF RunAdd, Schedule, TypeOK
  <2>4. actions' \in Seq(Actions)
    BY <1>1, <2>1, AppendProperties DEF RunAdd, TypeOK
  <2>5. RowTyping'
    BY <1>1, <2>1, <2>4 DEF RunAdd, TypeOK, RowTyping
  <2>6. snapshot' \in Seq(Infos)
    BY <1>1, <2>5, RebuildType DEF RunAdd
  <2>. QED  BY <1>1, <2>1, <2>2, <2>3, <2>5, <2>6 DEF RunAdd, TypeOK, RowTyping
<1>2. CASE RunRemove
  <2>1. queue # <<>>
    BY <1>2, KindType DEF RunRemove
  <2>2. CASE Ignore
    BY <2>1, <2>2, OpType DEF Ignore, TypeOK
  <2>3. CASE Op.idx \in DOMAIN actions /\ Cancel(actions[Op.idx]) /\ Erase(Op.idx)
             /\ RebuildSnapshot
             /\ UNCHANGED <<paused, value, ever_sent, last_sent, alive, view, resumed>>
    <3>1. actions[Op.idx] \in Actions
      BY <2>3 DEF TypeOK
    <3>2. queue' \in Seq(Ops)
      BY <2>1, <2>3, <3>1, QueueAborted DEF Cancel
    <3>3. actions' \in Seq(Actions)
      BY <2>3, WithoutType DEF Erase, TypeOK
    <3>4. RowTyping'
      BY <2>3, <3>3 DEF TypeOK, RowTyping
    <3>5. snapshot' \in Seq(Infos)
      BY <2>3, <3>4, RebuildType
    <3>6. /\ timer' \in [Actions -> {"idle", "pending", "due"}]
          /\ life' \in [Actions -> {"unborn", "posted", "live", "freed"}]
          /\ erased' \in Nat
      BY <2>3, <3>1 DEF Cancel, Erase, TypeOK
    <3>. QED  BY <2>3, <3>2, <3>4, <3>5, <3>6 DEF TypeOK, RowTyping
  <2>. QED  BY <1>2, <2>2, <2>3 DEF RunRemove
<1>3. CASE RunToggle
  <2>1. queue # <<>>
    BY <1>3, KindType DEF RunToggle
  <2>2. CASE Ignore
    BY <2>1, <2>2, OpType DEF Ignore, TypeOK
  <2>3. ASSUME ~Ignore
        PROVE  TypeOK'
    <3>. DEFINE a == actions[Op.idx]
    <3>1. /\ a \in Actions
          /\ IF paused[a] THEN Resume(a) ELSE Pause(a)
          /\ UNCHANGED <<actions, value, ever_sent, last_sent, life, alive, view, erased>>
          /\ RebuildSnapshot
      BY <1>3, <2>3 DEF RunToggle, TypeOK
    <3>. HIDE DEF a
    <3>2. queue' = Tail(queue) \o Aborted(a)
      BY <3>1 DEF Resume, Pause, Schedule, Cancel
    <3>3. queue' \in Seq(Ops)
      BY <2>1, <3>1, <3>2, QueueAborted
    <3>4. /\ timer' \in [Actions -> {"idle", "pending", "due"}]
          /\ paused' \in [Actions -> BOOLEAN]
          /\ resumed' \subseteq Actions
      <4>0. /\ timer \in [Actions -> {"idle", "pending", "due"}]
            /\ paused \in [Actions -> BOOLEAN] /\ resumed \subseteq Actions
        BY DEF TypeOK
      <4>1. CASE paused[a]
        BY <3>1, <4>0, <4>1 DEF Resume, Schedule, Cancel
      <4>2. CASE ~paused[a]
        BY <3>1, <4>0, <4>2 DEF Pause, Cancel
      <4>. QED  BY <4>1, <4>2
    <3>5. RowTyping'
      BY <3>1, <3>4 DEF TypeOK, RowTyping
    <3>6. snapshot' \in Seq(Infos)
      BY <3>1, <3>5, RebuildType
    <3>. QED  BY <3>1, <3>3, <3>4, <3>5, <3>6 DEF TypeOK, RowTyping
  <2>. QED  BY <2>2, <2>3
<1>4. CASE RunSinParam
  <2>1. queue # <<>> /\ Op.value \in Carried("sin")
    BY <1>4, KindType DEF RunSinParam, RowKinds, EditKinds
  <2>2. CASE Ignore
    BY <2>1, <2>2, OpType DEF Ignore, TypeOK
  <2>3. ASSUME ~Ignore
        PROVE  TypeOK'
    <3>1. /\ value' \in [Actions -> Values]
          /\ queue' \in Seq(Ops)
          /\ UNCHANGED <<timer, actions, paused, ever_sent, last_sent, life,
                         alive, view, erased, resumed>>
          /\ RebuildSnapshot
      BY <1>4, <2>1, <2>3, OpType DEF RunSinParam, Carried, EditKinds, TypeOK
    <3>2. snapshot' \in Seq(Infos)
      BY <3>1, RebuildType DEF TypeOK, RowTyping
    <3>. QED  BY <3>1, <3>2 DEF TypeOK
  <2>. QED  BY <2>2, <2>3
<1>5. CASE RunPayload
  <2>1. queue # <<>> /\ Op.value \in Carried("payload")
    BY <1>5, KindType DEF RunPayload, RowKinds, EditKinds
  <2>2. CASE Ignore
    BY <2>1, <2>2, OpType DEF Ignore, TypeOK
  <2>3. ASSUME ~Ignore
        PROVE  TypeOK'
    BY <1>5, <2>1, <2>3, OpType DEF RunPayload, Carried, EditKinds, TypeOK
  <2>. QED  BY <2>2, <2>3
<1>6. CASE RunAborted
  BY <1>6, KindType, OpType DEF RunAborted, Ignore, TypeOK
<1>7. CASE RunPeriodic
  <2>1. queue # <<>> /\ Op.act \in Actions
    BY <1>7, KindType DEF RunPeriodic
  <2>2. queue' \in Seq(Ops)
    BY <1>7, <2>1, QueueAborted DEF RunPeriodic, Schedule
  <2>3. /\ ever_sent' \in [Actions -> BOOLEAN]
        /\ last_sent' \in [Actions -> 0..(Ticks - 1)]
    BY <1>7, <2>1, TickType DEF RunPeriodic, Fire, TypeOK
  <2>4. timer' \in [Actions -> {"idle", "pending", "due"}]
    BY <1>7, <2>1 DEF RunPeriodic, Schedule, TypeOK
  <2>5. snapshot' \in Seq(Infos)
    BY <1>7, <2>3, RebuildType DEF RunPeriodic, TypeOK, RowTyping
  <2>. QED  BY <1>7, <2>2, <2>3, <2>4, <2>5 DEF RunPeriodic, TypeOK
<1>8. CASE RunSingle
  <2>1. queue # <<>> /\ Op.act \in Actions
    BY <1>8, KindType DEF RunSingle
  <2>2. queue' \in Seq(Ops)
    BY <1>8, <2>1, QueueAborted DEF RunSingle, Cancel
  <2>3. /\ ever_sent' \in [Actions -> BOOLEAN]
        /\ last_sent' \in [Actions -> 0..(Ticks - 1)]
    BY <1>8, <2>1, TickType DEF RunSingle, Fire, TypeOK
  <2>4. timer' \in [Actions -> {"idle", "pending", "due"}]
    BY <1>8, <2>1 DEF RunSingle, Cancel, TypeOK
  <2>5. /\ actions' \in Seq(Actions)
        /\ life' \in [Actions -> {"unborn", "posted", "live", "freed"}]
        /\ erased' \in Nat
    <3>1. CASE UNCHANGED <<actions, life, erased>>
      BY <3>1 DEF TypeOK
    <3>2. CASE \E i \in DOMAIN actions : actions[i] = Op.act /\ Erase(i)
      BY <2>1, <3>2, WithoutType DEF Erase, TypeOK
    <3>. QED  BY <1>8, <3>1, <3>2 DEF RunSingle
  <2>6. snapshot' \in Seq(Infos)
    BY <1>8, <2>3, <2>5, RebuildType DEF RunSingle, TypeOK, RowTyping
  <2>. QED  BY <1>8, <2>2, <2>3, <2>4, <2>5, <2>6 DEF RunSingle, TypeOK
<1>9. CASE RunDestroyed \/ RunThrows
  BY <1>9 DEF RunDestroyed, RunThrows, TypeOK
<1>10. CASE RunTask
  <2>1. queue # <<>>
    BY <1>10, KindType DEF RunTask
  <2>2. PICK s \in Orders(Due) :
          queue' = Append(Tail(queue) \o [i \in DOMAIN s |-> WaitOp(s[i], TRUE)], Task)
    BY <1>10 DEF RunTask
  <2>3. [i \in DOMAIN s |-> WaitOp(s[i], TRUE)] \in Seq(Ops)
    <3>1. Due \in SUBSET Actions
      BY DEF Due
    <3>2. [i \in DOMAIN s |-> WaitOp(s[i], TRUE)] \in Seq(WaitOps)
      BY <3>1, OrdersType
    <3>. QED  BY <3>2, SeqMonotonic DEF Ops
  <2>4. Task \in Ops
    BY DEF Ops
  <2>5. queue' \in Seq(Ops)
    BY <2>1, <2>2, <2>3, <2>4, OpType, ConcatProperties, AppendProperties
  <2>6. timer' \in [Actions -> {"idle", "pending", "due"}]
    BY <1>10 DEF RunTask, TypeOK
  <2>. QED  BY <1>10, <2>5, <2>6 DEF RunTask, TypeOK
<1>11. ASSUME NEW a \in Actions, Elapse(a)
       PROVE  TypeOK'
  BY <1>11 DEF Elapse, TypeOK
<1>12. CASE Look
  <2>1. [i \in DOMAIN snapshot |-> snapshot[i].act] \in Seq(Actions)
    <3>1. Len(snapshot) \in Nat /\ DOMAIN snapshot = 1..Len(snapshot)
      BY DEF TypeOK
    <3>2. \A i \in 1..Len(snapshot) : snapshot[i].act \in Actions
      <4>1. \A i \in 1..Len(snapshot) : snapshot[i] \in Infos
        BY ElementOfSeq DEF TypeOK
      <4>. QED  BY <4>1 DEF Infos
    <3>. QED  BY <3>1, <3>2, SeqDef
  <2>. QED  BY <1>12, <2>1 DEF Look, asioVars, TypeOK
<1>13. ASSUME NEW a \in Actions, PostAdd(a)
       PROVE  TypeOK'
  <2>1. AddOp(a, FALSE) \in Ops
    BY DEF AddOp, AddOps, Ops
  <2>. QED  BY <1>13, <2>1, AppendProperties DEF PostAdd, TypeOK
<1>14. ASSUME NEW k \in RowKinds, NEW i \in DOMAIN view.rows,
              NEW v \in Values \cup {NoValue}, v \in Carried(k), PostRow(k, i, v)
       PROVE  TypeOK'
  <2>1. RowOp(k, i, v, view.rows[i], view.epoch) \in Ops
    <3>1. i \in Nat \ {0} /\ view.rows[i] \in Actions /\ view.epoch \in Nat
      BY DEF TypeOK
    <3>. QED  BY <1>14, <3>1 DEF RowOp, RowOps, Ops
  <2>. QED  BY <1>14, <2>1, AppendProperties DEF PostRow, TypeOK
<1>15. CASE UNCHANGED vars
  BY <1>15 DEF vars, TypeOK
<1>. QED
  BY <1>1, <1>2, <1>3, <1>4, <1>5, <1>6, <1>7, <1>8, <1>9, <1>10, <1>11, <1>12,
     <1>13, <1>14, <1>15 DEF Next, AsioThread, UiThread

\* Every variable of the ActionHandler always has its type.
THEOREM TypeCorrect == Spec => []TypeOK
BY TypeInit, TypeStep, PTL DEF Spec
-----------------------------------------------------------------------------
(* The snapshot.  The handlers that end in rebuild_snapshot() need nothing  *)
(* but their last conjunct; the others leave every row as it is.            *)

LEMMA RowsKept ==
  ASSUME TypeOK, SnapshotFaithful,
         UNCHANGED <<actions, paused, ever_sent, last_sent, snapshot>>,
         \A a \in Sins : value'[a] = value[a]
  PROVE  SnapshotFaithful'
<1>1. \A i \in DOMAIN actions : Info(actions[i])' = Info(actions[i])
  BY DEF TypeOK, Info
<1>. QED  BY <1>1 DEF SnapshotFaithful, Rows

LEMMA SnapshotStep ==
  TypeOK /\ SnapshotFaithful /\ [Next]_vars => SnapshotFaithful'
<1>. SUFFICES ASSUME TypeOK, SnapshotFaithful, [Next]_vars
              PROVE  SnapshotFaithful'
  OBVIOUS
<1>1. RebuildSnapshot => SnapshotFaithful'
  BY DEF RebuildSnapshot, SnapshotFaithful
<1>2. CASE Ignore
  BY <1>2, RowsKept DEF Ignore
<1>3. CASE RunPayload /\ ~Ignore
  <2>. DEFINE b == actions[Op.idx]
  <2>1. /\ b \notin Sins
        /\ value' = [value EXCEPT ![b] = Op.value]
        /\ UNCHANGED <<actions, paused, ever_sent, last_sent, snapshot>>
    BY <1>3 DEF RunPayload
  <2>. HIDE DEF b
  <2>2. \A a \in Sins : value'[a] = value[a]
    BY <2>1, KindsAssumption DEF TypeOK
  <2>. QED  BY <2>1, <2>2, RowsKept
<1>4. CASE RunAborted \/ RunDestroyed \/ RunThrows \/ RunTask
  BY <1>4, RowsKept DEF RunAborted, Ignore, RunDestroyed, RunThrows, RunTask
<1>5. CASE (\E a \in Actions : Elapse(a)) \/ UiThread \/ UNCHANGED vars
  BY <1>5, RowsKept
     DEF Elapse, UiThread, Look, PostAdd, PostRow, asioVars, vars
<1>6. CASE RunAdd \/ RunRemove \/ RunToggle \/ RunSinParam \/ RunPeriodic \/ RunSingle
  BY <1>1, <1>2, <1>6
     DEF RunAdd, RunRemove, RunToggle, RunSinParam, RunPeriodic, RunSingle
<1>. QED  BY <1>2, <1>3, <1>4, <1>5, <1>6 DEF Next, AsioThread

\* Outside a handler the snapshot is exactly the list of actions: every
\* handler that changes what a row shows rebuilds it.
THEOREM SnapshotCorrect == Spec => []SnapshotFaithful
<1>1. Init => SnapshotFaithful
  BY DEF Init, SnapshotFaithful, Rows
<1>. QED  BY <1>1, TypeCorrect, SnapshotStep, PTL DEF Spec

-----------------------------------------------------------------------------
(* One wait at a time.  The only place where a successful completion is     *)
(* queued is right before the reactor's own entry, and with that entry at   *)
(* the head no completion is left behind it.  That takes a strengthening:   *)
(* the reactor has one entry.                                               *)

OneReactor ==
  \A i, j \in DOMAIN queue : queue[i] = Task /\ queue[j] = Task => i = j

WaitInv == OneReactor /\ OneWait

\* An operation that is neither the reactor nor a successful completion.
Plain(o) == o # Task /\ ~(o.kind = "wait" /\ o.ok)

LEMMA PlainSingleton ==
  ASSUME NEW o \in Ops, Plain(o)
  PROVE  <<o>> \in Seq(Ops) /\ \A i \in DOMAIN <<o>> : Plain(<<o>>[i])
<1>1. <<o>> \in Seq(Ops) /\ Len(<<o>>) = 1 /\ <<o>>[1] = o
  BY SingletonSeq
<1>2. \A i \in DOMAIN <<o>> : i = 1
  BY <1>1
<1>. QED  BY <1>1, <1>2

\* The elements of a concatenation.
LEMMA Joined ==
  ASSUME NEW S, NEW s \in Seq(S), NEW t \in Seq(S)
  PROVE  /\ s \o t \in Seq(S)
         /\ Len(s \o t) = Len(s) + Len(t)
         /\ Len(s) \in Nat /\ Len(t) \in Nat
         /\ DOMAIN (s \o t) = 1..(Len(s) + Len(t))
         /\ \A i \in 1..Len(s) : (s \o t)[i] = s[i]
         /\ \A i \in DOMAIN (s \o t) : i \notin 1..Len(s) =>
              i - Len(s) \in 1..Len(t) /\ (s \o t)[i] = t[i - Len(s)]
<1>1. Len(s) \in Nat /\ Len(t) \in Nat
  OBVIOUS
<1>2. /\ s \o t \in Seq(S)
      /\ Len(s \o t) = Len(s) + Len(t)
      /\ \A i \in 1..(Len(s) + Len(t)) :
           (s \o t)[i] = IF i <= Len(s) THEN s[i] ELSE t[i - Len(s)]
  BY ConcatProperties
<1>3. DOMAIN (s \o t) = 1..(Len(s) + Len(t))
  BY <1>2
<1>4. \A i \in 1..Len(s) : (s \o t)[i] = s[i]
  BY <1>1, <1>2
<1>5. ASSUME NEW i \in DOMAIN (s \o t), i \notin 1..Len(s)
      PROVE  i - Len(s) \in 1..Len(t) /\ (s \o t)[i] = t[i - Len(s)]
  <2>1. i \in 1..(Len(s) + Len(t)) /\ ~(i <= Len(s))
    BY <1>1, <1>3, <1>5
  <2>. QED  BY <1>1, <1>2, <2>1
<1>. QED  BY <1>1, <1>2, <1>3, <1>4, <1>5

\* A queue whose operations, but the plain ones, keep their order from the
\* queue before: the entry i was the entry i + d.
LEMMA OneWaitShift ==
  ASSUME WaitInv, NEW d \in Nat, NEW n \in Nat,
         DOMAIN queue \subseteq Nat, DOMAIN queue' \subseteq Nat,
         \A i \in DOMAIN queue' : i <= n =>
            i + d \in DOMAIN queue /\ queue'[i] = queue[i + d],
         \A i \in DOMAIN queue' : i > n => Plain(queue'[i])
  PROVE  WaitInv'
<1>1. \A i \in DOMAIN queue' : ~Plain(queue'[i]) =>
         i \in Nat /\ i + d \in DOMAIN queue /\ queue'[i] = queue[i + d]
  OBVIOUS
<1>2. ASSUME NEW i \in DOMAIN queue', NEW j \in DOMAIN queue',
             queue'[i] = Task, queue'[j] = Task
      PROVE  i = j
  <2>1. ~Plain(queue'[i]) /\ ~Plain(queue'[j])
    BY <1>2 DEF Plain
  <2>2. i + d = j + d /\ i \in Nat /\ j \in Nat
    BY <1>1, <1>2, <2>1 DEF WaitInv, OneReactor
  <2>. QED  BY <2>2
<1>3. ASSUME NEW a \in Actions, NEW i \in DOMAIN queue', NEW j \in DOMAIN queue',
             Fired(a, i)'
      PROVE  (Fired(a, j)' => i = j) /\ (queue'[j] = Task => i < j)
  <2>1. ~Plain(queue'[i]) /\ (Fired(a, j)' => ~Plain(queue'[j]))
        /\ (queue'[j] = Task => ~Plain(queue'[j]))
    BY <1>3 DEF Plain, Fired
  <2>2. i \in Nat /\ i + d \in DOMAIN queue /\ Fired(a, i + d)
    BY <1>1, <1>3, <2>1 DEF Fired
  <2>3. ASSUME Fired(a, j)'
        PROVE  i = j
    <3>1. j \in Nat /\ j + d \in DOMAIN queue /\ Fired(a, j + d)
      BY <1>1, <2>1, <2>3 DEF Fired
    <3>2. i + d = j + d
      BY <2>2, <3>1 DEF WaitInv, OneWait
    <3>. QED  BY <2>2, <3>1, <3>2
  <2>4. ASSUME queue'[j] = Task
        PROVE  i < j
    <3>1. j \in Nat /\ j + d \in DOMAIN queue /\ queue[j + d] = Task
      BY <1>1, <2>1, <2>4
    <3>2. i + d < j + d
      BY <2>2, <3>1 DEF WaitInv, OneWait
    <3>. QED  BY <2>2, <3>1, <3>2
  <2>. QED  BY <2>3, <2>4
<1>. QED  BY <1>2, <1>3 DEF WaitInv, OneReactor, OneWait

\* Appending plain operations.
LEMMA OneWaitAppend ==
  ASSUME TypeOK, WaitInv, NEW t \in Seq(Ops),
         queue' = queue \o t,
         \A i \in DOMAIN t : Plain(t[i])
  PROVE  WaitInv'
<1>1. /\ DOMAIN queue' = 1..(Len(queue) + Len(t))
      /\ \A i \in 1..Len(queue) : queue'[i] = queue[i]
      /\ \A i \in DOMAIN queue' : i \notin 1..Len(queue) =>
           i - Len(queue) \in 1..Len(t) /\ queue'[i] = t[i - Len(queue)]
      /\ Len(queue) \in Nat /\ Len(t) \in Nat
      /\ DOMAIN queue = 1..Len(queue) /\ DOMAIN t = 1..Len(t)
  BY Joined DEF TypeOK
<1>2. \A i \in DOMAIN queue' : i > Len(queue) => Plain(queue'[i])
  BY <1>1
<1>3. \A i \in DOMAIN queue' : i <= Len(queue) =>
         i + 0 \in DOMAIN queue /\ queue'[i] = queue[i + 0]
  BY <1>1
<1>. QED  BY <1>1, <1>2, <1>3, OneWaitShift

\* The same after the head of the queue has been taken off.
LEMMA OneWaitPop ==
  ASSUME TypeOK, WaitInv, queue # <<>>, NEW t \in Seq(Ops),
         queue' = Tail(queue) \o t,
         \A i \in DOMAIN t : Plain(t[i])
  PROVE  WaitInv'
<1>. DEFINE n == Len(queue) - 1
<1>1. /\ Tail(queue) \in Seq(Ops)
      /\ Len(Tail(queue)) = n
      /\ \A i \in 1..n : Tail(queue)[i] = queue[i + 1]
      /\ n \in Nat
      /\ DOMAIN queue = 1..(n + 1) /\ DOMAIN t = 1..Len(t)
  BY HeadTailProperties, EmptySeq DEF TypeOK
<1>. HIDE DEF n
<1>2. /\ DOMAIN queue' = 1..(n + Len(t)) /\ Len(t) \in Nat
      /\ \A i \in 1..n : queue'[i] = Tail(queue)[i]
      /\ \A i \in DOMAIN queue' : i \notin 1..n =>
           i - n \in 1..Len(t) /\ queue'[i] = t[i - n]
  <2>. DEFINE u == Tail(queue)
  <2>1. u \in Seq(Ops) /\ Len(u) = n /\ queue' = u \o t
    BY <1>1
  <2>. HIDE DEF u
  <2>2. /\ DOMAIN queue' = 1..(n + Len(t)) /\ Len(t) \in Nat
        /\ \A i \in 1..n : queue'[i] = u[i]
        /\ \A i \in DOMAIN queue' : i \notin 1..n =>
             i - n \in 1..Len(t) /\ queue'[i] = t[i - n]
    BY <2>1, Joined
  <2>. QED  BY <2>2 DEF u
<1>3. \A i \in DOMAIN queue' : i > n => Plain(queue'[i])
  BY <1>1, <1>2
<1>4. \A i \in DOMAIN queue' : i <= n =>
         i + 1 \in DOMAIN queue /\ queue'[i] = queue[i + 1]
  BY <1>1, <1>2
<1>5. DOMAIN queue \subseteq Nat /\ DOMAIN queue' \subseteq Nat /\ n \in Nat
  BY <1>1, <1>2
<1>. QED  BY ONLY WaitInv, <1>3, <1>4, <1>5, OneWaitShift

LEMMA AbortedPlain ==
  ASSUME NEW a \in Actions
  PROVE  WaitOp(a, FALSE) \in Ops /\ Plain(WaitOp(a, FALSE))
<1>1. WaitOp(a, FALSE) \in Ops
  BY DEF WaitOp, WaitOps, Ops
<1>2. WaitOp(a, FALSE).kind = "wait" /\ Task.kind = "task" /\ ~WaitOp(a, FALSE).ok
  BY DEF WaitOp, Task
<1>. QED  BY <1>1, <1>2 DEF Plain

LEMMA OneWaitTail ==
  ASSUME TypeOK, WaitInv, queue # <<>>, queue' = Tail(queue)
  PROVE  WaitInv'
<1>1. queue' = Tail(queue) \o <<>>
  BY OpType, ConcatEmptySeq
<1>2. <<>> \in Seq(Ops) /\ DOMAIN <<>> = {}
  BY EmptySeq
<1>. QED  BY <1>1, <1>2, OneWaitPop

\* The completion of a cancelled wait is a plain operation.
LEMMA OneWaitAborted ==
  ASSUME TypeOK, WaitInv, queue # <<>>, NEW a \in Actions,
         queue' = Tail(queue) \o Aborted(a)
  PROVE  WaitInv'
<1>1. CASE timer[a] = "idle"
  <2>1. queue' = Tail(queue)
    BY <1>1, OpType, ConcatEmptySeq DEF Aborted
  <2>. QED  BY <2>1, OneWaitTail
<1>2. CASE timer[a] # "idle"
  <2>1. queue' = Tail(queue) \o <<WaitOp(a, FALSE)>>
    BY <1>2 DEF Aborted
  <2>. QED  BY <2>1, AbortedPlain, PlainSingleton, OneWaitPop
<1>. QED  BY <1>1, <1>2

LEMMA OneWaitStep == TypeOK /\ WaitInv /\ [Next]_vars => WaitInv'
<1>. SUFFICES ASSUME TypeOK, WaitInv, [Next]_vars
              PROVE  WaitInv'
  OBVIOUS
<1>1. CASE RunAdd
  <2>1. queue # <<>> /\ Op.act \in Actions
    BY <1>1, KindType DEF RunAdd
  <2>2. CASE Op.paused
    <3>1. WaitOp(Op.act, FALSE) \in Ops
      BY <2>1 DEF WaitOp, WaitOps, Ops
    <3>2. queue' = Tail(queue) \o <<WaitOp(Op.act, FALSE)>>
      BY <1>1, <2>1, <2>2, <3>1, OpType, AppendIsConcat DEF RunAdd
    <3>. QED  BY <2>1, <3>2, AbortedPlain, PlainSingleton, OneWaitPop
  <2>3. CASE ~Op.paused
    BY <1>1, <2>1, <2>3, OneWaitAborted DEF RunAdd, Schedule
  <2>. QED  BY <2>2, <2>3
<1>2. CASE RunRemove
  <2>1. queue # <<>>
    BY <1>2, KindType DEF RunRemove
  <2>2. CASE Ignore
    BY <2>1, <2>2, OneWaitTail DEF Ignore
  <2>3. CASE Op.idx \in DOMAIN actions /\ Cancel(actions[Op.idx])
    <3>1. actions[Op.idx] \in Actions
      BY <2>3 DEF TypeOK
    <3>. QED  BY <2>1, <2>3, <3>1, OneWaitAborted DEF Cancel
  <2>. QED  BY <1>2, <2>2, <2>3 DEF RunRemove
<1>3. CASE RunToggle
  <2>1. queue # <<>>
    BY <1>3, KindType DEF RunToggle
  <2>2. CASE Ignore
    BY <2>1, <2>2, OneWaitTail DEF Ignore
  <2>3. ASSUME Op.idx \in DOMAIN actions,
               Resume(actions[Op.idx]) \/ Pause(actions[Op.idx])
        PROVE  WaitInv'
    <3>1. actions[Op.idx] \in Actions
      BY <2>3 DEF TypeOK
    <3>2. queue' = Tail(queue) \o Aborted(actions[Op.idx])
      BY <2>3 DEF Resume, Pause, Schedule, Cancel
    <3>. QED  BY <2>1, <3>1, <3>2, OneWaitAborted
  <2>. QED  BY <1>3, <2>2, <2>3 DEF RunToggle
<1>4. CASE RunSinParam \/ RunPayload \/ RunAborted
  <2>1. queue # <<>> /\ queue' = Tail(queue)
    BY <1>4, KindType DEF RunSinParam, RunPayload, RunAborted, Ignore
  <2>. QED  BY <2>1, OneWaitTail
<1>5. CASE RunPeriodic \/ RunSingle
  <2>1. /\ queue # <<>> /\ Op.act \in Actions
        /\ queue' = Tail(queue) \o Aborted(Op.act)
    BY <1>5, KindType DEF RunPeriodic, RunSingle, Schedule, Cancel
  <2>. QED  BY <2>1, OneWaitAborted
<1>6. CASE RunTask
  <2>1. queue # <<>> /\ Op = Task /\ 1 \in DOMAIN queue /\ queue[1] = Task
    <3>1. queue # <<>> /\ Op.kind = "task"
      BY <1>6, KindType DEF RunTask, Running
    <3>2. Op = Task
      BY <3>1, OpType DEF Ops, WaitOps, AddOps, RowOps, RowKinds, EditKinds
    <3>. QED  BY <3>1, <3>2 DEF Op, TypeOK
  <2>2. \A a \in Actions : \A i \in DOMAIN queue : ~Fired(a, i)
    BY <2>1 DEF WaitInv, OneWait, TypeOK
  <2>3. PICK s \in Orders(Due) :
          queue' = Append(Tail(queue) \o [i \in DOMAIN s |-> WaitOp(s[i], TRUE)], Task)
    BY <1>6 DEF RunTask
  <2>. DEFINE t == Tail(queue)
              f == [i \in DOMAIN s |-> WaitOp(s[i], TRUE)]
  <2>4. /\ s \in Seq(Due) /\ DOMAIN s = 1..Len(s) /\ Len(s) \in Nat
        /\ f \in Seq(Ops) /\ Len(f) = Len(s)
        /\ \A i, j \in 1..Len(s) : s[i] = s[j] => i = j
    <3>1. Due \in SUBSET Actions
      BY DEF Due
    <3>2. /\ s \in Seq(Due) /\ DOMAIN s = 1..Len(s)
          /\ f \in Seq(WaitOps) /\ Len(f) = Len(s)
      BY <3>1, OrdersType
    <3>3. f \in Seq(Ops)
      BY <3>2, SeqMonotonic DEF Ops
    <3>4. \A i, j \in DOMAIN s : s[i] = s[j] => i = j
      BY DEF Orders
    <3>5. Len(s) \in Nat
      BY <3>2
    <3>. QED  BY <3>2, <3>3, <3>4, <3>5
  <2>5. \A i \in 1..Len(s) : f[i] = WaitOp(s[i], TRUE)
    BY <2>4
  <2>6. /\ t \in Seq(Ops) /\ Len(t) \in Nat
        /\ \A i \in 1..Len(t) : t[i] = queue[i + 1] /\ i + 1 \in DOMAIN queue
    BY <2>1, HeadTailProperties DEF TypeOK
  <2>. HIDE DEF t, f
  <2>. DEFINE n == Len(t) + Len(s)
  <2>7. /\ t \o f \in Seq(Ops)
        /\ Len(t \o f) = n /\ n \in Nat
        /\ DOMAIN (t \o f) = 1..n
        /\ \A i \in 1..Len(t) : (t \o f)[i] = t[i]
        /\ \A i \in 1..n : i \notin 1..Len(t) =>
             i - Len(t) \in 1..Len(s) /\ (t \o f)[i] = f[i - Len(t)]
    <3>. DEFINE u == t \o f
    <3>1. /\ u \in Seq(Ops)
          /\ Len(u) = Len(t) + Len(f)
          /\ DOMAIN u = 1..(Len(t) + Len(f))
          /\ \A i \in 1..Len(t) : u[i] = t[i]
          /\ \A i \in DOMAIN u : i \notin 1..Len(t) =>
               i - Len(t) \in 1..Len(f) /\ u[i] = f[i - Len(t)]
      <4>1. t \in Seq(Ops) /\ f \in Seq(Ops)
        BY <2>4, <2>6
      <4>. QED  BY ONLY <4>1, Joined
    <3>2. Len(f) = Len(s) /\ n \in Nat
      BY <2>4, <2>6
    <3>. HIDE DEF u
    <3>. QED  BY <3>1, <3>2 DEF u
  <2>8. /\ DOMAIN queue' = 1..(n + 1)
        /\ queue'[n + 1] = Task
        /\ \A i \in 1..n : queue'[i] = (t \o f)[i]
    <3>1. Task \in Ops
      BY DEF Ops
    <3>2. queue' = Append(t \o f, Task)
      BY <2>3 DEF t, f
    <3>. HIDE DEF n
    <3>3. /\ queue' \in Seq(Ops) /\ Len(queue') = n + 1
          /\ \A i \in 1..n : queue'[i] = (t \o f)[i]
          /\ queue'[n + 1] = Task
      BY <2>7, <3>1, <3>2, AppendProperties
    <3>4. DOMAIN queue' = 1..(n + 1)
      BY <3>3
    <3>. QED  BY <3>3, <3>4
  <2>a. /\ \A i \in 1..Len(t) : queue'[i] = queue[i + 1] /\ i + 1 \in DOMAIN queue
        /\ \A i \in 1..n : i \notin 1..Len(t) =>
             i - Len(t) \in 1..Len(s) /\ queue'[i] = WaitOp(s[i - Len(t)], TRUE)
        /\ \A i \in DOMAIN queue' : i = n + 1 \/ i \in 1..n
    <3>1. 1..Len(t) \subseteq 1..n
      BY <2>4, <2>6
    <3>2. \A i \in DOMAIN queue' : i = n + 1 \/ i \in 1..n
      BY <2>7, <2>8
    <3>. HIDE DEF n
    <3>. QED  BY <2>5, <2>6, <2>7, <2>8, <3>1, <3>2
  <2>9. ASSUME NEW a \in Actions, NEW i \in DOMAIN queue', Fired(a, i)'
        PROVE  i - Len(t) \in 1..Len(s) /\ s[i - Len(t)] = a
    <3>1. i # n + 1
      BY <2>8, <2>9 DEF Fired, Task
    <3>2. i \notin 1..Len(t)
      <4>. SUFFICES ASSUME i \in 1..Len(t)
                    PROVE  FALSE
        OBVIOUS
      <4>1. queue'[i] = queue[i + 1] /\ i + 1 \in DOMAIN queue
        BY <2>a
      <4>. QED  BY <2>2, <2>9, <4>1 DEF Fired
    <3>3. i - Len(t) \in 1..Len(s) /\ queue'[i] = WaitOp(s[i - Len(t)], TRUE)
      BY <2>a, <3>1, <3>2
    <3>. QED  BY <2>9, <3>3 DEF Fired, WaitOp
  <2>10. ASSUME NEW j \in DOMAIN queue', queue'[j] = Task
         PROVE  j = n + 1
    <3>. SUFFICES ASSUME j # n + 1
                  PROVE  FALSE
      OBVIOUS
    <3>1. CASE j \in 1..Len(t)
      <4>1. queue[j + 1] = Task /\ j + 1 \in DOMAIN queue
        BY <2>a, <2>10, <3>1
      <4>2. j + 1 = 1
        BY <2>1, <4>1 DEF WaitInv, OneReactor
      <4>. QED  BY <2>6, <3>1, <4>2
    <3>2. CASE j \notin 1..Len(t)
      <4>1. Task = WaitOp(s[j - Len(t)], TRUE)
        BY <2>a, <2>10, <3>2
      <4>2. Task.kind = "task" /\ WaitOp(s[j - Len(t)], TRUE).kind = "wait"
        BY DEF Task, WaitOp
      <4>. QED  BY <4>1, <4>2
    <3>. QED  BY <3>1, <3>2
  <2>11. OneReactor'
    BY <2>10 DEF OneReactor
  <2>12. OneWait'
    <3>1. ASSUME NEW a \in Actions, NEW i \in DOMAIN queue', NEW j \in DOMAIN queue',
                 Fired(a, i)', Fired(a, j)'
          PROVE  i = j
      <4>1. /\ i - Len(t) \in 1..Len(s) /\ s[i - Len(t)] = a
            /\ j - Len(t) \in 1..Len(s) /\ s[j - Len(t)] = a
        BY <2>9, <3>1
      <4>2. i - Len(t) = j - Len(t)
        BY <2>4, <4>1
      <4>3. i \in Nat /\ j \in Nat
        BY <2>7, <2>8
      <4>. QED  BY <2>6, <4>2, <4>3
    <3>2. ASSUME NEW a \in Actions, NEW i \in DOMAIN queue', NEW j \in DOMAIN queue',
                 Fired(a, i)', queue'[j] = Task
          PROVE  i < j
      <4>1. i - Len(t) \in 1..Len(s)
        BY <2>9, <3>2
      <4>2. j = n + 1
        BY <2>10, <3>2
      <4>3. i \in Nat
        BY <2>7, <2>8
      <4>. QED  BY <2>4, <2>6, <4>1, <4>2, <4>3
    <3>. QED  BY <3>1, <3>2 DEF OneWait
  <2>. QED  BY <2>11, <2>12 DEF WaitInv
<1>7. CASE RunDestroyed \/ RunThrows \/ (\E a \in Actions : Elapse(a)) \/ Look \/ UNCHANGED vars
  <2>1. queue' = queue
    BY <1>7 DEF RunDestroyed, RunThrows, Elapse, Look, asioVars, vars
  <2>. QED  BY <2>1 DEF WaitInv, OneReactor, OneWait, Fired
<1>8. ASSUME NEW a \in Actions, PostAdd(a)
      PROVE  WaitInv'
  <2>. DEFINE o == AddOp(a, FALSE)
  <2>1. o \in Ops /\ Plain(o)
    <3>1. o \in Ops
      BY DEF AddOp, AddOps, Ops
    <3>2. o.kind = "add" /\ Task.kind = "task"
      BY DEF AddOp, Task
    <3>. QED  BY <3>1, <3>2 DEF Plain
  <2>2. queue' = Append(queue, o)
    BY <1>8 DEF PostAdd
  <2>. HIDE DEF o
  <2>3. queue' = queue \o <<o>>
    BY <2>1, <2>2, AppendIsConcat DEF TypeOK
  <2>. QED  BY <2>1, <2>3, PlainSingleton, OneWaitAppend
<1>9. ASSUME NEW k \in RowKinds, NEW i \in DOMAIN view.rows,
             NEW v \in Values \cup {NoValue}, v \in Carried(k), PostRow(k, i, v)
      PROVE  WaitInv'
  <2>. DEFINE o == RowOp(k, i, v, view.rows[i], view.epoch)
  <2>1. o \in Ops /\ Plain(o)
    <3>1. i \in Nat \ {0} /\ view.rows[i] \in Actions /\ view.epoch \in Nat
      BY DEF TypeOK
    <3>2. o \in Ops
      BY <1>9, <3>1 DEF RowOp, RowOps, Ops
    <3>3. o.kind = k /\ Task.kind = "task"
      BY DEF RowOp, Task
    <3>4. k # "task" /\ k # "wait"
      BY DEF RowKinds, EditKinds
    <3>. QED  BY <3>2, <3>3, <3>4 DEF Plain
  <2>2. queue' = Append(queue, o)
    BY <1>9 DEF PostRow
  <2>. HIDE DEF o
  <2>3. queue' = queue \o <<o>>
    BY <2>1, <2>2, AppendIsConcat DEF TypeOK
  <2>. QED  BY <2>1, <2>3, PlainSingleton, OneWaitAppend
<1>. QED
  BY <1>1, <1>2, <1>3, <1>4, <1>5, <1>6, <1>7, <1>8, <1>9
     DEF Next, AsioThread, UiThread

\* At any time an action has at most one successful completion in the queue,
\* and it is handled before the reactor's next turn.
THEOREM OneWaitCorrect == Spec => []OneWait
<1>1. Init => WaitInv
  <2>. SUFFICES ASSUME Init
                PROVE  WaitInv
    OBVIOUS
  <2>. DEFINE f == [i \in DOMAIN Presets |-> AddOp(Presets[i], TRUE)]
  <2>1. /\ Len(Presets) \in Nat /\ DOMAIN Presets = 1..Len(Presets)
        /\ \A i \in 1..Len(Presets) : Presets[i] \in Actions
    <3>1. Presets \in Seq(Actions \ Singles)
      BY PresetsAssumption
    <3>. QED  BY <3>1, ElementOfSeq
  <2>2. f \in Seq(AddOps) /\ Len(f) = Len(Presets)
    <3>1. \A i \in 1..Len(Presets) : AddOp(Presets[i], TRUE) \in AddOps
      BY <2>1 DEF AddOp, AddOps
    <3>2. f \in [1..Len(Presets) -> AddOps]
      BY <2>1, <3>1
    <3>. QED  BY ONLY <2>1, <3>2, FunctionIsSeq
  <2>3. <<Task>> \in Seq(Ops) /\ Len(<<Task>>) = 1 /\ <<Task>>[1] = Task
    BY SingletonSeq DEF Ops
  <2>4. f \in Seq(Ops) /\ \A i \in 1..Len(f) : f[i].kind = "add"
    <3>1. f \in Seq(Ops)
      BY <2>2, SeqMonotonic DEF Ops
    <3>2. \A i \in 1..Len(Presets) : f[i].kind = "add"
      BY <2>1 DEF AddOp
    <3>. QED  BY <2>2, <3>1, <3>2
  <2>. HIDE DEF f
  <2>5. /\ DOMAIN queue = 1..(1 + Len(f))
        /\ \A i \in DOMAIN queue : queue[i] = IF i <= 1 THEN <<Task>>[i] ELSE f[i - 1]
        /\ Len(f) \in Nat
    <3>1. queue = <<Task>> \o f
      BY DEF Init, f
    <3>. QED  BY <2>3, <2>4, <3>1, ConcatProperties
  <2>6. \A i \in DOMAIN queue : i # 1 => queue[i].kind = "add"
    BY <2>4, <2>5
  <2>7. queue[1] = Task /\ Task.kind = "task"
    BY <2>3, <2>5 DEF Task
  <2>. QED  BY <2>5, <2>6, <2>7 DEF WaitInv, OneReactor, OneWait, Fired
<1>2. WaitInv => OneWait
  BY DEF WaitInv
<1>. QED  BY <1>1, <1>2, TypeCorrect, OneWaitStep, PTL DEF Spec

-----------------------------------------------------------------------------
(* The remaining safety properties.  They speak of what is in the queue    *)
(* and not of the order it is in, so each step is first described by what  *)
(* it does to the set of operations.                                       *)

Contents == {queue[i] : i \in DOMAIN queue}
\* What is queued behind the operation that runs.
Behind == {queue[i] : i \in DOMAIN queue \ {1}}

LEMMA ContentsType ==
  ASSUME TypeOK
  PROVE  /\ Contents \subseteq Ops
         /\ Behind \subseteq Contents
         /\ queue # <<>> => Op \in Contents /\ Contents = Behind \cup {Op}
<1>1. Contents \subseteq Ops
  BY ElementOfSeq DEF Contents, TypeOK
<1>2. ASSUME queue # <<>>
      PROVE  1 \in DOMAIN queue /\ queue[1] = Op
  BY <1>2, EmptySeq DEF TypeOK, Op
<1>. QED  BY <1>1, <1>2 DEF Contents, Behind

\* Taking the head off and appending t.
LEMMA Popped ==
  ASSUME TypeOK, queue # <<>>, NEW t \in Seq(Ops), queue' = Tail(queue) \o t
  PROVE  Contents' = Behind \cup {t[k] : k \in DOMAIN t}
<1>. DEFINE u == Tail(queue)
<1>1. /\ u \in Seq(Ops)
      /\ DOMAIN queue = 1..(Len(u) + 1) /\ Len(u) \in Nat
      /\ \A i \in 1..Len(u) : u[i] = queue[i + 1]
  BY HeadTailProperties, EmptySeq DEF TypeOK
<1>. HIDE DEF u
<1>2. /\ DOMAIN (u \o t) = 1..(Len(u) + Len(t)) /\ Len(t) \in Nat
      /\ \A i \in 1..Len(u) : (u \o t)[i] = u[i]
      /\ \A i \in DOMAIN (u \o t) : i \notin 1..Len(u) =>
           i - Len(u) \in 1..Len(t) /\ (u \o t)[i] = t[i - Len(u)]
  BY <1>1, Joined
<1>3. queue' = u \o t /\ DOMAIN t = 1..Len(t)
  BY DEF u
<1>4. \A i \in DOMAIN queue \ {1} : i - 1 \in 1..Len(u) /\ queue[i] = u[i - 1]
  BY <1>1
<1>5. ASSUME NEW i \in DOMAIN queue \ {1}
      PROVE  queue[i] \in Contents'
  <2>1. i - 1 \in 1..Len(u) /\ queue[i] = u[i - 1]
    BY <1>4
  <2>2. i - 1 \in DOMAIN queue' /\ queue'[i - 1] = u[i - 1]
    BY <1>1, <1>2, <1>3, <2>1
  <2>. QED  BY <2>1, <2>2 DEF Contents
<1>6. ASSUME NEW k \in DOMAIN t
      PROVE  t[k] \in Contents'
  <2>1. k + Len(u) \in DOMAIN queue' /\ k + Len(u) \notin 1..Len(u)
    BY <1>1, <1>2, <1>3
  <2>2. queue'[k + Len(u)] = t[(k + Len(u)) - Len(u)] /\ (k + Len(u)) - Len(u) = k
    BY <1>1, <1>2, <1>3, <2>1
  <2>. QED  BY <2>1, <2>2 DEF Contents
<1>7. ASSUME NEW j \in DOMAIN queue'
      PROVE  queue'[j] \in Behind \cup {t[k] : k \in DOMAIN t}
  <2>1. CASE j \in 1..Len(u)
    <3>1. j + 1 \in DOMAIN queue \ {1} /\ queue'[j] = queue[j + 1]
      BY <1>1, <1>2, <1>3, <2>1
    <3>. QED  BY <3>1 DEF Behind
  <2>2. CASE j \notin 1..Len(u)
    BY <1>2, <1>3, <1>7, <2>2
  <2>. QED  BY <2>1, <2>2
<1>8. Behind \subseteq Contents'
  BY <1>5 DEF Behind
<1>9. {t[k] : k \in DOMAIN t} \subseteq Contents'
  BY <1>6
<1>10. Contents' \subseteq Behind \cup {t[k] : k \in DOMAIN t}
  BY <1>7 DEF Contents
<1>. QED  BY <1>8, <1>9, <1>10

LEMMA Pushed ==
  ASSUME TypeOK, NEW o \in Ops, queue' = Append(queue, o)
  PROVE  Contents' = Contents \cup {o}
<1>1. /\ DOMAIN queue' = 1..(Len(queue) + 1) /\ DOMAIN queue = 1..Len(queue)
      /\ Len(queue) \in Nat
      /\ \A i \in 1..Len(queue) : queue'[i] = queue[i]
      /\ queue'[Len(queue) + 1] = o
  BY AppendProperties DEF TypeOK
<1>. QED  BY <1>1 DEF Contents

LEMMA RowOpType ==
  ASSUME TypeOK, NEW k \in RowKinds, NEW i \in DOMAIN view.rows,
         NEW v \in Values \cup {NoValue}, v \in Carried(k)
  PROVE  RowOp(k, i, v, view.rows[i], view.epoch) \in Ops
<1>1. i \in Nat \ {0} /\ view.rows[i] \in Actions /\ view.epoch \in Nat
  BY DEF TypeOK
<1>. QED  BY <1>1 DEF RowOp, RowOps, Ops

\* A turn of the reactor appends the due completions and then the reactor.
LEMMA TurnQueue ==
  ASSUME TypeOK, RunTask
  PROVE  \E t \in Seq(Ops) :
           /\ queue' = Tail(queue) \o t
           /\ {t[k] : k \in DOMAIN t} = {WaitOp(a, TRUE) : a \in Due} \cup {Task}
           /\ \A k \in DOMAIN t : t[k].kind # "add"
<1>1. queue # <<>> /\ Tail(queue) \in Seq(Ops)
  BY KindType, OpType DEF RunTask
<1>2. PICK s \in Orders(Due) :
        queue' = Append(Tail(queue) \o [i \in DOMAIN s |-> WaitOp(s[i], TRUE)], Task)
  BY DEF RunTask
<1>. DEFINE f == [i \in DOMAIN s |-> WaitOp(s[i], TRUE)]
<1>3. /\ f \in Seq(Ops) /\ DOMAIN f = DOMAIN s
      /\ \A i \in DOMAIN s : f[i] = WaitOp(s[i], TRUE)
  <2>1. Due \in SUBSET Actions
    BY DEF Due
  <2>2. f \in Seq(WaitOps)
    BY <2>1, OrdersType
  <2>. QED  BY <2>2, SeqMonotonic DEF Ops
<1>4. {f[i] : i \in DOMAIN f} = {WaitOp(a, TRUE) : a \in Due}
  <2>1. \A i \in DOMAIN s : s[i] \in Due
    BY DEF Orders
  <2>2. \A a \in Due : \E i \in DOMAIN s : s[i] = a
    BY DEF Orders
  <2>. QED  BY <1>3, <2>1, <2>2
<1>. HIDE DEF f
<1>5. Task \in Ops
  BY DEF Ops
<1>6. queue' = Tail(queue) \o (f \o <<Task>>)
  <2>1. <<Task>> \in Seq(Ops)
    BY <1>5, SingletonSeq
  <2>2. queue' = (Tail(queue) \o f) \o <<Task>>
    BY <1>1, <1>2, <1>3, <1>5, ConcatProperties, AppendIsConcat DEF f
  <2>. QED  BY <1>1, <1>3, <2>1, <2>2, ConcatAssociative
<1>. DEFINE t == f \o <<Task>>
<1>7. /\ t \in Seq(Ops) /\ Len(f) \in Nat /\ DOMAIN f = 1..Len(f)
      /\ DOMAIN t = 1..(Len(f) + 1)
      /\ \A i \in 1..Len(f) : t[i] = f[i]
      /\ t[Len(f) + 1] = Task
  <2>1. t = Append(f, Task)
    BY <1>3, <1>5, AppendIsConcat
  <2>. QED  BY <1>3, <1>5, <2>1, AppendProperties
<1>8. queue' = Tail(queue) \o t
  BY <1>6
<1>. HIDE DEF t
<1>9. {t[k] : k \in DOMAIN t} = {f[i] : i \in DOMAIN f} \cup {Task}
  <2>1. DOMAIN t = DOMAIN f \cup {Len(f) + 1}
    BY <1>7
  <2>. QED  BY <1>7, <2>1
<1>10. \A k \in DOMAIN t : t[k].kind # "add"
  <2>1. Task.kind # "add" /\ \A i \in DOMAIN f : f[i].kind # "add"
    BY <1>3 DEF Task, WaitOp
  <2>. QED  BY <1>7, <2>1
<1>. QED  BY <1>4, <1>7, <1>8, <1>9, <1>10

LEMMA TurnContents ==
  ASSUME TypeOK, RunTask
  PROVE  Contents' = Behind \cup {WaitOp(a, TRUE) : a \in Due} \cup {Task}
<1>1. queue # <<>>
  BY KindType DEF RunTask
<1>2. PICK t \in Seq(Ops) :
        /\ queue' = Tail(queue) \o t
        /\ {t[k] : k \in DOMAIN t} = {WaitOp(a, TRUE) : a \in Due} \cup {Task}
  BY TurnQueue
<1>. QED  BY <1>1, <1>2, Popped

-----------------------------------------------------------------------------
(* What each handler does to the queue, and to the timers of other actions. *)

\* A handler other than the reactor's takes its operation off, and appends at
\* most the failed completion of a wait that was dropped.
HandlerQueue ==
  /\ queue # <<>>
  /\ \E t \in Seq(Ops) :
       /\ queue' = Tail(queue) \o t
       /\ \A k \in DOMAIN t : \E a \in Actions : t[k] = WaitOp(a, FALSE)

HandlerContents ==
  /\ queue # <<>>
  /\ Behind \subseteq Contents'
  /\ \A o \in Contents' : o \in Behind \/ \E a \in Actions : o = WaitOp(a, FALSE)

LEMMA IgnoreHandler ==
  ASSUME TypeOK, queue # <<>>, queue' = Tail(queue)
  PROVE  HandlerQueue
<1>1. queue' = Tail(queue) \o <<>> /\ <<>> \in Seq(Ops) /\ DOMAIN <<>> = {}
  BY OpType, ConcatEmptySeq, EmptySeq
<1>. QED  BY <1>1 DEF HandlerQueue

LEMMA CompletionHandler ==
  ASSUME TypeOK, queue # <<>>, NEW a \in Actions,
         queue' = Tail(queue) \o <<WaitOp(a, FALSE)>>
  PROVE  HandlerQueue
<1>. DEFINE o == WaitOp(a, FALSE)
<1>1. o \in Ops
  BY AbortedPlain
<1>2. \E b \in Actions : o = WaitOp(b, FALSE)
  OBVIOUS
<1>3. queue' = Tail(queue) \o <<o>>
  OBVIOUS
<1>. HIDE DEF o
<1>4. <<o>> \in Seq(Ops) /\ DOMAIN <<o>> = {1} /\ <<o>>[1] = o
  BY <1>1, SingletonSeq
<1>. QED  BY <1>2, <1>3, <1>4 DEF HandlerQueue

LEMMA AbortedHandler ==
  ASSUME TypeOK, queue # <<>>, NEW a \in Actions,
         queue' = Tail(queue) \o Aborted(a)
  PROVE  HandlerQueue
<1>1. CASE timer[a] = "idle"
  <2>1. queue' = Tail(queue)
    BY <1>1, OpType, ConcatEmptySeq DEF Aborted
  <2>. QED  BY <2>1, IgnoreHandler
<1>2. CASE timer[a] # "idle"
  <2>1. queue' = Tail(queue) \o <<WaitOp(a, FALSE)>>
    BY <1>2 DEF Aborted
  <2>. QED  BY <2>1, CompletionHandler
<1>. QED  BY <1>1, <1>2

\* The handlers of the asio thread, the reactor's apart.
Handlers ==
  \/ RunAdd \/ RunRemove \/ RunToggle \/ RunSinParam \/ RunPayload
  \/ RunAborted \/ RunPeriodic \/ RunSingle

LEMMA HandlersQueue ==
  ASSUME TypeOK, Handlers
  PROVE  HandlerQueue
<1>1. CASE Ignore /\ queue # <<>>
  BY <1>1, IgnoreHandler DEF Ignore
<1>2. CASE RunAdd
  <2>1. queue # <<>> /\ Op.act \in Actions
    BY <1>2, KindType DEF RunAdd
  <2>2. CASE Op.paused
    <3>1. WaitOp(Op.act, FALSE) \in Ops
      BY <2>1, AbortedPlain
    <3>2. queue' = Tail(queue) \o <<WaitOp(Op.act, FALSE)>>
      BY <1>2, <2>1, <2>2, <3>1, OpType, AppendIsConcat DEF RunAdd
    <3>. QED  BY <2>1, <3>2, CompletionHandler
  <2>3. CASE ~Op.paused
    BY <1>2, <2>1, <2>3, AbortedHandler DEF RunAdd, Schedule
  <2>. QED  BY <2>2, <2>3
<1>3. CASE RunRemove
  <2>1. queue # <<>>
    BY <1>3, KindType DEF RunRemove
  <2>2. CASE Op.idx \in DOMAIN actions /\ Cancel(actions[Op.idx])
    <3>1. actions[Op.idx] \in Actions
      BY <2>2 DEF TypeOK
    <3>. QED  BY <2>1, <2>2, <3>1, AbortedHandler DEF Cancel
  <2>. QED  BY <1>1, <1>3, <2>1, <2>2 DEF RunRemove
<1>4. CASE RunToggle
  <2>1. queue # <<>>
    BY <1>4, KindType DEF RunToggle
  <2>2. ASSUME Op.idx \in DOMAIN actions,
               Resume(actions[Op.idx]) \/ Pause(actions[Op.idx])
        PROVE  HandlerQueue
    <3>1. actions[Op.idx] \in Actions
      BY <2>2 DEF TypeOK
    <3>2. queue' = Tail(queue) \o Aborted(actions[Op.idx])
      BY <2>2 DEF Resume, Pause, Schedule, Cancel
    <3>. QED  BY <2>1, <3>1, <3>2, AbortedHandler
  <2>. QED  BY <1>1, <1>4, <2>1, <2>2 DEF RunToggle
<1>5. CASE RunSinParam \/ RunPayload \/ RunAborted
  <2>1. queue # <<>> /\ queue' = Tail(queue)
    BY <1>5, KindType DEF RunSinParam, RunPayload, RunAborted, Ignore
  <2>. QED  BY <2>1, IgnoreHandler
<1>6. CASE RunPeriodic \/ RunSingle
  <2>1. /\ queue # <<>> /\ Op.act \in Actions
        /\ queue' = Tail(queue) \o Aborted(Op.act)
    BY <1>6, KindType DEF RunPeriodic, RunSingle, Schedule, Cancel
  <2>. QED  BY <2>1, AbortedHandler
<1>. QED  BY <1>2, <1>3, <1>4, <1>5, <1>6 DEF Handlers

LEMMA HandlersContents ==
  ASSUME TypeOK, Handlers
  PROVE  HandlerContents
<1>1. queue # <<>> /\ HandlerQueue
  BY HandlersQueue DEF HandlerQueue
<1>2. PICK t \in Seq(Ops) :
        /\ queue' = Tail(queue) \o t
        /\ \A k \in DOMAIN t : \E a \in Actions : t[k] = WaitOp(a, FALSE)
  BY <1>1 DEF HandlerQueue
<1>3. Contents' = Behind \cup {t[k] : k \in DOMAIN t}
  BY <1>1, <1>2, Popped
<1>. QED  BY <1>1, <1>2, <1>3 DEF HandlerContents

\* Toggling an action that is there is one of the two.
LEMMA ToggleCases ==
  ASSUME TypeOK, RunToggle, ~Ignore
  PROVE  \E a \in Actions, i \in DOMAIN actions :
           /\ i = Op.idx /\ actions[i] = a
           /\ (paused[a] /\ Resume(a)) \/ (~paused[a] /\ Pause(a))
           /\ UNCHANGED <<actions, value, ever_sent, last_sent, life, alive, view, erased>>
<1>1. Op.idx \in DOMAIN actions /\ actions[Op.idx] \in Actions
  BY DEF RunToggle, TypeOK
<1>. QED  BY <1>1 DEF RunToggle

-----------------------------------------------------------------------------
(* No action is forgotten.                                                 *)

\* The successful completion of a wait of a is queued.
Completing(a) == WaitOp(a, TRUE) \in Contents

LEMMA FiredContents ==
  ASSUME TypeOK, NEW a \in Actions
  PROVE  (\E i \in DOMAIN queue : Fired(a, i)) <=> Completing(a)
<1>1. ASSUME NEW i \in DOMAIN queue, Fired(a, i)
      PROVE  queue[i] = WaitOp(a, TRUE)
  <2>1. queue[i] \in Ops
    BY ElementOfSeq DEF TypeOK
  <2>2. queue[i] \in WaitOps
    BY <1>1, <2>1 DEF Fired, Ops, Task, AddOps, RowOps, RowKinds, EditKinds
  <2>. QED  BY <1>1, <2>2 DEF Fired, WaitOps, WaitOp
<1>2. WaitOp(a, TRUE).kind = "wait" /\ WaitOp(a, TRUE).ok /\ WaitOp(a, TRUE).act = a
  BY DEF WaitOp
<1>. QED  BY <1>1, <1>2 DEF Completing, Contents, Fired

ArmedInv ==
  alive => \A a \in Actions :
    life[a] = "live" /\ ~paused[a] => timer[a] # "idle" \/ Completing(a)

LEMMA ArmedInvIff == TypeOK => (ArmedInv <=> Armed)
BY FiredContents DEF ArmedInv, Armed

\* An operation that is not a completion is not one of those taken off.
LEMMA DueKept ==
  ASSUME TypeOK, HandlerContents, NEW a \in Actions, Completing(a),
         Op # WaitOp(a, TRUE)
  PROVE  Completing(a)'
BY ContentsType DEF HandlerContents, Completing, WaitOp

LEMMA ArmedStep == TypeOK /\ ArmedInv /\ [Next]_vars => ArmedInv'
<1>. SUFFICES ASSUME TypeOK, ArmedInv, [Next]_vars, alive', NEW a \in Actions,
                     life'[a] = "live", ~paused'[a]
              PROVE  timer'[a] # "idle" \/ Completing(a)'
  BY DEF ArmedInv
\* A step that leaves a as it is, and does not run its completion.
<1>1. ASSUME alive, life[a] = "live", ~paused[a], timer'[a] = timer[a],
             HandlerContents, Op # WaitOp(a, TRUE)
      PROVE  timer'[a] # "idle" \/ Completing(a)'
  BY <1>1, DueKept DEF ArmedInv
<1>2. ASSUME alive, life[a] = "live", ~paused[a],
             timer[a] # "idle" => timer'[a] # "idle", Contents \subseteq Contents'
      PROVE  timer'[a] # "idle" \/ Completing(a)'
  BY <1>2 DEF ArmedInv, Completing
<1>3. \A k : Running(k) /\ k # "wait" => Op # WaitOp(a, TRUE)
  BY DEF Running, WaitOp
<1>4. Handlers => HandlerContents
  BY HandlersContents
<1>5. CASE Ignore /\ Handlers /\ Op # WaitOp(a, TRUE)
  BY <1>1, <1>4, <1>5 DEF Ignore
<1>6. CASE RunAdd
  <2>1. Op.act \in Actions
    BY <1>6, KindType DEF RunAdd
  <2>2. CASE Op.act = a
    <3>1. ~Op.paused
      BY <1>6, <2>1, <2>2 DEF RunAdd, TypeOK
    <3>. QED  BY <1>6, <2>2, <3>1 DEF RunAdd, Schedule, TypeOK
  <2>3. CASE Op.act # a
    <3>1. alive /\ life[a] = "live" /\ ~paused[a] /\ timer'[a] = timer[a]
      BY <1>6, <2>1, <2>3 DEF RunAdd, Running, Schedule, TypeOK
    <3>. QED  BY <1>1, <1>3, <1>4, <1>6, <3>1 DEF Handlers, RunAdd
  <2>. QED  BY <2>2, <2>3
<1>7. CASE RunRemove /\ ~Ignore
  <2>1. /\ Op.idx \in DOMAIN actions /\ Cancel(actions[Op.idx]) /\ Erase(Op.idx)
        /\ paused' = paused /\ alive /\ actions[Op.idx] \in Actions
    BY <1>7 DEF RunRemove, Running, TypeOK
  <2>2. a # actions[Op.idx]
    BY <2>1 DEF Erase, TypeOK
  <2>3. life[a] = "live" /\ timer'[a] = timer[a]
    BY <2>1, <2>2 DEF Erase, Cancel, TypeOK
  <2>. QED  BY <1>1, <1>3, <1>4, <1>7, <2>1, <2>3 DEF Handlers, RunRemove
<1>8. CASE RunToggle /\ ~Ignore
  <2>1. PICK b \in Actions, i \in DOMAIN actions :
           /\ (paused[b] /\ Resume(b)) \/ (~paused[b] /\ Pause(b))
           /\ UNCHANGED <<life, alive>>
    BY <1>8, ToggleCases
  <2>2. CASE a = b
    BY <2>1, <2>2 DEF Resume, Pause, Schedule, TypeOK
  <2>3. CASE a # b
    <3>1. life[a] = "live" /\ ~paused[a] /\ timer'[a] = timer[a] /\ alive
      BY <2>1, <2>3 DEF Resume, Pause, Schedule, Cancel, TypeOK
    <3>. QED  BY <1>1, <1>3, <1>4, <1>8, <3>1 DEF Handlers, RunToggle
  <2>. QED  BY <2>2, <2>3
<1>9. CASE (RunSinParam \/ RunPayload) /\ ~Ignore
  <2>1. UNCHANGED <<timer, paused, life, alive>>
    BY <1>9 DEF RunSinParam, RunPayload
  <2>. QED  BY <1>1, <1>3, <1>4, <1>9, <2>1 DEF Handlers, RunSinParam, RunPayload
<1>10. CASE RunAborted
  BY <1>5, <1>10 DEF RunAborted, Handlers, WaitOp
<1>11. CASE RunPeriodic
  <2>1. Op.act \in Actions
    BY <1>11, KindType DEF RunPeriodic
  <2>2. CASE Op.act = a
    BY <1>11, <2>2 DEF RunPeriodic, Schedule, TypeOK
  <2>3. CASE Op.act # a
    <3>1. life[a] = "live" /\ ~paused[a] /\ timer'[a] = timer[a] /\ alive
      BY <1>11, <2>1, <2>3 DEF RunPeriodic, Schedule, TypeOK
    <3>. QED  BY <1>1, <1>4, <1>11, <2>3, <3>1 DEF Handlers, WaitOp
  <2>. QED  BY <2>2, <2>3
<1>12. CASE RunSingle
  <2>1. Op.act \in Actions
    BY <1>12, KindType DEF RunSingle
  <2>2. PICK i : \/ i \in DOMAIN actions /\ actions[i] = Op.act /\ Erase(i)
                 \/ life[Op.act] = "freed" /\ life' = life
    BY <1>12 DEF RunSingle
  <2>3. Op.act # a /\ life[a] = "live"
    BY <2>1, <2>2 DEF Erase, TypeOK
  <2>4. ~paused[a] /\ timer'[a] = timer[a] /\ alive
    BY <1>12, <2>1, <2>3 DEF RunSingle, Cancel, TypeOK
  <2>. QED  BY <1>1, <1>4, <1>12, <2>3, <2>4 DEF Handlers, WaitOp
<1>13. CASE RunDestroyed \/ RunThrows
  BY <1>13 DEF RunDestroyed, RunThrows
<1>14. CASE RunTask
  <2>1. /\ queue # <<>> /\ life[a] = "live" /\ ~paused[a] /\ alive
        /\ Op # WaitOp(a, TRUE)
    BY <1>3, <1>14, KindType DEF RunTask, Running
  <2>2. timer[a] # "idle" \/ Completing(a)
    BY <2>1 DEF ArmedInv
  <2>3. CASE a \in Due
    BY <1>14, <2>3, TurnContents DEF Completing
  <2>4. CASE a \notin Due
    <3>1. timer'[a] = timer[a]
      BY <1>14, <2>4 DEF RunTask
    <3>2. Completing(a) => Completing(a)'
      BY <1>14, <2>1, TurnContents, ContentsType DEF Completing, WaitOp
    <3>. QED  BY <2>2, <3>1, <3>2
  <2>. QED  BY <2>3, <2>4
<1>15. ASSUME NEW b \in Actions, Elapse(b)
       PROVE  timer'[a] # "idle" \/ Completing(a)'
  <2>1. alive /\ life[a] = "live" /\ ~paused[a]
    BY <1>15 DEF Elapse
  <2>2. timer[a] # "idle" => timer'[a] # "idle"
    BY <1>15 DEF Elapse, TypeOK
  <2>3. Contents' = Contents
    BY <1>15 DEF Elapse, Contents
  <2>. QED  BY <1>2, <2>1, <2>2, <2>3
<1>16. CASE Look \/ UNCHANGED vars
  <2>1. UNCHANGED <<queue, timer, paused, life, alive>>
    BY <1>16 DEF Look, asioVars, vars
  <2>2. Contents' = Contents
    BY <2>1 DEF Contents
  <2>. QED  BY <1>2, <2>1, <2>2
<1>17. ASSUME NEW b \in Actions, PostAdd(b)
       PROVE  timer'[a] # "idle" \/ Completing(a)'
  <2>1. life[a] = "live" /\ UNCHANGED <<timer, paused, alive>>
    BY <1>17 DEF PostAdd, TypeOK
  <2>2. AddOp(b, FALSE) \in Ops
    BY DEF AddOp, AddOps, Ops
  <2>3. Contents' = Contents \cup {AddOp(b, FALSE)}
    BY <1>17, <2>2, Pushed DEF PostAdd
  <2>. QED  BY <1>2, <2>1, <2>3
<1>18. ASSUME NEW k \in RowKinds, NEW i \in DOMAIN view.rows,
              NEW v \in Values \cup {NoValue}, v \in Carried(k), PostRow(k, i, v)
       PROVE  timer'[a] # "idle" \/ Completing(a)'
  <2>1. UNCHANGED <<timer, paused, life, alive>>
    BY <1>18 DEF PostRow
  <2>2. RowOp(k, i, v, view.rows[i], view.epoch) \in Ops
    BY <1>18, RowOpType
  <2>3. Contents' = Contents \cup {RowOp(k, i, v, view.rows[i], view.epoch)}
    BY <1>18, <2>2, Pushed DEF PostRow
  <2>. QED  BY <1>2, <2>1, <2>3
<1>. QED
  BY <1>5, <1>6, <1>7, <1>8, <1>9, <1>3, <1>10, <1>11, <1>12, <1>13, <1>14, <1>15,
     <1>16, <1>17, <1>18
     DEF Next, AsioThread, UiThread, Handlers, RunRemove, RunToggle, RunSinParam, RunPayload

\* No action is lost (src/src/action/Action.cpp:72): one that is in the list and
\* not paused has a wait or a completion that will send it, whatever is
\* toggled, edited, removed or cancelled around it.
THEOREM ArmedCorrect == Spec => []Armed
<1>1. Init => ArmedInv
  <2>1. ASSUME Init, NEW a \in Actions
        PROVE  life[a] # "live"
    BY <2>1 DEF Init
  <2>. QED  BY <2>1 DEF ArmedInv
<1>2. TypeOK /\ ArmedInv => Armed
  BY ArmedInvIff
<1>. QED  BY <1>1, <1>2, TypeCorrect, ArmedStep, PTL DEF Spec

-----------------------------------------------------------------------------
(* Presets are quiet.                                                      *)

Quiet(a) ==
  /\ ~ever_sent[a] /\ timer[a] = "idle" /\ ~Completing(a)
  /\ AddOp(a, FALSE) \notin Contents
  /\ life[a] = "live" => paused[a]

\* A preset that nobody has resumed holds no wait, no completion of it is
\* queued, and it is paused as soon as it is in the list.
QuietInv ==
  \A a \in PresetSet : life[a] # "unborn" /\ (a \notin resumed => Quiet(a))

LEMMA PresetsType == PresetSet \subseteq Actions \ Singles
BY PresetsAssumption, ElementOfSeq DEF PresetSet

\* Handlers queue failed completions only.
LEMMA NothingNew ==
  ASSUME TypeOK, HandlerContents, NEW o,
         o \notin Contents, o.kind = "wait" => o.ok
  PROVE  o \notin Contents'
<1>1. \A b \in Actions : WaitOp(b, FALSE).kind = "wait" /\ ~WaitOp(b, FALSE).ok
  BY DEF WaitOp
<1>. QED  BY <1>1, ContentsType DEF HandlerContents

LEMMA QuietStep == TypeOK /\ QuietInv /\ [Next]_vars => QuietInv'
<1>. SUFFICES ASSUME TypeOK, QuietInv, [Next]_vars, NEW a \in PresetSet
              PROVE  life'[a] # "unborn" /\ (a \notin resumed' => Quiet(a)')
  BY DEF QuietInv, PresetSet
<1>a. a \in Actions /\ a \notin Singles
  BY PresetsType
<1>b. life[a] # "unborn" /\ (a \notin resumed => Quiet(a))
  BY DEF QuietInv
<1>c. /\ WaitOp(a, TRUE).ok /\ WaitOp(a, TRUE).kind = "wait"
      /\ AddOp(a, FALSE).kind = "add"
  BY DEF WaitOp, AddOp
\* A handler that leaves a as it is.
<1>1. ASSUME HandlerContents, life'[a] = life[a], resumed' = resumed,
             ever_sent'[a] = ever_sent[a], timer'[a] = timer[a],
             paused'[a] = paused[a]
      PROVE  life'[a] # "unborn" /\ (a \notin resumed' => Quiet(a)')
  BY <1>b, <1>c, <1>1, NothingNew DEF Quiet, Completing
<1>2. ASSUME life'[a] = life[a], resumed' = resumed,
             ever_sent'[a] = ever_sent[a], timer'[a] = timer[a],
             paused'[a] = paused[a],
             WaitOp(a, TRUE) \in Contents' => WaitOp(a, TRUE) \in Contents,
             AddOp(a, FALSE) \in Contents' => AddOp(a, FALSE) \in Contents
      PROVE  life'[a] # "unborn" /\ (a \notin resumed' => Quiet(a)')
  BY <1>b, <1>2 DEF Quiet, Completing
<1>3. Handlers => HandlerContents /\ Op \in Contents
  BY HandlersContents, ContentsType DEF HandlerContents
<1>4. CASE Ignore /\ Handlers
  BY <1>1, <1>3, <1>4 DEF Ignore
<1>5. CASE RunAdd
  <2>1. Op.act \in Actions /\ Op.paused \in BOOLEAN /\ Op \in Ops
    BY <1>3, <1>5, KindType, ContentsType DEF RunAdd, Handlers
  <2>2. CASE Op.act = a
    <3>1. life'[a] = "live" /\ resumed' = resumed
      BY <1>a, <1>5, <2>2 DEF RunAdd, TypeOK
    <3>2. ASSUME a \notin resumed
          PROVE  Quiet(a)'
      <4>1. Op = AddOp(a, Op.paused)
        BY <1>5, <2>1, <2>2
           DEF RunAdd, Running, Ops, Task, WaitOps, AddOps, RowOps, RowKinds, EditKinds, AddOp
      <4>2. Op.paused
        BY <1>3, <1>5, <1>b, <2>1, <3>2, <4>1 DEF Quiet, Handlers
      <4>3. /\ paused'[a] /\ timer' = timer /\ ever_sent' = ever_sent
        BY <1>a, <1>5, <2>2, <4>2 DEF RunAdd, TypeOK
      <4>. QED  BY <1>3, <1>5, <1>b, <1>c, <3>2, <4>3, NothingNew
                DEF Quiet, Completing, Handlers
    <3>. QED  BY <3>1, <3>2
  <2>3. CASE Op.act # a
    <3>1. /\ life'[a] = life[a] /\ resumed' = resumed /\ ever_sent' = ever_sent
          /\ timer'[a] = timer[a] /\ paused'[a] = paused[a]
      BY <1>a, <1>5, <2>1, <2>3 DEF RunAdd, Schedule, TypeOK
    <3>. QED  BY <1>1, <1>3, <1>5, <3>1 DEF Handlers
  <2>. QED  BY <2>2, <2>3
<1>6. CASE RunRemove /\ ~Ignore
  <2>. DEFINE b == actions[Op.idx]
  <2>1. /\ b \in Actions /\ Cancel(b) /\ life' = [life EXCEPT ![b] = "freed"]
        /\ UNCHANGED <<paused, ever_sent, resumed>>
    BY <1>6 DEF RunRemove, Erase, TypeOK
  <2>. HIDE DEF b
  <2>2. HandlerContents
    BY <1>3, <1>6 DEF Handlers
  <2>3. CASE a # b
    BY <1>1, <1>a, <2>1, <2>2, <2>3 DEF Cancel, TypeOK
  <2>4. CASE a = b
    <3>1. life'[a] = "freed" /\ timer'[a] = "idle"
      BY <1>a, <2>1, <2>4 DEF Cancel, TypeOK
    <3>. QED  BY <1>b, <1>c, <2>1, <2>2, <3>1, NothingNew DEF Quiet, Completing
  <2>. QED  BY <2>3, <2>4
<1>7. CASE RunToggle /\ ~Ignore
  <2>1. PICK b \in Actions :
           /\ (paused[b] /\ Resume(b)) \/ (~paused[b] /\ Pause(b))
           /\ UNCHANGED <<life, ever_sent>>
    BY <1>7, ToggleCases
  <2>2. HandlerContents
    BY <1>3, <1>7 DEF Handlers
  <2>3. CASE Pause(b)
    <3>1. /\ timer'[a] = timer[a] \/ timer'[a] = "idle"
          /\ paused'[a] = paused[a] \/ paused'[a]
          /\ resumed' = resumed
      BY <1>a, <2>3 DEF Pause, Cancel, TypeOK
    <3>. QED  BY <1>b, <1>c, <2>1, <2>2, <3>1, NothingNew DEF Quiet, Completing
  <2>4. CASE Resume(b) /\ b = a
    BY <1>b, <2>1, <2>4 DEF Resume
  <2>5. CASE Resume(b) /\ b # a
    <3>1. timer'[a] = timer[a] /\ paused'[a] = paused[a] /\ (a \notin resumed' => a \notin resumed)
      BY <1>a, <2>5 DEF Resume, Schedule, TypeOK
    <3>. QED  BY <1>b, <1>c, <2>1, <2>2, <3>1, NothingNew DEF Quiet, Completing
  <2>. QED  BY <2>1, <2>3, <2>4, <2>5
<1>8. CASE (RunSinParam \/ RunPayload) /\ ~Ignore
  <2>1. UNCHANGED <<timer, paused, life, ever_sent, resumed>>
    BY <1>8 DEF RunSinParam, RunPayload
  <2>. QED  BY <1>1, <1>3, <1>8, <2>1 DEF Handlers
<1>9. CASE RunAborted
  BY <1>4, <1>9 DEF RunAborted, Handlers
<1>10. CASE RunPeriodic \/ RunSingle
  <2>1. /\ Op.act \in Actions /\ Op \in Contents /\ Op \in Ops
        /\ Op.kind = "wait" /\ Op.ok
    BY <1>3, <1>10, KindType, ContentsType DEF RunPeriodic, RunSingle, Running, Handlers
  <2>2. Op = WaitOp(Op.act, TRUE)
    BY <2>1 DEF Ops, Task, WaitOps, AddOps, RowOps, RowKinds, EditKinds, WaitOp
  <2>3. CASE Op.act # a
    <3>1. life'[a] = life[a]
      <4>1. CASE life' = life
        BY <4>1
      <4>2. CASE \E i \in DOMAIN actions : actions[i] = Op.act /\ Erase(i)
        BY <1>a, <2>1, <2>3, <4>2 DEF Erase, TypeOK
      <4>. QED  BY <1>10, <4>1, <4>2 DEF RunPeriodic, RunSingle
    <3>2. /\ resumed' = resumed /\ ever_sent'[a] = ever_sent[a]
          /\ timer'[a] = timer[a] /\ paused' = paused
      BY <1>a, <1>10, <2>1, <2>3
         DEF RunPeriodic, RunSingle, Fire, Schedule, Cancel, TypeOK
    <3>. QED  BY <1>1, <1>3, <1>10, <3>1, <3>2 DEF Handlers
  <2>4. CASE Op.act = a
    <3>1. a \in resumed
      BY <1>b, <2>1, <2>2, <2>4 DEF Quiet, Completing
    <3>2. RunPeriodic
      BY <1>a, <1>10, <2>4 DEF RunSingle
    <3>. QED  BY <1>b, <3>1, <3>2 DEF RunPeriodic
  <2>. QED  BY <2>3, <2>4
<1>11. CASE RunDestroyed \/ RunThrows \/ Look \/ UNCHANGED vars
  <2>1. UNCHANGED <<queue, timer, paused, life, ever_sent, resumed>>
    BY <1>11 DEF RunDestroyed, RunThrows, Look, asioVars, vars
  <2>2. Contents' = Contents
    BY <2>1 DEF Contents
  <2>. QED  BY <1>2, <2>1, <2>2
<1>12. CASE RunTask
  <2>1. /\ UNCHANGED <<paused, life, ever_sent, resumed>>
        /\ timer' = [b \in Actions |-> IF b \in Due THEN "idle" ELSE timer[b]]
    BY <1>12 DEF RunTask
  <2>2. Behind \subseteq Contents
    BY ContentsType
  <2>3. /\ WaitOp(a, TRUE) \in Contents' => WaitOp(a, TRUE) \in Contents \/ a \in Due
        /\ AddOp(a, FALSE) \in Contents' => AddOp(a, FALSE) \in Contents
    BY <1>12, <2>2, TurnContents DEF WaitOp, AddOp, Task
  <2>4. a \notin resumed => a \notin Due
    BY <1>b DEF Quiet, Due
  <2>. QED  BY <1>a, <1>b, <2>1, <2>3, <2>4 DEF Quiet, Completing
<1>13. ASSUME NEW b \in Actions, Elapse(b)
       PROVE  life'[a] # "unborn" /\ (a \notin resumed' => Quiet(a)')
  <2>1. UNCHANGED <<queue, paused, life, ever_sent, resumed>>
    BY <1>13 DEF Elapse
  <2>2. a \notin resumed => timer'[a] = timer[a]
    BY <1>a, <1>b, <1>13 DEF Elapse, Quiet, TypeOK
  <2>3. Contents' = Contents
    BY <2>1 DEF Contents
  <2>. QED  BY <1>b, <2>1, <2>2, <2>3 DEF Quiet, Completing
<1>14. ASSUME NEW b \in Actions, PostAdd(b)
       PROVE  life'[a] # "unborn" /\ (a \notin resumed' => Quiet(a)')
  <2>1. a # b /\ life'[a] = life[a] /\ UNCHANGED <<timer, paused, ever_sent, resumed>>
    BY <1>a, <1>b, <1>14 DEF PostAdd, TypeOK
  <2>2. AddOp(b, FALSE) \in Ops
    BY DEF AddOp, AddOps, Ops
  <2>3. Contents' = Contents \cup {AddOp(b, FALSE)}
    BY <1>14, <2>2, Pushed DEF PostAdd
  <2>4. AddOp(b, FALSE) # AddOp(a, FALSE) /\ AddOp(b, FALSE) # WaitOp(a, TRUE)
    BY <2>1 DEF AddOp, WaitOp
  <2>. QED  BY <1>2, <2>1, <2>3, <2>4
<1>15. ASSUME NEW k \in RowKinds, NEW i \in DOMAIN view.rows,
              NEW v \in Values \cup {NoValue}, v \in Carried(k), PostRow(k, i, v)
       PROVE  life'[a] # "unborn" /\ (a \notin resumed' => Quiet(a)')
  <2>. DEFINE o == RowOp(k, i, v, view.rows[i], view.epoch)
  <2>1. UNCHANGED <<timer, paused, life, ever_sent, resumed>>
    BY <1>15 DEF PostRow
  <2>2. o \in Ops
    BY <1>15, RowOpType
  <2>3. Contents' = Contents \cup {o}
    BY <1>15, <2>2, Pushed DEF PostRow
  <2>4. o.kind = k /\ k # "add" /\ k # "wait"
    BY DEF RowOp, RowKinds, EditKinds
  <2>. QED  BY <1>2, <1>c, <2>1, <2>3, <2>4
<1>. QED
  BY <1>4, <1>5, <1>6, <1>7, <1>8, <1>9, <1>10, <1>11, <1>12, <1>13, <1>14, <1>15
     DEF Next, AsioThread, UiThread, Handlers, RunRemove, RunToggle, RunSinParam, RunPayload

\* At the start the queue holds the reactor and the presets, to be paused.
LEMMA InitContents ==
  ASSUME Init
  PROVE  /\ Contents \subseteq {Task} \cup {AddOp(a, TRUE) : a \in PresetSet}
         /\ DOMAIN queue = 1..(Len(Presets) + 1) /\ Len(Presets) \in Nat
         /\ queue[1] = Task
         /\ \A i \in DOMAIN queue : i # 1 =>
              i - 1 \in DOMAIN Presets /\ queue[i] = AddOp(Presets[i - 1], TRUE)
<1>. DEFINE f == [i \in DOMAIN Presets |-> AddOp(Presets[i], TRUE)]
<1>1. /\ Len(Presets) \in Nat /\ DOMAIN Presets = 1..Len(Presets)
      /\ \A i \in 1..Len(Presets) : Presets[i] \in Actions
  <2>1. Presets \in Seq(Actions \ Singles)
    BY PresetsAssumption
  <2>. QED  BY <2>1, ElementOfSeq
<1>2. \A i \in 1..Len(Presets) : AddOp(Presets[i], TRUE) \in Ops
  BY <1>1 DEF AddOp, AddOps, Ops
<1>3. f \in [1..Len(Presets) -> Ops]
  BY <1>1, <1>2
<1>4. f \in Seq(Ops) /\ Len(f) = Len(Presets)
  BY ONLY <1>1, <1>3, FunctionIsSeq
<1>5. \A i \in 1..Len(Presets) : f[i] = AddOp(Presets[i], TRUE)
  BY <1>1
<1>6. <<Task>> \in Seq(Ops) /\ Len(<<Task>>) = 1 /\ <<Task>>[1] = Task
  BY SingletonSeq DEF Ops
<1>7. queue = <<Task>> \o f
  BY DEF Init
<1>. HIDE DEF f
<1>8. /\ DOMAIN queue = 1..(1 + Len(Presets))
      /\ \A i \in 1..1 : queue[i] = Task
      /\ \A i \in DOMAIN queue : i \notin 1..1 =>
           i - 1 \in 1..Len(Presets) /\ queue[i] = f[i - 1]
  BY <1>4, <1>6, <1>7, Joined
<1>9. \A i \in DOMAIN queue : i # 1 =>
         i - 1 \in DOMAIN Presets /\ queue[i] = AddOp(Presets[i - 1], TRUE)
  <2>1. \A i \in DOMAIN queue : i # 1 => i \notin 1..1
    BY <1>1, <1>8
  <2>2. \A i \in DOMAIN queue : i # 1 =>
           i - 1 \in 1..Len(Presets) /\ queue[i] = f[i - 1]
    BY <1>8, <2>1
  <2>. QED  BY <1>1, <1>5, <2>2
<1>10. DOMAIN queue = 1..(Len(Presets) + 1) /\ queue[1] = Task
  BY <1>1, <1>8
<1>11. \A i \in DOMAIN queue : queue[i] \in {Task} \cup {AddOp(a, TRUE) : a \in PresetSet}
  BY <1>9, <1>10 DEF PresetSet
<1>. QED  BY <1>1, <1>9, <1>10, <1>11 DEF Contents

\* A preset sends nothing until somebody resumes it: between start() and pause()
\* in add_action_paused (src/src/action/ActionHandler.cpp:24) the reactor has no turn.
THEOREM QuietCorrect == Spec => []QuietPreset
<1>1. Init => QuietInv
  <2>1. ASSUME Init, NEW a \in PresetSet
        PROVE  life[a] # "unborn" /\ Quiet(a)
    <3>1. a \in Actions
      BY PresetsType
    <3>2. life[a] = "posted" /\ ~ever_sent[a] /\ timer[a] = "idle"
      BY <2>1, <3>1 DEF Init
    <3>3. WaitOp(a, TRUE) \notin Contents /\ AddOp(a, FALSE) \notin Contents
      BY <2>1, InitContents DEF WaitOp, AddOp, Task
    <3>. QED  BY <3>2, <3>3 DEF Quiet, Completing
  <2>. QED  BY <2>1 DEF QuietInv
<1>2. QuietInv => QuietPreset
  BY DEF QuietInv, Quiet, QuietPreset
<1>. QED  BY <1>1, <1>2, TypeCorrect, QuietStep, PTL DEF Spec

-----------------------------------------------------------------------------
(* Indices hit what the user pointed at.                                   *)

Hits(i, a) == i \in DOMAIN actions /\ actions[i] = a

\* An index that was read since the last action left hits its row; none was
\* read later than now.
Aimed(e, i, a) == e <= erased /\ (e = erased => Hits(i, a))

TargetInv ==
  /\ view.epoch <= erased
  /\ \A i \in DOMAIN view.rows : Aimed(view.epoch, i, view.rows[i])
  /\ \A o \in Contents : o.kind \in RowKinds => Aimed(o.epoch, o.idx, o.act)

\* Rows are appended, or an action leaves.
Shift ==
  \/ erased' = erased /\ \A i \in DOMAIN actions : i \in DOMAIN actions' /\ actions'[i] = actions[i]
  \/ erased' = erased + 1

LEMMA AimedKept ==
  ASSUME TypeOK, Shift, NEW e \in Nat, NEW i, NEW a, Aimed(e, i, a)
  PROVE  Aimed(e, i, a)'
<1>1. erased \in Nat
  BY DEF TypeOK
<1>. QED  BY <1>1 DEF Shift, Aimed, Hits

LEMMA EpochType ==
  ASSUME TypeOK
  PROVE  /\ view.epoch \in Nat
         /\ \A o \in Contents : o.kind \in RowKinds => o.epoch \in Nat
<1>1. ASSUME NEW o \in Ops, o.kind \in RowKinds
      PROVE  o.epoch \in Nat
  <2>1. o \in RowOps
    BY <1>1 DEF Ops, Task, WaitOps, AddOps, RowKinds, EditKinds
  <2>. QED  BY <2>1 DEF RowOps
<1>. QED  BY <1>1, ContentsType DEF TypeOK

\* A step that posts nothing and reads no rows.
LEMMA TargetKept ==
  ASSUME TypeOK, TargetInv, Shift, view' = view,
         \A o \in Contents' : o.kind \in RowKinds => o \in Contents
  PROVE  TargetInv'
<1>1. view'.epoch <= erased'
  <2>1. erased \in Nat /\ view.epoch \in Nat /\ view.epoch <= erased
    BY DEF TypeOK, TargetInv
  <2>. QED  BY <2>1 DEF Shift
<1>2. ASSUME NEW i \in DOMAIN view'.rows
      PROVE  Aimed(view.epoch, i, view.rows[i])'
  <2>1. Aimed(view.epoch, i, view.rows[i])
    BY <1>2 DEF TargetInv
  <2>2. view.epoch \in Nat
    BY EpochType
  <2>. QED  BY <2>1, <2>2 DEF Shift, Aimed, Hits, TypeOK
<1>3. ASSUME NEW o \in Contents', o.kind \in RowKinds
      PROVE  Aimed(o.epoch, o.idx, o.act)'
  <2>1. o \in Contents /\ o.epoch \in Nat /\ Aimed(o.epoch, o.idx, o.act)
    BY <1>3, EpochType DEF TargetInv
  <2>. QED  BY <2>1, AimedKept
<1>. QED  BY <1>1, <1>2, <1>3 DEF TargetInv

LEMMA HandlerShift ==
  ASSUME TypeOK, Handlers
  PROVE  Shift
<1>1. CASE UNCHANGED <<actions, erased>>
  BY <1>1 DEF Shift
<1>2. CASE RunAdd
  <2>1. Op.act \in Actions
    BY <1>2, KindType DEF RunAdd
  <2>2. /\ DOMAIN actions = 1..Len(actions) /\ Len(actions) \in Nat
        /\ actions' = Append(actions, Op.act) /\ erased' = erased
    BY <1>2 DEF RunAdd, TypeOK
  <2>3. /\ DOMAIN actions' = 1..(Len(actions) + 1)
        /\ \A i \in 1..Len(actions) : actions'[i] = actions[i]
    BY <2>1, <2>2, AppendProperties DEF TypeOK
  <2>. QED  BY <2>2, <2>3 DEF Shift
<1>3. CASE \E i : Erase(i)
  BY <1>3 DEF Erase, Shift
<1>. QED
  BY <1>1, <1>2, <1>3
     DEF Handlers, RunRemove, RunToggle, RunSinParam, RunPayload, RunAborted,
         RunPeriodic, RunSingle, Ignore

LEMMA TargetStep == TypeOK /\ SnapshotFaithful /\ TargetInv /\ [Next]_vars => TargetInv'
<1>. SUFFICES ASSUME TypeOK, SnapshotFaithful, TargetInv, [Next]_vars
              PROVE  TargetInv'
  OBVIOUS
<1>1. CASE Handlers
  <2>1. HandlerContents /\ Shift
    BY <1>1, HandlersContents, HandlerShift
  <2>2. view' = view
    BY <1>1 DEF Handlers, RunAdd, RunRemove, RunToggle, RunSinParam, RunPayload,
                RunAborted, RunPeriodic, RunSingle, Ignore
  <2>3. \A a \in Actions : WaitOp(a, FALSE).kind \notin RowKinds
    BY DEF WaitOp, RowKinds, EditKinds
  <2>4. \A o \in Contents' : o.kind \in RowKinds => o \in Contents
    BY <2>1, <2>3, ContentsType DEF HandlerContents
  <2>. QED  BY <2>1, <2>2, <2>4, TargetKept
<1>2. CASE RunTask
  <2>1. UNCHANGED <<actions, erased, view>>
    BY <1>2 DEF RunTask
  <2>2. /\ \A a \in Actions : WaitOp(a, TRUE).kind \notin RowKinds
        /\ Task.kind \notin RowKinds
    BY DEF WaitOp, Task, RowKinds, EditKinds
  <2>3. \A o \in Contents' : o.kind \in RowKinds => o \in Contents
    BY <1>2, <2>2, TurnContents, ContentsType DEF Due
  <2>. QED  BY <2>1, <2>3, TargetKept DEF Shift
<1>3. CASE RunDestroyed \/ RunThrows \/ (\E a \in Actions : Elapse(a)) \/ UNCHANGED vars
  <2>1. UNCHANGED <<queue, actions, erased, view>>
    BY <1>3 DEF RunDestroyed, RunThrows, Elapse, vars
  <2>2. Contents' = Contents
    BY <2>1 DEF Contents
  <2>. QED  BY <2>1, <2>2, TargetKept DEF Shift
<1>4. CASE Look
  <2>1. /\ UNCHANGED <<queue, actions, erased>>
        /\ view' = [rows |-> [i \in DOMAIN snapshot |-> snapshot[i].act], epoch |-> erased]
    BY <1>4 DEF Look, asioVars
  <2>2. /\ DOMAIN snapshot = DOMAIN actions
        /\ \A i \in DOMAIN actions : snapshot[i].act = actions[i]
    BY DEF SnapshotFaithful, Rows, Info
  <2>3. \A i \in DOMAIN view'.rows : Aimed(view.epoch, i, view.rows[i])'
    BY <2>1, <2>2 DEF Aimed, Hits, TypeOK
  <2>4. \A o \in Contents' : o.kind \in RowKinds => Aimed(o.epoch, o.idx, o.act)'
    BY <2>1 DEF TargetInv, Contents, Aimed, Hits
  <2>. QED  BY <2>1, <2>3, <2>4 DEF TargetInv, TypeOK
<1>5. ASSUME NEW a \in Actions, PostAdd(a)
      PROVE  TargetInv'
  <2>1. AddOp(a, FALSE) \in Ops /\ AddOp(a, FALSE).kind \notin RowKinds
    BY DEF AddOp, AddOps, Ops, RowKinds, EditKinds
  <2>2. Contents' = Contents \cup {AddOp(a, FALSE)}
    BY <1>5, <2>1, Pushed DEF PostAdd
  <2>. QED  BY <1>5, <2>1, <2>2, TargetKept DEF PostAdd, Shift
<1>6. ASSUME NEW k \in RowKinds, NEW i \in DOMAIN view.rows,
             NEW v \in Values \cup {NoValue}, v \in Carried(k), PostRow(k, i, v)
      PROVE  TargetInv'
  <2>. DEFINE o == RowOp(k, i, v, view.rows[i], view.epoch)
  <2>1. o \in Ops
    BY <1>6, RowOpType
  <2>2. Contents' = Contents \cup {o}
    BY <1>6, <2>1, Pushed DEF PostRow
  <2>3. Aimed(o.epoch, o.idx, o.act)
    <3>1. Aimed(view.epoch, i, view.rows[i])
      BY DEF TargetInv
    <3>. QED  BY <3>1 DEF RowOp
  <2>4. UNCHANGED <<actions, erased, view>>
    BY <1>6 DEF PostRow
  <2>. HIDE DEF o
  <2>. QED  BY <2>2, <2>3, <2>4 DEF TargetInv, Aimed, Hits
<1>. QED
  BY <1>1, <1>2, <1>3, <1>4, <1>5, <1>6 DEF Next, AsioThread, UiThread, Handlers

\* An operation with the index of a row (src/src/action/ActionHandler.cpp:35-79)
\* hits the action of that row as long as no action has left since the
\* snapshot was read, however many other operations run before it.
THEOREM TargetCorrect == Spec => []TargetHit
<1>1. Init => TargetInv
  <2>1. ASSUME Init
        PROVE  TargetInv
    <3>1. \A o \in Contents : o.kind \notin RowKinds
      BY <2>1, InitContents DEF Task, AddOp, RowKinds, EditKinds
    <3>2. view.epoch = 0 /\ erased = 0 /\ DOMAIN view.rows = {}
      BY <2>1, EmptySeq DEF Init
    <3>. QED  BY <3>1, <3>2 DEF TargetInv
  <2>. QED  BY <2>1
<1>2. TargetInv => TargetHit
  BY DEF TargetInv, TargetHit, Aimed, Hits, Contents
<1>. QED  BY <1>1, <1>2, TypeCorrect, SnapshotCorrect, TargetStep, PTL DEF Spec

-----------------------------------------------------------------------------
(* A single action is sent once.                                           *)

\* An action is posted once.
AddsOnce ==
  \A i, j \in DOMAIN queue :
    queue[i].kind = "add" /\ queue[j].kind = "add" /\ queue[i].act = queue[j].act => i = j

\* It is posted, then in the list, in one place, then freed.
LifeInv ==
  /\ AddsOnce
  /\ \A o \in Contents : o.kind = "add" => life[o.act] = "posted"
  /\ \A i \in DOMAIN actions : life[actions[i]] = "live"
  /\ \A i, j \in DOMAIN actions : actions[i] = actions[j] => i = j

\* A single action that was sent is freed, and nothing is left of its waits.
SentInv ==
  \A a \in Singles :
    ever_sent[a] => timer[a] = "idle" /\ ~Completing(a) /\ life[a] = "freed"

\* The head is taken off and no addition is appended.
LEMMA AddsPopped ==
  ASSUME TypeOK, AddsOnce, queue # <<>>, NEW t \in Seq(Ops), queue' = Tail(queue) \o t,
         \A k \in DOMAIN t : t[k].kind # "add"
  PROVE  AddsOnce'
<1>. DEFINE u == Tail(queue)
<1>1. /\ u \in Seq(Ops)
      /\ DOMAIN queue = 1..(Len(u) + 1) /\ Len(u) \in Nat
      /\ \A i \in 1..Len(u) : u[i] = queue[i + 1]
  BY HeadTailProperties, EmptySeq DEF TypeOK
<1>2. queue' = u \o t /\ DOMAIN t = 1..Len(t)
  OBVIOUS
<1>. HIDE DEF u
<1>a. /\ DOMAIN (u \o t) = 1..(Len(u) + Len(t)) /\ Len(t) \in Nat
      /\ \A i \in 1..Len(u) : (u \o t)[i] = u[i]
      /\ \A i \in DOMAIN (u \o t) : i \notin 1..Len(u) =>
           i - Len(u) \in 1..Len(t) /\ (u \o t)[i] = t[i - Len(u)]
  BY <1>1, Joined
<1>3. /\ \A i \in 1..Len(u) : queue'[i] = u[i]
      /\ \A i \in DOMAIN queue' : i \notin 1..Len(u) =>
           i - Len(u) \in 1..Len(t) /\ queue'[i] = t[i - Len(u)]
  BY <1>2, <1>a
<1>4. ASSUME NEW i \in DOMAIN queue', queue'[i].kind = "add"
      PROVE  i \in Nat /\ i + 1 \in DOMAIN queue /\ queue'[i] = queue[i + 1]
  <2>1. i \in 1..Len(u)
    BY <1>2, <1>3, <1>4
  <2>. QED  BY <1>1, <1>3, <2>1
<1>5. ASSUME NEW i \in DOMAIN queue', NEW j \in DOMAIN queue',
             queue'[i].kind = "add", queue'[j].kind = "add", queue'[i].act = queue'[j].act
      PROVE  i = j
  <2>1. i + 1 = j + 1 /\ i \in Nat /\ j \in Nat
    BY <1>4, <1>5 DEF AddsOnce
  <2>. QED  BY <2>1
<1>. QED  BY <1>5 DEF AddsOnce

\* An operation is appended: if an addition, then of an action not yet posted.
LEMMA AddsPushed ==
  ASSUME TypeOK, LifeInv, NEW o \in Ops, queue' = Append(queue, o),
         o.kind = "add" => life[o.act] = "unborn"
  PROVE  AddsOnce'
<1>1. /\ DOMAIN queue' = 1..(Len(queue) + 1) /\ DOMAIN queue = 1..Len(queue)
      /\ Len(queue) \in Nat
      /\ \A i \in 1..Len(queue) : queue'[i] = queue[i]
      /\ queue'[Len(queue) + 1] = o
  BY AppendProperties DEF TypeOK
<1>2. ASSUME NEW i \in DOMAIN queue, queue[i].kind = "add", o.kind = "add"
      PROVE  queue[i].act # o.act
  BY <1>2 DEF LifeInv, Contents
<1>3. \A i \in DOMAIN queue' : i \in DOMAIN queue \/ i = Len(queue) + 1
  BY <1>1
<1>. QED  BY <1>1, <1>2, <1>3 DEF LifeInv, AddsOnce

\* When an addition runs, no other of the same action is behind it.
LEMMA AddAlone ==
  ASSUME TypeOK, LifeInv, Running("add"), NEW o \in Behind, o.kind = "add"
  PROVE  o.act # Op.act
<1>1. queue # <<>> /\ 1 \in DOMAIN queue /\ queue[1] = Op /\ Op.kind = "add"
  BY EmptySeq DEF Running, TypeOK, Op
<1>. QED  BY <1>1 DEF LifeInv, AddsOnce, Behind

\* When a successful completion runs, no other of the same action is behind it.
LEMMA CompletionAlone ==
  ASSUME TypeOK, OneWait, queue # <<>>, NEW a \in Actions, Op = WaitOp(a, TRUE)
  PROVE  WaitOp(a, TRUE) \notin Behind
<1>0. 1 \in DOMAIN queue /\ queue[1] = Op
  BY EmptySeq DEF TypeOK, Op
<1>1. 1 \in DOMAIN queue /\ queue[1] = WaitOp(a, TRUE)
  BY <1>0
<1>2. Fired(a, 1) /\ \A i \in DOMAIN queue : queue[i] = WaitOp(a, TRUE) => Fired(a, i)
  BY <1>1 DEF Fired, WaitOp
<1>. QED  BY <1>1, <1>2 DEF OneWait, Behind

\* The actions of queued additions are Actions, and only additions are additions.
LEMMA AddType ==
  ASSUME TypeOK, NEW o \in Contents, o.kind = "add"
  PROVE  o.act \in Actions /\ o \in AddOps
<1>1. o \in Ops
  BY ContentsType
<1>2. o \in AddOps
  BY <1>1 DEF Ops, Task, WaitOps, RowOps, RowKinds, EditKinds
<1>. QED  BY <1>2 DEF AddOps

LEMMA LifeKept ==
  ASSUME TypeOK, LifeInv, AddsOnce', UNCHANGED <<actions, life>>,
         \A o \in Contents' : o.kind = "add" => o \in Contents
  PROVE  LifeInv'
BY DEF LifeInv

LEMMA LifeErased ==
  ASSUME TypeOK, LifeInv, AddsOnce', NEW i \in DOMAIN actions, Erase(i),
         \A o \in Contents' : o.kind = "add" => o \in Contents
  PROVE  LifeInv'
<1>1. actions[i] \in Actions /\ life[actions[i]] = "live"
  BY DEF LifeInv, TypeOK
<1>2. \A o \in Contents' : o.kind = "add" => life'[o.act] = "posted"
  <2>. SUFFICES ASSUME NEW o \in Contents', o.kind = "add"
                PROVE  life'[o.act] = "posted"
    OBVIOUS
  <2>1. o.act \in Actions /\ life[o.act] = "posted"
    BY AddType DEF LifeInv
  <2>. QED  BY <1>1, <2>1 DEF Erase, TypeOK
<1>. DEFINE n == Len(actions)
            from == [j \in 1..(n - 1) |-> IF j < i THEN j ELSE j + 1]
<1>3. n \in Nat /\ DOMAIN actions = 1..n /\ i \in 1..n
  BY DEF TypeOK
<1>4. /\ DOMAIN actions' = 1..(n - 1)
      /\ \A j \in 1..(n - 1) : actions'[j] = actions[IF j < i THEN j ELSE j + 1]
  <2>1. /\ actions' \in Seq(Actions) /\ Len(actions') = n - 1
        /\ \A j \in 1..(i - 1) : actions'[j] = actions[j]
        /\ \A j \in i..(n - 1) : actions'[j] = actions[j + 1]
    <3>1. actions \in Seq(Actions) /\ actions' = Without(actions, i)
      BY DEF Erase, TypeOK
    <3>. QED  BY <3>1, WithoutType
  <2>. QED  BY <1>3, <2>1
<1>. HIDE DEF n
<1>5. \A j \in 1..(n - 1) :
        /\ from[j] \in DOMAIN actions \ {i}
        /\ actions'[j] = actions[from[j]]
  BY <1>3, <1>4
<1>6. \A j, k \in 1..(n - 1) : from[j] = from[k] => j = k
  BY <1>3
<1>. HIDE DEF from
<1>7. \A j \in DOMAIN actions' : life'[actions'[j]] = "live"
  <2>. SUFFICES ASSUME NEW j \in DOMAIN actions'
                PROVE  life'[actions'[j]] = "live"
    OBVIOUS
  <2>1. from[j] \in DOMAIN actions /\ from[j] # i /\ actions'[j] = actions[from[j]]
    BY <1>4, <1>5
  <2>2. actions[from[j]] # actions[i]
    BY <2>1 DEF LifeInv
  <2>3. life[actions[from[j]]] = "live" /\ actions[from[j]] \in Actions
    BY <2>1 DEF LifeInv, TypeOK
  <2>. QED  BY <1>1, <2>1, <2>2, <2>3 DEF Erase, TypeOK
<1>8. \A j, k \in DOMAIN actions' : actions'[j] = actions'[k] => j = k
  BY <1>4, <1>5, <1>6 DEF LifeInv
<1>. QED  BY <1>2, <1>7, <1>8 DEF LifeInv

\* The handlers append no addition.
LEMMA HandlersAdds ==
  ASSUME TypeOK, AddsOnce, Handlers
  PROVE  /\ AddsOnce'
         /\ \A o \in Contents' : o.kind = "add" => o \in Behind
<1>1. queue # <<>> /\ HandlerQueue
  BY HandlersQueue DEF HandlerQueue
<1>2. PICK t \in Seq(Ops) :
        /\ queue' = Tail(queue) \o t
        /\ \A k \in DOMAIN t : \E a \in Actions : t[k] = WaitOp(a, FALSE)
  BY <1>1 DEF HandlerQueue
<1>3. \A a \in Actions : WaitOp(a, FALSE).kind # "add"
  BY DEF WaitOp
<1>4. \A k \in DOMAIN t : t[k].kind # "add"
  BY <1>2, <1>3
<1>5. AddsOnce'
  BY <1>1, <1>2, <1>4, AddsPopped
<1>6. \A o \in Contents' : o.kind = "add" => o \in Behind
  BY <1>3, HandlersContents DEF HandlerContents
<1>. QED  BY <1>5, <1>6

LEMMA LifeStep == TypeOK /\ LifeInv /\ [Next]_vars => LifeInv'
<1>. SUFFICES ASSUME TypeOK, LifeInv, [Next]_vars
              PROVE  LifeInv'
  OBVIOUS
<1>a. ASSUME Handlers
      PROVE  /\ AddsOnce'
             /\ \A o \in Contents' : o.kind = "add" => o \in Behind /\ o \in Contents
  BY <1>a, HandlersAdds, ContentsType DEF LifeInv
<1>1. CASE Handlers /\ UNCHANGED <<actions, life>>
  BY <1>1, <1>a, LifeKept
<1>2. CASE Handlers /\ \E i \in DOMAIN actions : Erase(i)
  BY <1>2, <1>a, LifeErased
<1>3. CASE RunAdd
  <2>. DEFINE a == Op.act
  <2>1. /\ a \in Actions /\ Op \in Contents /\ Op.kind = "add"
        /\ actions' = Append(actions, a) /\ life' = [life EXCEPT ![a] = "live"]
    BY <1>3, KindType, ContentsType DEF RunAdd, Running
  <2>2. life[a] = "posted"
    BY <2>1 DEF LifeInv
  <2>. HIDE DEF a
  <2>3. Handlers /\ Running("add")
    BY <1>3 DEF Handlers, RunAdd
  <2>4. \A o \in Contents' : o.kind = "add" => life'[o.act] = "posted"
    <3>. SUFFICES ASSUME NEW o \in Contents', o.kind = "add"
                  PROVE  life'[o.act] = "posted"
      OBVIOUS
    <3>1. o \in Behind /\ o \in Contents
      BY <1>a, <2>3
    <3>2. o.act # a /\ o.act \in Actions /\ life[o.act] = "posted"
      BY <2>3, <3>1, AddAlone, AddType DEF LifeInv, a
    <3>. QED  BY <2>1, <3>2 DEF TypeOK
  <2>5. /\ Len(actions) \in Nat /\ DOMAIN actions = 1..Len(actions)
        /\ DOMAIN actions' = 1..(Len(actions) + 1)
        /\ \A i \in 1..Len(actions) : actions'[i] = actions[i] /\ actions[i] \in Actions
        /\ actions'[Len(actions) + 1] = a
    BY <2>1, AppendProperties DEF TypeOK
  <2>6. \A i \in 1..Len(actions) : actions[i] # a /\ life[actions[i]] = "live"
    BY <2>2, <2>5 DEF LifeInv
  <2>7. \A i \in DOMAIN actions' : i \in 1..Len(actions) \/ i = Len(actions) + 1
    BY <2>5
  <2>8. \A i \in DOMAIN actions' : life'[actions'[i]] = "live"
    BY <2>1, <2>5, <2>6, <2>7 DEF TypeOK
  <2>9. \A i, j \in DOMAIN actions' : actions'[i] = actions'[j] => i = j
    BY <2>5, <2>6, <2>7 DEF LifeInv
  <2>. QED  BY <1>a, <2>3, <2>4, <2>8, <2>9 DEF LifeInv
<1>4. CASE RunTask
  <2>1. UNCHANGED <<actions, life>> /\ queue # <<>>
    BY <1>4, KindType DEF RunTask
  <2>2. \A o \in Contents' : o.kind = "add" => o \in Contents
    <3>1. /\ \A a \in Actions : WaitOp(a, TRUE).kind # "add"
          /\ Task.kind # "add"
      BY DEF WaitOp, Task
    <3>. QED  BY <1>4, <3>1, TurnContents, ContentsType DEF Due
  <2>3. PICK t \in Seq(Ops) :
          queue' = Tail(queue) \o t /\ \A k \in DOMAIN t : t[k].kind # "add"
    BY <1>4, TurnQueue
  <2>4. AddsOnce'
    BY <2>1, <2>3, AddsPopped DEF LifeInv
  <2>. QED  BY <2>1, <2>2, <2>4, LifeKept
<1>5. CASE RunDestroyed \/ RunThrows \/ (\E a \in Actions : Elapse(a)) \/ Look \/ UNCHANGED vars
  <2>1. UNCHANGED <<queue, actions, life>>
    BY <1>5 DEF RunDestroyed, RunThrows, Elapse, Look, asioVars, vars
  <2>. QED  BY <2>1 DEF LifeInv, AddsOnce, Contents
<1>6. ASSUME NEW a \in Actions, PostAdd(a)
      PROVE  LifeInv'
  <2>. DEFINE o == AddOp(a, FALSE)
  <2>1. /\ life[a] = "unborn" /\ life' = [life EXCEPT ![a] = "posted"]
        /\ actions' = actions /\ queue' = Append(queue, o)
    BY <1>6 DEF PostAdd
  <2>2. o \in Ops /\ o.kind = "add" /\ o.act = a
    BY DEF AddOp, AddOps, Ops
  <2>. HIDE DEF o
  <2>3. AddsOnce' /\ Contents' = Contents \cup {o}
    BY <2>1, <2>2, AddsPushed, Pushed
  <2>4. \A p \in Contents' : p.kind = "add" => life'[p.act] = "posted"
    BY <2>1, <2>2, <2>3, AddType DEF LifeInv, TypeOK
  <2>5. \A i \in DOMAIN actions' : life'[actions'[i]] = "live"
    BY <2>1 DEF LifeInv, TypeOK
  <2>. QED  BY <2>1, <2>3, <2>4, <2>5 DEF LifeInv
<1>7. ASSUME NEW k \in RowKinds, NEW i \in DOMAIN view.rows,
             NEW v \in Values \cup {NoValue}, v \in Carried(k), PostRow(k, i, v)
      PROVE  LifeInv'
  <2>. DEFINE o == RowOp(k, i, v, view.rows[i], view.epoch)
  <2>1. o \in Ops /\ o.kind = k /\ k # "add"
    BY <1>7, RowOpType DEF RowOp, RowKinds, EditKinds
  <2>2. queue' = Append(queue, o) /\ UNCHANGED <<actions, life>>
    BY <1>7 DEF PostRow
  <2>. HIDE DEF o
  <2>3. AddsOnce' /\ Contents' = Contents \cup {o}
    BY <2>1, <2>2, AddsPushed, Pushed
  <2>. QED  BY <2>1, <2>2, <2>3, LifeKept
<1>8. CASE Handlers
  <2>1. UNCHANGED <<actions, life>> \/ (\E i \in DOMAIN actions : Erase(i)) \/ RunAdd
    BY <1>8 DEF Handlers, RunRemove, RunToggle, RunSinParam, RunPayload, RunAborted,
                RunPeriodic, RunSingle, Ignore
  <2>. QED  BY <1>1, <1>2, <1>3, <1>8, <2>1
<1>. QED
  BY <1>4, <1>5, <1>6, <1>7, <1>8 DEF Next, AsioThread, UiThread, Handlers

\* What a step leaves of a single action that was sent.
Spent(a) == timer[a] = "idle" /\ ~Completing(a) /\ life[a] = "freed"

LEMMA SentStep == TypeOK /\ OneWait /\ LifeInv /\ SentInv /\ [Next]_vars => SentInv'
<1>. SUFFICES ASSUME TypeOK, OneWait, LifeInv, SentInv, [Next]_vars,
                     NEW a \in Singles, ever_sent'[a]
              PROVE  Spent(a)'
  BY DEF SentInv, Spent
<1>a. a \in Actions
  BY KindsAssumption
<1>b. ever_sent[a] => Spent(a)
  BY DEF SentInv, Spent
<1>c. \A i \in DOMAIN actions : life[actions[i]] = "live"
  BY DEF LifeInv
\* A handler that leaves a alone.
<1>d. ASSUME Handlers, ever_sent'[a] = ever_sent[a], timer'[a] = timer[a],
             life'[a] = life[a]
      PROVE  Spent(a)'
  <2>1. Spent(a)
    BY <1>b, <1>d
  <2>2. ~Completing(a)'
    BY <1>a, <1>d, <2>1, HandlersContents, ContentsType
       DEF HandlerContents, Spent, Completing, WaitOp
  <2>. QED  BY <1>d, <2>1, <2>2 DEF Spent
<1>1. CASE Ignore /\ Handlers
  BY <1>1, <1>d DEF Ignore
<1>2. CASE RunAdd
  <2>1. Op \in Contents /\ Op.kind = "add" /\ Op.act \in Actions
    BY <1>2, KindType, ContentsType DEF RunAdd, Running
  <2>2. ever_sent' = ever_sent /\ life[Op.act] = "posted"
    BY <1>2, <2>1 DEF RunAdd, LifeInv
  <2>3. Op.act # a
    BY <1>b, <2>2 DEF Spent
  <2>4. timer'[a] = timer[a] /\ life'[a] = life[a]
    BY <1>2, <1>a, <2>1, <2>3 DEF RunAdd, Schedule, TypeOK
  <2>. QED  BY <1>2, <1>d, <2>2, <2>4 DEF Handlers
<1>3. CASE RunRemove /\ ~Ignore
  <2>. DEFINE b == actions[Op.idx]
  <2>1. /\ Op.idx \in DOMAIN actions /\ b \in Actions /\ life[b] = "live"
        /\ timer' = [timer EXCEPT ![b] = "idle"]
        /\ life' = [life EXCEPT ![b] = "freed"] /\ ever_sent' = ever_sent
    <3>1. /\ Op.idx \in DOMAIN actions /\ Cancel(b) /\ Erase(Op.idx)
          /\ ever_sent' = ever_sent
      BY <1>3 DEF RunRemove
    <3>2. b \in Actions /\ life[b] = "live"
      BY <1>c, <3>1 DEF TypeOK
    <3>. QED  BY <3>1, <3>2 DEF Cancel, Erase
  <2>. HIDE DEF b
  <2>2. b # a
    BY <1>b, <2>1 DEF Spent
  <2>. QED  BY <1>3, <1>a, <1>d, <2>1, <2>2 DEF Handlers, TypeOK
<1>4. CASE RunToggle /\ ~Ignore
  <2>1. PICK b \in Actions, i \in DOMAIN actions :
          /\ actions[i] = b
          /\ Resume(b) \/ Pause(b)
          /\ UNCHANGED <<life, ever_sent>>
    BY <1>4, ToggleCases
  <2>2. life[b] = "live" /\ b # a
    BY <1>b, <1>c, <2>1 DEF Spent
  <2>3. timer'[a] = timer[a]
    BY <1>a, <2>1, <2>2 DEF Resume, Pause, Schedule, Cancel, TypeOK
  <2>. QED  BY <1>4, <1>d, <2>1, <2>3 DEF Handlers
<1>5. CASE (RunSinParam \/ RunPayload \/ RunAborted) /\ ~Ignore
  BY <1>5, <1>d DEF RunSinParam, RunPayload, RunAborted, Handlers
<1>6. CASE RunPeriodic
  <2>1. Op.act \in Actions /\ Op.act # a
    BY <1>6, KindType DEF RunPeriodic
  <2>. QED
    BY <1>6, <1>a, <1>d, <2>1 DEF RunPeriodic, Fire, Schedule, TypeOK, Handlers
<1>7. CASE RunSingle /\ Op.act # a
  <2>1. Op.act \in Actions
    BY <1>7, KindType DEF RunSingle
  <2>2. ever_sent'[a] = ever_sent[a] /\ timer'[a] = timer[a]
    BY <1>7, <1>a, <2>1 DEF RunSingle, Fire, Cancel, TypeOK
  <2>3. life'[a] = life[a]
    BY <1>7, <1>a, <2>1 DEF RunSingle, Erase, TypeOK
  <2>. QED  BY <1>7, <1>d, <2>2, <2>3 DEF Handlers
<1>8. CASE RunSingle /\ Op.act = a
  <2>1. queue # <<>> /\ Op = WaitOp(a, TRUE)
    <3>1. queue # <<>> /\ Op.kind = "wait" /\ Op.ok /\ Op \in Ops
      BY <1>8, KindType, OpType DEF RunSingle, Running
    <3>2. Op \in WaitOps
      BY <3>1 DEF Ops, Task, AddOps, RowOps, RowKinds, EditKinds
    <3>. QED  BY <1>8, <3>1, <3>2 DEF WaitOps, WaitOp
  <2>2. WaitOp(a, TRUE) \notin Behind
    BY <1>a, <2>1, CompletionAlone
  <2>3. ~Completing(a)'
    <3>1. HandlerContents
      BY <1>8, HandlersContents DEF Handlers
    <3>. QED  BY <2>2, <3>1 DEF HandlerContents, Completing, WaitOp
  <2>4. timer'[a] = "idle"
    BY <1>8, <1>a DEF RunSingle, Cancel, TypeOK
  <2>5. life'[a] = "freed"
    BY <1>8, <1>a DEF RunSingle, Erase, TypeOK
  <2>. QED  BY <2>3, <2>4, <2>5 DEF Spent
<1>9. CASE RunTask
  <2>1. ever_sent[a] /\ life' = life /\ Spent(a)
    BY <1>9, <1>b DEF RunTask
  <2>2. a \notin Due /\ timer'[a] = "idle"
    BY <1>9, <1>a, <2>1 DEF RunTask, Due, Spent
  <2>3. ~Completing(a)'
    <3>1. WaitOp(a, TRUE) # Task /\ \A b \in Actions : WaitOp(a, TRUE) = WaitOp(b, TRUE) => a = b
      BY DEF WaitOp, Task
    <3>2. WaitOp(a, TRUE) \notin Behind
      BY <2>1, ContentsType DEF Spent, Completing
    <3>3. Due \subseteq Actions
      BY DEF Due
    <3>. QED  BY <1>9, <2>2, <3>1, <3>2, <3>3, TurnContents DEF Completing
  <2>. QED  BY <2>1, <2>2, <2>3 DEF Spent
<1>10. CASE RunDestroyed \/ RunThrows \/ Look \/ UNCHANGED vars
  <2>1. UNCHANGED <<queue, timer, life, ever_sent>>
    BY <1>10 DEF RunDestroyed, RunThrows, Look, asioVars, vars
  <2>. QED  BY <1>b, <2>1 DEF Spent, Completing, Contents
<1>11. ASSUME NEW b \in Actions, Elapse(b)
       PROVE  Spent(a)'
  <2>1. UNCHANGED <<queue, life, ever_sent>> /\ Spent(a)
    BY <1>11, <1>b DEF Elapse
  <2>2. timer'[a] = timer[a]
    BY <1>11, <1>a, <2>1 DEF Elapse, Spent, TypeOK
  <2>. QED  BY <2>1, <2>2 DEF Spent, Completing, Contents
<1>12. ASSUME NEW b \in Actions, PostAdd(b)
       PROVE  Spent(a)'
  <2>1. Spent(a) /\ UNCHANGED <<timer, ever_sent>>
    BY <1>12, <1>b DEF PostAdd
  <2>2. b # a /\ life'[a] = life[a]
    BY <1>12, <1>a, <2>1 DEF PostAdd, Spent, TypeOK
  <2>3. AddOp(b, FALSE) \in Ops /\ AddOp(b, FALSE) # WaitOp(a, TRUE)
    BY DEF AddOp, AddOps, Ops, WaitOp
  <2>4. Contents' = Contents \cup {AddOp(b, FALSE)}
    BY <1>12, <2>3, Pushed DEF PostAdd
  <2>. QED  BY <2>1, <2>2, <2>3, <2>4 DEF Spent, Completing
<1>13. ASSUME NEW k \in RowKinds, NEW i \in DOMAIN view.rows,
              NEW v \in Values \cup {NoValue}, v \in Carried(k), PostRow(k, i, v)
       PROVE  Spent(a)'
  <2>. DEFINE o == RowOp(k, i, v, view.rows[i], view.epoch)
  <2>1. o \in Ops /\ o.kind = k /\ k # "wait" /\ WaitOp(a, TRUE).kind = "wait"
    BY <1>13, RowOpType DEF RowOp, RowKinds, EditKinds, WaitOp
  <2>2. queue' = Append(queue, o) /\ UNCHANGED <<timer, life, ever_sent>>
    BY <1>13 DEF PostRow
  <2>. HIDE DEF o
  <2>3. Contents' = Contents \cup {o}
    BY <2>1, <2>2, Pushed
  <2>. QED  BY <1>b, <2>1, <2>2, <2>3 DEF Spent, Completing
<1>14. CASE Handlers
  BY <1>1, <1>2, <1>3, <1>4, <1>5, <1>6, <1>7, <1>8, <1>14 DEF Handlers
<1>. QED
  BY <1>9, <1>10, <1>11, <1>12, <1>13, <1>14 DEF Next, AsioThread, UiThread, Handlers

LEMMA LifeInit == Init => LifeInv /\ SentInv
<1>. SUFFICES ASSUME Init
              PROVE  LifeInv /\ SentInv
  OBVIOUS
<1>1. ASSUME NEW i \in DOMAIN queue, queue[i].kind = "add"
      PROVE  i - 1 \in DOMAIN Presets /\ queue[i].act = Presets[i - 1]
  <2>1. i # 1
    BY <1>1, InitContents DEF Task
  <2>. QED  BY <2>1, InitContents DEF AddOp
<1>2. AddsOnce
  <2>. SUFFICES ASSUME NEW i \in DOMAIN queue, NEW j \in DOMAIN queue,
                       queue[i].kind = "add", queue[j].kind = "add",
                       queue[i].act = queue[j].act
                PROVE  i = j
    BY DEF AddsOnce
  <2>1. i - 1 = j - 1
    BY <1>1, PresetsAssumption
  <2>. QED  BY <2>1, InitContents
<1>3. \A o \in Contents : o.kind = "add" => life[o.act] = "posted"
  <2>1. \A a \in PresetSet : life[a] = "posted"
    BY PresetsType DEF Init
  <2>. QED  BY <2>1, InitContents DEF Task, AddOp
<1>4. DOMAIN actions = {} /\ \A a \in Singles : ~ever_sent[a]
  BY KindsAssumption, EmptySeq DEF Init
<1>. QED  BY <1>2, <1>3, <1>4 DEF LifeInv, SentInv

\* A SingleAction hands one frame to send_fn_: its only completion is gone when
\* on_done_ has erased it (src/src/action/Action.cpp:52), and nothing that is
\* still queued finds it in actions_ to schedule it again.
THEOREM SingleOnceCorrect == Spec => SingleOnce
<1>1. ASSUME TypeOK, SentInv, [Next]_vars, NEW a \in Singles, ever_sent[a]
      PROVE  last_sent'[a] = last_sent[a]
  <2>1. a \in Actions /\ ~Completing(a)
    BY <1>1, KindsAssumption DEF SentInv
  <2>2. CASE RunSingle
    <3>1. Op.kind = "wait" /\ Op.ok /\ Op \in Contents /\ Op \in Ops /\ Op.act \in Actions
      BY <1>1, <2>2, KindType, OpType, ContentsType DEF RunSingle, Running
    <3>2. Op \in WaitOps
      BY <3>1 DEF Ops, Task, AddOps, RowOps, RowKinds, EditKinds
    <3>3. Op = WaitOp(Op.act, TRUE)
      BY <3>1, <3>2 DEF WaitOps, WaitOp
    <3>4. Op.act # a
      BY <2>1, <3>1, <3>3 DEF Completing
    <3>. QED  BY <1>1, <2>1, <2>2, <3>1, <3>4 DEF RunSingle, Fire, TypeOK
  <2>3. CASE RunPeriodic
    <3>1. Op.act \in Actions /\ Op.act # a
      BY <1>1, <2>3, KindType DEF RunPeriodic
    <3>. QED  BY <1>1, <2>1, <2>3, <3>1 DEF RunPeriodic, Fire, TypeOK
  <2>4. CASE last_sent' = last_sent
    BY <2>4
  <2>. QED
    BY <1>1, <2>2, <2>3, <2>4
       DEF Next, AsioThread, UiThread, RunAdd, RunRemove, RunToggle, RunSinParam,
           RunPayload, RunAborted, RunDestroyed, RunThrows, RunTask, Ignore, Elapse, Look,
           PostAdd, PostRow, asioVars, vars
<1>2. TypeOK /\ SentInv /\ [Next]_vars =>
        [\A a \in Singles : ever_sent[a] => last_sent'[a] = last_sent[a]]_vars
  BY <1>1
<1>. QED
  BY <1>2, LifeInit, TypeCorrect, OneWaitCorrect, LifeStep, SentStep, PTL
     DEF Spec, SingleOnce

-----------------------------------------------------------------------------
(* The handler implements Senders.  What a step does to one action is told *)
(* first, and that it leaves the senders of all others as they are.        *)

ModesRight ==
  \A a \in Actions :
    Mode(a) = IF timer[a] = "due" \/ Completing(a) THEN "due"
              ELSE IF timer[a] = "pending" THEN "waiting" ELSE "silent"

LEMMA ModeCases == TypeOK => ModesRight
BY FiredContents DEF Mode, ModesRight

\* The sender of a is as it was.
Same(a) == Mode(a)' = Mode(a) /\ (a \in On' <=> a \in On)

LEMMA SameStutter ==
  ASSUME \A a \in Actions : Same(a)
  PROVE  Modes' = Modes /\ On' = On
<1>1. Modes' = Modes
  BY DEF Modes, Same
<1>2. On \subseteq Actions /\ On' \subseteq Actions
  BY DEF On
<1>. QED  BY <1>1, <1>2 DEF Same

\* One sender moves.
LEMMA OneMoves ==
  ASSUME NEW a \in Actions, \A b \in Actions \ {a} : Same(b)
  PROVE  /\ Modes' = [Modes EXCEPT ![a] = Mode(a)']
         /\ a \in On' => On' = On \cup {a}
         /\ a \notin On' => On' = On \ {a}
         /\ (a \in On' <=> a \in On) => On' = On
         /\ Modes[a] = Mode(a)
         /\ Mode(a)' = Mode(a) => Modes' = Modes
<1>1. On \subseteq Actions /\ On' \subseteq Actions
  BY DEF On
<1>2. \A b \in Actions \ {a} : Mode(b)' = Mode(b) /\ (b \in On' <=> b \in On)
  BY DEF Same
<1>3. Modes' = [Modes EXCEPT ![a] = Mode(a)']
  BY <1>2 DEF Modes
<1>4. Modes[a] = Mode(a)
  BY DEF Modes
<1>5. Mode(a)' = Mode(a) => Modes' = Modes
  BY <1>2 DEF Modes
<1>. QED  BY <1>1, <1>2, <1>3, <1>4, <1>5

\* A handler that runs no completion of a leaves those that are queued.
LEMMA CompletionsKept ==
  ASSUME TypeOK, Handlers, NEW a \in Actions, Op # WaitOp(a, TRUE)
  PROVE  Completing(a)' <=> Completing(a)
<1>1. HandlerContents
  BY HandlersContents
<1>2. \A b \in Actions : WaitOp(a, TRUE) # WaitOp(b, FALSE)
  BY DEF WaitOp
<1>. QED  BY <1>1, <1>2, ContentsType DEF HandlerContents, Completing

LEMMA SameHandled ==
  ASSUME TypeOK, ModesRight, ModesRight', Handlers, NEW a \in Actions,
         Op # WaitOp(a, TRUE), timer'[a] = timer[a], a \in On' <=> a \in On
  PROVE  Same(a)
<1>1. Completing(a)' <=> Completing(a)
  BY CompletionsKept
<1>. QED  BY <1>1 DEF Same, ModesRight

\* The completion that runs, and none of it is left.
LEMMA CompletionRuns ==
  ASSUME TypeOK, OneWait, RunPeriodic \/ RunSingle, NEW a, a = Op.act
  PROVE  /\ a \in Actions /\ Op = WaitOp(a, TRUE)
         /\ Completing(a) /\ ~Completing(a)'
<1>1. /\ queue # <<>> /\ Op.kind = "wait" /\ Op.ok /\ Op \in Contents /\ Op \in Ops
      /\ a \in Actions
  BY KindType, OpType, ContentsType DEF RunPeriodic, RunSingle, Running
<1>2. Op \in WaitOps
  BY <1>1 DEF Ops, Task, AddOps, RowOps, RowKinds, EditKinds
<1>3. Op = WaitOp(a, TRUE)
  BY <1>1, <1>2 DEF WaitOps, WaitOp
<1>4. WaitOp(a, TRUE) \notin Behind
  BY <1>1, <1>3, CompletionAlone
<1>5. HandlerContents
  BY HandlersContents DEF Handlers
<1>6. \A b \in Actions : WaitOp(a, TRUE) # WaitOp(b, FALSE)
  BY DEF WaitOp
<1>7. ~Completing(a)'
  BY <1>4, <1>5, <1>6 DEF HandlerContents, Completing
<1>. QED  BY <1>1, <1>3, <1>7 DEF Completing

SenderNext == [Sender!Next]_(Sender!vars)

LEMMA SenderStutters ==
  ASSUME \A a \in Actions : Same(a), UNCHANGED <<ever_sent, last_sent>>
  PROVE  SenderNext
BY SameStutter DEF SenderNext, Sender!vars

LEMMA SenderStep ==
  ASSUME TypeOK, TypeOK', ModesRight, ModesRight', OneWait, LifeInv, SentInv, [Next]_vars
  PROVE  SenderNext
<1>a. \A i \in DOMAIN actions : actions[i] \in Actions /\ life[actions[i]] = "live"
  BY DEF LifeInv, TypeOK
<1>b. ASSUME NEW a \in Actions, Running("wait"), Op.act # a
      PROVE  Op # WaitOp(a, TRUE)
  BY <1>b DEF WaitOp
<1>c. \A a, k : Running(k) /\ k # "wait" => Op # WaitOp(a, TRUE)
  BY DEF Running, WaitOp
<1>d. \A a \in Actions : a \in On <=> life[a] = "live" /\ ~paused[a]
  BY DEF On
<1>e. \A a \in Actions : a \in On' <=> life'[a] = "live" /\ ~paused'[a]
  BY DEF On
\* A handler that moves no action.
<1>f. ASSUME Handlers, \A a \in Actions : Op # WaitOp(a, TRUE),
             UNCHANGED <<timer, paused, life, ever_sent, last_sent>>
      PROVE  SenderNext
  <2>1. \A a \in Actions : Same(a)
    BY <1>d, <1>e, <1>f, SameHandled
  <2>. QED  BY <1>f, <2>1, SenderStutters
\* A handler that starts b, or begins its count anew.
<1>g. ASSUME NEW b \in Actions, Handlers, \A a \in Actions : Op # WaitOp(a, TRUE),
             \A a \in Actions \ {b} :
               timer'[a] = timer[a] /\ paused'[a] = paused[a] /\ life'[a] = life[a],
             timer'[b] = "pending", life'[b] = "live", ~paused'[b],
             life[b] # "freed", UNCHANGED <<ever_sent, last_sent>>
      PROVE  SenderNext
  <2>1. \A a \in Actions \ {b} : Same(a)
    BY <1>d, <1>e, <1>g, SameHandled
  <2>2. Completing(b)' <=> Completing(b)
    BY <1>g, CompletionsKept
  <2>3. Mode(b)' = "waiting" \/ (Mode(b) = "due" /\ Mode(b)' = Mode(b))
    BY <1>g, <2>2 DEF ModesRight
  <2>4. b \in Singles => ~ever_sent[b]
    BY <1>g DEF SentInv
  <2>5. b \in On'
    BY <1>e, <1>g
  <2>6. Sender!Start(b)
    BY <1>g, <2>1, <2>3, <2>4, <2>5, OneMoves DEF Sender!Start
  <2>. QED  BY <2>6 DEF SenderNext, Sender!Next
\* One that stops b.
<1>h. ASSUME NEW b \in Actions, Handlers, \A a \in Actions : Op # WaitOp(a, TRUE),
             \A a \in Actions \ {b} :
               timer'[a] = timer[a] /\ paused'[a] = paused[a] /\ life'[a] = life[a],
             timer'[b] = "idle", life'[b] = "freed" \/ paused'[b],
             UNCHANGED <<ever_sent, last_sent>>
      PROVE  SenderNext
  <2>1. \A a \in Actions \ {b} : Same(a)
    BY <1>d, <1>e, <1>h, SameHandled
  <2>2. Completing(b)' <=> Completing(b)
    BY <1>h, CompletionsKept
  <2>3. Mode(b)' = "silent" \/ (Mode(b) = "due" /\ Mode(b)' = Mode(b))
    BY <1>h, <2>2 DEF ModesRight
  <2>4. b \notin On'
    BY <1>e, <1>h
  <2>5. Sender!Stop(b)
    BY <1>h, <2>1, <2>3, <2>4, OneMoves DEF Sender!Stop
  <2>. QED  BY <2>5 DEF SenderNext, Sender!Next
<1>1. CASE Ignore /\ Handlers /\ \A a \in Actions : Op # WaitOp(a, TRUE)
  BY <1>1, <1>f DEF Ignore
<1>2. CASE RunAdd
  <2>1. /\ Op \in Contents /\ Op.kind = "add" /\ Op.act \in Actions
        /\ Op.paused \in BOOLEAN
    BY <1>2, KindType, ContentsType, AddType DEF RunAdd, Running, AddOps
  <2>2. PICK b \in Actions : b = Op.act
    BY <2>1
  <2>3. /\ life[b] = "posted" /\ Handlers
        /\ UNCHANGED <<ever_sent, last_sent>>
        /\ \A a \in Actions : Op # WaitOp(a, TRUE)
    BY <1>2, <1>c, <2>1, <2>2 DEF RunAdd, LifeInv, Handlers
  <2>4. /\ life'[b] = "live" /\ paused'[b] = Op.paused
        /\ \A a \in Actions \ {b} : paused'[a] = paused[a] /\ life'[a] = life[a]
    BY <1>2, <2>2 DEF RunAdd, TypeOK
  <2>5. CASE Op.paused
    <3>1. timer' = timer
      BY <1>2, <2>5 DEF RunAdd
    <3>2. \A a \in Actions : a \in On' <=> a \in On
      BY <1>d, <1>e, <2>3, <2>4, <2>5
    <3>3. \A a \in Actions : Same(a)
      BY <2>3, <3>1, <3>2, SameHandled
    <3>. QED  BY <2>3, <3>3, SenderStutters
  <2>6. CASE ~Op.paused
    <3>1. timer' = [timer EXCEPT ![b] = "pending"]
      BY <1>2, <2>2, <2>6 DEF RunAdd, Schedule
    <3>2. timer'[b] = "pending" /\ \A a \in Actions \ {b} : timer'[a] = timer[a]
      BY <3>1 DEF TypeOK
    <3>. QED  BY <1>g, <2>3, <2>4, <2>6, <3>2
  <2>. QED  BY <2>5, <2>6
<1>3. CASE RunRemove /\ ~Ignore
  <2>1. PICK b \in Actions :
           /\ timer' = [timer EXCEPT ![b] = "idle"]
           /\ life' = [life EXCEPT ![b] = "freed"]
    BY <1>3, <1>a DEF RunRemove, Cancel, Erase
  <2>2. /\ Handlers /\ UNCHANGED <<paused, ever_sent, last_sent>>
        /\ \A a \in Actions : Op # WaitOp(a, TRUE)
    BY <1>3, <1>c DEF RunRemove, Handlers
  <2>3. /\ timer'[b] = "idle" /\ life'[b] = "freed"
        /\ \A a \in Actions \ {b} :
             timer'[a] = timer[a] /\ paused'[a] = paused[a] /\ life'[a] = life[a]
    BY <2>1, <2>2 DEF TypeOK
  <2>. QED  BY <1>h, <2>2, <2>3
<1>4. CASE RunToggle /\ ~Ignore
  <2>1. PICK b \in Actions, i \in DOMAIN actions :
           /\ actions[i] = b
           /\ Resume(b) \/ Pause(b)
           /\ UNCHANGED <<life, ever_sent, last_sent>>
    BY <1>4, ToggleCases
  <2>2. life[b] = "live" /\ Handlers /\ \A a \in Actions : Op # WaitOp(a, TRUE)
    BY <1>4, <1>a, <1>c, <2>1 DEF RunToggle, Handlers
  <2>3. CASE Resume(b)
    <3>1. /\ timer'[b] = "pending" /\ ~paused'[b]
          /\ \A a \in Actions \ {b} : timer'[a] = timer[a] /\ paused'[a] = paused[a]
      BY <2>3 DEF Resume, Schedule, TypeOK
    <3>. QED  BY <1>g, <2>1, <2>2, <3>1
  <2>4. CASE Pause(b)
    <3>1. /\ timer'[b] = "idle" /\ paused'[b]
          /\ \A a \in Actions \ {b} : timer'[a] = timer[a] /\ paused'[a] = paused[a]
      BY <2>4 DEF Pause, Cancel, TypeOK
    <3>. QED  BY <1>h, <2>1, <2>2, <3>1
  <2>. QED  BY <2>1, <2>3, <2>4
<1>5. CASE (RunSinParam \/ RunPayload) /\ ~Ignore
  <2>1. UNCHANGED <<timer, paused, life, ever_sent, last_sent>>
    BY <1>5 DEF RunSinParam, RunPayload
  <2>. QED  BY <1>5, <1>c, <1>f, <2>1 DEF Handlers, RunSinParam, RunPayload
<1>6. CASE RunAborted
  BY <1>1, <1>6 DEF RunAborted, Handlers, WaitOp
<1>7. CASE RunPeriodic
  <2>1. PICK b : b = Op.act
    OBVIOUS
  <2>2. b \in Actions /\ Completing(b) /\ ~Completing(b)' /\ Handlers
    BY <1>7, <2>1, CompletionRuns DEF Handlers
  <2>3. /\ Running("wait") /\ b \notin Singles
        /\ ever_sent' = [ever_sent EXCEPT ![b] = TRUE]
        /\ last_sent' = [last_sent EXCEPT ![b] = (@ + 1) % Ticks]
        /\ timer' = [timer EXCEPT ![b] = "pending"]
        /\ paused' = paused /\ life' = life
    BY <1>7, <2>1 DEF RunPeriodic, Fire, Schedule
  <2>4. timer'[b] = "pending" /\ \A a \in Actions \ {b} : timer'[a] = timer[a]
    BY <2>2, <2>3 DEF TypeOK
  <2>5. \A a \in Actions : a \in On' <=> a \in On
    BY <1>d, <1>e, <2>3
  <2>6. \A a \in Actions \ {b} : Same(a)
    BY <1>b, <2>1, <2>2, <2>3, <2>4, <2>5, SameHandled
  <2>7. Mode(b) = "due" /\ Mode(b)' = "waiting"
    BY <2>2, <2>4 DEF ModesRight
  <2>8. Sender!Send(b)
    BY <2>2, <2>3, <2>5, <2>6, <2>7, OneMoves DEF Sender!Send
  <2>. QED  BY <2>2, <2>8 DEF SenderNext, Sender!Next
<1>8. CASE RunSingle
  <2>1. PICK b : b = Op.act
    OBVIOUS
  <2>2. b \in Actions /\ Completing(b) /\ ~Completing(b)' /\ Handlers
    BY <1>8, <2>1, CompletionRuns DEF Handlers
  <2>3. /\ Running("wait") /\ b \in Singles
        /\ ever_sent' = [ever_sent EXCEPT ![b] = TRUE]
        /\ last_sent' = [last_sent EXCEPT ![b] = (@ + 1) % Ticks]
        /\ timer' = [timer EXCEPT ![b] = "idle"]
        /\ paused' = paused
    BY <1>8, <2>1 DEF RunSingle, Fire, Cancel
  <2>4. life'[b] = "freed" /\ \A a \in Actions \ {b} : life'[a] = life[a]
    BY <1>8, <2>1, <2>2 DEF RunSingle, Erase, TypeOK
  <2>5. timer'[b] = "idle" /\ \A a \in Actions \ {b} : timer'[a] = timer[a]
    BY <2>2, <2>3 DEF TypeOK
  <2>6. b \notin On' /\ \A a \in Actions \ {b} : a \in On' <=> a \in On
    BY <1>d, <1>e, <2>2, <2>3, <2>4
  <2>7. \A a \in Actions \ {b} : Same(a)
    BY <1>b, <2>1, <2>2, <2>3, <2>5, <2>6, SameHandled
  <2>8. Mode(b) = "due" /\ Mode(b)' = "silent"
    BY <2>2, <2>5 DEF ModesRight
  <2>9. Sender!Send(b)
    BY <2>2, <2>3, <2>6, <2>7, <2>8, OneMoves DEF Sender!Send
  <2>. QED  BY <2>2, <2>9 DEF SenderNext, Sender!Next
\* Nothing but the queue of the reactor, or nothing at all.
<1>i. ASSUME UNCHANGED <<paused, ever_sent, last_sent>>,
             \A a \in Actions : life'[a] = "live" <=> life[a] = "live",
             \A a \in Actions : Mode(a)' = Mode(a)
      PROVE  SenderNext
  <2>1. \A a \in Actions : Same(a)
    BY <1>d, <1>e, <1>i DEF Same
  <2>. QED  BY <1>i, <2>1, SenderStutters
<1>9. CASE RunTask
  <2>1. ASSUME NEW a \in Actions
        PROVE  Mode(a)' = Mode(a)
    <3>1. /\ timer' = [c \in Actions |-> IF c \in Due THEN "idle" ELSE timer[c]]
          /\ queue # <<>> /\ Op # WaitOp(a, TRUE)
      BY <1>9, <1>c, KindType DEF RunTask, Running
    <3>2. CASE a \in Due
      <4>1. Completing(a)'
        BY <1>9, <3>2, TurnContents DEF Completing
      <4>. QED  BY <3>2, <4>1 DEF Due, ModesRight
    <3>3. CASE a \notin Due
      <4>1. WaitOp(a, TRUE) # Task /\ \A b \in Due : WaitOp(a, TRUE) # WaitOp(b, TRUE)
        BY <3>3 DEF WaitOp, Task
      <4>2. Completing(a)' <=> Completing(a)
        BY <1>9, <3>1, <4>1, TurnContents, ContentsType DEF Completing
      <4>3. timer'[a] = timer[a]
        BY <3>1, <3>3
      <4>. QED  BY <4>2, <4>3 DEF ModesRight
    <3>. QED  BY <3>2, <3>3
  <2>. QED  BY <1>9, <1>i, <2>1 DEF RunTask
<1>10. CASE RunDestroyed \/ RunThrows \/ Look \/ UNCHANGED vars
  <2>1. UNCHANGED <<queue, timer, paused, life, ever_sent, last_sent>>
    BY <1>10 DEF RunDestroyed, RunThrows, Look, asioVars, vars
  <2>2. \A a \in Actions : Mode(a)' = Mode(a)
    BY <2>1 DEF ModesRight, Completing, Contents
  <2>. QED  BY <1>i, <2>1, <2>2
<1>11. ASSUME NEW b \in Actions, Elapse(b)
       PROVE  SenderNext
  <2>1. /\ UNCHANGED <<queue, paused, life, ever_sent, last_sent>>
        /\ timer[b] = "pending" /\ timer'[b] = "due"
        /\ \A a \in Actions \ {b} : timer'[a] = timer[a]
    BY <1>11 DEF Elapse, TypeOK
  <2>2. \A a \in Actions : Completing(a)' <=> Completing(a)
    BY <2>1 DEF Completing, Contents
  <2>3. \A a \in Actions : a \in On' <=> a \in On
    BY <1>d, <1>e, <2>1
  <2>4. \A a \in Actions \ {b} : Same(a)
    BY <2>1, <2>2, <2>3 DEF Same, ModesRight
  <2>5. CASE Completing(b)
    <3>1. Mode(b)' = Mode(b)
      BY <2>1, <2>2, <2>5 DEF ModesRight
    <3>2. \A a \in Actions : Same(a)
      BY <2>3, <2>4, <3>1 DEF Same
    <3>. QED  BY <2>1, <3>2, SenderStutters
  <2>6. CASE ~Completing(b)
    <3>1. Mode(b) = "waiting" /\ Mode(b)' = "due"
      BY <2>1, <2>2, <2>6 DEF ModesRight
    <3>2. Sender!End(b)
      BY <2>1, <2>3, <2>4, <3>1, OneMoves DEF Sender!End
    <3>. QED  BY <3>2 DEF SenderNext, Sender!Next
  <2>. QED  BY <2>5, <2>6
\* An operation is posted.
<1>j. ASSUME NEW o \in Ops, o.kind # "wait", queue' = Append(queue, o),
             UNCHANGED <<timer, paused, ever_sent, last_sent>>,
             \A a \in Actions : life'[a] = "live" <=> life[a] = "live"
      PROVE  SenderNext
  <2>1. Contents' = Contents \cup {o}
    BY <1>j, Pushed
  <2>2. \A a : WaitOp(a, TRUE) # o
    BY <1>j DEF WaitOp
  <2>3. \A a \in Actions : Completing(a)' <=> Completing(a)
    BY <2>1, <2>2 DEF Completing
  <2>4. \A a \in Actions : Mode(a)' = Mode(a)
    BY <1>j, <2>3 DEF ModesRight
  <2>. QED  BY <1>i, <1>j, <2>4
<1>12. ASSUME NEW b \in Actions, PostAdd(b)
       PROVE  SenderNext
  <2>1. /\ queue' = Append(queue, AddOp(b, FALSE))
        /\ UNCHANGED <<timer, paused, ever_sent, last_sent>>
        /\ \A a \in Actions : life'[a] = "live" <=> life[a] = "live"
    BY <1>12 DEF PostAdd, TypeOK
  <2>2. AddOp(b, FALSE) \in Ops /\ AddOp(b, FALSE).kind # "wait"
    BY DEF AddOp, AddOps, Ops
  <2>. QED  BY <1>j, <2>1, <2>2
<1>13. ASSUME NEW k \in RowKinds, NEW i \in DOMAIN view.rows,
              NEW v \in Values \cup {NoValue}, v \in Carried(k), PostRow(k, i, v)
       PROVE  SenderNext
  <2>. DEFINE o == RowOp(k, i, v, view.rows[i], view.epoch)
  <2>1. o \in Ops /\ o.kind # "wait"
    BY <1>13, RowOpType DEF RowOp, RowKinds, EditKinds
  <2>2. queue' = Append(queue, o)
        /\ UNCHANGED <<timer, paused, life, ever_sent, last_sent>>
    BY <1>13 DEF PostRow
  <2>. HIDE DEF o
  <2>. QED  BY <1>j, <2>1, <2>2
<1>14. CASE Handlers
  <2>1. (RunRemove \/ RunToggle \/ RunSinParam \/ RunPayload) =>
          \A a \in Actions : Op # WaitOp(a, TRUE)
    BY <1>c DEF RunRemove, RunToggle, RunSinParam, RunPayload
  <2>. QED
    BY <1>1, <1>2, <1>3, <1>4, <1>5, <1>6, <1>7, <1>8, <1>14, <2>1 DEF Handlers
<1>. QED
  BY <1>9, <1>10, <1>11, <1>12, <1>13, <1>14 DEF Next, AsioThread, UiThread, Handlers

\* What the users of src/src/action/ActionHandler.hpp rely on: an action sends
\* once for each of its waits that runs out and never between, one that is shown
\* as running has such a wait, and a single action is not started again once it
\* was sent.
THEOREM SenderCorrect == Spec => SenderSpec
<1>1. Init => Sender!Init
  <2>. SUFFICES ASSUME Init
                PROVE  Sender!Init
    OBVIOUS
  <2>1. TypeOK /\ ModesRight
    BY TypeInit, ModeCases
  <2>2. \A a \in Actions : ~Completing(a)
    BY InitContents DEF Completing, Task, AddOp, WaitOp
  <2>3. \A a \in Actions : Mode(a) = "silent" /\ life[a] # "live"
    BY <2>1, <2>2 DEF Init, ModesRight
  <2>. QED  BY <2>3 DEF Init, Sender!Init, Modes, On
<1>2. TypeOK => ModesRight
  BY ModeCases
<1>3. TypeOK /\ TypeOK' /\ ModesRight /\ ModesRight' /\ OneWait /\ LifeInv /\ SentInv
        /\ [Next]_vars => [Sender!Next]_(Sender!vars)
  BY SenderStep DEF SenderNext
<1>. QED
  BY <1>1, <1>2, <1>3, LifeInit, TypeCorrect, OneWaitCorrect, LifeStep, SentStep, PTL
     DEF Spec, SenderSpec, Sender!Spec
=============================================================================
