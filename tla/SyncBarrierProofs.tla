--------------------------- MODULE SyncBarrierProofs --------------------------
(***************************************************************************)
(* First the task table on its own (SyncTask).  For any number of tasks,   *)
(* workspaces and names, and for any snapshots, stale ones included, it    *)
(* stays well formed, keeps one live task per project and direction, never *)
(* takes a verdict back, and can always answer for the task of a name that *)
(* ended last.                                                             *)
(*                                                                         *)
(* Then the daemon around it.  The requests and session hooks of           *)
(* SyncBarrier drive the table only through its own operations, each with  *)
(* a well-formed snapshot: what is proved of the table holds in the        *)
(* daemon, for any number of pollers, sessions, binds and tasks.           *)
(***************************************************************************)
EXTENDS SyncBarrier, TLAPS

-----------------------------------------------------------------------------
(* The task table.                                                         *)

(* What a tick makes of a live task: the same task in some state.          *)
LEMMA AdvancedKeeps ==
    ASSUME TaskTypeOK, NEW t \in TaskIds, NEW s, Live(t)
    PROVE  /\ Advanced(t, s) \in Task
           /\ Advanced(t, s).ws = tasks[t].ws
           /\ Advanced(t, s).name = tasks[t].name
           /\ Advanced(t, s).dir = tasks[t].dir
<1>1. tasks[t] \in Task
  BY DEF TaskTypeOK, Live, Known
<1>2. Judged(t, s) \in Active \cup Terminal
  BY DEF Judged, Active, Terminal
<1>3. CASE Starts(t, s)
  <2>1. Advanced(t, s) = [tasks[t] EXCEPT !.state = "running"]
    BY <1>3 DEF Advanced
  <2> QED
    BY <1>1, <2>1 DEF Task, Active
<1>4. CASE ~Starts(t, s)
  <2> DEFINE v == IF tasks[t].state = "running" THEN Judged(t, s) ELSE tasks[t].state
  <2>1. Advanced(t, s) = [tasks[t] EXCEPT !.state = v]
    BY <1>4 DEF Advanced
  <2>2. v \in Active \cup Terminal
    BY <1>1, <1>2 DEF Task
  <2> QED
    BY <1>1, <2>1, <2>2 DEF Task
<1> QED
  BY <1>3, <1>4

(* A tick touches live tasks, and drops ended ones.                        *)
LEMMA TickEffect ==
    ASSUME TaskTypeOK, NEW s, Tick(s), NEW t \in TaskIds
    PROVE  /\ Live(t) => tasks'[t] = Advanced(t, s)
           /\ ~Live(t) => tasks'[t] \in {tasks[t], Evicted}
BY DEF Tick

(* Every step keeps the types.                                             *)
LEMMA TypeStep == TaskTypeOK /\ [TaskNext]_taskVars => TaskTypeOK'
<1> SUFFICES ASSUME TaskTypeOK, [TaskNext]_taskVars PROVE TaskTypeOK'
  OBVIOUS
<1>1. ASSUME NEW t \in TaskIds, NEW w \in Workspaces, NEW n \in Names, NEW d \in Directions,
             Create(t, w, n, d)
      PROVE TaskTypeOK'
  <2>1. [ws |-> w, name |-> n, dir |-> d, state |-> "pending"] \in Task
    BY DEF Task, Active
  <2> QED
    BY <1>1, <2>1 DEF Create, CreateNew, Reuse, taskVars, TaskTypeOK
<1>2. ASSUME NEW t \in TaskIds, Cancel(t) PROVE TaskTypeOK'
  <2>1. Live(t) => [tasks[t] EXCEPT !.state = "cancelled"] \in Task
    BY DEF TaskTypeOK, Live, Known, Task, Terminal
  <2>2. tasks' \in [TaskIds -> Task \cup {None, Evicted}]
    BY <1>2, <2>1 DEF Cancel, TaskTypeOK, taskVars
  <2>3. remembered' \in [Names -> TaskIds \cup {None}]
    BY <1>2 DEF Cancel, TaskTypeOK, taskVars
  <2> QED
    BY <2>2, <2>3 DEF TaskTypeOK
<1>3. ASSUME NEW s \in Snapshot, Tick(s) PROVE TaskTypeOK'
  <2>1. \A t \in TaskIds : tasks'[t] \in Task \cup {None, Evicted}
    BY <1>3, TickEffect, AdvancedKeeps DEF TaskTypeOK
  <2>2. tasks' \in [TaskIds -> Task \cup {None, Evicted}]
    BY <1>3, <2>1 DEF Tick
  <2>3. remembered' \in [Names -> {None} \cup TaskIds]
    BY <1>3 DEF Tick, Remember
  <2> QED
    BY <2>2, <2>3 DEF TaskTypeOK
<1>4. CASE UNCHANGED taskVars
  BY <1>4 DEF taskVars, TaskTypeOK
<1> QED
  BY <1>1, <1>2, <1>3, <1>4 DEF TaskNext

(* The table and what it remembers have their types.                       *)
THEOREM TypeCorrect == TaskSpec => []TaskTypeOK
<1>1. TaskInit => TaskTypeOK
  BY DEF TaskInit, TaskTypeOK
<1> QED
  BY <1>1, TypeStep, PTL DEF TaskSpec

-----------------------------------------------------------------------------
(* No step but a create makes a task live, and none changes what it syncs. *)
LEMMA LiveStep ==
    ASSUME TaskTypeOK, [TaskNext]_taskVars, NEW t \in TaskIds, Live(t)'
    PROVE  \/ /\ Live(t)
              /\ tasks'[t].ws = tasks[t].ws /\ tasks'[t].name = tasks[t].name
              /\ tasks'[t].dir = tasks[t].dir
           \/ \E w \in Workspaces, n \in Names, d \in Directions : CreateNew(t, w, n, d)
<1> DEFINE Kept == /\ Live(t)
                   /\ tasks'[t].ws = tasks[t].ws /\ tasks'[t].name = tasks[t].name
                   /\ tasks'[t].dir = tasks[t].dir
<1>1. CASE UNCHANGED taskVars
  BY <1>1 DEF taskVars, Live, Known
<1>2. ASSUME NEW u \in TaskIds, NEW w \in Workspaces, NEW n \in Names, NEW d \in Directions,
             Create(u, w, n, d)
      PROVE Kept \/ CreateNew(t, w, n, d)
  <2>1. CASE u = t
    BY <1>2, <2>1 DEF Create, Reuse, taskVars, Live, Known
  <2>2. CASE u # t
    BY <1>2, <2>2 DEF Create, CreateNew, Reuse, taskVars, Live, Known, TaskTypeOK
  <2> QED
    BY <2>1, <2>2
<1>3. ASSUME NEW u \in TaskIds, Cancel(u) PROVE Kept
  <2>1. CASE Live(u) /\ u = t
    <3>1. tasks[t] \in Task
      BY <2>1 DEF TaskTypeOK, Live, Known
    <3>2. tasks'[t] = [tasks[t] EXCEPT !.state = "cancelled"]
      BY <1>3, <2>1 DEF Cancel, TaskTypeOK
    <3>3. tasks'[t].state = "cancelled"
      BY <3>1, <3>2 DEF Task
    <3> QED
      BY <3>3 DEF Live, Active
  <2>2. CASE ~(Live(u) /\ u = t)
    BY <1>3, <2>2 DEF Cancel, TaskTypeOK, taskVars, Live, Known
  <2> QED
    BY <2>1, <2>2
<1>4. ASSUME NEW s \in Snapshot, Tick(s) PROVE Kept
  <2>1. CASE Live(t)
    BY <1>4, <2>1, TickEffect, AdvancedKeeps
  <2>2. CASE ~Live(t)
    BY <1>4, <2>2, TickEffect DEF Live, Known
  <2> QED
    BY <2>1, <2>2
<1> QED
  BY <1>1, <1>2, <1>3, <1>4 DEF TaskNext

(* The overlap of directions does not depend on their order.               *)
LEMMA OverlapSymmetric == \A a, b : Overlap(a, b) <=> Overlap(b, a)
BY DEF Overlap

(* A step keeps one live task per project and direction.                   *)
LEMMA OneTaskStep ==
    TaskTypeOK /\ OneTaskPerProject /\ [TaskNext]_taskVars => OneTaskPerProject'
<1> SUFFICES ASSUME TaskTypeOK, OneTaskPerProject, [TaskNext]_taskVars,
                    NEW t \in TaskIds, NEW u \in TaskIds, Live(t)', Live(u)', t # u
             PROVE  \/ tasks'[t].ws # tasks'[u].ws \/ tasks'[t].name # tasks'[u].name
                    \/ ~Overlap(tasks'[t].dir, tasks'[u].dir)
  BY DEF OneTaskPerProject, Overlap
<1>1. ASSUME NEW v \in TaskIds, NEW x \in TaskIds, v # x, Live(x)',
             NEW w \in Workspaces, NEW n \in Names, NEW d \in Directions, CreateNew(v, w, n, d)
      PROVE  \/ tasks'[v].ws # tasks'[x].ws \/ tasks'[v].name # tasks'[x].name
             \/ ~Overlap(tasks'[x].dir, tasks'[v].dir)
  <2>1. tasks'[v] = [ws |-> w, name |-> n, dir |-> d, state |-> "pending"]
    BY <1>1 DEF CreateNew, TaskTypeOK
  <2>2. tasks'[x] = tasks[x] /\ Live(x)
    BY <1>1 DEF CreateNew, TaskTypeOK, Live, Known
  <2>3. ~Same(x, w, n, d)
    BY <1>1 DEF CreateNew
  <2> QED
    BY <2>1, <2>2, <2>3 DEF Same
<1>2. CASE \E w \in Workspaces, n \in Names, d \in Directions : CreateNew(t, w, n, d)
  BY <1>1, <1>2, OverlapSymmetric
<1>3. CASE \E w \in Workspaces, n \in Names, d \in Directions : CreateNew(u, w, n, d)
  BY <1>1, <1>3, OverlapSymmetric
<1>4. CASE /\ Live(t) /\ tasks'[t].ws = tasks[t].ws /\ tasks'[t].name = tasks[t].name
           /\ tasks'[t].dir = tasks[t].dir
           /\ Live(u) /\ tasks'[u].ws = tasks[u].ws /\ tasks'[u].name = tasks[u].name
           /\ tasks'[u].dir = tasks[u].dir
  BY <1>4 DEF OneTaskPerProject, Overlap
<1> QED
  BY <1>2, <1>3, <1>4, LiveStep

(* However many requests race, a project has one live task per direction.  *)
THEOREM OneTask == TaskSpec => []OneTaskPerProject
<1>1. TaskInit => OneTaskPerProject
  BY DEF TaskInit, OneTaskPerProject, Live, Known
<1> QED
  BY <1>1, OneTaskStep, TypeCorrect, PTL DEF TaskSpec

-----------------------------------------------------------------------------
(* A step leaves an ended task alone, or drops it.                         *)
LEMMA EndedStep ==
    ASSUME TaskTypeOK, [TaskNext]_taskVars, NEW t \in TaskIds, Ended(t)
    PROVE  tasks'[t] \in {tasks[t], Evicted}
<1>1. ~Live(t) /\ Known(t)
  BY DEF Ended, Live, Active, Terminal
<1>2. ASSUME NEW u \in TaskIds, NEW w \in Workspaces, NEW n \in Names, NEW d \in Directions,
             Create(u, w, n, d)
      PROVE tasks'[t] = tasks[t]
  BY <1>1, <1>2 DEF Create, CreateNew, Reuse, taskVars, TaskTypeOK, Known
<1>3. ASSUME NEW u \in TaskIds, Cancel(u) PROVE tasks'[t] = tasks[t]
  BY <1>1, <1>3 DEF Cancel, taskVars, TaskTypeOK
<1>4. ASSUME NEW s \in Snapshot, Tick(s) PROVE tasks'[t] \in {tasks[t], Evicted}
  BY <1>1, <1>4, TickEffect
<1>5. CASE UNCHANGED taskVars
  BY <1>5 DEF taskVars
<1> QED
  BY <1>2, <1>3, <1>4, <1>5 DEF TaskNext

(* A verdict, a cancel among them, is never undone by a late tick.         *)
THEOREM VerdictFinal == TaskSpec => VerdictIsFinal
<1>1. TaskTypeOK /\ [TaskNext]_taskVars =>
          [\A t \in TaskIds : Ended(t) => tasks'[t] \in {tasks[t], Evicted}]_taskVars
  BY EndedStep
<1> QED
  BY <1>1, TypeCorrect, PTL DEF TaskSpec, VerdictIsFinal

-----------------------------------------------------------------------------
(* What a name remembers is not live, and was given out.                   *)
Answers ==
    /\ CurrentAnswers
    /\ \A n \in Names : remembered[n] # None => tasks[remembered[n]] # None

(* A step that remembers nothing new keeps the answers.                    *)
LEMMA AnswersCreate ==
    ASSUME TaskTypeOK, Answers, NEW t \in TaskIds, NEW w \in Workspaces, NEW n \in Names,
           NEW d \in Directions, CreateNew(t, w, n, d)
    PROVE  Answers'
<1>1. /\ tasks'[t] = [ws |-> w, name |-> n, dir |-> d, state |-> "pending"]
      /\ \A u \in TaskIds : u # t => tasks'[u] = tasks[u]
      /\ remembered' = remembered /\ tasks[t] = None
  BY DEF CreateNew, TaskTypeOK
<1>2. ~Ended(t)'
  BY <1>1 DEF Ended, Terminal
<1>3. \A u \in TaskIds : Ended(u)' => Ended(u) /\ tasks'[u].name = tasks[u].name
  BY <1>1, <1>2 DEF Ended, Known
<1>4. ASSUME NEW m \in Names, remembered'[m] # None
      PROVE  /\ ~(Live(remembered[m]))' /\ tasks'[remembered'[m]] # None
  <2>1. remembered[m] \in TaskIds /\ remembered[m] # t
    BY <1>1, <1>4 DEF TaskTypeOK, Answers
  <2>2. tasks'[remembered[m]] = tasks[remembered[m]] /\ ~Live(remembered[m])
    BY <1>1, <1>4, <2>1 DEF Answers, CurrentAnswers
  <2> QED
    BY <1>1, <1>4, <2>1, <2>2 DEF Live, Known, Answers
<1> QED
  BY <1>1, <1>3, <1>4 DEF Answers, CurrentAnswers, Live, Known

(* A cancel is remembered under the task's name.                           *)
LEMMA AnswersCancel ==
    ASSUME TaskTypeOK, Answers, NEW t \in TaskIds, Cancel(t)
    PROVE  Answers'
<1>1. CASE ~Live(t)
  BY <1>1 DEF Cancel, taskVars, Answers, CurrentAnswers, Live, Ended, Known
<1>2. CASE Live(t)
  <2>1. tasks[t] \in Task /\ tasks[t].name \in Names
    BY <1>2 DEF TaskTypeOK, Live, Known, Task
  <2>2. /\ tasks'[t] = [tasks[t] EXCEPT !.state = "cancelled"]
        /\ \A u \in TaskIds : u # t => tasks'[u] = tasks[u]
        /\ remembered' = [remembered EXCEPT ![tasks[t].name] = t]
    BY <1>2 DEF Cancel, TaskTypeOK
  <2>3. tasks'[t].state = "cancelled" /\ tasks'[t].name = tasks[t].name
    BY <2>1, <2>2 DEF Task
  <2>4. ~(Live(t)')
    BY <2>3 DEF Live, Active
  <2>5. tasks'[t] # None
    BY <2>1, <2>2, MarkersAreNoTasks DEF Task, Terminal
  <2>6. ASSUME NEW m \in Names, remembered'[m] # None
        PROVE  ~(Live(remembered[m])') /\ tasks'[remembered'[m]] # None
    <3>1. CASE remembered'[m] = t
      BY <2>4, <2>5, <3>1 DEF Live, Known
    <3>2. CASE remembered'[m] # t
      <4>1. remembered'[m] = remembered[m] /\ remembered[m] \in TaskIds
        BY <2>1, <2>2, <2>6, <3>2 DEF TaskTypeOK
      <4> QED
        BY <2>2, <2>6, <3>2, <4>1 DEF Answers, CurrentAnswers, Live, Known
    <3> QED
      BY <3>1, <3>2
  <2>7. ASSUME NEW u \in TaskIds, Ended(u)' PROVE remembered'[tasks'[u].name] # None
    <3>1. CASE u = t
      BY <2>1, <2>2, <2>3, <3>1, SyncTaskAssumption DEF TaskTypeOK
    <3>2. CASE u # t
      <4>1. tasks'[u] = tasks[u] /\ Ended(u)
        BY <2>2, <2>7, <3>2 DEF Ended, Known
      <4>2. tasks[u].name \in Names
        BY <4>1 DEF TaskTypeOK, Ended, Known, Task
      <4> QED
        BY <2>1, <2>2, <4>1, <4>2, SyncTaskAssumption DEF Answers, CurrentAnswers, TaskTypeOK
    <3> QED
      BY <3>1, <3>2
  <2> QED
    BY <2>6, <2>7 DEF Answers, CurrentAnswers
<1> QED
  BY <1>1, <1>2

(* A tick remembers one of the tasks it ends, for each name it ends any.   *)
LEMMA AnswersTick ==
    ASSUME TaskTypeOK, TaskTypeOK', Answers, NEW s, Tick(s)
    PROVE  Answers'
<1> DEFINE ends == {t \in TaskIds : Live(t) /\ Advanced(t, s).state \in Terminal}
           ended(n) == {t \in ends : tasks[t].name = n}
<1>1. \A n \in Names : IF ended(n) = {} THEN remembered'[n] = remembered[n]
                       ELSE remembered'[n] \in ended(n)
  BY DEF Tick, Remember
<1>2. ASSUME NEW n \in Names, remembered'[n] # None
      PROVE  ~(Live(remembered[n])') /\ tasks'[remembered'[n]] # None
  <2> DEFINE r == remembered'[n]
  <2>1. r \in TaskIds
    BY <1>2 DEF TaskTypeOK
  <2>2. CASE r \in ends
    <3>1. tasks'[r] = Advanced(r, s) /\ tasks'[r].state \in Terminal
      BY <2>2, TickEffect
    <3>2. tasks'[r] \in Task
      BY <2>2, <3>1, AdvancedKeeps
    <3> QED
      BY <3>1, <3>2, MarkersAreNoTasks DEF Live, Known, Active, Terminal
  <2>3. CASE r \notin ends
    <3>1. r = remembered[n] /\ ~Live(r) /\ tasks[r] # None
      BY <1>1, <1>2, <2>3 DEF Answers, CurrentAnswers
    <3>2. tasks'[r] \in {tasks[r], Evicted}
      BY <2>1, <3>1, TickEffect
    <3> QED
      BY <3>1, <3>2, SyncTaskAssumption DEF Live, Known
  <2> QED
    BY <2>2, <2>3
<1>3. ASSUME NEW t \in TaskIds, Ended(t)' PROVE remembered'[tasks'[t].name] # None
  <2>1. CASE Live(t)
    <3>1. tasks'[t] = Advanced(t, s)
      BY <2>1, TickEffect
    <3>2. t \in ends /\ tasks'[t].name = tasks[t].name
      BY <1>3, <2>1, <3>1, AdvancedKeeps DEF Ended
    <3>3. tasks[t].name \in Names
      BY <2>1 DEF TaskTypeOK, Live, Known, Task
    <3> QED
      BY <1>1, <3>2, <3>3, SyncTaskAssumption
  <2>2. CASE ~Live(t)
    <3>1. tasks'[t] = tasks[t] /\ Ended(t)
      BY <1>3, <2>2, TickEffect DEF Ended, Known
    <3>2. tasks[t].name \in Names
      BY <3>1 DEF TaskTypeOK, Ended, Known, Task
    <3> QED
      BY <1>1, <3>1, <3>2, SyncTaskAssumption DEF Answers, CurrentAnswers
  <2> QED
    BY <2>1, <2>2
<1> QED
  BY <1>2, <1>3 DEF Answers, CurrentAnswers

(* Every step keeps the answers.                                           *)
LEMMA AnswersStep == TaskTypeOK /\ Answers /\ [TaskNext]_taskVars => Answers'
<1> SUFFICES ASSUME TaskTypeOK, Answers, [TaskNext]_taskVars PROVE Answers'
  OBVIOUS
<1>1. CASE UNCHANGED taskVars
  BY <1>1 DEF taskVars, Answers, CurrentAnswers, Live, Ended, Known
<1>2. ASSUME NEW t \in TaskIds, NEW w \in Workspaces, NEW n \in Names, NEW d \in Directions,
             Create(t, w, n, d)
      PROVE Answers'
  BY <1>1, <1>2, AnswersCreate DEF Create, Reuse
<1>3. ASSUME NEW t \in TaskIds, Cancel(t) PROVE Answers'
  BY <1>3, AnswersCancel
<1>4. ASSUME NEW s \in Snapshot, Tick(s) PROVE Answers'
  BY <1>4, AnswersTick, TypeStep
<1> QED
  BY <1>1, <1>2, <1>3, <1>4 DEF TaskNext

(* What a desktop asks after a restart has an answer, dropped tasks'       *)
(* names included.                                                         *)
THEOREM AlwaysAnswers == TaskSpec => []CurrentAnswers
<1>1. TaskInit => Answers
  BY DEF TaskInit, Answers, CurrentAnswers, Ended, Known
<1>2. Answers => CurrentAnswers
  BY DEF Answers
<1> QED
  BY <1>1, <1>2, AnswersStep, TypeCorrect, PTL DEF TaskSpec

-----------------------------------------------------------------------------
(* The daemon.                                                             *)

(* What a poll judges by is a snapshot, however old its copy is.           *)
LEMMA SnapshotTyped ==
    ASSUME BarrierTypeOK, NEW p \in Pollers, poll[p] # None,
           NEW x \in Rows(p), NEW y \in Rows(p), NEW z \in Rows(p), NEW q \in Quiets(p),
           NEW m \in Elapsed(p), NEW e \in {{}, TaskIds}
    PROVE  Copied(p, x, y, z, q, m, e) \in Snapshot
<1>1. poll[p] \in Poll
  BY DEF BarrierTypeOK
<1>2. /\ x \in BOOLEAN /\ y \in BOOLEAN /\ z \in BOOLEAN /\ q \in BOOLEAN
      /\ m \in SUBSET TaskIds /\ e \in SUBSET TaskIds
  BY DEF Rows, Quiets, Elapsed
<1> QED
  BY <1>1, <1>2 DEF Snapshot, Poll, Copied

(* Every step of the daemon is a step of the task table, or none.          *)
LEMMA TableStep == BarrierTypeOK /\ [BarrierNext]_barrierVars => [TaskNext]_taskVars
<1> SUFFICES ASSUME BarrierTypeOK, [BarrierNext]_barrierVars PROVE [TaskNext]_taskVars
  OBVIOUS
<1>1. ASSUME NEW b \in Binds, Bind(b) PROVE UNCHANGED taskVars
  BY <1>1 DEF Bind
<1>2. ASSUME NEW i \in Sessions, Connect(i) \/ Return(i) \/ Hooks(i) \/ Traffic(i)
      PROVE UNCHANGED taskVars
  BY <1>2 DEF Connect, Return, Hooks, Handshake, MarkManifestExchanged, RecordPeerManifest,
              Traffic, Enqueue, Send, Receive, SessionFrame
<1>3. ASSUME NEW p \in Pollers, TakeSnapshot(p) PROVE UNCHANGED taskVars
  BY <1>3 DEF TakeSnapshot
<1>4. ASSUME NEW p \in Pollers, TickTasks(p) PROVE TaskNext
  <2>1. PICK x \in Rows(p), y \in Rows(p), z \in Rows(p), q \in Quiets(p), m \in Elapsed(p),
             e \in {{}, TaskIds} : ApplySnapshot(p, Copied(p, x, y, z, q, m, e))
    BY <1>4 DEF TickTasks
  <2>2. Copied(p, x, y, z, q, m, e) \in Snapshot
    BY <1>4, SnapshotTyped DEF TickTasks
  <2> QED
    BY <2>1, <2>2 DEF ApplySnapshot, TaskNext
<1>5. ASSUME NEW d \in Directions, CreateRead(d) PROVE UNCHANGED taskVars
  BY <1>5 DEF CreateRead
<1>6. ASSUME NEW t \in TaskIds, CreateTask(t) PROVE TaskNext
  <2>1. creator \in Creation /\ Create(t, creator.ws, creator.name, creator.dir)
    BY <1>6 DEF CreateTask, BarrierTypeOK
  <2> QED
    BY <2>1 DEF Creation, TaskNext
<1>7. ASSUME NEW t \in TaskIds, CancelTask(t) PROVE TaskNext
  BY <1>7 DEF CancelTask, TaskNext
<1>8. CASE UNCHANGED barrierVars
  BY <1>8 DEF barrierVars
<1> QED
  BY <1>1, <1>2, <1>3, <1>4, <1>5, <1>6, <1>7, <1>8 DEF BarrierNext

-----------------------------------------------------------------------------
(* The types of what the daemon keeps besides the table.                   *)
SessionsOK == /\ session \in [Sessions -> Session \cup {None}]
              /\ activeSession \in Sessions \cup {None}
              /\ activeSession = None \/ (Up(activeSession) /\ ~session[activeSession].cancelled)
StatusOK == /\ bind \in Binds \cup {None}
            /\ connected \in BOOLEAN /\ manifestSeen \in BOOLEAN /\ peerFiles \in Nat
RequestsOK == /\ since \subseteq TaskIds /\ inbound \subseteq TaskIds
              /\ poll \in [Pollers -> Poll \cup {None}] /\ creator \in Creation \cup {None}

LEMMA TypeParts == BarrierTypeOK <=> TaskTypeOK /\ SessionsOK /\ StatusOK /\ RequestsOK
BY DEF BarrierTypeOK, SessionsOK, StatusOK, RequestsOK

(* A session changes in one field at a time, and only while it exists.     *)
LEMMA SessionsStep ==
    BarrierTypeOK /\ [BarrierNext]_barrierVars => SessionsOK'
<1> SUFFICES ASSUME BarrierTypeOK, [BarrierNext]_barrierVars PROVE SessionsOK'
  OBVIOUS
<1> USE BarrierAssumption
<1>0. SessionsOK
  BY TypeParts
<1>1. ASSUME NEW b \in Binds, Bind(b) PROVE SessionsOK'
  <2>1. CASE bind \notin {None, b}
    <3>1. \A i \in Sessions : Up(i) =>
              [session[i] EXCEPT !.cancelled = TRUE] \in Session
      BY <1>0 DEF SessionsOK, Up, Session
    <3> QED
      BY <1>0, <1>1, <2>1, <3>1 DEF Bind, SessionsOK
  <2>2. CASE ~(bind \notin {None, b})
    BY <1>0, <1>1, <2>2 DEF Bind, SessionsOK, Up
  <2> QED
    BY <2>1, <2>2
<1>2. ASSUME NEW i \in Sessions, Connect(i) PROVE SessionsOK'
  <2> DEFINE new == [bind |-> bind, cancelled |-> FALSE, up |-> TRUE,
                     queue |-> FALSE, recv |-> "nothing"]
  <2>1. new \in Session /\ bind \in Binds
    BY <1>2 DEF Connect, Session, BarrierTypeOK
  <2>2. session' = [session EXCEPT ![i] = new] /\ activeSession' = i
    BY <1>2 DEF Connect
  <2>3. new # None
    BY <2>1, NoneIsNoSession
  <2> QED
    BY <1>0, <2>1, <2>2, <2>3 DEF SessionsOK, Up
<1>3. ASSUME NEW i \in Sessions, Return(i) PROVE SessionsOK'
  <2> DEFINE old == [Over(session[i].bind) EXCEPT
                        !.recv = IF session[i].recv = "noted" THEN "noted" ELSE @]
  <2>1. old \in Session
    BY <1>0, <1>3 DEF Return, SessionsOK, Up, Session, Over
  <2>2. session' = [session EXCEPT ![i] = old]
        /\ activeSession' = IF activeSession = i THEN None ELSE activeSession
    BY <1>3 DEF Return
  <2> QED
    BY <1>0, <2>1, <2>2 DEF SessionsOK, Up
<1>4. ASSUME NEW i \in Sessions, session[i] # None, activeSession' = activeSession,
             NEW m \in {"nothing", "hello", "noted", "manifest"},
             session' = [session EXCEPT ![i].recv = m]
      PROVE SessionsOK'
  <2>1. session[i] \in Session
    BY <1>0, <1>4 DEF SessionsOK
  <2>2. /\ [session[i] EXCEPT !.recv = m] \in Session
        /\ [session[i] EXCEPT !.recv = m].up = session[i].up
        /\ [session[i] EXCEPT !.recv = m].cancelled = session[i].cancelled
    BY <2>1 DEF Session
  <2> QED
    BY <1>0, <1>4, <2>1, <2>2, NoneIsNoSession DEF SessionsOK, Up
<1>5. ASSUME NEW i \in Sessions, session[i] # None, activeSession' = activeSession,
             NEW v \in BOOLEAN, session' = [session EXCEPT ![i].queue = v]
      PROVE SessionsOK'
  <2>1. session[i] \in Session
    BY <1>0, <1>5 DEF SessionsOK
  <2>2. /\ [session[i] EXCEPT !.queue = v] \in Session
        /\ [session[i] EXCEPT !.queue = v].up = session[i].up
        /\ [session[i] EXCEPT !.queue = v].cancelled = session[i].cancelled
    BY <2>1 DEF Session
  <2> QED
    BY <1>0, <1>5, <2>1, <2>2, NoneIsNoSession DEF SessionsOK, Up
<1>6. ASSUME NEW i \in Sessions, Hooks(i) PROVE SessionsOK'
  BY <1>4, <1>6 DEF Hooks, Handshake, MarkManifestExchanged, RecordPeerManifest, Handled, Up
<1>7. ASSUME NEW i \in Sessions, Enqueue(i) \/ Send(i) PROVE SessionsOK'
  BY <1>5, <1>7 DEF Enqueue, Send, Up
<1>8. CASE UNCHANGED <<session, activeSession>>
  BY <1>0, <1>8 DEF SessionsOK, Up
<1>9. ASSUME NEW i \in Sessions, Receive(i) PROVE SessionsOK'
  BY <1>8, <1>9 DEF Receive
<1>10. ASSUME NEW p \in Pollers, TakeSnapshot(p) \/ TickTasks(p) PROVE SessionsOK'
  BY <1>8, <1>10 DEF TakeSnapshot, TickTasks, ApplySnapshot, PollFrame
<1>11. ASSUME NEW d \in Directions, CreateRead(d) PROVE SessionsOK'
  BY <1>8, <1>11 DEF CreateRead
<1>12. ASSUME NEW t \in TaskIds, CreateTask(t) \/ CancelTask(t) PROVE SessionsOK'
  BY <1>8, <1>12 DEF CreateTask, CancelTask
<1>13. CASE UNCHANGED barrierVars
  BY <1>8, <1>13 DEF barrierVars
<1> QED
  BY <1>1, <1>2, <1>3, <1>6, <1>7, <1>9, <1>10, <1>11, <1>12, <1>13 DEF BarrierNext, Traffic

(* What the hooks write to the status has its type.                        *)
LEMMA StatusStep == BarrierTypeOK /\ [BarrierNext]_barrierVars => StatusOK'
<1> SUFFICES ASSUME BarrierTypeOK, [BarrierNext]_barrierVars PROVE StatusOK'
  OBVIOUS
<1>0. StatusOK
  BY TypeParts
<1>1. ASSUME NEW b \in Binds, Bind(b) PROVE StatusOK'
  BY <1>0, <1>1 DEF Bind, StatusOK
<1>2. ASSUME NEW i \in Sessions, RecordPeerManifest(i) PROVE StatusOK'
  <2>1. session[i].bind.name \in Names
    BY <1>2, BarrierAssumption DEF RecordPeerManifest, BarrierTypeOK, Session
  <2>2. PeerFiles[session[i].bind.name] \in Nat
    BY <2>1, BarrierAssumption
  <2> QED
    BY <1>0, <1>2, <2>2 DEF RecordPeerManifest, SessionFrame, StatusOK
<1>3. ASSUME NEW i \in Sessions,
             Connect(i) \/ Return(i) \/ Handshake(i) \/ MarkManifestExchanged(i) \/ Traffic(i)
      PROVE StatusOK'
  BY <1>0, <1>3 DEF Connect, Return, Handshake, MarkManifestExchanged, Traffic, Enqueue, Send,
                    Receive, SessionFrame, statusVars, StatusOK
<1>4. CASE UNCHANGED <<bind, statusVars>>
  BY <1>0, <1>4 DEF StatusOK, statusVars
<1>5. ASSUME NEW p \in Pollers, TakeSnapshot(p) \/ TickTasks(p) PROVE StatusOK'
  BY <1>4, <1>5 DEF TakeSnapshot, TickTasks, ApplySnapshot, PollFrame
<1>6. ASSUME NEW d \in Directions, CreateRead(d) PROVE StatusOK'
  BY <1>4, <1>6 DEF CreateRead
<1>7. ASSUME NEW t \in TaskIds, CreateTask(t) \/ CancelTask(t) PROVE StatusOK'
  BY <1>4, <1>7 DEF CreateTask, CancelTask
<1>8. CASE UNCHANGED barrierVars
  BY <1>4, <1>8 DEF barrierVars
<1> QED
  BY <1>1, <1>2, <1>3, <1>5, <1>6, <1>7, <1>8 DEF BarrierNext, Hooks

(* Requests under way keep the shape they were begun with.                 *)
LEMMA RequestsStep == BarrierTypeOK /\ [BarrierNext]_barrierVars => RequestsOK'
<1> SUFFICES ASSUME BarrierTypeOK, [BarrierNext]_barrierVars PROVE RequestsOK'
  OBVIOUS
<1>0. RequestsOK
  BY TypeParts
<1>1. MarkActive => since' \subseteq TaskIds /\ poll' \in [Pollers -> Poll \cup {None}]
  <2> SUFFICES ASSUME MarkActive
               PROVE since' \subseteq TaskIds /\ poll' \in [Pollers -> Poll \cup {None}]
    OBVIOUS
  <2>1. ASSUME NEW p \in Pollers, poll[p] # None
        PROVE [poll[p] EXCEPT !.later = TRUE] \in Poll
    <3>1. poll[p] \in Poll
      BY <1>0, <2>1 DEF RequestsOK
    <3> QED
      BY <3>1 DEF Poll
  <2> QED
    BY <1>0, <2>1 DEF MarkActive, RequestsOK
<1>2. ASSUME NEW i \in Sessions, Send(i) PROVE RequestsOK'
  BY <1>0, <1>1, <1>2 DEF Send, RequestsOK
<1>3. ASSUME NEW i \in Sessions, Receive(i) PROVE RequestsOK'
  BY <1>0, <1>1, <1>3 DEF Receive, RequestsOK
<1>4. ASSUME NEW p \in Pollers, TakeSnapshot(p) PROVE RequestsOK'
  <2> DEFINE copy == [ws |-> IF bind = None THEN None ELSE bind.ws, connected |-> connected,
                      known |-> manifestSeen, files |-> peerFiles, since |-> since, later |-> FALSE]
  <2>1. copy \in Poll
    <3>1. (IF bind = None THEN None ELSE bind.ws) \in Workspaces \cup {None}
      BY BarrierAssumption DEF BarrierTypeOK
    <3> QED
      BY <3>1 DEF BarrierTypeOK, Poll
  <2>2. poll' = [poll EXCEPT ![p] = copy]
    BY <1>4 DEF TakeSnapshot
  <2>3. poll' \in [Pollers -> Poll \cup {None}]
    BY <1>0, <2>1, <2>2 DEF RequestsOK
  <2> QED
    BY <1>0, <1>4, <2>3 DEF TakeSnapshot, PollFrame, RequestsOK
<1>5. ASSUME NEW p \in Pollers, TickTasks(p) PROVE RequestsOK'
  BY <1>0, <1>5 DEF TickTasks, ApplySnapshot, PollFrame, RequestsOK
<1>6. ASSUME NEW d \in Directions, CreateRead(d) PROVE RequestsOK'
  <2>1. [ws |-> bind.ws, name |-> bind.name, dir |-> d] \in Creation
    BY <1>6, BarrierAssumption DEF CreateRead, BarrierTypeOK, Creation
  <2> QED
    BY <1>0, <1>6, <2>1 DEF CreateRead, RequestsOK
<1>7. ASSUME NEW t \in TaskIds, CreateTask(t) \/ CancelTask(t) PROVE RequestsOK'
  BY <1>0, <1>7 DEF CreateTask, CancelTask, RequestsOK
<1>8. ASSUME NEW b \in Binds, Bind(b) PROVE RequestsOK'
  BY <1>0, <1>8 DEF Bind, RequestsOK
<1>9. ASSUME NEW i \in Sessions, Connect(i) \/ Return(i) \/ Hooks(i) \/ Enqueue(i)
      PROVE RequestsOK'
  BY <1>0, <1>9 DEF Connect, Return, Hooks, Handshake, MarkManifestExchanged,
                    RecordPeerManifest, Enqueue, SessionFrame, RequestsOK
<1>10. CASE UNCHANGED barrierVars
  BY <1>0, <1>10 DEF barrierVars, RequestsOK
<1> QED
  BY <1>2, <1>3, <1>4, <1>5, <1>6, <1>7, <1>8, <1>9, <1>10 DEF BarrierNext, Traffic

-----------------------------------------------------------------------------
(* Every variable of the daemon keeps its type.                            *)
THEOREM BarrierTypeCorrect == BarrierSpec => []BarrierTypeOK
<1>1. BarrierInit => BarrierTypeOK
  <2> SUFFICES ASSUME BarrierInit PROVE BarrierTypeOK
    OBVIOUS
  <2>1. TaskTypeOK
    BY DEF BarrierInit, TaskInit, TaskTypeOK
  <2>2. SessionsOK
    BY DEF BarrierInit, SessionsOK
  <2>3. StatusOK
    BY DEF BarrierInit, StatusOK
  <2>4. RequestsOK
    BY DEF BarrierInit, RequestsOK
  <2> QED
    BY <2>1, <2>2, <2>3, <2>4, TypeParts
<1>2. BarrierTypeOK /\ [BarrierNext]_barrierVars => BarrierTypeOK'
  <2> SUFFICES ASSUME BarrierTypeOK, [BarrierNext]_barrierVars PROVE BarrierTypeOK'
    OBVIOUS
  <2>1. TaskTypeOK'
    BY TableStep, TypeStep, TypeParts
  <2>2. SessionsOK' /\ StatusOK' /\ RequestsOK'
    BY SessionsStep, StatusStep, RequestsStep
  <2> QED
    BY <2>1, <2>2 DEF BarrierTypeOK, SessionsOK, StatusOK, RequestsOK
<1> QED
  BY <1>1, <1>2, PTL DEF BarrierSpec

(* The daemon implements the task table.                                   *)
THEOREM ImplementsTable == BarrierSpec => TaskSpec
<1>1. BarrierInit => TaskInit
  BY DEF BarrierInit
<1> QED
  BY <1>1, TableStep, BarrierTypeCorrect, PTL DEF BarrierSpec, TaskSpec

(* So the daemon keeps one live task per project and direction,            *)
THEOREM DaemonOneTask == BarrierSpec => []OneTaskPerProject
BY ImplementsTable, OneTask, PTL

(* never takes a verdict back,                                             *)
THEOREM DaemonVerdictFinal == BarrierSpec => VerdictIsFinal
BY ImplementsTable, VerdictFinal, PTL

(* and answers for the task of a name that ended last.                     *)
THEOREM DaemonAnswers == BarrierSpec => []CurrentAnswers
BY ImplementsTable, AlwaysAnswers, PTL
=============================================================================
