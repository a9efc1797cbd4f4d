------------------------------- MODULE SyncTask -------------------------------
(***************************************************************************)
(* The sync-task manager of kari-syncd (internal/syncd/sync_task.go): the  *)
(* table of user-initiated syncs a desktop creates, polls and cancels.     *)
(* Every operation runs under SyncTaskManager.mu, so it is one step.  A    *)
(* tick judges all tasks by one snapshot, which may be stale by then.      *)
(*                                                                         *)
(* Wall-clock windows (quiet, settle, stall, retention) are conditions a   *)
(* tick finds elapsed or not.                                              *)
(***************************************************************************)
EXTENDS Naturals, FiniteSets

CONSTANTS
    TaskIds,     \* task ids, each given out once
    Workspaces,  \* workspace ids; several projects share one
    Names,       \* workspace names, one per project
    None,        \* an id not given out yet
    Evicted      \* an id whose terminal task has been dropped

ASSUME SyncTaskAssumption ==
    /\ None # Evicted
    /\ None \notin TaskIds /\ Evicted \notin TaskIds

VARIABLES
    tasks,       \* the table
    remembered   \* lastCurrentByName: the task of each name that ended last

taskVars == <<tasks, remembered>>

Directions == {"upload", "download", "both"}
Active == {"pending", "running"}
Terminal == {"succeeded", "failed", "cancelled"}
Task == [ws : Workspaces, name : Names, dir : Directions,
         state : Active \cup Terminal]

ASSUME MarkersAreNoTasks == None \notin Task /\ Evicted \notin Task

(* BarrierSnapshot, and the windows a tick finds elapsed.                  *)
Snapshot ==
    [ws : Workspaces \cup {None}, connected : BOOLEAN,
     known : BOOLEAN, files : Nat,         \* the peer manifest
     pending : Nat, transferring : BOOLEAN, failing : BOOLEAN,
     down : BOOLEAN,                       \* DownloadBytesDone > 0
     since : SUBSET TaskIds,               \* LastActivityAt after StartedAt
     quiet : BOOLEAN, settled : SUBSET TaskIds,
     stalled : SUBSET TaskIds, expired : SUBSET TaskIds]

Known(t) == tasks[t] \notin {None, Evicted}
Live(t)  == Known(t) /\ tasks[t].state \in Active
Ended(t) == Known(t) /\ tasks[t].state \in Terminal

TaskInit ==
    /\ tasks = [t \in TaskIds |-> None]
    /\ remembered = [n \in Names |-> None]

-----------------------------------------------------------------------------
(* Create: a live task of the same project and an overlapping direction is *)
(* returned instead of a new one.                                          *)
OverlapEqual(a, b) == a = b                                             \* faulty
Overlap(a, b) == a = b \/ "both" \in {a, b}

Same(t, w, n, d) == /\ Live(t)
                    /\ tasks[t].ws = w /\ tasks[t].name = n
                    /\ Overlap(tasks[t].dir, d)

CreateNew(t, w, n, d) ==
    /\ tasks[t] = None
    /\ \A u \in TaskIds : ~Same(u, w, n, d)
    /\ tasks' = [tasks EXCEPT ![t] = [ws |-> w, name |-> n, dir |-> d,
                                      state |-> "pending"]]
    /\ UNCHANGED remembered

Reuse(t, w, n, d) == Same(t, w, n, d) /\ UNCHANGED taskVars

Create(t, w, n, d) == CreateNew(t, w, n, d) \/ Reuse(t, w, n, d)

(* Cancel: no effect on a task that has ended.                             *)
CancelForgets(t) ==                                                     \* faulty
    /\ tasks' = IF Live(t) THEN [tasks EXCEPT ![t].state = "cancelled"] ELSE tasks
    /\ UNCHANGED remembered
Cancel(t) ==
    IF Live(t)
    THEN /\ tasks' = [tasks EXCEPT ![t].state = "cancelled"]
         /\ remembered' = [remembered EXCEPT ![tasks[t].name] = t]
    ELSE UNCHANGED taskVars

-----------------------------------------------------------------------------
(* The barrier: what snapshot s makes of a running task.                   *)

Bound(t, s) == tasks[t].ws = s.ws
Download(t) == tasks[t].dir = "download"

(* An empty peer has nothing to download.                                  *)
EmptyPeer(t, s) == Download(t) /\ s.known /\ s.files = 0 /\ ~s.transferring
(* A download whose bytes have stopped growing is handed over.             *)
Settled(t, s) == s.known /\ Download(t) /\ s.down /\ t \in s.since /\ t \in s.settled
(* Nothing is queued or under way,                                         *)
Drained(s) == s.known /\ s.pending = 0 /\ ~s.transferring
(* but a download still waits for a first file.                            *)
Waiting(t, s) == Download(t) /\ s.files > 0 /\ t \notin s.since

Succeeds(t, s) == \/ EmptyPeer(t, s)
                  \/ Settled(t, s)
                  \/ Drained(s) /\ ~Waiting(t, s) /\ s.quiet /\ ~s.failing

StallsNever(t, s) == FALSE                                              \* faulty
Stalls(t, s) == Waiting(t, s) /\ t \in s.stalled

Fails(t, s) == /\ ~Succeeds(t, s) /\ Drained(s)
               /\ Stalls(t, s) \/ (~Waiting(t, s) /\ s.quiet /\ s.failing)

(* advanceRunningLocked: a task whose workspace is no longer bound is      *)
(* cancelled; nothing is judged while the session is down.                 *)
Judged(t, s) ==
    IF ~Bound(t, s) THEN "cancelled"
    ELSE IF ~s.connected THEN "running"
    ELSE IF Succeeds(t, s) THEN "succeeded"
    ELSE IF Fails(t, s) THEN "failed" ELSE "running"

(* advancePendingLocked.                                                   *)
Starts(t, s) == /\ Live(t) /\ tasks[t].state = "pending"
                /\ s.connected /\ Bound(t, s)

Advanced(t, s) ==
    IF Starts(t, s) THEN [tasks[t] EXCEPT !.state = "running"]
    ELSE [tasks[t] EXCEPT !.state = IF @ = "running" THEN Judged(t, s) ELSE @]

(* evictExpiredLocked drops a task retained long enough since it ended.    *)
(* Of several tasks of a name that end at once, any is remembered: Tick    *)
(* ranges over a Go map.                                                   *)
Remember(ends) ==
    remembered' \in {f \in [Names -> {None} \cup TaskIds] :
        \A n \in Names :
            LET ended == {t \in ends : tasks[t].name = n}
            IN  IF ended = {} THEN f[n] = remembered[n] ELSE f[n] \in ended}

TickRejudging(s) ==                                                     \* faulty
    LET rejudged(t) == IF Starts(t, s) THEN Advanced(t, s)
                       ELSE [tasks[t] EXCEPT !.state = Judged(t, s)]
    IN  /\ tasks' = [t \in TaskIds |-> IF Known(t) THEN rejudged(t) ELSE tasks[t]]
        /\ UNCHANGED remembered
Tick(s) ==
    /\ tasks' = [t \in TaskIds |->
                    IF Live(t) THEN Advanced(t, s)
                    ELSE IF Ended(t) /\ t \in s.expired THEN Evicted ELSE tasks[t]]
    /\ Remember({t \in TaskIds : Live(t) /\ Advanced(t, s).state \in Terminal})

-----------------------------------------------------------------------------
TaskNext ==
    \/ \E t \in TaskIds, w \in Workspaces, n \in Names, d \in Directions : Create(t, w, n, d)
    \/ \E t \in TaskIds : Known(t) /\ Cancel(t)
    \/ \E s \in Snapshot : Tick(s)

TaskSpec == TaskInit /\ [][TaskNext]_taskVars

-----------------------------------------------------------------------------
(* Properties.                                                             *)

(* Every variable has its type.                                            *)
TaskTypeOK ==
    /\ tasks \in [TaskIds -> Task \cup {None, Evicted}]
    /\ remembered \in [Names -> TaskIds \cup {None}]

(* However creates, cancels and ticks interleave, a project never has two  *)
(* live tasks of overlapping directions: the desktop keeps one marker and  *)
(* one progress bar per project, which two tasks would corrupt.            *)
OneTaskPerProject ==
    \A t, u \in TaskIds :
        Live(t) /\ Live(u) /\ t # u =>
            \/ tasks[t].ws # tasks[u].ws \/ tasks[t].name # tasks[u].name
            \/ ~(tasks[t].dir = tasks[u].dir \/ "both" \in {tasks[t].dir, tasks[u].dir})

(* A task that has ended keeps its verdict until it is dropped: a tick     *)
(* that judges by a snapshot taken before a cancel does not undo it.       *)
VerdictIsFinal ==
    [][\A t \in TaskIds : Ended(t) => tasks'[t] \in {tasks[t], Evicted}]_taskVars

(* A desktop that restarts can ask what became of a project's last task,   *)
(* even after it was dropped from the table: a task that has ended is      *)
(* remembered under its name, or one that ended later is.                  *)
CurrentAnswers ==
    /\ \A n \in Names : remembered[n] # None => ~Live(remembered[n])
    /\ \A t \in TaskIds : Ended(t) => remembered[tasks[t].name] # None
=============================================================================
