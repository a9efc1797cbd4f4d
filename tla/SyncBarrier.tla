----------------------------- MODULE SyncBarrier ------------------------------
(***************************************************************************)
(* When a sync task of kari-syncd may end.  Requests that create, poll and *)
(* cancel tasks run alongside the sessions whose hooks write the status    *)
(* the barrier reads (internal/syncd/sync_task_service.go and status.go).  *)
(* A poll copies the status under Service.mu, releases it, and judges the  *)
(* tasks by the copy.  Of a session this module keeps what its hooks       *)
(* report; how run loops come and go is in SyncService.                    *)
(***************************************************************************)
EXTENDS SyncTask

CONSTANTS
    Binds,       \* bind requests: [ws, name]
    Sessions,    \* sessions, each used once, in order
    Pollers,     \* requests that tick the tasks
    PeerFiles,   \* [Names -> Nat]: entries in the server's manifest of a name
    MaxBinds, MaxCancels   \* bounds

ASSUME BarrierAssumption ==
    /\ Binds \subseteq [ws : Workspaces, name : Names]
    /\ Sessions \subseteq Nat /\ PeerFiles \in [Names -> Nat]
    /\ None \notin Binds /\ None \notin Sessions /\ None \notin Workspaces
    /\ {MaxBinds, MaxCancels} \subseteq Nat

VARIABLES
    bind,                    \* the bound workspace
    session, activeSession,  \* the sessions; s.activeSession
    connected,               \* status.Connected
    manifestSeen, peerFiles, \* ManifestExchangedAt # 0; PeerManifestFiles
    since,                   \* live tasks with LastActivityAt after their StartedAt
    poll, creator,           \* ticks and a create under way
    inbound,                 \* history: running tasks whose project received a file
    binds, cancels

statusVars  == <<connected, manifestSeen, peerFiles>>
barrierVars == <<taskVars, bind, session, activeSession, statusVars, since, poll,
                 creator, inbound, binds, cancels>>

(* cancelled: by a Bind; up: Session.Run has not returned; recv: what      *)
(* recvLoop, which nobody waits for, has handled; queue: a file waits.     *)
Session == [bind : Binds, cancelled : BOOLEAN, up : BOOLEAN, queue : BOOLEAN,
            recv : {"nothing", "hello", "noted", "manifest"}]
ASSUME NoneIsNoSession == None \notin Session

Up(i) == session[i] # None /\ session[i].up
Poll == [ws : Workspaces \cup {None}, connected : BOOLEAN, known : BOOLEAN, files : Nat,
         since : SUBSET TaskIds, later : BOOLEAN]
Creation == [ws : Workspaces, name : Names, dir : Directions]
Over(b) == [bind |-> b, cancelled |-> TRUE, up |-> FALSE, queue |-> FALSE, recv |-> "manifest"]

BarrierInit ==
    /\ TaskInit
    /\ bind = None /\ session = [i \in Sessions |-> None] /\ activeSession = None
    /\ connected = FALSE /\ manifestSeen = FALSE /\ peerFiles = 0
    /\ since = {} /\ poll = [p \in Pollers |-> None] /\ creator = None
    /\ inbound = {} /\ binds = 0 /\ cancels = 0

-----------------------------------------------------------------------------
(* Bind: another workspace cancels the run loop and its session; what the  *)
(* status says of the manifest stays.                                      *)
Bind(b) ==
    /\ binds < MaxBinds /\ binds' = binds + 1
    /\ bind' = b
    /\ IF bind \notin {None, b}
       THEN /\ session' = [i \in Sessions |-> IF Up(i) THEN [session[i] EXCEPT !.cancelled = TRUE]
                                              ELSE session[i]]
            /\ connected' = FALSE /\ activeSession' = None
       ELSE UNCHANGED <<session, connected, activeSession>>
    /\ UNCHANGED <<taskVars, manifestSeen, peerFiles, since, poll, creator, inbound, cancels>>

SessionFrame == UNCHANGED <<taskVars, bind, poll, creator, binds, cancels>>
Handled(i, m) == session' = [session EXCEPT ![i].recv = m]

(* runOnce publishes a session for the bind it copied.                     *)
Connect(i) ==
    /\ bind # None
    /\ session[i] = None /\ \A j \in Sessions : j < i => session[j] # None
    /\ \A j \in Sessions : Up(j) => session[j].cancelled
    /\ session' = [session EXCEPT ![i] = [bind |-> bind, cancelled |-> FALSE, up |-> TRUE,
                                          queue |-> FALSE, recv |-> "nothing"]]
    /\ activeSession' = i
    /\ SessionFrame /\ UNCHANGED <<statusVars, since, inbound>>

(* Session.Run returns, and runOnce with it.                               *)
ReturnKeepsActive(i) ==                                                 \* faulty
    /\ Up(i)
    /\ session' = [session EXCEPT ![i] =
           [Over(session[i].bind) EXCEPT !.recv = IF session[i].recv = "noted" THEN "noted" ELSE @]]
    /\ connected' = FALSE
    /\ SessionFrame /\ UNCHANGED <<activeSession, manifestSeen, peerFiles, since, inbound>>
Return(i) ==
    /\ Up(i)
    /\ session' = [session EXCEPT ![i] =
           [Over(session[i].bind) EXCEPT !.recv = IF session[i].recv = "noted" THEN "noted" ELSE @]]
    /\ connected' = FALSE
    /\ activeSession' = IF activeSession = i THEN None ELSE activeSession
    /\ SessionFrame /\ UNCHANGED <<manifestSeen, peerFiles, since, inbound>>

(* The hooks: the handshake, and for a manifest markManifestExchanged and  *)
(* then recordPeerManifest.                                                *)
Handshake(i) ==
    /\ Up(i) /\ session[i].recv = "nothing"
    /\ connected' = TRUE /\ Handled(i, "hello")
    /\ SessionFrame /\ UNCHANGED <<activeSession, manifestSeen, peerFiles, since, inbound>>

MarkManifestExchanged(i) ==
    /\ Up(i) /\ session[i].recv = "hello"
    /\ manifestSeen' = TRUE /\ Handled(i, "noted")
    /\ SessionFrame /\ UNCHANGED <<activeSession, connected, peerFiles, since, inbound>>

RecordPeerManifest(i) ==
    /\ session[i] # None /\ session[i].recv = "noted"
    /\ peerFiles' = PeerFiles[session[i].bind.name] /\ Handled(i, "manifest")
    /\ SessionFrame /\ UNCHANGED <<activeSession, connected, manifestSeen, since, inbound>>

(* A watcher event queues a path; sendLoop sends it, and a file arrives:   *)
(* both note activity, which later calls a copy in a poll lacks.           *)
MarkActive == /\ since' = {t \in TaskIds : Live(t)}
              /\ poll' = [p \in Pollers |-> IF poll[p] = None THEN None
                                           ELSE [poll[p] EXCEPT !.later = TRUE]]

Enqueue(i) ==
    /\ Up(i) /\ ~session[i].queue
    /\ session' = [session EXCEPT ![i].queue = TRUE]
    /\ SessionFrame /\ UNCHANGED <<activeSession, statusVars, since, inbound>>

Send(i) ==
    /\ Up(i) /\ session[i].queue
    /\ session' = [session EXCEPT ![i].queue = FALSE] /\ MarkActive
    /\ UNCHANGED <<taskVars, bind, activeSession, statusVars, creator, inbound, binds, cancels>>

Receive(i) ==
    /\ Up(i) /\ session[i].recv # "nothing" /\ PeerFiles[session[i].bind.name] > 0
    /\ MarkActive
    /\ inbound' = inbound \cup
           {t \in TaskIds : /\ Live(t) /\ tasks[t].state = "running"
                            /\ tasks[t].name = session[i].bind.name}
    /\ UNCHANGED <<taskVars, bind, session, activeSession, statusVars, creator, binds, cancels>>

-----------------------------------------------------------------------------
(* tickSyncTasks: copy the status, and then judge by it and by the rows of *)
(* the session.  The copy's PendingOutbound is never set: Status() fills   *)
(* in the one it returns.                                                  *)
PollFrame == UNCHANGED <<bind, session, activeSession, statusVars, creator, binds, cancels>>

TakeSnapshot(p) ==
    /\ poll[p] = None
    /\ poll' = [poll EXCEPT ![p] =
                  [ws |-> IF bind = None THEN None ELSE bind.ws, connected |-> connected,
                   known |-> manifestSeen, files |-> peerFiles, since |-> since, later |-> FALSE]]
    /\ PollFrame /\ UNCHANGED <<taskVars, since, inbound>>

(* What the rows say (a transfer under way, one that failed, bytes down),  *)
(* and which windows have elapsed, varies where the barrier looks at them. *)
Copied(p, x, y, z, q, m, e) ==
    [ws |-> poll[p].ws, connected |-> poll[p].connected, known |-> poll[p].known,
     files |-> poll[p].files, pending |-> 0, since |-> poll[p].since,
     transferring |-> x, failing |-> y, down |-> z,
     quiet |-> q, settled |-> m, stalled |-> m, expired |-> e]

Judging(p) == poll[p].connected /\ poll[p].known
Rows(p)    == IF Judging(p) /\ activeSession # None THEN BOOLEAN ELSE {FALSE}
Quiets(p)  == IF Judging(p) THEN BOOLEAN ELSE {FALSE}
Elapsed(p) == IF Judging(p) THEN {{}, TaskIds} ELSE {{}}

ApplySnapshot(p, s) ==
    /\ Tick(s)
    /\ LET started == {t \in TaskIds : Starts(t, s)}
           live == {t \in TaskIds : Live(t)}'
       IN  /\ since' = live \cap ((since \ started) \cup IF poll[p].later THEN started ELSE {})
           /\ inbound' = inbound \cap live
    /\ poll' = [poll EXCEPT ![p] = None]
    /\ PollFrame

TickTasks(p) ==
    /\ poll[p] # None
    /\ \E x, y, z \in Rows(p), q \in Quiets(p), m \in Elapsed(p), e \in {{}, TaskIds} :
           ApplySnapshot(p, Copied(p, x, y, z, q, m, e))

(* A tick that finds the transfers done and every window elapsed.          *)
LateTick(p) ==
    /\ poll[p] # None /\ Judging(p)
    /\ \E y, z \in Rows(p), e \in {{}, TaskIds} :
           ApplySnapshot(p, Copied(p, FALSE, y, z, TRUE, TaskIds, e))

(* CreateSyncTask reads the bind, and then creates the task.               *)
CreateRead(d) ==
    /\ creator = None /\ bind # None /\ \E t \in TaskIds : tasks[t] = None
    /\ creator' = [ws |-> bind.ws, name |-> bind.name, dir |-> d]
    /\ UNCHANGED <<taskVars, bind, session, activeSession, statusVars, since, poll,
                   inbound, binds, cancels>>

CreateTask(t) ==
    /\ creator # None
    /\ tasks[t] = None => \A u \in TaskIds : u < t => tasks[u] # None
    /\ Create(t, creator.ws, creator.name, creator.dir)
    /\ creator' = None
    /\ UNCHANGED <<bind, session, activeSession, statusVars, since, poll, inbound,
                   binds, cancels>>

CancelTask(t) ==
    /\ cancels < MaxCancels /\ cancels' = cancels + 1
    /\ Known(t) /\ Cancel(t)
    /\ since' = since \ {t} /\ inbound' = inbound \ {t}
    /\ UNCHANGED <<bind, session, activeSession, statusVars, poll, creator, binds>>

-----------------------------------------------------------------------------
Hooks(i) == Handshake(i) \/ MarkManifestExchanged(i) \/ RecordPeerManifest(i)
Traffic(i) == Enqueue(i) \/ Send(i) \/ Receive(i)

BarrierNext ==
    \/ \E b \in Binds : Bind(b)
    \/ \E i \in Sessions : Connect(i) \/ Return(i) \/ Hooks(i) \/ Traffic(i)
    \/ \E p \in Pollers : TakeSnapshot(p) \/ TickTasks(p)
    \/ \E d \in Directions : CreateRead(d)
    \/ \E t \in TaskIds : CreateTask(t) \/ CancelTask(t)

(* The client polls on, each poll ends, and traffic pauses time and again  *)
(* for as long as the windows last, which are 1 s to 5 min long.           *)
BarrierSpec ==
    /\ BarrierInit /\ [][BarrierNext]_barrierVars
    /\ \A p \in Pollers : /\ WF_barrierVars(TakeSnapshot(p)) /\ WF_barrierVars(TickTasks(p))
                          /\ SF_barrierVars(LateTick(p))

-----------------------------------------------------------------------------
(* Properties, besides those of SyncTask.                                  *)

(* Every variable has its type, and the active session is a live one.      *)
BarrierTypeOK ==
    /\ TaskTypeOK
    /\ bind \in Binds \cup {None}
    /\ session \in [Sessions -> Session \cup {None}]
    /\ activeSession \in Sessions \cup {None}
    /\ activeSession = None \/ (Up(activeSession) /\ ~session[activeSession].cancelled)
    /\ connected \in BOOLEAN /\ manifestSeen \in BOOLEAN /\ peerFiles \in Nat
    /\ since \subseteq TaskIds /\ inbound \subseteq TaskIds
    /\ poll \in [Pollers -> Poll \cup {None}] /\ creator \in Creation \cup {None}

(* No task stays live for ever while the daemon is connected to its        *)
(* workspace and has exchanged manifests: it succeeds, fails or stalls.    *)
TaskResolves ==
    \A t \in TaskIds :
        ~<>[](/\ Live(t) /\ connected /\ manifestSeen
              /\ bind # None /\ bind.ws = tasks[t].ws)

(* What sync_task.go says of a download: it does not succeed from a peer   *)
(* that has files before at least one of them has arrived.                 *)
Succeeded(t) == Live(t) /\ tasks'[t].state = "succeeded"
DownloadEarned ==
    [][\A t \in TaskIds :
        Succeeded(t) /\ Download(t) /\ PeerFiles[tasks[t].name] > 0 => t \in inbound]_barrierVars

(* What sync_task.go says of the barrier: a task succeeds only with an     *)
(* empty outbound queue.                                                   *)
UploadDrained ==
    [][\A t \in TaskIds :
        Succeeded(t) /\ ~Download(t) /\ activeSession # None
        => ~session[activeSession].queue]_barrierVars
=============================================================================
