------------------------------ MODULE FileSync -------------------------------
(***************************************************************************)
(* Two file-sync sessions of internal/filesync, the daemon's and the       *)
(* server's, over one stream: what their send loops, receive loops,        *)
(* watchers, fallback timers and debounced flushes do to the two engines   *)
(* of FileEngine, while users edit both workspaces and the stream breaks.  *)
(***************************************************************************)
EXTENDS FileEngine, FiniteSets

CONSTANTS
    Modes,    \* pairs of session modes: [Sides -> {"sync", "staging", "control"}]
    Starts,   \* what the workspaces hold at first: [Sides -> [Paths -> Complete \cup {None}]]
    Slow,     \* sides whose manifest may be later than manifestFallbackDelay
    Window,   \* messages in flight one way before Send blocks
    MaxEdits, MaxCuts,      \* bounds: what users write, how often the stream breaks
    MaxAsks, MaxFaults      \* bounds of each mode: cancels and resumes, failed commits

Sides == {"client", "server"}
Peer(s) == IF s = "client" THEN "server" ELSE "client"
Senders == {"loop", "fallback"}    \* goroutines that send files

ASSUME SyncAssumption ==
    /\ Modes \subseteq [Sides -> {"sync", "staging", "control"}]
    /\ Starts \subseteq [Sides -> [Paths -> Complete \cup {None}]]
    /\ Slow \subseteq Sides /\ Window \in Nat \ {0} /\ {MaxEdits, MaxCuts} \subseteq Nat
    /\ \A m \in Modes : MaxAsks[m] \in Nat /\ MaxFaults[m] \in Nat

VARIABLES
    eng,       \* the engines
    mode,      \* controlOnly, suppressOutboundDeletes
    conn,      \* the stream is up and both sessions run
    opening,   \* sides whose Run has not sent its manifest yet
    stopped,   \* sides with outboundStopped
    cancelled, \* [Sides -> SUBSET Senders]: whose outboundCtx is cancelled
    queue,     \* s.outbound.pending
    work,      \* the tasks a sender has taken and not begun
    job,       \* the file a sender is streaming
    armed,     \* sides whose fallback timer runs
    controls,  \* downloadControlOut of the client
    wire,      \* messages each side has sent and the other not received
    pend,      \* s.pending: transfers being received
    errors,    \* paths in fileStatusErrorOut
    noticed,   \* paths with a watcher event not yet handled
    edits, cuts, asks, faults,
    calm,      \* history: no user has touched a file since the streams met
    fell,      \* history: a fallback has sent the workspace in this session
    forgotten, \* history: pushes dropped in this session
    deleted,   \* history: paths a user has deleted
    crossed,   \* history: paths both senders of a side have streamed at once
    past,      \* history: the contents the users' files have had
    restored   \* history: paths a user has given such a content again

engineVars == <<eng, noticed>>
sendVars == <<queue, work, job, cancelled>>
bounds == <<edits, cuts, asks, faults>>
history == <<calm, fell, forgotten, deleted, crossed, past, restored>>
vars == <<eng, mode, conn, opening, stopped, cancelled, queue, work, job, armed, controls,
          wire, pend, errors, noticed, edits, cuts, asks, faults, history>>

SendPathTask == [kind |-> "path", prefix |-> <<>>, version |-> 0]
ForcedSend(prefix) == [kind |-> "send", prefix |-> prefix, version |-> 0]
ForcedDelete(v) == [kind |-> "delete", prefix |-> <<>>, version |-> v]
NoTasks == [p \in Paths |-> None]
Msg(type, path, body) == [type |-> type, path |-> path, body |-> body]

(* A queued task; the file a sender streams, with what a rollback needs;   *)
(* the envelopes of the stream that are modelled.                          *)
Task == [kind : {"path", "send", "delete"}, prefix : Part, version : Nat]
Job  == [path : Paths, file : Complete, sent : Part, old : File \cup {None}, oldTomb : Nat]
Message ==
         [type : {"manifest", "resume"}, path : {None}, body : [Paths -> Entry]]
    \cup [type : {"meta"}, path : Paths, body : [mtime : Nat, offset : Nat]]
    \cup [type : {"chunk"}, path : Paths, body : Contents]
    \cup [type : {"done"}, path : Paths, body : Whole]
    \cup [type : {"delete"}, path : Paths, body : Nat]
    \cup [type : {"error"}, path : Paths, body : {None}]
    \cup [type : {"cancel"}, path : {None}, body : {None}]

ASSUME NoneIsNothing == None \notin Task \cup Job \cup Nat

(* The clock: the k-th edit is made at 2k, what scans date lies between.   *)
Now == 2 * edits + 1
Fresh(disk) == [disk |-> disk, staging |-> NoTasks, index |-> NoTasks,
                tombs |-> [p \in Paths |-> 0], supp |-> NoTasks, parts |-> NoTasks,
                saved |-> NoTasks]
BothSides(x) == [s \in Sides |-> x]

Init ==
    /\ mode \in Modes
    /\ \E start \in Starts : eng = [s \in Sides |-> Fresh(start[s])]
    /\ conn = FALSE /\ opening = {} /\ stopped = {} /\ cancelled = BothSides({})
    /\ queue = BothSides(NoTasks)
    /\ work = BothSides([g \in Senders |-> NoTasks]) /\ job = BothSides([g \in Senders |-> None])
    /\ armed = {} /\ controls = <<>> /\ wire = BothSides(<<>>) /\ pend = BothSides(NoTasks)
    /\ errors = BothSides({}) /\ noticed = BothSides({})
    /\ edits = 0 /\ cuts = 0 /\ asks = 0 /\ faults = 0
    /\ calm = TRUE /\ fell = FALSE /\ forgotten = {}
    /\ deleted = {} /\ crossed = {} /\ restored = {}
    /\ past = [s \in Sides |-> [p \in Paths |-> {f.data : f \in {eng[s].disk[p]} \ {None}}]]

---------------------------------------------------------------------------
(* Helpers of the actions                                                  *)

Control(s) == mode[s] = "control"
Room(s, n) == Len(wire[s]) + n <= Window
Sent(s, m) == wire' = [wire EXCEPT ![s] = Append(@, m)]
Becomes(s, e) == eng' = [eng EXCEPT ![s] = e]
Enqueued(s, p, task) == queue' = [queue EXCEPT ![s][p] = task]

(* An OS event reaches the watcher of a session that has one.              *)
Watching(s) == conn /\ s \notin opening /\ ~Control(s)
Touched(s, p) == noticed' = IF Watching(s) THEN [noticed EXCEPT ![s] = @ \cup {p}] ELSE noticed

(* A snapshot takes what is on disk into the index, whether it has been    *)
(* sent or not.                                                            *)
Absorbs(s) == {<<s, p>> : p \in {q \in Paths : eng[s].disk[q] # None /\ Changed(eng[s], q)}}
Idle(s, g) == job[s][g] = None /\ work[s][g] = NoTasks

---------------------------------------------------------------------------
(* Users and the connection                                                *)

UserWrite(s, p, c) ==
    LET data == [i \in 1..Blocks |-> c] IN
    /\ edits < MaxEdits /\ edits' = edits + 1
    /\ Becomes(s, [eng[s] EXCEPT !.disk[p] = [data |-> data, mtime |-> 2 * (edits + 1)]])
    /\ Touched(s, p) /\ calm' = FALSE
    /\ past' = [past EXCEPT ![s][p] = @ \cup {data}]
    /\ restored' = IF data \in past[s][p] THEN restored \cup {p} ELSE restored
    /\ UNCHANGED <<mode, conn, opening, stopped, sendVars, armed, controls, wire, pend, errors,
                   cuts, asks, faults, fell, forgotten, deleted, crossed>>

UserDelete(s, p) ==
    /\ edits < MaxEdits /\ edits' = edits + 1
    /\ eng[s].disk[p] # None
    /\ Becomes(s, [eng[s] EXCEPT !.disk[p] = None])
    /\ Touched(s, p) /\ calm' = FALSE /\ deleted' = deleted \cup {p}
    /\ UNCHANGED <<mode, conn, opening, stopped, sendVars, armed, controls, wire, pend, errors,
                   cuts, asks, faults, fell, forgotten, crossed, past, restored>>

(* A session of the daemon has an engine of its own; the server keeps one  *)
(* per workspace.  initOutboundCtx; control-only stops the outbound side.  *)
Connect ==
    /\ ~conn /\ conn' = TRUE
    /\ Becomes("client", New(eng["client"]))
    /\ opening' = Sides /\ stopped' = {s \in Sides : Control(s)}
    /\ calm' = TRUE /\ fell' = FALSE /\ forgotten' = {}
    /\ UNCHANGED <<mode, sendVars, armed, controls, wire, pend, errors, noticed, bounds, deleted,
                   crossed, past, restored>>

(* The stream breaks, and some sides with it.  A Send that fails rolls     *)
(* back; what was received stays in the staging file.                      *)
RolledBack(s) ==
    LET lost == {g \in Senders : job[s][g] # None}
        After(e, g) == IF g \in lost THEN Rollback(e, job[s][g].path, job[s][g]) ELSE e
    IN After(After(eng[s], "fallback"), "loop")

Cut(down) ==
    /\ conn /\ conn' = FALSE
    /\ cuts < MaxCuts /\ cuts' = cuts + 1
    /\ eng' = [s \in Sides |-> IF s \in down THEN New(eng[s]) ELSE RolledBack(s)]
    /\ opening' = {} /\ stopped' = {} /\ cancelled' = BothSides({})
    /\ queue' = BothSides(NoTasks)
    /\ work' = BothSides([g \in Senders |-> NoTasks]) /\ job' = BothSides([g \in Senders |-> None])
    /\ armed' = {} /\ controls' = <<>> /\ wire' = BothSides(<<>>) /\ pend' = BothSides(NoTasks)
    /\ errors' = BothSides({}) /\ noticed' = BothSides({})
    /\ UNCHANGED <<mode, edits, asks, faults, history>>

(* The debounced flush of index.json, which matters to a crash to come.    *)
FlushIndex(s) ==
    /\ cuts < MaxCuts
    /\ eng[s].saved # eng[s].index /\ Becomes(s, Flush(eng[s]))
    /\ UNCHANGED <<mode, conn, opening, stopped, sendVars, armed, controls, wire, pend, errors,
                   noticed, bounds, history>>

(* A control-only session has no fallback.                                 *)
ArmsAlways(s) == {s}                                                    \* faulty
Arms(s) == IF Control(s) THEN {} ELSE {s}

(* Run: the manifest, then the watcher and the fallback timer, unless the  *)
(* session is control-only.                                                *)
Open(s) ==
    /\ conn /\ s \in opening /\ opening' = opening \ {s}
    /\ IF Control(s)
       THEN UNCHANGED <<eng, wire>>
       ELSE LET e == Snapshot(eng[s], Now) IN
            /\ Room(s, 1) /\ Becomes(s, e)
            /\ Sent(s, Msg("manifest", None, Manifest(e)))
    /\ armed' = armed \cup Arms(s)
    /\ UNCHANGED <<mode, conn, stopped, sendVars, controls, pend, errors, noticed, bounds, history>>

---------------------------------------------------------------------------
(* The outbound queue: watcher events and rescans fill it                  *)

(* The last task of a path wins: a push the peer's manifest asked for may  *)
(* become one that stops at an unchanged index.                            *)
EnqueuePath(s, p) ==
    /\ Enqueued(s, p, SendPathTask)
    /\ forgotten' = IF queue[s][p] # None /\ queue[s][p].kind = "send"
                    THEN forgotten \cup {<<s, p>>} ELSE forgotten

WatchEvent(s, p) ==
    /\ Watching(s) /\ p \in noticed[s]
    /\ noticed' = [noticed EXCEPT ![s] = @ \ {p}]
    /\ EnqueuePath(s, p)
    /\ UNCHANGED <<eng, mode, conn, opening, stopped, work, job, cancelled, armed, controls, wire,
                   pend, errors, bounds, calm, fell, deleted, crossed, past, restored>>

Rescan(s, p) ==
    /\ Watching(s) /\ Changed(eng[s], p) /\ p \notin noticed[s] /\ queue[s][p] # SendPathTask
    /\ EnqueuePath(s, p)
    /\ UNCHANGED <<eng, noticed, mode, conn, opening, stopped, work, job, cancelled, armed,
                   controls, wire, pend, errors, bounds, calm, fell, deleted, crossed, past, restored>>

(* drainOutbound takes all there is, or drops it while stopped.            *)
Drain(s) ==
    /\ conn /\ Idle(s, "loop") /\ queue[s] # NoTasks
    /\ queue' = [queue EXCEPT ![s] = NoTasks]
    /\ work' = IF s \in stopped THEN work ELSE [work EXCEPT ![s]["loop"] = queue[s]]
    /\ UNCHANGED <<eng, noticed, mode, conn, opening, stopped, job, cancelled, armed, controls,
                   wire, pend, errors, bounds, history>>

(* faulty: a control-only peer's manifest is waited for, and never comes   *)
ManifestFromEveryPeer(s) ==
    /\ Peer(s) \notin opening /\ ~Control(Peer(s))
    /\ \A i \in 1..Len(wire[Peer(s)]) : wire[Peer(s)][i].type # "manifest"

ManifestIsThere(s) ==
    /\ Peer(s) \notin opening
    /\ \A i \in 1..Len(wire[Peer(s)]) : wire[Peer(s)][i].type # "manifest"

(* What it sends it sends whether the index has it or not.                 *)
FallbackTaskUnforced == SendPathTask                                    \* faulty
FallbackTask == ForcedSend(<<>>)

(* The timer fires: SendSnapshot pushes every file in a goroutine of its   *)
(* own.                                                                    *)
FallbackFires(s) ==
    /\ conn /\ s \in armed /\ armed' = armed \ {s}
    /\ Peer(s) \in Slow \/ ManifestIsThere(s)
    /\ IF s \in stopped
       THEN UNCHANGED <<eng, work, cancelled, fell>>
       ELSE LET e == Snapshot(eng[s], Now) IN
            /\ Becomes(s, e)
            /\ work' = [work EXCEPT ![s]["fallback"] =
                   [p \in Paths |-> IF e.disk[p] = None THEN None ELSE FallbackTask]]
            /\ cancelled' = [cancelled EXCEPT ![s] = @ \ {"fallback"}]
            /\ fell' = TRUE
    /\ UNCHANGED <<noticed, mode, conn, opening, stopped, queue, job, controls, wire, pend, errors,
                   bounds, calm, forgotten, deleted, crossed, past, restored>>

---------------------------------------------------------------------------
(* Sending a task: sendOutboundTask, SendPath, sendFile, SendDelete        *)

Taken(s, g, p) == work' = [work EXCEPT ![s][g][p] = None]

(* The batch of the loop is dropped once the outbound side is stopped.     *)
DropBatch(s) ==
    /\ conn /\ job[s]["loop"] = None /\ work[s]["loop"] # NoTasks /\ s \in stopped
    /\ work' = [work EXCEPT ![s]["loop"] = NoTasks]
    /\ UNCHANGED <<eng, noticed, mode, conn, opening, stopped, queue, job, cancelled, armed,
                   controls, wire, pend, errors, bounds, history>>

(* The file has gone: a tombstone, and a delete unless the session is of a *)
(* staging directory, whose queued paths are not even looked at.           *)
SendsDelete(s, g, p) ==
    /\ eng[s].disk[p] = None
    /\ IF mode[s] = "staging"
       THEN /\ Becomes(s, IF work[s][g][p].kind = "path" THEN eng[s]
                          ELSE SendDelete(eng[s], p, Now))
            /\ UNCHANGED wire
       ELSE /\ Room(s, 1) /\ Becomes(s, SendDelete(eng[s], p, Now))
            /\ Sent(s, Msg("delete", p, Now))
    /\ UNCHANGED <<job, forgotten, crossed>>

(* What Commit wrote is not sent back, and what the index has is not sent  *)
(* unless forced.  A suppressed push of other content than the index knew, *)
(* or one the peer's manifest asked for, is forgotten.                     *)
SkipsFile(s, g, p) ==
    /\ eng[s].disk[p] # None
    /\ \/ /\ Suppressed(eng[s], p)
          /\ Becomes(s, Swallow(eng[s], p))
          /\ forgotten' = IF work[s][g][p].kind = "send" \/ ~Unchanged(eng[s], p)
                          THEN forgotten \cup {<<s, p>>} ELSE forgotten
       \/ /\ ~Suppressed(eng[s], p) /\ work[s][g][p].kind = "path" /\ Unchanged(eng[s], p)
          /\ UNCHANGED <<eng, forgotten>>
    /\ UNCHANGED <<job, wire, crossed>>

BeginsFile(s, g, p) ==
    LET f == eng[s].disk[p] IN
    /\ f # None /\ ~Suppressed(eng[s], p)
    /\ work[s][g][p].kind = "send" \/ ~Unchanged(eng[s], p)
    /\ Room(s, 1) /\ Becomes(s, Announce(eng[s], p))
    /\ LET offset == Offset(f, work[s][g][p].prefix) IN
       /\ Sent(s, Msg("meta", p, [mtime |-> f.mtime, offset |-> offset]))
       /\ job' = [job EXCEPT ![s][g] = [path |-> p, file |-> f, sent |-> SubSeq(f.data, 1, offset),
                                        old |-> eng[s].index[p], oldTomb |-> eng[s].tombs[p]]]
    /\ crossed' = IF \E h \in Senders : job[s][h] # None /\ job[s][h].path = p
                  THEN crossed \cup {p} ELSE crossed
    /\ UNCHANGED forgotten

SendsTombstone(s, g, p) ==
    /\ IF mode[s] = "staging" THEN UNCHANGED wire
       ELSE Room(s, 1) /\ Sent(s, Msg("delete", p, work[s][g][p].version))
    /\ UNCHANGED <<eng, job, forgotten, crossed>>

BeginTask(s, g, p) ==
    /\ conn /\ job[s][g] = None /\ work[s][g][p] # None
    /\ g = "loop" => s \notin stopped
    /\ Taken(s, g, p)
    /\ cancelled' = IF g = "loop" THEN [cancelled EXCEPT ![s] = @ \ {g}] ELSE cancelled
    /\ IF work[s][g][p].kind = "delete" THEN SendsTombstone(s, g, p)
       ELSE SendsDelete(s, g, p) \/ SkipsFile(s, g, p) \/ BeginsFile(s, g, p)
    /\ UNCHANGED <<noticed, mode, conn, opening, stopped, queue, armed, controls, pend, errors,
                   bounds, calm, fell, deleted, past, restored>>

(* One turn of the chunk loop.  The file is open: a block is of the file   *)
(* that was there, or of what has been written over it since.              *)
SendChunk(s, g) ==
    LET j == job[s][g] IN
    /\ conn /\ j # None /\ g \notin cancelled[s]
    /\ LET n == Len(j.sent) + 1 IN
       /\ n <= Blocks /\ Room(s, 1)
       /\ \E f \in {j.file, eng[s].disk[j.path]} \ {None} :
             /\ Sent(s, Msg("chunk", j.path, f.data[n]))
             /\ job' = [job EXCEPT ![s][g].sent = Append(@, f.data[n])]
    /\ UNCHANGED <<eng, noticed, mode, conn, opening, stopped, queue, work, cancelled, armed,
                   controls, pend, errors, bounds, history>>

(* file_done carries the hash of what was sent.                            *)
SendDone(s, g) ==
    LET j == job[s][g] IN
    /\ conn /\ j # None /\ g \notin cancelled[s] /\ Len(j.sent) = Blocks /\ Room(s, 1)
    /\ Sent(s, Msg("done", j.path, j.sent))
    /\ job' = [job EXCEPT ![s][g] = None]
    /\ UNCHANGED <<eng, noticed, mode, conn, opening, stopped, queue, work, cancelled, armed,
                   controls, pend, errors, bounds, history>>

(* A cancelled context ends the file, and the fallback with it.            *)
SendAborted(s, g) ==
    LET j == job[s][g] IN
    /\ conn /\ j # None /\ g \in cancelled[s]
    /\ Becomes(s, Rollback(eng[s], j.path, j))
    /\ job' = [job EXCEPT ![s][g] = None]
    /\ work' = IF g = "fallback" THEN [work EXCEPT ![s][g] = NoTasks] ELSE work
    /\ UNCHANGED <<noticed, mode, conn, opening, stopped, queue, cancelled, armed, controls, wire,
                   pend, errors, bounds, history>>

---------------------------------------------------------------------------
(* The other cases of sendLoop                                             *)

SendError(s, p) ==
    /\ conn /\ Idle(s, "loop") /\ p \in errors[s] /\ Room(s, 1)
    /\ errors' = [errors EXCEPT ![s] = @ \ {p}]
    /\ Sent(s, Msg("error", p, None))
    /\ UNCHANGED <<engineVars, sendVars, mode, conn, opening, stopped, armed, controls, pend,
                   bounds, history>>

(* QueueCancelDownload, QueueResumeDownload: a user of the daemon.         *)
Ask(kind) ==
    /\ conn /\ asks < MaxAsks[mode] /\ asks' = asks + 1
    /\ controls' = Append(controls, kind)
    /\ UNCHANGED <<engineVars, sendVars, mode, conn, opening, stopped, armed, wire, pend, errors,
                   edits, cuts, faults, history>>

(* sendDownloadControl: a resume goes out with a manifest next to it, one  *)
(* message here that is received in two steps, and this side sends again.  *)
SendControl ==
    LET s == "client"
        e == Snapshot(eng[s], Now)
    IN
    /\ conn /\ Idle(s, "loop") /\ controls # <<>> /\ controls' = Tail(controls)
    /\ IF Head(controls) = "cancel"
       THEN /\ Room(s, 1) /\ Sent(s, Msg("cancel", None, None))
            /\ UNCHANGED <<eng, stopped, forgotten>>
       ELSE /\ Room(s, 1) /\ Becomes(s, e)
            /\ Sent(s, Msg("resume", None, Manifest(e)))
            /\ stopped' = stopped \ {s} /\ forgotten' = forgotten \cup Absorbs(s)
    /\ UNCHANGED <<noticed, sendVars, mode, conn, opening, armed, pend, errors, bounds, calm, fell,
                   deleted, crossed, past, restored>>

---------------------------------------------------------------------------
(* recvLoop, one action per message type                                   *)

Receives(s, type) ==
    /\ conn /\ wire[Peer(s)] # <<>> /\ Head(wire[Peer(s)]).type = type
    /\ wire' = [wire EXCEPT ![Peer(s)] = Tail(@)]
    /\ UNCHANGED <<mode, conn, opening, controls, edits, cuts, asks, history>>

(* A manifest disarms a fallback timer that is armed by now, and its diff  *)
(* fills the queue.                                                        *)
ReceiveManifest(s) ==
    LET e == Snapshot(eng[s], Now)
        l == Manifest(e)
        r == Head(wire[Peer(s)]).body
    IN
    /\ Receives(s, "manifest")
    /\ armed' = IF Control(s) THEN armed ELSE armed \ {s}
    /\ IF Control(s) \/ s \in stopped
       THEN UNCHANGED <<eng, queue>>
       ELSE /\ Becomes(s, e)
            /\ queue' = [queue EXCEPT ![s] = [p \in Paths |->
                   IF PushesFile(l[p], r[p])
                   THEN ForcedSend(IF r[p].kind = "partial" THEN r[p].data ELSE <<>>)
                   ELSE IF PushesDelete(l[p], r[p]) /\ mode[s] # "staging"
                        THEN ForcedDelete(l[p].mtime)
                        ELSE @[p]]]
    /\ UNCHANGED <<noticed, stopped, work, job, cancelled, pend, errors, faults>>

ReceiveDelete(s) ==
    LET m == Head(wire[Peer(s)])
        e == ApplyDelete(eng[s], m.path, m.body)
    IN
    /\ Receives(s, "delete") /\ Becomes(s, e)
    /\ IF e.disk # eng[s].disk THEN Touched(s, m.path) ELSE UNCHANGED noticed
    /\ UNCHANGED <<sendVars, stopped, armed, pend, errors, faults>>

(* An unfinished transfer of the path is discarded first, and what it left *)
(* with it.                                                                *)
ReceiveMeta(s) ==
    LET m == Head(wire[Peer(s)])
        e == IF pend[s][m.path] = None THEN eng[s] ELSE Discard(eng[s], m.path)
    IN
    /\ Receives(s, "meta")
    /\ Becomes(s, BeginReceive(e, m.path, m.body.offset))
    /\ pend' = [pend EXCEPT ![s][m.path] = m.body.mtime]
    /\ UNCHANGED <<sendVars, noticed, stopped, armed, errors, faults>>

ReceiveChunk(s) ==
    LET m == Head(wire[Peer(s)]) IN
    /\ Receives(s, "chunk")
    /\ IF pend[s][m.path] = None THEN UNCHANGED eng
       ELSE Becomes(s, WriteChunk(eng[s], m.path, m.body))
    /\ UNCHANGED <<sendVars, noticed, stopped, armed, pend, errors, faults>>

(* queueFileStatus: the send loop reports the failure.                     *)
Reported(s, p) == errors' = [errors EXCEPT ![s] = @ \cup {p}]

(* Commit, or an error status: the hashes differ, or the disk fails.       *)
ReceiveDone(s) ==
    LET m == Head(wire[Peer(s)])
        p == m.path
    IN
    /\ Receives(s, "done") /\ pend' = [pend EXCEPT ![s][p] = None]
    /\ IF pend[s][p] = None
       THEN UNCHANGED <<eng, noticed, errors, faults>>
       ELSE \/ /\ eng[s].staging[p] = m.body
               /\ LET e == Commit(eng[s], p, pend[s][p]) IN
                  Becomes(s, e) /\ IF e.disk # eng[s].disk THEN Touched(s, p) ELSE UNCHANGED noticed
               /\ UNCHANGED <<errors, faults>>
            \/ /\ IF eng[s].staging[p] = m.body
                  THEN faults < MaxFaults[mode] /\ faults' = faults + 1
                  ELSE UNCHANGED faults
               /\ Becomes(s, Discard(eng[s], p))
               /\ Reported(s, p) /\ UNCHANGED noticed
    /\ UNCHANGED <<sendVars, stopped, armed, forgotten>>

(* queueRetryAfterPeerError: a live file is dirty again, for a rescan to   *)
(* find; a tombstone is queued.                                            *)
ReceiveError(s) ==
    LET p == Head(wire[Peer(s)]).path IN
    /\ Receives(s, "error")
    /\ IF Control(s) THEN UNCHANGED <<eng, queue>>
       ELSE IF eng[s].index[p] # None
       THEN Becomes(s, RetryAsLive(eng[s], p)) /\ UNCHANGED queue
       ELSE /\ IF eng[s].tombs[p] # 0 /\ mode[s] # "staging"
               THEN Enqueued(s, p, ForcedDelete(eng[s].tombs[p])) ELSE UNCHANGED queue
            /\ UNCHANGED eng
    /\ UNCHANGED <<noticed, work, job, cancelled, stopped, armed, pend, errors, faults>>

(* cancelOutbound and resetOutbound.                                       *)
ReceiveCancel(s) ==
    /\ Receives(s, "cancel")
    /\ stopped' = stopped \cup {s}
    /\ cancelled' = [cancelled EXCEPT ![s] = Senders]
    /\ queue' = [queue EXCEPT ![s] = NoTasks]
    /\ UNCHANGED <<engineVars, work, job, armed, pend, errors, faults>>

ReceiveResume(s) ==
    LET queued == wire[Peer(s)] IN
    /\ conn /\ queued # <<>> /\ Head(queued).type = "resume"
    /\ wire' = [wire EXCEPT ![Peer(s)][1] = Msg("manifest", None, Head(queued).body)]
    /\ stopped' = IF Control(s) THEN stopped ELSE stopped \ {s}
    /\ UNCHANGED <<engineVars, sendVars, mode, conn, opening, armed, controls, pend, errors, bounds,
                   history>>

---------------------------------------------------------------------------
Receive(s) == \/ ReceiveManifest(s) \/ ReceiveDelete(s) \/ ReceiveMeta(s) \/ ReceiveChunk(s)
              \/ ReceiveDone(s) \/ ReceiveError(s) \/ ReceiveCancel(s) \/ ReceiveResume(s)
Transfer(s, g) == \/ \E p \in Paths : BeginTask(s, g, p)
                  \/ SendChunk(s, g) \/ SendDone(s, g) \/ SendAborted(s, g)
SendLoop(s) == \/ Drain(s) \/ DropBatch(s) \/ Transfer(s, "loop")
               \/ \E p \in Paths : SendError(s, p)
               \/ s = "client" /\ SendControl
Watch(s) == \E p \in Paths : WatchEvent(s, p) \/ Rescan(s, p)
Users == \/ \E s \in Sides, p \in Paths :
               UserDelete(s, p) \/ \E c \in Contents : UserWrite(s, p, c)
         \/ \E kind \in {"cancel", "resume"} : Ask(kind)

Next ==
    \/ Users \/ Connect
    \/ \E down \in SUBSET Sides : Cut(down)
    \/ \E s \in Sides : \/ Open(s) \/ FlushIndex(s) \/ Watch(s) \/ SendLoop(s)
                        \/ FallbackFires(s) \/ Transfer(s, "fallback") \/ Receive(s)

Spec == Init /\ [][Next]_vars

(* The daemon reconnects; the goroutines of a session keep running, and    *)
(* select, which picks among the ready cases at random, passes no case of  *)
(* the send loop over for ever.                                            *)
Fairness ==
    /\ WF_vars(Connect)
    /\ \A s \in Sides :
          /\ WF_vars(Open(s)) /\ WF_vars(Watch(s)) /\ WF_vars(SendLoop(s)) /\ WF_vars(Receive(s))
          /\ WF_vars(FallbackFires(s)) /\ WF_vars(Transfer(s, "fallback"))
          /\ SF_vars(\E p \in Paths : SendError(s, p))
    /\ SF_vars(SendControl)
LiveSpec == Spec /\ Fairness

---------------------------------------------------------------------------
(* Properties                                                              *)

(* Every variable has its type, only a session that answers with files has *)
(* a fallback timer or a queue, a sender is within its file, and a         *)
(* transfer that is being received has its staging file.                   *)
TypeOK ==
    /\ eng \in [Sides -> Engine] /\ mode \in Modes /\ conn \in BOOLEAN
    /\ opening \subseteq Sides /\ stopped \subseteq Sides
    /\ cancelled \in [Sides -> SUBSET Senders]
    /\ queue \in [Sides -> [Paths -> Task \cup {None}]]
    /\ work \in [Sides -> [Senders -> [Paths -> Task \cup {None}]]]
    /\ job \in [Sides -> [Senders -> Job \cup {None}]]
    /\ \A s \in Sides, g \in Senders : job[s][g] # None => Len(job[s][g].sent) <= Blocks
    /\ armed \subseteq {s \in Sides \ opening : ~Control(s)}
    /\ \A s \in Sides : Control(s) => queue[s] = NoTasks
    /\ controls \in Seq({"cancel", "resume"}) /\ wire \in [Sides -> Seq(Message)]
    /\ pend \in [Sides -> [Paths -> Nat \cup {None}]]
    /\ \A s \in Sides, p \in Paths : pend[s][p] # None => eng[s].staging[p] # None
    /\ errors \in [Sides -> SUBSET Paths] /\ noticed \in [Sides -> SUBSET Paths]
    /\ edits \in 0..MaxEdits /\ cuts \in 0..MaxCuts
    /\ asks \in 0..MaxAsks[mode] /\ faults \in 0..MaxFaults[mode]
    /\ calm \in BOOLEAN /\ fell \in BOOLEAN
    /\ forgotten \subseteq Sides \X Paths
    /\ deleted \subseteq Paths /\ crossed \subseteq Paths /\ restored \subseteq Paths
    /\ past \in [Sides -> [Paths -> SUBSET Whole]]

(* Nothing is under way, nor will be unless a user or the network acts.  A *)
(* staging session goes on queueing a path it finds missing, and a side    *)
(* that has been told to stop what it finds changed, for nothing.          *)
Skipped(s, p) == s \in stopped \/ (mode[s] = "staging" /\ eng[s].disk[p] = None)
Quiet ==
    /\ conn /\ opening = {} /\ armed = {} /\ controls = <<>>
    /\ \A s \in Sides :
          /\ wire[s] = <<>> /\ errors[s] = {} /\ noticed[s] = {}
          /\ \A g \in Senders : job[s][g] = None
          /\ \A p \in Paths : \/ Skipped(s, p)
                              \/ /\ queue[s][p] = None /\ \A g \in Senders : work[s][g][p] = None
                                 /\ Control(s) \/ ~Changed(eng[s], p)

Same(p) == LET f == eng["client"].disk[p]
               g == eng["server"].disk[p]
           IN f = g \/ (f # None /\ g # None /\ f.data = g.data)
Arrived(p) == LET f == eng["client"].disk[p]
                  g == eng["server"].disk[p]
              IN f # None => g # None /\ (f.data = g.data \/ f.mtime < g.mtime)
Dropped(p) == \E s \in Sides : <<s, p>> \in forgotten
SameDate(p) == LET f == eng["client"].disk[p]
                   g == eng["server"].disk[p]
               IN f # None /\ g # None /\ f.mtime = g.mtime

(* What the workspaces differ in when a session of two full sides starts,  *)
(* the exchange of manifests settles, if users leave the files alone       *)
(* meanwhile: however earlier sessions ended, both workspaces hold the     *)
(* same files in the end.  Files of one date are left alone: those of a    *)
(* path that a user deletes in the middle of a transfer can stay           *)
(* different.  (Run, DiffManifests, applyManifestPause, Commit and         *)
(* ApplyDelete.)                                                           *)
ReconnectHeals ==
    Quiet /\ calm /\ ~fell /\ stopped = {} /\ (\A s \in Sides : ~Control(s)) =>
        \A p \in Paths \ crossed : Same(p) \/ Dropped(p) \/ (p \in deleted /\ SameDate(p))

(* A control-only server, which sends no manifest, gets every file of the  *)
(* daemon's workspace that nobody deletes, or has a newer one: over edits  *)
(* in mid-transfer, failed commits, cancels and broken streams.  Left out  *)
(* are paths two goroutines have streamed at once and edits a resume took  *)
(* for sent, the subject of the next two; and files a user has given a     *)
(* content they had before, which a scan takes for the file that was sent, *)
(* though it may have changed and changed back as its blocks were read.    *)
UploadsArrive ==
    Quiet /\ Control("server") =>
        \A p \in Paths \ (deleted \cup crossed \cup restored) : Arrived(p) \/ Dropped(p)

(* "degrade to the legacy 'push everything force=true' SendSnapshot -       *)
(* slower but correct": the fallback next to the send loop.                *)
FallbackIsCorrect ==
    Quiet /\ Control("server") =>
        \A p \in Paths \ (deleted \cup restored) : Arrived(p) \/ Dropped(p)

(* QueueResumeDownload is "Always-safe to fire": it costs no edit.         *)
ResumeIsSafe ==
    Quiet /\ Control("server") =>
        \A p \in Paths \ (deleted \cup crossed \cup restored) : Arrived(p)

(* Only what a user has deleted disappears from a workspace: no scan,      *)
(* manifest, tombstone or reconnection makes a deletion up.                *)
NoPhantomDelete ==
    [][\A s \in Sides, p \in Paths :
          eng[s].disk[p] # None /\ eng'[s].disk[p] = None => p \in deleted']_vars

(* The sessions come to rest: what one commits the other does not send     *)
(* back for ever, and no retry goes on without end.                        *)
Quiesces == <>[]Quiet
=============================================================================
