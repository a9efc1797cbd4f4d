----------------------------- MODULE SyncService ------------------------------
(***************************************************************************)
(* kari-syncd's Service (internal/syncd): one bound workspace and the run  *)
(* loop that keeps a filesync session to the server.  Handlers, run loops  *)
(* and session hooks are concurrent and take Service.mu                    *)
(* for one short section at a time: an action is one section.              *)
(* A run loop that was cancelled lives on until it notices, so an old loop *)
(* and a new one overlap.  What the sync tasks do is in SyncBarrier; here  *)
(* a create or a cancel is what it does to the service.                    *)
(***************************************************************************)
EXTENDS Naturals

CONSTANTS
    Binds,       \* bind requests: [root, name, controlOnly]
    Roots, Names,
    Loops,       \* run loops, each started once, in order
    None,
    MaxBinds, MaxEnds, MaxCancels, MaxCreates   \* bounds

ASSUME ServiceAssumption ==
    /\ Binds \subseteq [root : Roots, name : Names, controlOnly : BOOLEAN]
    /\ Loops \subseteq Nat /\ None \notin Binds /\ None \notin Loops
    /\ {MaxBinds, MaxEnds, MaxCancels, MaxCreates} \subseteq Nat

VARIABLES
    bind, epoch,              \* the bound workspace, bindEpoch
    running, cancel,          \* s.running; the loop s.cancel cancels
    connected, activeSession,
    paused,                   \* pausedDownloads
    loop,                     \* the run loops and their sessions
    downloads,                \* names that ever had a download task
    creator, canceller,       \* handlers under way
    late, overlapped,         \* history: see the properties
    ends, cancels, creates

bindVars    == <<bind, epoch>>
statusVars  == <<connected, activeSession>>
handlerVars == <<downloads, creator, canceller>>
countVars   == <<ends, cancels, creates>>
serviceVars == <<bindVars, running, cancel, statusVars, paused, loop, handlerVars,
                 late, overlapped, countVars>>

Phases == {"idle", "dialing", "checked", "published", "session", "returned",
           "stopping", "done"}

(* phase: where runLoop and runOnce are; bind: the request runOnce copied; *)
(* hello: the peer has acknowledged; peerSending: nothing told it to stop. *)
(* What a loop no longer reads is reset, to keep the states few.           *)
Loop == [phase : Phases, cancelled : BOOLEAN, bind : Binds \cup {None},
         startPaused : BOOLEAN, hello : BOOLEAN, peerSending : BOOLEAN]

NewLoop == [phase |-> "idle", cancelled |-> FALSE, bind |-> None,
            startPaused |-> FALSE, hello |-> FALSE, peerSending |-> FALSE]

(* A handler under way, with the session it read at its start; None in the *)
(* place of one that is over, which no call reaches any more.              *)
Creator   == [name : Names \cup {None}, session : Loops \cup {None},
              stage : {"resume", "tell", "kick"}]
Canceller == [name : Names, session : Loops \cup {None}, stage : {"mark", "send"}]

ASSUME NoneIsNothing == None \notin Loop \cup Creator \cup Canceller

At(l, p) == loop[l] # None /\ loop[l].phase = p

Init ==
    /\ bind = None /\ epoch = 0
    /\ running = FALSE /\ cancel = None
    /\ connected = FALSE /\ activeSession = None
    /\ paused = {}
    /\ loop = [l \in Loops |-> None]
    /\ downloads = {} /\ creator = None /\ canceller = None
    /\ late = {} /\ overlapped = FALSE
    /\ ends = 0 /\ cancels = 0 /\ creates = 0

-----------------------------------------------------------------------------
(* Bind, Start and Stop.                                                   *)

Cancelled == IF cancel = None THEN loop ELSE [loop EXCEPT ![cancel].cancelled = TRUE]

(* A change of root, or of control-only mode, cancels the run loop; any    *)
(* other bind leaves it running on the request it copied.                  *)
Rebuilds(b) == bind # None /\ (bind.root # b.root \/ bind.controlOnly # b.controlOnly)

BindVersion(b) == epoch < MaxBinds /\ epoch' = epoch + 1 /\ bind' = b
BindFrame == UNCHANGED <<paused, handlerVars, late, overlapped, countVars>>

BindForgetsCancel(b) ==                                                 \* faulty
    /\ BindVersion(b)
    /\ IF Rebuilds(b)
       THEN /\ cancel' = None /\ running' = FALSE
            /\ connected' = FALSE /\ activeSession' = None
            /\ UNCHANGED loop
       ELSE UNCHANGED <<loop, cancel, running, connected, activeSession>>
    /\ BindFrame
BindStaysConnected(b) ==                                                \* faulty
    /\ BindVersion(b)
    /\ IF Rebuilds(b)
       THEN /\ loop' = Cancelled /\ cancel' = None /\ running' = FALSE
            /\ activeSession' = None
            /\ UNCHANGED connected
       ELSE UNCHANGED <<loop, cancel, running, connected, activeSession>>
    /\ BindFrame
Bind(b) ==
    /\ BindVersion(b)
    /\ IF Rebuilds(b)
       THEN /\ loop' = Cancelled /\ cancel' = None /\ running' = FALSE
            /\ connected' = FALSE /\ activeSession' = None
       ELSE UNCHANGED <<loop, cancel, running, connected, activeSession>>
    /\ BindFrame

(* Start, unless a loop is running.                                        *)
LaunchUnbound(l) ==                                                     \* faulty
    /\ ~running
    /\ loop[l] = None /\ \A k \in Loops : k < l => loop[k] # None
    /\ running' = TRUE /\ cancel' = l
    /\ loop' = [loop EXCEPT ![l] = NewLoop]
Launch(l) ==
    /\ ~running /\ bind # None
    /\ loop[l] = None /\ \A k \in Loops : k < l => loop[k] # None
    /\ running' = TRUE /\ cancel' = l
    /\ loop' = [loop EXCEPT ![l] = NewLoop]

Start(l) ==
    /\ Launch(l)
    /\ UNCHANGED <<bindVars, statusVars, paused, handlerVars, late,
                   overlapped, countVars>>

Stop ==
    /\ loop' = Cancelled
    /\ cancel' = None /\ running' = FALSE /\ connected' = FALSE
    /\ UNCHANGED <<bindVars, activeSession, paused, handlerVars, late,
                   overlapped, countVars>>

-----------------------------------------------------------------------------
(* The run loop.                                                           *)
RunFrame == UNCHANGED <<bindVars, cancel, paused, handlerVars, 
                        overlapped, cancels, creates>>

(* runOnce copies the bind; a cancelled loop ends here or in its dial.     *)
RunOnce(l) ==
    /\ At(l, "idle")
    /\ loop' = [loop EXCEPT ![l] = IF @.cancelled THEN [@ EXCEPT !.phase = "done"]
                                   ELSE [@ EXCEPT !.phase = "dialing", !.bind = bind]]
    /\ RunFrame /\ UNCHANGED <<running, statusVars, late, ends>>

(* What ends a dial or a session: the cancel, or the network.              *)
Reset(l, p) == loop' = [loop EXCEPT ![l] = [NewLoop EXCEPT !.phase = p,
                                                           !.cancelled = loop[l].cancelled]]
Broken(l) == /\ loop[l].cancelled \/ ends < MaxEnds
             /\ ends' = IF loop[l].cancelled THEN ends ELSE ends + 1

DialFails(l) ==
    /\ At(l, "dialing") /\ Broken(l)
    /\ Reset(l, "idle")
    /\ RunFrame /\ UNCHANGED <<running, statusVars, late>>

(* isDownloadPaused, read before the session is published to the handlers. *)
CheckPausedNever(l) ==                                                  \* faulty
    /\ At(l, "dialing")
    /\ loop' = [loop EXCEPT ![l].phase = "checked", ![l].startPaused = FALSE]
    /\ RunFrame /\ UNCHANGED <<running, statusVars, late, ends>>
CheckPaused(l) ==
    /\ At(l, "dialing")
    /\ loop' = [loop EXCEPT ![l].phase = "checked",
                            ![l].startPaused = loop[l].bind.name \in paused]
    /\ RunFrame /\ UNCHANGED <<running, statusVars, late, ends>>

Publish(l) ==
    /\ At(l, "checked")
    /\ activeSession' = l
    /\ loop' = [loop EXCEPT ![l].phase = "published", ![l].peerSending = TRUE]
    /\ late' = IF loop[l].cancelled THEN late \cup {"publish"} ELSE late
    /\ RunFrame /\ UNCHANGED <<running, connected, ends>>

(* Session.Run: a paused session queues a cancel for the peer, behind what *)
(* the handlers queued since it was published.                             *)
RunSession(l) ==
    /\ At(l, "published")
    /\ loop' = [loop EXCEPT ![l].phase = "session",
                            ![l].startPaused = FALSE,
                            ![l].peerSending = @ /\ ~loop[l].startPaused]
    /\ RunFrame /\ UNCHANGED <<running, statusVars, late, ends>>

(* The handshake-ack hook.                                                 *)
HandshakeSilent(l) ==                                                   \* faulty
    /\ At(l, "session") /\ ~loop[l].hello
    /\ loop' = [loop EXCEPT ![l].hello = TRUE]
    /\ late' = IF loop[l].cancelled THEN late \cup {"handshake"} ELSE late
    /\ RunFrame /\ UNCHANGED <<running, statusVars, ends>>
Handshake(l) ==
    /\ At(l, "session") /\ ~loop[l].hello
    /\ connected' = TRUE
    /\ loop' = [loop EXCEPT ![l].hello = TRUE]
    /\ late' = IF loop[l].cancelled THEN late \cup {"handshake"} ELSE late
    /\ RunFrame /\ UNCHANGED <<running, activeSession, ends>>

RunReturns(l) ==
    /\ At(l, "session") /\ Broken(l)
    /\ loop' = [loop EXCEPT ![l].phase = "returned", ![l].peerSending = FALSE]
    /\ RunFrame /\ UNCHANGED <<running, statusVars, late>>

(* A handler that still points to the session of l points to a dead one.   *)
Forget(h, l) == IF h # None /\ h.session = l THEN [h EXCEPT !.session = None] ELSE h

(* setConnected(false), whichever session is connected by now, and the     *)
(* deferred withdrawal of the loop's own session; a server that says the   *)
(* session was replaced or revoked stops the loop for good.                *)
DisconnectFrame(l) ==
    /\ creator' = Forget(creator, l) /\ canceller' = Forget(canceller, l)
    /\ UNCHANGED <<bindVars, running, cancel, paused, downloads, overlapped, countVars>>

LateIf(kind, l) == late' = IF cancel \notin {l, None} THEN late \cup {kind} ELSE late

DisconnectAny(l) ==                                                     \* faulty
    /\ At(l, "returned")
    /\ connected' = FALSE /\ activeSession' = None
    /\ \E p \in {"idle", "stopping"} : Reset(l, p)
    /\ LateIf("disconnect", l)
    /\ DisconnectFrame(l)
Disconnect(l) ==
    /\ At(l, "returned")
    /\ connected' = FALSE
    /\ activeSession' = IF activeSession = l THEN None ELSE activeSession
    /\ \E p \in {"idle", "stopping"} : Reset(l, p)
    /\ LateIf("disconnect", l)
    /\ DisconnectFrame(l)

(* markKicked and markRevoked.                                             *)
MarkStopped(l) ==
    /\ At(l, "stopping")
    /\ Reset(l, "done")
    /\ running' = FALSE /\ connected' = FALSE
    /\ LateIf("stop", l)
    /\ RunFrame /\ UNCHANGED <<activeSession, ends>>

-----------------------------------------------------------------------------
(* CreateSyncTask: read the service, and for a download clear the pause    *)
(* flag and then tell the session seen at the start to resume.             *)
CreateFrame == UNCHANGED <<bindVars, statusVars, canceller, late,
                           ends, cancels>>

CreateRead(down) ==
    /\ creator = None /\ creates < MaxCreates /\ creates' = creates + 1
    /\ bind # None /\ ~bind.controlOnly
    /\ creator' = IF down
                  THEN [name |-> bind.name, session |-> activeSession, stage |-> "resume"]
                  ELSE [name |-> None, session |-> None, stage |-> "kick"]
    /\ downloads' = IF down THEN downloads \cup {bind.name} ELSE downloads
    /\ overlapped' = (overlapped \/ canceller # None)
    /\ CreateFrame /\ UNCHANGED <<running, cancel, paused, loop>>

(* The stream of a session carries control messages until Run returns.     *)
Tell(l, sending) == IF l # None /\ loop[l].phase \in {"published", "session"}
                    THEN [loop EXCEPT ![l].peerSending = sending] ELSE loop

CreateResume ==
    /\ creator # None /\ creator.stage = "resume"
    /\ paused' = paused \ {creator.name}
    /\ creator' = [creator EXCEPT !.stage = "tell"]
    /\ CreateFrame /\ UNCHANGED <<running, cancel, loop, downloads, overlapped, creates>>

CreateTell ==
    /\ creator # None /\ creator.stage = "tell"
    /\ loop' = Tell(creator.session, TRUE)
    /\ creator' = [name |-> None, session |-> None, stage |-> "kick"]
    /\ CreateFrame /\ UNCHANGED <<running, cancel, paused, downloads, overlapped, creates>>

(* TriggerSync starts the run loop if none is running; the last disjunct   *)
(* is the end of the supply of loops.                                      *)
CreateKick ==
    /\ creator # None /\ creator.stage = "kick"
    /\ creator' = None
    /\ \/ ~bind.controlOnly /\ \E l \in Loops : Launch(l)
       \/ /\ running \/ bind.controlOnly \/ \A l \in Loops : loop[l] # None
          /\ UNCHANGED <<running, cancel, loop>>
    /\ CreateFrame /\ UNCHANGED <<paused, downloads, overlapped, creates>>

(* CancelSyncTask of a download, in whatever state its task is: pause the  *)
(* project's downloads and tell the session seen at the start to stop.     *)
CancelFrame == UNCHANGED <<bindVars, running, cancel, statusVars, downloads, creator,
                           late, ends, creates>>

CancelRead(n) ==
    /\ canceller = None /\ cancels < MaxCancels /\ cancels' = cancels + 1
    /\ n \in downloads
    /\ canceller' = [name |-> n, session |-> activeSession, stage |-> "mark"]
    /\ overlapped' = (overlapped \/ creator # None)
    /\ CancelFrame /\ UNCHANGED <<paused, loop>>

CancelMark ==
    /\ canceller # None /\ canceller.stage = "mark"
    /\ paused' = paused \cup {canceller.name}
    /\ canceller' = [canceller EXCEPT !.stage = "send"]
    /\ overlapped' = (overlapped \/ canceller.session # activeSession
                      \/ \E l \in Loops : At(l, "checked"))
    /\ CancelFrame /\ UNCHANGED <<loop, cancels>>

CancelSend ==
    /\ canceller # None /\ canceller.stage = "send"
    /\ loop' = Tell(canceller.session, FALSE)
    /\ canceller' = None
    /\ CancelFrame /\ UNCHANGED <<paused, overlapped, cancels>>

-----------------------------------------------------------------------------
Advance(l) == \/ RunOnce(l) \/ CheckPaused(l) \/ Publish(l) \/ RunSession(l)
              \/ Handshake(l) \/ Disconnect(l) \/ MarkStopped(l)
Handlers == CreateResume \/ CreateTell \/ CreateKick \/ CancelMark \/ CancelSend

Next ==
    \/ \E b \in Binds : Bind(b)
    \/ \E l \in Loops : Start(l) \/ Advance(l) \/ DialFails(l) \/ RunReturns(l)
    \/ Stop \/ Handlers
    \/ \E down \in BOOLEAN : CreateRead(down)
    \/ \E n \in Names : CancelRead(n)

(* A started goroutine runs on: the steps of a run loop that nothing but   *)
(* the scheduler and a reachable server delay.                             *)
Spec == Init /\ [][Next]_serviceVars /\ \A l \in Loops : WF_serviceVars(Advance(l))

-----------------------------------------------------------------------------
(* Properties.                                                             *)

(* Every variable has its type, and a loop past its start has a request.   *)
TypeOK ==
    /\ bind \in Binds \cup {None} /\ epoch \in 0 .. MaxBinds
    /\ running \in BOOLEAN /\ cancel \in Loops \cup {None}
    /\ connected \in BOOLEAN /\ activeSession \in Loops \cup {None}
    /\ paused \subseteq Names /\ downloads \subseteq Names
    /\ loop \in [Loops -> Loop \cup {None}]
    /\ \A l \in Loops : loop[l] # None =>
           (loop[l].bind = None <=> loop[l].phase \in {"idle", "stopping", "done"})
    /\ creator \in Creator \cup {None} /\ canceller \in Canceller \cup {None}
    /\ late \subseteq {"publish", "handshake", "disconnect", "stop"}
    /\ overlapped \in BOOLEAN
    /\ ends \in 0 .. MaxEnds /\ cancels \in 0 .. MaxCancels /\ creates \in 0 .. MaxCreates

(* While the daemon says it is running, the loop that Stop would cancel is *)
(* alive, and no other is: two loops of one client would have the server   *)
(* evict the one for the other over and over.  The exception is a loop     *)
(* told to stop for good that reports it after a newer loop was started.   *)
Alive(l) == loop[l] # None /\ ~loop[l].cancelled /\ loop[l].phase # "done"
OneLoop ==
    /\ running => cancel # None /\ Alive(cancel)
    /\ "stop" \notin late => \A k, l \in Loops : Alive(k) /\ Alive(l) => k = l

(* Status says connected only for a session whose handshake was answered   *)
(* and that nobody has cancelled.  The exception is a cancelled session    *)
(* whose handshake is answered before it notices.                          *)
StatusTruthful ==
    connected /\ "handshake" \notin late =>
        \E l \in Loops : /\ loop[l] # None /\ loop[l].hello /\ ~loop[l].cancelled
                         /\ loop[l].phase \in {"session", "returned"}

(* The handlers reach the session that is live: an old loop that winds     *)
(* down does not withdraw its successor's session.  The exceptions are a   *)
(* cancelled loop that publishes its session late, and the one of OneLoop. *)
SessionReachable ==
    \A l \in Loops :
        At(l, "session") /\ ~loop[l].cancelled /\ late \cap {"publish", "stop"} = {}
        => activeSession = l

(* A cancelled download stays cancelled over reconnects: a session of a    *)
(* paused project does not make the server push until a create resumes it. *)
(* The exceptions are overlapped, when the cancel ran alongside a create,  *)
(* or alongside a run loop between asking for the pause and publishing,    *)
(* and the one of OneLoop.                                                 *)
PausedStaysQuiet ==
    \A l \in Loops :
        /\ ~overlapped /\ "stop" \notin late /\ creator = None /\ canceller = None
        /\ At(l, "session") /\ ~loop[l].cancelled
        /\ activeSession = l /\ loop[l].bind.name \in paused
        => ~loop[l].peerSending

(* A running daemon gets connected, or is stopped.  The exception is an    *)
(* old loop that reports its end on the status of a newer one.             *)
Served ==
    running ~> \/ connected \/ ~running
               \/ late \cap {"disconnect", "stop"} # {}
=============================================================================
