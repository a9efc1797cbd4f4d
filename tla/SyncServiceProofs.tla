------------------------- MODULE SyncServiceProofs -------------------------
(***************************************************************************)
(* For any number of run loops, binds and handlers: what kari-syncd's      *)
(* Service says of itself is true of its run loops, except for the late    *)
(* steps of a cancelled loop that the history variable late records.       *)
(***************************************************************************)
EXTENDS SyncService, TLAPS

(* A loop inside one session, from its publication to its withdrawal.      *)
InSession(l) == loop[l] # None /\ loop[l].phase \in {"published", "session", "returned"}

(* A loop is started only for a bound workspace, and a session pointer     *)
(* always leads to a session that is not over.                             *)
Pointers ==
    \A l \in Loops :
        /\ loop[l] # None => bind # None
        /\ cancel = l => loop[l] # None
        /\ activeSession = l => InSession(l)
        /\ creator # None /\ creator.session = l => InSession(l)
        /\ canceller # None /\ canceller.session = l => InSession(l)

(* The loop Stop would cancel is alive while the service runs, and until a *)
(* loop reports its end late no other loop is.                             *)
Current ==
    /\ running => cancel \in Loops /\ Alive(cancel)
    /\ "stop" \notin late => \A l \in Loops : Alive(l) => running /\ cancel = l

(* The session of a loop nobody cancelled is the one handlers see.         *)
Reachable ==
    late \cap {"publish", "stop"} = {} =>
        \A l \in Loops : InSession(l) /\ ~loop[l].cancelled => activeSession = l

(* A live loop works on the workspace that is bound.                       *)
SameWorkspace(a, b) == a.root = b.root /\ a.controlOnly = b.controlOnly

OnWorkspace ==
    "stop" \notin late =>
        \A l \in Loops : Alive(l) /\ loop[l].bind # None => SameWorkspace(loop[l].bind, bind)

(* A cancel is still to be sent to the session of l.                       *)
Pending(l) == canceller # None /\ canceller.stage = "send" /\ canceller.session = l

(* Where the pause of a download is on its way to the peer.                *)
Quiet ==
    ~overlapped /\ "stop" \notin late =>
        /\ creator = None \/ canceller = None
        /\ creator # None /\ creator.stage = "tell" => creator.name \notin paused
        /\ \A l \in Loops :
             /\ Alive(l) /\ creator # None /\ creator.session = l
                  => creator.name = loop[l].bind.name
             /\ Alive(l) /\ loop[l].phase = "checked" /\ loop[l].bind.name \in paused
                  => loop[l].startPaused
             /\ Alive(l) /\ loop[l].phase \in {"published", "session"}
                /\ activeSession = l /\ loop[l].bind.name \in paused
                  => \/ loop[l].phase = "published" /\ loop[l].startPaused
                     \/ ~loop[l].peerSending \/ Pending(l)

(* A workspace root has one name in each mode.                             *)
NamePerRoot == \A a, b \in Binds : SameWorkspace(a, b) => a.name = b.name

-----------------------------------------------------------------------------
(* What each step does to the loops.                                       *)

Between == {"idle", "stopping", "done"}

(* Loop l takes a step, or is started: it is a loop again, and the others  *)
(* are left alone.                                                         *)
Moves(l) ==
    /\ loop' \in [Loops -> Loop \cup {None}]
    /\ loop'[l] \in Loop /\ loop'[l] # None
    /\ \A k \in Loops \ {l} : loop'[k] = loop[k]

From(l, p) == loop[l] \in Loop /\ loop[l] # None /\ loop[l].phase = p

LEMMA MoveTo ==
    ASSUME TypeOK, NEW l \in Loops, NEW r \in Loop, loop' = [loop EXCEPT ![l] = r]
    PROVE  Moves(l) /\ loop'[l] = r
  BY NoneIsNothing DEF Moves, TypeOK

LEMMA AtFrom == ASSUME TypeOK, NEW l \in Loops, NEW p, At(l, p) PROVE From(l, p)
  BY DEF TypeOK, At, From

(* ... and goes from stage p to q of the same connection.                  *)
Steps(l, p, q) ==
    /\ Moves(l) /\ From(l, p) /\ loop'[l].phase = q
    /\ loop'[l].cancelled = loop[l].cancelled /\ loop'[l].bind = loop[l].bind

(* RunOnce copies the bind, unless the loop was cancelled.                 *)
LEMMA RunOnceEffect ==
    ASSUME TypeOK, NEW l \in Loops, RunOnce(l), Pointers
    PROVE  /\ Moves(l) /\ From(l, "idle") /\ loop'[l].cancelled = loop[l].cancelled
           /\ loop[l].bind = None /\ bind \in Binds
           /\ IF loop[l].cancelled THEN loop'[l].phase = "done" /\ loop'[l].bind = None
              ELSE loop'[l].phase = "dialing" /\ loop'[l].bind = bind
           /\ UNCHANGED <<bind, running, cancel, connected, activeSession,
                paused, creator, canceller, late, overlapped>>
<1> DEFINE r == IF loop[l].cancelled THEN [loop[l] EXCEPT !.phase = "done"]
                 ELSE [loop[l] EXCEPT !.phase = "dialing", !.bind = bind]
<1>1. From(l, "idle")
  BY AtFrom DEF RunOnce
<1>2. r \in Loop
  BY <1>1 DEF From, Loop, Phases, TypeOK
<1>3. loop' = [loop EXCEPT ![l] = r]
  BY <1>1 DEF TypeOK, Loop, From, RunOnce
<1>4. Moves(l) /\ loop'[l] = r
  BY <1>1, <1>2, <1>3, MoveTo DEF From
<1>5. bind \in Binds /\ loop[l].bind = None
  BY <1>1 DEF TypeOK, Pointers, From
<1>6. UNCHANGED <<bind, running, cancel, connected, activeSession, paused, creator,
                 canceller, late, overlapped>>
  BY DEF RunOnce, RunFrame, bindVars, statusVars, handlerVars
<1> QED
  BY <1>1, <1>4, <1>5, <1>6 DEF From, Loop

(* CheckPaused reads the pause flag of the project the loop connects for.  *)
LEMMA CheckPausedEffect ==
    ASSUME TypeOK, NEW l \in Loops, CheckPaused(l)
    PROVE  /\ Steps(l, "dialing", "checked")
           /\ loop[l].bind.name \in paused => loop'[l].startPaused
           /\ UNCHANGED <<bind, running, cancel, connected, activeSession,
                paused, creator, canceller, late, overlapped>>
<1> DEFINE e == loop[l].bind.name \in paused
           r == [loop[l] EXCEPT !.phase = "checked", !.startPaused = e]
<1>1. From(l, "dialing")
  BY AtFrom DEF CheckPaused
<1>2. r \in Loop
  <2>1. \A b \in BOOLEAN :
           [loop[l] EXCEPT !.phase = "checked", !.startPaused = b] \in Loop
    BY <1>1 DEF From, Loop, Phases
  <2>2. e \in BOOLEAN
    OBVIOUS
  <2> QED
    BY <2>1, <2>2, Zenon
<1>3. loop' = [loop EXCEPT ![l] = r]
  BY <1>1, Zenon DEF TypeOK, Loop, From, CheckPaused
<1>4. Moves(l) /\ loop'[l] = r
  BY <1>1, <1>2, <1>3, MoveTo DEF From
<1>5. DOMAIN loop[l] = {"phase", "cancelled", "bind", "startPaused", "hello",
                        "peerSending"}
  BY <1>1 DEF From, Loop
<1>6. loop'[l].startPaused = e
  <2>1. r.startPaused = e
    BY <1>5, Zenon
  <2> QED
    BY <1>4, <2>1, Zenon
<1>7. UNCHANGED <<bind, running, cancel, connected, activeSession, paused, creator,
                 canceller, late, overlapped>>
  BY DEF CheckPaused, RunFrame, bindVars, statusVars, handlerVars
<1> QED
  BY <1>1, <1>4, <1>6, <1>7 DEF Steps, From, Loop

(* Publish: the session carries what it was told when it was made.         *)
LEMMA PublishEffect ==
    ASSUME TypeOK, NEW l \in Loops, Publish(l)
    PROVE  /\ Steps(l, "checked", "published")
           /\ loop'[l].startPaused = loop[l].startPaused
           /\ activeSession' = l
           /\ late' = IF loop[l].cancelled THEN late \cup {"publish"} ELSE late
           /\ UNCHANGED <<bind, running, cancel, connected, paused, creator,
                canceller, overlapped>>
<1> DEFINE r == [loop[l] EXCEPT !.phase = "published", !.peerSending = TRUE]
<1>1. From(l, "checked")
  BY AtFrom DEF Publish
<1>2. r \in Loop
  BY <1>1 DEF From, Loop, Phases
<1>3. loop' = [loop EXCEPT ![l] = r]
  BY <1>1 DEF TypeOK, Loop, From, Publish
<1>4. Moves(l) /\ loop'[l] = r
  BY <1>1, <1>2, <1>3, MoveTo DEF From
<1>5. /\ activeSession' = l
      /\ late' = IF loop[l].cancelled THEN late \cup {"publish"} ELSE late
      /\ UNCHANGED <<bind, running, cancel, connected, paused, creator, canceller,
                 overlapped>>
  BY DEF Publish, RunFrame, bindVars, handlerVars
<1> QED
  BY <1>1, <1>4, <1>5 DEF Steps, From, Loop

(* RunSession: a session that starts paused silences the peer.             *)
LEMMA RunSessionEffect ==
    ASSUME TypeOK, NEW l \in Loops, RunSession(l)
    PROVE  /\ Steps(l, "published", "session")
           /\ loop'[l].peerSending => loop[l].peerSending /\ ~loop[l].startPaused
           /\ UNCHANGED <<bind, running, cancel, connected, activeSession,
                paused, creator, canceller, late, overlapped>>
<1> DEFINE r == [loop[l] EXCEPT !.phase = "session", !.startPaused = FALSE,
                              !.peerSending = @ /\ ~loop[l].startPaused]
<1>1. From(l, "published")
  BY AtFrom DEF RunSession
<1>2. r \in Loop
  BY <1>1 DEF From, Loop, Phases
<1>3. loop' = [loop EXCEPT ![l] = r]
  BY <1>1 DEF TypeOK, Loop, From, RunSession
<1>4. Moves(l) /\ loop'[l] = r
  BY <1>1, <1>2, <1>3, MoveTo DEF From
<1>5. UNCHANGED <<bind, running, cancel, connected, activeSession, paused, creator,
                 canceller, late, overlapped>>
  BY DEF RunSession, RunFrame, bindVars, statusVars, handlerVars
<1> QED
  BY <1>1, <1>4, <1>5 DEF Steps, From, Loop

(* Handshake: the session is acknowledged.                                 *)
LEMMA HandshakeEffect ==
    ASSUME TypeOK, NEW l \in Loops, Handshake(l)
    PROVE  /\ Steps(l, "session", "session") /\ loop'[l].hello
           /\ loop'[l].startPaused = loop[l].startPaused
           /\ loop'[l].peerSending = loop[l].peerSending
           /\ connected'
           /\ late' = IF loop[l].cancelled THEN late \cup {"handshake"} ELSE late
           /\ UNCHANGED <<bind, running, cancel, activeSession, paused,
                creator, canceller, overlapped>>
<1> DEFINE r == [loop[l] EXCEPT !.hello = TRUE]
<1>1. From(l, "session")
  BY AtFrom DEF Handshake
<1>2. r \in Loop
  BY <1>1 DEF From, Loop, Phases
<1>3. loop' = [loop EXCEPT ![l] = r]
  BY <1>1 DEF TypeOK, Loop, From, Handshake
<1>4. Moves(l) /\ loop'[l] = r
  BY <1>1, <1>2, <1>3, MoveTo DEF From
<1>5. /\ connected'
      /\ late' = IF loop[l].cancelled THEN late \cup {"handshake"} ELSE late
      /\ UNCHANGED <<bind, running, cancel, activeSession, paused, creator,
                 canceller, overlapped>>
  BY DEF Handshake, RunFrame, bindVars, handlerVars
<1> QED
  BY <1>1, <1>4, <1>5 DEF Steps, From, Loop

(* RunReturns: the session has ended and is not yet withdrawn.             *)
LEMMA RunReturnsEffect ==
    ASSUME TypeOK, NEW l \in Loops, RunReturns(l)
    PROVE  /\ Steps(l, "session", "returned")
           /\ loop'[l].hello = loop[l].hello
           /\ UNCHANGED <<bind, running, cancel, connected, activeSession,
                paused, creator, canceller, late, overlapped>>
<1> DEFINE r == [loop[l] EXCEPT !.phase = "returned", !.peerSending = FALSE]
<1>1. From(l, "session")
  BY AtFrom DEF RunReturns
<1>2. r \in Loop
  BY <1>1 DEF From, Loop, Phases
<1>3. loop' = [loop EXCEPT ![l] = r]
  BY <1>1 DEF TypeOK, Loop, From, RunReturns
<1>4. Moves(l) /\ loop'[l] = r
  BY <1>1, <1>2, <1>3, MoveTo DEF From
<1>5. UNCHANGED <<bind, running, cancel, connected, activeSession, paused, creator,
                 canceller, late, overlapped>>
  BY DEF RunReturns, RunFrame, bindVars, statusVars, handlerVars
<1> QED
  BY <1>1, <1>4, <1>5 DEF Steps, From, Loop

(* A loop that is reset forgets its connection, not that it was cancelled. *)
LEMMA ResetEffect ==
    ASSUME TypeOK, NEW l \in Loops, NEW p \in Phases, loop[l] \in Loop, Reset(l, p)
    PROVE  /\ Moves(l) /\ loop'[l].phase = p /\ loop'[l].bind = None
           /\ loop'[l].cancelled = loop[l].cancelled
<1> DEFINE r == [NewLoop EXCEPT !.phase = p, !.cancelled = loop[l].cancelled]
<1>1. r \in Loop
  BY DEF Loop, NewLoop
<1>2. loop' = [loop EXCEPT ![l] = r]
  BY DEF Reset
<1>3. Moves(l) /\ loop'[l] = r
  BY <1>1, <1>2, MoveTo
<1> QED
  BY <1>3 DEF NewLoop

(* A started loop is new, and is the one Stop would cancel.                *)
LEMMA LaunchEffect ==
    ASSUME TypeOK, NEW l \in Loops, Launch(l)
    PROVE  /\ Moves(l) /\ loop[l] = None /\ loop'[l] = NewLoop
           /\ ~running /\ running' /\ cancel' = l /\ bind # None
<1>1. NewLoop \in Loop
  BY DEF Loop, NewLoop, Phases
<1> QED
  BY <1>1, MoveTo DEF Launch

(* Cancelling marks the one loop, if there is one, and nothing else.       *)
SameButCancelled(k) ==
    /\ loop'[k] # None <=> loop[k] # None
    /\ loop[k] # None =>
         /\ loop'[k].phase = loop[k].phase /\ loop'[k].bind = loop[k].bind
         /\ loop'[k].startPaused = loop[k].startPaused
         /\ loop'[k].peerSending = loop[k].peerSending
         /\ loop'[k].hello = loop[k].hello
         /\ loop'[k].cancelled <=> loop[k].cancelled \/ k = cancel

LEMMA CancelledEffect ==
    ASSUME TypeOK, Pointers, loop' = Cancelled
    PROVE  /\ loop' \in [Loops -> Loop \cup {None}]
           /\ \A k \in Loops : SameButCancelled(k)
<1>1. CASE cancel = None
  BY <1>1, ServiceAssumption DEF TypeOK, Cancelled, SameButCancelled
<1>2. CASE cancel # None
  <2>1. cancel \in Loops /\ loop[cancel] \in Loop
    BY <1>2 DEF TypeOK, Pointers
  <2> QED
    BY ZenonT(60), <1>2, <2>1, NoneIsNothing DEF TypeOK, Cancelled, SameButCancelled, Loop
<1> QED
  BY <1>1, <1>2

(* A control message changes what the peer was last told in one session.   *)
SameButTold(k) ==
    /\ loop'[k] # None <=> loop[k] # None
    /\ loop[k] # None =>
         /\ loop'[k].phase = loop[k].phase /\ loop'[k].bind = loop[k].bind
         /\ loop'[k].startPaused = loop[k].startPaused
         /\ loop'[k].hello = loop[k].hello
         /\ loop'[k].cancelled = loop[k].cancelled

LEMMA TellEffect ==
    ASSUME TypeOK, NEW l \in Loops \cup {None}, l # None => InSession(l),
           NEW sending \in BOOLEAN, loop' = Tell(l, sending)
    PROVE  /\ loop' \in [Loops -> Loop \cup {None}]
           /\ \A k \in Loops : SameButTold(k)
           /\ \A k \in Loops : k # l => loop'[k] = loop[k]
           /\ l # None /\ loop[l].phase \in {"published", "session"}
                => loop'[l].peerSending = sending
<1>1. CASE l # None /\ loop[l].phase \in {"published", "session"}
  <2>1. l \in Loops /\ loop[l] \in Loop /\ loop[l] # None
    BY <1>1 DEF TypeOK, InSession
  <2> QED
    BY <1>1, <2>1, NoneIsNothing DEF TypeOK, Tell, SameButTold, Loop
<1>2. CASE ~(l # None /\ loop[l].phase \in {"published", "session"})
  BY <1>2 DEF TypeOK, Tell, SameButTold
<1> QED
  BY <1>1, <1>2

(* The steps that end a dial or a session.                                 *)
LEMMA DialFailsEffect ==
    ASSUME TypeOK, NEW l \in Loops, DialFails(l)
    PROVE  /\ Moves(l) /\ From(l, "dialing")
           /\ loop'[l].phase = "idle" /\ loop'[l].bind = None
           /\ loop'[l].cancelled = loop[l].cancelled
           /\ UNCHANGED <<bind, running, cancel, connected, activeSession, paused,
                          creator, canceller, late, overlapped>>
<1>1. From(l, "dialing") /\ Reset(l, "idle")
  BY AtFrom DEF DialFails
<1>2. UNCHANGED <<bind, running, cancel, connected, activeSession, paused, creator,
                  canceller, late, overlapped>>
  BY DEF DialFails, RunFrame, bindVars, statusVars, handlerVars
<1> QED
  BY <1>1, <1>2, ResetEffect DEF From, Phases

(* Disconnect also makes the handlers forget the session.                  *)
Forgotten(l) ==
    /\ creator' # None <=> creator # None
    /\ creator # None =>
         /\ creator'.name = creator.name /\ creator'.stage = creator.stage
         /\ creator'.session = IF creator.session = l THEN None ELSE creator.session
    /\ canceller' # None <=> canceller # None
    /\ canceller # None =>
         /\ canceller'.name = canceller.name /\ canceller'.stage = canceller.stage
         /\ canceller'.session = IF canceller.session = l THEN None ELSE canceller.session

LEMMA ForgetEffect ==
    ASSUME TypeOK, NEW l \in Loops,
           creator' = Forget(creator, l), canceller' = Forget(canceller, l)
    PROVE  Forgotten(l)
<1>1. /\ creator # None => creator \in Creator
      /\ canceller # None => canceller \in Canceller
  BY DEF TypeOK
<1>2. /\ creator # None => creator' \in Creator
      /\ canceller # None => canceller' \in Canceller
  BY <1>1 DEF Forget, Creator, Canceller
<1> QED
  BY <1>1, <1>2, NoneIsNothing DEF Forget, Forgotten, Creator, Canceller

LEMMA DisconnectEffect ==
    ASSUME TypeOK, NEW l \in Loops, Disconnect(l)
    PROVE  /\ Moves(l) /\ From(l, "returned")
           /\ loop'[l].phase \in {"idle", "stopping"} /\ loop'[l].bind = None
           /\ loop'[l].cancelled = loop[l].cancelled
           /\ ~connected'
           /\ activeSession' = IF activeSession = l THEN None ELSE activeSession
           /\ Forgotten(l)
           /\ late' \in {late, late \cup {"disconnect"}}
           /\ UNCHANGED <<bind, running, cancel, paused, overlapped>>
<1>1. From(l, "returned") /\ \E p \in {"idle", "stopping"} : Reset(l, p)
  BY AtFrom DEF Disconnect
<1>2. PICK p \in {"idle", "stopping"} : Reset(l, p)
  BY <1>1
<1>3. /\ ~connected'
      /\ activeSession' = IF activeSession = l THEN None ELSE activeSession
      /\ creator' = Forget(creator, l) /\ canceller' = Forget(canceller, l)
      /\ late' \in {late, late \cup {"disconnect"}}
      /\ UNCHANGED <<bind, running, cancel, paused, overlapped>>
  BY DEF Disconnect, DisconnectFrame, LateIf, bindVars
<1> QED
  BY <1>1, <1>2, <1>3, ResetEffect, ForgetEffect DEF From, Phases

LEMMA MarkStoppedEffect ==
    ASSUME TypeOK, NEW l \in Loops, MarkStopped(l)
    PROVE  /\ Moves(l) /\ From(l, "stopping")
           /\ loop'[l].phase = "done" /\ loop'[l].bind = None
           /\ loop'[l].cancelled = loop[l].cancelled
           /\ ~running' /\ ~connected'
           /\ late' = IF cancel \notin {l, None} THEN late \cup {"stop"} ELSE late
           /\ UNCHANGED <<bind, cancel, activeSession, paused, creator, canceller,
                          overlapped>>
<1>1. From(l, "stopping") /\ Reset(l, "done")
  BY AtFrom DEF MarkStopped
<1>2. /\ ~running' /\ ~connected'
      /\ late' = IF cancel \notin {l, None} THEN late \cup {"stop"} ELSE late
      /\ UNCHANGED <<bind, cancel, activeSession, paused, creator, canceller, overlapped>>
  BY DEF MarkStopped, LateIf, RunFrame, bindVars, handlerVars
<1> QED
  BY <1>1, <1>2, ResetEffect DEF From, Phases

(* Start, and the start in CreateKick.                                     *)
LEMMA StartEffect ==
    ASSUME TypeOK, NEW l \in Loops, Start(l)
    PROVE  /\ Moves(l) /\ loop[l] = None /\ loop'[l] = NewLoop
           /\ ~running /\ running' /\ cancel' = l /\ bind # None
           /\ UNCHANGED <<bind, connected, activeSession, paused, creator, canceller,
                          late, overlapped>>
<1>1. Launch(l)
  BY DEF Start
<1>2. UNCHANGED <<bind, connected, activeSession, paused, creator, canceller, late,
                  overlapped>>
  BY DEF Start, bindVars, statusVars, handlerVars
<1> QED
  BY <1>1, <1>2, LaunchEffect

LEMMA CreateKickEffect ==
    ASSUME TypeOK, CreateKick
    PROVE  /\ creator # None /\ creator' = None
           /\ UNCHANGED <<bind, connected, activeSession, paused, canceller, late,
                          overlapped>>
           /\ \/ \E l \in Loops :
                   /\ Moves(l) /\ loop[l] = None /\ loop'[l] = NewLoop
                   /\ ~running /\ running' /\ cancel' = l /\ bind # None
              \/ UNCHANGED <<running, cancel, loop>>
<1>1. /\ creator # None /\ creator' = None
      /\ UNCHANGED <<bind, connected, activeSession, paused, canceller, late, overlapped>>
  BY DEF CreateKick, CreateFrame, bindVars, statusVars
<1>2. (\E l \in Loops : Launch(l)) \/ UNCHANGED <<running, cancel, loop>>
  BY DEF CreateKick
<1> QED
  BY <1>1, <1>2, LaunchEffect

(* Bind and Stop.                                                          *)
Torn ==
    /\ loop' \in [Loops -> Loop \cup {None}] /\ \A k \in Loops : SameButCancelled(k)
    /\ cancel' = None /\ ~running' /\ ~connected'

LEMMA BindEffect ==
    ASSUME TypeOK, Pointers, NEW b \in Binds, Bind(b)
    PROVE  /\ bind' = b
           /\ UNCHANGED <<paused, creator, canceller, late, overlapped>>
           /\ \/ Torn /\ activeSession' = None
              \/ ~Rebuilds(b) /\ UNCHANGED <<loop, cancel, running, connected,
                                             activeSession>>
<1>1. /\ bind' = b
      /\ UNCHANGED <<paused, creator, canceller, late, overlapped>>
  BY DEF Bind, BindVersion, BindFrame, handlerVars
<1>2. CASE Rebuilds(b)
  <2>1. /\ loop' = Cancelled
        /\ cancel' = None /\ ~running' /\ ~connected' /\ activeSession' = None
    BY <1>2 DEF Bind
  <2> QED
    BY <1>1, <2>1, CancelledEffect DEF Torn
<1>3. CASE ~Rebuilds(b)
  BY <1>1, <1>3 DEF Bind
<1> QED
  BY <1>2, <1>3

LEMMA StopEffect ==
    ASSUME TypeOK, Pointers, Stop
    PROVE  /\ Torn
           /\ UNCHANGED <<bind, activeSession, paused, creator, canceller, late,
                          overlapped>>
<1>1. /\ loop' = Cancelled /\ cancel' = None /\ ~running' /\ ~connected'
      /\ UNCHANGED <<bind, activeSession, paused, creator, canceller, late, overlapped>>
  BY DEF Stop, bindVars, handlerVars
<1> QED
  BY <1>1, CancelledEffect DEF Torn

(* The handlers.                                                           *)
LEMMA CreateReadEffect ==
    ASSUME TypeOK, NEW down \in BOOLEAN, CreateRead(down)
    PROVE  /\ creator = None /\ bind \in Binds /\ creator' # None
           /\ creator'.stage # "tell"
           /\ \/ creator'.session = None
              \/ creator'.session = activeSession /\ creator'.name = bind.name
           /\ overlapped' = (overlapped \/ canceller # None)
           /\ UNCHANGED <<bind, running, cancel, connected, activeSession, loop, paused,
                          canceller, late>>
<1>1. /\ creator = None /\ bind \in Binds
      /\ overlapped' = (overlapped \/ canceller # None)
      /\ UNCHANGED <<bind, running, cancel, connected, activeSession, loop, paused,
                     canceller, late>>
  BY DEF TypeOK, CreateRead, CreateFrame, bindVars, statusVars
<1>2. bind.name \in Names
  BY <1>1, ServiceAssumption
<1>3. CASE down
  <2>1. creator' = [name |-> bind.name, session |-> activeSession, stage |-> "resume"]
    BY <1>3 DEF CreateRead
  <2>2. creator' \in Creator
    BY <1>2, <2>1 DEF TypeOK, Creator
  <2> QED
    BY <1>1, <2>1, <2>2, NoneIsNothing
<1>4. CASE ~down
  <2>1. creator' = [name |-> None, session |-> None, stage |-> "kick"]
    BY <1>4 DEF CreateRead
  <2>2. creator' \in Creator
    BY <2>1 DEF Creator
  <2> QED
    BY <1>1, <2>1, <2>2, NoneIsNothing
<1> QED
  BY <1>3, <1>4

LEMMA CreateResumeEffect ==
    ASSUME TypeOK, CreateResume
    PROVE  /\ creator # None /\ creator' # None
           /\ creator'.name = creator.name /\ creator'.session = creator.session
           /\ creator'.stage = "tell"
           /\ paused' = paused \ {creator.name}
           /\ UNCHANGED <<bind, running, cancel, connected, activeSession, loop,
                          canceller, late, overlapped>>
<1>1. /\ creator \in Creator /\ creator # None
      /\ paused' = paused \ {creator.name}
      /\ UNCHANGED <<bind, running, cancel, connected, activeSession, loop, canceller,
                     late, overlapped>>
  BY DEF TypeOK, CreateResume, CreateFrame, bindVars, statusVars
<1>2. creator' = [creator EXCEPT !.stage = "tell"] /\ creator' \in Creator
  BY <1>1 DEF CreateResume, Creator
<1> QED
  BY <1>1, <1>2, NoneIsNothing DEF Creator

LEMMA CreateTellEffect ==
    ASSUME TypeOK, Pointers, CreateTell
    PROVE  /\ creator # None /\ creator.stage = "tell"
           /\ creator' # None /\ creator'.session = None /\ creator'.stage = "kick"
           /\ loop' \in [Loops -> Loop \cup {None}] /\ \A k \in Loops : SameButTold(k)
           /\ \A k \in Loops : k # creator.session => loop'[k] = loop[k]
           /\ UNCHANGED <<bind, running, cancel, connected, activeSession, paused,
                          canceller, late, overlapped>>
<1>1. /\ creator \in Creator /\ creator # None /\ creator.stage = "tell"
      /\ creator' = [name |-> None, session |-> None, stage |-> "kick"]
      /\ loop' = Tell(creator.session, TRUE)
      /\ UNCHANGED <<bind, running, cancel, connected, activeSession, paused, canceller,
                     late, overlapped>>
  BY DEF TypeOK, CreateTell, CreateFrame, bindVars, statusVars
<1>2. creator' \in Creator
  BY <1>1 DEF Creator
<1>3. /\ creator.session \in Loops \cup {None}
      /\ creator.session # None => InSession(creator.session)
  BY <1>1 DEF Creator, Pointers
<1>4. /\ loop' \in [Loops -> Loop \cup {None}] /\ \A k \in Loops : SameButTold(k)
      /\ \A k \in Loops : k # creator.session => loop'[k] = loop[k]
  BY <1>1, <1>3, TellEffect
<1> QED
  BY <1>1, <1>2, <1>4, NoneIsNothing

LEMMA CancelReadEffect ==
    ASSUME TypeOK, NEW n \in Names, CancelRead(n)
    PROVE  /\ canceller = None /\ canceller' # None /\ canceller'.stage = "mark"
           /\ canceller'.session = activeSession
           /\ overlapped' = (overlapped \/ creator # None)
           /\ UNCHANGED <<bind, running, cancel, connected, activeSession, loop, paused,
                          creator, late>>
<1>1. /\ canceller = None
      /\ canceller' = [name |-> n, session |-> activeSession, stage |-> "mark"]
      /\ overlapped' = (overlapped \/ creator # None)
      /\ UNCHANGED <<bind, running, cancel, connected, activeSession, loop, paused,
                     creator, late>>
  BY DEF CancelRead, CancelFrame, bindVars, statusVars
<1>2. canceller' \in Canceller
  BY <1>1 DEF TypeOK, Canceller
<1> QED
  BY <1>1, <1>2, NoneIsNothing

LEMMA CancelMarkEffect ==
    ASSUME TypeOK, CancelMark
    PROVE  /\ canceller # None /\ canceller.stage = "mark"
           /\ canceller' # None /\ canceller'.stage = "send"
           /\ canceller'.session = canceller.session
           /\ paused' = paused \cup {canceller.name}
           /\ overlapped' = (overlapped \/ canceller.session # activeSession
                             \/ \E l \in Loops : At(l, "checked"))
           /\ UNCHANGED <<bind, running, cancel, connected, activeSession, loop,
                          creator, late>>
<1>1. /\ canceller \in Canceller /\ canceller # None /\ canceller.stage = "mark"
      /\ paused' = paused \cup {canceller.name}
      /\ overlapped' = (overlapped \/ canceller.session # activeSession
                        \/ \E l \in Loops : At(l, "checked"))
      /\ UNCHANGED <<bind, running, cancel, connected, activeSession, loop, creator, late>>
  BY DEF TypeOK, CancelMark, CancelFrame, bindVars, statusVars
<1>2. canceller' = [canceller EXCEPT !.stage = "send"] /\ canceller' \in Canceller
  BY <1>1 DEF CancelMark, Canceller
<1> QED
  BY <1>1, <1>2, NoneIsNothing DEF Canceller

LEMMA CancelSendEffect ==
    ASSUME TypeOK, Pointers, CancelSend
    PROVE  /\ canceller # None /\ canceller' = None
           /\ loop' \in [Loops -> Loop \cup {None}] /\ \A k \in Loops : SameButTold(k)
           /\ \A k \in Loops : k # canceller.session => loop'[k] = loop[k]
           /\ canceller.session # None /\ loop[canceller.session].phase # "returned"
                => ~loop'[canceller.session].peerSending
           /\ UNCHANGED <<bind, running, cancel, connected, activeSession, paused,
                          creator, late, overlapped>>
<1>1. /\ canceller \in Canceller /\ canceller # None /\ canceller' = None
      /\ loop' = Tell(canceller.session, FALSE)
      /\ UNCHANGED <<bind, running, cancel, connected, activeSession, paused, creator,
                     late, overlapped>>
  BY DEF TypeOK, CancelSend, CancelFrame, bindVars, statusVars
<1>2. /\ canceller.session \in Loops \cup {None}
      /\ canceller.session # None => InSession(canceller.session)
  BY <1>1 DEF Canceller, Pointers
<1>3. /\ loop' \in [Loops -> Loop \cup {None}] /\ \A k \in Loops : SameButTold(k)
      /\ \A k \in Loops : k # canceller.session => loop'[k] = loop[k]
      /\ canceller.session # None /\ loop[canceller.session].phase \in {"published", "session"}
           => loop'[canceller.session].peerSending = FALSE
  BY <1>1, <1>2, TellEffect
<1> QED
  BY <1>1, <1>2, <1>3 DEF InSession

-----------------------------------------------------------------------------
(* The types.                                                              *)

LoopTypes ==
    /\ loop \in [Loops -> Loop \cup {None}]
    /\ \A l \in Loops : loop[l] # None => (loop[l].bind = None <=> loop[l].phase \in Between)

(* Every step keeps the loops typed, each with a request from its dial on. *)
LEMMA LoopTypesStep ==
    ASSUME TypeOK, LoopTypes, Pointers, [Next]_serviceVars
    PROVE  LoopTypes'
<1> USE ServiceAssumption DEF LoopTypes, Between
<1>1. ASSUME NEW b \in Binds, Bind(b) PROVE LoopTypes'
  BY <1>1, BindEffect DEF Torn, SameButCancelled
<1>2. ASSUME NEW l \in Loops, Start(l) PROVE LoopTypes'
  BY <1>2, StartEffect DEF Moves, NewLoop
<1>3. ASSUME NEW l \in Loops, RunOnce(l) PROVE LoopTypes'
  BY <1>3, RunOnceEffect DEF Moves, From
<1>4. ASSUME NEW l \in Loops, CheckPaused(l) PROVE LoopTypes'
  BY <1>4, CheckPausedEffect DEF Steps, Moves, From
<1>5. ASSUME NEW l \in Loops, Publish(l) PROVE LoopTypes'
  BY <1>5, PublishEffect DEF Steps, Moves, From
<1>6. ASSUME NEW l \in Loops, RunSession(l) PROVE LoopTypes'
  BY <1>6, RunSessionEffect DEF Steps, Moves, From
<1>7. ASSUME NEW l \in Loops, Handshake(l) PROVE LoopTypes'
  BY <1>7, HandshakeEffect DEF Steps, Moves, From
<1>8. ASSUME NEW l \in Loops, Disconnect(l) PROVE LoopTypes'
  BY <1>8, DisconnectEffect DEF Moves, From, Forgotten
<1>9. ASSUME NEW l \in Loops, MarkStopped(l) PROVE LoopTypes'
  BY <1>9, MarkStoppedEffect DEF Moves, From
<1>10. ASSUME NEW l \in Loops, DialFails(l) PROVE LoopTypes'
  BY <1>10, DialFailsEffect DEF Moves, From
<1>11. ASSUME NEW l \in Loops, RunReturns(l) PROVE LoopTypes'
  BY <1>11, RunReturnsEffect DEF Steps, Moves, From
<1>12. CASE Stop
  BY <1>12, StopEffect DEF Torn, SameButCancelled
<1>13. CASE CreateResume
  BY <1>13, CreateResumeEffect
<1>14. CASE CreateTell
  BY <1>14, CreateTellEffect DEF SameButTold
<1>15. CASE CreateKick
  BY <1>15, CreateKickEffect DEF Moves, NewLoop
<1>16. CASE CancelMark
  BY <1>16, CancelMarkEffect
<1>17. CASE CancelSend
  BY <1>17, CancelSendEffect DEF SameButTold
<1>18. ASSUME NEW down \in BOOLEAN, CreateRead(down) PROVE LoopTypes'
  BY <1>18, CreateReadEffect
<1>19. ASSUME NEW n \in Names, CancelRead(n) PROVE LoopTypes'
  BY <1>19, CancelReadEffect
<1>20. CASE UNCHANGED serviceVars
  BY <1>20 DEF serviceVars, bindVars, statusVars, handlerVars
<1> QED
  BY <1>1, <1>2, <1>3, <1>4, <1>5, <1>6, <1>7, <1>8, <1>9, <1>10, <1>11, <1>12,
     <1>13, <1>14, <1>15, <1>16, <1>17, <1>18, <1>19, <1>20
  DEF Next, Advance, Handlers

(* Every step keeps the session pointers on sessions.                      *)
LEMMA PointersStep ==
    ASSUME TypeOK, Pointers, [Next]_serviceVars
    PROVE  Pointers'
<1> USE ServiceAssumption DEF Pointers, InSession
<1>1. ASSUME NEW b \in Binds, Bind(b) PROVE Pointers'
  BY <1>1, BindEffect DEF Torn, SameButCancelled
<1>2. ASSUME NEW l \in Loops, Start(l) PROVE Pointers'
  BY <1>2, StartEffect DEF Moves, NewLoop
<1>3. ASSUME NEW l \in Loops, RunOnce(l) PROVE Pointers'
  BY <1>3, RunOnceEffect DEF Moves, From
<1>4. ASSUME NEW l \in Loops, CheckPaused(l) PROVE Pointers'
  <2>1. Steps(l, "dialing", "checked") /\ UNCHANGED <<bind, running, cancel, activeSession, creator, canceller>>
    BY <1>4, CheckPausedEffect
  <2> QED
    BY <2>1 DEF Steps, Moves, From
<1>5. ASSUME NEW l \in Loops, Publish(l) PROVE Pointers'
  BY <1>5, PublishEffect DEF Steps, Moves, From
<1>6. ASSUME NEW l \in Loops, RunSession(l) PROVE Pointers'
  BY <1>6, RunSessionEffect DEF Steps, Moves, From
<1>7. ASSUME NEW l \in Loops, Handshake(l) PROVE Pointers'
  <2>1. Steps(l, "session", "session") /\ UNCHANGED <<bind, running, cancel, activeSession, creator, canceller>>
    BY <1>7, HandshakeEffect
  <2> QED
    BY <2>1 DEF Steps, Moves, From
<1>8. ASSUME NEW l \in Loops, Disconnect(l) PROVE Pointers'
  <2>1. /\ Moves(l) /\ From(l, "returned") /\ Forgotten(l)
        /\ activeSession' = IF activeSession = l THEN None ELSE activeSession
        /\ UNCHANGED <<bind, cancel>>
    BY <1>8, DisconnectEffect
  <2>2. SUFFICES ASSUME NEW k \in Loops
                 PROVE  /\ loop'[k] # None => bind' # None
                        /\ cancel' = k => loop'[k] # None
                        /\ activeSession' = k => InSession(k)'
                        /\ creator' # None /\ creator'.session = k => InSession(k)'
                        /\ canceller' # None /\ canceller'.session = k => InSession(k)'
    OBVIOUS
  <2>3. None # k
    OBVIOUS
  <2>4. CASE k = l
    BY <2>1, <2>3, <2>4 DEF Moves, From, Forgotten
  <2>5. CASE k # l
    <3>1. loop'[k] = loop[k]
      BY <2>1, <2>5 DEF Moves
    <3> QED
      BY <2>1, <2>3, <2>5, <3>1 DEF Forgotten
  <2> QED
    BY <2>4, <2>5
<1>9. ASSUME NEW l \in Loops, MarkStopped(l) PROVE Pointers'
  BY <1>9, MarkStoppedEffect DEF Moves, From
<1>10. ASSUME NEW l \in Loops, DialFails(l) PROVE Pointers'
  BY ZenonT(60), <1>10, DialFailsEffect DEF Moves, From
<1>11. ASSUME NEW l \in Loops, RunReturns(l) PROVE Pointers'
  BY <1>11, RunReturnsEffect DEF Steps, Moves, From
<1>12. CASE Stop
  BY <1>12, StopEffect DEF Torn, SameButCancelled
<1>13. CASE CreateResume
  BY <1>13, CreateResumeEffect
<1>14. CASE CreateTell
  BY <1>14, CreateTellEffect DEF SameButTold
<1>15. CASE CreateKick
  BY <1>15, CreateKickEffect DEF Moves, NewLoop
<1>16. CASE CancelMark
  BY <1>16, CancelMarkEffect
<1>17. CASE CancelSend
  BY <1>17, CancelSendEffect DEF SameButTold
<1>18. ASSUME NEW down \in BOOLEAN, CreateRead(down) PROVE Pointers'
  BY <1>18, CreateReadEffect
<1>19. ASSUME NEW n \in Names, CancelRead(n) PROVE Pointers'
  BY <1>19, CancelReadEffect
<1>20. CASE UNCHANGED serviceVars
  BY <1>20 DEF serviceVars, bindVars, statusVars, handlerVars
<1> QED
  BY <1>1, <1>2, <1>3, <1>4, <1>5, <1>6, <1>7, <1>8, <1>9, <1>10, <1>11, <1>12,
     <1>13, <1>14, <1>15, <1>16, <1>17, <1>18, <1>19, <1>20
  DEF Next, Advance, Handlers

(* The other variables.                                                    *)
Scalars ==
    /\ bind \in Binds \cup {None} /\ epoch \in 0 .. MaxBinds
    /\ running \in BOOLEAN /\ cancel \in Loops \cup {None}
    /\ connected \in BOOLEAN /\ activeSession \in Loops \cup {None}
    /\ paused \subseteq Names /\ downloads \subseteq Names
    /\ creator \in Creator \cup {None} /\ canceller \in Canceller \cup {None}
    /\ late \subseteq {"publish", "handshake", "disconnect", "stop"}
    /\ overlapped \in BOOLEAN
    /\ ends \in 0 .. MaxEnds /\ cancels \in 0 .. MaxCancels /\ creates \in 0 .. MaxCreates

(* Every step keeps the other types.                                       *)
LEMMA ScalarsStep ==
    ASSUME Scalars, [Next]_serviceVars
    PROVE  Scalars'
<1> USE ServiceAssumption DEF Scalars
<1>1. ASSUME NEW b \in Binds, Bind(b) PROVE Scalars'
  <2>1. epoch' \in 0 .. MaxBinds /\ bind' = b
    BY <1>1 DEF Bind, BindVersion
  <2>2. CASE Rebuilds(b)
    <3>1. cancel' = None /\ running' = FALSE /\ connected' = FALSE /\ activeSession' = None
      BY <1>1, <2>2 DEF Bind
    <3> QED
      BY <1>1, <2>1, <3>1 DEF Bind, BindFrame, handlerVars, countVars
  <2>3. CASE ~Rebuilds(b)
    BY <1>1, <2>1, <2>3 DEF Bind, BindFrame, handlerVars, countVars
  <2> QED
    BY <2>2, <2>3
<1>2. ASSUME NEW l \in Loops, Start(l) PROVE Scalars'
  BY <1>2 DEF Start, Launch, bindVars, statusVars, handlerVars, countVars
<1>3. ASSUME NEW l \in Loops, RunOnce(l) PROVE Scalars'
  BY <1>3 DEF RunOnce, RunFrame, bindVars, statusVars, handlerVars
<1>4. ASSUME NEW l \in Loops, CheckPaused(l) PROVE Scalars'
  BY <1>4 DEF CheckPaused, RunFrame, bindVars, statusVars, handlerVars
<1>5. ASSUME NEW l \in Loops, Publish(l) PROVE Scalars'
  BY <1>5 DEF Publish, RunFrame, bindVars, handlerVars
<1>6. ASSUME NEW l \in Loops, RunSession(l) PROVE Scalars'
  BY <1>6 DEF RunSession, RunFrame, bindVars, statusVars, handlerVars
<1>7. ASSUME NEW l \in Loops, Handshake(l) PROVE Scalars'
  BY <1>7 DEF Handshake, RunFrame, bindVars, handlerVars
<1>8. ASSUME NEW l \in Loops, Disconnect(l) PROVE Scalars'
  BY <1>8 DEF Disconnect, DisconnectFrame, LateIf, bindVars, countVars, Forget, Creator, Canceller
<1>9. ASSUME NEW l \in Loops, MarkStopped(l) PROVE Scalars'
  BY <1>9 DEF MarkStopped, LateIf, RunFrame, bindVars, handlerVars
<1>10. ASSUME NEW l \in Loops, DialFails(l) PROVE Scalars'
  BY <1>10 DEF DialFails, Broken, RunFrame, bindVars, statusVars, handlerVars
<1>11. ASSUME NEW l \in Loops, RunReturns(l) PROVE Scalars'
  BY <1>11 DEF RunReturns, Broken, RunFrame, bindVars, statusVars, handlerVars
<1>12. CASE Stop
  BY <1>12 DEF Stop, bindVars, handlerVars, countVars
<1>13. CASE CreateResume
  BY <1>13 DEF CreateResume, CreateFrame, bindVars, statusVars, Creator
<1>14. CASE CreateTell
  BY <1>14 DEF CreateTell, CreateFrame, bindVars, statusVars, Creator
<1>15. CASE CreateKick
  BY <1>15 DEF CreateKick, Launch, CreateFrame, bindVars, statusVars
<1>16. CASE CancelMark
  BY <1>16 DEF CancelMark, CancelFrame, bindVars, statusVars, Canceller
<1>17. CASE CancelSend
  BY <1>17 DEF CancelSend, CancelFrame, bindVars, statusVars
<1>18. ASSUME NEW down \in BOOLEAN, CreateRead(down) PROVE Scalars'
  BY <1>18 DEF CreateRead, CreateFrame, bindVars, statusVars, Creator
<1>19. ASSUME NEW n \in Names, CancelRead(n) PROVE Scalars'
  BY <1>19 DEF CancelRead, CancelFrame, bindVars, statusVars, Canceller
<1>20. CASE UNCHANGED serviceVars
  BY <1>20 DEF serviceVars, bindVars, statusVars, handlerVars, countVars
<1> QED
  BY <1>1, <1>2, <1>3, <1>4, <1>5, <1>6, <1>7, <1>8, <1>9, <1>10, <1>11, <1>12,
     <1>13, <1>14, <1>15, <1>16, <1>17, <1>18, <1>19, <1>20
  DEF Next, Advance, Handlers

LEMMA TypeStep == TypeOK /\ Pointers /\ [Next]_serviceVars => TypeOK'
<1>1. TypeOK <=> LoopTypes /\ Scalars
  BY DEF TypeOK, LoopTypes, Scalars, Between
<1>2. TypeOK' <=> LoopTypes' /\ Scalars'
  BY DEF TypeOK, LoopTypes, Scalars, Between
<1> QED
  BY <1>1, <1>2, LoopTypesStep, ScalarsStep

-----------------------------------------------------------------------------
(* The safety invariants.                                                  *)

(* Every step keeps the one live loop.                                     *)
LEMMA CurrentStep ==
    ASSUME TypeOK, Pointers, Current, [Next]_serviceVars
    PROVE  Current'
<1> USE ServiceAssumption DEF Current, Alive
<1>1. ASSUME NEW b \in Binds, Bind(b) PROVE Current'
  BY <1>1, BindEffect DEF Torn, SameButCancelled
<1>2. ASSUME NEW l \in Loops, Start(l) PROVE Current'
  <2>1. /\ Moves(l)
        /\ loop[l] = None
        /\ loop'[l] = NewLoop
        /\ ~running /\ running' /\ cancel' = l
        /\ UNCHANGED <<bind>>
    BY <1>2, StartEffect
  <2>2. "stop" \notin late' => "stop" \notin late
    BY <1>2, StartEffect
  <2> QED
    BY <2>1, <2>2 DEF Steps, Moves, From, NewLoop
<1>3. ASSUME NEW l \in Loops, RunOnce(l) PROVE Current'
  <2>1. /\ Moves(l)
        /\ From(l, "idle")
        /\ loop'[l].cancelled = loop[l].cancelled
        /\ ~loop[l].cancelled => loop'[l].phase = "dialing"
        /\ UNCHANGED <<bind, running, cancel>>
    BY <1>3, RunOnceEffect
  <2>2. "stop" \notin late' => "stop" \notin late
    BY <1>3, RunOnceEffect
  <2> QED
    BY <2>1, <2>2 DEF Steps, Moves, From, NewLoop
<1>4. ASSUME NEW l \in Loops, CheckPaused(l) PROVE Current'
  <2>1. Steps(l, "dialing", "checked") /\ UNCHANGED <<bind, running, cancel, activeSession, late>>
    BY <1>4, CheckPausedEffect
  <2> QED
    BY <2>1 DEF Steps, Moves, From
<1>5. ASSUME NEW l \in Loops, Publish(l) PROVE Current'
  <2>1. /\ Steps(l, "checked", "published")
        /\ UNCHANGED <<bind, running, cancel>>
    BY <1>5, PublishEffect
  <2>2. "stop" \notin late' => "stop" \notin late
    BY <1>5, PublishEffect
  <2> QED
    BY <2>1, <2>2 DEF Steps, Moves, From, NewLoop
<1>6. ASSUME NEW l \in Loops, RunSession(l) PROVE Current'
  <2>1. /\ Steps(l, "published", "session")
        /\ UNCHANGED <<bind, running, cancel>>
    BY <1>6, RunSessionEffect
  <2>2. "stop" \notin late' => "stop" \notin late
    BY <1>6, RunSessionEffect
  <2> QED
    BY <2>1, <2>2 DEF Steps, Moves, From, NewLoop
<1>7. ASSUME NEW l \in Loops, Handshake(l) PROVE Current'
  <2>1. Steps(l, "session", "session") /\ UNCHANGED <<bind, running, cancel, activeSession>>
    BY <1>7, HandshakeEffect
  <2>2. "stop" \notin late' => "stop" \notin late
    BY <1>7, HandshakeEffect
  <2> QED
    BY <2>1, <2>2 DEF Steps, Moves, From
<1>8. ASSUME NEW l \in Loops, Disconnect(l) PROVE Current'
  <2>1. /\ Moves(l)
        /\ From(l, "returned")
        /\ loop'[l].cancelled = loop[l].cancelled
        /\ loop'[l].phase # "done"
        /\ UNCHANGED <<bind, running, cancel>>
    BY <1>8, DisconnectEffect
  <2>2. "stop" \notin late' => "stop" \notin late
    BY <1>8, DisconnectEffect
  <2> QED
    BY <2>1, <2>2 DEF Steps, Moves, From, NewLoop
<1>9. ASSUME NEW l \in Loops, MarkStopped(l) PROVE Current'
  BY <1>9, MarkStoppedEffect DEF Moves, From
<1>10. ASSUME NEW l \in Loops, DialFails(l) PROVE Current'
  <2>1. /\ Moves(l)
        /\ From(l, "dialing")
        /\ loop'[l].cancelled = loop[l].cancelled
        /\ loop'[l].phase # "done"
        /\ UNCHANGED <<bind, running, cancel>>
    BY <1>10, DialFailsEffect
  <2>2. "stop" \notin late' => "stop" \notin late
    BY <1>10, DialFailsEffect
  <2> QED
    BY <2>1, <2>2 DEF Steps, Moves, From, NewLoop
<1>11. ASSUME NEW l \in Loops, RunReturns(l) PROVE Current'
  <2>1. /\ Steps(l, "session", "returned")
        /\ UNCHANGED <<bind, running, cancel>>
    BY <1>11, RunReturnsEffect
  <2>2. "stop" \notin late' => "stop" \notin late
    BY <1>11, RunReturnsEffect
  <2> QED
    BY <2>1, <2>2 DEF Steps, Moves, From, NewLoop
<1>12. CASE Stop
  BY <1>12, StopEffect DEF Torn, SameButCancelled
<1>13. CASE CreateResume
  BY <1>13, CreateResumeEffect
<1>14. CASE CreateTell
  <2>1. /\ \A k \in Loops : SameButTold(k)
        /\ UNCHANGED <<bind, running, cancel, late>>
    BY <1>14, CreateTellEffect
  <2> QED
    BY <2>1 DEF SameButTold
<1>15. CASE CreateKick
  BY <1>15, CreateKickEffect DEF Moves, NewLoop
<1>16. CASE CancelMark
  BY <1>16, CancelMarkEffect
<1>17. CASE CancelSend
  <2>1. /\ \A k \in Loops : SameButTold(k)
        /\ UNCHANGED <<bind, running, cancel, late>>
    BY <1>17, CancelSendEffect
  <2> QED
    BY <2>1 DEF SameButTold
<1>18. ASSUME NEW down \in BOOLEAN, CreateRead(down) PROVE Current'
  BY <1>18, CreateReadEffect
<1>19. ASSUME NEW n \in Names, CancelRead(n) PROVE Current'
  BY <1>19, CancelReadEffect
<1>20. CASE UNCHANGED serviceVars
  BY <1>20 DEF serviceVars, bindVars, statusVars, handlerVars
<1> QED
  BY <1>1, <1>2, <1>3, <1>4, <1>5, <1>6, <1>7, <1>8, <1>9, <1>10, <1>11, <1>12,
     <1>13, <1>14, <1>15, <1>16, <1>17, <1>18, <1>19, <1>20
  DEF Next, Advance, Handlers

(* Every step keeps the live session within the handlers' reach.           *)
LEMMA ReachableStep ==
    ASSUME TypeOK, Pointers, Current, Reachable, [Next]_serviceVars
    PROVE  Reachable'
<1> USE ServiceAssumption DEF Current, Alive, Reachable, InSession
<1>1. ASSUME NEW b \in Binds, Bind(b) PROVE Reachable'
  BY <1>1, BindEffect DEF Torn, SameButCancelled
<1>2. ASSUME NEW l \in Loops, Start(l) PROVE Reachable'
  BY <1>2, StartEffect DEF Moves, NewLoop
<1>3. ASSUME NEW l \in Loops, RunOnce(l) PROVE Reachable'
  BY <1>3, RunOnceEffect DEF Moves, From
<1>4. ASSUME NEW l \in Loops, CheckPaused(l) PROVE Reachable'
  BY <1>4, CheckPausedEffect DEF Steps, Moves, From
<1>5. ASSUME NEW l \in Loops, Publish(l) PROVE Reachable'
  BY <1>5, PublishEffect DEF Steps, Moves, From
<1>6. ASSUME NEW l \in Loops, RunSession(l) PROVE Reachable'
  BY <1>6, RunSessionEffect DEF Steps, Moves, From
<1>7. ASSUME NEW l \in Loops, Handshake(l) PROVE Reachable'
  BY <1>7, HandshakeEffect DEF Steps, Moves, From
<1>8. ASSUME NEW l \in Loops, Disconnect(l) PROVE Reachable'
  BY <1>8, DisconnectEffect DEF Moves, From, Forgotten
<1>9. ASSUME NEW l \in Loops, MarkStopped(l) PROVE Reachable'
  BY <1>9, MarkStoppedEffect DEF Moves, From
<1>10. ASSUME NEW l \in Loops, DialFails(l) PROVE Reachable'
  BY <1>10, DialFailsEffect DEF Moves, From
<1>11. ASSUME NEW l \in Loops, RunReturns(l) PROVE Reachable'
  BY <1>11, RunReturnsEffect DEF Steps, Moves, From
<1>12. CASE Stop
  BY <1>12, StopEffect DEF Torn, SameButCancelled
<1>13. CASE CreateResume
  BY <1>13, CreateResumeEffect
<1>14. CASE CreateTell
  BY <1>14, CreateTellEffect DEF SameButTold
<1>15. CASE CreateKick
  BY <1>15, CreateKickEffect DEF Moves, NewLoop
<1>16. CASE CancelMark
  BY <1>16, CancelMarkEffect
<1>17. CASE CancelSend
  BY <1>17, CancelSendEffect DEF SameButTold
<1>18. ASSUME NEW down \in BOOLEAN, CreateRead(down) PROVE Reachable'
  BY <1>18, CreateReadEffect
<1>19. ASSUME NEW n \in Names, CancelRead(n) PROVE Reachable'
  BY <1>19, CancelReadEffect
<1>20. CASE UNCHANGED serviceVars
  BY <1>20 DEF serviceVars, bindVars, statusVars, handlerVars
<1> QED
  BY <1>1, <1>2, <1>3, <1>4, <1>5, <1>6, <1>7, <1>8, <1>9, <1>10, <1>11, <1>12,
     <1>13, <1>14, <1>15, <1>16, <1>17, <1>18, <1>19, <1>20
  DEF Next, Advance, Handlers

(* Every step keeps the status truthful.                                   *)
LEMMA StatusStep ==
    ASSUME TypeOK, Pointers, StatusTruthful, [Next]_serviceVars
    PROVE  StatusTruthful'
<1> USE ServiceAssumption DEF StatusTruthful
<1>1. ASSUME NEW b \in Binds, Bind(b) PROVE StatusTruthful'
  BY <1>1, BindEffect DEF Torn, SameButCancelled
<1>2. ASSUME NEW l \in Loops, Start(l) PROVE StatusTruthful'
  BY <1>2, StartEffect DEF Moves, NewLoop
<1>3. ASSUME NEW l \in Loops, RunOnce(l) PROVE StatusTruthful'
  BY <1>3, RunOnceEffect DEF Moves, From
<1>4. ASSUME NEW l \in Loops, CheckPaused(l) PROVE StatusTruthful'
  BY <1>4, CheckPausedEffect DEF Steps, Moves, From
<1>5. ASSUME NEW l \in Loops, Publish(l) PROVE StatusTruthful'
  BY <1>5, PublishEffect DEF Steps, Moves, From
<1>6. ASSUME NEW l \in Loops, RunSession(l) PROVE StatusTruthful'
  BY <1>6, RunSessionEffect DEF Steps, Moves, From
<1>7. ASSUME NEW l \in Loops, Handshake(l) PROVE StatusTruthful'
  BY <1>7, HandshakeEffect DEF Steps, Moves, From
<1>8. ASSUME NEW l \in Loops, Disconnect(l) PROVE StatusTruthful'
  BY <1>8, DisconnectEffect DEF Moves, From, Forgotten
<1>9. ASSUME NEW l \in Loops, MarkStopped(l) PROVE StatusTruthful'
  BY <1>9, MarkStoppedEffect DEF Moves, From
<1>10. ASSUME NEW l \in Loops, DialFails(l) PROVE StatusTruthful'
  BY <1>10, DialFailsEffect DEF Moves, From
<1>11. ASSUME NEW l \in Loops, RunReturns(l) PROVE StatusTruthful'
  BY <1>11, RunReturnsEffect DEF Steps, Moves, From
<1>12. CASE Stop
  BY <1>12, StopEffect DEF Torn, SameButCancelled
<1>13. CASE CreateResume
  BY <1>13, CreateResumeEffect
<1>14. CASE CreateTell
  BY <1>14, CreateTellEffect DEF SameButTold
<1>15. CASE CreateKick
  BY <1>15, CreateKickEffect DEF Moves, NewLoop
<1>16. CASE CancelMark
  BY <1>16, CancelMarkEffect
<1>17. CASE CancelSend
  BY <1>17, CancelSendEffect DEF SameButTold
<1>18. ASSUME NEW down \in BOOLEAN, CreateRead(down) PROVE StatusTruthful'
  BY <1>18, CreateReadEffect
<1>19. ASSUME NEW n \in Names, CancelRead(n) PROVE StatusTruthful'
  BY <1>19, CancelReadEffect
<1>20. CASE UNCHANGED serviceVars
  BY <1>20 DEF serviceVars, bindVars, statusVars, handlerVars
<1> QED
  BY <1>1, <1>2, <1>3, <1>4, <1>5, <1>6, <1>7, <1>8, <1>9, <1>10, <1>11, <1>12,
     <1>13, <1>14, <1>15, <1>16, <1>17, <1>18, <1>19, <1>20
  DEF Next, Advance, Handlers

(* Every step keeps the live loop on the workspace that is bound.          *)
LEMMA OnWorkspaceStep ==
    ASSUME TypeOK, Pointers, Current, OnWorkspace, [Next]_serviceVars
    PROVE  OnWorkspace'
<1> USE ServiceAssumption DEF Current, OnWorkspace, Alive, SameWorkspace
<1>1. ASSUME NEW b \in Binds, Bind(b) PROVE OnWorkspace'
  <2>1. bind' = b /\ UNCHANGED late
    BY <1>1, BindEffect
  <2>2. CASE Torn
    BY <2>1, <2>2 DEF Torn, SameButCancelled
  <2>3. CASE ~Rebuilds(b) /\ UNCHANGED loop
    BY <2>1, <2>3 DEF Rebuilds, Pointers
  <2> QED
    BY <1>1, <2>2, <2>3, BindEffect
<1>2. ASSUME NEW l \in Loops, Start(l) PROVE OnWorkspace'
  BY <1>2, StartEffect DEF Moves, NewLoop
<1>3. ASSUME NEW l \in Loops, RunOnce(l) PROVE OnWorkspace'
  BY <1>3, RunOnceEffect DEF Moves, From
<1>4. ASSUME NEW l \in Loops, CheckPaused(l) PROVE OnWorkspace'
  <2>1. Steps(l, "dialing", "checked") /\ UNCHANGED <<bind, running, cancel, activeSession, late>>
    BY <1>4, CheckPausedEffect
  <2> QED
    BY <2>1 DEF Steps, Moves, From
<1>5. ASSUME NEW l \in Loops, Publish(l) PROVE OnWorkspace'
  BY <1>5, PublishEffect DEF Steps, Moves, From
<1>6. ASSUME NEW l \in Loops, RunSession(l) PROVE OnWorkspace'
  BY <1>6, RunSessionEffect DEF Steps, Moves, From
<1>7. ASSUME NEW l \in Loops, Handshake(l) PROVE OnWorkspace'
  <2>1. Steps(l, "session", "session") /\ UNCHANGED <<bind, running, cancel, activeSession>>
    BY <1>7, HandshakeEffect
  <2>2. "stop" \notin late' => "stop" \notin late
    BY <1>7, HandshakeEffect
  <2> QED
    BY <2>1, <2>2 DEF Steps, Moves, From
<1>8. ASSUME NEW l \in Loops, Disconnect(l) PROVE OnWorkspace'
  BY <1>8, DisconnectEffect DEF Moves, From, Forgotten
<1>9. ASSUME NEW l \in Loops, MarkStopped(l) PROVE OnWorkspace'
  BY <1>9, MarkStoppedEffect DEF Moves, From
<1>10. ASSUME NEW l \in Loops, DialFails(l) PROVE OnWorkspace'
  BY <1>10, DialFailsEffect DEF Moves, From
<1>11. ASSUME NEW l \in Loops, RunReturns(l) PROVE OnWorkspace'
  BY <1>11, RunReturnsEffect DEF Steps, Moves, From
<1>12. CASE Stop
  BY <1>12, StopEffect DEF Torn, SameButCancelled
<1>13. CASE CreateResume
  BY <1>13, CreateResumeEffect
<1>14. CASE CreateTell
  <2>1. /\ \A k \in Loops : SameButTold(k)
        /\ UNCHANGED <<bind, running, cancel, late>>
    BY <1>14, CreateTellEffect
  <2> QED
    BY <2>1 DEF SameButTold
<1>15. CASE CreateKick
  BY <1>15, CreateKickEffect DEF Moves, NewLoop
<1>16. CASE CancelMark
  BY <1>16, CancelMarkEffect
<1>17. CASE CancelSend
  <2>1. /\ \A k \in Loops : SameButTold(k)
        /\ UNCHANGED <<bind, running, cancel, late>>
    BY <1>17, CancelSendEffect
  <2> QED
    BY <2>1 DEF SameButTold
<1>18. ASSUME NEW down \in BOOLEAN, CreateRead(down) PROVE OnWorkspace'
  BY <1>18, CreateReadEffect
<1>19. ASSUME NEW n \in Names, CancelRead(n) PROVE OnWorkspace'
  BY <1>19, CancelReadEffect
<1>20. CASE UNCHANGED serviceVars
  BY <1>20 DEF serviceVars, bindVars, statusVars, handlerVars
<1> QED
  BY <1>1, <1>2, <1>3, <1>4, <1>5, <1>6, <1>7, <1>8, <1>9, <1>10, <1>11, <1>12,
     <1>13, <1>14, <1>15, <1>16, <1>17, <1>18, <1>19, <1>20
  DEF Next, Advance, Handlers

(* Every step keeps a paused project's session quiet, or about to be told. *)
LEMMA QuietStep ==
    ASSUME NamePerRoot, TypeOK, Pointers, Current, OnWorkspace, Quiet, [Next]_serviceVars
    PROVE  Quiet'
<1> USE ServiceAssumption DEF Quiet, Alive, Pending
<1>1. ASSUME NEW b \in Binds, Bind(b) PROVE Quiet'
  BY <1>1, BindEffect DEF Torn, SameButCancelled
<1>2. ASSUME NEW l \in Loops, Start(l) PROVE Quiet'
  BY <1>2, StartEffect DEF Moves, NewLoop, Pointers, InSession
<1>3. ASSUME NEW l \in Loops, RunOnce(l) PROVE Quiet'
  BY <1>3, RunOnceEffect DEF Moves, From, Pointers, InSession
<1>4. ASSUME NEW l \in Loops, CheckPaused(l) PROVE Quiet'
  <2>1. Steps(l, "dialing", "checked") /\ (loop[l].bind.name \in paused => loop'[l].startPaused)
    BY <1>4, CheckPausedEffect
  <2>2. UNCHANGED <<activeSession, paused, creator, canceller, late, overlapped>>
    BY <1>4, CheckPausedEffect
  <2>3. creator # None => creator.session # l
    BY <2>1 DEF Pointers, InSession, Steps, From
  <2>4. \A k \in Loops \ {l} : loop'[k] = loop[k]
    BY <2>1 DEF Steps, Moves
  <2> QED
    BY ZenonT(60), <2>1, <2>2, <2>3, <2>4 DEF Steps, From
<1>5. ASSUME NEW l \in Loops, Publish(l) PROVE Quiet'
  BY <1>5, PublishEffect DEF Steps, Moves, From
<1>6. ASSUME NEW l \in Loops, RunSession(l) PROVE Quiet'
  BY <1>6, RunSessionEffect DEF Steps, Moves, From
<1>7. ASSUME NEW l \in Loops, Handshake(l) PROVE Quiet'
  BY <1>7, HandshakeEffect DEF Steps, Moves, From
<1>8. ASSUME NEW l \in Loops, Disconnect(l) PROVE Quiet'
  BY <1>8, DisconnectEffect DEF Moves, From, Forgotten
<1>9. ASSUME NEW l \in Loops, MarkStopped(l) PROVE Quiet'
  BY <1>9, MarkStoppedEffect DEF Moves, From
<1>10. ASSUME NEW l \in Loops, DialFails(l) PROVE Quiet'
  BY <1>10, DialFailsEffect DEF Moves, From, Pointers, InSession
<1>11. ASSUME NEW l \in Loops, RunReturns(l) PROVE Quiet'
  BY <1>11, RunReturnsEffect DEF Steps, Moves, From
<1>12. CASE Stop
  BY <1>12, StopEffect DEF Torn, SameButCancelled
<1>13. CASE CreateResume
  BY <1>13, CreateResumeEffect
<1>14. CASE CreateTell
  BY <1>14, CreateTellEffect DEF SameButTold
<1>15. CASE CreateKick
  BY <1>15, CreateKickEffect DEF Moves, NewLoop
<1>16. CASE CancelMark
  BY <1>16, CancelMarkEffect DEF At
<1>17. CASE CancelSend
  BY <1>17, CancelSendEffect DEF SameButTold
<1>18. ASSUME NEW down \in BOOLEAN, CreateRead(down) PROVE Quiet'
  <2> SUFFICES ASSUME ~overlapped', "stop" \notin late' PROVE Quiet'
    OBVIOUS
  <2>1. ~overlapped /\ "stop" \notin late /\ canceller = None
    BY <1>18, CreateReadEffect
  <2>2. /\ bind \in Binds /\ creator'.stage # "tell"
        /\ creator'.session = None \/ (creator'.session = activeSession /\ creator'.name = bind.name)
        /\ UNCHANGED <<loop, activeSession, paused, canceller, late>>
    BY <1>18, CreateReadEffect
  <2>3. ASSUME NEW k \in Loops, Alive(k), activeSession = k
        PROVE  loop[k].bind \in Binds /\ SameWorkspace(loop[k].bind, bind)
    <3>1. loop[k] \in Loop /\ loop[k].bind # None
      BY <2>3 DEF Pointers, InSession, TypeOK
    <3> QED
      BY <2>1, <2>3, <3>1 DEF OnWorkspace, Loop
  <2>4. ASSUME NEW k \in Loops, Alive(k), activeSession = k PROVE bind.name = loop[k].bind.name
    BY <2>2, <2>3, <2>4 DEF NamePerRoot
  <2> QED
    BY <2>1, <2>2, <2>4
<1>19. ASSUME NEW n \in Names, CancelRead(n) PROVE Quiet'
  BY <1>19, CancelReadEffect
<1>20. CASE UNCHANGED serviceVars
  BY <1>20 DEF serviceVars, bindVars, statusVars, handlerVars
<1> QED
  BY <1>1, <1>2, <1>3, <1>4, <1>5, <1>6, <1>7, <1>8, <1>9, <1>10, <1>11, <1>12,
     <1>13, <1>14, <1>15, <1>16, <1>17, <1>18, <1>19, <1>20
  DEF Next, Advance, Handlers

-----------------------------------------------------------------------------
(* The theorems.                                                           *)

SInv == TypeOK /\ Pointers /\ Current /\ Reachable /\ StatusTruthful /\ OnWorkspace

LEMMA InitSInv == Init => SInv /\ Quiet
<1> SUFFICES ASSUME Init PROVE SInv /\ Quiet
  OBVIOUS
<1>1. TypeOK
  <2>1. loop \in [Loops -> Loop \cup {None}] /\ \A l \in Loops : loop[l] = None
    BY DEF Init
  <2>2. epoch = 0 /\ ends = 0 /\ cancels = 0 /\ creates = 0
    BY DEF Init
  <2>3. /\ 0 \in 0 .. MaxBinds /\ 0 \in 0 .. MaxEnds /\ 0 \in 0 .. MaxCancels
        /\ 0 \in 0 .. MaxCreates
    BY ServiceAssumption
  <2> QED
    BY <2>1, <2>2, <2>3 DEF Init, TypeOK
<1>2. Pointers /\ Current /\ Reachable /\ StatusTruthful /\ OnWorkspace
  BY ServiceAssumption DEF Init, Pointers, Current, Reachable, StatusTruthful, OnWorkspace,
     Alive, InSession
<1>3. Quiet
  BY DEF Init, Quiet, Alive
<1> QED
  BY <1>1, <1>2, <1>3 DEF SInv

LEMMA SInvStep == SInv /\ [Next]_serviceVars => SInv'
  BY TypeStep, PointersStep, CurrentStep, ReachableStep, StatusStep, OnWorkspaceStep DEF SInv

(* What is typed and tied together stays so in every behaviour.            *)
THEOREM ServiceInvariant == Spec => []SInv
  BY InitSInv, SInvStep, PTL DEF Spec

(* The types hold of every behaviour: a loop past its dial has a request.  *)
THEOREM ServiceTypeCorrect == Spec => []TypeOK
<1>1. SInv => TypeOK
  BY DEF SInv
<1> QED
  BY <1>1, ServiceInvariant, PTL

(* Start, rebinds, stops and final reports race over any number of loops,  *)
(* and one loop at a time is alive, the one Stop would cancel.             *)
THEOREM OneLoopAtATime == Spec => []OneLoop
<1>1. SInv => OneLoop
  BY ServiceAssumption DEF SInv, Current, OneLoop
<1> QED
  BY <1>1, ServiceInvariant, PTL

(* Connected is never the word of a cancelled or unanswered session,       *)
(* unless its handshake was answered after the cancel.                     *)
THEOREM StatusIsTruthful == Spec => []StatusTruthful
<1>1. SInv => StatusTruthful
  BY DEF SInv
<1> QED
  BY <1>1, ServiceInvariant, PTL

(* The handlers always see the live session: the withdrawal of an earlier  *)
(* one is guarded by the pointer it withdraws.                             *)
THEOREM LiveSessionReachable == Spec => []SessionReachable
<1>1. SInv => SessionReachable
  BY DEF SInv, Reachable, SessionReachable, InSession, At
<1> QED
  BY <1>1, ServiceInvariant, PTL

(* A cancelled download stays cancelled over any number of reconnects and  *)
(* rebinds, provided a root is always bound under one name.  (The peer     *)
(* heeds a cancel or resume whatever name it carries: without the premise  *)
(* a create for a second name of the root resumes the first.)              *)
THEOREM PauseSurvives == NamePerRoot => (Spec => []PausedStaysQuiet)
<1>1. SUFFICES ASSUME NamePerRoot PROVE Spec => []PausedStaysQuiet
  OBVIOUS
<1>2. SInv /\ Quiet /\ [Next]_serviceVars => Quiet'
  BY <1>1, QuietStep DEF SInv
<1>3. Init => Quiet
  BY InitSInv
<1>4. Quiet => PausedStaysQuiet
  <2> SUFFICES ASSUME Quiet, ~overlapped, "stop" \notin late, creator = None, canceller = None,
                      NEW l \in Loops, At(l, "session"), ~loop[l].cancelled,
                      activeSession = l, loop[l].bind.name \in paused
               PROVE  ~loop[l].peerSending
    BY DEF PausedStaysQuiet
  <2>1. Alive(l) /\ loop[l].phase = "session" /\ ~Pending(l)
    BY DEF At, Alive, Pending
  <2> QED
    BY <2>1 DEF Quiet
<1> QED
  BY <1>2, <1>3, <1>4, ServiceInvariant, PTL DEF Spec
=============================================================================
