------------------------------ MODULE LocalExec ------------------------------
(***************************************************************************)
(* Remote agents running commands on the user's desktop.  An agent in a    *)
(* PTY on the server starts kari-mcp-bridge; the bridge calls the loopback *)
(* of karid over HTTP; the router finds the desktop's control session and  *)
(* sends the request down its stream; the daemon decides, runs the command *)
(* and streams output and a final Done back to the waiting HTTP handler.   *)
(*                                                                         *)
(* karid runs, concurrently: the HTTP handlers and their context watchers  *)
(* (Requests), the deferred cleanup of bridges, and one send and one       *)
(* receive loop per control session.  The desktop runs a handler per       *)
(* request and the two loops of its end.  A control session is named by    *)
(* its number, 0 standing for none.                                        *)
(*                                                                         *)
(* Messages of different requests touch disjoint state, so a stream is     *)
(* modelled as one FIFO per request.  The queues into the send loops are   *)
(* shared with whatever else the session carries: that one of them is full *)
(* is a choice of the environment.  A command's output is one chunk.       *)
(***************************************************************************)
EXTENDS Naturals, Sequences, FiniteSets

CONSTANTS
  Bridges,       \* bridge processes the agent's MCP client starts
  Requests,      \* calls of /v1/local-exec/run
  Owner,         \* the bridge that makes each request
  MaxSessions,   \* bound: how often the desktop connects
  WaiterCap      \* the channel SendLocalExecRequest makes

ASSUME LocalExecAssumption ==
  /\ Owner \in [Requests -> Bridges]
  /\ MaxSessions \in Nat /\ WaiterCap \in Nat \ {0}

VARIABLES
  token,         \* the terminal's bearer token
  bridge,        \* localExecRouter.bridges
  recorded,      \* localExecRouter.requests, and the bridges' requestIDs
  releasing,     \* UnregisterBridge has taken these, not yet cleaned them up
  up,            \* the session whose stream is open at both ends
  made,          \* how often the desktop has connected
  handlers,      \* sessions whose server.Sync has not returned
  index,         \* localExecSessionIndex, the entry of this desktop
  phase,         \* how far handleRun and Route have come
  sess,          \* the session a request was sent through
  expired,       \* requests whose HTTP context is done
  waiting,       \* filesync.Session.localExecWaiters
  chan,          \* the events buffered in a waiter
  closed,        \* closed waiters
  resp,          \* localExecRunResponse
  reqOut, cancelOut, outputOut, doneOut,   \* the channels into the send loops
  down, upward,  \* the stream, per request
  handling,      \* the event of a request a receive loop holds, its waiter read
  emitted,       \* requests whose output has been relayed
  proc,          \* the desktop's handler, and its process
  cut,           \* why cmdCtx is done
  exit,          \* how the process really ended
  panicked       \* karid has died of a send on a closed channel

terminal == <<token, bridge, recorded, releasing>>
links    == <<up, made, handlers, index>>
caller   == <<phase, sess, expired, resp>>
waiters  == <<waiting, chan, closed>>
queues   == <<reqOut, cancelOut>>
wires    == <<down, upward>>
daemon   == <<outputOut, doneOut, emitted, proc, cut, exit>>
vars     == <<terminal, links, caller, waiters, queues, wires, handling, daemon,
              panicked>>

Sessions == 1..MaxSessions
Answers  == {"ok", "fail", "denied", "cancelled", "timeout", "bridge gone"}
Active(r) == proc[r] \in {"deciding", "running", "exited"}

TypeOK ==
  /\ token \in {"none", "valid", "revoked"}
  /\ bridge \in [Bridges -> {"none", "up", "gone"}]
  /\ recorded \subseteq Requests /\ releasing \subseteq Requests
  /\ up \in 0..MaxSessions /\ made \in 0..MaxSessions /\ index \in 0..MaxSessions /\ handlers \subseteq Sessions
  /\ phase \in [Requests -> {"idle", "sent", "draining", "returned", "refused"}]
  /\ sess \in [Requests -> 0..MaxSessions]
  /\ expired \subseteq Requests
  /\ waiting \subseteq Requests /\ closed \subseteq Requests
  /\ waiting \cap closed = {}
  /\ chan \in [Requests -> Seq(Answers \cup {"output"})]
  /\ \A r \in Requests : Len(chan[r]) <= WaiterCap
  /\ resp \in [Requests -> Answers \cup {"none"}]
  /\ \A q \in {reqOut, cancelOut, outputOut, doneOut, emitted} : q \subseteq Requests
  /\ down \in [Requests -> Seq({"request", "cancel"})]
  /\ upward \in [Requests -> Seq({"output", "done"})]
  /\ handling \in [Requests -> {"nothing", "output", "done"}]
  /\ proc \in [Requests -> {"none", "deciding", "running", "exited", "done"}]
  /\ cut \in [Requests -> {"no", "cancelled", "timeout"}]
  /\ exit \in [Requests -> {"none", "ok", "fail", "killed"}]
  /\ panicked \in BOOLEAN

Init ==
  /\ token = "none" /\ bridge = [b \in Bridges |-> "none"]
  /\ recorded = {} /\ releasing = {}
  /\ up = 0 /\ made = 0 /\ handlers = {} /\ index = 0
  /\ phase = [r \in Requests |-> "idle"] /\ sess = [r \in Requests |-> 0]
  /\ expired = {} /\ resp = [r \in Requests |-> "none"]
  /\ waiting = {} /\ chan = [r \in Requests |-> <<>>] /\ closed = {}
  /\ reqOut = {} /\ cancelOut = {} /\ outputOut = {} /\ doneOut = {}
  /\ down = [r \in Requests |-> <<>>] /\ upward = [r \in Requests |-> <<>>]
  /\ handling = [r \in Requests |-> "nothing"]
  /\ emitted = {} /\ proc = [r \in Requests |-> "none"] /\ cut = [r \in Requests |-> "no"]
  /\ exit = [r \in Requests |-> "none"]
  /\ panicked = FALSE

-----------------------------------------------------------------------------
(* The terminal: its token and its bridges.                                *)

\* A context file with a fresh token is written for the agent of the PTY.
CreateSession == token = "none" /\ token' = "valid"

\* Pty prepares the session of the agent before it spawns the shell; when the
\* spawn fails the session stays, as if the shell never exited.
StartShell ==
  /\ CreateSession
  /\ UNCHANGED <<bridge, recorded, releasing, links, caller, waiters, queues, wires,
                 handling, daemon, panicked>>

\* ReleaseSession revokes the token.
ReleaseSession == token = "valid" /\ token' = "revoked"

\* The shell exits.  The bridges it leaves behind can no longer register, run
\* or unregister.
ShellExits ==
  /\ ReleaseSession
  /\ UNCHANGED <<bridge, recorded, releasing, links, caller, waiters, queues, wires,
                 handling, daemon, panicked>>

\* What requireAuth asks of every call: a token this karid has signed and has
\* not revoked.  (One past its time to live is as good as revoked.)
Authenticated == token = "valid"

BridgeMatches(b) == bridge[b] = "up"

\* handleRegister.
RegisterBridge(b) ==
  /\ Authenticated /\ bridge[b] = "none"
  /\ bridge' = [bridge EXCEPT ![b] = "up"]
  /\ UNCHANGED <<token, recorded, releasing, links, caller, waiters, queues, wires,
                 handling, daemon, panicked>>

\* handleUnregister, up to the release of the router's mutex.
UnregisterBridge(b) ==
  /\ Authenticated /\ BridgeMatches(b)
  /\ bridge' = [bridge EXCEPT ![b] = "gone"]
  /\ LET ids == {r \in recorded : Owner[r] = b}
     IN recorded' = recorded \ ids /\ releasing' = releasing \cup ids
  /\ UNCHANGED <<token, links, caller, waiters, queues, wires, handling, daemon, panicked>>

\* A cancel is queued best-effort: it is dropped when the queue is full.
QueueCancels(rs) == \E told \in SUBSET rs : cancelOut' = cancelOut \cup told

\* CleanupLocalExecWaitersFor: the rest of UnregisterBridge, for one session.
\* Every waiter still installed gets a synthetic Done if it has room, and is
\* closed.
CleanupWaiters(k) ==
  LET ids == {r \in releasing : sess[r] = k}
      released == ids \cap waiting
  IN /\ ids # {}
     /\ releasing' = releasing \ ids
     /\ waiting' = waiting \ released
     /\ chan' = [r \in Requests |->
                  IF r \in released /\ Len(chan[r]) < WaiterCap
                  THEN Append(chan[r], "bridge gone") ELSE chan[r]]
     /\ closed' = closed \cup released
     /\ QueueCancels(released)
     /\ UNCHANGED <<token, bridge, recorded, links, caller, reqOut, wires, handling,
                    daemon, panicked>>

-----------------------------------------------------------------------------
(* A request: handleRun, Route and the context watcher Route starts.       *)

\* SendLocalExecRequest: the waiter and the queued request, or neither.
SendLocalExecRequest(r) == waiting' = waiting \cup {r} /\ reqOut' = reqOut \cup {r}

\* handleRun, and Route up to SendLocalExecRequest: a connected desktop is
\* found and its session takes the request, or the call fails (offline, or
\* busy).
Dispatch(r) ==
  /\ phase[r] = "idle" /\ Authenticated /\ BridgeMatches(Owner[r])
  /\ \/ /\ index # 0
        /\ phase' = [phase EXCEPT ![r] = "sent"]
        /\ sess' = [sess EXCEPT ![r] = index]
        /\ SendLocalExecRequest(r)
     \/ /\ phase' = [phase EXCEPT ![r] = "refused"]
        /\ UNCHANGED <<sess, waiting, reqOut>>
  /\ UNCHANGED <<terminal, links, expired, resp, chan, closed, cancelOut, wires, handling,
                 daemon, panicked>>

\* The cancel function SendLocalExecRequest returns: a no-op once the waiter
\* is gone from the map.
Cancel(r) ==
  IF r \in waiting
  THEN /\ waiting' = waiting \ {r}
       /\ QueueCancels({r})
       /\ closed' = closed \cup {r}
  ELSE UNCHANGED <<waiting, cancelOut, closed>>

(* faulty: the second look at the bridge is left out *)
RecordUnchecked(r) ==
  /\ phase[r] = "sent"
  /\ recorded' = recorded \cup {r} /\ phase' = [phase EXCEPT ![r] = "draining"]
  /\ UNCHANGED <<token, bridge, releasing, links, sess, expired, resp, waiters, queues,
                 wires, handling, daemon, panicked>>

\* The rest of Route: the bridge may have been unregistered meanwhile.
Record(r) ==
  /\ phase[r] = "sent"
  /\ IF bridge[Owner[r]] = "up"
     THEN /\ recorded' = recorded \cup {r}
          /\ phase' = [phase EXCEPT ![r] = "draining"]
          /\ UNCHANGED <<waiting, closed, cancelOut>>
     ELSE /\ phase' = [phase EXCEPT ![r] = "refused"]
          /\ Cancel(r)
          /\ UNCHANGED recorded
  /\ UNCHANGED <<token, bridge, releasing, links, sess, expired, resp, chan, reqOut, wires,
                 handling, daemon, panicked>>

\* The agent gives up, or the bridge process dies with its connection.
ContextExpires(r) ==
  /\ phase[r] \in {"sent", "draining"} /\ r \notin expired
  /\ expired' = expired \cup {r}
  /\ UNCHANGED <<terminal, links, phase, sess, resp, waiters, queues, wires, handling,
                 daemon, panicked>>

\* The watcher's cleanup.
ContextCleanup(r) ==
  /\ r \in expired /\ phase[r] = "draining" /\ r \in recorded \cup waiting
  /\ recorded' = recorded \ {r}
  /\ Cancel(r)
  /\ UNCHANGED <<token, bridge, releasing, links, caller, chan, reqOut, wires, handling,
                 daemon, panicked>>

\* handleRun ranges over the events.
Consume(r) ==
  /\ phase[r] = "draining" /\ chan[r] # <<>>
  /\ chan' = [chan EXCEPT ![r] = Tail(@)]
  /\ resp' = IF Head(chan[r]) = "output" THEN resp ELSE [resp EXCEPT ![r] = Head(chan[r])]
  /\ UNCHANGED <<terminal, links, phase, sess, expired, waiting, closed, queues, wires,
                 handling, daemon, panicked>>

\* handleRun returns.  A response no Done has filled in is the zero value,
\* which reads as exit code 0.
Return(r) ==
  /\ phase[r] = "draining" /\ chan[r] = <<>> /\ r \in closed
  /\ phase' = [phase EXCEPT ![r] = "returned"]
  /\ resp' = IF resp[r] = "none" THEN [resp EXCEPT ![r] = "ok"] ELSE resp
  /\ recorded' = recorded \ {r}
  /\ UNCHANGED <<token, bridge, releasing, links, sess, expired, waiters, queues, wires,
                 handling, daemon, panicked>>

-----------------------------------------------------------------------------
(* karid's ends of the control sessions.                                   *)

\* sendLoop picks any channel that is ready, so a cancel may overtake the
\* request it cancels.
SendRequest(r) ==
  /\ r \in reqOut /\ sess[r] = up
  /\ reqOut' = reqOut \ {r}
  /\ down' = [down EXCEPT ![r] = Append(@, "request")]
  /\ UNCHANGED <<terminal, links, caller, waiters, cancelOut, upward, handling, daemon,
                 panicked>>

SendCancel(r) ==
  /\ r \in cancelOut /\ sess[r] = up
  /\ cancelOut' = cancelOut \ {r}
  /\ down' = [down EXCEPT ![r] = Append(@, "cancel")]
  /\ UNCHANGED <<terminal, links, caller, waiters, reqOut, upward, handling, daemon,
                 panicked>>

\* The LocalExecDone of a request: denied, or by the branches of Handle after
\* cmd.Wait.  A failure under a context that is done is reported as the cancel
\* or the timeout, whatever the exit status.
Verdict(r) ==
  CASE exit[r] = "none" -> "denied"
    [] exit[r] = "ok"   -> "ok"
    [] OTHER            -> IF cut[r] = "no" THEN "fail" ELSE cut[r]

(* faulty: a Done leaves its waiter in the map *)
LookupKeepsWaiter(r) ==
  /\ upward[r] # <<>> /\ \A q \in Requests : sess[q] = sess[r] => handling[q] = "nothing"
  /\ upward' = [upward EXCEPT ![r] = Tail(@)]
  /\ IF r \in waiting
     THEN handling' = [handling EXCEPT ![r] = Head(upward[r])]
     ELSE UNCHANGED handling
  /\ UNCHANGED <<terminal, links, caller, waiters, queues, down, daemon, panicked>>

\* recvLoop reads an output or a Done and looks its waiter up under the
\* session's mutex; a Done takes the waiter out of the map.
Lookup(r) ==
  /\ upward[r] # <<>> /\ \A q \in Requests : sess[q] = sess[r] => handling[q] = "nothing"
  /\ upward' = [upward EXCEPT ![r] = Tail(@)]
  /\ IF r \in waiting
     THEN handling' = [handling EXCEPT ![r] = Head(upward[r])]
     ELSE UNCHANGED handling
  /\ waiting' = IF Head(upward[r]) = "done" THEN waiting \ {r} ELSE waiting
  /\ UNCHANGED <<terminal, links, caller, chan, closed, queues, down, daemon, panicked>>

\* ... and sends on it after the mutex is released.  The waiter may have been
\* closed in between.
DeliverOutput(r) ==
  /\ handling[r] = "output"
  /\ \/ /\ r \in closed
        /\ panicked' = TRUE
        /\ UNCHANGED <<chan, handling>>
     \/ /\ r \notin closed /\ Len(chan[r]) < WaiterCap
        /\ chan' = [chan EXCEPT ![r] = Append(@, "output")]
        /\ handling' = [handling EXCEPT ![r] = "nothing"]
        /\ UNCHANGED panicked
  /\ UNCHANGED <<terminal, links, caller, waiting, closed, queues, wires, daemon>>

(* faulty: a Done that finds the waiter full is dropped, and the waiter closed *)
DeliverDoneIfRoom(r) ==
  /\ handling[r] = "done"
  /\ chan' = IF Len(chan[r]) < WaiterCap THEN [chan EXCEPT ![r] = Append(@, Verdict(r))] ELSE chan
  /\ closed' = closed \cup {r}
  /\ handling' = [handling EXCEPT ![r] = "nothing"]
  /\ UNCHANGED <<terminal, links, caller, waiting, queues, wires, daemon, panicked>>

(* faulty: the waiter is not closed after the Done *)
DeliverDoneOpen(r) ==
  /\ handling[r] = "done" /\ Len(chan[r]) < WaiterCap
  /\ chan' = [chan EXCEPT ![r] = Append(@, Verdict(r))]
  /\ handling' = [handling EXCEPT ![r] = "nothing"]
  /\ UNCHANGED <<terminal, links, caller, waiting, closed, queues, wires, daemon, panicked>>

DeliverDone(r) ==
  /\ handling[r] = "done" /\ Len(chan[r]) < WaiterCap
  /\ chan' = [chan EXCEPT ![r] = Append(@, Verdict(r))]
  /\ closed' = closed \cup {r}
  /\ handling' = [handling EXCEPT ![r] = "nothing"]
  /\ UNCHANGED <<terminal, links, caller, waiting, queues, wires, daemon, panicked>>

\* server.Sync accepts the desktop's stream and registers the new session
\* over whatever entry there was.
Connect ==
  /\ up = 0 /\ made < MaxSessions
  /\ made' = made + 1
  /\ up' = made' /\ index' = made' /\ handlers' = handlers \cup {made'}
  /\ UNCHANGED <<terminal, caller, waiters, queues, wires, handling, daemon, panicked>>

(* faulty: the entry is removed whoever registered it *)
UnregisterAnyone(k) == 0

\* unregister, with its guard on the session pointer.
Unregister(k) == IF index = k THEN 0 ELSE index

\* server.Sync of a session whose stream has broken returns.
SyncReturns(k) ==
  /\ k \in handlers /\ k # up
  /\ handlers' = handlers \ {k}
  /\ index' = Unregister(k)
  /\ UNCHANGED <<terminal, up, made, caller, waiters, queues, wires, handling, daemon,
                 panicked>>

\* The stream breaks.  What was on it is lost; the daemon's session ends and
\* with it the context of every request it runs; what the daemon had queued
\* dies with the session.  karid's waiters stay.
Disconnect ==
  /\ up # 0 /\ up' = 0
  /\ down' = [r \in Requests |-> <<>>] /\ upward' = [r \in Requests |-> <<>>]
  /\ outputOut' = {} /\ doneOut' = {}
  /\ cut' = [r \in Requests |-> IF Active(r) /\ cut[r] = "no" THEN "cancelled" ELSE cut[r]]
  /\ UNCHANGED <<terminal, handlers, index, made, caller, waiters, queues, handling, emitted,
                 proc, exit, panicked>>

-----------------------------------------------------------------------------
(* The desktop.                                                            *)

\* recvLoop: a request starts its handler.
ReceiveRequest(r) ==
  /\ down[r] # <<>> /\ Head(down[r]) = "request"
  /\ down' = [down EXCEPT ![r] = Tail(@)]
  /\ proc' = [proc EXCEPT ![r] = "deciding"]
  /\ UNCHANGED <<terminal, links, caller, waiters, queues, upward, handling, outputOut,
                 doneOut, emitted, cut, exit, panicked>>

\* recvLoop: a cancel ends the context of a request that is active, and does
\* nothing to one it does not know.
ReceiveCancel(r) ==
  /\ down[r] # <<>> /\ Head(down[r]) = "cancel"
  /\ down' = [down EXCEPT ![r] = Tail(@)]
  /\ cut' = IF Active(r) /\ cut[r] = "no" THEN [cut EXCEPT ![r] = "cancelled"] ELSE cut
  /\ UNCHANGED <<terminal, links, caller, waiters, queues, upward, handling, outputOut,
                 doneOut, emitted, proc, exit, panicked>>

\* The handler returns and its Done is queued, unless the session has ended.
Reports(r) ==
  /\ proc' = [proc EXCEPT ![r] = "done"]
  /\ doneOut' = IF sess[r] = up THEN doneOut \cup {r} ELSE doneOut

\* LocalExecRunner.Handle: the working directory or the policy refuses the
\* command, or it cannot be started.
Deny(r) ==
  /\ proc[r] = "deciding"
  /\ Reports(r)
  /\ UNCHANGED <<terminal, links, caller, waiters, queues, wires, handling, outputOut, emitted,
                 cut, exit, panicked>>

\* ... or the process starts.  A context that is already done does not stop
\* it: the watcher kills the process it has started.
Start(r) ==
  /\ proc[r] = "deciding"
  /\ proc' = [proc EXCEPT ![r] = "running"]
  /\ UNCHANGED <<terminal, links, caller, waiters, queues, wires, handling, outputOut,
                 doneOut, emitted, cut, exit, panicked>>

\* relayStream emits the chunk: it waits for room in the queue until the
\* request's context is done, and then drops it.
Emit(r) ==
  /\ proc[r] \in {"running", "exited"} /\ r \notin emitted
  /\ emitted' = emitted \cup {r}
  /\ outputOut' = IF cut[r] = "cancelled" THEN outputOut ELSE outputOut \cup {r}
  /\ UNCHANGED <<terminal, links, caller, waiters, queues, wires, handling, doneOut, proc,
                 cut, exit, panicked>>

\* The policy's time limit passes.
TimesOut(r) ==
  /\ proc[r] = "running" /\ cut[r] = "no"
  /\ cut' = [cut EXCEPT ![r] = "timeout"]
  /\ UNCHANGED <<terminal, links, caller, waiters, queues, wires, handling, outputOut,
                 doneOut, emitted, proc, exit, panicked>>

\* The process ends by itself, a SIGTERM it handles included.
Exits(r) ==
  /\ proc[r] = "running"
  /\ \E status \in {"ok", "fail"} : exit' = [exit EXCEPT ![r] = status]
  /\ proc' = [proc EXCEPT ![r] = "exited"]
  /\ UNCHANGED <<terminal, links, caller, waiters, queues, wires, handling, outputOut,
                 doneOut, emitted, cut, panicked>>

\* watchCancel: once the context is done the process group gets a SIGTERM
\* and, after the grace, a SIGKILL.
Killed(r) ==
  /\ proc[r] = "running" /\ cut[r] # "no"
  /\ exit' = [exit EXCEPT ![r] = "killed"]
  /\ proc' = [proc EXCEPT ![r] = "exited"]
  /\ UNCHANGED <<terminal, links, caller, waiters, queues, wires, handling, outputOut,
                 doneOut, emitted, cut, panicked>>

\* cmd.Wait has returned and both relays have ended; Wait closes the pipes,
\* so a chunk no relay has read yet is lost.
Finish(r) ==
  /\ proc[r] = "exited"
  /\ Reports(r)
  /\ UNCHANGED <<terminal, links, caller, waiters, queues, wires, handling, outputOut,
                 emitted, cut, exit, panicked>>

\* sendLoop: an output and a Done wait in different channels.
SendOutput(r) ==
  /\ r \in outputOut
  /\ outputOut' = outputOut \ {r}
  /\ upward' = [upward EXCEPT ![r] = Append(@, "output")]
  /\ UNCHANGED <<terminal, links, caller, waiters, queues, down, handling, doneOut, emitted,
                 proc, cut, exit, panicked>>

SendDone(r) ==
  /\ r \in doneOut
  /\ doneOut' = doneOut \ {r}
  /\ upward' = [upward EXCEPT ![r] = Append(@, "done")]
  /\ UNCHANGED <<terminal, links, caller, waiters, queues, down, handling, outputOut,
                 emitted, proc, cut, exit, panicked>>

-----------------------------------------------------------------------------
Loopback ==
  \/ StartShell \/ ShellExits
  \/ \E b \in Bridges : RegisterBridge(b) \/ UnregisterBridge(b)
  \/ \E k \in Sessions : CleanupWaiters(k)

Handler(r) == Dispatch(r) \/ Record(r) \/ ContextExpires(r) \/ ContextCleanup(r)
              \/ Consume(r) \/ Return(r)

Server(r) == SendRequest(r) \/ SendCancel(r) \/ Lookup(r) \/ DeliverOutput(r)
             \/ DeliverDone(r)

Desktop(r) == ReceiveRequest(r) \/ ReceiveCancel(r) \/ Deny(r) \/ Start(r) \/ Emit(r)
              \/ TimesOut(r) \/ Exits(r) \/ Killed(r) \/ Finish(r) \/ SendOutput(r)
              \/ SendDone(r)

Network == Connect \/ Disconnect \/ \E k \in Sessions : SyncReturns(k)

\* A panic in one goroutine ends karid, and the model with it.
Next ==
  /\ ~ panicked
  /\ Loopback \/ Network \/ \E r \in Requests : Handler(r) \/ Server(r) \/ Desktop(r)

Spec == Init /\ [][Next]_vars

\* Goroutines that can go on do: the handlers, the loops and the kill ladder.
\* Users, agents, shells, the network and the process itself owe nothing; the
\* time limit is a timer.
Fairness ==
  \A r \in Requests :
    /\ WF_vars(~ panicked /\ (Record(r) \/ Consume(r) \/ Return(r) \/ ContextCleanup(r)))
    /\ WF_vars(~ panicked /\ SendRequest(r))
    /\ WF_vars(~ panicked /\ (Lookup(r) \/ DeliverOutput(r) \/ DeliverDone(r)))
    /\ WF_vars(~ panicked /\ (ReceiveRequest(r) \/ Deny(r) \/ TimesOut(r) \/ Killed(r)
                              \/ Finish(r)))
    /\ WF_vars(~ panicked /\ SendDone(r))

LiveSpec == Spec /\ Fairness

-----------------------------------------------------------------------------
(* Properties.                                                             *)

\* When a bridge has been unregistered and its requests cleaned up, none of
\* its callers is left waiting for the desktop: the waiter is closed, or the
\* receive loop is about to deliver the Done and close it.  A request that is
\* being dispatched meanwhile must not slip past the cleanup.
ReleasedWithBridge ==
  \A r \in Requests :
    phase[r] = "draining" /\ bridge[Owner[r]] = "gone" /\ r \notin releasing
      => r \in closed \/ handling[r] = "done"

\* What handleRun answers is what became of the command: the desktop's own
\* verdict, an exit code 0 only for a process that ended so and a denial only
\* for one that never started.  Only a caller that has gone, or whose bridge
\* has, may be given anything else.
AnswerEarned ==
  \A r \in Requests :
    phase[r] = "returned" /\ r \notin expired /\ bridge[Owner[r]] = "up"
      => /\ resp[r] = Verdict(r)
         /\ resp[r] = "ok" <=> exit[r] = "ok"
         /\ resp[r] = "denied" <=> exit[r] = "none"

\* While a desktop is connected the index leads to its session: the deferred
\* unregister of a connection it has lost never erases the entry of the
\* connection that replaced it.
IndexFresh == up # 0 => index = up

\* A caller gets its answer, unless the desktop loses the session it was sent
\* through.
CallerReturns ==
  \A r \in Requests :
    phase[r] = "draining" ~> phase[r] = "returned" \/ sess[r] # up \/ panicked

\* SendLocalExecRequest calls the close of a waiter safe "because we just
\* removed it from the map; recvLoop can't observe it any more".
NoPanic == ~ panicked
=============================================================================
