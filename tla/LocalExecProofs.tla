-------------------------- MODULE LocalExecProofs --------------------------
(***************************************************************************)
(* For any number of bridges, requests and connections: a caller whose     *)
(* bridge is gone is released, and a caller that is still there is given   *)
(* the verdict of its own command.                                         *)
(***************************************************************************)
EXTENDS LocalExec, SequenceTheorems, TLAPS

-----------------------------------------------------------------------------
(* Queues.                                                                 *)

(* What stands in a queue: nothing in an empty one,                        *)
LEMMA EmptyRange == Range(<<>>) = {}
BY DEF Range

(* ... one message more after a send,                                      *)
LEMMA AppendRange ==
  ASSUME NEW S, NEW s \in Seq(S), NEW e \in S
  PROVE  /\ Append(s, e) \in Seq(S) /\ Len(Append(s, e)) = Len(s) + 1
         /\ Range(Append(s, e)) = Range(s) \cup {e}
<1>1. /\ Append(s, e) \in Seq(S) /\ Len(Append(s, e)) = Len(s) + 1
      /\ \A i \in 1..Len(s) : Append(s, e)[i] = s[i]
      /\ Append(s, e)[Len(s) + 1] = e
  BY AppendProperties
<1>2. /\ Len(s) \in Nat /\ DOMAIN s = 1..Len(s)
      /\ DOMAIN Append(s, e) = 1..(Len(s) + 1)
  BY <1>1, LenProperties
<1> QED  BY <1>1, <1>2 DEF Range

(* ... and a received one less.                                            *)
LEMMA TailRange ==
  ASSUME NEW S, NEW s \in Seq(S), s # <<>>
  PROVE  /\ Head(s) \in S /\ Tail(s) \in Seq(S) /\ Len(Tail(s)) = Len(s) - 1
         /\ Range(s) = {Head(s)} \cup Range(Tail(s))
<1>1. /\ Head(s) \in S /\ Tail(s) \in Seq(S) /\ Len(Tail(s)) = Len(s) - 1
      /\ \A i \in 1..Len(Tail(s)) : Tail(s)[i] = s[i + 1]
  BY HeadTailProperties
<1>2. /\ Len(s) \in Nat \ {0} /\ DOMAIN s = 1..Len(s)
      /\ DOMAIN Tail(s) = 1..(Len(s) - 1) /\ Head(s) = s[1]
  BY <1>1, LenProperties, EmptySeq
<1>3. ASSUME NEW i \in 1..Len(s)
      PROVE  s[i] \in {Head(s)} \cup Range(Tail(s))
  <2>1. CASE i = 1
    BY <1>2, <2>1
  <2>2. CASE i # 1
    <3>1. i - 1 \in 1..(Len(s) - 1) /\ s[i] = Tail(s)[i - 1]
      BY <1>1, <1>2, <2>2
    <3> QED  BY <1>2, <3>1 DEF Range
  <2> QED  BY <2>1, <2>2
<1>4. Range(s) \subseteq {Head(s)} \cup Range(Tail(s))
  BY <1>2, <1>3 DEF Range
<1>5. {Head(s)} \cup Range(Tail(s)) \subseteq Range(s)
  <2>1. \A i \in 1..(Len(s) - 1) : i + 1 \in 1..Len(s) /\ Tail(s)[i] = s[i + 1]
    BY <1>1, <1>2
  <2> QED  BY <1>2, <2>1 DEF Range
<1> QED  BY <1>1, <1>4, <1>5

(* e stands at most once in s.                                             *)
Once(s, e) == \A i, j \in 1..Len(s) : s[i] = e /\ s[j] = e => i = j

LEMMA OnceEmpty == ASSUME NEW e PROVE Once(<<>>, e)
BY EmptySeq DEF Once

(* A message sent when it is not there stands there once.                  *)
LEMMA OnceAppend ==
  ASSUME NEW S, NEW s \in Seq(S), NEW e, NEW f \in S, Once(s, e), f = e => e \notin Range(s)
  PROVE  Once(Append(s, f), e)
<1>1. /\ Len(s) \in Nat /\ DOMAIN s = 1..Len(s) /\ Len(Append(s, f)) = Len(s) + 1
      /\ \A i \in 1..Len(s) : Append(s, f)[i] = s[i]
      /\ Append(s, f)[Len(s) + 1] = f
  BY AppendProperties, LenProperties
<1>2. \A i \in 1..Len(s) : s[i] = e => f # e
  BY <1>1 DEF Range
<1> QED  BY <1>1, <1>2 DEF Once

(* A message that stands once in a queue is gone once it is received.      *)
LEMMA OnceTail ==
  ASSUME NEW S, NEW s \in Seq(S), NEW e, Once(s, e), s # <<>>
  PROVE  Once(Tail(s), e) /\ (Head(s) = e => e \notin Range(Tail(s)))
<1>1. /\ Tail(s) \in Seq(S) /\ Len(Tail(s)) = Len(s) - 1
      /\ \A i \in 1..Len(Tail(s)) : Tail(s)[i] = s[i + 1]
  BY HeadTailProperties
<1>2. /\ Len(s) \in Nat \ {0} /\ DOMAIN Tail(s) = 1..(Len(s) - 1) /\ Head(s) = s[1]
  BY <1>1, LenProperties, EmptySeq
<1>3. \A i, j \in 1..(Len(s) - 1) : Tail(s)[i] = e /\ Tail(s)[j] = e => i + 1 = j + 1
  BY <1>1, <1>2 DEF Once
<1>4. ASSUME Head(s) = e, NEW i \in 1..(Len(s) - 1), Tail(s)[i] = e PROVE FALSE
  BY <1>1, <1>2, <1>4 DEF Once
<1> QED  BY <1>1, <1>2, <1>3, <1>4 DEF Once, Range

-----------------------------------------------------------------------------
(* The inductive invariant.                                                *)

Dispatched(r) == sess[r] # 0

(* Nothing is known of r anywhere.                                         *)
Unknown(r) ==
  /\ r \notin recorded \cup releasing \cup waiting \cup closed \cup reqOut \cup cancelOut
  /\ resp[r] = "none" /\ chan[r] = <<>> /\ handling[r] = "nothing"
  /\ down[r] = <<>> /\ upward[r] = <<>>
  /\ proc[r] = "none" /\ r \notin doneOut \cup outputOut

(* A request becomes known by being dispatched, under a bridge that has    *)
(* registered.                                                             *)
Undispatched ==
  \A r \in Requests :
    /\ phase[r] \in {"sent", "draining", "returned"} => Dispatched(r)
    /\ phase[r] = "idle" => ~ Dispatched(r)
    /\ Dispatched(r) => bridge[Owner[r]] # "none"
    /\ ~ Dispatched(r) => Unknown(r)

(* A dispatched request has its waiter in the map, or the receive loop     *)
(* holds its Done, or its waiter is closed: one of the three.              *)
OneWaiter ==
  \A r \in Requests :
    /\ Dispatched(r) => r \in waiting \/ handling[r] = "done" \/ r \in closed
    /\ handling[r] = "done" => r \notin waiting /\ r \notin closed
    /\ r \in waiting => r \notin closed

(* The router knows of every waiter a bridge has left behind.              *)
Tracked ==
  \A r \in Requests :
    /\ r \in recorded => bridge[Owner[r]] = "up"
    /\ r \in releasing => bridge[Owner[r]] = "gone"
    /\ r \in waiting /\ phase[r] = "draining" => r \in recorded \cup releasing
    /\ r \in waiting => phase[r] \in {"sent", "draining"}

(* A request reaches the desktop once.                                     *)
SentOnce ==
  \A r \in Requests :
    /\ r \in reqOut \/ "request" \in Range(down[r]) => proc[r] = "none"
    /\ r \in reqOut => "request" \notin Range(down[r])
    /\ Once(down[r], "request")

(* A Done is that of a handler that has returned.                          *)
DoneIsFinal ==
  \A r \in Requests :
    r \in doneOut \/ "done" \in Range(upward[r]) \/ handling[r] = "done" => proc[r] = "done"

(* A waiter that is open has seen output only; one that is closed holds,   *)
(* or has delivered, the verdict and no other, unless its caller or its    *)
(* bridge is gone.                                                         *)
Told(r) ==
  /\ r \notin closed => resp[r] = "none" /\ Range(chan[r]) \subseteq {"output"}
  /\ r \in closed /\ r \notin expired /\ bridge[Owner[r]] = "up" =>
       /\ proc[r] = "done"
       /\ resp[r] \in {"none", Verdict(r)}
       /\ Range(chan[r]) \subseteq {"output", Verdict(r)}
       /\ resp[r] = "none" => Verdict(r) \in Range(chan[r])
  /\ phase[r] = "returned" => r \in closed /\ resp[r] # "none"

Verdicts == \A r \in Requests : Told(r)

IInv == TypeOK /\ Undispatched /\ OneWaiter /\ Tracked /\ SentOnce /\ DoneIsFinal /\ Verdicts

(* The conjuncts of TypeOK, a group of variables at a time.                *)

TerminalTypes ==
  /\ token \in {"none", "valid", "revoked"}
  /\ bridge \in [Bridges -> {"none", "up", "gone"}]
  /\ recorded \subseteq Requests /\ releasing \subseteq Requests

LinkTypes ==
  /\ up \in 0..MaxSessions /\ made \in 0..MaxSessions /\ index \in 0..MaxSessions
  /\ handlers \subseteq Sessions

CallerTypes ==
  /\ phase \in [Requests -> {"idle", "sent", "draining", "returned", "refused"}]
  /\ sess \in [Requests -> 0..MaxSessions]
  /\ expired \subseteq Requests
  /\ resp \in [Requests -> Answers \cup {"none"}]

WaiterTypes ==
  /\ waiting \subseteq Requests /\ closed \subseteq Requests
  /\ chan \in [Requests -> Seq(Answers \cup {"output"})]
  /\ \A r \in Requests : Len(chan[r]) <= WaiterCap

QueueTypes ==
  reqOut \subseteq Requests /\ cancelOut \subseteq Requests

WireTypes ==
  /\ down \in [Requests -> Seq({"request", "cancel"})]
  /\ upward \in [Requests -> Seq({"output", "done"})]

HandlingTypes ==
  handling \in [Requests -> {"nothing", "output", "done"}]

DaemonTypes ==
  /\ outputOut \subseteq Requests /\ doneOut \subseteq Requests /\ emitted \subseteq Requests
  /\ proc \in [Requests -> {"none", "deciding", "running", "exited", "done"}]
  /\ cut \in [Requests -> {"no", "cancelled", "timeout"}]
  /\ exit \in [Requests -> {"none", "ok", "fail", "killed"}]

LEMMA TypesSplit ==
  TypeOK <=> /\ TerminalTypes /\ LinkTypes /\ CallerTypes /\ WaiterTypes
             /\ QueueTypes /\ WireTypes /\ HandlingTypes /\ DaemonTypes
             /\ waiting \cap closed = {} /\ panicked \in BOOLEAN
BY ZenonT(60) DEF TypeOK, TerminalTypes, LinkTypes, CallerTypes, WaiterTypes, QueueTypes,
       WireTypes, HandlingTypes, DaemonTypes

-----------------------------------------------------------------------------
(* Which steps touch which group of variables.                             *)

(* The token, the bridges and the router's tables.                         *)
LEMMA TerminalFrame ==
  ASSUME Next
  PROVE  \/ UNCHANGED terminal
         \/ StartShell \/ ShellExits
         \/ \E b \in Bridges : RegisterBridge(b) \/ UnregisterBridge(b)
         \/ \E k \in Sessions : CleanupWaiters(k)
         \/ \E r \in Requests : Record(r) \/ ContextCleanup(r) \/ Return(r)
BY DEF Next, Loopback, Network, Handler, Server, Desktop, Connect, Disconnect,
       SyncReturns, Dispatch, ContextExpires, Consume, SendRequest, SendCancel,
       Lookup, DeliverOutput, DeliverDone, ReceiveRequest, ReceiveCancel, Deny, Start,
       Emit, TimesOut, Exits, Killed, Finish, SendOutput, SendDone

(* The control sessions and the index.                                     *)
LEMMA LinkFrame ==
  ASSUME Next
  PROVE  \/ UNCHANGED links
         \/ Connect \/ Disconnect
         \/ \E k \in Sessions : SyncReturns(k)
BY ZenonT(60) DEF Next, Loopback, Network, Handler, Server, Desktop, StartShell, ShellExits,
       RegisterBridge, UnregisterBridge, CleanupWaiters, Dispatch, Record,
       ContextExpires, ContextCleanup, Consume, Return, SendRequest, SendCancel,
       Lookup, DeliverOutput, DeliverDone, ReceiveRequest, ReceiveCancel, Deny, Start,
       Emit, TimesOut, Exits, Killed, Finish, SendOutput, SendDone

(* handleRun and Route.                                                    *)
LEMMA CallerFrame ==
  ASSUME Next
  PROVE  \/ UNCHANGED caller
         \/ \E r \in Requests : Dispatch(r) \/ Record(r) \/ ContextExpires(r)
              \/ Consume(r) \/ Return(r)
BY ZenonT(60) DEF Next, Loopback, Network, Handler, Server, Desktop, StartShell, ShellExits,
       Connect, Disconnect, RegisterBridge, UnregisterBridge, CleanupWaiters,
       SyncReturns, ContextCleanup, SendRequest, SendCancel, Lookup, DeliverOutput,
       DeliverDone, ReceiveRequest, ReceiveCancel, Deny, Start, Emit, TimesOut, Exits,
       Killed, Finish, SendOutput, SendDone

(* The waiters of the session.                                             *)
LEMMA WaiterFrame ==
  ASSUME Next
  PROVE  \/ UNCHANGED waiters
         \/ \E k \in Sessions : CleanupWaiters(k)
         \/ \E r \in Requests : Dispatch(r) \/ Record(r) \/ ContextCleanup(r)
              \/ Consume(r) \/ Lookup(r) \/ DeliverOutput(r)
              \/ DeliverDone(r)
BY DEF Next, Loopback, Network, Handler, Server, Desktop, StartShell, ShellExits,
       Connect, Disconnect, RegisterBridge, UnregisterBridge, SyncReturns,
       ContextExpires, Return, SendRequest, SendCancel, ReceiveRequest, ReceiveCancel,
       Deny, Start, Emit, TimesOut, Exits, Killed, Finish, SendOutput, SendDone

(* The channels into karid's send loops.                                   *)
LEMMA QueueFrame ==
  ASSUME Next
  PROVE  \/ UNCHANGED queues
         \/ \E k \in Sessions : CleanupWaiters(k)
         \/ \E r \in Requests : Dispatch(r) \/ Record(r) \/ ContextCleanup(r)
              \/ SendRequest(r) \/ SendCancel(r)
BY DEF Next, Loopback, Network, Handler, Server, Desktop, StartShell, ShellExits,
       Connect, Disconnect, RegisterBridge, UnregisterBridge, SyncReturns,
       ContextExpires, Consume, Return, Lookup, DeliverOutput, DeliverDone,
       ReceiveRequest, ReceiveCancel, Deny, Start, Emit, TimesOut, Exits, Killed,
       Finish, SendOutput, SendDone

(* The stream.                                                             *)
LEMMA WireFrame ==
  ASSUME Next
  PROVE  \/ UNCHANGED wires
         \/ Disconnect
         \/ \E r \in Requests : SendRequest(r) \/ SendCancel(r) \/ Lookup(r)
              \/ ReceiveRequest(r) \/ ReceiveCancel(r) \/ SendOutput(r)
              \/ SendDone(r)
BY ZenonT(60) DEF Next, Loopback, Network, Handler, Server, Desktop, StartShell, ShellExits,
       Connect, RegisterBridge, UnregisterBridge, CleanupWaiters, SyncReturns,
       Dispatch, Record, ContextExpires, ContextCleanup, Consume, Return,
       DeliverOutput, DeliverDone, Deny, Start, Emit, TimesOut, Exits, Killed, Finish

(* The receive loop.                                                       *)
LEMMA HandlingFrame ==
  ASSUME Next
  PROVE  \/ UNCHANGED handling
         \/ \E r \in Requests : Lookup(r) \/ DeliverOutput(r) \/ DeliverDone(r)
BY ZenonT(60) DEF Next, Loopback, Network, Handler, Server, Desktop, StartShell, ShellExits,
       Connect, Disconnect, RegisterBridge, UnregisterBridge, CleanupWaiters,
       SyncReturns, Dispatch, Record, ContextExpires, ContextCleanup, Consume, Return,
       SendRequest, SendCancel, ReceiveRequest, ReceiveCancel, Deny, Start, Emit,
       TimesOut, Exits, Killed, Finish, SendOutput, SendDone

(* The desktop.                                                            *)
LEMMA DaemonFrame ==
  ASSUME Next
  PROVE  \/ UNCHANGED daemon
         \/ Disconnect
         \/ \E r \in Requests : ReceiveRequest(r) \/ ReceiveCancel(r) \/ Deny(r)
              \/ Start(r) \/ Emit(r) \/ TimesOut(r) \/ Exits(r) \/ Killed(r)
              \/ Finish(r) \/ SendOutput(r) \/ SendDone(r)
BY ZenonT(60) DEF Next, Loopback, Network, Handler, Server, Desktop, StartShell, ShellExits,
       Connect, RegisterBridge, UnregisterBridge, CleanupWaiters, SyncReturns,
       Dispatch, Record, ContextExpires, ContextCleanup, Consume, Return, SendRequest,
       SendCancel, Lookup, DeliverOutput, DeliverDone

-----------------------------------------------------------------------------
(* Types.                                                                  *)

LEMMA TerminalStep ==
  ASSUME TypeOK, Next
  PROVE  TerminalTypes'
<1> USE LocalExecAssumption DEF TerminalTypes
<1> TerminalTypes  BY TypesSplit
<1>1. CASE UNCHANGED terminal
  BY <1>1 DEF terminal
<1>2. CASE StartShell
  BY <1>2 DEF StartShell, CreateSession, terminal
<1>3. CASE ShellExits
  BY <1>3 DEF ShellExits, ReleaseSession, terminal
<1>4. CASE \E b \in Bridges : RegisterBridge(b)
  BY <1>4 DEF RegisterBridge, terminal
<1>5. CASE \E b \in Bridges : UnregisterBridge(b)
  BY <1>5 DEF UnregisterBridge, terminal
<1>6. CASE \E k \in Sessions : CleanupWaiters(k)
  BY <1>6 DEF CleanupWaiters, QueueCancels, terminal
<1>7. CASE \E r \in Requests : Record(r)
  BY <1>7 DEF Record, Cancel, QueueCancels, terminal
<1>8. CASE \E r \in Requests : ContextCleanup(r)
  BY <1>8 DEF ContextCleanup, Cancel, QueueCancels, terminal
<1>9. CASE \E r \in Requests : Return(r)
  BY <1>9 DEF Return, terminal
<1> QED  BY <1>1, <1>2, <1>3, <1>4, <1>5, <1>6, <1>7, <1>8, <1>9, TerminalFrame

LEMMA LinkStep ==
  ASSUME TypeOK, Next
  PROVE  LinkTypes'
<1> USE LocalExecAssumption DEF LinkTypes
<1> LinkTypes  BY TypesSplit
<1>1. CASE UNCHANGED links
  BY <1>1 DEF links
<1>2. CASE Connect
  <2>1. made + 1 \in 0..MaxSessions /\ made + 1 \in Sessions
    BY <1>2 DEF Connect, Sessions
  <2> QED  BY <1>2, <2>1 DEF Connect
<1>3. CASE Disconnect
  BY <1>3 DEF Disconnect, links
<1>4. CASE \E k \in Sessions : SyncReturns(k)
  BY <1>4 DEF SyncReturns, Unregister, links
<1> QED  BY <1>1, <1>2, <1>3, <1>4, LinkFrame

LEMMA CallerStep ==
  ASSUME TypeOK, Next
  PROVE  CallerTypes'
<1> USE LocalExecAssumption DEF CallerTypes
<1> CallerTypes  BY TypesSplit
<1>1. CASE UNCHANGED caller
  BY <1>1 DEF caller
<1>2. CASE \E r \in Requests : Dispatch(r)
  BY <1>2, TypesSplit DEF Dispatch, LinkTypes
<1>3. CASE \E r \in Requests : Record(r)
  BY <1>3 DEF Record, Cancel, QueueCancels, caller
<1>4. CASE \E r \in Requests : ContextExpires(r)
  BY <1>4 DEF ContextExpires, caller
<1>5. CASE \E r \in Requests : Consume(r)
  <2> PICK r \in Requests : Consume(r)
    BY <1>5
  <2>1. chan[r] \in Seq(Answers \cup {"output"}) /\ chan[r] # <<>>
    BY TypesSplit DEF Consume, WaiterTypes
  <2>2. Head(chan[r]) \in Answers \cup {"output"}
    BY <2>1, TailRange
  <2> QED  BY <2>2 DEF Consume
<1>6. CASE \E r \in Requests : Return(r)
  BY ZenonT(60), <1>6 DEF Return, Answers
<1> QED  BY <1>1, <1>2, <1>3, <1>4, <1>5, <1>6, CallerFrame

LEMMA WaiterStep ==
  ASSUME TypeOK, Next
  PROVE  WaiterTypes'
<1> USE LocalExecAssumption DEF WaiterTypes
<1> WaiterTypes  BY TypesSplit
<1>1. CASE UNCHANGED waiters
  BY <1>1 DEF waiters
<1>2. CASE \E k \in Sessions : CleanupWaiters(k)
  <2> PICK k \in Sessions : CleanupWaiters(k)
    BY <1>2
  <2>1. waiting' \subseteq Requests /\ closed' \subseteq Requests
    BY DEF CleanupWaiters
  <2>2. ASSUME NEW r \in Requests
        PROVE  /\ Append(chan[r], "bridge gone") \in Seq(Answers \cup {"output"})
               /\ Len(Append(chan[r], "bridge gone")) = Len(chan[r]) + 1
    <3>1. "bridge gone" \in Answers \cup {"output"}
      BY DEF Answers
    <3>2. chan[r] \in Seq(Answers \cup {"output"})
      OBVIOUS
    <3> QED  BY ONLY ZenonT(60), <3>1, <3>2, AppendRange
  <2>3. \A r \in Requests : Len(chan[r]) \in Nat /\ Len(chan[r]) <= WaiterCap
    BY LenProperties
  <2>4. \A r \in Requests :
          \/ chan'[r] = chan[r]
          \/ chan'[r] = Append(chan[r], "bridge gone") /\ Len(chan[r]) < WaiterCap
    BY DEF CleanupWaiters
  <2>5. \A r \in Requests :
          chan'[r] \in Seq(Answers \cup {"output"}) /\ Len(chan'[r]) <= WaiterCap
    <3> TAKE r \in Requests
    <3>1. CASE chan'[r] = chan[r]
      BY <3>1
    <3>2. CASE chan'[r] = Append(chan[r], "bridge gone") /\ Len(chan[r]) < WaiterCap
      <4>1. Len(chan[r]) + 1 <= WaiterCap
        <5>1. Len(chan[r]) \in Nat /\ Len(chan[r]) < WaiterCap /\ WaiterCap \in Nat
          BY <2>3, <3>2
        <5> QED  BY ONLY <5>1
      <4> QED  BY <2>2, <3>2, <4>1
    <3> QED  BY <2>4, <3>1, <3>2
  <2>6. chan' = [r \in Requests |-> chan'[r]]
    BY DEF CleanupWaiters
  <2> QED  BY <2>1, <2>5, <2>6
<1>3. CASE \E r \in Requests : Dispatch(r)
  BY <1>3 DEF Dispatch, SendLocalExecRequest, waiters
<1>4. CASE \E r \in Requests : Record(r)
  BY <1>4 DEF Record, Cancel, QueueCancels, waiters
<1>5. CASE \E r \in Requests : ContextCleanup(r)
  BY <1>5 DEF ContextCleanup, Cancel, QueueCancels, waiters
<1>6. CASE \E r \in Requests : Consume(r)
  BY <1>6 DEF Consume, waiters
<1>7. CASE \E r \in Requests : Lookup(r)
  BY <1>7 DEF Lookup, waiters
<1>8. CASE \E r \in Requests : DeliverOutput(r)
  <2> PICK r \in Requests : DeliverOutput(r)
    BY <1>8
  <2>1. "output" \in Answers \cup {"output"}
    BY TypesSplit DEF Verdict, Answers, DaemonTypes
  <2>2. Append(chan[r], "output") \in Seq(Answers \cup {"output"})
    BY <2>1, AppendRange
  <2>3. Len(chan[r]) \in Nat /\ Len(Append(chan[r], "output")) = Len(chan[r]) + 1
    BY <2>1, AppendRange, LenProperties
  <2>4. waiting' = waiting /\ closed' \subseteq Requests
    BY DEF DeliverOutput
  <2>5. CASE UNCHANGED chan
    BY <2>4, <2>5
  <2>6. CASE chan' = [chan EXCEPT ![r] = Append(@, "output")] /\ Len(chan[r]) < WaiterCap
    BY <2>2, <2>3, <2>4, <2>6
  <2> QED  BY <2>5, <2>6 DEF DeliverOutput
<1>9. CASE \E r \in Requests : DeliverDone(r)
  <2> PICK r \in Requests : DeliverDone(r)
    BY <1>9
  <2>1. Verdict(r) \in Answers \cup {"output"}
    BY TypesSplit DEF Verdict, Answers, DaemonTypes
  <2>2. Append(chan[r], Verdict(r)) \in Seq(Answers \cup {"output"})
    BY <2>1, AppendRange
  <2>3. Len(chan[r]) \in Nat /\ Len(Append(chan[r], Verdict(r))) = Len(chan[r]) + 1
    BY <2>1, AppendRange, LenProperties
  <2>4. waiting' = waiting /\ closed' \subseteq Requests
    BY DEF DeliverDone
  <2>5. CASE UNCHANGED chan
    BY <2>4, <2>5
  <2>6. CASE chan' = [chan EXCEPT ![r] = Append(@, Verdict(r))] /\ Len(chan[r]) < WaiterCap
    BY <2>2, <2>3, <2>4, <2>6
  <2> QED  BY <2>5, <2>6 DEF DeliverDone
<1> QED  BY <1>1, <1>2, <1>3, <1>4, <1>5, <1>6, <1>7, <1>8, <1>9, WaiterFrame

LEMMA QueueStep ==
  ASSUME TypeOK, Next
  PROVE  QueueTypes'
<1> USE LocalExecAssumption DEF QueueTypes
<1> QueueTypes  BY TypesSplit
<1>1. CASE UNCHANGED queues
  BY <1>1 DEF queues
<1>2. CASE \E k \in Sessions : CleanupWaiters(k)
  <2> PICK k \in Sessions : CleanupWaiters(k)
    BY <1>2
  <2>1. PICK told \in SUBSET Requests : cancelOut' = cancelOut \cup told
    BY TypesSplit DEF CleanupWaiters, QueueCancels, WaiterTypes
  <2> QED  BY <2>1 DEF CleanupWaiters
<1>3. CASE \E r \in Requests : Dispatch(r)
  BY <1>3 DEF Dispatch, SendLocalExecRequest, queues
<1>4. CASE \E r \in Requests : Record(r)
  BY <1>4 DEF Record, Cancel, QueueCancels, queues
<1>5. CASE \E r \in Requests : ContextCleanup(r)
  BY <1>5 DEF ContextCleanup, Cancel, QueueCancels, queues
<1>6. CASE \E r \in Requests : SendRequest(r)
  BY <1>6 DEF SendRequest, queues
<1>7. CASE \E r \in Requests : SendCancel(r)
  BY <1>7 DEF SendCancel, queues
<1> QED  BY <1>1, <1>2, <1>3, <1>4, <1>5, <1>6, <1>7, QueueFrame

LEMMA WireStep ==
  ASSUME TypeOK, Next
  PROVE  WireTypes'
<1> USE LocalExecAssumption DEF WireTypes
<1> WireTypes  BY TypesSplit
<1>1. CASE UNCHANGED wires
  BY <1>1 DEF wires
<1>2. CASE Disconnect
  BY <1>2 DEF Disconnect, wires
<1>3. CASE \E r \in Requests : SendRequest(r)
  BY <1>3 DEF SendRequest, wires
<1>4. CASE \E r \in Requests : SendCancel(r)
  BY <1>4 DEF SendCancel, wires
<1>5. CASE \E r \in Requests : Lookup(r)
  BY <1>5 DEF Lookup, wires
<1>6. CASE \E r \in Requests : ReceiveRequest(r)
  BY <1>6 DEF ReceiveRequest, wires
<1>7. CASE \E r \in Requests : ReceiveCancel(r)
  BY <1>7 DEF ReceiveCancel, wires
<1>8. CASE \E r \in Requests : SendOutput(r)
  BY <1>8 DEF SendOutput, wires
<1>9. CASE \E r \in Requests : SendDone(r)
  BY <1>9 DEF SendDone, wires
<1> QED  BY <1>1, <1>2, <1>3, <1>4, <1>5, <1>6, <1>7, <1>8, <1>9, WireFrame

LEMMA HandlingStep ==
  ASSUME TypeOK, Next
  PROVE  HandlingTypes'
<1> USE LocalExecAssumption DEF HandlingTypes
<1> HandlingTypes  BY TypesSplit
<1>1. CASE UNCHANGED handling
  BY <1>1
<1>2. CASE \E r \in Requests : Lookup(r)
  <2> PICK r \in Requests : Lookup(r)
    BY <1>2
  <2>1. Head(upward[r]) \in {"output", "done"}
    BY TailRange, TypesSplit DEF Lookup, WireTypes
  <2> QED  BY <2>1 DEF Lookup
<1>3. CASE \E r \in Requests : DeliverOutput(r)
  BY <1>3 DEF DeliverOutput
<1>4. CASE \E r \in Requests : DeliverDone(r)
  BY <1>4 DEF DeliverDone
<1> QED  BY <1>1, <1>2, <1>3, <1>4, HandlingFrame

LEMMA DaemonStep ==
  ASSUME TypeOK, Next
  PROVE  DaemonTypes'
<1> USE LocalExecAssumption DEF DaemonTypes
<1> DaemonTypes  BY TypesSplit
<1>1. CASE UNCHANGED daemon
  BY <1>1 DEF daemon
<1>2. CASE Disconnect
  BY <1>2 DEF Disconnect, daemon
<1>3. CASE \E r \in Requests : ReceiveRequest(r)
  BY <1>3 DEF ReceiveRequest, daemon
<1>4. CASE \E r \in Requests : ReceiveCancel(r)
  BY <1>4 DEF ReceiveCancel, daemon
<1>5. CASE \E r \in Requests : Deny(r)
  BY <1>5 DEF Deny, Reports, daemon
<1>6. CASE \E r \in Requests : Start(r)
  BY <1>6 DEF Start, daemon
<1>7. CASE \E r \in Requests : Emit(r)
  BY <1>7 DEF Emit, daemon
<1>8. CASE \E r \in Requests : TimesOut(r)
  BY <1>8 DEF TimesOut, daemon
<1>9. CASE \E r \in Requests : Exits(r)
  BY <1>9 DEF Exits, daemon
<1>10. CASE \E r \in Requests : Killed(r)
  BY <1>10 DEF Killed, daemon
<1>11. CASE \E r \in Requests : Finish(r)
  BY <1>11 DEF Finish, Reports, daemon
<1>12. CASE \E r \in Requests : SendOutput(r)
  BY <1>12 DEF SendOutput, daemon
<1>13. CASE \E r \in Requests : SendDone(r)
  BY <1>13 DEF SendDone, daemon
<1> QED  BY <1>1, <1>2, <1>3, <1>4, <1>5, <1>6, <1>7, <1>8, <1>9, <1>10, <1>11, <1>12,
         <1>13, DaemonFrame

(* A waiter is not both open and closed by OneWaiter.                      *)
LEMMA TypeStep ==
  ASSUME TypeOK, OneWaiter', Next
  PROVE  TypeOK'
<1>1. /\ TerminalTypes' /\ LinkTypes' /\ CallerTypes' /\ WaiterTypes'
      /\ QueueTypes' /\ WireTypes' /\ HandlingTypes' /\ DaemonTypes'
  BY TerminalStep, LinkStep, CallerStep, WaiterStep, QueueStep, WireStep,
     HandlingStep, DaemonStep
<1>2. (waiting \cap closed = {})'
  BY <1>1 DEF OneWaiter, WaiterTypes
<1>3. panicked' \in BOOLEAN
  BY ZenonT(60), TypesSplit DEF Next, Loopback, Network, Handler, Server, Desktop, StartShell,
     ShellExits, Connect, Disconnect, RegisterBridge, UnregisterBridge, CleanupWaiters,
     SyncReturns, Dispatch, Record, ContextExpires, ContextCleanup, Consume, Return,
     SendRequest, SendCancel, Lookup, DeliverOutput, DeliverDone, ReceiveRequest,
     ReceiveCancel, Deny, Start, Emit, TimesOut, Exits, Killed, Finish, SendOutput,
     SendDone
<1> QED  BY SMTT(30), <1>1, <1>2, <1>3 DEF TypeOK, TerminalTypes, LinkTypes, CallerTypes,
        WaiterTypes, QueueTypes, WireTypes, HandlingTypes, DaemonTypes

-----------------------------------------------------------------------------
(* Requests and their waiters.                                             *)

(* Dispatch names the session; bridges never return to being unknown.      *)
LEMMA KnownStep ==
  ASSUME TypeOK, Undispatched, Next, NEW q \in Requests
  PROVE  /\ phase'[q] \in {"sent", "draining", "returned"} => Dispatched(q)'
         /\ phase'[q] = "idle" => ~ Dispatched(q)'
         /\ Dispatched(q)' => bridge'[Owner[q]] # "none"
<1> USE LocalExecAssumption
<1> TerminalTypes /\ LinkTypes /\ CallerTypes
  BY TypesSplit
<1> USE DEF TerminalTypes, LinkTypes, CallerTypes
<1>1. CASE UNCHANGED <<terminal, caller>>
  BY <1>1 DEF terminal, caller, Undispatched, Dispatched
<1>2. CASE StartShell
  BY <1>2 DEF StartShell, CreateSession, terminal, caller, Undispatched, Dispatched
<1>3. CASE ShellExits
  BY <1>3 DEF ShellExits, ReleaseSession, terminal, caller, Undispatched, Dispatched
<1>4. CASE \E b \in Bridges : RegisterBridge(b)
  BY <1>4 DEF RegisterBridge, terminal, caller, Undispatched, Dispatched
<1>5. CASE \E b \in Bridges : UnregisterBridge(b)
  BY <1>5 DEF UnregisterBridge, terminal, caller, Undispatched, Dispatched
<1>6. CASE \E k \in Sessions : CleanupWaiters(k)
  BY <1>6 DEF CleanupWaiters, QueueCancels, terminal, caller, Undispatched, Dispatched
<1>7. CASE \E r \in Requests : Dispatch(r)
  BY <1>7 DEF Dispatch, BridgeMatches, terminal, Undispatched, Dispatched
<1>8. CASE \E r \in Requests : Record(r)
  BY <1>8 DEF Record, Cancel, QueueCancels, terminal, caller, Undispatched, Dispatched
<1>9. CASE \E r \in Requests : ContextExpires(r)
  BY <1>9 DEF ContextExpires, terminal, caller, Undispatched, Dispatched
<1>10. CASE \E r \in Requests : ContextCleanup(r)
  BY <1>10 DEF ContextCleanup, Cancel, QueueCancels, terminal, caller, Undispatched,
       Dispatched
<1>11. CASE \E r \in Requests : Consume(r)
  BY <1>11 DEF Consume, terminal, caller, Undispatched, Dispatched
<1>12. CASE \E r \in Requests : Return(r)
  BY <1>12 DEF Return, terminal, caller, Undispatched, Dispatched
<1> QED  BY <1>1, <1>2, <1>3, <1>4, <1>5, <1>6, <1>7, <1>8, <1>9, <1>10, <1>11, <1>12,
         TerminalFrame, CallerFrame

(* No step leaves a trace of a request that is not dispatched by it.       *)
LEMMA UnknownStep ==
  ASSUME NEW q \in Requests, TypeOK, Undispatched, Unknown(q), Next, sess'[q] = 0
  PROVE  Unknown(q)'
<1> TerminalTypes /\ CallerTypes /\ WaiterTypes /\ WireTypes /\ HandlingTypes /\ DaemonTypes
  BY TypesSplit
<1> USE DEF TerminalTypes, CallerTypes, WaiterTypes, WireTypes, HandlingTypes, DaemonTypes
<1>1. CASE UNCHANGED <<terminal, links, caller, waiters, queues, wires, handling, daemon>>
  BY <1>1 DEF terminal, links, caller, waiters, queues, wires, daemon, Unknown
<1>2. CASE StartShell
  BY <1>2 DEF StartShell, CreateSession, terminal, links, caller, waiters, queues,
       wires, daemon, Unknown
<1>3. CASE ShellExits
  BY <1>3 DEF ShellExits, ReleaseSession, terminal, links, caller, waiters, queues,
       wires, daemon, Unknown
<1>4. CASE Connect
  BY <1>4 DEF Connect, terminal, links, caller, waiters, queues, wires, daemon,
       Unknown
<1>5. CASE Disconnect
  BY <1>5 DEF Disconnect, terminal, links, caller, waiters, queues, wires, daemon,
       Unknown
<1>6. CASE \E b \in Bridges : RegisterBridge(b)
  BY <1>6 DEF RegisterBridge, terminal, links, caller, waiters, queues, wires, daemon,
       Unknown
<1>7. CASE \E b \in Bridges : UnregisterBridge(b)
  BY <1>7 DEF UnregisterBridge, terminal, links, caller, waiters, queues, wires,
       daemon, Unknown
<1>8. CASE \E k \in Sessions : CleanupWaiters(k)
  <2> PICK k \in Sessions : CleanupWaiters(k)
    BY <1>8
  <2>1. sess[q] = 0 /\ q \notin waiting /\ q \notin releasing
    BY DEF CleanupWaiters, caller, Unknown
  <2>2. PICK told \in SUBSET ({r \in releasing : sess[r] = k} \cap waiting) :
          cancelOut' = cancelOut \cup told
    BY DEF CleanupWaiters, QueueCancels
  <2>3. chan'[q] = chan[q]
    BY <2>1 DEF CleanupWaiters
  <2> QED
    BY <2>1, <2>2, <2>3 DEF CleanupWaiters, Unknown, caller, wires, daemon
<1>9. CASE \E k \in Sessions : SyncReturns(k)
  BY <1>9 DEF SyncReturns, Unregister, terminal, links, caller, waiters, queues,
       wires, daemon, Unknown
<1>10. CASE \E r \in Requests : Dispatch(r)
  BY <1>10 DEF Dispatch, SendLocalExecRequest, terminal, links, caller, waiters,
       queues, wires, daemon, Unknown
<1>11. CASE \E r \in Requests : Record(r)
  <2> PICK r \in Requests : Record(r)
    BY <1>11
  <2>1. r # q
    BY DEF Record, Undispatched, Dispatched
  <2> QED
    BY <2>1 DEF Record, Cancel, QueueCancels, Unknown, waiters, wires, daemon
<1>12. CASE \E r \in Requests : ContextExpires(r)
  BY <1>12 DEF ContextExpires, terminal, links, caller, waiters, queues, wires,
       daemon, Unknown
<1>13. CASE \E r \in Requests : ContextCleanup(r)
  BY <1>13 DEF ContextCleanup, Cancel, QueueCancels, terminal, links, caller, waiters,
       queues, wires, daemon, Unknown
<1>14. CASE \E r \in Requests : Consume(r)
  BY <1>14 DEF Consume, terminal, links, caller, waiters, queues, wires, daemon,
       Unknown
<1>15. CASE \E r \in Requests : Return(r)
  BY <1>15 DEF Return, terminal, links, caller, waiters, queues, wires, daemon,
       Unknown
<1>16. CASE \E r \in Requests : SendRequest(r)
  BY <1>16 DEF SendRequest, terminal, links, caller, waiters, queues, wires, daemon,
       Unknown
<1>17. CASE \E r \in Requests : SendCancel(r)
  BY <1>17 DEF SendCancel, terminal, links, caller, waiters, queues, wires, daemon,
       Unknown
<1>18. CASE \E r \in Requests : Lookup(r)
  BY <1>18 DEF Lookup, terminal, links, caller, waiters, queues, wires, daemon,
       Unknown
<1>19. CASE \E r \in Requests : DeliverOutput(r)
  BY <1>19 DEF DeliverOutput, terminal, links, caller, waiters, queues, wires, daemon,
       Unknown
<1>20. CASE \E r \in Requests : DeliverDone(r)
  BY <1>20 DEF DeliverDone, terminal, links, caller, waiters, queues, wires, daemon,
       Unknown
<1>21. CASE \E r \in Requests : ReceiveRequest(r)
  BY <1>21 DEF ReceiveRequest, terminal, links, caller, waiters, queues, wires,
       daemon, Unknown
<1>22. CASE \E r \in Requests : ReceiveCancel(r)
  BY <1>22 DEF ReceiveCancel, terminal, links, caller, waiters, queues, wires, daemon,
       Unknown
<1>23. CASE \E r \in Requests : Deny(r)
  BY <1>23 DEF Deny, Reports, terminal, links, caller, waiters, queues, wires, daemon,
       Unknown
<1>24. CASE \E r \in Requests : Start(r)
  BY <1>24 DEF Start, terminal, links, caller, waiters, queues, wires, daemon, Unknown
<1>25. CASE \E r \in Requests : Emit(r)
  BY <1>25 DEF Emit, terminal, links, caller, waiters, queues, wires, daemon, Unknown
<1>26. CASE \E r \in Requests : TimesOut(r)
  BY <1>26 DEF TimesOut, terminal, links, caller, waiters, queues, wires, daemon,
       Unknown
<1>27. CASE \E r \in Requests : Exits(r)
  BY <1>27 DEF Exits, terminal, links, caller, waiters, queues, wires, daemon, Unknown
<1>28. CASE \E r \in Requests : Killed(r)
  BY <1>28 DEF Killed, terminal, links, caller, waiters, queues, wires, daemon,
       Unknown
<1>29. CASE \E r \in Requests : Finish(r)
  BY <1>29 DEF Finish, Reports, terminal, links, caller, waiters, queues, wires,
       daemon, Unknown
<1>30. CASE \E r \in Requests : SendOutput(r)
  BY <1>30 DEF SendOutput, terminal, links, caller, waiters, queues, wires, daemon,
       Unknown
<1>31. CASE \E r \in Requests : SendDone(r)
  BY <1>31 DEF SendDone, terminal, links, caller, waiters, queues, wires, daemon,
       Unknown
<1> QED  BY <1>1, <1>2, <1>3, <1>4, <1>5, <1>6, <1>7, <1>8, <1>9, <1>10, <1>11, <1>12,
         <1>13, <1>14, <1>15, <1>16, <1>17, <1>18, <1>19, <1>20, <1>21, <1>22, <1>23,
         <1>24, <1>25, <1>26, <1>27, <1>28, <1>29, <1>30, <1>31, TerminalFrame,
         LinkFrame, CallerFrame, WaiterFrame, QueueFrame, WireFrame, HandlingFrame,
         DaemonFrame

(* A Done takes the waiter out of the map and is delivered and closes it;  *)
(* every other removal closes it at once.                                  *)
LEMMA OneWaiterStep ==
  ASSUME TypeOK, Undispatched, OneWaiter, Next
  PROVE  OneWaiter'
<1> CallerTypes /\ WaiterTypes /\ WireTypes /\ HandlingTypes
  BY TypesSplit
<1> USE DEF CallerTypes, WaiterTypes, WireTypes, HandlingTypes
<1>1. CASE UNCHANGED <<caller, waiters, handling>>
  BY <1>1 DEF caller, waiters, OneWaiter, Dispatched
<1>2. CASE \E k \in Sessions : CleanupWaiters(k)
  BY <1>2 DEF CleanupWaiters, QueueCancels, caller, waiters, OneWaiter, Dispatched
<1>3. CASE \E r \in Requests : Dispatch(r)
  BY <1>3 DEF Dispatch, SendLocalExecRequest, OneWaiter, Undispatched, Unknown, Dispatched
<1>4. CASE \E r \in Requests : Record(r)
  BY <1>4 DEF Record, Cancel, QueueCancels, caller, waiters, OneWaiter, Dispatched
<1>5. CASE \E r \in Requests : ContextExpires(r)
  BY <1>5 DEF ContextExpires, caller, waiters, OneWaiter, Dispatched
<1>6. CASE \E r \in Requests : ContextCleanup(r)
  BY <1>6 DEF ContextCleanup, Cancel, QueueCancels, caller, waiters, OneWaiter,
       Dispatched
<1>7. CASE \E r \in Requests : Consume(r)
  BY <1>7 DEF Consume, caller, waiters, OneWaiter, Dispatched
<1>8. CASE \E r \in Requests : Return(r)
  BY <1>8 DEF Return, caller, waiters, OneWaiter, Dispatched
<1>9. CASE \E r \in Requests : Lookup(r)
  BY <1>9 DEF Lookup, caller, waiters, OneWaiter, Dispatched
<1>10. CASE \E r \in Requests : DeliverOutput(r)
  BY <1>10 DEF DeliverOutput, caller, waiters, OneWaiter, Dispatched
<1>11. CASE \E r \in Requests : DeliverDone(r)
  BY <1>11 DEF DeliverDone, caller, waiters, OneWaiter, Dispatched
<1> QED  BY <1>1, <1>2, <1>3, <1>4, <1>5, <1>6, <1>7, <1>8, <1>9, <1>10, <1>11,
         CallerFrame, WaiterFrame, HandlingFrame

(* Record looks at the bridge again under the mutex that UnregisterBridge  *)
(* takes.                                                                  *)
LEMMA TrackedStep ==
  ASSUME TypeOK, Undispatched, OneWaiter, Tracked, Next
  PROVE  Tracked'
<1> TerminalTypes /\ CallerTypes /\ WaiterTypes
  BY TypesSplit
<1> USE DEF TerminalTypes, CallerTypes, WaiterTypes
<1>1. CASE UNCHANGED <<terminal, caller, waiters>>
  BY <1>1 DEF terminal, caller, waiters, Tracked
<1>2. CASE StartShell
  BY <1>2 DEF StartShell, CreateSession, terminal, caller, waiters, Tracked
<1>3. CASE ShellExits
  BY <1>3 DEF ShellExits, ReleaseSession, terminal, caller, waiters, Tracked
<1>4. CASE \E b \in Bridges : RegisterBridge(b)
  BY <1>4 DEF RegisterBridge, terminal, caller, waiters, Tracked
<1>5. CASE \E b \in Bridges : UnregisterBridge(b)
  BY <1>5 DEF UnregisterBridge, terminal, caller, waiters, Tracked
<1>6. CASE \E k \in Sessions : CleanupWaiters(k)
  BY <1>6 DEF CleanupWaiters, QueueCancels, terminal, caller, waiters, Tracked
<1>7. CASE \E r \in Requests : Dispatch(r)
  BY <1>7 DEF Dispatch, SendLocalExecRequest, terminal, caller, waiters, Tracked
<1>8. CASE \E r \in Requests : Record(r)
  BY <1>8 DEF Record, Cancel, QueueCancels, terminal, caller, waiters, Tracked
<1>9. CASE \E r \in Requests : ContextExpires(r)
  BY <1>9 DEF ContextExpires, terminal, caller, waiters, Tracked
<1>10. CASE \E r \in Requests : ContextCleanup(r)
  BY <1>10 DEF ContextCleanup, Cancel, QueueCancels, terminal, caller, waiters,
       Tracked
<1>11. CASE \E r \in Requests : Consume(r)
  BY <1>11 DEF Consume, terminal, caller, waiters, Tracked
<1>12. CASE \E r \in Requests : Return(r)
  BY <1>12 DEF Return, OneWaiter, Tracked, waiters
<1>13. CASE \E r \in Requests : Lookup(r)
  BY <1>13 DEF Lookup, terminal, caller, waiters, Tracked
<1>14. CASE \E r \in Requests : DeliverOutput(r)
  BY <1>14 DEF DeliverOutput, terminal, caller, waiters, Tracked
<1>15. CASE \E r \in Requests : DeliverDone(r)
  BY <1>15 DEF DeliverDone, terminal, caller, waiters, Tracked
<1> QED  BY <1>1, <1>2, <1>3, <1>4, <1>5, <1>6, <1>7, <1>8, <1>9, <1>10, <1>11, <1>12,
         <1>13, <1>14, <1>15, TerminalFrame, CallerFrame, WaiterFrame

LEMMA UndispatchedStep ==
  ASSUME TypeOK, Undispatched, Next
  PROVE  Undispatched'
<1> SUFFICES ASSUME NEW q \in Requests, ~ Dispatched(q)'
             PROVE  Unknown(q)'
  BY KnownStep DEF Undispatched
<1>1. sess'[q] = 0 /\ sess[q] = 0
  <2> CallerTypes  BY TypesSplit
  <2>1. sess'[q] = 0
    BY DEF Dispatched
  <2>2. CASE UNCHANGED sess
    BY <2>1, <2>2
  <2>3. CASE \E r \in Requests : index # 0 /\ sess' = [sess EXCEPT ![r] = index]
    BY <2>1, <2>3 DEF CallerTypes
  <2> QED
    BY <2>2, <2>3, CallerFrame DEF Dispatch, Record, ContextExpires, Consume, Return, caller
<1> QED  BY <1>1, UnknownStep DEF Undispatched, Dispatched

-----------------------------------------------------------------------------
(* A request on its way to the desktop, and the Done on its way back.      *)

(* Only Dispatch queues a request, and only its receipt starts a handler.  *)
LEMMA SentOnceStep ==
  ASSUME TypeOK, Undispatched, SentOnce, Next
  PROVE  SentOnce'
<1> CallerTypes /\ QueueTypes /\ WireTypes /\ DaemonTypes
  BY TypesSplit
<1> USE DEF CallerTypes, QueueTypes, WireTypes, DaemonTypes
<1>1. CASE UNCHANGED <<queues, wires, daemon>>
  BY <1>1 DEF queues, wires, daemon, SentOnce
<1>2. CASE Disconnect
  BY <1>2, EmptyRange, OnceEmpty DEF Disconnect, queues, SentOnce
<1>3. CASE \E k \in Sessions : CleanupWaiters(k)
  BY <1>3 DEF CleanupWaiters, QueueCancels, queues, wires, daemon, SentOnce
<1>4. CASE \E r \in Requests : Dispatch(r)
  <2> PICK r \in Requests : Dispatch(r)
    BY <1>4
  <2>1. proc[r] = "none" /\ down[r] = <<>>
    BY DEF Dispatch, Undispatched, Unknown
  <2> QED  BY <2>1, EmptyRange DEF Dispatch, SendLocalExecRequest, SentOnce, wires, daemon
<1>5. CASE \E r \in Requests : Record(r)
  BY <1>5 DEF Record, Cancel, QueueCancels, queues, wires, daemon, SentOnce
<1>6. CASE \E r \in Requests : ContextCleanup(r)
  BY <1>6 DEF ContextCleanup, Cancel, QueueCancels, queues, wires, daemon, SentOnce
<1>7. CASE \E r \in Requests : SendRequest(r)
  <2> PICK r \in Requests : SendRequest(r)
    BY <1>7
  <2>0. down[r] \in Seq({"request", "cancel"})
    OBVIOUS
  <2>1. Range(Append(down[r], "request")) = Range(down[r]) \cup {"request"}
    BY ONLY <2>0, AppendRange
  <2>2. Once(Append(down[r], "request"), "request")
    <3>1. Once(down[r], "request") /\ "request" \notin Range(down[r])
      BY DEF SendRequest, SentOnce
    <3>2. "request" \in {"request", "cancel"}
      OBVIOUS
    <3> QED  BY ONLY <2>0, <3>1, <3>2, OnceAppend
  <2> QED  BY <2>1, <2>2 DEF SendRequest, SentOnce, daemon
<1>8. CASE \E r \in Requests : SendCancel(r)
  <2> PICK r \in Requests : SendCancel(r)
    BY <1>8
  <2>0. down[r] \in Seq({"request", "cancel"})
    OBVIOUS
  <2>1. Range(Append(down[r], "cancel")) = Range(down[r]) \cup {"cancel"}
    BY ONLY <2>0, AppendRange
  <2>2. Once(Append(down[r], "cancel"), "request")
    <3>1. Once(down[r], "request")
      BY DEF SendCancel, SentOnce
    <3>2. "cancel" \in {"request", "cancel"}
      OBVIOUS
    <3> QED  BY ONLY <2>0, <3>1, <3>2, OnceAppend
  <2> QED  BY <2>1, <2>2 DEF SendCancel, SentOnce, daemon
<1>9. CASE \E r \in Requests : Lookup(r)
  BY <1>9 DEF Lookup, queues, wires, daemon, SentOnce
<1>10. CASE \E r \in Requests : ReceiveRequest(r)
  <2> PICK r \in Requests : ReceiveRequest(r)
    BY <1>10
  <2>1. down[r] \in Seq({"request", "cancel"}) /\ down[r] # <<>> /\ Head(down[r]) = "request"
    BY DEF ReceiveRequest
  <2>2. Range(down[r]) = {"request"} \cup Range(Tail(down[r]))
    BY <2>1, TailRange
  <2>3. Once(Tail(down[r]), "request") /\ "request" \notin Range(Tail(down[r]))
    BY <2>1, OnceTail DEF SentOnce
  <2> QED  BY <2>2, <2>3 DEF ReceiveRequest, SentOnce, queues
<1>11. CASE \E r \in Requests : ReceiveCancel(r)
  <2> PICK r \in Requests : ReceiveCancel(r)
    BY <1>11
  <2>1. down[r] \in Seq({"request", "cancel"}) /\ down[r] # <<>> /\ Head(down[r]) = "cancel"
    BY DEF ReceiveCancel
  <2>2. Range(down[r]) = {"cancel"} \cup Range(Tail(down[r]))
    BY <2>1, TailRange
  <2>3. Once(Tail(down[r]), "request")
    BY <2>1, OnceTail DEF SentOnce
  <2> QED  BY <2>2, <2>3 DEF ReceiveCancel, SentOnce, queues
<1>12. CASE \E r \in Requests : Deny(r)
  BY <1>12 DEF Deny, Reports, queues, wires, daemon, SentOnce
<1>13. CASE \E r \in Requests : Start(r)
  BY <1>13 DEF Start, queues, wires, daemon, SentOnce
<1>14. CASE \E r \in Requests : Emit(r)
  BY <1>14 DEF Emit, queues, wires, daemon, SentOnce
<1>15. CASE \E r \in Requests : TimesOut(r)
  BY <1>15 DEF TimesOut, queues, wires, daemon, SentOnce
<1>16. CASE \E r \in Requests : Exits(r)
  BY <1>16 DEF Exits, queues, wires, daemon, SentOnce
<1>17. CASE \E r \in Requests : Killed(r)
  BY <1>17 DEF Killed, queues, wires, daemon, SentOnce
<1>18. CASE \E r \in Requests : Finish(r)
  BY <1>18 DEF Finish, Reports, queues, wires, daemon, SentOnce
<1>19. CASE \E r \in Requests : SendOutput(r)
  BY <1>19 DEF SendOutput, queues, wires, daemon, SentOnce
<1>20. CASE \E r \in Requests : SendDone(r)
  BY <1>20 DEF SendDone, queues, wires, daemon, SentOnce
<1> QED  BY <1>1, <1>2, <1>3, <1>4, <1>5, <1>6, <1>7, <1>8, <1>9, <1>10, <1>11, <1>12,
         <1>13, <1>14, <1>15, <1>16, <1>17, <1>18, <1>19, <1>20, QueueFrame,
         WireFrame, DaemonFrame

(* A handler that has returned stays so, and its process and context do    *)
(* not change any more: its request has been received and there is no      *)
(* second one.                                                             *)
LEMMA DoneStays ==
  ASSUME TypeOK, SentOnce, Next, NEW q \in Requests, proc[q] = "done"
  PROVE  proc'[q] = "done" /\ exit'[q] = exit[q] /\ cut'[q] = cut[q]
<1> WireTypes /\ DaemonTypes
  BY TypesSplit
<1> USE DEF WireTypes, DaemonTypes
<1>1. CASE UNCHANGED daemon
  BY <1>1 DEF daemon, SentOnce
<1>2. CASE Disconnect
  BY <1>2 DEF Disconnect, Active
<1>3. CASE \E r \in Requests : ReceiveRequest(r)
  <2> PICK r \in Requests : ReceiveRequest(r)
    BY <1>3
  <2>1. Range(down[r]) = {"request"} \cup Range(Tail(down[r]))
    BY TailRange DEF ReceiveRequest
  <2>2. r # q
    BY <2>1 DEF SentOnce
  <2> QED  BY <2>2 DEF ReceiveRequest
<1>4. CASE \E r \in Requests : ReceiveCancel(r)
  BY <1>4 DEF ReceiveCancel, Active
<1>5. CASE \E r \in Requests : Deny(r)
  BY <1>5 DEF Deny, Reports, daemon, SentOnce
<1>6. CASE \E r \in Requests : Start(r)
  BY <1>6 DEF Start, daemon, SentOnce
<1>7. CASE \E r \in Requests : Emit(r)
  BY <1>7 DEF Emit, daemon, SentOnce
<1>8. CASE \E r \in Requests : TimesOut(r)
  BY <1>8 DEF TimesOut, daemon, SentOnce
<1>9. CASE \E r \in Requests : Exits(r)
  BY <1>9 DEF Exits, daemon, SentOnce
<1>10. CASE \E r \in Requests : Killed(r)
  BY <1>10 DEF Killed, daemon, SentOnce
<1>11. CASE \E r \in Requests : Finish(r)
  BY <1>11 DEF Finish, Reports, daemon, SentOnce
<1>12. CASE \E r \in Requests : SendOutput(r)
  BY <1>12 DEF SendOutput, daemon, SentOnce
<1>13. CASE \E r \in Requests : SendDone(r)
  BY <1>13 DEF SendDone, daemon, SentOnce
<1> QED  BY <1>1, <1>2, <1>3, <1>4, <1>5, <1>6, <1>7, <1>8, <1>9, <1>10, <1>11, <1>12,
         <1>13, DaemonFrame

LEMMA VerdictStays ==
  ASSUME TypeOK, SentOnce, Next, NEW q \in Requests, proc[q] = "done"
  PROVE  proc'[q] = "done" /\ Verdict(q)' = Verdict(q)
BY DoneStays DEF Verdict

LEMMA VerdictIsAnswer ==
  ASSUME TypeOK, NEW q \in Requests
  PROVE  Verdict(q) \in Answers
<1> DaemonTypes  BY TypesSplit
<1> QED  BY DEF DaemonTypes, Verdict, Answers

(* Reports queues a Done as the handler returns, and nothing else does.    *)
LEMMA DoneIsFinalStep ==
  ASSUME TypeOK, SentOnce, DoneIsFinal, Next
  PROVE  DoneIsFinal'
<1> WireTypes /\ HandlingTypes /\ DaemonTypes
  BY TypesSplit
<1> USE DEF WireTypes, HandlingTypes, DaemonTypes
<1>1. CASE UNCHANGED <<handling, wires, daemon>>
  BY <1>1 DEF wires, daemon, DoneIsFinal
<1>2. CASE Disconnect
  BY <1>2, EmptyRange DEF Disconnect, DoneIsFinal
<1>3. CASE \E r \in Requests : SendRequest(r)
  BY <1>3 DEF SendRequest, wires, daemon, DoneIsFinal
<1>4. CASE \E r \in Requests : SendCancel(r)
  BY <1>4 DEF SendCancel, wires, daemon, DoneIsFinal
<1>5. CASE \E r \in Requests : Lookup(r)
  <2> PICK r \in Requests : Lookup(r)
    BY <1>5
  <2>1. Range(upward[r]) = {Head(upward[r])} \cup Range(Tail(upward[r]))
    BY TailRange DEF Lookup
  <2> QED  BY <2>1 DEF Lookup, DoneIsFinal, daemon
<1>6. CASE \E r \in Requests : DeliverOutput(r)
  BY <1>6 DEF DeliverOutput, wires, daemon, DoneIsFinal
<1>7. CASE \E r \in Requests : DeliverDone(r)
  BY <1>7 DEF DeliverDone, wires, daemon, DoneIsFinal
<1>8. CASE \E r \in Requests : ReceiveRequest(r)
  BY <1>8, DoneStays DEF ReceiveRequest, DoneIsFinal
<1>9. CASE \E r \in Requests : ReceiveCancel(r)
  BY <1>9 DEF ReceiveCancel, wires, daemon, DoneIsFinal
<1>10. CASE \E r \in Requests : Deny(r)
  BY <1>10 DEF Deny, Reports, wires, daemon, DoneIsFinal
<1>11. CASE \E r \in Requests : Start(r)
  BY <1>11 DEF Start, wires, daemon, DoneIsFinal
<1>12. CASE \E r \in Requests : Emit(r)
  BY <1>12 DEF Emit, wires, daemon, DoneIsFinal
<1>13. CASE \E r \in Requests : TimesOut(r)
  BY <1>13 DEF TimesOut, wires, daemon, DoneIsFinal
<1>14. CASE \E r \in Requests : Exits(r)
  BY <1>14 DEF Exits, wires, daemon, DoneIsFinal
<1>15. CASE \E r \in Requests : Killed(r)
  BY <1>15 DEF Killed, wires, daemon, DoneIsFinal
<1>16. CASE \E r \in Requests : Finish(r)
  BY <1>16 DEF Finish, Reports, wires, daemon, DoneIsFinal
<1>17. CASE \E r \in Requests : SendOutput(r)
  <2> PICK r \in Requests : SendOutput(r)
    BY <1>17
  <2>0. upward[r] \in Seq({"output", "done"})
    OBVIOUS
  <2>1. Range(Append(upward[r], "output")) = Range(upward[r]) \cup {"output"}
    BY ONLY <2>0, AppendRange
  <2> QED  BY <2>1 DEF SendOutput, DoneIsFinal
<1>18. CASE \E r \in Requests : SendDone(r)
  <2> PICK r \in Requests : SendDone(r)
    BY <1>18
  <2>0. upward[r] \in Seq({"output", "done"})
    OBVIOUS
  <2>1. Range(Append(upward[r], "done")) = Range(upward[r]) \cup {"done"}
    BY ONLY <2>0, AppendRange
  <2> QED  BY <2>1 DEF SendDone, DoneIsFinal
<1> QED  BY <1>1, <1>2, <1>3, <1>4, <1>5, <1>6, <1>7, <1>8, <1>9, <1>10, <1>11, <1>12,
         <1>13, <1>14, <1>15, <1>16, <1>17, <1>18, HandlingFrame, WireFrame,
         DaemonFrame

-----------------------------------------------------------------------------
(* What the caller is told.                                                *)

(* A waiter is closed by its Done, or with its caller or its bridge gone.  *)
LEMMA VerdictsStep ==
  ASSUME TypeOK, Undispatched, OneWaiter, Tracked, SentOnce, DoneIsFinal, Verdicts, Next
  PROVE  Verdicts'
<1> TerminalTypes /\ CallerTypes /\ WaiterTypes /\ HandlingTypes
  BY TypesSplit
<1> USE DEF TerminalTypes, CallerTypes, WaiterTypes, HandlingTypes
<1>1. CASE UNCHANGED <<terminal, caller, waiters>>
  BY <1>1, VerdictStays DEF terminal, caller, waiters, Verdicts, Told
<1>2. CASE StartShell
  BY <1>2, VerdictStays DEF StartShell, CreateSession, terminal, caller, waiters,
       Verdicts, Told
<1>3. CASE ShellExits
  BY <1>3, VerdictStays DEF ShellExits, ReleaseSession, terminal, caller, waiters,
       Verdicts, Told
<1>4. CASE \E b \in Bridges : RegisterBridge(b)
  BY <1>4, VerdictStays, LocalExecAssumption
  DEF RegisterBridge, Verdicts, Told, Undispatched, Unknown, caller, waiters
<1>5. CASE \E b \in Bridges : UnregisterBridge(b)
  BY <1>5, VerdictStays DEF UnregisterBridge, terminal, caller, waiters, Verdicts,
       Told
<1>6. CASE \E k \in Sessions : CleanupWaiters(k)
  <2> PICK k \in Sessions : CleanupWaiters(k)
    BY <1>6
  <2>1. \A r \in Requests : r \in closed \/ r \notin closed' => chan'[r] = chan[r]
    BY DEF CleanupWaiters, OneWaiter
  <2>2. \A r \in Requests : r \in closed' \ closed => bridge'[Owner[r]] # "up"
    BY DEF CleanupWaiters, Tracked
  <2>3. /\ bridge' = bridge /\ phase' = phase /\ resp' = resp /\ expired' = expired
        /\ closed \subseteq closed'
    BY DEF CleanupWaiters, caller
  <2> QED  BY <2>1, <2>2, <2>3, VerdictStays DEF Verdicts, Told
<1>7. CASE \E r \in Requests : Dispatch(r)
  BY <1>7, VerdictStays DEF Dispatch, SendLocalExecRequest, terminal, caller, waiters,
       Verdicts, Told
<1>8. CASE \E r \in Requests : Record(r)
  BY <1>8, VerdictStays DEF Record, Cancel, QueueCancels, terminal, caller, waiters,
       Verdicts, Told
<1>9. CASE \E r \in Requests : ContextExpires(r)
  BY <1>9, VerdictStays DEF ContextExpires, terminal, caller, waiters, Verdicts, Told
<1>10. CASE \E r \in Requests : ContextCleanup(r)
  BY <1>10, VerdictStays DEF ContextCleanup, Cancel, QueueCancels, terminal, caller,
       waiters, Verdicts, Told
<1>11. CASE \E r \in Requests : Consume(r)
  <2> PICK r \in Requests : Consume(r)
    BY <1>11
  <2>1. Range(chan[r]) = {Head(chan[r])} \cup Range(Tail(chan[r]))
    BY TailRange DEF Consume
  <2>2. Verdict(r) \notin {"output", "none"}
    BY VerdictIsAnswer DEF Answers
  <2>3. \A q \in Requests : q # r => chan'[q] = chan[q] /\ resp'[q] = resp[q]
    BY DEF Consume
  <2>4. /\ phase[r] # "returned" /\ phase' = phase /\ bridge' = bridge
        /\ expired' = expired /\ closed' = closed /\ chan'[r] = Tail(chan[r])
        /\ resp'[r] = IF Head(chan[r]) = "output" THEN resp[r] ELSE Head(chan[r])
    BY DEF Consume, terminal
  <2>5. \A q \in Requests : q # r => Told(q)'
    BY <2>3, <2>4, VerdictStays DEF Verdicts, Told
  <2>6. proc[r] = "done" => proc'[r] = "done" /\ Verdict(r)' = Verdict(r)
    BY VerdictStays
  <2>7. Told(r)'
    <3>1. CASE r \notin closed
      BY <2>1, <2>4, <3>1 DEF Verdicts, Told
    <3>2. CASE r \in closed /\ (r \in expired \/ bridge[Owner[r]] # "up")
      BY <2>4, <3>2 DEF Told
    <3>3. CASE r \in closed /\ r \notin expired /\ bridge[Owner[r]] = "up"
      <4>1. /\ proc[r] = "done" /\ resp[r] \in {"none", Verdict(r)}
            /\ Range(chan[r]) \subseteq {"output", Verdict(r)}
            /\ resp[r] = "none" => Verdict(r) \in Range(chan[r])
        BY <3>3 DEF Verdicts, Told
      <4>2. CASE Head(chan[r]) = "output"
        BY <2>1, <2>2, <2>4, <2>6, <3>3, <4>1, <4>2 DEF Told
      <4>3. CASE Head(chan[r]) = Verdict(r)
        BY <2>1, <2>2, <2>4, <2>6, <3>3, <4>1, <4>3 DEF Told
      <4> QED  BY <2>1, <4>1, <4>2, <4>3
    <3> QED  BY <3>1, <3>2, <3>3
  <2> QED  BY <2>5, <2>7 DEF Verdicts
<1>12. CASE \E r \in Requests : Return(r)
  <2> PICK r \in Requests : Return(r)
    BY <1>12
  <2>1. \A q \in Requests : q # r => resp'[q] = resp[q] /\ phase'[q] = phase[q]
    BY DEF Return
  <2>2. chan' = chan /\ bridge' = bridge /\ expired' = expired /\ closed' = closed
    BY DEF Return, waiters
  <2>3. r \in closed /\ resp'[r] # "none" /\ (resp[r] # "none" => resp'[r] = resp[r])
    BY DEF Return
  <2>4. r \notin expired /\ bridge[Owner[r]] = "up" => resp[r] # "none"
    BY <2>3, EmptyRange DEF Return, Verdicts, Told
  <2> QED  BY <2>1, <2>2, <2>3, <2>4, VerdictStays DEF Verdicts, Told
<1>13. CASE \E r \in Requests : Lookup(r)
  BY <1>13, VerdictStays DEF Lookup, terminal, caller, waiters, Verdicts, Told
<1>14. CASE \E r \in Requests : DeliverOutput(r)
  <2> PICK r \in Requests : DeliverOutput(r)
    BY <1>14
  <2>1. CASE UNCHANGED chan
    BY <2>1, VerdictStays DEF DeliverOutput, Verdicts, Told, terminal, caller
  <2>2. CASE r \notin closed /\ chan' = [chan EXCEPT ![r] = Append(@, "output")]
    <3>1. chan[r] \in Seq(Answers \cup {"output"})
      OBVIOUS
    <3>2. Range(Append(chan[r], "output")) = Range(chan[r]) \cup {"output"}
      BY ONLY <3>1, AppendRange
    <3> QED  BY <2>2, <3>2, VerdictStays DEF DeliverOutput, Verdicts, Told, terminal, caller
  <2> QED  BY <2>1, <2>2 DEF DeliverOutput
<1>15. CASE \E r \in Requests : DeliverDone(r)
  <2> PICK r \in Requests : DeliverDone(r)
    BY <1>15
  <2>1. chan[r] \in Seq(Answers \cup {"output"}) /\ Verdict(r) \in Answers \cup {"output"}
    BY VerdictIsAnswer
  <2>2. Range(Append(chan[r], Verdict(r))) = Range(chan[r]) \cup {Verdict(r)}
    BY ONLY <2>1, AppendRange
  <2>3. proc[r] = "done" /\ r \notin closed
    BY DEF DeliverDone, DoneIsFinal, OneWaiter
  <2> QED  BY <2>2, <2>3, VerdictStays DEF DeliverDone, Verdicts, Told, terminal, caller
<1> QED  BY <1>1, <1>2, <1>3, <1>4, <1>5, <1>6, <1>7, <1>8, <1>9, <1>10, <1>11, <1>12,
         <1>13, <1>14, <1>15, TerminalFrame, CallerFrame, WaiterFrame

-----------------------------------------------------------------------------
(* Theorems.                                                               *)

\* The inductive invariant holds in every reachable state.
THEOREM ExecInvariant == Spec => []IInv
<1>1. Init => IInv
  <2> SUFFICES ASSUME Init
               PROVE  IInv
    OBVIOUS
  <2> USE DEF Init
  <2>1. TypeOK
    <3>1. /\ TerminalTypes /\ LinkTypes /\ CallerTypes
          /\ QueueTypes /\ HandlingTypes /\ DaemonTypes
      BY LocalExecAssumption DEF TerminalTypes, LinkTypes, CallerTypes, QueueTypes,
         HandlingTypes, DaemonTypes, Answers
    <3>2. WaiterTypes /\ WireTypes
      BY LocalExecAssumption, EmptySeq DEF WaiterTypes, WireTypes
    <3> QED  BY <3>1, <3>2, TypesSplit
  <2>2. Undispatched
    BY DEF Undispatched, Dispatched, Unknown
  <2>3. OneWaiter /\ Tracked
    BY DEF OneWaiter, Tracked, Dispatched
  <2>4. SentOnce /\ DoneIsFinal
    BY EmptyRange, OnceEmpty DEF SentOnce, DoneIsFinal
  <2>5. Verdicts
    BY EmptyRange DEF Verdicts, Told
  <2> QED  BY <2>1, <2>2, <2>3, <2>4, <2>5 DEF IInv
<1>2. IInv /\ [Next]_vars => IInv'
  <2> SUFFICES ASSUME IInv, [Next]_vars
               PROVE  IInv'
    OBVIOUS
  <2>1. CASE Next
    <3>1. Undispatched' /\ OneWaiter' /\ Tracked' /\ SentOnce' /\ DoneIsFinal' /\ Verdicts'
      BY <2>1, UndispatchedStep, OneWaiterStep, TrackedStep, SentOnceStep, DoneIsFinalStep,
         VerdictsStep DEF IInv
    <3> QED  BY <2>1, <3>1, TypeStep DEF IInv
  <2>2. CASE UNCHANGED vars
    <3> USE <2>2 DEF vars, terminal, links, caller, waiters, queues, wires, daemon
    <3>1. TypeOK'
      BY DEF IInv, TypeOK
    <3>2. Undispatched' /\ OneWaiter' /\ Tracked'
      BY DEF IInv, Undispatched, Dispatched, Unknown, OneWaiter, Tracked
    <3>3. SentOnce' /\ DoneIsFinal'
      BY DEF IInv, SentOnce, DoneIsFinal
    <3>4. Verdicts'
      BY DEF IInv, Verdicts, Told, Verdict
    <3> QED  BY <3>1, <3>2, <3>3, <3>4 DEF IInv
  <2> QED  BY <2>1, <2>2
<1> QED  BY <1>1, <1>2, PTL DEF Spec

\* Every variable keeps its type; no waiter is both open and closed, and none
\* is filled past its capacity.
THEOREM ExecTypeCorrect == Spec => []TypeOK
<1>1. IInv => TypeOK
  BY DEF IInv
<1> QED  BY <1>1, ExecInvariant, PTL

\* A caller that drains its events under a bridge that has been unregistered
\* and cleaned up has a closed waiter, or its Done at hand: a waiter of a
\* draining caller is in recorded while the bridge is up and in releasing from
\* the moment UnregisterBridge takes it until CleanupLocalExecWaitersFor closes it.
THEOREM CallersReleased == Spec => []ReleasedWithBridge
<1>1. IInv => ReleasedWithBridge
  BY LocalExecAssumption DEF IInv, Undispatched, OneWaiter, Tracked, ReleasedWithBridge
<1> QED  BY <1>1, ExecInvariant, PTL

\* A caller that is still there is answered with the verdict of its own
\* command: the one Done of a request is sent after its handler has returned,
\* and nothing but the Done closes the waiter of such a caller.
THEOREM AnswersAreEarned == Spec => []AnswerEarned
<1>1. IInv => AnswerEarned
  <2> SUFFICES ASSUME IInv, NEW r \in Requests, phase[r] = "returned",
                      r \notin expired, bridge[Owner[r]] = "up"
               PROVE  /\ resp[r] = Verdict(r)
                      /\ resp[r] = "ok" <=> exit[r] = "ok"
                      /\ resp[r] = "denied" <=> exit[r] = "none"
    BY DEF AnswerEarned
  <2>1. resp[r] = Verdict(r)
    BY DEF IInv, Verdicts, Told
  <2>2. /\ cut[r] \in {"no", "cancelled", "timeout"}
        /\ exit[r] \in {"none", "ok", "fail", "killed"}
    BY DEF IInv, TypeOK
  <2> QED  BY <2>1, <2>2 DEF Verdict
<1> QED  BY <1>1, ExecInvariant, PTL

\* While a desktop is connected the index leads to its session, whichever
\* server.Sync of an earlier connection returns late.
THEOREM IndexStaysFresh == Spec => []IndexFresh
<1>1. Init => IndexFresh
  BY DEF Init, IndexFresh
<1>2. IndexFresh /\ [Next]_vars => IndexFresh'
  <2> SUFFICES ASSUME IndexFresh, [Next]_vars
               PROVE  IndexFresh'
    OBVIOUS
  <2>1. CASE UNCHANGED links
    BY <2>1 DEF IndexFresh, links
  <2>2. CASE Connect \/ Disconnect
    BY <2>2 DEF Connect, Disconnect, IndexFresh
  <2>3. ASSUME NEW k \in Sessions, SyncReturns(k)
        PROVE  IndexFresh'
    BY <2>3 DEF SyncReturns, Unregister, IndexFresh
  <2> QED  BY <2>1, <2>2, <2>3, LinkFrame DEF vars
<1> QED  BY <1>1, <1>2, PTL DEF Spec
=============================================================================
