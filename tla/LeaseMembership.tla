--------------------------- MODULE LeaseMembership ---------------------------
(***************************************************************************)
(* Leases and the membership store of internal/syncthing, for one folder.  *)
(* Each session allocates a generation, holds a Lease with its own         *)
(* timeout goroutine, and closes through the lease's onClose hook while    *)
(* other sessions attach.  The store, the lease and the hook are each      *)
(* guarded by a mutex of their own; nothing guards the three together.     *)
(***************************************************************************)
EXTENDS Naturals, FiniteSets

CONSTANTS
    Sessions,
    None,
    Timeout,          \* LeaseOptions.Timeout, in ticks of TickInterval
    GraceOffset,      \* LeaseOptions.GraceOffset, likewise
    HookIsGuarded,    \* the hook calls RevokeIfCurrent rather than Revoke
    MaxClock          \* bound: how long a behaviour is followed

ASSUME LeaseAssumption ==
    /\ Timeout \in Nat \ {0} /\ GraceOffset \in 1 .. Timeout
    /\ HookIsGuarded \in BOOLEAN /\ MaxClock \in Nat
    /\ None \notin Sessions

VARIABLES
    clock,            \* now(), in ticks
    generation,       \* membershipEntry.generation
    active,           \* membershipEntry.active
    holder,           \* membershipEntry.membership.Identity, as the session
    gen,              \* each session's Identity.MembershipGeneration; 0 before
    lease,            \* each Lease's state; "none" before NewLease
    lastAuthorizedAt, \* each Lease's lastAuthorizedAt, shifted by GraceOffset
    loop,             \* each Run goroutine: see Loops
    hook,             \* each onClose hook: see Hooks
    hookRuns          \* history: how often each hook has been entered

storeVars == <<generation, active, holder>>
leaseVars == <<lease, lastAuthorizedAt>>
vars == <<clock, storeVars, gen, leaseVars, loop, hook, hookRuns>>

States == {"none", "active", "grace", "paused"}
Loops  == {"off", "waiting", "checked", "expiring", "exited"}
Hooks  == {"idle", "entered", "done"}

TypeOK ==
    /\ clock \in 0 .. MaxClock
    /\ generation \in Nat /\ active \in BOOLEAN /\ holder \in Sessions \cup {None}
    /\ gen \in [Sessions -> Nat]
    /\ lease \in [Sessions -> States]
    /\ lastAuthorizedAt \in [Sessions -> Nat]
    /\ loop \in [Sessions -> Loops] /\ hook \in [Sessions -> Hooks]
    /\ hookRuns \in [Sessions -> Nat]

Open(s) == lease[s] \in {"active", "grace"}

(* Times are kept GraceOffset ahead, so that a lease in grace from time 0  *)
(* still has a natural number to its name.                                 *)
Stamp == clock + GraceOffset
Elapsed(s) == Stamp - lastAuthorizedAt[s]

Init ==
    /\ clock = 0
    /\ generation = 0 /\ active = FALSE /\ holder = None
    /\ gen = [s \in Sessions |-> 0]
    /\ lease = [s \in Sessions |-> "none"]
    /\ lastAuthorizedAt = [s \in Sessions |-> 0]
    /\ loop = [s \in Sessions |-> "off"]
    /\ hook = [s \in Sessions |-> "idle"]
    /\ hookRuns = [s \in Sessions |-> 0]

-----------------------------------------------------------------------------
(* The store.                                                              *)

AllocateReusing(s) ==                                                   \* faulty
    /\ gen[s] = 0
    /\ generation' = IF active THEN generation + 1 ELSE 1
    /\ active' = TRUE /\ holder' = s
    /\ gen' = [gen EXCEPT ![s] = IF active THEN generation + 1 ELSE 1]
    /\ UNCHANGED <<clock, leaseVars, loop, hook, hookRuns>>
AllocateGeneration(s) ==
    /\ gen[s] = 0
    /\ generation' = generation + 1
    /\ active' = TRUE /\ holder' = s
    /\ gen' = [gen EXCEPT ![s] = generation + 1]
    /\ UNCHANGED <<clock, leaseVars, loop, hook, hookRuns>>

Revoke == active' = FALSE /\ holder' = None /\ UNCHANGED generation

RevokeIfCurrentAlways(g) == Revoke                                      \* faulty
RevokeIfCurrentForgets(g) ==                                            \* faulty
    IF active /\ generation = g
    THEN holder' = None /\ UNCHANGED <<generation, active>>
    ELSE UNCHANGED storeVars
RevokeIfCurrent(g) ==
    IF active /\ generation = g THEN Revoke ELSE UNCHANGED storeVars

(* ValidateGeneration returns nil.                                         *)
Validates(g) == active /\ g = generation

-----------------------------------------------------------------------------
(* The lease.                                                              *)

NewLease(s) ==
    /\ gen[s] > 0 /\ lease[s] = "none"
    /\ lease' = [lease EXCEPT ![s] = "active"]
    /\ lastAuthorizedAt' = [lastAuthorizedAt EXCEPT ![s] = Stamp]
    /\ loop' = [loop EXCEPT ![s] = "waiting"]
    /\ UNCHANGED <<clock, storeVars, gen, hook, hookRuns>>

Touch(s) ==
    /\ Open(s)
    /\ lease' = [lease EXCEPT ![s] = "active"]
    /\ lastAuthorizedAt' = [lastAuthorizedAt EXCEPT ![s] = Stamp]
    /\ UNCHANGED <<clock, storeVars, gen, loop, hook, hookRuns>>

MarkStreamErrorTimeout(s) ==                                            \* faulty
    /\ Open(s)
    /\ lease' = [lease EXCEPT ![s] = "grace"]
    /\ lastAuthorizedAt' = [lastAuthorizedAt EXCEPT ![s] = Stamp - Timeout]
    /\ UNCHANGED <<clock, storeVars, gen, loop, hook, hookRuns>>
MarkStreamError(s) ==
    /\ Open(s)
    /\ lease' = [lease EXCEPT ![s] = "grace"]
    /\ lastAuthorizedAt' = [lastAuthorizedAt EXCEPT ![s] = Stamp - GraceOffset]
    /\ UNCHANGED <<clock, storeVars, gen, loop, hook, hookRuns>>

(* ForceClose: only the call that makes the transition enters the hook.    *)
ForceClose(s) ==
    IF lease[s] = "paused" THEN UNCHANGED <<lease, hook, hookRuns>>
    ELSE /\ lease' = [lease EXCEPT ![s] = "paused"]
         /\ hook' = [hook EXCEPT ![s] = "entered"]
         /\ hookRuns' = [hookRuns EXCEPT ![s] = @ + 1]

(* A server path closes the session: revoked, replaced, ended.             *)
CloseSession(s) ==
    /\ lease[s] # "none"
    /\ ForceClose(s)
    /\ UNCHANGED <<clock, storeVars, gen, lastAuthorizedAt, loop>>

(* The hook's call into the store, on ForceClose's goroutine.              *)
RunHook(s) ==
    /\ hook[s] = "entered"
    /\ IF HookIsGuarded THEN RevokeIfCurrent(gen[s])
       ELSE IF active THEN Revoke ELSE UNCHANGED storeVars
    /\ hook' = [hook EXCEPT ![s] = "done"]
    /\ UNCHANGED <<clock, gen, leaseVars, loop, hookRuns>>

(* checkTimeout's critical section, once per tick; it decides, unlocks ... *)
CheckTimeoutLate(s) ==                                                  \* faulty
    /\ loop[s] = "waiting"
    /\ loop' = [loop EXCEPT ![s] =
                  IF lease[s] = "paused" THEN "exited"
                  ELSE IF Elapsed(s) > Timeout THEN "expiring" ELSE "checked"]
    /\ UNCHANGED <<clock, storeVars, gen, leaseVars, hook, hookRuns>>
CheckTimeout(s) ==
    /\ loop[s] = "waiting"
    /\ loop' = [loop EXCEPT ![s] =
                  IF lease[s] = "paused" THEN "exited"
                  ELSE IF Elapsed(s) >= Timeout THEN "expiring" ELSE "checked"]
    /\ UNCHANGED <<clock, storeVars, gen, leaseVars, hook, hookRuns>>

(* ... and then closes, without looking again.                             *)
Expire(s) ==
    /\ loop[s] = "expiring"
    /\ loop' = [loop EXCEPT ![s] = "exited"]
    /\ ForceClose(s)
    /\ UNCHANGED <<clock, storeVars, gen, lastAuthorizedAt>>

(* A tick passes once every running loop has had its check of this one.    *)
PassTime ==
    /\ clock < MaxClock
    /\ \A s \in Sessions : loop[s] # "waiting"
    /\ clock' = clock + 1
    /\ loop' = [s \in Sessions |-> IF loop[s] = "checked" THEN "waiting" ELSE loop[s]]
    /\ UNCHANGED <<storeVars, gen, leaseVars, hook, hookRuns>>

Step(s) == AllocateGeneration(s) \/ NewLease(s) \/ Touch(s) \/ MarkStreamError(s)
           \/ CloseSession(s) \/ RunHook(s) \/ CheckTimeout(s) \/ Expire(s)
Next == PassTime \/ \E s \in Sessions : Step(s)

Spec == Init /\ [][Next]_vars

(* Goroutines that can run do: the loop's check and close, and the hook.   *)
FairSpec == Spec /\ WF_vars(PassTime)
            /\ \A s \in Sessions : /\ WF_vars(CheckTimeout(s)) /\ WF_vars(Expire(s))
                                   /\ WF_vars(RunHook(s))

-----------------------------------------------------------------------------
(* Properties.                                                             *)

(* Two sessions never hold the same generation, and no session holds one   *)
(* the store has not handed out: a control message of an earlier session   *)
(* cannot pass for the current one, even after a revocation.               *)
GenerationsDistinct ==
    \A s, t \in Sessions :
        /\ gen[s] <= generation
        /\ gen[s] > 0 /\ gen[s] = gen[t] => s = t

(* The session of the latest generation keeps its membership for as long   *)
(* as its lease is open: the close hook of an earlier session, however     *)
(* late it runs, does not take it away.  (RevokeIfCurrent.)                *)
OpenHolderIsCurrent ==
    \A s \in Sessions : Open(s) /\ gen[s] = generation
                            => Validates(gen[s]) /\ holder = s

(* A generation the store accepts is that of the session it names, and its *)
(* hook has not run.  (Revoke leaves a tombstone no generation matches.)   *)
NoZombie ==
    \A s \in Sessions : gen[s] > 0 /\ Validates(gen[s])
                            => holder = s /\ hook[s] # "done"

(* A closed lease stays closed and its hook is entered exactly once,       *)
(* whoever wins the race between ForceClose and the timeout.               *)
ClosedOnce ==
    \A s \in Sessions : hookRuns[s] = (IF lease[s] = "paused" THEN 1 ELSE 0)

(* A lease that passed this tick's check was authorized less than Timeout  *)
(* ago.                                                                    *)
NoOverrun ==
    \A s \in Sessions : loop[s] = "checked" /\ Open(s) => Elapsed(s) < Timeout

(* Every closed lease's membership ends: the generation stops validating.  *)
CloseRevokes ==
    \A s \in Sessions : lease[s] = "paused" ~> ~Validates(gen[s])
=============================================================================
