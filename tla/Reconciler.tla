----------------------------- MODULE Reconciler -----------------------------
(***************************************************************************)
(* The reconciler of internal/syncthing: a loop that compares the          *)
(* Syncthing configuration with the desired one and writes corrections     *)
(* back, one PUT at a time, while the configuration and the desired state  *)
(* may change under it.                                                    *)
(*                                                                         *)
(* A tick is not atomic: it takes a snapshot of the desired state, reads   *)
(* the configuration, and then works through four phases of writes         *)
(* (options, quarantine, cleanup, forward), each write retried up to       *)
(* MaxAttempts times.  Between any two of these steps the desired state    *)
(* may be replaced (SetDesired) and the configuration edited by others.    *)
(***************************************************************************)
EXTENDS Naturals, FiniteSets

CONSTANTS
    FolderIds,        \* folder ids (kari1_... and foreign ones)
    DeviceIds,        \* Syncthing device ids
    Types,            \* a folder's type and path, as one value
    Unset,            \* the empty type: "do not assert this field"
    DefaultType,      \* what Syncthing fills in for a new folder left Unset
    OptionSets,       \* values of the four global options, taken together
    NoFolder,         \* no folder with this id
    None,             \* no reason, no snapshot
    InitialActual,    \* configurations Syncthing may start with
    SettableDesired,  \* desired states the callers of SetDesired pass
    RogueFolders,     \* what an edit outside the reconciler makes of a folder
    MaxAttempts,      \* len(backoffs)
    MaxFaults,        \* bound: failing REST calls and cancelled contexts
    MaxEdits          \* bound: SetDesired calls and rogue edits

(* What Syncthing stores always has a type; what is desired may leave it.  *)
FolderCfg(ts) == [paused : BOOLEAN, devices : SUBSET DeviceIds, type : ts]
Stored  == FolderCfg(Types)
Asked   == FolderCfg(Types \cup {Unset})
Config  == [options : OptionSets, folders : [FolderIds -> Stored \cup {NoFolder}]]
Desired == [options : OptionSets, folders : [FolderIds -> Asked \cup {NoFolder}]]

OptionsTarget == "options"
Targets == FolderIds \cup {OptionsTarget}
Phases == {"idle", "get", "options", "quarantine", "cleanup", "forward", "done"}

ASSUME ConstantsAssumption ==
    /\ NoFolder \notin Asked
    /\ None \notin Config \cup Desired \cup Targets
    /\ OptionsTarget \notin FolderIds
    /\ DefaultType \in Types /\ Unset \notin Types
    /\ InitialActual \subseteq Config /\ SettableDesired \subseteq Desired
    /\ RogueFolders \subseteq Stored \cup {NoFolder}
    /\ MaxAttempts \in Nat \ {0} /\ MaxFaults \in Nat /\ MaxEdits \in Nat

VARIABLES
    actual,           \* the configuration Syncthing holds
    desired,          \* r.desired
    blocked,          \* r.blocked
    blockReason,      \* r.blockReason, as the target of the PUT that failed
    coldSafetyFailed, \* r.coldSafetyFailed
    requested,        \* r.requestCh holds a signal
    lastTickErr,      \* r.lastTickErr # nil
    loopAlive,        \* Run's ctx is not cancelled
    runner,           \* who holds runMu: "none", "tick", "operator"
    phase,            \* where the tick is
    snap,             \* the tick's `desired`
    snapBlocked,      \* the tick's `blocked`
    seen,             \* the tick's `cfg`
    todo,             \* writes this phase still has to make
    repaired,         \* anyRepairThisTick
    attempt,          \* failed attempts of the write in progress
    priorReason,      \* OperatorRetry's priorReason
    disturbed,        \* history: configuration edited since the tick read it
    faults, edits     \* how much of the bounds is used up

latchVars == <<blocked, blockReason, coldSafetyFailed>>
tickVars  == <<runner, phase, snap, snapBlocked, seen, todo, repaired, attempt,
               priorReason>>
vars == <<actual, desired, latchVars, requested, lastTickErr, loopAlive,
          tickVars, disturbed, faults, edits>>

TypeOK ==
    /\ actual \in Config /\ desired \in Desired
    /\ blocked \in BOOLEAN /\ blockReason \in Targets \cup {None}
    /\ coldSafetyFailed \in Nat
    /\ requested \in BOOLEAN /\ lastTickErr \in BOOLEAN /\ loopAlive \in BOOLEAN
    /\ runner \in {"none", "tick", "operator"} /\ phase \in Phases
    /\ snap \in Desired \cup {None} /\ seen \in Config \cup {None}
    /\ snapBlocked \in BOOLEAN /\ todo \subseteq Targets
    /\ repaired \in BOOLEAN /\ attempt \in 0 .. MaxAttempts - 1
    /\ priorReason \in Targets \cup {None} /\ disturbed \in BOOLEAN
    /\ faults \in 0 .. MaxFaults /\ edits \in 0 .. MaxEdits

-----------------------------------------------------------------------------
(* What a tick makes of one folder: a is the observed one, d the desired.  *)

Strays(a, d)  == a.devices \ d.devices
Missing(a, d) == d.devices \ a.devices

CleanupDrift(a, d) ==
    \/ Strays(a, d) # {}
    \/ d.paused /\ ~a.paused
    \/ a.type # d.type

ForwardDriftDevicesOnly(a, d) == Missing(a, d) # {}                      \* faulty
ForwardDrift(a, d) ==
    \/ Missing(a, d) # {}
    \/ a.paused /\ ~d.paused

CleanupFolderKeepsStrays(a, d) ==                                       \* faulty
    [paused |-> TRUE, devices |-> a.devices, type |-> d.type]
CleanupFolder(a, d) ==
    [paused |-> TRUE, devices |-> a.devices \cap d.devices, type |-> d.type]

Has(c, f) == c.folders[f] # NoFolder

ToQuarantine(c, d) ==
    {f \in FolderIds : Has(c, f) /\ ~Has(d, f) /\ ~c.folders[f].paused}

ToClean(c, d) ==
    {f \in FolderIds : Has(c, f) /\ Has(d, f)
                        /\ CleanupDrift(c.folders[f], d.folders[f])}

ToForward(c, d) ==
    {f \in FolderIds : Has(d, f) /\ (Has(c, f) =>
                        /\ ~CleanupDrift(c.folders[f], d.folders[f])
                        /\ ForwardDrift(c.folders[f], d.folders[f]))}

(* Forward writes need an open latch at the tick's start and no repair     *)
(* earlier in the tick; cleanup needs neither.                             *)
CleanupWorkGated(c) == IF snapBlocked THEN {} ELSE ToClean(c, snap)     \* faulty
CleanupWork(c) == ToClean(c, snap)

ForwardWorkSameTick(c) == IF snapBlocked THEN {} ELSE ToForward(c, snap) \* faulty
ForwardWork(c) == IF snapBlocked \/ repaired THEN {} ELSE ToForward(c, snap)

(* The writes a phase makes, from the observed configuration c.            *)
Work(ph, c) ==
    CASE ph = "options"    -> IF c.options # snap.options THEN {OptionsTarget} ELSE {}
      [] ph = "quarantine" -> ToQuarantine(c, snap)
      [] ph = "cleanup"    -> CleanupWork(c)
      [] ph = "forward"    -> ForwardWork(c)
      [] OTHER             -> {}

NextPhase(ph) ==
    CASE ph = "options"    -> "quarantine"
      [] ph = "quarantine" -> "cleanup"
      [] ph = "cleanup"    -> "forward"
      [] OTHER             -> "done"

(* The write in progress: a loop over a list fixes some order of todo.     *)
Current == CHOOSE t \in todo : TRUE

Payload(f) ==
    CASE phase = "quarantine" -> [seen.folders[f] EXCEPT !.paused = TRUE]
      [] phase = "cleanup"    -> CleanupFolder(seen.folders[f], snap.folders[f])
      [] OTHER                -> snap.folders[f]

(* PutFolder overlays the fields Kari owns on what Syncthing has now; an   *)
(* empty type leaves the type alone.                                       *)
Overlay(old, f) ==
    [f EXCEPT !.type = IF f.type # Unset THEN f.type
                       ELSE IF old = NoFolder THEN DefaultType ELSE old.type]

Written(t) ==
    IF t = OptionsTarget THEN [actual EXCEPT !.options = snap.options]
    ELSE [actual EXCEPT !.folders[t] = Overlay(@, Payload(t))]

-----------------------------------------------------------------------------
(* NewReconciler: the latch open, no signal, no tick.                      *)
Fresh ==
    /\ blocked = FALSE /\ blockReason = None /\ coldSafetyFailed = 0
    /\ requested = FALSE /\ lastTickErr = FALSE
    /\ runner = "none" /\ phase = "idle"
    /\ snap = None /\ snapBlocked = FALSE /\ seen = None
    /\ todo = {} /\ repaired = FALSE /\ attempt = 0 /\ priorReason = None
    /\ disturbed = FALSE /\ faults = 0 /\ edits = 0

Init ==
    /\ actual \in InitialActual
    /\ desired \in SettableDesired
    /\ loopAlive = TRUE
    /\ Fresh

(* reconcileLocked's first critical section: snapshot under mu.            *)
Begin(who, isBlocked) ==
    /\ runner = "none"
    /\ runner' = who
    /\ phase' = "get"
    /\ snap' = desired
    /\ snapBlocked' = isBlocked
    /\ UNCHANGED <<seen, todo, repaired, attempt>>

(* The tick's locals go out of scope and runMu is released.                *)
Release ==
    /\ runner' = "none" /\ phase' = "idle"
    /\ snap' = None /\ snapBlocked' = FALSE /\ seen' = None
    /\ todo' = {} /\ repaired' = FALSE /\ attempt' = 0 /\ priorReason' = None
    /\ disturbed' = FALSE

(* Run takes a signal, or its ticker fires, and Reconcile takes runMu.     *)
LoopTick ==
    /\ loopAlive
    /\ Begin("tick", blocked)
    /\ UNCHANGED <<actual, desired, latchVars, lastTickErr, loopAlive,
                   priorReason, disturbed, faults, edits>>
SignalTick == requested /\ requested' = FALSE /\ LoopTick
TickerTick == UNCHANGED requested /\ LoopTick

(* OperatorRetry: refused unless blocked; clears the latch and runs a tick.*)
OperatorRetry ==
    /\ blocked
    /\ Begin("operator", FALSE)
    /\ priorReason' = blockReason
    /\ blocked' = FALSE /\ blockReason' = None
    /\ UNCHANGED <<actual, desired, coldSafetyFailed, requested, lastTickErr,
                   loopAlive, disturbed, faults, edits>>

(* The tick returns an error: runOneTick records it; OperatorRetry puts    *)
(* the latch back unless the tick has set it again itself.  b and why are  *)
(* the latch as the tick leaves it.                                        *)
ReturnErrorUnlatched(b, why) ==                                         \* faulty
    /\ blocked' = b /\ blockReason' = why
    /\ lastTickErr' = IF runner = "tick" THEN TRUE ELSE lastTickErr
    /\ Release
ReturnError(b, why) ==
    /\ IF runner = "operator" /\ ~b
       THEN blocked' = TRUE /\ blockReason' = priorReason
       ELSE blocked' = b /\ blockReason' = why
    /\ lastTickErr' = IF runner = "tick" THEN TRUE ELSE lastTickErr
    /\ Release

GetConfigOk ==
    /\ phase = "get"
    /\ loopAlive \/ runner = "operator"
    /\ seen' = actual
    /\ disturbed' = FALSE
    /\ phase' = "options"
    /\ todo' = Work("options", actual)
    /\ UNCHANGED <<actual, desired, latchVars, requested, lastTickErr, loopAlive,
                   runner, snap, snapBlocked, repaired, attempt, priorReason,
                   faults, edits>>

(* A failed GetConfig ends the tick and leaves the latch alone.  With the  *)
(* loop's context cancelled every call of a loop tick fails.               *)
GetConfigFails ==
    /\ phase = "get"
    /\ IF runner = "tick" /\ ~loopAlive THEN UNCHANGED faults
       ELSE faults < MaxFaults /\ faults' = faults + 1
    /\ ReturnError(blocked, blockReason)
    /\ UNCHANGED <<actual, desired, coldSafetyFailed, requested, loopAlive, edits>>

PutOk ==
    /\ todo # {}
    /\ loopAlive \/ runner = "operator"
    /\ actual' = Written(Current)
    /\ todo' = todo \ {Current}
    /\ attempt' = 0
    /\ repaired' = (repaired \/ phase # "forward")
    /\ UNCHANGED <<desired, latchVars, requested, lastTickErr, loopAlive, runner,
                   phase, snap, snapBlocked, seen, priorReason, disturbed,
                   faults, edits>>

(* retry gives up after the last of its MaxAttempts attempts.              *)
MoreAttemptsByOne == attempt < MaxAttempts                              \* faulty
MoreAttempts == attempt + 1 < MaxAttempts

(* One attempt fails.  Syncthing may have applied a write whose answer was *)
(* lost.  The last attempt latches the reconciler and ends the tick.       *)
PutFails ==
    /\ todo # {}
    /\ IF runner = "tick" /\ ~loopAlive THEN actual' = actual /\ UNCHANGED faults
       ELSE /\ faults < MaxFaults /\ faults' = faults + 1
            /\ actual' \in {actual, Written(Current)}
    /\ IF MoreAttempts
       THEN /\ attempt' = attempt + 1
            /\ UNCHANGED <<latchVars, lastTickErr, runner, phase, snap,
                           snapBlocked, seen, todo, repaired, priorReason,
                           disturbed>>
       ELSE /\ coldSafetyFailed' = coldSafetyFailed + (IF blocked THEN 0 ELSE 1)
            /\ ReturnError(TRUE, Current)
    /\ UNCHANGED <<desired, requested, loopAlive, edits>>

(* The context is cancelled while the retry loop sleeps: the tick returns  *)
(* ctx.Err() and does not latch.                                           *)
PutCancelled ==
    /\ todo # {} /\ attempt > 0
    /\ IF runner = "tick" THEN ~loopAlive /\ UNCHANGED faults
       ELSE faults < MaxFaults /\ faults' = faults + 1
    /\ ReturnError(blocked, blockReason)
    /\ UNCHANGED <<actual, desired, coldSafetyFailed, requested, loopAlive, edits>>

(* A phase with nothing left to write gives way to the next one.           *)
Advance ==
    /\ phase \notin {"idle", "get", "done"}
    /\ todo = {}
    /\ phase' = NextPhase(phase)
    /\ todo' = Work(NextPhase(phase), seen)
    /\ UNCHANGED <<actual, desired, latchVars, requested, lastTickErr, loopAlive,
                   runner, snap, snapBlocked, seen, repaired, attempt,
                   priorReason, disturbed, faults, edits>>

(* The tick returns nil.  Only a successful OperatorRetry resets the count.*)
ReturnOkDraining ==                                                     \* faulty
    /\ phase = "done"
    /\ coldSafetyFailed' = IF runner = "operator" THEN 0 ELSE coldSafetyFailed
    /\ lastTickErr' = IF runner = "tick" THEN FALSE ELSE lastTickErr
    /\ requested' = FALSE
    /\ Release
    /\ UNCHANGED <<actual, desired, blocked, blockReason, loopAlive, faults, edits>>
ReturnOk ==
    /\ phase = "done"
    /\ coldSafetyFailed' = IF runner = "operator" THEN 0 ELSE coldSafetyFailed
    /\ lastTickErr' = IF runner = "tick" THEN FALSE ELSE lastTickErr
    /\ Release
    /\ UNCHANGED <<actual, desired, blocked, blockReason, requested, loopAlive,
                   faults, edits>>

TickStep == GetConfigOk \/ GetConfigFails \/ PutOk \/ PutFails \/ PutCancelled
            \/ Advance \/ ReturnOk

-----------------------------------------------------------------------------
(* The reconciler's surroundings.                                          *)

SetDesired(d) ==
    /\ edits < MaxEdits /\ edits' = edits + 1
    /\ desired' = d
    /\ UNCHANGED <<actual, latchVars, requested, lastTickErr, loopAlive, tickVars,
                   disturbed, faults>>

RequestReconcile ==
    /\ requested' = TRUE
    /\ UNCHANGED <<actual, desired, latchVars, lastTickErr, loopAlive, tickVars,
                   disturbed, faults, edits>>

(* Someone else edits Syncthing's configuration: one folder, or an option. *)
RogueEdit ==
    /\ edits < MaxEdits /\ edits' = edits + 1
    /\ \/ \E f \in FolderIds, cfg \in RogueFolders :
             actual' = [actual EXCEPT !.folders[f] = cfg]
       \/ \E o \in OptionSets : actual' = [actual EXCEPT !.options = o]
    /\ disturbed' = (phase \notin {"idle", "get"})
    /\ UNCHANGED <<desired, latchVars, requested, lastTickErr, loopAlive, tickVars,
                   faults>>

Shutdown ==
    /\ loopAlive
    /\ loopAlive' = FALSE
    /\ UNCHANGED <<actual, desired, latchVars, requested, lastTickErr, tickVars,
                   disturbed, faults, edits>>

Environment == (\E d \in SettableDesired : SetDesired(d))
               \/ RequestReconcile \/ RogueEdit \/ Shutdown

Next == SignalTick \/ TickerTick \/ OperatorRetry \/ TickStep \/ Environment

Spec == Init /\ [][Next]_vars

(* A pending signal is taken, and a tick under way keeps running.  That    *)
(* the ticker fires (karid passes 10 s) is a premise of its own, because a *)
(* signal has to be heeded without it.                                     *)
FairSpec == Spec /\ WF_vars(SignalTick) /\ WF_vars(TickStep)
TickerFires == WF_vars(TickerTick)
-----------------------------------------------------------------------------
(* Properties.                                                             *)

(* c exposes nothing d does not ask for: options pinned, folders unknown   *)
(* to d paused, the others without stray devices, with the desired type,   *)
(* and paused if d says so.                                                *)
Safe(c, d) ==
    /\ c.options = d.options
    /\ \A f \in FolderIds : Has(c, f) =>
          IF ~Has(d, f) THEN c.folders[f].paused
          ELSE /\ c.folders[f].devices \subseteq d.folders[f].devices
               /\ d.folders[f].paused => c.folders[f].paused
               /\ d.folders[f].type \in {c.folders[f].type, Unset}

Converged(c, d) ==
    /\ Safe(c, d)
    /\ \A f \in FolderIds : Has(d, f) =>
          /\ Has(c, f)
          /\ c.folders[f].devices = d.folders[f].devices
          /\ c.folders[f].paused = d.folders[f].paused

(* The widening direction: a folder created, unpaused or given a device.   *)
Widens(old, new) ==
    /\ new # NoFolder
    /\ \/ old = NoFolder
       \/ ~(new.devices \subseteq old.devices)
       \/ old.paused /\ ~new.paused

(* Outside a running OperatorRetry the latch, its reason and the counter   *)
(* an operator reads agree: blocked, with the write that failed named, iff *)
(* coldSafetyFailed is positive.  (enterBlocked, OperatorRetry's clear,    *)
(* restore and reset.)                                                     *)
LatchHonest ==
    /\ blocked <=> blockReason # None
    /\ runner # "operator" => (blocked <=> coldSafetyFailed > 0)
    /\ runner = "operator" => coldSafetyFailed > 0

(* A tick that runs to its end without an outside edit leaves Syncthing    *)
(* exposing nothing beyond the tick's desired state, latched or not; if it *)
(* had nothing to repair and the latch was open, it leaves exactly that    *)
(* state.  (reconcileLocked as a whole.)                                   *)
TickLeavesSafe ==
    phase = "done" /\ ~disturbed =>
        /\ Safe(actual, snap)
        /\ ~repaired /\ ~snapBlocked => Converged(actual, snap)

(* A reconciler write that widens what the tick observed of a folder needs *)
(* an open latch at that moment and an observed configuration in which     *)
(* nothing at all was out of line, and never exceeds the desired folder.   *)
(* (The forward pass: "same tick no unpause", migration 4.5 step 5.)       *)
WideningIsEarned ==
    [][ \A f \in FolderIds :
          /\ edits' = edits
          /\ actual'.folders[f] # actual.folders[f]
          /\ Widens(seen.folders[f], actual'.folders[f])
          => /\ ~blocked
             /\ Safe(seen, snap)
             /\ Has(snap, f)
             /\ ~Widens(snap.folders[f], actual'.folders[f]) ]_vars

(* Once edits and faults end, the exposure is cut back and stays cut back  *)
(* even while the reconciler is latched: cleanup is not gated by blocked.  *)
EventuallySafe == TickerFires => <>[](Safe(actual, desired) \/ ~loopAlive)

(* ... and, unless latched, the desired state is reached and kept.         *)
EventuallyConverged ==
    TickerFires => <>[](Converged(actual, desired) \/ blocked \/ ~loopAlive)

(* A signal pending after SetDesired is enough, without the ticker, for a  *)
(* tick that works from that desired state: coalescing in the one-slot     *)
(* channel and a signal sent in mid-tick lose nothing.                     *)
SignalIsHeeded ==
    \A d \in SettableDesired :
        (requested /\ desired = d) ~> (snap = d \/ desired # d \/ ~loopAlive)
=============================================================================
