------------------------ MODULE LeaseMembershipProofs ------------------------
(***************************************************************************)
(* For any number of sessions, any timings and any length of run: the      *)
(* generation counter, the tombstones and the once-only close hook of      *)
(* LeaseMembership keep an earlier session from taking a later one's       *)
(* membership away, provided the hook goes through RevokeIfCurrent.        *)
(***************************************************************************)
EXTENDS LeaseMembership, TLAPS

(* What ties the store to the sessions.  The current generation belongs to *)
(* one session; it is active until that session's own hook has run.        *)
Bookkeeping ==
    /\ active => holder \in Sessions /\ gen[holder] = generation
    /\ \A s \in Sessions : lease[s] # "none" => gen[s] > 0
    /\ \A s \in Sessions : lease[s] = "none" => loop[s] = "off"
    /\ \A s \in Sessions : hook[s] = "idle" <=> lease[s] # "paused"
    /\ \A s \in Sessions : gen[s] > 0 /\ gen[s] = generation /\ hook[s] # "done"
                              => active /\ holder = s
    /\ \A s \in Sessions : gen[s] > 0 /\ active /\ gen[s] = generation
                              => hook[s] # "done"

IInv == TypeOK /\ GenerationsDistinct /\ Bookkeeping /\ ClosedOnce

(* The initial state satisfies the inductive invariant.                    *)
LEMMA InitIInv == Init => IInv
<1> SUFFICES ASSUME Init PROVE IInv
  OBVIOUS
<1>1. TypeOK
  <2>1. clock \in 0 .. MaxClock
    BY LeaseAssumption DEF Init
  <2>2. /\ gen \in [Sessions -> Nat] /\ lastAuthorizedAt \in [Sessions -> Nat]
        /\ hookRuns \in [Sessions -> Nat]
    BY DEF Init
  <2>3. /\ lease \in [Sessions -> States] /\ loop \in [Sessions -> Loops]
        /\ hook \in [Sessions -> Hooks]
    BY DEF Init, States, Loops, Hooks
  <2> QED
    BY <2>1, <2>2, <2>3 DEF Init, TypeOK
<1>2. GenerationsDistinct /\ ClosedOnce
  BY DEF Init, GenerationsDistinct, ClosedOnce
<1>3. Bookkeeping
  BY DEF Init, Bookkeeping
<1> QED
  BY <1>1, <1>2, <1>3 DEF IInv

(* Every step keeps the types (what each handler assigns is of the right   *)
(* kind; a lease in grace at time 0 is where the offset matters).          *)
LEMMA TypeStep == TypeOK /\ [Next]_vars => TypeOK'
<1> SUFFICES ASSUME TypeOK, [Next]_vars PROVE TypeOK'
  OBVIOUS
<1> USE LeaseAssumption DEF TypeOK, States, Loops, Hooks
<1>1. CASE UNCHANGED vars
  BY <1>1 DEF vars, storeVars, leaseVars
<1>2. CASE PassTime
  BY <1>2 DEF PassTime, storeVars, leaseVars
<1>3. ASSUME NEW s \in Sessions, Step(s) PROVE TypeOK'
  <2>1. CASE AllocateGeneration(s)
    BY <2>1 DEF AllocateGeneration, leaseVars
  <2>2. CASE NewLease(s)
    BY <2>2 DEF NewLease, Stamp, storeVars
  <2>3. CASE Touch(s)
    BY <2>3 DEF Touch, Stamp, storeVars
  <2>4. CASE MarkStreamError(s)
    <3>1. Stamp - GraceOffset = clock
      BY DEF Stamp
    <3> QED
      BY <2>4, <3>1 DEF MarkStreamError, storeVars
  <2>5. CASE CloseSession(s)
    BY <2>5 DEF CloseSession, ForceClose, storeVars
  <2>6. CASE RunHook(s)
    BY <2>6 DEF RunHook, RevokeIfCurrent, Revoke, storeVars, leaseVars
  <2>7. CASE CheckTimeout(s)
    BY <2>7 DEF CheckTimeout, storeVars, leaseVars
  <2>8. CASE Expire(s)
    BY <2>8 DEF Expire, ForceClose, storeVars
  <2> QED
    BY <1>3, <2>1, <2>2, <2>3, <2>4, <2>5, <2>6, <2>7, <2>8 DEF Step
<1> QED
  BY <1>1, <1>2, <1>3 DEF Next

(* Closing a lease, by whichever path, keeps the bookkeeping.              *)
LEMMA CloseStep ==
    ASSUME IInv, NEW s \in Sessions, ForceClose(s), lease[s] # "none",
           UNCHANGED <<storeVars, gen>>, loop' \in [Sessions -> Loops],
           \A t \in Sessions : t # s => loop'[t] = loop[t]
    PROVE  (GenerationsDistinct /\ Bookkeeping /\ ClosedOnce)'
  BY LeaseAssumption DEF IInv, TypeOK, ForceClose, GenerationsDistinct,
     Bookkeeping, ClosedOnce, storeVars, Hooks, States

(* Every step keeps the bookkeeping, if the hook is the guarded one.       *)
LEMMA BookkeepingStep ==
    ASSUME HookIsGuarded, IInv, [Next]_vars
    PROVE  (GenerationsDistinct /\ Bookkeeping /\ ClosedOnce)'
<1> USE LeaseAssumption DEF IInv, TypeOK, GenerationsDistinct, Bookkeeping,
        ClosedOnce, States, Loops, Hooks
<1>1. CASE UNCHANGED vars
  BY <1>1 DEF vars, storeVars, leaseVars
<1>2. CASE PassTime
  BY <1>2 DEF PassTime, storeVars, leaseVars
<1>3. ASSUME NEW s \in Sessions, Step(s)
      PROVE  (GenerationsDistinct /\ Bookkeeping /\ ClosedOnce)'
  <2>1. CASE AllocateGeneration(s)
    BY <2>1 DEF AllocateGeneration, leaseVars
  <2>2. CASE NewLease(s)
    BY <2>2 DEF NewLease, storeVars
  <2>3. CASE Touch(s)
    BY <2>3 DEF Touch, Open, storeVars
  <2>4. CASE MarkStreamError(s)
    BY <2>4 DEF MarkStreamError, Open, storeVars
  <2>5. CASE CloseSession(s)
    BY <2>5, CloseStep DEF CloseSession
  <2>6. CASE RunHook(s)
    BY <2>6 DEF RunHook, RevokeIfCurrent, Revoke, storeVars, leaseVars
  <2>7. CASE CheckTimeout(s)
    BY <2>7 DEF CheckTimeout, storeVars, leaseVars
  <2>8. CASE Expire(s)
    BY <2>8, CloseStep DEF Expire
  <2> QED
    BY <1>3, <2>1, <2>2, <2>3, <2>4, <2>5, <2>6, <2>7, <2>8 DEF Step
<1> QED
  BY <1>1, <1>2, <1>3 DEF Next

LEMMA StepIInv == HookIsGuarded /\ IInv /\ [Next]_vars => IInv'
  BY TypeStep, BookkeepingStep DEF IInv

(* The types hold of every behaviour, whatever the hook does.              *)
THEOREM TypeCorrect == Spec => []TypeOK
<1>1. Init => TypeOK
  BY InitIInv DEF IInv
<1> QED
  BY <1>1, TypeStep, PTL DEF Spec

(* IInv holds of every behaviour whose hook calls RevokeIfCurrent.         *)
THEOREM Inductive == HookIsGuarded => (Spec => []IInv)
<1>1. SUFFICES ASSUME HookIsGuarded PROVE Spec => []IInv
  OBVIOUS
<1>2. IInv /\ [Next]_vars => IInv'
  BY <1>1, StepIInv
<1> QED
  BY <1>2, InitIInv, PTL DEF Spec

(* Generations are never reused: two sessions never hold the same one,     *)
(* across any number of revocations.  (AllocateGeneration.)                *)
THEOREM GenerationsNeverReused == HookIsGuarded => (Spec => []GenerationsDistinct)
<1>1. IInv => GenerationsDistinct
  BY DEF IInv
<1> QED
  BY <1>1, Inductive, PTL

(* A late close hook does not touch the membership of the session that has *)
(* taken over.  (RevokeIfCurrent, against every interleaving of attach,    *)
(* close and timeout.)                                                     *)
THEOREM TakeoverIsSafe == HookIsGuarded => (Spec => []OpenHolderIsCurrent)
<1>1. IInv => OpenHolderIsCurrent
  BY LeaseAssumption DEF IInv, OpenHolderIsCurrent, Bookkeeping, Open, Validates,
     TypeOK, States, Hooks
<1> QED
  BY <1>1, Inductive, PTL

(* No generation validates once its session's hook has run.                *)
THEOREM ZombiesRejected == HookIsGuarded => (Spec => []NoZombie)
<1>1. IInv => NoZombie
  BY LeaseAssumption DEF IInv, NoZombie, Bookkeeping, Validates, TypeOK
<1> QED
  BY <1>1, Inductive, PTL

(* ForceClose and the timeout race, and the hook is entered once.          *)
THEOREM HookOnce == HookIsGuarded => (Spec => []ClosedOnce)
<1>1. IInv => ClosedOnce
  BY DEF IInv
<1> QED
  BY <1>1, Inductive, PTL
(* Every step keeps the bound of NoOverrun: a check decides within its     *)
(* tick, and of what may happen to an open lease between that check and    *)
(* the next tick only a stream error ages it, by GraceOffset.              *)
LEMMA OverrunStep ==
    ASSUME GraceOffset < Timeout, TypeOK, NoOverrun, [Next]_vars
    PROVE  NoOverrun'
<1> USE LeaseAssumption DEF TypeOK, NoOverrun, Open, Elapsed, Stamp
<1>1. CASE UNCHANGED vars
  BY <1>1 DEF vars, storeVars, leaseVars
<1>2. CASE PassTime
  BY <1>2 DEF PassTime
<1>3. ASSUME NEW s \in Sessions, Step(s) PROVE NoOverrun'
  <2>1. CASE AllocateGeneration(s)
    BY <2>1 DEF AllocateGeneration, leaseVars
  <2>2. CASE NewLease(s)
    BY <2>2 DEF NewLease
  <2>3. CASE Touch(s)
    BY <2>3 DEF Touch
  <2>4. CASE MarkStreamError(s)
    BY <2>4 DEF MarkStreamError
  <2>5. CASE CloseSession(s)
    BY <2>5 DEF CloseSession, ForceClose
  <2>6. CASE RunHook(s)
    BY <2>6 DEF RunHook, leaseVars
  <2>7. CASE CheckTimeout(s)
    BY <2>7 DEF CheckTimeout, leaseVars
  <2>8. CASE Expire(s)
    BY <2>8 DEF Expire, ForceClose
  <2> QED
    BY <1>3, <2>1, <2>2, <2>3, <2>4, <2>5, <2>6, <2>7, <2>8 DEF Step
<1> QED
  BY <1>1, <1>2, <1>3 DEF Next

(* A lease that passed its tick's check is younger than Timeout whatever   *)
(* the store and the hook do, provided a stream error does not by itself   *)
(* use up the timeout, as it does not by default (45 s of 105 s).          *)
THEOREM NeverOverrun == GraceOffset < Timeout => (Spec => []NoOverrun)
<1>1. SUFFICES ASSUME GraceOffset < Timeout PROVE Spec => []NoOverrun
  OBVIOUS
<1>2. Init => NoOverrun
  BY DEF Init, NoOverrun
<1>3. TypeOK /\ NoOverrun /\ [Next]_vars => NoOverrun'
  BY <1>1, OverrunStep
<1> QED
  BY <1>2, <1>3, TypeCorrect, PTL DEF Spec
=============================================================================
